------------------------------- MODULE Asking -------------------------------
(***************************************************************************)
(* What a caller of run_privileged_script may rely on: every request gets  *)
(* one answer, a "yes" only when its script has run as root, and no script *)
(* runs twice.  After a "no" the script may have run all the same.         *)
(***************************************************************************)
EXTENDS Naturals, Sequences, SequencesExt

CONSTANT Requests   \* how many requests are made

VARIABLES
    state,      \* idle, asked, yes, no; gone: the program has left
    n,          \* the number of the last request
    done        \* the requests whose script has run, in order

vars == <<state, n, done>>

Init == state = "idle" /\ n = 0 /\ done = <<>>

Ask == state = "idle" /\ n < Requests /\ state' = "asked" /\ n' = n + 1 /\ done' = done

Perform(i) == i <= n /\ i \notin ToSet(done) /\ done' = Append(done, i) /\ UNCHANGED <<state, n>>

Answer ==
    /\ state = "asked"
    /\ state' = "no" \/ (state' = "yes" /\ n \in ToSet(done))
    /\ UNCHANGED <<n, done>>

Hear == state \in {"yes", "no"} /\ state' = "idle" /\ UNCHANGED <<n, done>>
Leave == state # "gone" /\ state' = "gone" /\ UNCHANGED <<n, done>>

Next == Ask \/ (\E i \in 1..Requests : Perform(i)) \/ Answer \/ Hear \/ Leave

Spec == Init /\ [][Next]_vars

=============================================================================
