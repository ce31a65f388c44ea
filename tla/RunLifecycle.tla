---------------------------- MODULE RunLifecycle ----------------------------
(***************************************************************************)
(* What one rewrite run promises to the front end that started it, without *)
(* threads: a run begins, is asked to stop at most once, publishes exactly  *)
(* one outcome, and is acknowledged.  MassageEngine implements it.          *)
(***************************************************************************)

VARIABLES
    phase,      \* "idle", "active", "stopping" or "over"
    outcome     \* "none" until the run publishes "ok" or "failed"

vars == <<phase, outcome>>

Init ==
    /\ phase = "idle"
    /\ outcome = "none"

\* A new run may begin once the previous one has published its outcome.
Begin ==
    /\ phase \in {"idle", "over"}
    /\ phase' = "active"
    /\ outcome' = "none"

AskToStop ==
    /\ phase = "active"
    /\ phase' = "stopping"
    /\ UNCHANGED outcome

\* A stop may come too late to matter: both outcomes remain possible.
Publish ==
    /\ phase \in {"active", "stopping"}
    /\ phase' = "over"
    /\ outcome' \in {"ok", "failed"}

\* The outcome outlives the acknowledgement, until the next Begin.
Acknowledge ==
    /\ phase = "over"
    /\ phase' = "idle"
    /\ UNCHANGED outcome

Next == Begin \/ AskToStop \/ Publish \/ Acknowledge

\* A stopping run ends and an ended run is noticed; an active one may be paused.
Fairness ==
    /\ WF_vars(phase = "stopping" /\ Publish)
    /\ WF_vars(Acknowledge)

Spec == Init /\ [][Next]_vars /\ Fairness

=============================================================================
