-------------------------- MODULE Privileges_proofs --------------------------
(***************************************************************************)
(* The safety properties of Privileges, for every number of requests, and  *)
(* that it implements Asking.  The inductive invariant follows one request *)
(* through the pipes.                                                      *)
(***************************************************************************)
EXTENDS Privileges, SequenceTheorems, TLAPS

\* The steps of main, and what the fork took along.
BootInv ==
    /\ boot >= 1 => gui = asked
    /\ boot <= 1 => agent = "none" /\ ~started
    /\ boot <= 2 => ns = "host"
    /\ program = "booting" => dialog = "idle" /\ worker = "idle"
    /\ program \in {"window", "headless"} => boot = 3
    /\ dialog # "idle" \/ worker # "idle" => boot = 3
    /\ program = "window" => asked
    /\ agent # "none" => started
    /\ AgentAlive => own.gui = asked /\ own.ns = "host"
    /\ worker = "sudo" => ~gui

\* Only the dialog makes requests, and there is none without a window: an
\* agent that works has been told so, and never gets to sudo.
WindowInv ==
    /\ dialog # "idle" => asked
    /\ agent \notin {"sudo_n", "sudo"}
    /\ dialog = "pkexec" => ~started

HeadOf(result, size) == [part |-> "head", rc |-> result, size |-> size]
Body == [part |-> "body", rc |-> 0, size |-> "none"]

\* A head that says 0 tells of a script that has run.
Truthful(result) == result \in {0, 1} /\ (result = 0 => n \in ToSet(ran))

\* Between calls the pipes are empty, unless the agent died before it read.
QuietInv ==
    dialog \notin {"head", "body"} =>
        /\ rep = <<>> /\ Len(req) <= 1
        /\ agent \in {"none", "idle", "dead"} /\ (agent # "dead" => req = <<>>)

\* Where the request is while the dialog waits for a head: in the pipe, with
\* the agent, or on its way back.
Sent ==
    /\ req = <<n>> /\ rep = <<>> /\ agent \in {"idle", "dead"}
    /\ n \notin ToSet(ran) /\ orphan = 0
Worked ==
    /\ req = <<>> /\ rep = <<>>
    /\ \/ agent = "pkexec" /\ script = n /\ n \notin ToSet(ran)
       \/ agent = "head" /\ reply.size # "huge" /\ Truthful(reply.rc)
       \/ agent = "dead"
HeadBack ==
    /\ req = <<>>
    /\ \E result \in {0, 1}, size \in {"none", "some"} :
           /\ rep = <<HeadOf(result, size)>> /\ Truthful(result)
           /\ agent = "dead" \/ agent = IF size = "none" THEN "idle" ELSE "body"
BothBack ==
    /\ req = <<>> /\ agent \in {"idle", "dead"}
    /\ \E result \in {0, 1} : rep = <<HeadOf(result, "some"), Body>> /\ Truthful(result)
HeadInv == dialog = "head" => Sent \/ Worked \/ HeadBack \/ BothBack

\* And while it waits for a body.
BodyInv ==
    dialog = "body" =>
        /\ req = <<>>
        /\ \/ rep = <<>> /\ agent \in {"body", "dead"}
           \/ rep = <<Body>> /\ agent \in {"idle", "dead"}

\* What has run.  A script that outlived its agent is not run again, as there
\* is no agent to run it.
RanInv ==
    /\ ran \in Seq(1..n)
    /\ dialog \in {"probe", "send", "pkexec"} => n \notin ToSet(ran) /\ orphan < n
    /\ dialog \in {"body", "ended", "answered"} /\ ok => n \in ToSet(ran)
    /\ orphan # 0 => agent = "dead" /\ orphan <= n /\ orphan \notin ToSet(ran)
    /\ dialog # "idle" => n >= 1

PlainTypes ==
    /\ asked \in BOOLEAN /\ display \in BOOLEAN
    /\ program \in {"booting", "window", "headless", "gone"}
    /\ boot \in 0..3 /\ gui \in BOOLEAN /\ started \in BOOLEAN
    /\ ns \in {"host", "half", "user"}
    /\ mutex \in {"free", "dialog"}
    /\ dialog \in {"idle", "probe", "send", "head", "body", "pkexec", "ended", "answered"}
    /\ n \in 0..Requests /\ ok \in BOOLEAN
    /\ worker \in {"idle", "pkexec", "ask", "sudo"}
    /\ agent \in {"none", "idle", "head", "body", "dead"} \cup Commands
    /\ own \in [gui : BOOLEAN, ns : {"host", "half", "user"}]
    /\ script \in 0..Requests /\ reply \in [rc : {0, 1}, size : Sizes] /\ orphan \in 0..Requests
    /\ (mutex = "dialog") = (dialog \in {"head", "body"})

IInv ==
    /\ PlainTypes /\ BootInv /\ WindowInv
    /\ QuietInv /\ HeadInv /\ BodyInv /\ RanInv

-----------------------------------------------------------------------------
(* What the pipes, and the list of the scripts that have run, do. *)

\* A pipe gives back what was put into it, first in first out.
LEMMA Pipes ==
    ASSUME NEW a, NEW b
    PROVE  /\ <<a>> # <<>> /\ Head(<<a>>) = a /\ Tail(<<a>>) = <<>>
           /\ <<a, b>> # <<>> /\ Head(<<a, b>>) = a /\ Tail(<<a, b>>) = <<b>>
           /\ Append(<<>>, a) = <<a>>
  <1>1. /\ <<a>> # <<>> /\ Head(<<a>>) = a /\ Tail(<<a>>) = <<>>
        /\ Append(<<>>, a) = <<a>>
    OBVIOUS
  <1>2. /\ <<a, b>> # <<>> /\ Head(<<a, b>>) = a /\ Tail(<<a, b>>) = <<b>>
    OBVIOUS
  <1> QED
    BY <1>1, <1>2

\* The lengths of what goes through the pipes.
LEMMA PipeLengths ==
    /\ Len(<<>>) = 0
    /\ \A a : Len(<<a>>) = 1
    /\ \A a, b : Len(<<a, b>>) = 2
  <1>1. Len(<<>>) = 0
    OBVIOUS
  <1>2. ASSUME NEW a PROVE Len(<<a>>) = 1
    OBVIOUS
  <1>3. ASSUME NEW a, NEW b PROVE Len(<<a, b>>) = 2
    OBVIOUS
  <1> QED
    BY <1>1, <1>2, <1>3

\* While the dialog waits for a head there are a request and a reply at most.
LEMMA HeadLengths == Sent \/ Worked \/ HeadBack \/ BothBack => Len(req) <= 1 /\ Len(rep) <= 2
  <1>1. ASSUME Sent PROVE Len(req) <= 1 /\ Len(rep) <= 2
    BY <1>1, PipeLengths DEF Sent
  <1>2. ASSUME Worked PROVE Len(req) <= 1 /\ Len(rep) <= 2
    BY <1>2, PipeLengths DEF Worked
  <1>3. ASSUME HeadBack PROVE Len(req) <= 1 /\ Len(rep) <= 2
    BY <1>3, PipeLengths DEF HeadBack
  <1>4. ASSUME BothBack PROVE Len(req) <= 1 /\ Len(rep) <= 2
    BY <1>4, PipeLengths DEF BothBack
  <1> QED
    BY <1>1, <1>2, <1>3, <1>4

\* A second message goes behind the first.
LEMMA PipeSecond == \A a, b : Append(<<a>>, b) = <<a, b>>
  <1> TAKE a, b
  <1> DEFINE s == Append(<<a>>, b)
             t == <<a, b>>
  <1>1. s \in Seq({a, b}) /\ Len(s) = 2 /\ s[1] = a /\ s[2] = b
    OBVIOUS
  <1>2. t \in Seq({a, b}) /\ Len(t) = 2 /\ t[1] = a /\ t[2] = b
    OBVIOUS
  <1>3. \A i \in 1..2 : s[i] = t[i]
    BY <1>1, <1>2, 1..2 = {1, 2}
  <1> HIDE DEF s, t
  <1>4. s = t
    BY <1>1, <1>2, <1>3, SeqEqual
  <1> QED
    BY <1>4 DEF s, t

\* A head with the body behind it.
LEMMA HeadThenBody ==
    ASSUME NEW r
    PROVE  Append(<<HeadOf(r, "some")>>, Body) = <<HeadOf(r, "some"), Body>>
  <1> DEFINE h == HeadOf(r, "some")
             b == Body
  <1> HIDE DEF h, b
  <1>1. Append(<<h>>, b) = <<h, b>>
    BY PipeSecond, Zenon
  <1> QED
    BY <1>1 DEF h, b

\* A script that has run is added to those that have.
LEMMA RanAppend ==
    ASSUME NEW S, NEW s \in Seq(S), NEW e \in S
    PROVE  Append(s, e) \in Seq(S) /\ ToSet(Append(s, e)) = ToSet(s) \cup {e}
  <1>1. /\ DOMAIN Append(s, e) = 1..(Len(s) + 1) /\ Len(s) \in Nat
        /\ \A i \in 1..Len(s) : Append(s, e)[i] = s[i]
        /\ Append(s, e)[Len(s) + 1] = e
    OBVIOUS
  <1>2. DOMAIN s = 1..Len(s)
    OBVIOUS
  <1>3. ToSet(Append(s, e)) \subseteq ToSet(s) \cup {e}
    BY <1>1, <1>2 DEF ToSet
  <1>4. ToSet(s) \cup {e} \subseteq ToSet(Append(s, e))
    BY <1>1, <1>2 DEF ToSet
  <1> QED
    BY <1>3, <1>4

\* The next request is not among those that have run.
LEMMA RanRange ==
    ASSUME NEW m \in Nat, NEW s \in Seq(1..m)
    PROVE  s \in Seq(1..(m + 1)) /\ ToSet(s) \subseteq 1..m
  BY DEF ToSet

\* The state before the first step of main.
LEMMA InitIInv == Init => IInv
  <1> SUFFICES ASSUME Init PROVE IInv
    OBVIOUS
  <1> USE DEF Init
  <1>1. <<>> \in Seq(1..0) /\ ToSet(<<>>) = {}
    BY DEF ToSet
  <1>2. PlainTypes
    <2>1. own \in [gui : BOOLEAN, ns : {"host", "half", "user"}] /\ reply \in [rc : {0, 1}, size : Sizes]
      BY DEF Sizes
    <2>2. (mutex = "dialog") = (dialog \in {"head", "body"})
      OBVIOUS
    <2>3. n \in 0..Requests /\ script \in 0..Requests /\ orphan \in 0..Requests /\ boot \in 0..3
      BY PrivilegesAssumption
    <2>4. ok \in BOOLEAN /\ asked \in BOOLEAN /\ display \in BOOLEAN /\ gui \in BOOLEAN /\ started \in BOOLEAN
      BY Zenon
    <2> QED
      BY <2>1, <2>2, <2>3, <2>4 DEF PlainTypes, Commands
  <1>3. BootInv /\ WindowInv /\ QuietInv /\ HeadInv /\ BodyInv
    BY DEF BootInv, WindowInv, QuietInv, HeadInv, BodyInv, AgentAlive
  <1>4. RanInv
    BY <1>1 DEF RanInv
  <1> QED
    BY <1>2, <1>3, <1>4 DEF IInv

\* Every step of every thread keeps the inductive invariant.
LEMMA StepIInv == IInv /\ [Next]_vars => IInv'
  <1> SUFFICES ASSUME IInv, [Next]_vars PROVE IInv'
    OBVIOUS
  <1> USE PrivilegesAssumption DEF IInv, PlainTypes, AgentAlive, Commands, Sizes, startVars,
        dialogVars, agentVars
  <1>1. CASE set_host_priv_gui
    BY <1>1 DEF set_host_priv_gui, Booting, BootOrder,
       BootInv, WindowInv, QuietInv, HeadInv, Sent, Worked, HeadBack, BothBack, Truthful,
       BodyInv, RanInv
  <1>2. CASE start_host_priv_agent
    <2> USE <1>2 DEF start_host_priv_agent, Booting, BootOrder
    <2>1. BootInv'
      BY DEF BootInv
    <2>2. PlainTypes'
      <3>1. own' \in [gui : BOOLEAN, ns : {"host", "half", "user"}]
        OBVIOUS
      <3>2. boot' \in 0..3
        OBVIOUS
      <3>3. /\ started' \in BOOLEAN /\ agent' \in {"none", "idle", "head", "body", "dead"} \cup Commands
            /\ script' = script /\ reply' = reply /\ orphan' = orphan
        OBVIOUS
      <3> QED
        BY <3>1, <3>2, <3>3
    <2>3. WindowInv'
      BY DEF BootInv, WindowInv
    <2>4. QuietInv'
      BY DEF BootInv, QuietInv
    <2>5. HeadInv'
      BY DEF BootInv, HeadInv
    <2>6. BodyInv'
      BY DEF BootInv, BodyInv
    <2>7. RanInv'
      BY DEF BootInv, RanInv
    <2> QED
      BY <2>1, <2>2, <2>3, <2>4, <2>5, <2>6, <2>7
  <1>3. CASE ensure_user_mount_ns
    BY <1>3 DEF ensure_user_mount_ns, Booting, BootOrder,
       BootInv, WindowInv, QuietInv, HeadInv, Sent, Worked, HeadBack, BothBack, Truthful,
       BodyInv, RanInv
  <1>4. CASE Booted
    BY <1>4 DEF Booted, BootOrder,
       BootInv, WindowInv, QuietInv, HeadInv, Sent, Worked, HeadBack, BothBack, Truthful,
       BodyInv, RanInv
  <1>5. CASE Request
    <2> USE <1>5 DEF Request
    <2>1. PlainTypes'
      OBVIOUS
    <2>2. BootInv' /\ QuietInv' /\ HeadInv' /\ BodyInv'
      BY DEF BootInv, QuietInv, HeadInv, Sent, Worked, HeadBack, BothBack, Truthful, BodyInv
    <2>3. WindowInv'
      BY DEF BootInv, WindowInv
    <2>4. RanInv'
      BY RanRange DEF RanInv
    <2> QED
      BY <2>1, <2>2, <2>3, <2>4
  <1>6. CASE ProbeAgent
    <2> USE <1>6 DEF ProbeAgent
    <2>1. PlainTypes'
      OBVIOUS
    <2>2. BootInv' /\ WindowInv' /\ QuietInv' /\ HeadInv' /\ BodyInv' /\ RanInv'
      BY DEF BootInv, WindowInv, QuietInv, HeadInv, Sent, Worked, HeadBack, BothBack,
         Truthful, BodyInv, RanInv
    <2> QED
      BY <2>1, <2>2
  <1>7. CASE SendRequest
    <2> USE <1>7 DEF SendRequest
    <2>1. PlainTypes'
      OBVIOUS
    <2>2. BootInv' /\ WindowInv'
      BY DEF BootInv, WindowInv
    <2>3. QuietInv' /\ BodyInv'
      BY DEF QuietInv, BodyInv
    <2>4. RanInv'
      BY DEF QuietInv, RanInv
    <2>5. HeadInv'
      BY Pipes DEF QuietInv, HeadInv, Sent, RanInv
    <2> QED
      BY <2>1, <2>2, <2>3, <2>4, <2>5
  <1>8. CASE SendFails
    <2> USE <1>8 DEF SendFails, Conclude
    <2>1. BootInv' /\ WindowInv' /\ QuietInv' /\ HeadInv' /\ BodyInv' /\ RanInv'
      BY DEF BootInv, WindowInv, QuietInv, HeadInv, Sent, Worked, HeadBack, BothBack,
         Truthful, BodyInv, RanInv
    <2>2. PlainTypes'
      <3>1. ok' \in BOOLEAN
        OBVIOUS
      <3>2. (mutex' = "dialog") = (dialog' \in {"head", "body"})
        OBVIOUS
      <3> QED
        BY <3>1, <3>2
    <2> QED
      BY <2>1, <2>2
  <1>9. CASE ReadHead
    <2> USE <1>9 DEF ReadHead, Conclude
    <2>1. BootInv' /\ WindowInv' /\ HeadInv'
      BY DEF BootInv, WindowInv, HeadInv, Truthful
    <2>2. PlainTypes'
      <3>1. ok' \in BOOLEAN
        OBVIOUS
      <3>2. (mutex' = "dialog") = (dialog' \in {"head", "body"})
        OBVIOUS
      <3> QED
        BY <3>1, <3>2
    <2>3. CASE HeadBack
      <3>1. PICK result \in {0, 1}, size \in {"none", "some"} :
               /\ rep = <<HeadOf(result, size)>> /\ Truthful(result)
               /\ agent = "dead" \/ agent = IF size = "none" THEN "idle" ELSE "body"
        BY <2>3 DEF HeadBack
      <3>2. Head(rep) = HeadOf(result, size) /\ rep' = <<>>
        BY <3>1, Pipes
      <3>3. Head(rep).part = "head" /\ Head(rep).rc = result
        BY <3>2 DEF HeadOf
      <3>4. QuietInv' /\ BodyInv'
        BY <2>3, <3>1, <3>2 DEF HeadBack, HeadOf, QuietInv, BodyInv
      <3>5. ok' = (result = 0) \/ ok' = (Head(rep).size = "none" /\ result = 0)
        BY <3>3
      <3>6. RanInv'
        BY <3>1, <3>5 DEF Truthful, RanInv
      <3> QED
        BY <2>1, <2>2, <3>4, <3>6
    <2>4. CASE BothBack
      <3>1. PICK result \in {0, 1} : rep = <<HeadOf(result, "some"), Body>> /\ Truthful(result)
        BY <2>4 DEF BothBack
      <3>2. Head(rep) = HeadOf(result, "some") /\ rep' = <<Body>>
        BY <3>1, Pipes
      <3>3. Head(rep).part = "head" /\ Head(rep).rc = result
        BY <3>2 DEF HeadOf
      <3>4. QuietInv' /\ BodyInv'
        BY <2>4, <3>2 DEF BothBack, HeadOf, QuietInv, BodyInv
      <3>5. ok' = (result = 0) \/ ok' = (Head(rep).size = "none" /\ result = 0)
        BY <3>3
      <3>6. RanInv'
        BY <3>1, <3>5 DEF Truthful, RanInv
      <3> QED
        BY <2>1, <2>2, <3>4, <3>6
    <2> QED
      BY <2>3, <2>4 DEF HeadInv, Sent, Worked
  <1>10. CASE ReadBody
    <2> USE <1>10 DEF ReadBody, Conclude
    <2>1. PlainTypes'
      OBVIOUS
    <2>2. BootInv' /\ WindowInv' /\ HeadInv' /\ BodyInv' /\ RanInv'
      BY DEF BootInv, WindowInv, HeadInv, Sent, Worked, HeadBack, BothBack, Truthful,
         BodyInv, RanInv
    <2>3. QuietInv'
      BY Pipes DEF BodyInv, QuietInv
    <2> QED
      BY <2>1, <2>2, <2>3
  <1>11. CASE Disconnected
    <2> USE <1>11 DEF Disconnected, Conclude
    <2>1. BootInv' /\ WindowInv' /\ HeadInv' /\ BodyInv' /\ RanInv'
      BY DEF BootInv, WindowInv, HeadInv, Sent, Worked, HeadBack, BothBack, Truthful,
         BodyInv, RanInv
    <2>2. PlainTypes'
      <3>1. ok' \in BOOLEAN
        OBVIOUS
      <3>2. (mutex' = "dialog") = (dialog' \in {"head", "body"})
        OBVIOUS
      <3> QED
        BY <3>1, <3>2
    <2>3. QuietInv'
      BY HeadLengths, PipeLengths DEF QuietInv, HeadInv, Sent, Worked, HeadBack, BothBack,
         BodyInv
    <2> QED
      BY <2>1, <2>2, <2>3
  <1>12. CASE RunPkexec
    <2> USE <1>12 DEF RunPkexec
    <2>1. BootInv' /\ WindowInv' /\ QuietInv' /\ HeadInv' /\ BodyInv'
      BY DEF BootInv, WindowInv, QuietInv, HeadInv, Sent, Worked, HeadBack, BothBack,
         Truthful, BodyInv
    <2>2. PlainTypes'
      <3>1. ok' \in BOOLEAN
        OBVIOUS
      <3>2. (mutex' = "dialog") = (dialog' \in {"head", "body"})
        OBVIOUS
      <3> QED
        BY <3>1, <3>2
    <2>3. RanInv'
      <3>1. orphan = 0 /\ n \notin ToSet(ran) /\ n \in 1..n /\ ran \in Seq(1..n)
        BY DEF BootInv, WindowInv, RanInv
      <3>2. Append(ran, n) \in Seq(1..n) /\ ToSet(Append(ran, n)) = ToSet(ran) \cup {n}
        BY <3>1, RanAppend
      <3> QED
        BY <3>1, <3>2 DEF RanInv
    <2> QED
      BY <2>1, <2>2, <2>3
  <1>13. CASE PkexecEnded
    <2> USE <1>13 DEF PkexecEnded, Conclude
    <2>1. PlainTypes'
      OBVIOUS
    <2>2. BootInv' /\ WindowInv' /\ QuietInv' /\ HeadInv' /\ BodyInv' /\ RanInv'
      BY DEF BootInv, WindowInv, QuietInv, HeadInv, Sent, Worked, HeadBack, BothBack,
         Truthful, BodyInv, RanInv
    <2> QED
      BY <2>1, <2>2
  <1>14. CASE HearAnswer
    <2> USE <1>14 DEF HearAnswer
    <2>1. PlainTypes'
      OBVIOUS
    <2>2. BootInv' /\ WindowInv' /\ QuietInv' /\ HeadInv' /\ BodyInv' /\ RanInv'
      BY DEF BootInv, WindowInv, QuietInv, HeadInv, Sent, Worked, HeadBack, BothBack,
         Truthful, BodyInv, RanInv
    <2> QED
      BY <2>1, <2>2
  <1>15. CASE TryPkexec
    BY <1>15 DEF TryPkexec, Alive,
       BootInv, WindowInv, QuietInv, HeadInv, Sent, Worked, HeadBack, BothBack, Truthful,
       BodyInv, RanInv
  <1>16. CASE PkexecReturns
    BY <1>16 DEF PkexecReturns, Alive,
       BootInv, WindowInv, QuietInv, HeadInv, Sent, Worked, HeadBack, BothBack, Truthful,
       BodyInv, RanInv
  <1>17. CASE host_priv_gui
    BY <1>17 DEF host_priv_gui, Alive,
       BootInv, WindowInv, QuietInv, HeadInv, Sent, Worked, HeadBack, BothBack, Truthful,
       BodyInv, RanInv
  <1>18. CASE SudoReturns
    BY <1>18 DEF SudoReturns, Alive,
       BootInv, WindowInv, QuietInv, HeadInv, Sent, Worked, HeadBack, BothBack, Truthful,
       BodyInv, RanInv
  <1>19. CASE AgentReads
    <2> USE <1>19 DEF AgentReads
    <2>1. BootInv' /\ WindowInv' /\ QuietInv' /\ BodyInv' /\ RanInv'
      BY DEF BootInv, WindowInv, QuietInv, BodyInv, RanInv
    <2>2. PlainTypes'
      BY DEF QuietInv, HeadInv, BodyInv, Sent, Worked, HeadBack, BothBack
    <2>3. HeadInv'
      <3>1. dialog = "head" /\ Sent
        BY DEF QuietInv, HeadInv, BodyInv, Worked, HeadBack, BothBack
      <3>2. req' = <<>> /\ script' = n
        BY <3>1, Pipes DEF Sent
      <3>3. Worked'
        BY <3>1, <3>2 DEF Sent, Worked, Truthful
      <3> QED
        BY <3>3 DEF HeadInv
    <2> QED
      BY <2>1, <2>2, <2>3
  <1>20. CASE AgentAtEnd
    BY <1>20 DEF AgentAtEnd,
       BootInv, WindowInv, QuietInv, HeadInv, Sent, Worked, HeadBack, BothBack, Truthful,
       BodyInv, RanInv
  <1>21. CASE AgentCommandEnds
    <2> USE <1>21 DEF AgentCommandEnds, AfterFailed, Cut
    <2>1. PlainTypes' /\ BootInv' /\ QuietInv' /\ BodyInv'
      BY DEF BootInv, QuietInv, BodyInv
    <2>2. WindowInv'
      BY DEF BootInv, WindowInv, QuietInv
    <2>3. dialog = "head" /\ agent = "pkexec" /\ Worked /\ script = n /\ n \notin ToSet(ran)
      BY DEF QuietInv, WindowInv, HeadInv, BodyInv, Sent, Worked, HeadBack, BothBack
    <2>4. agent' = "head"
      BY <2>3 DEF WindowInv, BootInv
    <2>5. n \in 1..n /\ ran \in Seq(1..n)
      BY <2>3 DEF RanInv
    <2>6. Append(ran, n) \in Seq(1..n) /\ ToSet(Append(ran, n)) = ToSet(ran) \cup {n}
      BY <2>5, RanAppend
    <2>7. HeadInv'
      <3>1. /\ reply'.size # "huge" /\ reply'.rc \in {0, 1} /\ req' = <<>> /\ rep' = <<>>
            /\ reply'.rc = 0 => ran' = Append(ran, script)
        BY <2>3 DEF Worked
      <3>2. reply'.rc = 0 => n' \in ToSet(ran')
        BY <2>3, <2>6, <3>1
      <3>3. Worked'
        BY <2>4, <3>1, <3>2 DEF Worked, Truthful
      <3> QED
        BY <3>3 DEF HeadInv
    <2>8. RanInv'
      BY <2>3, <2>4, <2>5, <2>6 DEF RanInv
    <2> QED
      BY <2>1, <2>2, <2>7, <2>8
  <1>22. CASE AgentWritesHead
    <2> USE <1>22 DEF AgentWritesHead
    <2>1. PlainTypes' /\ BootInv' /\ WindowInv' /\ QuietInv' /\ BodyInv' /\ RanInv'
      BY DEF BootInv, WindowInv, QuietInv, BodyInv, RanInv
    <2>2. HeadInv'
      BY DEF HeadInv, Sent, Worked, HeadBack, BothBack, Truthful, HeadOf
    <2> QED
      BY <2>1, <2>2
  <1>23. CASE AgentWritesBody
    <2> USE <1>23 DEF AgentWritesBody
    <2>1. PlainTypes' /\ BootInv' /\ WindowInv' /\ QuietInv' /\ RanInv'
      BY DEF BootInv, WindowInv, QuietInv, RanInv
    <2>2. HeadInv'
      <3>1. CASE HeadBack
        <4>1. PICK result \in {0, 1}, size \in {"none", "some"} :
                 /\ rep = <<HeadOf(result, size)>> /\ Truthful(result)
                 /\ agent = "dead" \/ agent = IF size = "none" THEN "idle" ELSE "body"
          BY <3>1 DEF HeadBack
        <4>2. rep = <<HeadOf(result, "some")>>
          BY <4>1
        <4>3. Append(<<HeadOf(result, "some")>>, Body) = <<HeadOf(result, "some"), Body>>
          BY HeadThenBody
        <4>4. HeadBack' \/ BothBack'
          BY <3>1, <4>1, <4>2, <4>3 DEF HeadBack, BothBack, Truthful, Body, HeadOf
        <4> QED
          BY <4>4 DEF HeadInv
      <3> QED
        BY <3>1 DEF HeadInv, Sent, Worked, BothBack
    <2>3. BodyInv'
      BY DEF BodyInv, Body
    <2> QED
      BY <2>1, <2>2, <2>3
  <1>24. CASE AgentKilled
    <2> USE <1>24 DEF AgentKilled
    <2>1. PlainTypes' /\ BootInv' /\ WindowInv' /\ QuietInv' /\ HeadInv' /\ BodyInv'
      BY DEF BootInv, WindowInv, QuietInv, HeadInv, Sent, Worked, HeadBack, BothBack,
         Truthful, BodyInv
    <2>2. RanInv'
      BY DEF QuietInv, HeadInv, Sent, Worked, HeadBack, BothBack, BodyInv, RanInv
    <2> QED
      BY <2>1, <2>2
  <1>25. CASE OrphanEnds
    <2> USE <1>25 DEF OrphanEnds
    <2>1. PlainTypes' /\ BootInv' /\ WindowInv' /\ QuietInv' /\ BodyInv'
      BY DEF BootInv, WindowInv, QuietInv, BodyInv
    <2>2. orphan \in 1..n /\ ran \in Seq(1..n) /\ agent = "dead"
      BY DEF RanInv
    <2>3. Append(ran, orphan) \in Seq(1..n) /\ ToSet(Append(ran, orphan)) = ToSet(ran) \cup {orphan}
      BY <2>2, RanAppend
    <2>4. HeadInv'
      <3>1. ~Sent /\ (Truthful(0) => Truthful(0)') /\ (Truthful(1) => Truthful(1)')
        BY <2>3 DEF Sent, Truthful
      <3>2. (HeadBack => HeadBack') /\ (BothBack => BothBack')
        BY <3>1 DEF HeadBack, BothBack, Truthful, HeadOf, Body
      <3> QED
        BY <2>2, <3>1, <3>2 DEF HeadInv, Worked
    <2>5. RanInv'
      <3>1. /\ ran' \in Seq(1..n) /\ ToSet(ran) \subseteq ToSet(ran')
            /\ ToSet(ran') \subseteq ToSet(ran) \cup {orphan}
        BY <2>2, <2>3
      <3> QED
        BY <2>2, <3>1 DEF RanInv
    <2> QED
      BY <2>1, <2>4, <2>5
  <1>26. CASE ProgramLeaves
    BY <1>26 DEF ProgramLeaves,
       BootInv, WindowInv, QuietInv, HeadInv, Sent, Worked, HeadBack, BothBack, Truthful,
       BodyInv, RanInv
  <1>27. CASE UNCHANGED vars
    BY <1>27 DEF vars, BootInv, WindowInv, QuietInv, HeadInv, BodyInv, RanInv, Sent, Worked,
       HeadBack, BothBack, Truthful
  <1> QED
    BY <1>1, <1>2, <1>3, <1>4, <1>5, <1>6, <1>7, <1>8, <1>9, <1>10, <1>11, <1>12, <1>13, <1>14,
       <1>15, <1>16, <1>17, <1>18, <1>19, <1>20, <1>21, <1>22, <1>23, <1>24, <1>25, <1>26, <1>27
       DEF Next, Dialog, Worker, Agent

\* The inductive invariant holds for ever.
LEMMA SpecIInv == Spec => []IInv
  <1>1. Init => IInv
    BY InitIInv
  <1>2. IInv /\ [Next]_vars => IInv'
    BY StepIInv
  <1> QED
    BY <1>1, <1>2, PTL DEF Spec

-----------------------------------------------------------------------------
(* The theorems. *)

\* Every variable keeps its type, g_mu is held exactly while a call is under
\* way, and the pipes hold at most one request and one reply.
THEOREM TypeCorrect == Spec => []TypeOK
  <1>1. IInv => TypeOK
    <2> SUFFICES ASSUME IInv PROVE TypeOK
      OBVIOUS
    <2>1. Len(req) <= 1 /\ Len(rep) <= 2
      <3>1. CASE dialog \notin {"head", "body"}
        BY <3>1, PipeLengths DEF IInv, QuietInv
      <3>2. CASE dialog = "head"
        BY <3>2, HeadLengths DEF IInv, HeadInv
      <3>3. CASE dialog = "body"
        <4>1. Len(req) = 0 /\ Len(rep) \in {0, 1}
          BY <3>3, PipeLengths, Zenon DEF IInv, BodyInv
        <4> QED
          BY <4>1
      <3> QED
        BY <3>1, <3>2, <3>3
    <2> QED
      BY <2>1 DEF IInv, PlainTypes, TypeOK
  <1> QED
    BY <1>1, SpecIInv, PTL

\* While there is a window no terminal prompt is waited for, neither by the
\* agent nor by the worker, and the agent is in the host's namespace.
THEOREM PromptsSeen == Spec => []PromptsAreSeen
  <1>1. IInv => PromptsAreSeen
    BY DEF IInv, BootInv, WindowInv, PromptsAreSeen
  <1> QED
    BY <1>1, SpecIInv, PTL

-----------------------------------------------------------------------------
(* The refinement: Asking as Privileges implements it. *)

\* Before main nobody has asked.
LEMMA CallInit == Init => Call!Init
  BY DEF Init, Call!Init, CallState

\* A step of the program, of the agent or of a script without one is a step
\* of the call, or none that its caller sees.
LEMMA CallStep == IInv /\ [Next]_vars => [Call!Next]_<<CallState, n, ran>>
  <1> SUFFICES ASSUME IInv, [Next]_vars PROVE [Call!Next]_<<CallState, n, ran>>
    OBVIOUS
  <1> USE DEF CallState
  <1>1. CASE set_host_priv_gui \/ start_host_priv_agent \/ ensure_user_mount_ns \/ Booted
    BY <1>1 DEF set_host_priv_gui, start_host_priv_agent, ensure_user_mount_ns, Booted,
       startVars, dialogVars, agentVars, Booting, IInv, BootInv
  <1>2. CASE \/ ProbeAgent \/ SendRequest \/ TryPkexec \/ PkexecReturns \/ host_priv_gui
             \/ SudoReturns
    BY <1>2 DEF ProbeAgent, SendRequest, TryPkexec, PkexecReturns, host_priv_gui,
       SudoReturns, startVars, dialogVars, agentVars, Alive
  <1>3. CASE AgentReads \/ AgentAtEnd \/ AgentWritesHead \/ AgentWritesBody \/ AgentKilled
    BY <1>3 DEF AgentReads, AgentAtEnd, AgentWritesHead, AgentWritesBody, AgentKilled,
       startVars, dialogVars, agentVars
  <1>4. CASE Request
    BY <1>4 DEF Request, dialogVars, startVars, Call!Next, Call!Ask
  <1>5. CASE SendFails
    BY <1>5 DEF SendFails, Conclude, Call!Next, Call!Answer, Call!Leave
  <1>6. CASE ReadHead
    <2> USE <1>6 DEF ReadHead, Conclude
    <2>1. n' = n /\ ran' = ran /\ program' = program
      BY DEF startVars
    <2>2. dialog' = "answered" /\ ok' => n \in ToSet(ran)
      <3>1. CASE HeadBack
        <4>1. PICK result \in {0, 1}, size \in {"none", "some"} :
                 rep = <<HeadOf(result, size)>> /\ Truthful(result)
          BY <3>1 DEF HeadBack
        <4>2. Head(rep) = HeadOf(result, size)
          BY <4>1, Pipes
        <4>3. Head(rep).part = "head" /\ Head(rep).rc = result
          BY <4>2 DEF HeadOf
        <4>4. ok' = (result = 0) \/ ok' = (Head(rep).size = "none" /\ result = 0)
          BY <4>3
        <4> QED
          BY <4>1, <4>4 DEF Truthful
      <3>2. CASE BothBack
        <4>1. PICK result \in {0, 1} :
                 rep = <<HeadOf(result, "some"), Body>> /\ Truthful(result)
          BY <3>2 DEF BothBack
        <4>2. Head(rep) = HeadOf(result, "some")
          BY <4>1, Pipes
        <4>3. Head(rep).part = "head" /\ Head(rep).rc = result
          BY <4>2 DEF HeadOf
        <4>4. ok' = (result = 0) \/ ok' = (Head(rep).size = "none" /\ result = 0)
          BY <4>3
        <4> QED
          BY <4>1, <4>4 DEF Truthful
      <3> QED
        BY <3>1, <3>2 DEF IInv, HeadInv, Sent, Worked
    <2>3. CASE dialog' = "answered"
      BY <2>1, <2>2, <2>3 DEF Call!Next, Call!Answer, Call!ToSet, ToSet
    <2>4. CASE dialog' # "answered"
      BY <2>1, <2>4
    <2> QED
      BY <2>3, <2>4
  <1>7. CASE ReadBody
    <2> USE <1>7 DEF ReadBody, Conclude
    <2>1. n' = n /\ ran' = ran /\ program' = program
      BY DEF startVars
    <2>2. dialog' = "answered" /\ ok' => n \in ToSet(ran)
      BY DEF IInv, RanInv
    <2>3. CASE dialog' = "answered"
      BY <2>1, <2>2, <2>3 DEF Call!Next, Call!Answer, Call!ToSet, ToSet
    <2>4. CASE dialog' # "answered"
      BY <2>1, <2>4
    <2> QED
      BY <2>3, <2>4
  <1>8. CASE Disconnected
    BY <1>8 DEF Disconnected, startVars, Conclude, Call!Next, Call!Answer
  <1>9. CASE RunPkexec
    <2> USE <1>9 DEF RunPkexec
    <2>1. CallState' = CallState /\ n' = n
      BY DEF startVars, dialogVars, agentVars
    <2>2. ran' = ran \/ (n \in 1..n /\ n <= Requests /\ n \notin ToSet(ran) /\ ran' = Append(ran, n))
      BY DEF IInv, PlainTypes, RanInv
    <2> QED
      BY <2>1, <2>2 DEF Call!Next, Call!Perform, Call!ToSet, ToSet, IInv, PlainTypes
  <1>10. CASE PkexecEnded
    <2> USE <1>10 DEF PkexecEnded, Conclude
    <2>1. n' = n /\ ran' = ran /\ program' = program
      BY DEF startVars
    <2>2. dialog' = "answered" /\ ok' => n \in ToSet(ran)
      BY DEF IInv, RanInv
    <2>3. CASE dialog' = "answered"
      BY <2>1, <2>2, <2>3 DEF Call!Next, Call!Answer, Call!ToSet, ToSet
    <2>4. CASE dialog' # "answered"
      BY <2>1, <2>4
    <2> QED
      BY <2>3, <2>4
  <1>11. CASE HearAnswer
    BY <1>11 DEF HearAnswer, startVars, Call!Next, Call!Hear
  <1>12. CASE AgentCommandEnds
    <2> USE <1>12 DEF AgentCommandEnds
    <2>1. CallState' = CallState /\ n' = n
      BY DEF startVars, dialogVars, agentVars
    <2>2. ran' = ran \/ (script \in 1..n /\ n <= Requests /\ script \notin ToSet(ran) /\ ran' = Append(ran, script))
      <3>1. dialog = "head" /\ script = n /\ n \notin ToSet(ran)
        BY DEF IInv, Commands, QuietInv, WindowInv, HeadInv, BodyInv, Sent, Worked,
           HeadBack, BothBack
      <3> QED
        BY <3>1 DEF IInv, PlainTypes, RanInv
    <2> QED
      BY <2>1, <2>2 DEF Call!Next, Call!Perform, Call!ToSet, ToSet, IInv, PlainTypes
  <1>13. CASE OrphanEnds
    <2> USE <1>13 DEF OrphanEnds
    <2>1. CallState' = CallState /\ n' = n
      BY DEF startVars, dialogVars, agentVars
    <2>2. ran' = ran \/ (orphan \in 1..n /\ n <= Requests /\ orphan \notin ToSet(ran) /\ ran' = Append(ran, orphan))
      BY DEF IInv, PlainTypes, RanInv
    <2> QED
      BY <2>1, <2>2 DEF Call!Next, Call!Perform, Call!ToSet, ToSet, IInv, PlainTypes
  <1>14. CASE ProgramLeaves
    BY <1>14 DEF ProgramLeaves, dialogVars, Call!Next, Call!Leave
  <1>15. CASE UNCHANGED vars
    BY <1>15 DEF vars, startVars, dialogVars
  <1> QED
    BY <1>1, <1>2, <1>3, <1>4, <1>5, <1>6, <1>7, <1>8, <1>9, <1>10, <1>11, <1>12, <1>13,
       <1>14, <1>15 DEF Next, Dialog, Worker, Agent

\* A caller of run_privileged_script gets one answer to each request, a "yes"
\* only when its script has run, and no script runs twice (the safety part,
\* all there is, of CallSpec).
THEOREM ImplementsAsking ==
    Spec => CallSpec
  BY SpecIInv, CallInit, CallStep, PTL DEF Spec, CallSpec, Call!Spec, Call!vars

=============================================================================
