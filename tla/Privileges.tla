----------------------------- MODULE Privileges -----------------------------
(***************************************************************************)
(* How a program that runs as its user gets a script run as root           *)
(* (mount/host_priv.cpp, mount/fuse_user.cpp, mount/userns.cpp, the first  *)
(* lines of main).                                                         *)
(*                                                                         *)
(* The agent is a process forked before anything else; it stays in the     *)
(* namespace of the host and keeps the copy of g_gui it was forked with.   *)
(* The program and the agent talk through two pipes, one call at a time    *)
(* under g_mu.  The window's dialog calls from a thread of its own; the    *)
(* worker, whose mount has failed, takes g_mu to ask whether there is a    *)
(* window.  The program may leave and the agent may be killed at any time. *)
(***************************************************************************)
EXTENDS Naturals, Sequences, SequencesExt

CONSTANT Requests   \* how often the dialog asks, a bound of the model

ASSUME PrivilegesAssumption == Requests \in Nat

VARIABLES
    asked, display,     \* --gui was given; there is a display
    program,            \* booting, window, headless, gone
    boot,               \* how many steps of main are done
    gui, started, ns,   \* g_gui; g_pid > 0; host, user, or half: unshared, not mapped
    mutex,              \* who holds g_mu: free or dialog
    dialog, n, ok,      \* the dialog's call: where it is, its number, its result
    worker,             \* idle, pkexec, ask, sudo
    req, rep,           \* the pipes
    agent,              \* none, idle, pkexec, sudo_n, sudo, head, body, dead
    own,                \* the agent's own g_gui and namespace
    script, reply,      \* the agent's request and what it will reply
    orphan,             \* the script of a command that outlived the agent
    ran                 \* the scripts that have run as root, in order

startVars == <<asked, display, program, boot, gui, started, ns>>
dialogVars == <<mutex, dialog, n, ok>>
agentVars == <<agent, own, script, reply, orphan>>
vars == <<startVars, dialogVars, worker, req, rep, agentVars, ran>>

Init ==
    /\ asked \in BOOLEAN /\ display \in BOOLEAN
    /\ program = "booting" /\ boot = 0
    /\ gui = FALSE /\ started = FALSE /\ ns = "host"
    /\ mutex = "free" /\ dialog = "idle" /\ n = 0 /\ ok = FALSE
    /\ worker = "idle" /\ req = <<>> /\ rep = <<>>
    /\ agent = "none"
    /\ own = [gui |-> FALSE, ns |-> "host"]
    /\ script = 0 /\ reply = [rc |-> 0, size |-> "none"] /\ orphan = 0
    /\ ran = <<>>

Alive == program \in {"window", "headless"}
AgentAlive == agent \notin {"none", "dead"}

-----------------------------------------------------------------------------
(* main, before there is a second thread.                                    *)

\* Variant: the agent starts before the program says there is a window.
BootAgentFirst == <<"agent", "gui", "namespace">>
BootOrder == <<"gui", "agent", "namespace">>

Booting(step) == program = "booting" /\ boot < Len(BootOrder) /\ BootOrder[boot + 1] = step

set_host_priv_gui ==
    /\ Booting("gui")
    /\ boot' = boot + 1 /\ gui' = asked
    /\ UNCHANGED <<asked, display, program, started, ns, dialogVars, worker, req, rep, agentVars, ran>>

(* The fork takes g_gui and the namespace along.  It may fail, unheard.      *)
start_host_priv_agent ==
    /\ Booting("agent")
    /\ boot' = boot + 1
    /\ \/ /\ started' = TRUE /\ agent' = "idle"
          /\ own' = [gui |-> gui, ns |-> ns]
          /\ UNCHANGED <<script, reply, orphan>>
       \/ UNCHANGED <<started, agentVars>>
    /\ UNCHANGED <<asked, display, program, gui, ns, dialogVars, worker, req, rep, ran>>

(* Once CLONE_NEWUSER has succeeded nothing leads back.                      *)
ensure_user_mount_ns ==
    /\ Booting("namespace")
    /\ boot' = boot + 1
    /\ ns' \in {"host", "half", "user"}
    /\ UNCHANGED <<asked, display, program, gui, started, dialogVars, worker, req, rep, agentVars, ran>>

Booted ==
    /\ program = "booting" /\ boot = Len(BootOrder)
    /\ program' = IF asked /\ display THEN "window" ELSE "headless"
    /\ UNCHANGED <<asked, display, boot, gui, started, ns, dialogVars, worker, req, rep, agentVars, ran>>

-----------------------------------------------------------------------------
(* run_priv_async and, in its thread, apply_fuse_user_mounts.  If the system *)
(* is already as desired nobody is asked.                                    *)

Request ==
    /\ program = "window" /\ dialog = "idle" /\ n < Requests
    /\ dialog' = "probe" /\ n' = n + 1
    /\ UNCHANGED <<startVars, mutex, ok, worker, req, rep, agentVars, ran>>

(* host_priv_agent_running, which only looks at what start left behind.      *)
ProbeAgent ==
    /\ program = "window" /\ dialog = "probe" /\ mutex = "free"
    /\ dialog' = IF started THEN "send" ELSE "pkexec"
    /\ UNCHANGED <<startVars, mutex, n, ok, worker, req, rep, agentVars, ran>>

Conclude(result) == dialog' = "answered" /\ ok' = result /\ mutex' = "free"

\* Variant: nothing keeps two calls apart.
SendUnlocked ==
    /\ program = "window" /\ dialog = "send" /\ mutex = "free" /\ AgentAlive
    /\ dialog' = "head" /\ req' = Append(req, n)
    /\ UNCHANGED <<startVars, mutex, n, ok, worker, rep, agentVars, ran>>

(* run_host_privileged_script.  A write to a dead agent fails, or ends the   *)
(* program where nobody has SIGPIPE ignored.                                 *)
SendRequest ==
    /\ program = "window" /\ dialog = "send" /\ mutex = "free" /\ AgentAlive
    /\ mutex' = "dialog" /\ dialog' = "head" /\ req' = Append(req, n)
    /\ UNCHANGED <<startVars, n, ok, worker, rep, agentVars, ran>>

SendFails ==
    /\ program = "window" /\ dialog = "send" /\ mutex = "free" /\ ~AgentAlive
    /\ \/ program' = program /\ Conclude(FALSE)
       \/ program' = "gone" /\ UNCHANGED <<mutex, dialog, ok>>
    /\ UNCHANGED <<asked, display, boot, gui, started, ns, n, worker, req, rep, agentVars, ran>>

(* What is not a head is read as one, with whatever it makes.  A reply that  *)
(* is too large is left where it is.                                         *)
ReadHead ==
    /\ program = "window" /\ dialog = "head" /\ rep # <<>>
    /\ rep' = Tail(rep)
    /\ \E rc \in IF Head(rep).part = "head" THEN {Head(rep).rc} ELSE {0, 1} :
           IF Head(rep).size = "some"
           THEN dialog' = "body" /\ ok' = (rc = 0) /\ mutex' = mutex
           ELSE Conclude(Head(rep).size = "none" /\ rc = 0)
    /\ UNCHANGED <<startVars, n, worker, req, agentVars, ran>>

ReadBody ==
    /\ program = "window" /\ dialog = "body" /\ rep # <<>>
    /\ rep' = Tail(rep)
    /\ Conclude(ok)
    /\ UNCHANGED <<startVars, n, worker, req, agentVars, ran>>

Disconnected ==
    /\ program = "window" /\ dialog \in {"head", "body"} /\ rep = <<>> /\ ~AgentAlive
    /\ Conclude(FALSE)
    /\ UNCHANGED <<startVars, n, worker, req, rep, agentVars, ran>>

(* Without an agent: pkexec from where the program is, which only the host's *)
(* namespace allows.                                                         *)
RunPkexec ==
    /\ program = "window" /\ dialog = "pkexec"
    /\ dialog' = "ended"
    /\ \/ ok' = TRUE /\ ns = "host" /\ ran' = Append(ran, n)
       \/ ok' = FALSE /\ (ran' = ran \/ (ns = "host" /\ ran' = Append(ran, n)))
    /\ UNCHANGED <<startVars, mutex, n, worker, req, rep, agentVars>>

PkexecEnded ==
    /\ program = "window" /\ dialog = "ended"
    /\ Conclude(ok)
    /\ UNCHANGED <<startVars, n, worker, req, rep, agentVars, ran>>

HearAnswer ==
    /\ program = "window" /\ dialog = "answered"
    /\ dialog' = "idle"
    /\ UNCHANGED <<startVars, mutex, n, ok, worker, req, rep, agentVars, ran>>

-----------------------------------------------------------------------------
(* try_privileged_mount and try_privileged_umount of the worker, after the   *)
(* plain command has failed: pkexec, then, unless there is a window, sudo.   *)

TryPkexec ==
    /\ Alive /\ worker = "idle"
    /\ worker' = "pkexec"
    /\ UNCHANGED <<startVars, dialogVars, req, rep, agentVars, ran>>

PkexecReturns ==
    /\ Alive /\ worker = "pkexec"
    /\ worker' \in {"idle", "ask"}
    /\ UNCHANGED <<startVars, dialogVars, req, rep, agentVars, ran>>

host_priv_gui ==
    /\ Alive /\ worker = "ask" /\ mutex = "free"
    /\ worker' = IF gui THEN "idle" ELSE "sudo"
    /\ UNCHANGED <<startVars, dialogVars, req, rep, agentVars, ran>>

SudoReturns ==
    /\ Alive /\ worker = "sudo"
    /\ worker' = "idle"
    /\ UNCHANGED <<startVars, dialogVars, req, rep, agentVars, ran>>

-----------------------------------------------------------------------------
(* agent_main and run_script_host.                                           *)

AgentReads ==
    /\ agent = "idle" /\ req # <<>>
    /\ req' = Tail(req) /\ script' = Head(req)
    /\ \/ agent' = "pkexec" /\ reply' = reply
       \/ agent' = "head" /\ reply' = [rc |-> 1, size |-> "some"]
    /\ UNCHANGED <<startVars, dialogVars, worker, rep, own, orphan, ran>>

\* Variant: the agent keeps the writing end of its own pipe.
AgentNeverAtEnd == FALSE /\ UNCHANGED vars

AgentAtEnd ==
    /\ agent = "idle" /\ req = <<>> /\ program = "gone"
    /\ agent' = "dead"
    /\ UNCHANGED <<startVars, dialogVars, worker, req, rep, own, script, reply, orphan, ran>>

\* Variant: the output goes back whole.
Uncut(size) == size
(* The output is cut to what the client takes.                               *)
Cut(size) == IF size = "huge" THEN "some" ELSE size

(* run_script_host: pkexec and, of an agent without a window, sudo -n, then  *)
(* sudo.                                                                     *)
Commands == {"pkexec", "sudo_n", "sudo"}
AfterFailed(command) ==
    IF command = "pkexec" /\ ~own.gui THEN "sudo_n"
    ELSE IF command = "sudo_n" THEN "sudo" ELSE "head"

(* The command ends: the script has run, with success or not, or has not.    *)
AgentCommandEnds ==
    /\ agent \in Commands
    /\ \E size \in {"none", "some", "huge"} :
           \/ /\ agent' = "head" /\ reply' = [rc |-> 0, size |-> Cut(size)]
              /\ ran' = Append(ran, script)
           \/ /\ agent' = AfterFailed(agent) /\ reply' = [rc |-> 1, size |-> Cut(size)]
              /\ ran' \in {ran, Append(ran, script)}
    /\ UNCHANGED <<startVars, dialogVars, worker, req, rep, own, script, orphan>>

AgentWritesHead ==
    /\ agent = "head"
    /\ IF program = "gone"
       THEN agent' = "dead" /\ rep' = rep
       ELSE /\ rep' = Append(rep, [part |-> "head", rc |-> reply.rc, size |-> reply.size])
            /\ agent' = IF reply.size = "none" THEN "idle" ELSE "body"
    /\ UNCHANGED <<startVars, dialogVars, worker, req, own, script, reply, orphan, ran>>

AgentWritesBody ==
    /\ agent = "body"
    /\ IF program = "gone"
       THEN agent' = "dead" /\ rep' = rep
       ELSE agent' = "idle" /\ rep' = Append(rep, [part |-> "body", rc |-> 0, size |-> "none"])
    /\ UNCHANGED <<startVars, dialogVars, worker, req, own, script, reply, orphan, ran>>

-----------------------------------------------------------------------------

AgentKilled ==
    /\ AgentAlive
    /\ agent' = "dead"
    /\ orphan' = IF agent \in Commands THEN script ELSE 0
    /\ UNCHANGED <<startVars, dialogVars, worker, req, rep, own, script, reply, ran>>

OrphanEnds ==
    /\ orphan # 0
    /\ orphan' = 0
    /\ ran' \in {ran, Append(ran, orphan)}
    /\ UNCHANGED <<startVars, dialogVars, worker, req, rep, agent, own, script, reply>>

ProgramLeaves ==
    /\ program # "gone"
    /\ program' = "gone"
    /\ UNCHANGED <<asked, display, boot, gui, started, ns, dialogVars, worker, req, rep, agentVars, ran>>

Dialog ==
    \/ ProbeAgent \/ SendRequest \/ SendFails \/ ReadHead \/ ReadBody
    \/ Disconnected \/ RunPkexec \/ PkexecEnded \/ HearAnswer

Worker == PkexecReturns \/ host_priv_gui \/ SudoReturns

Agent ==
    \/ AgentReads \/ AgentAtEnd \/ AgentCommandEnds
    \/ AgentWritesHead \/ AgentWritesBody

Next ==
    \/ set_host_priv_gui \/ start_host_priv_agent \/ ensure_user_mount_ns \/ Booted
    \/ Request \/ Dialog \/ TryPkexec \/ Worker \/ Agent
    \/ AgentKilled \/ OrphanEnds \/ ProgramLeaves

(* Threads and the agent go on; a prompt is answered or dismissed in the     *)
(* end.  Nobody has to ask, to leave or to be killed.                        *)
Spec ==
    /\ Init /\ [][Next]_vars
    /\ WF_vars(Dialog) /\ WF_vars(Worker) /\ WF_vars(Agent)

-----------------------------------------------------------------------------

Sizes == {"none", "some", "huge"}

(* The types; g_mu is held exactly while a call is under way, which has at   *)
(* most one message in each direction.                                       *)
TypeOK ==
    /\ asked \in BOOLEAN /\ display \in BOOLEAN
    /\ program \in {"booting", "window", "headless", "gone"}
    /\ boot \in 0..3 /\ gui \in BOOLEAN /\ started \in BOOLEAN
    /\ ns \in {"host", "half", "user"}
    /\ mutex \in {"free", "dialog"}
    /\ dialog \in {"idle", "probe", "send", "head", "body", "pkexec", "ended", "answered"}
    /\ n \in 0..Requests /\ ok \in BOOLEAN
    /\ worker \in {"idle", "pkexec", "ask", "sudo"}
    /\ agent \in {"none", "idle", "head", "body", "dead"} \cup Commands
    /\ own \in [gui : BOOLEAN, ns : {"host", "half", "user"}]
    /\ script \in 0..Requests /\ reply \in [rc : {0, 1}, size : Sizes] /\ orphan \in 0..Requests
    /\ (mutex = "dialog") = (dialog \in {"head", "body"})
    /\ Len(req) <= 1 /\ Len(rep) <= 2

(* While there is a window nobody waits for a password at a terminal that    *)
(* the user does not look at, and every prompt of the agent comes from the   *)
(* host's namespace (main.cpp 72-74, host_priv.cpp 210-213): this rests on   *)
(* the order of the first steps of main.                                     *)
PromptsAreSeen ==
    /\ program = "window" => agent # "sudo" /\ worker # "sudo"
    /\ AgentAlive => own.ns = "host"

\* Where a call is, as its caller sees it.
CallState ==
    IF program = "gone" THEN "gone"
    ELSE IF dialog = "idle" THEN "idle"
    ELSE IF dialog # "answered" THEN "asked"
    ELSE IF ok THEN "yes" ELSE "no"

(* The dialog's call as its caller sees it: one answer to each request, the  *)
(* answer to this one and not to an earlier one, a "yes" only if the script  *)
(* has run, none run twice (host_priv.cpp 195-249, 308-372).                 *)
Call == INSTANCE Asking WITH state <- CallState, done <- ran
CallSpec == Call!Spec

(* A call ends and the worker, held up by its lock, goes on, once the prompt *)
(* is answered; an agent whose program has left follows it (read_all and     *)
(* write_all of agent_main failing).                                         *)
CallsEnd ==
    /\ (dialog # "idle") ~> (dialog = "idle" \/ program = "gone")
    /\ (worker # "idle") ~> (worker = "idle" \/ program = "gone")
    /\ (program = "gone") ~> ~AgentAlive

=============================================================================
