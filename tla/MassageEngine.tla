---------------------------- MODULE MassageEngine ---------------------------
(***************************************************************************)
(* The life of a rewrite run: the front-end thread (wx main window, or the *)
(* headless loop of main.cpp), the worker thread started by                *)
(* MassageEngine::start, and the sync thread the worker starts to flush.   *)
(*                                                                         *)
(* The threads share PauseControl (two atomics), running_ (an atomic), and *)
(* Progress (fields under one mutex).  A handler that touches several of   *)
(* them is several actions, one per shared access, so that the other       *)
(* threads may run in between; `ui' and `worker' are program counters.     *)
(*                                                                         *)
(* The block loop is abstracted to the number of blocks left, the SHA-1    *)
(* pass to the number of files left: what the blocks do to cells and media *)
(* is module RewriteRange, what mounting does is module MountCycle.        *)
(***************************************************************************)
EXTENDS Naturals

CONSTANTS
    Blocks,     \* block boundaries of a run (all items together)
    Files       \* files found by the SHA-1 pass

ASSUME EngineAssumption ==
    /\ Blocks \in Nat
    /\ Files \in Nat

VARIABLES
    \* front end
    window,     \* want_gui of main(): the window, or the headless loop
    ui,         \* what the front-end thread is in the middle of
    uiRunning,  \* last set_running_ui(...): Start is enabled iff FALSE
    uiPaused,   \* MainFrame::paused_, the state of the Pause/Resume toggle
    menus,      \* Pause and Stop enabled
    timer,      \* the 50 ms timer is started
    shown,      \* work_state of the status bar
    snap,       \* finished_ and failed_ as read by the last snapshot()
    exitStatus, \* value main() returned, headless
    \* engine
    running,    \* MassageEngine::running_
    exitCode,   \* MassageEngine::exit_code_
    cfg,        \* the options of the run (set_options / parse_options)
    pauseFlag,  \* PauseControl::paused_
    stopFlag,   \* PauseControl::stop_
    finished,   \* Progress::finished_
    failed,     \* Progress::failed_
    locked,     \* Progress::input_locked_
    progPaused, \* Progress::paused_
    \* worker and sync thread
    worker,     \* "none" (no thread to join), "ended", or where run_inner is
    rc,         \* run_inner's rc
    sync,       \* sync_thr
    left,       \* blocks not yet begun
    refused,    \* rewrite_range gave up before its loop
    files,      \* files not yet hashed
    hash,       \* what became of the SHA-1 pass
    \* history
    sincePause, \* blocks begun since the current pause was requested
    sinceStop   \* blocks begun since stop was requested

uiVars   == <<window, ui, uiRunning, uiPaused, menus, timer, shown, snap, exitStatus>>
ctlVars  == <<pauseFlag, stopFlag>>
progVars == <<finished, failed, locked, progPaused>>
engVars  == <<running, exitCode, cfg>>
runVars  == <<rc, sync, left, refused, files, hash>>
histVars == <<sincePause, sinceStop>>
vars == <<uiVars, ctlVars, progVars, engVars, worker, runVars, histVars>>

-----------------------------------------------------------------------------
(* Options a run can have.  A dry run and write-through are set in the GUI only; -t    *)
(* never opens the window.  Headless, database_on is FALSE only when --gui was given   *)
(* too (-g -t, or -g without a display) and no database named.                         *)
Config(gui) ==
    [dry: IF gui THEN BOOLEAN ELSE {FALSE},
     wt: IF gui THEN BOOLEAN ELSE {FALSE},
     test: IF gui THEN {FALSE} ELSE BOOLEAN,
     db: BOOLEAN]

UiPc ==
    {"idle", "pauseSet", "pauseProg", "stopSet", "stopResume", "timerDecide", "timerJoin",
     "quitStop", "quitResume", "quitJoin", "dtorStop", "dtorJoin",
     "poll", "join", "closed"}

WorkerPc ==
    {"none", "unmount", "open", "scan", "boundary", "held", "stopcheck", "block", "ranges",
     "flushcheck", "flushlock", "flush", "syncjoin", "unlock", "sha1check", "sha1",
     "restore", "finish", "exit", "leave", "ended"}

Init ==
    /\ window \in BOOLEAN
    /\ ui = "idle" /\ uiRunning = FALSE /\ uiPaused = FALSE /\ menus = FALSE
    /\ timer = FALSE /\ shown = "IDLE" /\ exitStatus = 0
    /\ snap = [finished |-> FALSE, failed |-> FALSE]
    /\ running = FALSE /\ exitCode = 1 /\ cfg \in Config(window)
    /\ pauseFlag = FALSE /\ stopFlag = FALSE
    /\ finished = FALSE /\ failed = FALSE /\ locked = FALSE /\ progPaused = FALSE
    /\ worker = "none" /\ rc = 1 /\ sync = "none"
    /\ left = 0 /\ refused = FALSE /\ files = 0 /\ hash = "none"
    /\ sincePause = 0 /\ sinceStop = 0

-----------------------------------------------------------------------------
(* Starting a run *)

\* PauseControl::reset (the variant leaves an old pause behind).
KeptPause == UNCHANGED pauseFlag /\ stopFlag' = FALSE
ControlReset == pauseFlag' = FALSE /\ stopFlag' = FALSE

\* Progress::note_restart and Progress::reset, the flags both clear.
KeptFinished == UNCHANGED finished /\ failed' = FALSE /\ locked' = FALSE /\ progPaused' = FALSE
ProgressReset == finished' = FALSE /\ failed' = FALSE /\ locked' = FALSE /\ progPaused' = FALSE

\* join() returns: there is no thread, or it has ended (the variant never waits).
NoWait == TRUE
Joinable == worker \in {"none", "ended"}
\* MassageEngine::start after its guards: join an ended worker, reset the
\* controls, spawn.  The new thread has run nothing yet.
EngineStart(c) ==
    /\ ~running
    /\ Joinable
    /\ cfg' = c
    /\ ControlReset /\ ProgressReset
    /\ exitCode' = 1 /\ running' = TRUE
    /\ worker' = "unmount" /\ rc' = 1 /\ sync' = "none"
    /\ left' = Blocks /\ refused' = FALSE /\ files' = Files /\ hash' = "none"
    /\ sincePause' = 0 /\ sinceStop' = 0

\* MainFrame::start_run, reached while set_running_ui left Start enabled.
GuiStart ==
    /\ window /\ ui = "idle" /\ ~uiRunning
    /\ \E c \in Config(window) : EngineStart(c)
    /\ uiRunning' = TRUE /\ uiPaused' = FALSE /\ menus' = TRUE
    /\ timer' = TRUE /\ shown' = "RUN"
    /\ UNCHANGED <<window, ui, snap, exitStatus>>

HeadlessStart ==
    /\ ~window /\ ui = "idle"
    /\ EngineStart(cfg)
    /\ ui' = "poll"
    /\ UNCHANGED <<window, uiRunning, uiPaused, menus, timer, shown, snap, exitStatus>>

-----------------------------------------------------------------------------
(* Pause, Stop and opening another target, from the event loop *)

\* on_pause, the two guards.  A handler that returns early changes nothing.
PauseClick ==
    /\ ui = "idle" /\ menus /\ uiRunning
    /\ running /\ ~locked
    /\ ui' = "pauseSet"
    /\ UNCHANGED <<window, uiRunning, uiPaused, menus, timer, shown, snap, exitStatus,
                   ctlVars, progVars, engVars, worker, runVars, histVars>>

PauseSet ==
    /\ ui = "pauseSet"
    /\ pauseFlag' = ~uiPaused
    /\ sincePause' = 0
    /\ ui' = "pauseProg"
    /\ UNCHANGED <<window, uiRunning, uiPaused, menus, timer, shown, snap, exitStatus,
                   stopFlag, progVars, engVars, worker, runVars, sinceStop>>

PauseProg ==
    /\ ui = "pauseProg"
    /\ progPaused' = ~uiPaused
    /\ uiPaused' = ~uiPaused
    /\ shown' = IF uiPaused THEN "RUN" ELSE "PAUSE"
    /\ ui' = "idle"
    /\ UNCHANGED <<window, uiRunning, menus, timer, snap, exitStatus,
                   ctlVars, finished, failed, locked, engVars, worker, runVars, histVars>>

\* on_stop: request_stop() first, resume() second.
StopClick ==
    /\ ui = "idle" /\ menus /\ uiRunning
    /\ running /\ ~locked
    /\ ui' = "stopSet"
    /\ UNCHANGED <<window, uiRunning, uiPaused, menus, timer, shown, snap, exitStatus,
                   ctlVars, progVars, engVars, worker, runVars, histVars>>

\* request_stop() of on_stop, of on_quit and of the engine's destructor.
StopSet(from, to) ==
    /\ ui = from
    /\ stopFlag' = TRUE
    /\ ui' = to
    /\ UNCHANGED <<window, uiRunning, uiPaused, menus, timer, shown, snap, exitStatus,
                   pauseFlag, progVars, engVars, worker, runVars, histVars>>

StopResume(from, to) ==
    /\ ui = from
    /\ pauseFlag' = FALSE
    /\ sincePause' = 0
    /\ ui' = to
    /\ UNCHANGED <<window, uiRunning, uiPaused, menus, timer, shown, snap, exitStatus,
                   stopFlag, progVars, engVars, worker, runVars, sinceStop>>

\* open_target from the drive and recent menus: guarded by running_ alone,
\* so it may come between the end of a run and the timer that notices it.
PickTarget ==
    /\ window /\ ui = "idle" /\ ~running
    /\ uiRunning' = FALSE /\ menus' = FALSE /\ shown' = "IDLE"
    /\ UNCHANGED <<window, ui, uiPaused, timer, snap, exitStatus,
                   ctlVars, progVars, engVars, worker, runVars, histVars>>

-----------------------------------------------------------------------------
(* The GUI timer *)

Snapshot == [finished |-> finished, failed |-> failed]

\* on_timer up to the end test: snapshot(), then the menus follow input_locked.
TimerSnap ==
    /\ ui = "idle" /\ timer
    /\ snap' = Snapshot
    /\ menus' = IF locked THEN FALSE ELSE running \/ menus
    /\ ui' = "timerDecide"
    /\ UNCHANGED <<window, uiRunning, uiPaused, timer, shown, exitStatus,
                   ctlVars, progVars, engVars, worker, runVars, histVars>>

\* "if (snap.finished || !engine_->running())": running_ is read after the snapshot.
TimerDecide ==
    /\ ui = "timerDecide"
    /\ IF snap.finished \/ ~running
       THEN ui' = "timerJoin" /\ timer' = FALSE
       ELSE ui' = "idle" /\ UNCHANGED timer
    /\ UNCHANGED <<window, uiRunning, uiPaused, menus, shown, snap, exitStatus,
                   ctlVars, progVars, engVars, worker, runVars, histVars>>
\* The snapshot the outcome is shown from (the variant shows the one that led here).
FirstSnapshot == snap
FinalSnapshot == Snapshot

\* join(), a second snapshot(), then the outcome is shown.
TimerJoin ==
    /\ ui = "timerJoin"
    /\ Joinable
    /\ worker' = "none"
    /\ snap' = FinalSnapshot
    /\ shown' = IF snap'.failed \/ ~snap'.finished THEN "ERR" ELSE "OK"
    /\ uiPaused' = FALSE /\ uiRunning' = FALSE /\ menus' = FALSE
    /\ ui' = "idle"
    /\ UNCHANGED <<window, timer, exitStatus, ctlVars, progVars, engVars, runVars, histVars>>

-----------------------------------------------------------------------------
(* Leaving *)

\* File > Quit: on_quit stops, resumes and joins, then closes the window.
QuitClick ==
    /\ window /\ ui = "idle"
    /\ ui' = IF running THEN "quitStop" ELSE "dtorStop"
    /\ UNCHANGED <<window, uiRunning, uiPaused, menus, timer, shown, snap, exitStatus,
                   ctlVars, progVars, engVars, worker, runVars, histVars>>

\* The window's close button goes straight to ~MassageEngine: stop and join,
\* without a resume.
CloseWindow ==
    /\ window /\ ui = "idle"
    /\ ui' = "dtorStop"
    /\ UNCHANGED <<window, uiRunning, uiPaused, menus, timer, shown, snap, exitStatus,
                   ctlVars, progVars, engVars, worker, runVars, histVars>>
JoinWorker(from, to) ==
    /\ ui = from
    /\ Joinable
    /\ worker' = "none"
    /\ ui' = to
    /\ exitStatus' = IF from = "join" THEN exitCode ELSE exitStatus
    /\ UNCHANGED <<window, uiRunning, uiPaused, menus, timer, shown, snap,
                   ctlVars, progVars, engVars, runVars, histVars>>

\* headless_progress_loop: leaves as soon as a snapshot says finished.
PollFinished ==
    /\ ui = "poll" /\ finished
    /\ snap' = Snapshot
    /\ ui' = "join"
    /\ UNCHANGED <<window, uiRunning, uiPaused, menus, timer, shown, exitStatus,
                   ctlVars, progVars, engVars, worker, runVars, histVars>>

-----------------------------------------------------------------------------
(* The worker: MassageEngine::run_inner *)

\* ensure_unmounted, Device::open and prepare_db; each failure is published
\* (with a Progress::reset) and ends the run with rc = 1.  rc becomes 0 once the catalog is open.
Prepare ==
    /\ worker \in {"unmount", "open"}
    /\ \/ /\ worker = "unmount"
          /\ worker' = "open"
          /\ UNCHANGED <<progVars, rc>>
       \/ /\ worker = "open"
          /\ worker' = IF cfg.test THEN "flushcheck" ELSE "scan"
          /\ rc' = 0
          /\ ProgressReset
       \/ /\ worker' = "finish"
          /\ ProgressReset
          /\ UNCHANGED rc
    /\ UNCHANGED <<uiVars, ctlVars, engVars, sync, left, refused, files, hash, histVars>>

\* Building the work list.  A linear probe that fails ends the rewrite before
\* the map is reset; a recursive scan that fails for one filesystem sets rc
\* and goes on with the others.
Scan ==
    /\ worker = "scan"
    /\ \/ /\ worker' = "ranges"
          /\ rc' = 1
          /\ UNCHANGED progVars
       \/ /\ worker' = IF left = 0 THEN "ranges" ELSE "boundary"
          /\ rc' \in {0, 1}
          /\ ProgressReset
    /\ UNCHANGED <<uiVars, ctlVars, engVars, sync, left, refused, files, hash, histVars>>

\* rewrite_range returns ok = false before its loop, with no error recorded.
Refuse ==
    /\ worker = "boundary"
    /\ refused' = TRUE
    /\ worker' = "ranges"
    /\ UNCHANGED <<uiVars, ctlVars, progVars, engVars, rc, sync, left, files, hash, histVars>>
\* PauseControl::wait_if_paused reads paused_, and stop_ only afterwards; inside
\* its loop it gives up if stopped, else sleeps and looks again.  The variants
\* skip one of the two reads of stop_.
AfterPauseRead == IF pauseFlag THEN "held" ELSE "stopcheck"
HeldForGood == "boundary"
AfterHeldRead == IF stopFlag THEN "ranges" ELSE "boundary"
StopUnread == "block"
AfterStopRead == IF stopFlag THEN "ranges" ELSE "block"

Boundary ==
    /\ worker = "boundary"
    /\ worker' = AfterPauseRead
    /\ UNCHANGED <<uiVars, ctlVars, progVars, engVars, runVars, histVars>>
Held ==
    /\ worker = "held"
    /\ worker' = AfterHeldRead
    /\ UNCHANGED <<uiVars, ctlVars, progVars, engVars, runVars, histVars>>
StopCheck ==
    /\ worker = "stopcheck"
    /\ worker' = AfterStopRead
    /\ UNCHANGED <<uiVars, ctlVars, progVars, engVars, runVars, histVars>>
\* The end test of the block loop (the variant has none).
Endless == "boundary"
AfterBlock == IF left = 1 THEN "ranges" ELSE "boundary"

\* One block: read, write back, mark.
Block ==
    /\ worker = "block"
    /\ left' = left - 1
    /\ sincePause' = IF pauseFlag THEN sincePause + 1 ELSE 0
    /\ sinceStop' = IF stopFlag THEN sinceStop + 1 ELSE 0
    /\ worker' = AfterBlock
    /\ UNCHANGED <<uiVars, ctlVars, progVars, engVars, rc, sync, refused, files, hash>>
\* After the ranges: a stop requested by now makes the run a failure.
StopForgotten == rc
StoppedRc == IF stopFlag THEN 1 ELSE rc

RangesDone ==
    /\ worker = "ranges"
    /\ rc' = StoppedRc
    /\ worker' = "flushcheck"
    /\ UNCHANGED <<uiVars, ctlVars, progVars, engVars, sync, left, refused, files, hash, histVars>>

FlushCheck ==
    /\ worker = "flushcheck"
    /\ worker' = IF ~cfg.dry /\ ~stopFlag /\ ~cfg.wt THEN "flushlock" ELSE "sha1check"
    /\ UNCHANGED <<uiVars, ctlVars, progVars, engVars, runVars, histVars>>

FlushLock ==
    /\ worker = "flushlock"
    /\ locked' = TRUE
    /\ sync' = "running"
    /\ worker' = "flush"
    /\ UNCHANGED <<uiVars, ctlVars, finished, failed, progPaused, engVars,
                   rc, left, refused, files, hash, histVars>>

SyncThread ==
    /\ sync = "running"
    /\ sync' = "done"
    /\ UNCHANGED <<uiVars, ctlVars, progVars, engVars, worker, rc, left, refused, files, hash, histVars>>

\* The poll loop ends on sync_done or on a stop; both lead to the join, which
\* waits for the thread (in the variant a stop skips it).
FlushPoll ==
    /\ worker = "flush"
    /\ sync = "done" \/ stopFlag
    /\ worker' = "syncjoin"
    /\ UNCHANGED <<uiVars, ctlVars, progVars, engVars, runVars, histVars>>

JoinUnlessStopped == sync = "done" \/ stopFlag
SyncEnded == sync = "done"

SyncJoin ==
    /\ worker = "syncjoin"
    /\ SyncEnded
    /\ worker' = "unlock"
    /\ UNCHANGED <<uiVars, ctlVars, progVars, engVars, runVars, histVars>>

\* set_input_locked(false).
InputUnlocked == locked' = FALSE

Unlock ==
    /\ worker = "unlock"
    /\ InputUnlocked
    /\ worker' = "sha1check"
    /\ UNCHANGED <<uiVars, ctlVars, finished, failed, progPaused, engVars, runVars, histVars>>

\* dev.close(), then SHA-1 unless there is no database, the run is stopped,
\* or prepare_sha1_mounts fails or mounts nothing.
Sha1Check ==
    /\ worker = "sha1check"
    /\ \/ /\ ~cfg.db
          /\ hash' = "off" /\ worker' = "restore"
       \/ /\ cfg.db /\ stopFlag
          /\ hash' = "stopped" /\ worker' = "restore"
       \/ /\ cfg.db
          /\ hash' = "unmountable" /\ worker' = "restore"
       \/ /\ cfg.db /\ ~stopFlag
          /\ hash' = "ran" /\ worker' = IF files = 0 THEN "restore" ELSE "sha1"
    /\ UNCHANGED <<uiVars, ctlVars, progVars, engVars, rc, sync, left, refused, files, histVars>>

\* sha1_mounted_files looks at neither stop nor pause between files.
Sha1File ==
    /\ worker = "sha1"
    /\ files' = files - 1
    /\ worker' = IF files = 1 THEN "restore" ELSE "sha1"
    /\ UNCHANGED <<uiVars, ctlVars, progVars, engVars, rc, sync, left, refused, hash, histVars>>

Restore ==
    /\ worker = "restore"
    /\ worker' = "finish"
    /\ UNCHANGED <<uiVars, ctlVars, progVars, engVars, runVars, histVars>>
\* Progress::set_finished, from FinishGuard on every return of run_inner.
SetFinished == finished' = TRUE /\ failed' = (rc # 0) /\ locked' = FALSE

Finish ==
    /\ worker = "finish"
    /\ SetFinished
    /\ worker' = "exit"
    /\ UNCHANGED <<uiVars, ctlVars, progPaused, engVars, runVars, histVars>>

\* The thread's last two statements: exit_code_ = rc; running_ = false.
WorkerExit ==
    /\ worker = "exit"
    /\ exitCode' = rc
    /\ worker' = "leave"
    /\ UNCHANGED <<uiVars, ctlVars, progVars, running, cfg, runVars, histVars>>

StillRunning == UNCHANGED running
NotRunning == running' = FALSE

WorkerLeave ==
    /\ worker = "leave"
    /\ NotRunning
    /\ worker' = "ended"
    /\ UNCHANGED <<uiVars, ctlVars, progVars, exitCode, cfg, runVars, histVars>>

-----------------------------------------------------------------------------
User ==
    GuiStart \/ PauseClick \/ StopClick \/ PickTarget \/ QuitClick \/ CloseWindow

\* The rest of a handler the front-end thread has begun.
Handler ==
    \/ HeadlessStart
    \/ PauseSet \/ PauseProg
    \/ StopSet("stopSet", "stopResume") \/ StopResume("stopResume", "idle")
    \/ TimerDecide \/ TimerJoin
    \/ StopSet("quitStop", "quitResume") \/ StopResume("quitResume", "quitJoin")
    \/ JoinWorker("quitJoin", "dtorStop")
    \/ StopSet("dtorStop", "dtorJoin") \/ JoinWorker("dtorJoin", "closed")
    \/ PollFinished \/ JoinWorker("join", "closed")

Worker ==
    \/ Prepare \/ Scan \/ Refuse \/ Boundary \/ Held \/ StopCheck \/ Block \/ RangesDone
    \/ FlushCheck \/ FlushLock \/ FlushPoll \/ SyncJoin \/ Unlock
    \/ Sha1Check \/ Sha1File \/ Restore \/ Finish \/ WorkerExit \/ WorkerLeave

Next == User \/ Handler \/ TimerSnap \/ Worker \/ SyncThread

\* Threads run; a started handler returns; the timer's event is delivered
\* between user events however often those come.  The user owes nothing.
Fairness ==
    /\ WF_vars(Worker)
    /\ WF_vars(SyncThread)
    /\ WF_vars(Handler)
    /\ SF_vars(TimerSnap)

Spec == Init /\ [][Next]_vars /\ Fairness

-----------------------------------------------------------------------------
(* Properties *)

FlagsOK ==
    /\ window \in BOOLEAN /\ uiRunning \in BOOLEAN /\ uiPaused \in BOOLEAN
    /\ menus \in BOOLEAN /\ timer \in BOOLEAN /\ running \in BOOLEAN
    /\ pauseFlag \in BOOLEAN /\ stopFlag \in BOOLEAN /\ finished \in BOOLEAN /\ failed \in BOOLEAN
    /\ locked \in BOOLEAN /\ progPaused \in BOOLEAN /\ refused \in BOOLEAN
ValuesOK ==
    /\ ui \in UiPc /\ shown \in {"IDLE", "RUN", "PAUSE", "OK", "ERR"}
    /\ snap \in [finished: BOOLEAN, failed: BOOLEAN]
    /\ exitStatus \in {0, 1} /\ exitCode \in {0, 1} /\ cfg \in Config(window)
    /\ worker \in WorkerPc /\ rc \in {0, 1} /\ sync \in {"none", "running", "done"}
    /\ left \in 0..Blocks /\ files \in 0..Files
    /\ hash \in {"none", "off", "stopped", "unmountable", "ran"}
    /\ sincePause \in Nat /\ sinceStop \in Nat

(* Every flag is Boolean, and no counter of blocks or files runs below zero  *)
(* or past its bound.                                                        *)
TypeOK == FlagsOK /\ ValuesOK

(* Whenever the window offers Start, no worker is inside run_inner: the      *)
(* options, the controls and the progress of a run are never replaced under  *)
(* it (start_run, on_timer and open_target all decide from stale reads).     *)
StartOfferedMeansNoWorker ==
    ~uiRunning /\ window /\ ui # "closed" => worker \in {"none", "ended"} /\ ~running

(* Between handlers, while a run can still be paused, the toggle of the      *)
(* window and the flag the worker reads agree, and the status bar says       *)
(* "Paused" only of a worker that was told to pause (paused_ is kept three   *)
(* times: MainFrame, PauseControl, Progress).                                *)
PauseViewsAgree ==
    ui = "idle" /\ uiRunning /\ running /\ ~stopFlag =>
        /\ uiPaused = pauseFlag
        /\ progPaused => pauseFlag

(* Pausing takes effect at the next block boundary: after pause() at most    *)
(* the block already past wait_if_paused is begun, until a resume.           *)
PauseHoldsAtBoundary == pauseFlag => sincePause <= 1

(* The same for a stop: at most one block is begun after request_stop().     *)
StopHoldsAtBoundary == sinceStop <= 1

(* Both controls hold the worker at the next block boundary, although it     *)
(* reads paused_ and stop_ one after the other (pause.cpp:12-21).            *)
BoundaryHolds == PauseHoldsAtBoundary /\ StopHoldsAtBoundary

(* A run that publishes success without having been a -t run has begun       *)
(* every block, or rewrite_range refused the range before its loop (which    *)
(* leaves rc alone): no path through a stop, a failed probe or a failed open *)
(* leaves rc = 0 with blocks left.                                           *)
SuccessMeansEveryBlock ==
    finished /\ ~failed /\ ~cfg.test => left = 0 \/ refused

(* The worker closes the device (dev.close, before the SHA-1 pass) only when *)
(* no sync thread can still use its descriptor, however the poll loop ended. *)
NoSyncAfterClose ==
    worker \notin {"flush", "syncjoin"} => sync # "running"

(* Input is locked exactly while the worker waits for the full-disk sync: a  *)
(* run, however it ends, never leaves Pause and Stop locked out.             *)
LockedDuringSync ==
    locked <=> worker \in {"flush", "syncjoin", "unlock"}

(* The full-disk sync is bracketed by the input lock and by the join, on     *)
(* every way out of its poll loop (massage.cpp:298-331).                     *)
SyncIsBracketed == NoSyncAfterClose /\ LockedDuringSync

(* OK and ERR in the status bar are the outcome the run published, even when *)
(* the run ends between the two reads of on_timer.                           *)
ShownOutcomeIsReal ==
    shown \in {"OK", "ERR"} => worker = "none" /\ finished /\ (shown = "ERR" <=> failed)

(* headless: main() returns 0 exactly for a run that published success,      *)
(* although finished_ is visible before exit_code_ is stored.                *)
ExitStatusMatchesOutcome ==
    ~window /\ ui = "closed" => (exitStatus = 0 <=> finished /\ ~failed)

(* What a front end tells the user is what the run published, although it    *)
(* takes several reads to find out.                                          *)
OutcomeIsReal == ShownOutcomeIsReal /\ ExitStatusMatchesOutcome

(* The engine implements the life of a run: its threads and flags are one    *)
(* phase and one outcome, published once and kept until the next start.      *)
phase ==
    IF worker = "none" THEN "idle"
    ELSE IF finished THEN "over"
    ELSE IF stopFlag THEN "stopping" ELSE "active"
outcome == IF ~finished THEN "none" ELSE IF failed THEN "failed" ELSE "ok"
Lifecycle == INSTANCE RunLifecycle WITH phase <- phase, outcome <- outcome
LifecycleSpec == Lifecycle!Spec

(* A run that is not held by a pause ends: no wait of the worker for the     *)
(* sync thread, or of a join for the worker, lasts for ever.                 *)
RunEnds == running ~> (~running \/ pauseFlag)

(* Leaving the program always succeeds, from a paused run and during the     *)
(* full-disk sync too: the joins of on_quit and ~MassageEngine return.       *)
LeavingEnds == (ui \in {"quitStop", "dtorStop"}) ~> (ui = "closed")

(* headless_progress_loop and the join after it return.                      *)
HeadlessExits == (ui = "poll") ~> (ui = "closed")

(* Every way out of the program gets there: no thread waits for ever for     *)
(* another one.                                                              *)
ExitHappens == LeavingEnds /\ HeadlessExits

=============================================================================
