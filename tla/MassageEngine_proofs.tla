------------------------ MODULE MassageEngine_proofs ------------------------
(***************************************************************************)
(* The safety properties of MassageEngine, for every number of blocks and  *)
(* files.  The inductive invariant adds to them what each thread knows at  *)
(* each of its program points.                                             *)
(***************************************************************************)
EXTENDS MassageEngine, TLAPS

\* running_ is TRUE exactly while the thread is inside run_inner or its last two statements.
ThreadInv == running <=> ~Joinable

\* Inside the block loop there is a block to begin, inside the SHA-1 loop a file.
LoopInv ==
    /\ worker \in {"boundary", "held", "stopcheck", "block"} => left > 0
    /\ worker = "sha1" => files > 0

\* Past the pause check no block has been begun since the pause; past the
\* stop check none since the stop.
BoundaryInv ==
    /\ pauseFlag =>
        /\ sincePause <= 1
        /\ worker \in {"stopcheck", "block"} => sincePause = 0
    /\ sinceStop <= 1
    /\ ~stopFlag => sinceStop = 0
    /\ worker = "block" => sinceStop = 0

\* rc, and what it will mean once published.
Open == {"unmount", "open"}
Looping == {"scan", "boundary", "held", "stopcheck", "block"}
OutcomeInv ==
    /\ worker \in Open => rc = 1
    /\ worker = "ranges" => left = 0 \/ refused \/ stopFlag \/ rc = 1
    /\ worker \notin Open \cup Looping \cup {"ranges"} =>
        left = 0 \/ refused \/ cfg.test \/ rc = 1
    /\ finished => worker \in {"exit", "leave", "ended", "none"} /\ (failed <=> rc # 0)
    /\ worker \in {"exit", "leave", "ended"} => finished
    /\ worker \in {"leave", "ended"} => exitCode = rc

\* The timer, once started, meets a worker or the outcome it published.
TimerInv ==
    worker = "none" /\ (timer \/ ui \in {"timerDecide", "timerJoin"}) => finished

HeadlessInv ==
    /\ ~window => ui \in {"idle", "poll", "join", "closed"}
    /\ ~window => ~uiRunning /\ ~timer /\ shown = "IDLE"
    /\ ~window => (worker # "none" <=> ui \in {"poll", "join"})

\* The window and PauseControl agree except inside on_pause; a resume that
\* belongs to a stop comes after the stop.
PauseInv ==
    /\ uiRunning /\ running /\ ~stopFlag =>
        /\ ui # "pauseProg" => (pauseFlag <=> uiPaused)
        /\ ui = "pauseProg" => (pauseFlag <=> ~uiPaused)
        /\ progPaused => uiPaused
    /\ ui \in {"stopResume", "quitResume"} => stopFlag

IInv ==
    /\ TypeOK
    /\ ThreadInv
    /\ LoopInv
    /\ BoundaryInv
    /\ PauseInv
    /\ OutcomeInv
    /\ TimerInv
    /\ HeadlessInv
    /\ StartOfferedMeansNoWorker
    /\ NoSyncAfterClose
    /\ LockedDuringSync
    /\ ShownOutcomeIsReal
    /\ ExitStatusMatchesOutcome

\* No step of any thread takes a flag or a counter out of its range.
LEMMA TypeStep == TypeOK /\ LoopInv /\ [Next]_vars => TypeOK'
  <1> SUFFICES ASSUME TypeOK, LoopInv, [Next]_vars PROVE TypeOK'
    OBVIOUS
  <1> USE EngineAssumption DEF TypeOK, LoopInv, uiVars, ctlVars, progVars, engVars, runVars,
      histVars
  <1>1. CASE GuiStart
    <2>1. FlagsOK'
      BY <1>1 DEF GuiStart, EngineStart, ControlReset, ProgressReset, FlagsOK
    <2>2. cfg' \in Config(window')
      BY <1>1 DEF GuiStart, EngineStart, ControlReset, ProgressReset, ValuesOK
    <2>3. ui' \in UiPc /\ worker' \in WorkerPc
      BY <1>1 DEF GuiStart, EngineStart, ControlReset, ProgressReset, ValuesOK, UiPc, WorkerPc
    <2>4. /\ shown' = "RUN" /\ exitCode' = 1 /\ rc' = 1 /\ sync' = "none" /\ hash' = "none"
          /\ left' = Blocks /\ files' = Files /\ sincePause' = 0 /\ sinceStop' = 0
          /\ UNCHANGED <<snap, exitStatus>>
      BY <1>1 DEF GuiStart, EngineStart, ControlReset, ProgressReset
    <2>5. ValuesOK'
      BY <2>2, <2>3, <2>4 DEF ValuesOK
    <2> QED
      BY <2>1, <2>5
  <1>2. CASE PauseClick
    <2>1. FlagsOK'
      BY <1>2 DEF PauseClick, FlagsOK
    <2>2. ValuesOK'
      BY <1>2 DEF PauseClick, FlagsOK, ValuesOK, UiPc, WorkerPc
    <2> QED
      BY <2>1, <2>2
  <1>3. CASE StopClick
    <2>1. FlagsOK'
      BY <1>3 DEF StopClick, FlagsOK
    <2>2. ValuesOK'
      BY <1>3 DEF StopClick, FlagsOK, ValuesOK, UiPc, WorkerPc
    <2> QED
      BY <2>1, <2>2
  <1>4. CASE PickTarget
    <2>1. FlagsOK'
      BY <1>4 DEF PickTarget, FlagsOK
    <2>2. cfg' \in Config(window')
      BY <1>4 DEF PickTarget, ValuesOK
    <2>3. ui' \in UiPc /\ worker' \in WorkerPc
      BY <1>4 DEF PickTarget, ValuesOK, UiPc, WorkerPc
    <2>4. ValuesOK'
      BY <2>2, <2>3, <1>4 DEF PickTarget, ValuesOK
    <2> QED
      BY <2>1, <2>4
  <1>5. CASE QuitClick
    <2>1. FlagsOK'
      BY <1>5 DEF QuitClick, FlagsOK
    <2>2. cfg' \in Config(window')
      BY <1>5 DEF QuitClick, ValuesOK
    <2>3. ui' \in UiPc /\ worker' \in WorkerPc
      BY <1>5 DEF QuitClick, ValuesOK, UiPc, WorkerPc
    <2>4. ValuesOK'
      BY <2>2, <2>3, <1>5 DEF QuitClick, ValuesOK
    <2> QED
      BY <2>1, <2>4
  <1>6. CASE CloseWindow
    <2>1. FlagsOK'
      BY <1>6 DEF CloseWindow, FlagsOK
    <2>2. cfg' \in Config(window')
      BY <1>6 DEF CloseWindow, ValuesOK
    <2>3. ui' \in UiPc /\ worker' \in WorkerPc
      BY <1>6 DEF CloseWindow, ValuesOK, UiPc, WorkerPc
    <2>4. ValuesOK'
      BY <2>2, <2>3, <1>6 DEF CloseWindow, ValuesOK
    <2> QED
      BY <2>1, <2>4
  <1>7. CASE HeadlessStart
    <2>1. FlagsOK'
      BY <1>7 DEF HeadlessStart, EngineStart, ControlReset, ProgressReset, FlagsOK
    <2>2. ValuesOK'
      BY <1>7 DEF HeadlessStart, EngineStart, ControlReset, ProgressReset, FlagsOK,
          ValuesOK, UiPc, WorkerPc
    <2> QED
      BY <2>1, <2>2
  <1>8. CASE PauseSet
    <2>1. FlagsOK'
      BY <1>8 DEF PauseSet, FlagsOK
    <2>2. ValuesOK'
      BY <1>8 DEF PauseSet, FlagsOK, ValuesOK, UiPc, WorkerPc
    <2> QED
      BY <2>1, <2>2
  <1>9. CASE PauseProg
    <2>1. FlagsOK'
      BY <1>9 DEF PauseProg, FlagsOK
    <2>2. ValuesOK'
      BY <1>9 DEF PauseProg, FlagsOK, ValuesOK, UiPc, WorkerPc
    <2> QED
      BY <2>1, <2>2
  <1>10. CASE StopSet("stopSet", "stopResume")
    <2>1. FlagsOK'
      BY <1>10 DEF StopSet, FlagsOK
    <2>2. ValuesOK'
      BY <1>10 DEF StopSet, FlagsOK, ValuesOK, UiPc, WorkerPc
    <2> QED
      BY <2>1, <2>2
  <1>11. CASE StopResume("stopResume", "idle")
    <2>1. FlagsOK'
      <3>1. /\ window' \in BOOLEAN /\ uiRunning' \in BOOLEAN /\ uiPaused' \in BOOLEAN
            /\ menus' \in BOOLEAN /\ timer' \in BOOLEAN
        BY <1>11 DEF StopResume, FlagsOK
      <3>2. /\ running' \in BOOLEAN /\ pauseFlag' \in BOOLEAN /\ stopFlag' \in BOOLEAN
            /\ finished' \in BOOLEAN /\ failed' \in BOOLEAN
        BY <1>11 DEF StopResume, FlagsOK
      <3>3. locked' \in BOOLEAN /\ progPaused' \in BOOLEAN /\ refused' \in BOOLEAN
        BY <1>11 DEF StopResume, FlagsOK
      <3> QED
        BY <3>1, <3>2, <3>3, Zenon DEF FlagsOK
    <2>2. ValuesOK'
      BY <1>11 DEF StopResume, FlagsOK, ValuesOK, UiPc, WorkerPc
    <2> QED
      BY <2>1, <2>2
  <1>12. CASE TimerDecide
    <2>1. FlagsOK'
      <3>1. /\ window' \in BOOLEAN /\ uiRunning' \in BOOLEAN /\ uiPaused' \in BOOLEAN
            /\ menus' \in BOOLEAN /\ timer' \in BOOLEAN
        BY <1>12 DEF TimerDecide, FlagsOK
      <3>2. /\ running' \in BOOLEAN /\ pauseFlag' \in BOOLEAN /\ stopFlag' \in BOOLEAN
            /\ finished' \in BOOLEAN /\ failed' \in BOOLEAN
        BY <1>12 DEF TimerDecide, FlagsOK
      <3>3. locked' \in BOOLEAN /\ progPaused' \in BOOLEAN /\ refused' \in BOOLEAN
        BY <1>12 DEF TimerDecide, FlagsOK
      <3> QED
        BY <3>1, <3>2, <3>3, Zenon DEF FlagsOK
    <2>2. ValuesOK'
      BY <1>12 DEF TimerDecide, FlagsOK, ValuesOK, UiPc, WorkerPc
    <2> QED
      BY <2>1, <2>2
  <1>13. CASE TimerJoin
    <2>1. FlagsOK'
      BY <1>13 DEF TimerJoin, Snapshot, FinalSnapshot, FlagsOK
    <2>2. ValuesOK'
      BY <1>13 DEF TimerJoin, Snapshot, FinalSnapshot, FlagsOK, ValuesOK, UiPc, WorkerPc
    <2> QED
      BY <2>1, <2>2
  <1>14. CASE StopSet("quitStop", "quitResume")
    <2>1. FlagsOK'
      BY <1>14 DEF StopSet, FlagsOK
    <2>2. ValuesOK'
      BY <1>14 DEF StopSet, FlagsOK, ValuesOK, UiPc, WorkerPc
    <2> QED
      BY <2>1, <2>2
  <1>15. CASE StopResume("quitResume", "quitJoin")
    <2>1. FlagsOK'
      <3>1. /\ window' \in BOOLEAN /\ uiRunning' \in BOOLEAN /\ uiPaused' \in BOOLEAN
            /\ menus' \in BOOLEAN /\ timer' \in BOOLEAN
        BY <1>15 DEF StopResume, FlagsOK
      <3>2. /\ running' \in BOOLEAN /\ pauseFlag' \in BOOLEAN /\ stopFlag' \in BOOLEAN
            /\ finished' \in BOOLEAN /\ failed' \in BOOLEAN
        BY <1>15 DEF StopResume, FlagsOK
      <3>3. locked' \in BOOLEAN /\ progPaused' \in BOOLEAN /\ refused' \in BOOLEAN
        BY <1>15 DEF StopResume, FlagsOK
      <3> QED
        BY <3>1, <3>2, <3>3, Zenon DEF FlagsOK
    <2>2. ValuesOK'
      BY <1>15 DEF StopResume, FlagsOK, ValuesOK, UiPc, WorkerPc
    <2> QED
      BY <2>1, <2>2
  <1>16. CASE JoinWorker("quitJoin", "dtorStop")
    <2>1. FlagsOK'
      BY <1>16 DEF JoinWorker, FlagsOK
    <2>2. ValuesOK'
      BY <1>16 DEF JoinWorker, FlagsOK, ValuesOK, UiPc, WorkerPc
    <2> QED
      BY <2>1, <2>2
  <1>17. CASE StopSet("dtorStop", "dtorJoin")
    <2>1. FlagsOK'
      BY <1>17 DEF StopSet, FlagsOK
    <2>2. ValuesOK'
      BY <1>17 DEF StopSet, FlagsOK, ValuesOK, UiPc, WorkerPc
    <2> QED
      BY <2>1, <2>2
  <1>18. CASE JoinWorker("dtorJoin", "closed")
    <2>1. FlagsOK'
      BY <1>18 DEF JoinWorker, FlagsOK
    <2>2. ValuesOK'
      BY <1>18 DEF JoinWorker, FlagsOK, ValuesOK, UiPc, WorkerPc
    <2> QED
      BY <2>1, <2>2
  <1>19. CASE PollFinished
    <2>1. FlagsOK'
      BY <1>19 DEF PollFinished, Snapshot, FlagsOK
    <2>2. ValuesOK'
      BY <1>19 DEF PollFinished, Snapshot, FlagsOK, ValuesOK, UiPc, WorkerPc
    <2> QED
      BY <2>1, <2>2
  <1>20. CASE JoinWorker("join", "closed")
    <2>1. FlagsOK'
      BY <1>20 DEF JoinWorker, FlagsOK
    <2>2. ValuesOK'
      BY <1>20 DEF JoinWorker, FlagsOK, ValuesOK, UiPc, WorkerPc
    <2> QED
      BY <2>1, <2>2
  <1>21. CASE TimerSnap
    <2>1. FlagsOK'
      BY <1>21 DEF TimerSnap, Snapshot, FlagsOK
    <2>2. ValuesOK'
      BY <1>21 DEF TimerSnap, Snapshot, FlagsOK, ValuesOK, UiPc, WorkerPc
    <2> QED
      BY <2>1, <2>2
  <1>22. CASE Prepare
    <2>1. FlagsOK'
      <3>1. /\ window' \in BOOLEAN /\ uiRunning' \in BOOLEAN /\ uiPaused' \in BOOLEAN
            /\ menus' \in BOOLEAN /\ timer' \in BOOLEAN
        BY <1>22 DEF Prepare, ProgressReset, FlagsOK
      <3>2. /\ running' \in BOOLEAN /\ pauseFlag' \in BOOLEAN /\ stopFlag' \in BOOLEAN
            /\ finished' \in BOOLEAN /\ failed' \in BOOLEAN
        BY <1>22 DEF Prepare, ProgressReset, FlagsOK
      <3>3. locked' \in BOOLEAN /\ progPaused' \in BOOLEAN /\ refused' \in BOOLEAN
        BY <1>22 DEF Prepare, ProgressReset, FlagsOK
      <3> QED
        BY <3>1, <3>2, <3>3, Zenon DEF FlagsOK
    <2>2. ValuesOK'
      BY <1>22 DEF Prepare, ProgressReset, FlagsOK, ValuesOK, UiPc, WorkerPc
    <2> QED
      BY <2>1, <2>2
  <1>23. CASE Scan
    <2>1. FlagsOK'
      <3>1. /\ window' \in BOOLEAN /\ uiRunning' \in BOOLEAN /\ uiPaused' \in BOOLEAN
            /\ menus' \in BOOLEAN /\ timer' \in BOOLEAN
        BY <1>23 DEF Scan, ProgressReset, FlagsOK
      <3>2. /\ running' \in BOOLEAN /\ pauseFlag' \in BOOLEAN /\ stopFlag' \in BOOLEAN
            /\ finished' \in BOOLEAN /\ failed' \in BOOLEAN
        BY <1>23 DEF Scan, ProgressReset, FlagsOK
      <3>3. locked' \in BOOLEAN /\ progPaused' \in BOOLEAN /\ refused' \in BOOLEAN
        BY <1>23 DEF Scan, ProgressReset, FlagsOK
      <3> QED
        BY <3>1, <3>2, <3>3, Zenon DEF FlagsOK
    <2>2. ValuesOK'
      BY <1>23 DEF Scan, ProgressReset, FlagsOK, ValuesOK, UiPc, WorkerPc
    <2> QED
      BY <2>1, <2>2
  <1>24. CASE Refuse
    <2>1. FlagsOK'
      BY <1>24 DEF Refuse, FlagsOK
    <2>2. ValuesOK'
      BY <1>24 DEF Refuse, FlagsOK, ValuesOK, UiPc, WorkerPc
    <2> QED
      BY <2>1, <2>2
  <1>25. CASE Boundary
    <2>1. FlagsOK'
      BY <1>25 DEF Boundary, AfterPauseRead, FlagsOK
    <2>2. ValuesOK'
      BY <1>25 DEF Boundary, AfterPauseRead, FlagsOK, ValuesOK, UiPc, WorkerPc
    <2> QED
      BY <2>1, <2>2
  <1>26. CASE Held
    <2>1. FlagsOK'
      BY <1>26 DEF Held, AfterHeldRead, FlagsOK
    <2>2. ValuesOK'
      BY <1>26 DEF Held, AfterHeldRead, FlagsOK, ValuesOK, UiPc, WorkerPc
    <2> QED
      BY <2>1, <2>2
  <1>27. CASE StopCheck
    <2>1. FlagsOK'
      BY <1>27 DEF StopCheck, AfterStopRead, FlagsOK
    <2>2. ValuesOK'
      BY <1>27 DEF StopCheck, AfterStopRead, FlagsOK, ValuesOK, UiPc, WorkerPc
    <2> QED
      BY <2>1, <2>2
  <1>28. CASE Block
    <2>1. FlagsOK'
      BY <1>28 DEF Block, AfterBlock, FlagsOK
    <2>2. ValuesOK'
      BY <1>28 DEF Block, AfterBlock, FlagsOK, ValuesOK, UiPc, WorkerPc
    <2> QED
      BY <2>1, <2>2
  <1>29. CASE RangesDone
    <2>1. FlagsOK'
      BY <1>29 DEF RangesDone, StoppedRc, FlagsOK
    <2>2. ValuesOK'
      BY <1>29 DEF RangesDone, StoppedRc, FlagsOK, ValuesOK, UiPc, WorkerPc
    <2> QED
      BY <2>1, <2>2
  <1>30. CASE FlushCheck
    <2>1. FlagsOK'
      BY <1>30 DEF FlushCheck, FlagsOK
    <2>2. ValuesOK'
      BY <1>30 DEF FlushCheck, FlagsOK, ValuesOK, UiPc, WorkerPc
    <2> QED
      BY <2>1, <2>2
  <1>31. CASE FlushLock
    <2>1. FlagsOK'
      BY <1>31 DEF FlushLock, FlagsOK
    <2>2. ValuesOK'
      BY <1>31 DEF FlushLock, FlagsOK, ValuesOK, UiPc, WorkerPc
    <2> QED
      BY <2>1, <2>2
  <1>32. CASE FlushPoll
    <2>1. FlagsOK'
      BY <1>32 DEF FlushPoll, FlagsOK
    <2>2. ValuesOK'
      BY <1>32 DEF FlushPoll, FlagsOK, ValuesOK, UiPc, WorkerPc
    <2> QED
      BY <2>1, <2>2
  <1>33. CASE SyncJoin
    <2>1. FlagsOK'
      BY <1>33 DEF SyncJoin, SyncEnded, FlagsOK
    <2>2. ValuesOK'
      BY <1>33 DEF SyncJoin, SyncEnded, FlagsOK, ValuesOK, UiPc, WorkerPc
    <2> QED
      BY <2>1, <2>2
  <1>34. CASE Unlock
    <2>1. FlagsOK'
      <3>1. /\ window' \in BOOLEAN /\ uiRunning' \in BOOLEAN /\ uiPaused' \in BOOLEAN
            /\ menus' \in BOOLEAN /\ timer' \in BOOLEAN
        BY <1>34 DEF Unlock, InputUnlocked, FlagsOK
      <3>2. /\ running' \in BOOLEAN /\ pauseFlag' \in BOOLEAN /\ stopFlag' \in BOOLEAN
            /\ finished' \in BOOLEAN /\ failed' \in BOOLEAN
        BY <1>34 DEF Unlock, InputUnlocked, FlagsOK
      <3>3. locked' \in BOOLEAN /\ progPaused' \in BOOLEAN /\ refused' \in BOOLEAN
        BY <1>34 DEF Unlock, InputUnlocked, FlagsOK
      <3> QED
        BY <3>1, <3>2, <3>3, Zenon DEF FlagsOK
    <2>2. ValuesOK'
      BY <1>34 DEF Unlock, InputUnlocked, FlagsOK, ValuesOK, UiPc, WorkerPc
    <2> QED
      BY <2>1, <2>2
  <1>35. CASE Sha1Check
    <2>1. FlagsOK'
      BY <1>35 DEF Sha1Check, FlagsOK
    <2>2. ValuesOK'
      BY <1>35 DEF Sha1Check, FlagsOK, ValuesOK, UiPc, WorkerPc
    <2> QED
      BY <2>1, <2>2
  <1>36. CASE Sha1File
    <2>1. FlagsOK'
      BY <1>36 DEF Sha1File, FlagsOK
    <2>2. ValuesOK'
      BY <1>36 DEF Sha1File, FlagsOK, ValuesOK, UiPc, WorkerPc
    <2> QED
      BY <2>1, <2>2
  <1>37. CASE Restore
    <2>1. FlagsOK'
      BY <1>37 DEF Restore, FlagsOK
    <2>2. ValuesOK'
      BY <1>37 DEF Restore, FlagsOK, ValuesOK, UiPc, WorkerPc
    <2> QED
      BY <2>1, <2>2
  <1>38. CASE Finish
    <2>1. FlagsOK'
      BY <1>38 DEF Finish, SetFinished, FlagsOK
    <2>2. ValuesOK'
      BY <1>38 DEF Finish, SetFinished, FlagsOK, ValuesOK, UiPc, WorkerPc
    <2> QED
      BY <2>1, <2>2
  <1>39. CASE WorkerExit
    <2>1. FlagsOK'
      BY <1>39 DEF WorkerExit, FlagsOK
    <2>2. ValuesOK'
      BY <1>39 DEF WorkerExit, FlagsOK, ValuesOK, UiPc, WorkerPc
    <2> QED
      BY <2>1, <2>2
  <1>40. CASE WorkerLeave
    <2>1. FlagsOK'
      <3>1. /\ window' \in BOOLEAN /\ uiRunning' \in BOOLEAN /\ uiPaused' \in BOOLEAN
            /\ menus' \in BOOLEAN /\ timer' \in BOOLEAN
        BY <1>40 DEF WorkerLeave, NotRunning, FlagsOK
      <3>2. /\ running' \in BOOLEAN /\ pauseFlag' \in BOOLEAN /\ stopFlag' \in BOOLEAN
            /\ finished' \in BOOLEAN /\ failed' \in BOOLEAN
        BY <1>40 DEF WorkerLeave, NotRunning, FlagsOK
      <3>3. locked' \in BOOLEAN /\ progPaused' \in BOOLEAN /\ refused' \in BOOLEAN
        BY <1>40 DEF WorkerLeave, NotRunning, FlagsOK
      <3> QED
        BY <3>1, <3>2, <3>3, Zenon DEF FlagsOK
    <2>2. ValuesOK'
      BY <1>40 DEF WorkerLeave, NotRunning, FlagsOK, ValuesOK, UiPc, WorkerPc
    <2> QED
      BY <2>1, <2>2
  <1>41. CASE SyncThread
    <2>1. FlagsOK'
      BY <1>41 DEF SyncThread, FlagsOK
    <2>2. ValuesOK'
      BY <1>41 DEF SyncThread, FlagsOK, ValuesOK, UiPc, WorkerPc
    <2> QED
      BY <2>1, <2>2
  <1>42. CASE UNCHANGED vars
    BY <1>42 DEF vars, FlagsOK, ValuesOK
  <1> QED
    BY <1>1, <1>2, <1>3, <1>4, <1>5, <1>6, <1>7, <1>8, <1>9, <1>10, <1>11, <1>12,
       <1>13, <1>14, <1>15, <1>16, <1>17, <1>18, <1>19, <1>20, <1>21, <1>22, <1>23, <1>24,
       <1>25, <1>26, <1>27, <1>28, <1>29, <1>30, <1>31, <1>32, <1>33, <1>34, <1>35, <1>36,
       <1>37, <1>38, <1>39, <1>40, <1>41, <1>42
    DEF Next, User, Handler, Worker

\* Every step of every thread keeps the inductive invariant.
LEMMA StepIInv == IInv /\ [Next]_vars => IInv'
  <1> SUFFICES ASSUME IInv, [Next]_vars PROVE IInv'
    OBVIOUS
  <1>0. TypeOK'
    BY TypeStep DEF IInv
  <1> USE <1>0 DEF IInv, TypeOK, FlagsOK, ValuesOK, UiPc, WorkerPc, ThreadInv, LoopInv,
      BoundaryInv, PauseInv, OutcomeInv, TimerInv, HeadlessInv, StartOfferedMeansNoWorker,
      NoSyncAfterClose, LockedDuringSync, ShownOutcomeIsReal, ExitStatusMatchesOutcome,
      Joinable, Open, Looping, uiVars, ctlVars, progVars, engVars, runVars, histVars
  <1>1. CASE GuiStart
    <2>1. ThreadInv'
      BY <1>1 DEF GuiStart, EngineStart, ControlReset, ProgressReset
    <2>2. LoopInv'
      BY <1>1 DEF GuiStart, EngineStart, ControlReset, ProgressReset
    <2>3. BoundaryInv'
      BY <1>1 DEF GuiStart, EngineStart, ControlReset, ProgressReset
    <2>4. PauseInv'
      BY <1>1 DEF GuiStart, EngineStart, ControlReset, ProgressReset
    <2>5. OutcomeInv'
      BY <1>1 DEF GuiStart, EngineStart, ControlReset, ProgressReset
    <2>6. TimerInv'
      BY <1>1 DEF GuiStart, EngineStart, ControlReset, ProgressReset
    <2>7. HeadlessInv'
      BY <1>1 DEF GuiStart, EngineStart, ControlReset, ProgressReset
    <2>8. StartOfferedMeansNoWorker'
      BY <1>1 DEF GuiStart, EngineStart, ControlReset, ProgressReset
    <2>9. NoSyncAfterClose'
      BY <1>1 DEF GuiStart, EngineStart, ControlReset, ProgressReset
    <2>10. LockedDuringSync'
      BY <1>1 DEF GuiStart, EngineStart, ControlReset, ProgressReset
    <2>11. ShownOutcomeIsReal'
      BY <1>1 DEF GuiStart, EngineStart, ControlReset, ProgressReset
    <2>12. ExitStatusMatchesOutcome'
      BY <1>1 DEF GuiStart, EngineStart, ControlReset, ProgressReset
    <2> QED
      BY <1>0, <2>1, <2>2, <2>3, <2>4, <2>5, <2>6, <2>7, <2>8, <2>9, <2>10, <2>11, <2>12
  <1>2. CASE PauseClick
    BY <1>2 DEF PauseClick
  <1>3. CASE StopClick
    BY <1>3 DEF StopClick
  <1>4. CASE PickTarget
    <2>1. ThreadInv'
      BY <1>4 DEF PickTarget
    <2>2. LoopInv'
      BY <1>4 DEF PickTarget
    <2>3. BoundaryInv'
      BY <1>4 DEF PickTarget
    <2>4. PauseInv'
      BY <1>4 DEF PickTarget
    <2>5. OutcomeInv'
      BY <1>4 DEF PickTarget
    <2>6. TimerInv'
      BY <1>4 DEF PickTarget
    <2>7. HeadlessInv'
      BY <1>4 DEF PickTarget
    <2>8. StartOfferedMeansNoWorker'
      BY <1>4 DEF PickTarget
    <2>9. NoSyncAfterClose'
      BY <1>4 DEF PickTarget
    <2>10. LockedDuringSync'
      BY <1>4 DEF PickTarget
    <2>11. ShownOutcomeIsReal'
      BY <1>4 DEF PickTarget
    <2>12. ExitStatusMatchesOutcome'
      BY <1>4 DEF PickTarget
    <2> QED
      BY <1>0, <2>1, <2>2, <2>3, <2>4, <2>5, <2>6, <2>7, <2>8, <2>9, <2>10, <2>11, <2>12
  <1>5. CASE QuitClick
    <2>1. ThreadInv'
      BY <1>5 DEF QuitClick
    <2>2. LoopInv'
      BY <1>5 DEF QuitClick
    <2>3. BoundaryInv'
      BY <1>5 DEF QuitClick
    <2>4. PauseInv'
      BY <1>5 DEF QuitClick
    <2>5. OutcomeInv'
      BY <1>5 DEF QuitClick
    <2>6. TimerInv'
      BY <1>5 DEF QuitClick
    <2>7. HeadlessInv'
      BY <1>5 DEF QuitClick
    <2>8. StartOfferedMeansNoWorker'
      BY <1>5 DEF QuitClick
    <2>9. NoSyncAfterClose'
      BY <1>5 DEF QuitClick
    <2>10. LockedDuringSync'
      BY <1>5 DEF QuitClick
    <2>11. ShownOutcomeIsReal'
      BY <1>5 DEF QuitClick
    <2>12. ExitStatusMatchesOutcome'
      BY <1>5 DEF QuitClick
    <2> QED
      BY <1>0, <2>1, <2>2, <2>3, <2>4, <2>5, <2>6, <2>7, <2>8, <2>9, <2>10, <2>11, <2>12
  <1>6. CASE CloseWindow
    <2>1. ThreadInv'
      BY <1>6 DEF CloseWindow
    <2>2. LoopInv'
      BY <1>6 DEF CloseWindow
    <2>3. BoundaryInv'
      BY <1>6 DEF CloseWindow
    <2>4. PauseInv'
      BY <1>6 DEF CloseWindow
    <2>5. OutcomeInv'
      BY <1>6 DEF CloseWindow
    <2>6. TimerInv'
      BY <1>6 DEF CloseWindow
    <2>7. HeadlessInv'
      BY <1>6 DEF CloseWindow
    <2>8. StartOfferedMeansNoWorker'
      BY <1>6 DEF CloseWindow
    <2>9. NoSyncAfterClose'
      BY <1>6 DEF CloseWindow
    <2>10. LockedDuringSync'
      BY <1>6 DEF CloseWindow
    <2>11. ShownOutcomeIsReal'
      BY <1>6 DEF CloseWindow
    <2>12. ExitStatusMatchesOutcome'
      BY <1>6 DEF CloseWindow
    <2> QED
      BY <1>0, <2>1, <2>2, <2>3, <2>4, <2>5, <2>6, <2>7, <2>8, <2>9, <2>10, <2>11, <2>12
  <1>7. CASE HeadlessStart
    BY <1>7 DEF HeadlessStart, EngineStart, ControlReset, ProgressReset
  <1>8. CASE PauseSet
    BY <1>8 DEF PauseSet
  <1>9. CASE PauseProg
    BY <1>9 DEF PauseProg
  <1>10. CASE StopSet("stopSet", "stopResume")
    BY <1>10 DEF StopSet
  <1>11. CASE StopResume("stopResume", "idle")
    BY <1>11 DEF StopResume
  <1>12. CASE TimerDecide
    BY <1>12 DEF TimerDecide
  <1>13. CASE TimerJoin
    BY <1>13 DEF TimerJoin, Snapshot, FinalSnapshot
  <1>14. CASE StopSet("quitStop", "quitResume")
    BY <1>14 DEF StopSet
  <1>15. CASE StopResume("quitResume", "quitJoin")
    BY <1>15 DEF StopResume
  <1>16. CASE JoinWorker("quitJoin", "dtorStop")
    BY <1>16 DEF JoinWorker
  <1>17. CASE StopSet("dtorStop", "dtorJoin")
    BY <1>17 DEF StopSet
  <1>18. CASE JoinWorker("dtorJoin", "closed")
    BY <1>18 DEF JoinWorker
  <1>19. CASE PollFinished
    BY <1>19 DEF PollFinished, Snapshot
  <1>20. CASE JoinWorker("join", "closed")
    BY <1>20 DEF JoinWorker
  <1>21. CASE TimerSnap
    <2>1. ThreadInv'
      BY <1>21 DEF TimerSnap, Snapshot
    <2>2. LoopInv'
      BY <1>21 DEF TimerSnap, Snapshot
    <2>3. BoundaryInv'
      BY <1>21 DEF TimerSnap, Snapshot
    <2>4. PauseInv'
      BY <1>21 DEF TimerSnap, Snapshot
    <2>5. OutcomeInv'
      BY <1>21 DEF TimerSnap, Snapshot
    <2>6. TimerInv'
      BY <1>21 DEF TimerSnap, Snapshot
    <2>7. HeadlessInv'
      BY <1>21 DEF TimerSnap, Snapshot
    <2>8. StartOfferedMeansNoWorker'
      BY <1>21 DEF TimerSnap, Snapshot
    <2>9. NoSyncAfterClose'
      BY <1>21 DEF TimerSnap, Snapshot
    <2>10. LockedDuringSync'
      BY <1>21 DEF TimerSnap, Snapshot
    <2>11. ShownOutcomeIsReal'
      BY <1>21 DEF TimerSnap, Snapshot
    <2>12. ExitStatusMatchesOutcome'
      BY <1>21 DEF TimerSnap, Snapshot
    <2> QED
      BY <1>0, <2>1, <2>2, <2>3, <2>4, <2>5, <2>6, <2>7, <2>8, <2>9, <2>10, <2>11, <2>12
  <1>22. CASE Prepare
    BY <1>22 DEF Prepare, ProgressReset
  <1>23. CASE Scan
    BY <1>23 DEF Scan, ProgressReset
  <1>24. CASE Refuse
    BY <1>24 DEF Refuse
  <1>25. CASE Boundary
    BY <1>25 DEF Boundary, AfterPauseRead
  <1>26. CASE Held
    BY <1>26 DEF Held, AfterHeldRead
  <1>27. CASE StopCheck
    BY <1>27 DEF StopCheck, AfterStopRead
  <1>28. CASE Block
    BY <1>28 DEF Block, AfterBlock
  <1>29. CASE RangesDone
    BY <1>29 DEF RangesDone, StoppedRc
  <1>30. CASE FlushCheck
    BY <1>30 DEF FlushCheck
  <1>31. CASE FlushLock
    BY <1>31 DEF FlushLock
  <1>32. CASE FlushPoll
    BY <1>32 DEF FlushPoll
  <1>33. CASE SyncJoin
    BY <1>33 DEF SyncJoin, SyncEnded
  <1>34. CASE Unlock
    BY <1>34 DEF Unlock, InputUnlocked
  <1>35. CASE Sha1Check
    BY <1>35 DEF Sha1Check
  <1>36. CASE Sha1File
    BY <1>36 DEF Sha1File
  <1>37. CASE Restore
    BY <1>37 DEF Restore
  <1>38. CASE Finish
    <2>1. ThreadInv'
      BY <1>38 DEF Finish, SetFinished
    <2>2. LoopInv'
      BY <1>38 DEF Finish, SetFinished
    <2>3. BoundaryInv'
      BY <1>38 DEF Finish, SetFinished
    <2>4. PauseInv'
      BY <1>38 DEF Finish, SetFinished
    <2>5. OutcomeInv'
      BY <1>38 DEF Finish, SetFinished
    <2>6. TimerInv'
      BY <1>38 DEF Finish, SetFinished
    <2>7. HeadlessInv'
      BY <1>38 DEF Finish, SetFinished
    <2>8. StartOfferedMeansNoWorker'
      BY <1>38 DEF Finish, SetFinished
    <2>9. NoSyncAfterClose'
      BY <1>38 DEF Finish, SetFinished
    <2>10. LockedDuringSync'
      BY <1>38 DEF Finish, SetFinished
    <2>11. ShownOutcomeIsReal'
      BY <1>38 DEF Finish, SetFinished
    <2>12. ExitStatusMatchesOutcome'
      BY <1>38 DEF Finish, SetFinished
    <2> QED
      BY <1>0, <2>1, <2>2, <2>3, <2>4, <2>5, <2>6, <2>7, <2>8, <2>9, <2>10, <2>11, <2>12
  <1>39. CASE WorkerExit
    BY <1>39 DEF WorkerExit
  <1>40. CASE WorkerLeave
    BY <1>40 DEF WorkerLeave, NotRunning
  <1>41. CASE SyncThread
    BY <1>41 DEF SyncThread
  <1>42. CASE UNCHANGED vars
    BY <1>42 DEF vars
  <1> QED
    BY <1>1, <1>2, <1>3, <1>4, <1>5, <1>6, <1>7, <1>8, <1>9, <1>10, <1>11, <1>12,
       <1>13, <1>14, <1>15, <1>16, <1>17, <1>18, <1>19, <1>20, <1>21, <1>22, <1>23, <1>24,
       <1>25, <1>26, <1>27, <1>28, <1>29, <1>30, <1>31, <1>32, <1>33, <1>34, <1>35, <1>36,
       <1>37, <1>38, <1>39, <1>40, <1>41, <1>42
    DEF Next, User, Handler, Worker

\* The inductive invariant holds before the first run.
LEMMA InitIInv == Init => IInv
  <1> SUFFICES ASSUME Init PROVE IInv
    OBVIOUS
  <1> USE EngineAssumption DEF Init
  <1>1. FlagsOK
    BY DEF FlagsOK
  <1>2. ValuesOK
    BY DEF ValuesOK, UiPc, WorkerPc
  <1>3. ThreadInv /\ LoopInv /\ BoundaryInv /\ PauseInv /\ OutcomeInv /\ TimerInv /\ HeadlessInv
    BY DEF ThreadInv, Joinable, LoopInv, BoundaryInv, PauseInv, OutcomeInv, Open, Looping,
        TimerInv, HeadlessInv
  <1>4. StartOfferedMeansNoWorker /\ NoSyncAfterClose /\ LockedDuringSync
    BY DEF StartOfferedMeansNoWorker, NoSyncAfterClose, LockedDuringSync
  <1>5. ShownOutcomeIsReal /\ ExitStatusMatchesOutcome
    BY DEF ShownOutcomeIsReal, ExitStatusMatchesOutcome
  <1> QED
    BY <1>1, <1>2, <1>3, <1>4, <1>5 DEF IInv, TypeOK

\* The inductive invariant holds in every reachable state.
LEMMA SpecIInv == Spec => []IInv
  BY InitIInv, StepIInv, PTL DEF Spec

(***************************************************************************)
(* Every flag and counter of a run keeps its type and its bounds, whatever *)
(* the number of blocks and files.                                         *)
(***************************************************************************)
THEOREM TypeCorrect == Spec => []TypeOK
  <1>1. IInv => TypeOK
    BY DEF IInv
  <1> QED
    BY SpecIInv, <1>1, PTL

(***************************************************************************)
(* set_running_ui never offers Start while run_inner runs: start_run and   *)
(* open_target cannot replace the options of a live run.                   *)
(***************************************************************************)
THEOREM StartSafe == Spec => []StartOfferedMeansNoWorker
  <1>1. IInv => StartOfferedMeansNoWorker
    BY DEF IInv
  <1> QED
    BY SpecIInv, <1>1, PTL

(***************************************************************************)
(* Between handlers the toggle of the window, PauseControl and Progress    *)
(* tell the same story about a pause.                                      *)
(***************************************************************************)
THEOREM PauseAgreement == Spec => []PauseViewsAgree
  <1>1. IInv => PauseViewsAgree
    BY DEF IInv, PauseInv, PauseViewsAgree, TypeOK, FlagsOK
  <1> QED
    BY SpecIInv, <1>1, PTL

(***************************************************************************)
(* wait_if_paused reads its two flags without a lock, yet at most one      *)
(* block is begun after a pause.                                           *)
(***************************************************************************)
LEMMA PauseTakesEffect == Spec => []PauseHoldsAtBoundary
  <1>1. IInv => PauseHoldsAtBoundary
    BY DEF IInv, BoundaryInv, PauseHoldsAtBoundary
  <1> QED
    BY SpecIInv, <1>1, PTL

(***************************************************************************)
(* The same for request_stop(), also when it comes to a paused worker.     *)
(***************************************************************************)
LEMMA StopTakesEffect == Spec => []StopHoldsAtBoundary
  <1>1. IInv => StopHoldsAtBoundary
    BY DEF IInv, BoundaryInv, StopHoldsAtBoundary
  <1> QED
    BY SpecIInv, <1>1, PTL

(***************************************************************************)
(* The worker, which reads paused_ and stop_ one after the other, begins at *)
(* most one block after either control.                                    *)
(***************************************************************************)
THEOREM ControlsTakeEffect == Spec => []BoundaryHolds
  BY PauseTakesEffect, StopTakesEffect, PTL DEF BoundaryHolds

(***************************************************************************)
(* run_inner publishes rc = 0 only after its last block, or after          *)
(* rewrite_range refused the range.                                        *)
(***************************************************************************)
THEOREM SuccessIsComplete == Spec => []SuccessMeansEveryBlock
  <1>1. IInv => SuccessMeansEveryBlock
    BY DEF IInv, OutcomeInv, SuccessMeansEveryBlock, Open, Looping
  <1> QED
    BY SpecIInv, <1>1, PTL

(***************************************************************************)
(* The sync thread is joined before dev.close(), also when a stop has      *)
(* ended the poll loop early.                                              *)
(***************************************************************************)
LEMMA SyncJoined == Spec => []NoSyncAfterClose
  <1>1. IInv => NoSyncAfterClose
    BY DEF IInv
  <1> QED
    BY SpecIInv, <1>1, PTL

(***************************************************************************)
(* The input lock of Progress is held exactly around the full-disk sync.   *)
(***************************************************************************)
LEMMA LockBracketsSync == Spec => []LockedDuringSync
  <1>1. IInv => LockedDuringSync
    BY DEF IInv
  <1> QED
    BY SpecIInv, <1>1, PTL

(***************************************************************************)
(* The full-disk sync of massage.cpp:298-331 is bracketed by the lock and by *)
(* the join, on every way out of the poll loop.                            *)
(***************************************************************************)
THEOREM SyncBracketed == Spec => []SyncIsBracketed
  BY SyncJoined, LockBracketsSync, PTL DEF SyncIsBracketed

(***************************************************************************)
(* The outcome on_timer shows is the one the run published, whichever of   *)
(* its two conditions led to the join.                                     *)
(***************************************************************************)
LEMMA OutcomeShown == Spec => []ShownOutcomeIsReal
  <1>1. IInv => ShownOutcomeIsReal
    BY DEF IInv
  <1> QED
    BY SpecIInv, <1>1, PTL

(***************************************************************************)
(* main() returns 0 headless exactly when the run published success, since *)
(* it reads exit_code_ after the join.                                     *)
(***************************************************************************)
LEMMA ExitStatusReal == Spec => []ExitStatusMatchesOutcome
  <1>1. IInv => ExitStatusMatchesOutcome
    BY DEF IInv
  <1> QED
    BY SpecIInv, <1>1, PTL

(***************************************************************************)
(* Both front ends tell the user the outcome the run published.            *)
(***************************************************************************)
THEOREM OutcomeTold == Spec => []OutcomeIsReal
  BY OutcomeShown, ExitStatusReal, PTL DEF OutcomeIsReal

-----------------------------------------------------------------------------
(* Refinement: the threads implement the abstract life of a run. *)

\* The engine starts where the abstract run starts.
LEMMA LifecycleInit == Init => Lifecycle!Init
  BY DEF Init, Lifecycle!Init, phase, outcome

\* What the mapping reads.
mapped == <<worker, finished, stopFlag, failed>>

\* A step that leaves these alone is a stutter of the abstract run.
LEMMA MappedUnchanged == UNCHANGED mapped => UNCHANGED <<phase, outcome>>
  BY DEF mapped, phase, outcome

\* Every step of a thread is a step of the abstract run, or a stutter.
LEMMA LifecycleStep ==
    IInv /\ [Next]_vars => [Lifecycle!Next]_<<phase, outcome>>
  <1> SUFFICES ASSUME IInv, [Next]_vars PROVE [Lifecycle!Next]_<<phase, outcome>>
    OBVIOUS
  <1> USE DEF IInv, TypeOK, FlagsOK, ThreadInv, OutcomeInv, Joinable, Open, Looping,
          phase, outcome, uiVars, ctlVars, progVars, engVars, runVars, histVars
  <1>1. CASE GuiStart
    BY <1>1 DEF GuiStart, EngineStart, ControlReset, ProgressReset, Lifecycle!Next,
        Lifecycle!Begin, Lifecycle!AskToStop, Lifecycle!Publish, Lifecycle!Acknowledge
  <1>2. CASE PauseClick
    BY <1>2, MappedUnchanged DEF PauseClick, mapped
  <1>3. CASE StopClick
    BY <1>3, MappedUnchanged DEF StopClick, mapped
  <1>4. CASE PickTarget
    BY <1>4, MappedUnchanged DEF PickTarget, mapped
  <1>5. CASE QuitClick
    BY <1>5, MappedUnchanged DEF QuitClick, mapped
  <1>6. CASE CloseWindow
    BY <1>6, MappedUnchanged DEF CloseWindow, mapped
  <1>7. CASE HeadlessStart
    BY <1>7 DEF HeadlessStart, EngineStart, ControlReset, ProgressReset, Lifecycle!Next,
        Lifecycle!Begin, Lifecycle!AskToStop, Lifecycle!Publish, Lifecycle!Acknowledge
  <1>8. CASE PauseSet
    BY <1>8, MappedUnchanged DEF PauseSet, mapped
  <1>9. CASE PauseProg
    BY <1>9, MappedUnchanged DEF PauseProg, mapped
  <1>10. CASE StopSet("stopSet", "stopResume")
    BY <1>10 DEF StopSet, Lifecycle!Next, Lifecycle!Begin, Lifecycle!AskToStop,
        Lifecycle!Publish, Lifecycle!Acknowledge
  <1>11. CASE StopResume("stopResume", "idle")
    BY <1>11, MappedUnchanged DEF StopResume, mapped
  <1>12. CASE TimerDecide
    BY <1>12, MappedUnchanged DEF TimerDecide, mapped
  <1>13. CASE TimerJoin
    BY <1>13 DEF TimerJoin, Snapshot, FinalSnapshot, Lifecycle!Next, Lifecycle!Begin,
        Lifecycle!AskToStop, Lifecycle!Publish, Lifecycle!Acknowledge
  <1>14. CASE StopSet("quitStop", "quitResume")
    BY <1>14 DEF StopSet, Lifecycle!Next, Lifecycle!Begin, Lifecycle!AskToStop,
        Lifecycle!Publish, Lifecycle!Acknowledge
  <1>15. CASE StopResume("quitResume", "quitJoin")
    BY <1>15, MappedUnchanged DEF StopResume, mapped
  <1>16. CASE JoinWorker("quitJoin", "dtorStop")
    BY <1>16 DEF JoinWorker, Lifecycle!Next, Lifecycle!Begin, Lifecycle!AskToStop,
        Lifecycle!Publish, Lifecycle!Acknowledge
  <1>17. CASE StopSet("dtorStop", "dtorJoin")
    BY <1>17 DEF StopSet, Lifecycle!Next, Lifecycle!Begin, Lifecycle!AskToStop,
        Lifecycle!Publish, Lifecycle!Acknowledge
  <1>18. CASE JoinWorker("dtorJoin", "closed")
    BY <1>18 DEF JoinWorker, Lifecycle!Next, Lifecycle!Begin, Lifecycle!AskToStop,
        Lifecycle!Publish, Lifecycle!Acknowledge
  <1>19. CASE PollFinished
    BY <1>19, MappedUnchanged DEF PollFinished, Snapshot, mapped
  <1>20. CASE JoinWorker("join", "closed")
    BY <1>20 DEF JoinWorker, Lifecycle!Next, Lifecycle!Begin, Lifecycle!AskToStop,
        Lifecycle!Publish, Lifecycle!Acknowledge
  <1>21. CASE TimerSnap
    BY <1>21, MappedUnchanged DEF TimerSnap, Snapshot, mapped
  <1>22. CASE Prepare
    BY <1>22 DEF Prepare, ProgressReset, Lifecycle!Next, Lifecycle!Begin,
        Lifecycle!AskToStop, Lifecycle!Publish, Lifecycle!Acknowledge
  <1>23. CASE Scan
    BY <1>23 DEF Scan, ProgressReset, Lifecycle!Next, Lifecycle!Begin, Lifecycle!AskToStop,
        Lifecycle!Publish, Lifecycle!Acknowledge
  <1>24. CASE Refuse
    BY <1>24 DEF Refuse, Lifecycle!Next, Lifecycle!Begin, Lifecycle!AskToStop,
        Lifecycle!Publish, Lifecycle!Acknowledge
  <1>25. CASE Boundary
    BY <1>25 DEF Boundary, AfterPauseRead, Lifecycle!Next, Lifecycle!Begin,
        Lifecycle!AskToStop, Lifecycle!Publish, Lifecycle!Acknowledge
  <1>26. CASE Held
    BY <1>26 DEF Held, AfterHeldRead, Lifecycle!Next, Lifecycle!Begin, Lifecycle!AskToStop,
        Lifecycle!Publish, Lifecycle!Acknowledge
  <1>27. CASE StopCheck
    BY <1>27 DEF StopCheck, AfterStopRead, Lifecycle!Next, Lifecycle!Begin,
        Lifecycle!AskToStop, Lifecycle!Publish, Lifecycle!Acknowledge
  <1>28. CASE Block
    BY <1>28 DEF Block, AfterBlock, Lifecycle!Next, Lifecycle!Begin, Lifecycle!AskToStop,
        Lifecycle!Publish, Lifecycle!Acknowledge
  <1>29. CASE RangesDone
    BY <1>29 DEF RangesDone, StoppedRc, Lifecycle!Next, Lifecycle!Begin,
        Lifecycle!AskToStop, Lifecycle!Publish, Lifecycle!Acknowledge
  <1>30. CASE FlushCheck
    BY <1>30 DEF FlushCheck, Lifecycle!Next, Lifecycle!Begin, Lifecycle!AskToStop,
        Lifecycle!Publish, Lifecycle!Acknowledge
  <1>31. CASE FlushLock
    BY <1>31 DEF FlushLock, Lifecycle!Next, Lifecycle!Begin, Lifecycle!AskToStop,
        Lifecycle!Publish, Lifecycle!Acknowledge
  <1>32. CASE FlushPoll
    BY <1>32 DEF FlushPoll, Lifecycle!Next, Lifecycle!Begin, Lifecycle!AskToStop,
        Lifecycle!Publish, Lifecycle!Acknowledge
  <1>33. CASE SyncJoin
    BY <1>33 DEF SyncJoin, SyncEnded, Lifecycle!Next, Lifecycle!Begin, Lifecycle!AskToStop,
        Lifecycle!Publish, Lifecycle!Acknowledge
  <1>34. CASE Unlock
    BY <1>34 DEF Unlock, InputUnlocked, Lifecycle!Next, Lifecycle!Begin,
        Lifecycle!AskToStop, Lifecycle!Publish, Lifecycle!Acknowledge
  <1>35. CASE Sha1Check
    BY <1>35 DEF Sha1Check, Lifecycle!Next, Lifecycle!Begin, Lifecycle!AskToStop,
        Lifecycle!Publish, Lifecycle!Acknowledge
  <1>36. CASE Sha1File
    BY <1>36 DEF Sha1File, Lifecycle!Next, Lifecycle!Begin, Lifecycle!AskToStop,
        Lifecycle!Publish, Lifecycle!Acknowledge
  <1>37. CASE Restore
    BY <1>37 DEF Restore, Lifecycle!Next, Lifecycle!Begin, Lifecycle!AskToStop,
        Lifecycle!Publish, Lifecycle!Acknowledge
  <1>38. CASE Finish
    BY <1>38 DEF Finish, SetFinished, Lifecycle!Next, Lifecycle!Begin, Lifecycle!AskToStop,
        Lifecycle!Publish, Lifecycle!Acknowledge
  <1>39. CASE WorkerExit
    BY <1>39 DEF WorkerExit, Lifecycle!Next, Lifecycle!Begin, Lifecycle!AskToStop,
        Lifecycle!Publish, Lifecycle!Acknowledge
  <1>40. CASE WorkerLeave
    BY <1>40 DEF WorkerLeave, NotRunning, Lifecycle!Next, Lifecycle!Begin,
        Lifecycle!AskToStop, Lifecycle!Publish, Lifecycle!Acknowledge
  <1>41. CASE SyncThread
    BY <1>41, MappedUnchanged DEF SyncThread, mapped
  <1>42. CASE UNCHANGED vars
    BY <1>42, MappedUnchanged DEF vars, mapped
  <1> QED
    BY <1>1, <1>2, <1>3, <1>4, <1>5, <1>6, <1>7, <1>8, <1>9, <1>10, <1>11, <1>12,
       <1>13, <1>14, <1>15, <1>16, <1>17, <1>18, <1>19, <1>20, <1>21, <1>22, <1>23, <1>24,
       <1>25, <1>26, <1>27, <1>28, <1>29, <1>30, <1>31, <1>32, <1>33, <1>34, <1>35, <1>36,
       <1>37, <1>38, <1>39, <1>40, <1>41, <1>42
    DEF Next, User, Handler, Worker

(***************************************************************************)
(* Whatever the interleaving of front end, worker and sync thread, a run   *)
(* begins, is asked to stop at most once and publishes one outcome, which  *)
(* stands until the next run (the safety part of LifecycleSpec).           *)
(***************************************************************************)
THEOREM ImplementsLifecycle ==
    Spec => Lifecycle!Init /\ [][Lifecycle!Next]_<<phase, outcome>>
  BY SpecIInv, LifecycleInit, LifecycleStep, PTL DEF Spec

=============================================================================
