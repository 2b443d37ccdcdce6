---------------------------- MODULE Player_proofs ----------------------------
(***************************************************************************)
(* Safety of Player for any number of commands, positions and reports.     *)
(***************************************************************************)
EXTENDS Player, TLAPS

-----------------------------------------------------------------------------
(* Types                                                                   *)

Steps == {"idle", "check", "suspend", "clear", "cancel", "join", "body", "stop",
          "gCond", "teardown", "lock", "tune", "read", "pause", "resume"}

ControlTypes ==
    /\ mTaskQueue \in Seq(Command) /\ running \in Command \cup {NoCommand}
    /\ suspended \in BOOLEAN /\ mAsyncTuneEnabled \in BOOLEAN
    /\ pc \in [Executors -> Steps]
    /\ cmd \in [Executors -> Command \cup {NoCommand}]

StreamTypes ==
    /\ mState \in States /\ seen \in [Executors -> States]
    /\ pipeline_paused \in BOOLEAN /\ mpStreamAbstractionAAMP \in BOOLEAN
    /\ firstFrame \in BOOLEAN
    /\ mSeekOperationInProgress \in BOOLEAN
    /\ mStreamLock \in Executors \cup {None}

RetuneTypes ==
    /\ reTune \in BOOLEAN /\ mIsRetuneInProgress \in BOOLEAN
    /\ rpc \in {"idle", "check", "schedule"} /\ errorType \in {"buffering", "underflow", "other"}
    /\ refusedRetune \in BOOLEAN
    /\ reports \in 0 .. MaxReports

PauseTypes ==
    /\ mPausePositionMilliseconds \in 0 .. MaxRequests
    /\ mPausePositionMonitoringThreadStarted \in BOOLEAN
    /\ mPausePositionMonitoringThreadStarted <=> mpc # None
    /\ mpc \in {None, "start", "poll", "wait", "schedule", "done"}
    /\ localPauseAt \in 0 .. MaxRequests /\ pausePosition \in 0 .. MaxRequests
    /\ wanted \in 0 .. MaxRequests /\ refusedPause \in BOOLEAN

CountTypes ==
    commands \in 0 .. MaxCommands /\ requests \in 0 .. MaxRequests /\ preparedSeeks \in Nat

LEMMA TypeParts ==
    TypeOK <=> ControlTypes /\ StreamTypes /\ RetuneTypes /\ PauseTypes /\ CountTypes
BY DEF TypeOK, ControlTypes, StreamTypes, RetuneTypes, PauseTypes, CountTypes, Steps

LEMMA TypeInit == Init => TypeOK
<1> SUFFICES ASSUME Init PROVE TypeOK
  OBVIOUS
<1>0. 0 \in 0 .. MaxReports /\ 0 \in 0 .. MaxCommands /\ 0 \in 0 .. MaxRequests
  BY PlayerAssumption DEF PlayerAssumption
<1>1. ControlTypes
  <2>1. mTaskQueue \in Seq(Command)
    BY DEF Init
  <2>2. /\ running \in Command \cup {NoCommand}
        /\ suspended \in BOOLEAN /\ mAsyncTuneEnabled \in BOOLEAN
    BY DEF Init
  <2>3. pc \in [Executors -> Steps]
    BY DEF Init, Steps
  <2>4. cmd \in [Executors -> Command \cup {NoCommand}]
    BY DEF Init
  <2> QED  BY <2>1, <2>2, <2>3, <2>4 DEF ControlTypes
<1>2. StreamTypes
  BY DEF Init, StreamTypes, States
<1>3. RetuneTypes /\ CountTypes
  <2>1. /\ reTune = FALSE /\ mIsRetuneInProgress = FALSE /\ rpc = "idle" /\ errorType = "other"
        /\ refusedRetune = FALSE /\ reports = 0 /\ commands = 0 /\ requests = 0
        /\ preparedSeeks = 0
    BY DEF Init
  <2> QED  BY <1>0, <2>1 DEF RetuneTypes, CountTypes
<1>4. PauseTypes
  <2>1. /\ mPausePositionMilliseconds = 0 /\ mPausePositionMonitoringThreadStarted = FALSE
        /\ mpc = None /\ localPauseAt = 0 /\ pausePosition = 0
        /\ wanted = 0 /\ refusedPause = FALSE
    BY DEF Init
  <2> QED  BY <1>0, <2>1 DEF PauseTypes, None
<1> QED  BY <1>1, <1>2, <1>3, <1>4, TypeParts

-----------------------------------------------------------------------------
(* Where an executor may be with a command, and what follows of the lock-out *)

\* The steps of a command.
Places(name) ==
    CASE name = "Retune"        -> {"body", "lock", "tune"}
      [] name = "PausePosition" -> {"read", "pause"}
      [] name = "SeekAfterPrepared" -> {"lock", "tune"}
      [] name = "Stop" -> {"suspend", "clear", "cancel", "join", "body", "stop", "gCond",
                           "teardown", "resume"}
      [] name = "Tune" -> {"check", "cancel", "join", "body", "stop", "gCond", "teardown",
                           "lock", "tune"}
      [] name = "Seek" -> {"check", "cancel", "join", "body", "lock", "tune"}
      [] OTHER         -> {"check", "cancel", "join", "body"}

\* Stop and the main loop's seek are never tasks; without AsyncTune no command is.
IsTask(c) ==
    /\ c \in Command /\ c.name \notin {"Stop", "SeekAfterPrepared"}
    /\ mAsyncTuneEnabled \/ c.name \in {"Retune", "PausePosition"}

AtWork ==
    /\ \A e \in Executors : pc[e] # "idle" => cmd[e] \in Command /\ pc[e] \in Places(cmd[e].name)
    /\ pc[Loop] # "idle" => cmd[Loop].name = "SeekAfterPrepared"
    /\ pc[App] # "idle" => /\ cmd[App].name \in Calls
                           /\ mAsyncTuneEnabled => cmd[App].name = "Stop"
    /\ pc[Worker] # "idle" => cmd[Worker] = running
    /\ (pc[Worker] = "idle") <=> (running = NoCommand)

LockOut ==
    /\ suspended => running = NoCommand
    /\ pc[App] \notin {"idle", "suspend"} /\ cmd[App].name = "Stop" => suspended

Queued ==
    /\ \A i \in DOMAIN mTaskQueue : IsTask(mTaskQueue[i])
    /\ running # NoCommand => IsTask(running)

Control == AtWork /\ LockOut /\ Queued

LEMMA ControlInit == Init => Control
BY PlayerAssumption DEF Init, Control, AtWork, LockOut, Queued, NoCommand, Executors, None, Command, Names

\* What a step of an executor inside a command does to the control state.
LEMMA Moves ==
    ASSUME ControlTypes, Control, NEW e \in Executors, NEW p \in Steps,
           pc[e] \notin {"idle", "suspend"}, p \in Places(cmd[e].name), p # "idle",
           pc' = [pc EXCEPT ![e] = p],
           UNCHANGED <<mTaskQueue, running, suspended, mAsyncTuneEnabled, cmd>>
    PROVE  ControlTypes' /\ Control'
<1>1. ControlTypes'
  BY DEF ControlTypes
<1>2. AtWork'
  BY DEF ControlTypes, Control, AtWork, Executors
<1>3. LockOut'
  BY DEF ControlTypes, Control, LockOut, AtWork, Executors
<1>4. Queued'
  BY DEF Control, Queued, IsTask
<1> QED  BY <1>1, <1>2, <1>3, <1>4 DEF Control

\* The end of a command.
LEMMA Returns ==
    ASSUME ControlTypes, Control, NEW e \in Executors,
           pc[e] \notin {"idle", "suspend"}, Return(e),
           UNCHANGED <<mAsyncTuneEnabled, cmd>>
    PROVE  ControlTypes' /\ Control'
<1> USE PlayerAssumption DEF PlayerAssumption
<1> USE DEF Return, Goto, Scheduler!Finish, scheduler
<1>0. cmd[e].name = "Stop" => e = App
  BY PlayerAssumption DEF ControlTypes, Control, AtWork, Queued, IsTask, Executors
<1>1. ControlTypes'
  BY DEF ControlTypes, Steps
<1>2. AtWork'
  BY <1>0, PlayerAssumption DEF ControlTypes, Control, AtWork, Executors, Places, Steps
<1>3. LockOut'
  BY <1>0, PlayerAssumption DEF ControlTypes, Control, LockOut, AtWork, Executors
<1>4. Queued'
  BY DEF Control, Queued, IsTask
<1> QED  BY <1>1, <1>2, <1>3, <1>4 DEF Control

\* Steps of other threads may add a task.
LEMMA Schedules ==
    ASSUME ControlTypes, Control, NEW task, IsTask(task), ScheduleTask(task),
           UNCHANGED <<running, suspended, mAsyncTuneEnabled, cmd, pc>>
    PROVE  ControlTypes' /\ Control'
<1>1. ControlTypes'
  BY DEF ControlTypes, ScheduleTask, IsTask
<1>2. Queued'
  <2>1. CASE suspended
    BY <2>1 DEF ScheduleTask, Control, Queued, IsTask
  <2>2. CASE ~suspended
    <3>1. mTaskQueue' = Append(mTaskQueue, task)
      BY <2>2 DEF ScheduleTask
    <3>2. \A i \in DOMAIN mTaskQueue' : mTaskQueue'[i] = task \/ (i \in DOMAIN mTaskQueue /\ mTaskQueue'[i] = mTaskQueue[i])
      BY <3>1 DEF ControlTypes
    <3> QED  BY <3>1, <3>2 DEF Control, Queued, IsTask
  <2> QED  BY <2>1, <2>2
<1> QED  BY <1>1, <1>2 DEF Control, AtWork, LockOut

LEMMA Stays ==
    ASSUME ControlTypes, Control,
           UNCHANGED <<mTaskQueue, running, suspended, mAsyncTuneEnabled, cmd, pc>>
    PROVE  ControlTypes' /\ Control'
BY DEF ControlTypes, Control, AtWork, LockOut, Queued, IsTask

\* A command of the application is a task or a call, as AsyncTune has it.
LEMMA CallStep ==
    ASSUME ControlTypes, CountTypes, Control, NEW name \in Calls,
           Call(name)
    PROVE  ControlTypes' /\ Control'
<1> DEFINE c == [name |-> name, position |-> IF name = "PauseAt" THEN requests + 1 ELSE 0]
<1>1. c \in Command
  BY PlayerAssumption DEF PlayerAssumption, CountTypes, Call, Command, Names
<1>2. c.name = name
  OBVIOUS
<1> HIDE DEF c
<1>3. CASE mAsyncTuneEnabled /\ name # "Stop"
  <2>1. ScheduleTask(c) /\ UNCHANGED <<running, suspended, executors, mAsyncTuneEnabled>>
    BY <1>3 DEF Call, c
  <2>2. IsTask(c)
    BY <1>1, <1>2, <1>3 DEF IsTask, Calls
  <2> QED  BY <2>1, <2>2, Schedules DEF executors
<1>4. CASE ~(mAsyncTuneEnabled /\ name # "Stop")
  <2>1. /\ pc[App] = "idle"
        /\ cmd' = [cmd EXCEPT ![App] = c]
        /\ pc' = [pc EXCEPT ![App] = IF name = "Stop" THEN "suspend" ELSE "check"]
        /\ UNCHANGED <<mTaskQueue, running, suspended, mAsyncTuneEnabled>>
    BY <1>4 DEF Call, c, scheduler, Goto
  <2>2. ControlTypes'
    BY <1>1, <2>1 DEF ControlTypes, Executors, Steps
  <2>3. AtWork'
    <3>1. (IF name = "Stop" THEN "suspend" ELSE "check") \in Places(name)
      BY DEF Places, Calls
    <3> QED  BY <1>1, <1>2, <1>4, <2>1, <3>1, PlayerAssumption
             DEF PlayerAssumption, ControlTypes, Control, AtWork, Executors
  <2>4. LockOut'
    BY <1>2, <2>1, PlayerAssumption
       DEF PlayerAssumption, ControlTypes, Control, LockOut, Executors
  <2>5. Queued'
    BY <2>1 DEF Control, Queued, IsTask
  <2> QED  BY <2>2, <2>3, <2>4, <2>5 DEF Control
<1> QED  BY <1>3, <1>4

\* The application's lock-out.
LEMMA LockOutStep ==
    ASSUME ControlTypes, Control, SuspendScheduler \/ RemoveAllTasks \/ ResumeScheduler
    PROVE  ControlTypes' /\ Control'
<1> USE PlayerAssumption DEF PlayerAssumption, Goto
<1>0. pc[App] \in Places(cmd[App].name) /\ cmd[App] \in Command
  BY DEF SuspendScheduler, RemoveAllTasks, ResumeScheduler, Control, AtWork, Executors
<1>1. cmd[App].name = "Stop"
  BY <1>0 DEF SuspendScheduler, RemoveAllTasks, ResumeScheduler, Places
<1>2. CASE SuspendScheduler
  <2>1. /\ running = NoCommand /\ suspended' = TRUE
        /\ UNCHANGED <<mTaskQueue, running, mAsyncTuneEnabled, cmd>>
        /\ pc' = [pc EXCEPT ![App] = "clear"] /\ pc[App] = "suspend"
    BY <1>2 DEF SuspendScheduler, Scheduler!Suspend
  <2>2. ControlTypes' /\ LockOut' /\ Queued'
    BY <2>1 DEF ControlTypes, Steps, Control, LockOut, Queued, IsTask, Executors
  <2>3. AtWork'
    BY <1>1, <2>1 DEF ControlTypes, Control, AtWork, Places, Executors
  <2> QED  BY <2>2, <2>3 DEF Control
<1>3. CASE RemoveAllTasks
  <2>1. /\ mTaskQueue' = <<>> /\ pc[App] = "clear"
        /\ UNCHANGED <<suspended, running, mAsyncTuneEnabled, cmd>>
        /\ \/ pc' = [pc EXCEPT ![App] = "cancel"]
           \/ pc' = [pc EXCEPT ![App] = "resume"]
    BY <1>3 DEF RemoveAllTasks, Scheduler!Clear
  <2>2. mTaskQueue' \in Seq(Command) /\ DOMAIN mTaskQueue' = {}
    BY <2>1
  <2>3. ControlTypes' /\ LockOut' /\ Queued'
    BY <2>1, <2>2 DEF ControlTypes, Steps, Control, LockOut, Queued, IsTask, Executors
  <2>4. AtWork'
    BY <1>1, <2>1 DEF ControlTypes, Control, AtWork, Places, Executors
  <2> QED  BY <2>3, <2>4 DEF Control
<1>4. CASE ResumeScheduler
  <2>1. /\ suspended' = FALSE /\ pc[App] = "resume" /\ pc' = [pc EXCEPT ![App] = "idle"]
        /\ UNCHANGED <<mTaskQueue, running, mAsyncTuneEnabled, cmd>>
    BY <1>4 DEF ResumeScheduler, Scheduler!Resume
  <2>2. ControlTypes' /\ LockOut' /\ Queued'
    BY <2>1 DEF ControlTypes, Steps, Control, LockOut, Queued, IsTask, Executors
  <2>3. AtWork'
    BY <1>1, <2>1 DEF ControlTypes, Control, AtWork, Places, Executors
  <2> QED  BY <2>2, <2>3 DEF Control
<1> QED  BY <1>2, <1>3, <1>4

\* The worker takes a task, not during the lock-out.
LEMMA StartStep ==
    ASSUME ControlTypes, Control, StartTask
    PROVE  ControlTypes' /\ Control'
<1> USE PlayerAssumption DEF PlayerAssumption
<1>1. /\ running = NoCommand /\ ~suspended /\ mTaskQueue # <<>>
      /\ running' = Head(mTaskQueue) /\ mTaskQueue' = Tail(mTaskQueue)
      /\ pc[Worker] = "idle"
      /\ cmd' = [cmd EXCEPT ![Worker] = running']
      /\ UNCHANGED <<suspended, mAsyncTuneEnabled>>
  BY DEF StartTask, Scheduler!Start
<1>2. /\ running' = mTaskQueue[1] /\ IsTask(running')
      /\ mTaskQueue' \in Seq(Command)
      /\ \A i \in DOMAIN mTaskQueue' : i + 1 \in DOMAIN mTaskQueue /\ mTaskQueue'[i] = mTaskQueue[i + 1]
  BY <1>1 DEF ControlTypes, Control, Queued
<1>3. running' \in Command /\ running' # NoCommand
  BY <1>2 DEF IsTask, Command, NoCommand, None, Names, Calls
<1>4. PICK p \in Steps \ {"idle"} : p \in Places(running'.name) /\ pc' = [pc EXCEPT ![Worker] = p]
  <2>1. CASE running'.name = "PausePosition"
    BY <2>1 DEF StartTask, Goto, Places, Steps
  <2>2. CASE running'.name = "Retune"
    BY <2>2 DEF StartTask, Goto, Places, Steps
  <2>3. CASE running'.name \notin {"PausePosition", "Retune"}
    <3>1. pc' = [pc EXCEPT ![Worker] = "check"]
      BY <2>3 DEF StartTask, Goto
    <3>2. "check" \in Places(running'.name)
      BY <1>2, <2>3 DEF IsTask, Places, Command, Names
    <3> QED  BY <3>1, <3>2 DEF Steps
  <2> QED  BY <2>1, <2>2, <2>3
<1>5. ControlTypes'
  BY <1>1, <1>2, <1>3, <1>4 DEF ControlTypes, Executors
<1>6. AtWork'
  BY <1>1, <1>3, <1>4 DEF ControlTypes, Control, AtWork, Executors
<1>7. LockOut'
  BY <1>1, <1>4 DEF ControlTypes, Control, LockOut, Executors
<1>8. Queued'
  BY <1>1, <1>2 DEF Control, Queued, IsTask
<1> QED  BY <1>5, <1>6, <1>7, <1>8 DEF Control

\* The steps inside a command; each is a move, or ends the command.
Commands(e) ==
    \/ Check(e) \/ Cancel(e) \/ Join(e) \/ PauseAtInternal(e) \/ SetRateInternal(e)
    \/ SeekInternal(e) \/ StopInternal(e) \/ TuneInternal(e) \/ StopRetune(e)
    \/ WokenByOtherPlayer(e) \/ Teardown(e) \/ TuneHelper(e)
    \/ TuneDone(e) /\ cmd[e].name # "Retune"
    \/ e = Worker /\ (Retune \/ ReadPausePosition \/ PausePosition)

LEMMA CommandShape ==
    ASSUME ControlTypes, Control, NEW e \in Executors, Commands(e)
    PROVE  /\ pc[e] \notin {"idle", "suspend"}
           /\ UNCHANGED <<mAsyncTuneEnabled, cmd>>
           /\ \/ Return(e)
              \/ /\ UNCHANGED scheduler
                 /\ \E p \in Steps \ {"idle"} :
                       p \in Places(cmd[e].name) /\ pc' = [pc EXCEPT ![e] = p]
<1> USE DEF Goto
<1>0. pc[e] # "idle" => cmd[e].name \in Names /\ pc[e] \in Places(cmd[e].name)
  BY DEF Control, AtWork, Command
<1>1. CASE Check(e)
  BY <1>0, <1>1 DEF Check, Places, Names, Steps
<1>2. CASE Cancel(e)
  BY <1>0, <1>2 DEF Cancel, Places, Names, Steps
<1>3. CASE Join(e)
  BY <1>0, <1>3 DEF Join, Places, Names, Steps
<1>4. CASE PauseAtInternal(e) \/ SetRateInternal(e)
  BY <1>0, <1>4 DEF PauseAtInternal, SetRateInternal
<1>5. CASE SeekInternal(e)
  BY <1>0, <1>5 DEF SeekInternal, Places, Names, Steps
<1>6. CASE StopInternal(e) \/ TuneInternal(e)
  BY <1>0, <1>6 DEF StopInternal, TuneInternal, Places, Names, Steps
<1>7. CASE StopRetune(e) \/ WokenByOtherPlayer(e)
  BY <1>0, <1>7 DEF StopRetune, WokenByOtherPlayer, Places, Names, Steps
<1>8. CASE Teardown(e)
  BY <1>0, <1>8 DEF Teardown, Places, Names, Steps
<1>9. CASE TuneHelper(e)
  BY <1>0, <1>9 DEF TuneHelper, Places, Names, Steps
<1>10. CASE TuneDone(e) /\ cmd[e].name # "Retune"
  BY <1>0, <1>10 DEF TuneDone
<1>11. CASE e = Worker /\ (Retune \/ ReadPausePosition \/ PausePosition)
  BY <1>0, <1>11 DEF Retune, ReadPausePosition, PausePosition, Places, Names, Steps
<1> QED
  BY <1>1, <1>2, <1>3, <1>4, <1>5, <1>6, <1>7, <1>8, <1>9, <1>10, <1>11 DEF Commands

LEMMA CommandStep ==
    ASSUME ControlTypes, Control, NEW e \in Executors, Commands(e)
    PROVE  ControlTypes' /\ Control'
<1>1. CASE Return(e)
  BY <1>1, CommandShape, Returns
<1>2. CASE ~Return(e)
  <2>1. PICK p \in Steps \ {"idle"} : p \in Places(cmd[e].name) /\ pc' = [pc EXCEPT ![e] = p]
    BY <1>2, CommandShape
  <2> QED  BY <1>2, <2>1, CommandShape, Moves DEF scheduler
<1> QED  BY <1>1, <1>2

\* The end of the retune task also moves a Stop that waits for it.
LEMMA RetuneDoneStep ==
    ASSUME ControlTypes, Control, NEW e \in Executors, TuneDone(e), cmd[e].name = "Retune"
    PROVE  e = Worker /\ ControlTypes' /\ Control'
<1> USE PlayerAssumption DEF PlayerAssumption
<1>1. pc[e] = "tune" /\ RetuneDone /\ UNCHANGED <<mAsyncTuneEnabled, cmd>>
  BY DEF TuneDone
<1>2. e = Worker
  BY <1>1 DEF Control, AtWork, Executors, Calls
<1>3. /\ running' = NoCommand /\ UNCHANGED <<mTaskQueue, suspended>>
      /\ pc' = [pc EXCEPT ![Worker] = "idle",
                          ![App] = IF pc[App] = "gCond" THEN "teardown" ELSE pc[App]]
  BY <1>1 DEF RetuneDone, Scheduler!Finish
<1>4. ControlTypes'
  BY <1>1, <1>3 DEF ControlTypes, Executors, Steps
<1>5. pc'[Worker] = "idle" /\ pc'[App] = IF pc[App] = "gCond" THEN "teardown" ELSE pc[App]
  BY <1>3 DEF ControlTypes, Executors
<1>6. pc[App] = "gCond" => "teardown" \in Places(cmd[App].name)
  BY DEF Control, AtWork, Places, Executors, Command, Names
<1>7. AtWork'
  BY <1>1, <1>3, <1>5, <1>6 DEF ControlTypes, Control, AtWork, Executors
<1>8. LockOut' /\ Queued'
  BY <1>1, <1>3, <1>5 DEF Control, LockOut, Queued, IsTask
<1> QED  BY <1>2, <1>4, <1>7, <1>8 DEF Control

\* The main loop takes a seek that was left to it, or finds nothing to do.
LEMMA LoopStep ==
    ASSUME ControlTypes, Control, SeekAfterPrepared
    PROVE  ControlTypes' /\ Control'
<1> USE PlayerAssumption DEF PlayerAssumption
<1>1. pc[Loop] = "idle" /\ UNCHANGED <<mTaskQueue, running, suspended, mAsyncTuneEnabled>>
  BY DEF SeekAfterPrepared, scheduler
<1>2. CASE UNCHANGED <<pc, cmd>>
  BY <1>1, <1>2, Stays
<1>3. CASE ~UNCHANGED <<pc, cmd>>
  <2> DEFINE c == Plain("SeekAfterPrepared")
  <2>1. pc' = [pc EXCEPT ![Loop] = "lock"] /\ cmd' = [cmd EXCEPT ![Loop] = c]
    BY <1>3 DEF SeekAfterPrepared, Goto
  <2>2. c \in Command /\ c.name = "SeekAfterPrepared" /\ "lock" \in Places(c.name)
    BY DEF Plain, Command, Names, Calls, Places
  <2> HIDE DEF c
  <2>3. ControlTypes'
    BY <1>1, <2>1, <2>2 DEF ControlTypes, Executors, Steps
  <2>4. AtWork'
    BY <1>1, <2>1, <2>2 DEF ControlTypes, Control, AtWork, Executors
  <2>5. LockOut' /\ Queued'
    BY <1>1, <2>1, <2>2 DEF ControlTypes, Control, LockOut, Queued, IsTask, Executors
  <2> QED  BY <2>3, <2>4, <2>5 DEF Control
<1> QED  BY <1>2, <1>3

\* Steps of threads that execute no command.
Others ==
    \/ SeekWhilePreparing \/ FirstFrame \/ MonitorRead \/ MonitorPoll \/ ReportCheck
    \/ \E error \in {"buffering", "underflow", "other"} : Report(error)

\* Every step of the player, by what it does to the control state.
LEMMA NextCases ==
    ASSUME [Next]_vars
    PROVE  \/ \E name \in Calls : Call(name)
           \/ SuspendScheduler \/ RemoveAllTasks \/ ResumeScheduler
           \/ StartTask \/ SeekAfterPrepared
           \/ \E e \in Executors : Commands(e)
           \/ \E e \in Executors : TuneDone(e) /\ cmd[e].name = "Retune"
           \/ MonitorSchedule \/ ReportSchedule
           \/ Others
           \/ UNCHANGED vars
BY DEF Next, AppNext, WorkerNext, LoopNext, MonitorNext, ReportNext, Execute, Commands, Others,
   Executors

LEMMA ControlStep ==
    ASSUME ControlTypes, CountTypes, PauseTypes, Control, [Next]_vars
    PROVE  ControlTypes' /\ Control'
<1>1. CASE \E name \in Calls : Call(name)
  BY <1>1, CallStep
<1>2. CASE SuspendScheduler \/ RemoveAllTasks \/ ResumeScheduler
  BY <1>2, LockOutStep
<1>3. CASE StartTask
  BY <1>3, StartStep
<1>4. CASE \E e \in Executors : Commands(e)
  BY <1>4, CommandStep
<1>5. CASE \E e \in Executors : TuneDone(e) /\ cmd[e].name = "Retune"
  BY <1>5, RetuneDoneStep
<1>6. CASE MonitorSchedule
  <2>1. IsTask([name |-> "PausePosition", position |-> localPauseAt])
    BY DEF IsTask, Command, Names, PauseTypes
  <2> QED  BY <1>6, <2>1, Schedules DEF MonitorSchedule, executors
<1>7. CASE ReportSchedule
  <2>1. IsTask(Plain("Retune"))
    BY PlayerAssumption DEF PlayerAssumption, IsTask, Plain, Command, Names
  <2> QED  BY <1>7, <2>1, Schedules, Stays DEF ReportSchedule, executors
<1>8. CASE Others \/ UNCHANGED vars
  BY <1>8, Stays DEF Others, SeekWhilePreparing, FirstFrame, MonitorRead, MonitorPoll,
     ReportCheck, Report, vars, scheduler, executors
<1>9. CASE SeekAfterPrepared
  BY <1>9, LoopStep
<1> QED  BY <1>1, <1>2, <1>3, <1>4, <1>5, <1>6, <1>7, <1>8, <1>9, NextCases

-----------------------------------------------------------------------------
(* Type correctness                                                        *)

LEMMA CountStep ==
    ASSUME CountTypes, [Next]_vars
    PROVE  CountTypes'
<1> DEFINE counts == <<commands, requests, preparedSeeks>>
<1>1. CASE \E name \in Calls : Call(name)
  <2>1. PICK name \in Calls : Call(name)
    BY <1>1
  <2>2. UNCHANGED preparedSeeks
    BY <2>1 DEF Call, executors, sought
  <2>3. commands' = commands + 1 /\ commands < MaxCommands
    BY <2>1 DEF Call
  <2>4. UNCHANGED requests \/ (requests < MaxRequests /\ requests' = requests + 1)
    BY <2>1 DEF Call
  <2> QED  BY <2>2, <2>3, <2>4, PlayerAssumption DEF PlayerAssumption, CountTypes
<1>2. CASE UNCHANGED counts
  BY <1>2 DEF CountTypes
<1>3. CASE SeekWhilePreparing
  BY <1>3, PlayerAssumption DEF PlayerAssumption, CountTypes, SeekWhilePreparing
<1>4. CASE SeekAfterPrepared
  BY <1>4 DEF CountTypes, SeekAfterPrepared, bounds
<1>5. ASSUME NEW e \in Executors, SeekInternal(e) PROVE CountTypes'
  <2>1. UNCHANGED <<commands, requests>> /\ preparedSeeks' \in {preparedSeeks, preparedSeeks + 1}
    BY <1>5 DEF SeekInternal, bounds
  <2> QED  BY <2>1 DEF CountTypes
<1>6. CASE AppNext \/ WorkerNext \/ LoopNext \/ \E e \in Executors : WokenByOtherPlayer(e)
  <2>1. CASE \/ SuspendScheduler \/ RemoveAllTasks \/ ResumeScheduler \/ StartTask
             \/ Retune \/ ReadPausePosition \/ PausePosition
    <3>1. UNCHANGED counts
      BY <2>1 DEF bounds, sought, SuspendScheduler, RemoveAllTasks, ResumeScheduler, StartTask,
         Retune, ReadPausePosition, PausePosition
    <3> QED  BY <1>2, <3>1
  <2>2. ASSUME NEW e \in Executors, Execute(e) \/ WokenByOtherPlayer(e), ~SeekInternal(e)
        PROVE  UNCHANGED counts
    BY <2>2 DEF Execute, bounds, sought, Check, Cancel, Join, PauseAtInternal, SetRateInternal,
       StopInternal, TuneInternal, StopRetune, WokenByOtherPlayer, Teardown, TuneHelper, TuneDone
  <2> QED
    BY <1>2, <1>4, <1>5, <1>6, <2>1, <2>2 DEF AppNext, WorkerNext, LoopNext, Executors
<1>7. CASE \/ MonitorNext \/ ReportNext \/ FirstFrame \/ UNCHANGED vars
           \/ \E error \in {"buffering", "underflow", "other"} : Report(error)
  <2>1. UNCHANGED counts
    BY <1>7 DEF MonitorNext, ReportNext, vars, bounds, executors, sought, FirstFrame,
       MonitorRead, MonitorPoll, MonitorSchedule, Report, ReportCheck, ReportSchedule
  <2> QED  BY <1>2, <2>1
<1> QED  BY <1>1, <1>3, <1>6, <1>7 DEF Next

LEMMA StreamStep ==
    ASSUME StreamTypes, [Next]_vars
    PROVE  StreamTypes'
<1> USE DEF StreamTypes, States, stream, sought, Executors
<1>1. CASE \E name \in Calls : Call(name)
  BY <1>1 DEF Call, executors
<1>2. CASE AppNext \/ WorkerNext \/ LoopNext \/ \E e \in Executors : WokenByOtherPlayer(e)
  <2>1. CASE SuspendScheduler \/ RemoveAllTasks \/ ResumeScheduler \/ StartTask
    BY <2>1 DEF SuspendScheduler, RemoveAllTasks, ResumeScheduler, StartTask
  <2>4. CASE SeekAfterPrepared
    <3>1. /\ UNCHANGED <<seen, mpStreamAbstractionAAMP, firstFrame, mSeekOperationInProgress,
                        mStreamLock>>
          /\ pipeline_paused' \in {pipeline_paused, FALSE}
          /\ mState' \in {mState, "SEEKING"}
      BY <2>4 DEF SeekAfterPrepared
    <3> QED  BY <3>1
  <2>2. CASE Retune \/ ReadPausePosition \/ PausePosition
    BY <2>2 DEF Retune, ReadPausePosition, PausePosition
  <2>3. ASSUME NEW e \in Executors, Execute(e) \/ WokenByOtherPlayer(e)
        PROVE  StreamTypes'
    <3>1. CASE \/ Check(e) \/ Cancel(e) \/ Join(e) \/ PauseAtInternal(e) \/ TuneInternal(e)
               \/ StopRetune(e) \/ WokenByOtherPlayer(e)
      BY <3>1 DEF Check, Cancel, Join, PauseAtInternal, TuneInternal, StopRetune,
         WokenByOtherPlayer
    <3>2. CASE SetRateInternal(e) \/ StopInternal(e)
      BY <3>2 DEF SetRateInternal, StopInternal
    <3>6. CASE SeekInternal(e)
      <4>1. seen' = [seen EXCEPT ![e] = "IDLE"] /\ mState' \in {mState, "SEEKING"}
        BY <3>6 DEF SeekInternal
      <4>2. /\ pipeline_paused' \in {pipeline_paused, FALSE}
            /\ UNCHANGED <<mpStreamAbstractionAAMP, firstFrame, mSeekOperationInProgress,
                           mStreamLock>>
        BY <3>6 DEF SeekInternal
      <4> QED  BY <4>1, <4>2
    <3>3. CASE Teardown(e)
      BY <3>3 DEF Teardown
    <3>4. CASE TuneHelper(e)
      BY <3>4 DEF TuneHelper
    <3>5. CASE TuneDone(e)
      BY <3>5 DEF TuneDone
    <3> QED  BY <2>3, <3>1, <3>2, <3>3, <3>4, <3>5, <3>6 DEF Execute
  <2> QED  BY <1>2, <2>1, <2>2, <2>3, <2>4 DEF AppNext, WorkerNext, LoopNext, Executors
<1>3. CASE MonitorNext \/ ReportNext
  BY <1>3 DEF MonitorNext, ReportNext, MonitorRead, MonitorPoll, MonitorSchedule, ReportCheck,
     ReportSchedule, executors
<1>4. CASE FirstFrame \/ SeekWhilePreparing
  BY <1>4 DEF FirstFrame, SeekWhilePreparing, executors
<1>5. CASE \/ \E error \in {"buffering", "underflow", "other"} : Report(error)
           \/ UNCHANGED vars
  BY <1>5 DEF Report, vars, executors
<1> QED  BY <1>1, <1>2, <1>3, <1>4, <1>5 DEF Next

LEMMA RetuneStep ==
    ASSUME RetuneTypes, [Next]_vars
    PROVE  RetuneTypes'
<1> USE DEF RetuneTypes, retune, reporter, bounds
<1>1. CASE \E name \in Calls : Call(name)
  BY <1>1 DEF Call
<1>2. CASE AppNext \/ WorkerNext \/ LoopNext \/ \E e \in Executors : WokenByOtherPlayer(e)
  <2>1. CASE SuspendScheduler \/ ResumeScheduler \/ StartTask
    BY <2>1 DEF SuspendScheduler, ResumeScheduler, StartTask
  <2>2. CASE RemoveAllTasks
    <3>1. refusedRetune' \in BOOLEAN
      BY <2>2 DEF RemoveAllTasks
    <3> QED  BY <2>2, <3>1 DEF RemoveAllTasks
  <2>5. CASE SeekAfterPrepared
    BY <2>5 DEF SeekAfterPrepared
  <2>3. CASE Retune \/ ReadPausePosition \/ PausePosition
    BY <2>3 DEF Retune, ReadPausePosition, PausePosition
  <2>4. ASSUME NEW e \in Executors, Execute(e) \/ WokenByOtherPlayer(e)
        PROVE  RetuneTypes'
    <3>1. CASE \/ Check(e) \/ Cancel(e) \/ Join(e) \/ PauseAtInternal(e) \/ TuneInternal(e)
               \/ SetRateInternal(e) \/ SeekInternal(e) \/ StopInternal(e)
      BY <3>1 DEF Check, Cancel, Join, PauseAtInternal, TuneInternal, SetRateInternal,
         SeekInternal, StopInternal
    <3>2. CASE StopRetune(e) \/ WokenByOtherPlayer(e) \/ Teardown(e) \/ TuneHelper(e)
      BY <3>2 DEF StopRetune, WokenByOtherPlayer, Teardown, TuneHelper
    <3>3. CASE TuneDone(e)
      BY <3>3 DEF TuneDone, RetuneDone
    <3> QED  BY <2>4, <3>1, <3>2, <3>3 DEF Execute
  <2> QED  BY <1>2, <2>1, <2>2, <2>3, <2>4, <2>5 DEF AppNext, WorkerNext, LoopNext, Executors
<1>3. CASE MonitorNext
  BY <1>3 DEF MonitorNext, MonitorRead, MonitorPoll, MonitorSchedule
<1>4. CASE ReportNext
  <2>1. CASE ReportCheck
    BY <2>1 DEF ReportCheck
  <2>2. CASE ReportSchedule
    <3>1. refusedRetune' \in BOOLEAN
      BY <2>2 DEF ReportSchedule
    <3> QED  BY <2>2, <3>1 DEF ReportSchedule
  <2> QED  BY <1>4, <2>1, <2>2 DEF ReportNext
<1>5. CASE \E error \in {"buffering", "underflow", "other"} : Report(error)
  <2>1. PICK error \in {"buffering", "underflow", "other"} : Report(error)
    BY <1>5
  <2>2. reports' \in 0 .. MaxReports
    BY <2>1, PlayerAssumption DEF PlayerAssumption, Report
  <2>3. rpc' = "check" /\ errorType' = error /\ UNCHANGED retune
    BY <2>1 DEF Report
  <2> QED  BY <2>2, <2>3
<1>6. CASE SeekWhilePreparing \/ FirstFrame \/ UNCHANGED vars
  BY <1>6 DEF SeekWhilePreparing, FirstFrame, vars
<1> QED  BY <1>1, <1>2, <1>3, <1>4, <1>5, <1>6 DEF Next

LEMMA PauseStep ==
    ASSUME ControlTypes, PauseTypes, [Next]_vars
    PROVE  PauseTypes'
<1> USE DEF PauseTypes, pause, monitor
<1>0. 0 \in 0 .. MaxRequests
  BY PlayerAssumption DEF PlayerAssumption
<1>1. CASE \E name \in Calls : Call(name)
  BY <1>1 DEF Call
<1>2. CASE AppNext \/ WorkerNext \/ LoopNext \/ \E e \in Executors : WokenByOtherPlayer(e)
  <2>1. CASE SuspendScheduler \/ ResumeScheduler \/ StartTask
    BY <2>1 DEF SuspendScheduler, ResumeScheduler, StartTask
  <2>2. CASE RemoveAllTasks
    <3>1. refusedPause' \in BOOLEAN
      BY <2>2 DEF RemoveAllTasks
    <3> QED  BY <2>2, <3>1 DEF RemoveAllTasks
  <2>5. CASE SeekAfterPrepared
    BY <2>5 DEF SeekAfterPrepared
  <2>3. CASE Retune \/ ReadPausePosition \/ PausePosition
    BY <1>0, <2>3 DEF Retune, ReadPausePosition, PausePosition
  <2>4. ASSUME NEW e \in Executors, Execute(e) \/ WokenByOtherPlayer(e)
        PROVE  PauseTypes'
    <3>1. CASE \/ Check(e) \/ TuneInternal(e) \/ SetRateInternal(e) \/ SeekInternal(e)
               \/ StopInternal(e) \/ StopRetune(e) \/ WokenByOtherPlayer(e) \/ Teardown(e)
               \/ TuneHelper(e) \/ TuneDone(e)
      BY <3>1 DEF Check, TuneInternal, SetRateInternal, SeekInternal, StopInternal, StopRetune,
         WokenByOtherPlayer, Teardown, TuneHelper, TuneDone
    <3>2. CASE Cancel(e)
      BY <1>0, <3>2 DEF Cancel
    <3>3. CASE Join(e)
      BY <1>0, <3>3 DEF Join
    <3>4. CASE PauseAtInternal(e)
      <4>1. cmd[e].position \in 0 .. MaxRequests
        BY <1>0 DEF ControlTypes, Command, NoCommand
      <4> QED  BY <3>4, <4>1 DEF PauseAtInternal, StartPausePositionMonitoring, None
    <3> QED  BY <2>4, <3>1, <3>2, <3>3, <3>4 DEF Execute
  <2> QED  BY <1>2, <2>1, <2>2, <2>3, <2>4, <2>5 DEF AppNext, WorkerNext, LoopNext, Executors
<1>3. CASE MonitorRead
  BY <1>3 DEF MonitorRead, None
<1>4. CASE MonitorPoll
  BY <1>0, <1>4 DEF MonitorPoll, None
<1>5. CASE MonitorSchedule
  <2>1. refusedPause' \in BOOLEAN
    BY <1>5 DEF MonitorSchedule
  <2> QED  BY <1>5, <2>1 DEF MonitorSchedule, None
<1>6. CASE \/ ReportNext \/ SeekWhilePreparing \/ FirstFrame \/ UNCHANGED vars
           \/ \E error \in {"buffering", "underflow", "other"} : Report(error)
  BY <1>6 DEF ReportNext, SeekWhilePreparing, ReportCheck, ReportSchedule, FirstFrame, Report, vars
<1> QED  BY <1>1, <1>2, <1>3, <1>4, <1>5, <1>6 DEF Next, MonitorNext

IInv == ControlTypes /\ StreamTypes /\ RetuneTypes /\ PauseTypes /\ CountTypes /\ Control

LEMMA Invariance == Spec => []IInv
<1>1. Init => IInv
  BY TypeInit, TypeParts, ControlInit DEF IInv
<1>2. IInv /\ [Next]_vars => IInv'
  BY ControlStep, StreamStep, RetuneStep, PauseStep, CountStep DEF IInv
<1> QED  BY <1>1, <1>2, PTL DEF Spec

\* TypeOK holds in every reachable state, for any number of commands and requests.
THEOREM TypeCorrect == Spec => []TypeOK
<1>1. IInv => TypeOK
  BY TypeParts DEF IInv
<1> QED  BY <1>1, Invariance, PTL

-----------------------------------------------------------------------------
(* Exclusion                                                               *)

\* With AsyncTune a Stop of the application has the scheduler locked out, and a task has
\* the application waiting in front of its lock-out: they are never both inside.
LEMMA OneAtATime ==
    ASSUME IInv, mAsyncTuneEnabled
    PROVE  pc[Worker] = "idle" \/ pc[App] \in {"idle", "suspend"}
BY DEF IInv, Control, AtWork, LockOut

\* Stop does not tear the stream down under a tune, with AsyncTune.
THEOREM StopAndRetuneExclude == Spec => []StopExcludesRetune
<1>1. IInv => StopExcludesRetune
  BY OneAtATime DEF StopExcludesRetune, Stopping, Executors
<1> QED  BY <1>1, Invariance, PTL

-----------------------------------------------------------------------------
(* A cancelled PauseAt                                                     *)

\* The steps of a command that stops or starts the monitor are on one thread at a time.
LEMMA OneCommand ==
    ASSUME IInv, NEW e \in Executors, pc[e] \in {"cancel", "join", "body"},
           cmd[e].name # "Retune"
    PROVE  /\ \A f \in Executors \ {e} : pc[f] # "join"
           /\ mAsyncTuneEnabled => pc[Worker] # "pause"
BY PlayerAssumption
   DEF PlayerAssumption, IInv, Control, AtWork, LockOut, Queued, IsTask, Places, Executors, Calls

\* A position is set only while there is a monitor thread or the request was refused, a
\* command that joins the thread has withdrawn it, and it is that of the request in force.
Position ==
    /\ mPausePositionMilliseconds # 0 => mPausePositionMonitoringThreadStarted \/ refusedPause
    /\ \A e \in Executors : pc[e] = "join" => mPausePositionMilliseconds = 0
    /\ CancelledIsWithdrawn

positions == <<mPausePositionMilliseconds, wanted, mPausePositionMonitoringThreadStarted,
               pausePosition, mAsyncTuneEnabled>>

LEMMA PositionFrame ==
    ASSUME Position, UNCHANGED positions, refusedPause => refusedPause',
           \A e \in Executors : pc'[e] \in {"join", "pause"} => pc'[e] = pc[e]
    PROVE  Position'
BY DEF Position, CancelledIsWithdrawn, Unmonitored, positions, Executors

LEMMA PositionStep ==
    ASSUME IInv, Position, [Next]_vars
    PROVE  Position'
<1> USE PlayerAssumption DEF PlayerAssumption
<1>0. pc \in [Executors -> Steps] /\ mPausePositionMilliseconds \in Nat
  BY DEF IInv, ControlTypes, PauseTypes
<1>1. CASE \E name \in Calls : Call(name)
  <2>1. UNCHANGED <<positions, refusedPause>> /\ \/ UNCHANGED pc
                                                 \/ pc' = [pc EXCEPT ![App] = "suspend"]
                                                 \/ pc' = [pc EXCEPT ![App] = "check"]
    BY <1>1 DEF Call, positions, pause, Goto, executors
  <2> QED  BY <1>0, <2>1, PositionFrame DEF Executors
<1>2. CASE SuspendScheduler \/ RemoveAllTasks \/ ResumeScheduler
  <2>0. refusedPause => refusedPause'
    BY <1>2 DEF SuspendScheduler, RemoveAllTasks, ResumeScheduler, pause
  <2>1. /\ UNCHANGED positions
        /\ \/ pc' = [pc EXCEPT ![App] = "clear"]
           \/ pc' = [pc EXCEPT ![App] = "cancel"]
           \/ pc' = [pc EXCEPT ![App] = "resume"]
           \/ pc' = [pc EXCEPT ![App] = "idle"]
    BY <1>2 DEF SuspendScheduler, RemoveAllTasks, ResumeScheduler, positions, pause, Goto
  <2> QED  BY <1>0, <2>0, <2>1, PositionFrame DEF Executors
<1>3. CASE StartTask \/ SeekAfterPrepared
  <2>1. UNCHANGED <<positions, refusedPause>> /\ \/ pc' = [pc EXCEPT ![Worker] = "read"]
                                                 \/ pc' = [pc EXCEPT ![Worker] = "body"]
                                                 \/ pc' = [pc EXCEPT ![Worker] = "check"]
                                                 \/ pc' = [pc EXCEPT ![Loop] = "lock"]
                                                 \/ UNCHANGED pc
    BY <1>3 DEF StartTask, SeekAfterPrepared, positions, pause, Goto
  <2> QED  BY <1>0, <2>1, PositionFrame DEF Executors
<1>4. ASSUME NEW e \in Executors, Commands(e) PROVE Position'
  <2>0. pc[e] \in {"cancel", "join", "body"} /\ cmd[e].name # "Retune" =>
            /\ \A f \in Executors \ {e} : pc[f] # "join"
            /\ mAsyncTuneEnabled => pc[Worker] # "pause"
    BY OneCommand
  <2>1. CASE \/ Check(e) \/ SetRateInternal(e) \/ SeekInternal(e) \/ StopInternal(e)
             \/ TuneInternal(e) \/ StopRetune(e) \/ WokenByOtherPlayer(e) \/ Teardown(e)
             \/ TuneHelper(e) \/ (TuneDone(e) /\ cmd[e].name # "Retune")
             \/ (e = Worker /\ Retune)
    <3>1. UNCHANGED <<positions, refusedPause>>
      BY <2>1 DEF positions, pause, Check, SetRateInternal, SeekInternal, StopInternal,
         TuneInternal, StopRetune, WokenByOtherPlayer, Teardown, TuneHelper, TuneDone, Retune
    <3>2. \E p \in Steps \ {"join", "pause"} : pc' = [pc EXCEPT ![e] = p]
      BY <2>1 DEF Steps, Return, Goto, Check, SetRateInternal, SeekInternal, StopInternal,
         TuneInternal, StopRetune, WokenByOtherPlayer, Teardown, TuneHelper, TuneDone, Retune
    <3> QED  BY <1>0, <3>1, <3>2, PositionFrame
  <2>2. CASE Cancel(e)
    <3>1. cmd[e].name # "Retune" /\ pc[e] = "cancel"
      BY <2>2 DEF Cancel, IInv, Control, AtWork, Places
    <3>2. mAsyncTuneEnabled => pc'[Worker] # "pause"
      BY <1>0, <2>0, <2>2, <3>1 DEF Cancel, Goto, Executors
    <3>3. CASE mPausePositionMonitoringThreadStarted
      BY <1>0, <2>2, <3>2, <3>3 DEF Cancel, Position, CancelledIsWithdrawn, Goto
    <3>4. CASE ~mPausePositionMonitoringThreadStarted
      <4>1. /\ UNCHANGED <<mPausePositionMilliseconds, refusedPause,
                           mPausePositionMonitoringThreadStarted, mAsyncTuneEnabled>>
            /\ pc' = [pc EXCEPT ![e] = "body"]
        BY <2>2, <3>4 DEF Cancel, Goto, monitor
      <4>2. mPausePositionMilliseconds # 0 => Unmonitored'
        BY <3>4, <4>1 DEF Position, Unmonitored
      <4>3. \A f \in Executors : pc'[f] = "join" => mPausePositionMilliseconds' = 0
        BY <1>0, <4>1 DEF Position
      <4> QED  BY <3>2, <4>1, <4>2, <4>3 DEF Position, CancelledIsWithdrawn, Unmonitored
    <3> QED  BY <3>3, <3>4
  <2>3. CASE Join(e)
    <3>1. cmd[e].name # "Retune" /\ pc[e] = "join" /\ mPausePositionMilliseconds = 0
      BY <2>3 DEF Join, IInv, Control, AtWork, Places, Position
    <3>2. mAsyncTuneEnabled => pc'[Worker] # "pause"
      BY <1>0, <2>0, <2>3, <3>1 DEF Join, Goto, Executors
    <3> QED  BY <2>3, <3>1, <3>2 DEF Join, Position, CancelledIsWithdrawn, pause
  <2>4. CASE PauseAtInternal(e)
    <3>1. cmd[e].name # "Retune" /\ pc[e] = "body" /\ pc' \in {[pc EXCEPT ![e] = "idle"], [pc EXCEPT ![e] = "resume"]}
      BY <2>4 DEF PauseAtInternal, Return, Goto
    <3>2. CASE StartPausePositionMonitoring(cmd[e].position)
      <4>1. /\ mAsyncTuneEnabled' => pc'[Worker] # "pause"
            /\ \A f \in Executors : pc'[f] # "join"
        BY <1>0, <2>0, <2>4, <3>1 DEF PauseAtInternal, Executors
      <4>2. /\ mPausePositionMonitoringThreadStarted' \/ refusedPause'
            /\ mPausePositionMilliseconds' = wanted'
        BY <3>2 DEF StartPausePositionMonitoring
      <4> QED  BY <4>1, <4>2 DEF Position, CancelledIsWithdrawn
    <3>3. CASE UNCHANGED <<pause, mPausePositionMonitoringThreadStarted>>
      BY <1>0, <2>4, <3>1, <3>3, PositionFrame DEF PauseAtInternal, positions, pause, Executors
    <3> QED  BY <2>4, <3>2, <3>3 DEF PauseAtInternal
  <2>5. CASE e = Worker /\ ReadPausePosition
    BY <1>0, <2>5
       DEF ReadPausePosition, Position, CancelledIsWithdrawn, Unmonitored, Goto, Executors, pause
  <2>6. CASE e = Worker /\ PausePosition
    <3>1. mPausePositionMilliseconds' = 0 /\ pc'[Worker] # "pause"
      BY <1>0, <2>6 DEF PausePosition, Return, Goto, Executors
    <3> QED  BY <3>1 DEF Position, CancelledIsWithdrawn
  <2> QED  BY <1>4, <2>1, <2>2, <2>3, <2>4, <2>5, <2>6 DEF Commands
<1>5. ASSUME NEW e \in Executors, TuneDone(e), cmd[e].name = "Retune" PROVE Position'
  <2>1. UNCHANGED <<positions, refusedPause>>
        /\ pc' = [pc EXCEPT ![Worker] = "idle",
                            ![App] = IF pc[App] = "gCond" THEN "teardown" ELSE pc[App]]
    BY <1>5 DEF TuneDone, RetuneDone, positions, pause
  <2> QED  BY <1>0, <2>1, PositionFrame DEF Executors
<1>6. CASE MonitorPoll
  <2>1. mPausePositionMonitoringThreadStarted
    BY <1>6 DEF MonitorPoll, IInv, PauseTypes, None
  <2> QED
    BY <1>0, <1>6, <2>1 DEF MonitorPoll, Position, CancelledIsWithdrawn, Unmonitored, executors
<1>7. CASE \/ FirstFrame \/ MonitorRead \/ MonitorSchedule \/ ReportCheck \/ ReportSchedule
           \/ SeekWhilePreparing
           \/ \E error \in {"buffering", "underflow", "other"} : Report(error)
           \/ UNCHANGED vars
  <2>0. refusedPause => refusedPause'
    BY <1>7 DEF FirstFrame, MonitorRead, MonitorSchedule, ReportCheck, ReportSchedule, Report,
       SeekWhilePreparing, vars, pause
  <2>1. UNCHANGED positions /\ UNCHANGED pc
    BY <1>7 DEF FirstFrame, MonitorRead, MonitorSchedule, ReportCheck, ReportSchedule, Report,
       SeekWhilePreparing, vars, positions, pause, executors
  <2> QED  BY <2>0, <2>1, PositionFrame
<1> QED  BY <1>1, <1>2, <1>3, <1>4, <1>5, <1>6, <1>7, NextCases DEF Others

\* The position a later command cancels or replaces is withdrawn, unless its monitor thread
\* could not be created: it is neither left set nor, with AsyncTune, paused for.
THEOREM CancelledAlwaysWithdrawn == Spec => []CancelledIsWithdrawn
<1>1. Init => Position
  BY DEF Init, Position, CancelledIsWithdrawn
<1>2. IInv /\ Position /\ [Next]_vars => Position'
  BY PositionStep
<1>3. Position => CancelledIsWithdrawn
  BY DEF Position
<1> QED  BY <1>1, <1>2, <1>3, Invariance, PTL DEF Spec
-----------------------------------------------------------------------------
(* A task that is asked for                                                *)

Waiting(name) ==
    running.name = name \/ \E i \in DOMAIN mTaskQueue : mTaskQueue[i].name = name

\* The steps that end the task of a retune or of a pause.
Ends(name) ==
    \/ RemoveAllTasks
    \/ name = "Retune" /\ Retune /\ ~reTune
    \/ name = "Retune" /\ \E e \in Executors : TuneDone(e) /\ cmd[e].name = "Retune"
    \/ name = "PausePosition" /\ PausePosition

LEMMA Appended ==
    ASSUME ControlTypes, NEW name, Waiting(name), NEW task, ScheduleTask(task), UNCHANGED running
    PROVE  Waiting(name)'
<1>1. CASE suspended
  BY <1>1 DEF ScheduleTask, Waiting
<1>2. CASE ~suspended
  <2>1. mTaskQueue' = Append(mTaskQueue, task)
    BY <1>2 DEF ScheduleTask
  <2>2. \A i \in DOMAIN mTaskQueue : i \in DOMAIN mTaskQueue' /\ mTaskQueue'[i] = mTaskQueue[i]
    BY <2>1 DEF ControlTypes
  <2> QED  BY <2>2 DEF Waiting
<1> QED  BY <1>1, <1>2

\* A task that the lock-out does not refuse is waiting.
LEMMA Accepted ==
    ASSUME ControlTypes, NEW task \in Command, ScheduleTask(task), ~suspended
    PROVE  Waiting(task.name)'
<1>1. mTaskQueue' = Append(mTaskQueue, task)
  BY DEF ScheduleTask
<1>2. Len(mTaskQueue) + 1 \in DOMAIN mTaskQueue' /\ mTaskQueue'[Len(mTaskQueue) + 1] = task
  BY <1>1 DEF ControlTypes
<1> QED  BY <1>2 DEF Waiting

LEMMA WaitingStep ==
    ASSUME IInv, [Next]_vars, NEW name \in {"Retune", "PausePosition"}, Waiting(name)
    PROVE  Waiting(name)' \/ Ends(name)
<1> USE PlayerAssumption DEF PlayerAssumption
<1>0. ControlTypes /\ Control
  BY DEF IInv
<1>1. CASE \E n \in Calls : Call(n)
  <2>1. UNCHANGED running /\ (UNCHANGED mTaskQueue \/ \E task : ScheduleTask(task))
    BY <1>1 DEF Call, scheduler
  <2>2. CASE UNCHANGED mTaskQueue
    BY <2>1, <2>2 DEF Waiting
  <2> QED  BY <1>0, <2>1, <2>2, Appended
<1>2. CASE SuspendScheduler \/ ResumeScheduler
  BY <1>2 DEF SuspendScheduler, ResumeScheduler, Scheduler!Suspend, Scheduler!Resume, Waiting
<1>3. CASE StartTask
  <2>1. /\ running = NoCommand
        /\ mTaskQueue # <<>> /\ running' = Head(mTaskQueue) /\ mTaskQueue' = Tail(mTaskQueue)
    BY <1>3 DEF StartTask, Scheduler!Start
  <2>2. PICK i \in DOMAIN mTaskQueue : mTaskQueue[i].name = name
    BY <2>1 DEF Waiting, NoCommand, None
  <2>3. CASE i = 1
    BY <1>0, <2>1, <2>2, <2>3 DEF Waiting, ControlTypes
  <2>4. CASE i # 1
    <3>1. i - 1 \in DOMAIN mTaskQueue' /\ mTaskQueue'[i - 1] = mTaskQueue[i]
      BY <1>0, <2>1, <2>4 DEF ControlTypes
    <3> QED  BY <2>2, <3>1 DEF Waiting
  <2> QED  BY <2>3, <2>4
<1>4. ASSUME NEW e \in Executors, Commands(e) PROVE Waiting(name)' \/ Ends(name)
  <2>1. CASE UNCHANGED scheduler
    BY <2>1 DEF scheduler, Waiting
  <2>2. CASE ~UNCHANGED scheduler
    <3>1. Return(e) /\ pc[e] # "idle"
      BY <1>0, <1>4, <2>2, CommandShape
    <3>2. e = Worker /\ UNCHANGED mTaskQueue
      BY <2>2, <3>1 DEF Return, Scheduler!Finish, scheduler, Executors
    <3>3. cmd[Worker] = running
      BY <1>0, <3>1, <3>2 DEF Control, AtWork
    <3>4. CASE running.name # name
      BY <3>2, <3>4 DEF Waiting
    <3>5. CASE running.name = name
      <4>1. pc[e] \in Places(name) /\ cmd[e].name = name
        BY <1>0, <3>1, <3>2, <3>3, <3>5 DEF Control, AtWork, Executors
      <4>2. (Retune /\ ~reTune) \/ PausePosition
        BY <1>4, <2>2, <4>1 DEF Commands, Places, Check, Cancel, Join, PauseAtInternal,
           SetRateInternal, SeekInternal, StopInternal, TuneInternal, StopRetune,
           WokenByOtherPlayer, Teardown, TuneHelper, TuneDone, Retune, ReadPausePosition
      <4>3. Retune => name = "Retune"
        BY <3>2, <4>1 DEF Retune
      <4>4. PausePosition => name = "PausePosition"
        BY <3>2, <4>1 DEF PausePosition, Places
      <4> QED  BY <4>2, <4>3, <4>4 DEF Ends
    <3> QED  BY <3>4, <3>5
  <2> QED  BY <2>1, <2>2
<1>5. ASSUME NEW e \in Executors, TuneDone(e), cmd[e].name = "Retune"
      PROVE  Waiting(name)' \/ Ends(name)
  <2>1. CASE name = "Retune"
    BY <1>5, <2>1 DEF Ends
  <2>2. CASE name = "PausePosition"
    <3>1. e = Worker /\ UNCHANGED mTaskQueue
      BY <1>0, <1>5, RetuneDoneStep DEF TuneDone, RetuneDone, Scheduler!Finish
    <3>2. running.name = "Retune"
      BY <1>0, <1>5, <3>1 DEF TuneDone, Control, AtWork
    <3> QED  BY <2>2, <3>1, <3>2 DEF Waiting
  <2> QED  BY <2>1, <2>2
<1>6. CASE MonitorSchedule
  BY <1>0, <1>6, Appended DEF MonitorSchedule
<1>7. CASE ReportSchedule
  <2>1. CASE UNCHANGED mTaskQueue
    BY <1>7, <2>1 DEF ReportSchedule, Waiting
  <2> QED  BY <1>0, <1>7, <2>1, Appended DEF ReportSchedule
<1>8. CASE Others \/ SeekAfterPrepared \/ UNCHANGED vars
  BY <1>8 DEF Others, SeekWhilePreparing, SeekAfterPrepared, FirstFrame, MonitorRead,
     MonitorPoll, ReportCheck, Report, vars, scheduler, Waiting
<1>9. CASE RemoveAllTasks
  BY <1>9 DEF Ends
<1> QED  BY <1>1, <1>2, <1>3, <1>4, <1>5, <1>6, <1>7, <1>8, <1>9, NextCases

\* What Stop clears from the queue is noted.
LEMMA Cleared ==
    ASSUME IInv, RemoveAllTasks
    PROVE  /\ Waiting("Retune") => refusedRetune'
           /\ Waiting("PausePosition") => refusedPause'
           /\ refusedRetune => refusedRetune'
           /\ refusedPause => refusedPause'
<1>1. running = NoCommand
  <2>1. pc[App] = "clear" /\ App \in Executors
    BY DEF RemoveAllTasks, Executors
  <2>2. cmd[App].name = "Stop"
    BY <2>1 DEF IInv, Control, AtWork, Places, Command, Names
  <2> QED  BY <2>1, <2>2 DEF IInv, Control, LockOut
<1>2. running.name = None
  BY <1>1 DEF NoCommand
<1> QED  BY <1>2 DEF RemoveAllTasks, Waiting, None

LEMMA RetuneScheduledStep ==
    ASSUME IInv, RetuneIsScheduled, [Next]_vars
    PROVE  RetuneIsScheduled'
<1> USE DEF retune
<1>0. RetuneIsScheduled <=> (reTune => refusedRetune \/ Waiting("Retune"))
  BY DEF RetuneIsScheduled, Waiting
<1>1. RetuneIsScheduled' <=> (reTune' => refusedRetune' \/ Waiting("Retune")')
  BY DEF RetuneIsScheduled, Waiting
<1>2. CASE RemoveAllTasks
  <2>1. UNCHANGED reTune
    BY <1>2 DEF RemoveAllTasks
  <2> QED  BY <1>0, <1>1, <1>2, <2>1, Cleared
<1>3. CASE ReportSchedule /\ ~UNCHANGED reTune
  <2>1. ScheduleTask(Plain("Retune")) /\ refusedRetune' = (refusedRetune \/ suspended)
    BY <1>3 DEF ReportSchedule
  <2>2. Plain("Retune") \in Command /\ Plain("Retune").name = "Retune" /\ ControlTypes
    BY PlayerAssumption DEF PlayerAssumption, Plain, Command, Names, IInv
  <2>3. suspended => refusedRetune'
    BY <2>1
  <2> QED  BY <1>1, <2>1, <2>2, <2>3, Accepted
<1>4. CASE reTune' = FALSE
  BY <1>1, <1>4
<1>5. CASE UNCHANGED <<reTune, refusedRetune>>
  <2>1. Waiting("Retune") => Waiting("Retune")' \/ Ends("Retune")
    BY WaitingStep
  <2>2. Ends("Retune") => RemoveAllTasks \/ ~reTune \/ reTune' = FALSE
    BY DEF Ends, TuneDone, RetuneDone
  <2> QED  BY <1>0, <1>1, <1>2, <1>5, <2>1, <2>2
<1>6. ASSUME NEW e \in Executors, Commands(e)
      PROVE  UNCHANGED <<reTune, refusedRetune>> \/ reTune' = FALSE
  BY <1>6 DEF Commands, Check, Cancel, Join, PauseAtInternal, SetRateInternal, SeekInternal,
     StopInternal, TuneInternal, StopRetune, WokenByOtherPlayer, Teardown, TuneHelper, TuneDone,
     Retune, ReadPausePosition, PausePosition
<1>7. ASSUME NEW e \in Executors, TuneDone(e), cmd[e].name = "Retune" PROVE reTune' = FALSE
  BY <1>7 DEF TuneDone, RetuneDone
<1>8. CASE \/ \E name \in Calls : Call(name)
           \/ SuspendScheduler \/ ResumeScheduler \/ StartTask \/ SeekAfterPrepared
           \/ MonitorSchedule \/ Others \/ UNCHANGED vars
  <2>1. UNCHANGED <<reTune, refusedRetune>>
    BY <1>8 DEF Call, SeekWhilePreparing, SeekAfterPrepared, SuspendScheduler, ResumeScheduler, StartTask, MonitorSchedule, Others,
       FirstFrame, MonitorRead, MonitorPoll, ReportCheck, Report, vars
  <2> QED  BY <2>1, <1>5
<1>9. ReportSchedule /\ UNCHANGED reTune => \/ UNCHANGED <<reTune, refusedRetune>>
                                              \/ reTune' = FALSE
  BY DEF ReportSchedule, IInv, RetuneTypes
<1> QED  BY <1>2, <1>3, <1>4, <1>5, <1>6, <1>7, <1>8, <1>9, NextCases

\* The flag that stops every other request for a retune is set only while its task waits or
\* runs, or was refused.
THEOREM RetuneAlwaysScheduled == Spec => []RetuneIsScheduled
<1>1. Init => RetuneIsScheduled
  BY DEF Init, RetuneIsScheduled
<1>2. IInv /\ RetuneIsScheduled /\ [Next]_vars => RetuneIsScheduled'
  BY RetuneScheduledStep
<1> QED  BY <1>1, <1>2, Invariance, PTL DEF Spec

LEMMA WatchedStep ==
    ASSUME IInv, PauseAtIsWatched, [Next]_vars
    PROVE  PauseAtIsWatched'
<1> USE DEF pause, monitor
<1> DEFINE watched == <<mPausePositionMilliseconds, mpc, refusedPause>>
<1>0. PauseAtIsWatched <=> (mPausePositionMilliseconds # 0 =>
          mpc \notin {None, "done"} \/ refusedPause \/ Waiting("PausePosition"))
  BY DEF PauseAtIsWatched, Waiting
<1>1. PauseAtIsWatched' <=> (mPausePositionMilliseconds' # 0 =>
          mpc' \notin {None, "done"} \/ refusedPause' \/ Waiting("PausePosition")')
  BY DEF PauseAtIsWatched, Waiting
<1>2. CASE RemoveAllTasks
  <2>1. UNCHANGED <<mPausePositionMilliseconds, mpc>>
    BY <1>2 DEF RemoveAllTasks
  <2> QED  BY <1>0, <1>1, <1>2, <2>1, Cleared
<1>3. CASE mPausePositionMilliseconds' = 0
  BY <1>1, <1>3
<1>4. CASE UNCHANGED watched
  <2>1. Waiting("PausePosition") => Waiting("PausePosition")' \/ Ends("PausePosition")
    BY WaitingStep
  <2>2. Ends("PausePosition") => RemoveAllTasks \/ mPausePositionMilliseconds' = 0
    BY DEF Ends, PausePosition
  <2> QED  BY <1>0, <1>1, <1>2, <1>3, <1>4, <2>1, <2>2
<1>5. ASSUME NEW e \in Executors, Commands(e) PROVE PauseAtIsWatched'
  <2>1. CASE Join(e)
    <3>1. mpc = "done" /\ UNCHANGED <<scheduler, mPausePositionMilliseconds, refusedPause>>
      BY <2>1 DEF Join
    <3> QED  BY <1>0, <1>1, <3>1 DEF Waiting, scheduler
  <2>2. CASE PauseAtInternal(e)
    <3>1. UNCHANGED watched \/ mpc' = "start" \/ refusedPause'
      BY <2>2 DEF PauseAtInternal, StartPausePositionMonitoring
    <3> QED  BY <1>1, <1>4, <3>1 DEF None
  <2>3. CASE Cancel(e) \/ (e = Worker /\ PausePosition)
    <3>1. UNCHANGED watched \/ mPausePositionMilliseconds' = 0
      BY <2>3 DEF Cancel, PausePosition
    <3> QED  BY <1>3, <1>4, <3>1
  <2>4. CASE \/ Check(e) \/ SetRateInternal(e) \/ SeekInternal(e) \/ StopInternal(e)
             \/ TuneInternal(e) \/ StopRetune(e) \/ WokenByOtherPlayer(e) \/ Teardown(e)
             \/ TuneHelper(e) \/ (TuneDone(e) /\ cmd[e].name # "Retune")
             \/ (e = Worker /\ (Retune \/ ReadPausePosition))
    <3>1. UNCHANGED watched
      BY <2>4 DEF Check, SetRateInternal, SeekInternal, StopInternal, TuneInternal, StopRetune,
         WokenByOtherPlayer, Teardown, TuneHelper, TuneDone, Retune, ReadPausePosition
    <3> QED  BY <1>4, <3>1
  <2> QED  BY <1>5, <2>1, <2>2, <2>3, <2>4 DEF Commands
<1>6. CASE MonitorSchedule
  <2> DEFINE task == [name |-> "PausePosition", position |-> localPauseAt]
  <2>1. ScheduleTask(task) /\ refusedPause' = (refusedPause \/ suspended)
    BY <1>6 DEF MonitorSchedule
  <2>2. task \in Command /\ task.name = "PausePosition" /\ ControlTypes
    BY DEF IInv, PauseTypes, Command, Names
  <2> HIDE DEF task
  <2> QED  BY <1>1, <2>1, <2>2, Accepted
<1>7. CASE MonitorRead \/ MonitorPoll
  <2>1. mPausePositionMilliseconds' = 0 \/ mpc' \in {"poll", "wait", "schedule"}
    BY <1>7 DEF MonitorRead, MonitorPoll
  <2> QED  BY <1>1, <1>3, <2>1 DEF None
<1>8. CASE \/ \E name \in Calls : Call(name)
           \/ SuspendScheduler \/ ResumeScheduler \/ StartTask \/ ReportSchedule
           \/ SeekWhilePreparing \/ SeekAfterPrepared
           \/ (\E e \in Executors : TuneDone(e) /\ cmd[e].name = "Retune")
           \/ FirstFrame \/ ReportCheck
           \/ (\E error \in {"buffering", "underflow", "other"} : Report(error))
           \/ UNCHANGED vars
  <2>1. UNCHANGED watched
    BY <1>8 DEF Call, SuspendScheduler, ResumeScheduler, StartTask, ReportSchedule, TuneDone,
       SeekWhilePreparing, SeekAfterPrepared,
       FirstFrame, ReportCheck, Report, vars
  <2> QED  BY <2>1, <1>4
<1> QED  BY <1>2, <1>5, <1>6, <1>7, <1>8, NextCases DEF Others

\* A position that is set has its monitor or its task, unless the lock-out refused the task
\* or Stop cleared it.
THEOREM PauseAtAlwaysWatched == Spec => []PauseAtIsWatched
<1>1. Init => PauseAtIsWatched
  BY DEF Init, PauseAtIsWatched
<1>2. IInv /\ PauseAtIsWatched /\ [Next]_vars => PauseAtIsWatched'
  BY WatchedStep
<1> QED  BY <1>1, <1>2, Invariance, PTL DEF Spec
=============================================================================
