------------------------------- MODULE Player -------------------------------
(***************************************************************************)
(* The commands of a player (main_aamp.cpp) and what runs against them in  *)
(* priv_aamp.cpp: the retune task and the callbacks that ask for it, the   *)
(* pause-position monitor of PauseAt with its task, and the seek that a    *)
(* player still preparing leaves to the main loop.                         *)
(*                                                                         *)
(* The scheduler is its abstract specification, SerialExecutor, which      *)
(* AampScheduler is shown to implement; its lock-out begins and ends with  *)
(* the execution lock here.  With AsyncTune commands are tasks, without    *)
(* it they run on the application's thread, beside the scheduler's.  A     *)
(* step is a critical section, or the code up to a wait, a lock or a       *)
(* variable the other threads use.  A request of PauseAt is a number that  *)
(* stands for its position; the play rate is normal throughout.            *)
(***************************************************************************)
EXTENDS Naturals, Sequences, SequencesExt

CONSTANTS
    App, Worker,    \* the application's thread, the scheduler's thread
    Loop,           \* the main loop, for the seeks left to it
    MaxCommands,    \* bound: commands of the application
    MaxRequests,    \* bound: positions given to PauseAt
    MaxReports      \* bound: calls of ScheduleRetune

ASSUME PlayerAssumption ==
    /\ App # Worker /\ Loop \notin {App, Worker}
    /\ MaxCommands \in Nat /\ MaxRequests \in Nat /\ MaxReports \in Nat

VARIABLES
    mTaskQueue, running, suspended,      \* the scheduler: its queue, the task it runs, its lock-out
    mAsyncTuneEnabled,                   \* configuration
    mState, pipeline_paused,
    mpStreamAbstractionAAMP,             \* there is one
    firstFrame,                          \* the sink has yet to show the first frame
    mSeekOperationInProgress,
    mStreamLock,                         \* who holds it
    pc, cmd,                             \* each executor: where it is, the command it executes
    seen,                                \* the state Stop or Seek has read, IDLE once it is used
    preparedSeeks,                       \* idle sources SeekAfterPrepared of the main loop
    reTune, mIsRetuneInProgress,
    rpc, errorType,                      \* a callback or collector thread in ScheduleRetune
    mPausePositionMilliseconds,          \* 0 for AAMP_PAUSE_POSITION_INVALID_POSITION
    mPausePositionMonitoringThreadStarted,
    mpc, localPauseAt,                   \* the monitor thread, its copy of the position
    pausePosition,                       \* the position the PausePosition task has read
    commands, requests, reports,
    wanted,                              \* history: the request not cancelled or carried out
    refusedPause, refusedRetune          \* history: its task was refused or cleared, or the
                                         \* monitor thread could not be created

scheduler == <<mTaskQueue, running, suspended>>
stream    == <<mState, mpStreamAbstractionAAMP, firstFrame, mSeekOperationInProgress,
               mStreamLock>>
sought    == <<seen, preparedSeeks>>
executors == <<pc, cmd, sought>>
retune    == <<reTune, mIsRetuneInProgress, refusedRetune>>
reporter  == <<rpc, errorType>>
monitor   == <<mpc, localPauseAt>>
pause     == <<mPausePositionMilliseconds, wanted, refusedPause>>
bounds    == <<commands, requests, reports>>
vars == <<scheduler, mAsyncTuneEnabled, stream, pipeline_paused, executors, retune, reporter,
          pause, mPausePositionMonitoringThreadStarted, monitor, pausePosition, bounds>>

Executors == {App, Worker, Loop}
None      == "none"
Calls     == {"Tune", "Play", "Pause", "Seek", "PauseAt", "Cancel", "Stop"}
Names     == Calls \cup {"Retune", "PausePosition", "SeekAfterPrepared"}
Seeks     == {"Seek", "SeekAfterPrepared"}
States    == {"IDLE", "INITIALIZING", "PREPARED", "PLAYING", "PAUSED", "SEEKING", "ERROR"}
Command   == [name : Names, position : 0 .. MaxRequests]
NoCommand == [name |-> None, position |-> 0]
Plain(name) == [name |-> name, position |-> 0]

Scheduler == INSTANCE SerialExecutor WITH
    Task <- Command, NoTask <- NoCommand, queue <- mTaskQueue, active <- running

TypeOK ==
    /\ mTaskQueue \in Seq(Command) /\ running \in Command \cup {NoCommand}
    /\ suspended \in BOOLEAN /\ mAsyncTuneEnabled \in BOOLEAN
    /\ mState \in States
    /\ pipeline_paused \in BOOLEAN /\ mpStreamAbstractionAAMP \in BOOLEAN
    /\ firstFrame \in BOOLEAN
    /\ mSeekOperationInProgress \in BOOLEAN
    /\ mStreamLock \in Executors \cup {None}
    /\ pc \in [Executors -> {"idle", "check", "suspend", "clear", "cancel", "join", "body", "stop",
                             "gCond", "teardown", "lock", "tune", "read", "pause", "resume"}]
    /\ cmd \in [Executors -> Command \cup {NoCommand}]
    /\ seen \in [Executors -> States] /\ preparedSeeks \in Nat
    /\ reTune \in BOOLEAN /\ mIsRetuneInProgress \in BOOLEAN
    /\ rpc \in {"idle", "check", "schedule"} /\ errorType \in {"buffering", "underflow", "other"}
    /\ mPausePositionMilliseconds \in 0 .. MaxRequests
    /\ mPausePositionMonitoringThreadStarted \in BOOLEAN
    /\ mPausePositionMonitoringThreadStarted <=> mpc # None
    /\ mpc \in {None, "start", "poll", "wait", "schedule", "done"}
    /\ localPauseAt \in 0 .. MaxRequests /\ pausePosition \in 0 .. MaxRequests
    /\ commands \in 0 .. MaxCommands /\ requests \in 0 .. MaxRequests
    /\ reports \in 0 .. MaxReports
    /\ wanted \in 0 .. MaxRequests /\ refusedPause \in BOOLEAN /\ refusedRetune \in BOOLEAN

Init ==
    /\ mTaskQueue = <<>> /\ running = NoCommand /\ suspended = FALSE
    /\ mAsyncTuneEnabled \in BOOLEAN
    /\ mState = "IDLE" /\ pipeline_paused = FALSE
    /\ mpStreamAbstractionAAMP = FALSE
    /\ firstFrame = FALSE /\ mSeekOperationInProgress = FALSE /\ mStreamLock = None
    /\ pc = [e \in Executors |-> "idle"] /\ cmd = [e \in Executors |-> NoCommand]
    /\ seen = [e \in Executors |-> "IDLE"] /\ preparedSeeks = 0
    /\ reTune = FALSE /\ mIsRetuneInProgress = FALSE
    /\ rpc = "idle" /\ errorType = "other"
    /\ mPausePositionMilliseconds = 0 /\ mPausePositionMonitoringThreadStarted = FALSE
    /\ mpc = None /\ localPauseAt = 0 /\ pausePosition = 0
    /\ commands = 0 /\ requests = 0 /\ reports = 0
    /\ wanted = 0 /\ refusedPause = FALSE /\ refusedRetune = FALSE

Goto(e, step) == pc' = [pc EXCEPT ![e] = step]

\* ScheduleTask: nothing but the lock-out refuses a task, because SendErrorEvent and Stop
\* write mState without telling the scheduler.
ScheduleTask(task) ==
    mTaskQueue' = IF suspended THEN mTaskQueue ELSE Append(mTaskQueue, task)

\* The end of a command: Stop goes on to ResumeScheduler, a task ends.
Return(e) ==
    /\ Goto(e, IF cmd[e].name = "Stop" THEN "resume" ELSE "idle")
    /\ IF e = Worker THEN Scheduler!Finish ELSE UNCHANGED scheduler

-----------------------------------------------------------------------------
(* The application and the scheduler's thread                              *)

\* A command of the API: a task, or a call; Stop is never a task, and reads the state first.
\* With AsyncTune a Seek is a task unless the player is idle; then it is a call, left out here.
Call(name) ==
    LET command == [name |-> name, position |-> IF name = "PauseAt" THEN requests + 1 ELSE 0]
    IN  /\ pc[App] = "idle"
        /\ commands < MaxCommands /\ commands' = commands + 1
        /\ name = "Seek" /\ mAsyncTuneEnabled => mState # "IDLE"
        /\ IF name = "PauseAt" THEN requests < MaxRequests /\ requests' = requests + 1
                               ELSE UNCHANGED requests
        /\ IF mAsyncTuneEnabled /\ name # "Stop"
           THEN ScheduleTask(command) /\ UNCHANGED <<running, suspended, executors>>
           ELSE /\ cmd' = [cmd EXCEPT ![App] = command]
                /\ Goto(App, IF name = "Stop" THEN "suspend" ELSE "check")
                /\ seen' = IF name = "Stop" THEN [seen EXCEPT ![App] = mState] ELSE seen
                /\ UNCHANGED <<scheduler, preparedSeeks>>
        /\ UNCHANGED <<mAsyncTuneEnabled, stream, pipeline_paused, retune, reporter, pause,
                       mPausePositionMonitoringThreadStarted, monitor, pausePosition, reports>>

\* mutant: the lock-out without the execution lock.
SuspendUnlocked ==
    /\ pc[App] = "suspend"
    /\ suspended' = TRUE
    /\ Goto(App, "clear")
    /\ UNCHANGED <<mTaskQueue, running, mAsyncTuneEnabled, stream, pipeline_paused, cmd, sought,
                   retune, reporter, pause, mPausePositionMonitoringThreadStarted, monitor,
                   pausePosition, bounds>>

SuspendScheduler ==
    /\ pc[App] = "suspend"
    /\ Scheduler!Suspend
    /\ Goto(App, "clear")
    /\ UNCHANGED <<mAsyncTuneEnabled, stream, pipeline_paused, cmd, sought, retune, reporter,
                   pause, mPausePositionMonitoringThreadStarted, monitor, pausePosition, bounds>>

\* RemoveAllTasks, and the state read before the suspension decides about StopInternal.
RemoveAllTasks ==
    /\ pc[App] = "clear"
    /\ Scheduler!Clear
    /\ refusedRetune' = (refusedRetune \/
                         \E i \in DOMAIN mTaskQueue : mTaskQueue[i].name = "Retune")
    /\ refusedPause' = (refusedPause \/
                        \E i \in DOMAIN mTaskQueue : mTaskQueue[i].name = "PausePosition")
    /\ Goto(App, IF seen[App] # "IDLE" THEN "cancel" ELSE "resume")
    /\ seen' = [seen EXCEPT ![App] = "IDLE"]
    /\ UNCHANGED <<mAsyncTuneEnabled, stream, pipeline_paused, cmd, preparedSeeks, reTune,
                   mIsRetuneInProgress, reporter, mPausePositionMilliseconds, wanted,
                   mPausePositionMonitoringThreadStarted, monitor, pausePosition, bounds>>

ResumeScheduler ==
    /\ pc[App] = "resume"
    /\ Scheduler!Resume
    /\ Goto(App, "idle")
    /\ UNCHANGED <<mAsyncTuneEnabled, stream, pipeline_paused, cmd, sought, retune, reporter,
                   pause, mPausePositionMonitoringThreadStarted, monitor, pausePosition, bounds>>

\* The scheduler's thread starts the oldest task.
StartTask ==
    /\ pc[Worker] = "idle"
    /\ Scheduler!Start
    /\ cmd' = [cmd EXCEPT ![Worker] = running']
    /\ Goto(Worker, CASE running'.name = "PausePosition" -> "read"
                      [] running'.name = "Retune" -> "body"
                      [] OTHER -> "check")
    /\ UNCHANGED <<mAsyncTuneEnabled, stream, pipeline_paused, sought, retune, reporter, pause,
                   mPausePositionMonitoringThreadStarted, monitor, pausePosition, bounds>>

-----------------------------------------------------------------------------
(* A command, on the thread that executes it                               *)

\* Nothing but Tune is allowed in eSTATE_ERROR; Seek goes by the state read here.
Check(e) ==
    /\ pc[e] = "check"
    /\ IF mState = "ERROR" /\ cmd[e].name # "Tune"
       THEN Return(e) /\ UNCHANGED seen
       ELSE /\ Goto(e, "cancel")
            /\ seen' = IF cmd[e].name = "Seek" THEN [seen EXCEPT ![e] = mState] ELSE seen
            /\ UNCHANGED scheduler
    /\ UNCHANGED <<mAsyncTuneEnabled, stream, pipeline_paused, cmd, preparedSeeks, retune,
                   reporter, pause, mPausePositionMonitoringThreadStarted, monitor, pausePosition,
                   bounds>>

\* mutant: a monitor that has ended is joined, its position stays.
CancelWhileMonitored(e) ==
    /\ pc[e] = "cancel"
    /\ wanted' = 0
    /\ mPausePositionMilliseconds' =
           IF mPausePositionMonitoringThreadStarted /\ mpc # "done" THEN 0
           ELSE mPausePositionMilliseconds
    /\ Goto(e, IF mPausePositionMonitoringThreadStarted THEN "join" ELSE "body")
    /\ UNCHANGED <<scheduler, mAsyncTuneEnabled, stream, pipeline_paused, cmd, sought,
                   retune, reporter, refusedPause,
                   mPausePositionMonitoringThreadStarted, monitor, pausePosition, bounds>>

\* StopPausePositionMonitoring: with a thread, withdraw the position ...
Cancel(e) ==
    /\ pc[e] = "cancel"
    /\ wanted' = 0
    /\ \/ /\ mPausePositionMonitoringThreadStarted
          /\ mPausePositionMilliseconds' = 0
          /\ Goto(e, "join")
       \/ /\ ~mPausePositionMonitoringThreadStarted
          /\ Goto(e, "body")
          /\ UNCHANGED mPausePositionMilliseconds
    /\ UNCHANGED <<scheduler, mAsyncTuneEnabled, stream, pipeline_paused, cmd, sought,
                   retune, reporter, refusedPause,
                   mPausePositionMonitoringThreadStarted, monitor, pausePosition, bounds>>

\* ... and wait for the thread.
Join(e) ==
    /\ pc[e] = "join"
    /\ mpc = "done"
    /\ mpc' = None
    /\ mPausePositionMonitoringThreadStarted' = FALSE
    /\ Goto(e, "body")
    /\ UNCHANGED <<scheduler, mAsyncTuneEnabled, stream, pipeline_paused, cmd, sought,
                   retune, reporter, pause, localPauseAt, pausePosition, bounds>>

\* The position is set first, and stays when the thread cannot be created.
StartPausePositionMonitoring(position) ==
    /\ mPausePositionMilliseconds' = position /\ wanted' = position
    /\ \/ /\ mPausePositionMonitoringThreadStarted' = TRUE /\ mpc' = "start"
          /\ refusedPause' = FALSE
       \/ /\ refusedPause' = TRUE
          /\ UNCHANGED <<mPausePositionMonitoringThreadStarted, mpc>>

\* PauseAtInternal: the monitor thread starts unless the pipeline is paused.
PauseAtInternal(e) ==
    /\ pc[e] = "body" /\ cmd[e].name \in {"PauseAt", "Cancel"}
    /\ IF cmd[e].name = "PauseAt" /\ ~pipeline_paused
       THEN StartPausePositionMonitoring(cmd[e].position)
       ELSE UNCHANGED <<pause, mpc, mPausePositionMonitoringThreadStarted>>
    /\ Return(e)
    /\ UNCHANGED <<mAsyncTuneEnabled, stream, pipeline_paused, cmd, sought, retune, reporter,
                   localPauseAt, pausePosition, bounds>>

\* SetRateInternal between pause and normal rate.
SetRateInternal(e) ==
    /\ pc[e] = "body" /\ cmd[e].name \in {"Play", "Pause"}
    /\ IF mpStreamAbstractionAAMP /\ pipeline_paused = (cmd[e].name = "Play")
       THEN /\ pipeline_paused' = ~pipeline_paused
            /\ mState' = IF cmd[e].name = "Play" THEN "PLAYING" ELSE "PAUSED"
       ELSE UNCHANGED <<pipeline_paused, mState>>
    /\ Return(e)
    /\ UNCHANGED <<mAsyncTuneEnabled, mpStreamAbstractionAAMP, firstFrame,
                   mSeekOperationInProgress, mStreamLock, cmd, sought, retune, reporter, pause,
                   mPausePositionMonitoringThreadStarted, monitor, pausePosition, bounds>>

\* SeekInternal without keepPaused, up to its use of the stream lock: in the middle of an HLS
\* tune it only moves the position to start from, in a player that is initialized or preparing
\* (INITIALIZING stands for these too) it is left to the main loop, and at the live point there
\* may be nowhere to go.
SeekInternal(e) ==
    /\ pc[e] = "body" /\ cmd[e].name = "Seek"
    /\ seen' = [seen EXCEPT ![e] = "IDLE"]
    /\ \/ /\ seen[e] = "INITIALIZING"
          /\ preparedSeeks' = preparedSeeks + 1
          /\ Return(e)
          /\ UNCHANGED <<pipeline_paused, mState>>
       \/ /\ seen[e] = "INITIALIZING" \/ mpStreamAbstractionAAMP
          /\ Return(e)
          /\ UNCHANGED <<pipeline_paused, mState, preparedSeeks>>
       \/ /\ pipeline_paused' = FALSE
          /\ IF mpStreamAbstractionAAMP
             THEN mState' = "SEEKING" /\ Goto(e, "lock") /\ UNCHANGED scheduler
             ELSE Return(e) /\ UNCHANGED mState
          /\ UNCHANGED preparedSeeks
    /\ UNCHANGED <<mAsyncTuneEnabled, mpStreamAbstractionAAMP, firstFrame,
                   mSeekOperationInProgress, mStreamLock, cmd, retune, reporter, pause,
                   mPausePositionMonitoringThreadStarted, monitor, pausePosition, bounds>>

\* A Seek that a listener calls from inside a tune, for the event of eSTATE_PREPARING.
SeekWhilePreparing ==
    /\ pc[App] = "tune" /\ cmd[App].name = "Tune"
    /\ mState = "INITIALIZING"
    /\ commands < MaxCommands /\ commands' = commands + 1
    /\ preparedSeeks' = preparedSeeks + 1
    /\ UNCHANGED <<scheduler, mAsyncTuneEnabled, stream, pipeline_paused, pc, cmd, seen, retune,
                   reporter, pause, mPausePositionMonitoringThreadStarted, monitor, pausePosition,
                   requests, reports>>

\* The main loop runs the seek that was left to it, as SeekInternal does, but the monitor of
\* PauseAt goes on.
SeekAfterPrepared ==
    /\ pc[Loop] = "idle"
    /\ preparedSeeks > 0 /\ preparedSeeks' = preparedSeeks - 1
    /\ \/ /\ mState = "ERROR" \/ mpStreamAbstractionAAMP
          /\ UNCHANGED <<pc, cmd, pipeline_paused, mState>>
       \/ /\ mState # "ERROR"
          /\ pipeline_paused' = FALSE
          /\ IF mpStreamAbstractionAAMP
             THEN /\ mState' = "SEEKING"
                  /\ cmd' = [cmd EXCEPT ![Loop] = Plain("SeekAfterPrepared")]
                  /\ Goto(Loop, "lock")
             ELSE UNCHANGED <<pc, cmd, mState>>
    /\ UNCHANGED <<scheduler, mAsyncTuneEnabled, mpStreamAbstractionAAMP, firstFrame,
                   mSeekOperationInProgress, mStreamLock, seen, retune, reporter, pause,
                   mPausePositionMonitoringThreadStarted, monitor, pausePosition, bounds>>

\* StopInternal: the Stop of the application reports the idle state at once.
StopInternal(e) ==
    /\ pc[e] = "body" /\ cmd[e].name = "Stop"
    /\ mState' = "IDLE"
    /\ Goto(e, "stop")
    /\ UNCHANGED <<scheduler, mAsyncTuneEnabled, mpStreamAbstractionAAMP, firstFrame,
                   mSeekOperationInProgress, mStreamLock, pipeline_paused, cmd, sought, retune,
                   reporter, pause, mPausePositionMonitoringThreadStarted, monitor, pausePosition,
                   bounds>>

\* TuneInternal: a player that is not idle is stopped first, without the scheduler's lock.
TuneInternal(e) ==
    /\ pc[e] = "body" /\ cmd[e].name = "Tune"
    /\ Goto(e, IF mState = "IDLE" THEN "lock" ELSE "stop")
    /\ UNCHANGED <<scheduler, mAsyncTuneEnabled, stream, pipeline_paused, cmd, sought, retune,
                   reporter, pause, mPausePositionMonitoringThreadStarted, monitor, pausePosition,
                   bounds>>

-----------------------------------------------------------------------------
(* PrivateInstanceAAMP::Stop and TuneHelper                                *)

\* Stop: an ongoing retune is waited for once, without looking again.
StopRetune(e) ==
    /\ pc[e] = "stop"
    /\ IF reTune /\ mIsRetuneInProgress
       THEN Goto(e, "gCond") /\ UNCHANGED <<reTune, refusedRetune>>
       ELSE Goto(e, "teardown") /\ reTune' = FALSE /\ refusedRetune' = FALSE
    /\ UNCHANGED <<scheduler, mAsyncTuneEnabled, stream, pipeline_paused, cmd, sought,
                   mIsRetuneInProgress, reporter, pause, mPausePositionMonitoringThreadStarted,
                   monitor, pausePosition, bounds>>

\* gCond is shared by all players: a retune of another one wakes the waiter too.
WokenByOtherPlayer(e) ==
    /\ pc[e] = "gCond"
    /\ Goto(e, "teardown")
    /\ reTune' = FALSE /\ refusedRetune' = FALSE
    /\ UNCHANGED <<scheduler, mAsyncTuneEnabled, stream, pipeline_paused, cmd, sought,
                   mIsRetuneInProgress, reporter, pause, mPausePositionMonitoringThreadStarted,
                   monitor, pausePosition, bounds>>

\* The threads of the stream and of the sink have ended, the main loop's timer may not.
ReportersJoined == rpc # "idle" => errorType = "buffering"

\* The rest of Stop, without the stream lock; a tune goes on, Stop is done.
Teardown(e) ==
    /\ pc[e] = "teardown"
    /\ ReportersJoined
    /\ mState' = "IDLE" /\ mpStreamAbstractionAAMP' = FALSE /\ firstFrame' = FALSE
    /\ mSeekOperationInProgress' = FALSE /\ pipeline_paused' = FALSE
    /\ IF cmd[e].name = "Tune" THEN Goto(e, "lock") /\ UNCHANGED scheduler ELSE Return(e)
    /\ UNCHANGED <<mAsyncTuneEnabled, mStreamLock, cmd, sought, retune, reporter, pause,
                   mPausePositionMonitoringThreadStarted, monitor, pausePosition, bounds>>

\* TuneHelper under the stream lock: the old stream is torn down ...
TuneHelper(e) ==
    /\ pc[e] = "lock"
    /\ mStreamLock = None /\ mStreamLock' = e
    /\ ReportersJoined
    /\ mState' = IF cmd[e].name = "Tune" THEN "INITIALIZING" ELSE mState
    /\ mSeekOperationInProgress' = (mSeekOperationInProgress \/ cmd[e].name \in Seeks)
    /\ mpStreamAbstractionAAMP' = TRUE /\ firstFrame' = FALSE
    /\ Goto(e, "tune")
    /\ UNCHANGED <<scheduler, mAsyncTuneEnabled, pipeline_paused, cmd, sought, retune, reporter,
                   pause, mPausePositionMonitoringThreadStarted, monitor, pausePosition, bounds>>

\* mutant: the end of a retune is not signalled.
RetuneDoneUnsignalled ==
    /\ mIsRetuneInProgress' = FALSE /\ reTune' = FALSE /\ refusedRetune' = FALSE
    /\ Goto(Worker, "idle")
    /\ Scheduler!Finish

\* The end of the retune task: the flags, and the signal to a Stop that waits.
RetuneDone ==
    /\ mIsRetuneInProgress' = FALSE /\ reTune' = FALSE /\ refusedRetune' = FALSE
    /\ pc' = [pc EXCEPT ![Worker] = "idle",
                        ![App] = IF pc[App] = "gCond" THEN "teardown" ELSE pc[App]]
    /\ Scheduler!Finish

\* ... and the new one starts, or fails with the seek flag left set: with SendErrorEvent, or
\* quietly for a position out of range (NotifyEOSReached discards it) or downloads stopped.
TuneDone(e) ==
    /\ pc[e] = "tune"
    /\ mStreamLock' = None
    /\ \/ /\ mState' \in {"ERROR", mState}
          /\ UNCHANGED <<firstFrame, mSeekOperationInProgress>>
       \/ /\ mState' = IF cmd[e].name = "Tune" /\ mState # "ERROR" THEN "PREPARED" ELSE mState
          /\ mSeekOperationInProgress' = (mSeekOperationInProgress /\ cmd[e].name \notin Seeks)
          /\ firstFrame' = TRUE
    /\ IF cmd[e].name = "Retune"
       THEN RetuneDone
       ELSE Return(e) /\ UNCHANGED retune
    /\ UNCHANGED <<mAsyncTuneEnabled, mpStreamAbstractionAAMP, pipeline_paused, cmd, sought,
                   reporter, pause, mPausePositionMonitoringThreadStarted, monitor, pausePosition,
                   bounds>>

\* The sink shows the first frame of the new stream (NotifyFirstFrameReceived).
FirstFrame ==
    /\ firstFrame /\ mState # "IDLE"
    /\ firstFrame' = FALSE /\ mState' = "PLAYING"
    /\ UNCHANGED <<scheduler, mAsyncTuneEnabled, mpStreamAbstractionAAMP,
                   mSeekOperationInProgress, mStreamLock, pipeline_paused, executors, retune,
                   reporter, pause, mPausePositionMonitoringThreadStarted, monitor, pausePosition,
                   bounds>>

-----------------------------------------------------------------------------
(* The tasks Retune and PausePosition                                      *)

\* PrivateInstanceAAMP_Retune up to the stream lock.
Retune ==
    /\ pc[Worker] = "body" /\ cmd[Worker].name = "Retune"
    /\ IF reTune
       THEN /\ pipeline_paused' = FALSE
            /\ mIsRetuneInProgress' = TRUE
            /\ Goto(Worker, "lock")
            /\ UNCHANGED scheduler
       ELSE Return(Worker) /\ UNCHANGED <<pipeline_paused, mIsRetuneInProgress>>
    /\ UNCHANGED <<mAsyncTuneEnabled, stream, cmd, sought, reTune, refusedRetune, reporter, pause,
                   mPausePositionMonitoringThreadStarted, monitor, pausePosition, bounds>>

\* PrivateInstanceAAMP_PausePosition takes the position ...
ReadPausePosition ==
    /\ pc[Worker] = "read"
    /\ pausePosition' = mPausePositionMilliseconds
    /\ Goto(Worker, "pause")
    /\ UNCHANGED <<scheduler, mAsyncTuneEnabled, stream, pipeline_paused, cmd, sought, retune,
                   reporter, pause, mPausePositionMonitoringThreadStarted, monitor, bounds>>

\* ... withdraws it, and pauses if there was one.
PausePosition ==
    /\ pc[Worker] = "pause"
    /\ mPausePositionMilliseconds' = 0
    /\ IF pausePosition # 0
       THEN pipeline_paused' = TRUE /\ mState' = "PAUSED" /\ wanted' = 0
       ELSE UNCHANGED <<pipeline_paused, mState, wanted>>
    /\ Return(Worker)
    /\ UNCHANGED <<mAsyncTuneEnabled, mpStreamAbstractionAAMP, firstFrame,
                   mSeekOperationInProgress, mStreamLock, cmd, sought, retune, reporter,
                   refusedPause, mPausePositionMonitoringThreadStarted, monitor, pausePosition,
                   bounds>>

-----------------------------------------------------------------------------
(* The pause-position monitor (RunPausePositionMonitoring)                 *)

\* The thread reads the position once at its start, and again after every wait.
MonitorRead ==
    /\ mpc \in {"start", "wait"}
    /\ localPauseAt' = mPausePositionMilliseconds
    /\ IF localPauseAt' = 0
       THEN mpc' = "done"
       ELSE mpc' \in IF mpc = "start" THEN {"poll"} ELSE {"poll", "schedule"}
    /\ UNCHANGED <<scheduler, mAsyncTuneEnabled, stream, pipeline_paused, executors, retune,
                   reporter, pause, mPausePositionMonitoringThreadStarted, pausePosition, bounds>>

\* mutant: the monitor ends in a paused player and leaves the position behind.
PollKeepsPosition ==
    /\ mpc = "poll"
    /\ mpc' \in IF pipeline_paused THEN {"done"} ELSE {"wait", "schedule"}
    /\ UNCHANGED <<scheduler, mAsyncTuneEnabled, stream, pipeline_paused, executors, retune,
                   reporter, pause, mPausePositionMonitoringThreadStarted, localPauseAt,
                   pausePosition, bounds>>

\* The head of the loop: it ends when paused, else it waits, or does not for a target
\* already passed.
MonitorPoll ==
    /\ mpc = "poll"
    /\ IF pipeline_paused
       THEN mPausePositionMilliseconds' = 0 /\ mpc' = "done"
       ELSE mpc' \in {"wait", "schedule"} /\ UNCHANGED mPausePositionMilliseconds
    /\ UNCHANGED <<scheduler, mAsyncTuneEnabled, stream, pipeline_paused, executors, retune,
                   reporter, wanted, refusedPause, mPausePositionMonitoringThreadStarted,
                   localPauseAt, pausePosition, bounds>>

\* The position is reached: the task is scheduled, the thread ends.
MonitorSchedule ==
    /\ mpc = "schedule"
    /\ ScheduleTask([name |-> "PausePosition", position |-> localPauseAt])
    /\ refusedPause' = (refusedPause \/ suspended)
    /\ mpc' = "done"
    /\ UNCHANGED <<running, suspended, mAsyncTuneEnabled, stream, pipeline_paused, executors,
                   retune, reporter, mPausePositionMilliseconds, wanted,
                   mPausePositionMonitoringThreadStarted, localPauseAt, pausePosition, bounds>>

-----------------------------------------------------------------------------
(* A thread that asks for a retune (ScheduleRetune)                        *)

\* It reads the state, without a lock; a seek in progress or any state but PLAYING ends it.
Report(error) ==
    /\ rpc = "idle"
    /\ mpStreamAbstractionAAMP
    /\ mState = "PLAYING" \/ error = "buffering"
    /\ ~mSeekOperationInProgress
    /\ reports < MaxReports /\ reports' = reports + 1
    /\ rpc' = "check" /\ errorType' = error
    /\ UNCHANGED <<scheduler, mAsyncTuneEnabled, stream, pipeline_paused, executors, retune,
                   pause, mPausePositionMonitoringThreadStarted, monitor, pausePosition, commands,
                   requests>>

\* Under gMutex: not while a retune is in progress.  An underflow with an empty buffer
\* pauses the pipeline on the way.
ReportCheck ==
    /\ rpc = "check"
    /\ rpc' = IF mIsRetuneInProgress THEN "idle" ELSE "schedule"
    /\ \/ UNCHANGED pipeline_paused
       \/ /\ errorType = "underflow" /\ ~mIsRetuneInProgress
          /\ pipeline_paused' = TRUE
    /\ UNCHANGED <<scheduler, mAsyncTuneEnabled, stream, executors, retune, errorType, pause,
                   mPausePositionMonitoringThreadStarted, monitor, pausePosition, bounds>>

\* mutant: the flag is set before the underflows are counted.
ReportScheduleEarly ==
    /\ rpc = "schedule" /\ rpc' = "idle"
    /\ reTune' = TRUE
    /\ IF reTune THEN UNCHANGED <<mTaskQueue, refusedRetune>>
       ELSE \/ errorType = "underflow" /\ UNCHANGED <<mTaskQueue, refusedRetune>>
            \/ ScheduleTask(Plain("Retune")) /\ refusedRetune' = (refusedRetune \/ suspended)
    /\ UNCHANGED <<running, suspended, mAsyncTuneEnabled, stream, pipeline_paused, executors,
                   mIsRetuneInProgress, errorType, pause, mPausePositionMonitoringThreadStarted,
                   monitor, pausePosition, bounds>>

\* Under gMutex: the flag and the task, whatever ScheduleTask answers; the first underflows
\* are only counted.
ReportSchedule ==
    /\ rpc = "schedule"
    /\ rpc' = "idle"
    /\ \/ /\ reTune \/ errorType = "underflow"
          /\ UNCHANGED <<mTaskQueue, reTune, refusedRetune>>
       \/ /\ ~reTune
          /\ reTune' = TRUE
          /\ ScheduleTask(Plain("Retune"))
          /\ refusedRetune' = (refusedRetune \/ suspended)
    /\ UNCHANGED <<running, suspended, mAsyncTuneEnabled, stream, pipeline_paused, executors,
                   mIsRetuneInProgress, errorType, pause, mPausePositionMonitoringThreadStarted,
                   monitor, pausePosition, bounds>>

-----------------------------------------------------------------------------
Execute(e) ==
    \/ Check(e) \/ Cancel(e) \/ Join(e) \/ PauseAtInternal(e) \/ SetRateInternal(e)
    \/ SeekInternal(e) \/ StopInternal(e) \/ TuneInternal(e) \/ StopRetune(e)
    \/ Teardown(e) \/ TuneHelper(e) \/ TuneDone(e)

AppNext     == SuspendScheduler \/ RemoveAllTasks \/ ResumeScheduler \/ Execute(App)
LoopNext    == SeekAfterPrepared \/ Execute(Loop)
WorkerNext  == StartTask \/ Retune \/ ReadPausePosition \/ PausePosition \/ Execute(Worker)
MonitorNext == MonitorRead \/ MonitorPoll \/ MonitorSchedule
ReportNext  == ReportCheck \/ ReportSchedule

Next ==
    \/ \E name \in Calls : Call(name)
    \/ SeekWhilePreparing
    \/ AppNext \/ WorkerNext \/ LoopNext \/ MonitorNext \/ ReportNext
    \/ \E e \in Executors : WokenByOtherPlayer(e)
    \/ FirstFrame
    \/ \E error \in {"buffering", "underflow", "other"} : Report(error)

\* Every thread that can take a step takes one in the end; nothing is assumed of the
\* application, the sink's callbacks and other players.
Fairness ==
    /\ WF_vars(AppNext) /\ WF_vars(WorkerNext) /\ WF_vars(LoopNext)
    /\ WF_vars(MonitorNext) /\ WF_vars(ReportNext)

Spec     == Init /\ [][Next]_vars
FairSpec == Spec /\ Fairness

-----------------------------------------------------------------------------
(* Properties                                                              *)

Stopping(e) == pc[e] = "teardown"

\* With AsyncTune, Stop never deletes the stream under a tune or a retune, though it does not
\* take the stream lock and looks at reTune only once (priv_aamp.cpp:7112, 7145): its callers
\* hold the execution lock or are tasks themselves.
StopExcludesRetune ==
    mAsyncTuneEnabled =>
        ~ \E e \in {App, Worker} :
              Stopping(e) /\ \E f \in {App, Worker} \ {e} : pc[f] = "tune"

\* A position is set and its monitor thread could not be created.
Unmonitored ==
    mPausePositionMilliseconds # 0 /\ refusedPause /\ ~mPausePositionMonitoringThreadStarted

\* A command that cancels or replaces a PauseAt withdraws its position, wherever the monitor
\* and its task are (StopPausePositionMonitoring): what is set is the position of the request
\* in force, and with AsyncTune no task pauses for any other.  It may do so for the task of
\* an earlier request, see PausesForItsRequest.
CancelledIsWithdrawn ==
    \/ Unmonitored
    \/ /\ mPausePositionMilliseconds \in {0, wanted}
       /\ mAsyncTuneEnabled /\ pc[Worker] = "pause" => pausePosition \in {0, wanted}

\* A position that is set is watched by the monitor or about to be taken by a task, unless
\* the lock-out has refused the task, Stop has cleared it or there is no thread: no PauseAt is
\* just forgotten.
PauseAtIsWatched ==
    mPausePositionMilliseconds # 0 =>
        \/ mpc \notin {None, "done"}
        \/ refusedPause
        \/ running.name = "PausePosition"
        \/ \E i \in DOMAIN mTaskQueue : mTaskQueue[i].name = "PausePosition"

\* reTune, which stops every other request for a retune ("Already scheduled"), is set only
\* while the task is queued or running, unless the lock-out refused it or Stop cleared it.
RetuneIsScheduled ==
    reTune =>
        \/ refusedRetune
        \/ running.name = "Retune"
        \/ \E i \in DOMAIN mTaskQueue : mTaskQueue[i].name = "Retune"

\* Every call of the application returns: it waits for the execution lock, the monitor
\* thread, a retune, the stream lock and the stream's threads.
CallsReturn == pc[App] # "idle" ~> pc[App] = "idle"

\* A pause is made for the request its task was scheduled for: "Any subsequent call to this
\* method will override the previous call" (main_aamp.h:895).
PausesForItsRequest ==
    pc[Worker] = "pause" => pausePosition \in {0, cmd[Worker].position}

\* When Stop of the application returns, the player is stopped (main_aamp.cpp:289).
StopStops == pc[App] = "resume" /\ cmd[App].name = "Stop" => mState \in {"IDLE", "ERROR"}
=============================================================================
