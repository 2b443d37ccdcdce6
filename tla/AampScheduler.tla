--------------------------- MODULE AampScheduler ---------------------------
(***************************************************************************)
(* The asynchronous command scheduler of a player instance                 *)
(* (AampScheduler.cpp).  One worker thread takes tasks from a queue and    *)
(* runs them one at a time; any thread may schedule or remove a task; the  *)
(* application thread suspends, clears, resumes and finally stops it.      *)
(*                                                                         *)
(* Two locks are kept apart, as in the code.  mQMutex protects the queue;  *)
(* a critical section of a thread other than the worker is one step that   *)
(* is enabled while the worker does not hold it (queueLocked = FALSE).     *)
(* mExMutex is the execution lock: the worker holds it while it runs a     *)
(* task, the application thread from SuspendScheduler to ResumeScheduler.  *)
(* mSchedulerRunning and mState are read and written without a lock.       *)
(***************************************************************************)
EXTENDS Naturals, Sequences, SequencesExt

CONSTANTS
    Callers,       \* threads that call ScheduleTask
    IdMax,         \* AAMP_SCHEDULER_ID_MAX_VALUE: task ids are 1 .. IdMax - 1
    MaxTasks,      \* bound: tasks accepted over the life of the scheduler
    MaxSuspends    \* bound: calls of SuspendScheduler

ASSUME IdMaxAssumption == IdMax \in Nat /\ IdMax > 1
ASSUME BoundsAssumption == MaxTasks \in Nat /\ MaxSuspends \in Nat

VARIABLES
    mTaskQueue,         \* tasks waiting, oldest first
    mNextTaskId,        \* id the next task gets
    mCurrentTaskId,     \* id of the last task the worker took, 0 at first
    mSchedulerRunning,
    mLockOut,           \* no task is admitted while it is set
    mState,             \* "ok", or "bad" for eSTATE_ERROR and eSTATE_RELEASED
    queueLocked,        \* the worker holds mQMutex
    exOwner,            \* who holds mExMutex
    wpc,                \* where the worker thread is
    running,            \* the task the worker executes
    apc,                \* where the application thread is
    stopping,           \* the application thread is inside StopScheduler
    cpc,                \* where each caller is inside ScheduleTask
    issued,             \* history: tasks accepted so far
    epoch,              \* history: suspended RemoveAllTasks calls so far
    cleared,            \* history: RemoveAllTasks ran since mLockOut was set
    suspends            \* history: SuspendScheduler calls so far

queueVars == <<mTaskQueue, mNextTaskId, mCurrentTaskId, issued>>
apiVars   == <<apc, stopping, epoch, cleared, suspends>>
flagVars  == <<mSchedulerRunning, mLockOut, mState>>
lockVars  == <<queueLocked, exOwner>>
vars == <<queueVars, apiVars, flagVars, lockVars, wpc, running, cpc>>

-----------------------------------------------------------------------------
InvalidId == 0                              \* AAMP_TASK_ID_INVALID
TaskIds == 1 .. (IdMax - 1)

\* A queued AsyncTaskObj: its id, and (history) the epoch it was accepted in.
Task == [id : TaskIds, epoch : Nat]
NoTask == [id |-> InvalidId, epoch |-> 0]

WorkerPC == {"off", "lock", "guard", "loop", "wait", "wantEx", "wantQ", "exec", "done"}
ApiPC == {"idle", "exHeld", "suspended", "stopClear", "stopResume", "resuming",
          "notify", "join", "joined", "threw"}

\* The application thread owns mExLock in these states.
ApiOwnsEx == apc \in {"exHeld", "suspended", "stopClear", "stopResume", "threw"}

QueueTypes ==
    /\ mTaskQueue \in Seq(Task)
    /\ mNextTaskId \in TaskIds
    /\ mCurrentTaskId \in TaskIds \cup {InvalidId}
    /\ running \in Task \cup {NoTask}
    /\ issued \in Nat /\ epoch \in Nat /\ suspends \in Nat

FlagTypes ==
    /\ mSchedulerRunning \in BOOLEAN /\ mLockOut \in BOOLEAN
    /\ queueLocked \in BOOLEAN /\ stopping \in BOOLEAN /\ cleared \in BOOLEAN

PlaceTypes ==
    /\ mState \in {"ok", "bad"}
    /\ exOwner \in {"none", "worker", "api"}
    /\ wpc \in WorkerPC
    /\ apc \in ApiPC
    /\ cpc \in [Callers -> {"idle", "checked"}]

TypeOK == QueueTypes /\ FlagTypes /\ PlaceTypes

Init ==
    /\ mTaskQueue = <<>>
    /\ mNextTaskId = 1
    /\ mCurrentTaskId = InvalidId
    /\ mSchedulerRunning = FALSE
    /\ mLockOut = FALSE
    /\ mState = "ok"
    /\ queueLocked = FALSE
    /\ exOwner = "none"
    /\ wpc = "off"
    /\ running = NoTask
    /\ apc = "idle"
    /\ stopping = FALSE
    /\ cpc = [c \in Callers |-> "idle"]
    /\ issued = 0
    /\ epoch = 0
    /\ cleared = FALSE
    /\ suspends = 0

\* mutant: the notification is lost
NotifiedNever(pc) == pc

\* mQCond.notify_one(): the worker leaves the wait and goes for mQMutex.
Notified(pc) == IF pc = "wait" THEN "lock" ELSE pc

\* The id after mNextTaskId, which wraps to AAMP_SCHEDULER_ID_DEFAULT.
NextId == IF mNextTaskId + 1 >= IdMax THEN 1 ELSE mNextTaskId + 1

\* mutant: the lock-out is checked with the other flags only, before mQMutex
AdmitsAlways == TRUE

\* ScheduleTask's check under mQMutex.
Admits == ~mLockOut

-----------------------------------------------------------------------------
(* Callers                                                                  *)

\* ScheduleTask up to the lock: both flags are read without mQMutex.
ScheduleCheck(c) ==
    /\ cpc[c] = "idle"
    /\ issued < MaxTasks
    /\ mSchedulerRunning
    /\ mState = "ok"
    /\ cpc' = [cpc EXCEPT ![c] = "checked"]
    /\ UNCHANGED <<queueVars, apiVars, flagVars, lockVars, wpc, running>>

\* ScheduleTask under mQMutex: refused while locked out, else queued and signalled.
SchedulePush(c) ==
    /\ cpc[c] = "checked"
    /\ ~queueLocked
    /\ cpc' = [cpc EXCEPT ![c] = "idle"]
    /\ \/ /\ ~Admits
          /\ UNCHANGED <<queueVars, wpc>>
       \/ /\ Admits
          /\ mTaskQueue' = Append(mTaskQueue, [id |-> mNextTaskId, epoch |-> epoch])
          /\ mNextTaskId' = NextId
          /\ issued' = issued + 1
          /\ wpc' = Notified(wpc)
          /\ UNCHANGED mCurrentTaskId
    /\ UNCHANGED <<apiVars, flagVars, lockVars, running>>

\* RemoveTask: not the current task, and only the first task with that id.
RemoveTask(id) ==
    /\ ~queueLocked
    /\ mCurrentTaskId # id
    /\ \E i \in 1 .. Len(mTaskQueue) :
          /\ mTaskQueue[i].id = id
          /\ \A j \in 1 .. (i - 1) : mTaskQueue[j].id # id
          /\ mTaskQueue' = RemoveAt(mTaskQueue, i)
    /\ UNCHANGED <<mNextTaskId, mCurrentTaskId, issued, apiVars, flagVars, lockVars,
                   wpc, running, cpc>>

\* SetState, from PrivateInstanceAAMP::SetState on any thread.
SetState(s) ==
    /\ mState' = s
    /\ UNCHANGED <<queueVars, apiVars, mSchedulerRunning, mLockOut, lockVars, wpc,
                   running, cpc>>

-----------------------------------------------------------------------------
(* The worker thread                                                        *)

\* Taking queueLock, on entry and when the condition wait returns.
WorkerLock ==
    /\ wpc = "lock"
    /\ ~queueLocked
    /\ queueLocked' = TRUE
    /\ wpc' = "guard"
    /\ UNCHANGED <<queueVars, apiVars, flagVars, exOwner, running, cpc>>

\* while (mSchedulerRunning)
WorkerGuard ==
    /\ wpc = "guard"
    /\ IF mSchedulerRunning
       THEN wpc' = "loop" /\ UNCHANGED queueLocked
       ELSE wpc' = "done" /\ queueLocked' = FALSE
    /\ UNCHANGED <<queueVars, apiVars, flagVars, exOwner, running, cpc>>

\* An empty queue is waited on; otherwise the queue is unlocked to take mExMutex.
WorkerLoop ==
    /\ wpc = "loop"
    /\ wpc' = IF mTaskQueue = <<>> THEN "wait" ELSE "wantEx"
    /\ queueLocked' = FALSE
    /\ UNCHANGED <<queueVars, apiVars, flagVars, exOwner, running, cpc>>

SpuriousWakeup ==
    /\ wpc = "wait"
    /\ wpc' = "lock"
    /\ UNCHANGED <<queueVars, apiVars, flagVars, lockVars, running, cpc>>

\* mutant: the worker does not wait for mExMutex
WorkerTakeExUnlocked ==
    /\ wpc = "wantEx"
    /\ wpc' = "wantQ"
    /\ UNCHANGED <<queueVars, apiVars, flagVars, lockVars, running, cpc>>

\* executionLock(mExMutex)
WorkerTakeEx ==
    /\ wpc = "wantEx"
    /\ exOwner = "none"
    /\ exOwner' = "worker"
    /\ wpc' = "wantQ"
    /\ UNCHANGED <<queueVars, apiVars, flagVars, queueLocked, running, cpc>>

\* mutant: tasks are taken from the back of the queue
NextTaskIndexLast == Len(mTaskQueue)

\* pop_front
NextTaskIndex == 1

\* queueLock.lock(), then pop and either run the task, drop it because of the
\* player state, or find that the queue was emptied while it waited.
WorkerTake ==
    /\ wpc = "wantQ"
    /\ ~queueLocked
    /\ IF mTaskQueue # <<>>
       THEN /\ mTaskQueue' = RemoveAt(mTaskQueue, NextTaskIndex)
            /\ mCurrentTaskId' = mTaskQueue[NextTaskIndex].id
       ELSE UNCHANGED <<mTaskQueue, mCurrentTaskId>>
    /\ IF mTaskQueue # <<>> /\ mState = "ok"
       THEN /\ running' = mTaskQueue[NextTaskIndex]
            /\ wpc' = "exec"
            /\ UNCHANGED lockVars
       ELSE /\ wpc' = "guard"
            /\ queueLocked' = TRUE
            /\ exOwner' = "none"
            /\ UNCHANGED running
    /\ UNCHANGED <<mNextTaskId, issued, apiVars, flagVars, cpc>>

\* The task returns: queueLock.lock(), and executionLock leaves its scope.
WorkerFinish ==
    /\ wpc = "exec"
    /\ ~queueLocked
    /\ queueLocked' = TRUE
    /\ exOwner' = "none"
    /\ running' = NoTask
    /\ wpc' = "guard"
    /\ UNCHANGED <<queueVars, apiVars, flagVars, cpc>>

-----------------------------------------------------------------------------
(* The application thread                                                   *)

\* StartScheduler: the thread is created before the flag is set, both under mQMutex.
StartScheduler ==
    /\ wpc = "off"
    /\ ~queueLocked
    /\ wpc' = "lock"
    /\ mSchedulerRunning' = TRUE
    /\ UNCHANGED <<queueVars, apiVars, mLockOut, mState, lockVars, running, cpc>>

\* SuspendScheduler, first half: mExLock.lock() waits for a running task.
SuspendTakeEx ==
    /\ apc = "idle"
    /\ wpc # "off"
    /\ stopping \/ suspends < MaxSuspends
    /\ exOwner = "none"
    /\ exOwner' = "api"
    /\ suspends' = suspends + 1
    /\ apc' = "exHeld"
    /\ UNCHANGED <<queueVars, stopping, epoch, cleared, flagVars, queueLocked, wpc,
                   running, cpc>>

\* SuspendScheduler, second half.
SuspendLockOut ==
    /\ apc = "exHeld"
    /\ ~queueLocked
    /\ mLockOut' = TRUE
    /\ cleared' = FALSE
    /\ apc' = IF stopping THEN "stopClear" ELSE "suspended"
    /\ UNCHANGED <<queueVars, stopping, epoch, suspends, mSchedulerRunning, mState,
                   lockVars, wpc, running, cpc>>

\* RemoveAllTasks; an active task may go on when the scheduler is not suspended.
RemoveAllTasks ==
    /\ apc \in {"idle", "suspended", "stopClear"}
    /\ apc = "idle" => ~stopping
    /\ ~queueLocked
    /\ mTaskQueue' = <<>>
    /\ apc' = IF apc = "stopClear" THEN "stopResume" ELSE apc
    /\ IF apc = "idle"
       THEN mTaskQueue # <<>> /\ UNCHANGED <<epoch, cleared>>
       ELSE (apc = "suspended" => ~cleared) /\ epoch' = epoch + 1 /\ cleared' = TRUE
    /\ UNCHANGED <<mNextTaskId, mCurrentTaskId, issued, stopping, suspends, flagVars,
                   lockVars, wpc, running, cpc>>

\* mutant: StopScheduler without ResumeScheduler (the deadlock of DELIA-57122)
ResumeKeepsEx ==
    /\ apc \in {"suspended", "stopResume"}
    /\ exOwner' = IF stopping THEN exOwner ELSE "none"
    /\ apc' = "resuming"
    /\ UNCHANGED <<queueVars, stopping, epoch, cleared, suspends, flagVars, queueLocked,
                   wpc, running, cpc>>

\* ResumeScheduler, first half: mExLock.unlock().
ResumeReleaseEx ==
    /\ apc \in {"suspended", "stopResume"}
    /\ exOwner' = "none"
    /\ apc' = "resuming"
    /\ UNCHANGED <<queueVars, stopping, epoch, cleared, suspends, flagVars, queueLocked,
                   wpc, running, cpc>>

\* ResumeScheduler, second half.
ResumeUnlock ==
    /\ apc = "resuming"
    /\ ~queueLocked
    /\ mLockOut' = FALSE
    /\ apc' = IF stopping THEN "notify" ELSE "idle"
    /\ UNCHANGED <<queueVars, stopping, epoch, cleared, suspends, mSchedulerRunning,
                   mState, lockVars, wpc, running, cpc>>

\* EnableScheduleTask (no caller in the player): admits tasks while suspended.
EnableScheduleTask ==
    /\ apc = "suspended"
    /\ mLockOut
    /\ ~queueLocked
    /\ mLockOut' = FALSE
    /\ UNCHANGED <<queueVars, apiVars, mSchedulerRunning, mState, lockVars, wpc,
                   running, cpc>>

\* StopScheduler: the flag is cleared without mQMutex, then the scheduler is
\* suspended unless it is locked out already.  Taking mExLock twice throws.
StopScheduler ==
    /\ apc \in {"idle", "suspended"}
    /\ wpc # "off"
    /\ ~stopping
    /\ mSchedulerRunning' = FALSE
    /\ stopping' = TRUE
    /\ apc' = IF mLockOut THEN "stopClear"
              ELSE IF apc = "suspended" THEN "threw" ELSE "idle"
    /\ UNCHANGED <<queueVars, epoch, cleared, suspends, mLockOut, mState, lockVars, wpc,
                   running, cpc>>

\* The last notify_one of StopScheduler, outside mQMutex.
StopNotify ==
    /\ apc = "notify"
    /\ wpc' = Notified(wpc)
    /\ apc' = "join"
    /\ UNCHANGED <<queueVars, stopping, epoch, cleared, suspends, flagVars, lockVars,
                   running, cpc>>

StopJoin ==
    /\ apc = "join"
    /\ wpc = "done"
    /\ apc' = "joined"
    /\ UNCHANGED <<queueVars, stopping, epoch, cleared, suspends, flagVars, lockVars,
                   wpc, running, cpc>>

-----------------------------------------------------------------------------
Worker ==
    \/ WorkerLock \/ WorkerGuard \/ WorkerLoop \/ WorkerTakeEx \/ WorkerTake
    \/ WorkerFinish

Caller(c) == ScheduleCheck(c) \/ SchedulePush(c)

\* The steps the application thread takes once it has begun an operation.
ApiContinue ==
    \/ (stopping /\ SuspendTakeEx) \/ SuspendLockOut
    \/ (stopping /\ RemoveAllTasks) \/ ResumeReleaseEx \/ ResumeUnlock
    \/ StopNotify \/ StopJoin

Api ==
    \/ StartScheduler \/ SuspendTakeEx \/ SuspendLockOut \/ RemoveAllTasks
    \/ ResumeReleaseEx \/ ResumeUnlock \/ EnableScheduleTask \/ StopScheduler
    \/ StopNotify \/ StopJoin

Next ==
    \/ Worker
    \/ SpuriousWakeup
    \/ Api
    \/ \E c \in Callers : Caller(c)
    \/ \E id \in TaskIds : RemoveTask(id)
    \/ \E s \in {"ok", "bad"} : SetState(s)

Spec == Init /\ [][Next]_vars

\* The threads are scheduled; a suspended scheduler is resumed in the end
\* (PlayerInstanceAAMP::Stop and detach always call ResumeScheduler).
Fairness ==
    /\ WF_vars(Worker)
    /\ WF_vars(ApiContinue)
    /\ \A c \in Callers : WF_vars(SchedulePush(c))

FairSpec == Spec /\ Fairness

-----------------------------------------------------------------------------
(* Properties                                                               *)

\* While the application thread owns the execution lock no task is running:
\* SuspendScheduler waited for the active one and the worker takes none.
NoTaskWhileSuspended == ApiOwnsEx => wpc # "exec"

\* A task that was queued when a suspended RemoveAllTasks cleared the queue
\* never runs afterwards (DELIA-57121: the worker must not hold a task that is
\* out of the queue and that RemoveAllTasks cannot delete).
ClearedTasksNeverRun == wpc = "exec" => running.epoch = epoch

\* Once cleared under lock-out the queue stays empty until tasks are admitted
\* again, although callers pass the unlocked checks of ScheduleTask meanwhile.
ClearedQueueStaysEmpty == mLockOut /\ cleared => mTaskQueue = <<>>

\* No notification is lost: a queue with tasks in it is emptied in the end (the
\* tasks are executed, dropped, removed or cleared), unless the scheduler stops.
QueueIsServed == (mTaskQueue # <<>>) ~> (mTaskQueue = <<>> \/ stopping)

\* The scheduler implements SerialExecutor: tasks start in the order in which
\* ScheduleTask accepted them, one at a time and never while mExLock is held.
Executor == INSTANCE SerialExecutor WITH
    queue <- mTaskQueue, active <- running, suspended <- (exOwner = "api")

ImplementsSerialExecutor == Executor!Spec

\* StopScheduler returns: the worker sees the flag, is woken and joined.
StopTerminates == stopping ~> (apc \in {"joined", "threw"})
=============================================================================
