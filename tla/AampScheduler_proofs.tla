------------------------ MODULE AampScheduler_proofs ------------------------
(***************************************************************************)
(* Safety of the command scheduler for any number of callers, any limit of *)
(* the task ids and any number of tasks and suspensions.                   *)
(***************************************************************************)
EXTENDS AampScheduler, SequenceTheorems, TLAPS

-----------------------------------------------------------------------------
(* Removal from the queue.                                                  *)

\* The elements in front of i stay, those behind it move up by one: an erase from
\* mTaskQueue (AampScheduler.cpp, RemoveTask).
LEMMA RemoveAtSeq ==
    ASSUME NEW S, NEW s \in Seq(S), NEW i \in 1 .. Len(s)
    PROVE  /\ RemoveAt(s, i) \in Seq(S)
           /\ Len(RemoveAt(s, i)) = Len(s) - 1
           /\ \A k \in 1 .. Len(RemoveAt(s, i)) :
                 RemoveAt(s, i)[k] = s[IF k < i THEN k ELSE k + 1]
<1> DEFINE a == SubSeq(s, 1, i - 1)
           b == SubSeq(s, i + 1, Len(s))
<1>0. Len(s) \in Nat /\ i \in Nat /\ 1 <= i /\ i <= Len(s)
  BY LenProperties
<1>1. /\ a \in Seq(S)
      /\ Len(a) = i - 1
      /\ \A k \in 1 .. i - 1 : a[k] = s[k]
  BY <1>0
<1>2. /\ b \in Seq(S)
      /\ Len(b) = Len(s) - i
      /\ \A k \in 1 .. Len(s) - i : b[k] = s[i + k]
  BY <1>0
<1> HIDE DEF a, b
<1>3. /\ a \o b \in Seq(S)
      /\ Len(a \o b) = Len(a) + Len(b)
      /\ \A k \in 1 .. Len(a) + Len(b) :
            (a \o b)[k] = IF k <= Len(a) THEN a[k] ELSE b[k - Len(a)]
  BY <1>1, <1>2, ConcatProperties
<1>4. RemoveAt(s, i) = a \o b
  BY DEF RemoveAt, a, b
<1>5. ASSUME NEW k \in 1 .. Len(s) - 1
      PROVE  (a \o b)[k] = s[IF k < i THEN k ELSE k + 1]
  <2>1. CASE k < i
    BY <2>1, <1>0, <1>1, <1>2, <1>3
  <2>2. CASE ~(k < i)
    <3>1. /\ k - (i - 1) \in 1 .. Len(s) - i
          /\ i + (k - (i - 1)) = k + 1
      BY <2>2, <1>0
    <3>2. (a \o b)[k] = b[k - (i - 1)]
      BY <2>2, <1>0, <1>1, <1>2, <1>3
    <3> QED  BY <2>2, <3>1, <3>2, <1>2
  <2> QED  BY <2>1, <2>2
<1>6. Len(a \o b) = Len(s) - 1
  BY <1>0, <1>1, <1>2, <1>3
<1> QED  BY <1>3, <1>4, <1>5, <1>6

LEMMA RemoveFirstIsTail ==
    ASSUME NEW S, NEW s \in Seq(S), s # <<>>
    PROVE  RemoveAt(s, 1) = Tail(s) /\ s[1] = Head(s) /\ s[1] \in S
<1>1. Tail(s) \in Seq(S) /\ Len(Tail(s)) = Len(s) - 1 /\ Len(s) \in Nat /\ Len(s) >= 1
  OBVIOUS
<1>2. /\ RemoveAt(s, 1) \in Seq(S)
      /\ Len(RemoveAt(s, 1)) = Len(s) - 1
      /\ \A k \in 1 .. Len(RemoveAt(s, 1)) :
            RemoveAt(s, 1)[k] = s[IF k < 1 THEN k ELSE k + 1]
  <2>1. 1 \in 1 .. Len(s)
    BY <1>1
  <2> QED  BY <2>1, RemoveAtSeq
<1>3. ASSUME NEW k \in 1 .. Len(s) - 1
      PROVE  RemoveAt(s, 1)[k] = Tail(s)[k]
  <2>1. RemoveAt(s, 1)[k] = s[k + 1]
    BY <1>1, <1>2
  <2> QED  BY <2>1, <1>1
<1>4. RemoveAt(s, 1) = Tail(s)
  BY <1>1, <1>2, <1>3, SeqEqual
<1> QED  BY <1>4

-----------------------------------------------------------------------------
(* Type correctness: in particular ids stay below IdMax and above the       *)
(* invalid id, although mNextTaskId wraps.                                  *)

LEMMA TypeStep ==
    ASSUME TypeOK, [Next]_vars
    PROVE  TypeOK'
<1> USE DEF queueVars, apiVars, flagVars, lockVars
<1> DEFINE Other ==
      \/ SpuriousWakeup \/ Api \/ (\E s \in {"ok", "bad"} : SetState(s))
      \/ WorkerLock \/ WorkerGuard \/ WorkerLoop \/ WorkerTakeEx \/ WorkerFinish
      \/ UNCHANGED vars
<1>1. QueueTypes'
  <2> USE DEF TypeOK, QueueTypes
  <2>1. CASE WorkerTake
    <3>1. CASE mTaskQueue = <<>>
      BY <2>1, <3>1 DEF WorkerTake
    <3>2. CASE mTaskQueue # <<>>
      <4>1. /\ RemoveAt(mTaskQueue, 1) \in Seq(Task)
            /\ mTaskQueue[1] \in Task
        <5>1. 1 \in 1 .. Len(mTaskQueue)
          BY <3>2
        <5> QED  BY <3>2, <5>1, RemoveAtSeq, RemoveFirstIsTail
      <4>2. mTaskQueue[1].id \in TaskIds
        BY <4>1 DEF Task
      <4> QED  BY <2>1, <3>2, <4>1, <4>2 DEF WorkerTake, NextTaskIndex
    <3> QED  BY <3>1, <3>2
  <2>2. ASSUME NEW c \in Callers, SchedulePush(c) PROVE QueueTypes'
    <3>1. NextId \in TaskIds
      BY IdMaxAssumption DEF NextId, TaskIds
    <3>2. [id |-> mNextTaskId, epoch |-> epoch] \in Task
      BY DEF Task
    <3>3. Append(mTaskQueue, [id |-> mNextTaskId, epoch |-> epoch]) \in Seq(Task)
      BY <3>2, AppendProperties
    <3>4. UNCHANGED <<mCurrentTaskId, running, epoch, suspends>>
      BY <2>2 DEF SchedulePush
    <3>5. CASE ~Admits
      BY <2>2, <3>5 DEF SchedulePush
    <3>6. CASE Admits
      <4>1. /\ mTaskQueue' = Append(mTaskQueue, [id |-> mNextTaskId, epoch |-> epoch])
            /\ mNextTaskId' = NextId
            /\ issued' = issued + 1
        BY <2>2, <3>6 DEF SchedulePush
      <4> QED  BY <3>1, <3>3, <3>4, <4>1
    <3> QED  BY <3>5, <3>6
  <2>3. ASSUME NEW id \in TaskIds, RemoveTask(id) PROVE QueueTypes'
    <3>1. PICK i \in 1 .. Len(mTaskQueue) : mTaskQueue' = RemoveAt(mTaskQueue, i)
      BY <2>3, Zenon DEF RemoveTask
    <3>2. RemoveAt(mTaskQueue, i) \in Seq(Task)
      BY RemoveAtSeq
    <3>3. mTaskQueue' \in Seq(Task)
      BY <3>1, <3>2
    <3>4. UNCHANGED <<mNextTaskId, mCurrentTaskId, running, issued, epoch, suspends>>
      BY <2>3 DEF RemoveTask
    <3> QED  BY <3>3, <3>4
  <2>4. ASSUME NEW c \in Callers, ScheduleCheck(c) PROVE QueueTypes'
    BY <2>4 DEF ScheduleCheck
  <2>5. CASE Other
    <3>1. CASE Api
      <4>1. <<>> \in Seq(Task)
        OBVIOUS
      <4>2. CASE SuspendTakeEx
        BY <4>2 DEF SuspendTakeEx
      <4>3. CASE RemoveAllTasks
        BY <4>1, <4>3 DEF RemoveAllTasks
      <4>4. CASE Api /\ ~SuspendTakeEx /\ ~RemoveAllTasks
        BY <4>4 DEF Api, StartScheduler, SuspendLockOut, ResumeReleaseEx, ResumeUnlock,
           EnableScheduleTask, StopScheduler, StopNotify, StopJoin
      <4> QED  BY <3>1, <4>2, <4>3, <4>4
    <3>2. CASE Other /\ ~Api
      BY <3>2 DEF SpuriousWakeup, SetState, WorkerLock, WorkerGuard, WorkerLoop,
         WorkerTakeEx, WorkerFinish, vars
    <3> QED  BY <2>5, <3>1, <3>2
  <2> QED  BY <2>1, <2>2, <2>3, <2>4, <2>5 DEF Next, Worker, Caller
<1>2. FlagTypes'
  BY DEF TypeOK, FlagTypes, Next, Worker, Caller, Api, SpuriousWakeup, SetState,
     ScheduleCheck, SchedulePush, RemoveTask, WorkerLock, WorkerGuard, WorkerLoop,
     WorkerTake, WorkerTakeEx, WorkerFinish, StartScheduler, SuspendTakeEx,
     SuspendLockOut, RemoveAllTasks, ResumeReleaseEx, ResumeUnlock, EnableScheduleTask,
     StopScheduler, StopNotify, StopJoin, vars
<1>3. PlaceTypes'
  BY DEF TypeOK, PlaceTypes, WorkerPC, ApiPC, Notified, Next, Worker, Caller, Api,
     SpuriousWakeup, SetState, ScheduleCheck, SchedulePush, RemoveTask, WorkerLock,
     WorkerGuard, WorkerLoop, WorkerTake, WorkerTakeEx, WorkerFinish, StartScheduler,
     SuspendTakeEx, SuspendLockOut, RemoveAllTasks, ResumeReleaseEx, ResumeUnlock,
     EnableScheduleTask, StopScheduler, StopNotify, StopJoin, vars
<1> QED  BY <1>1, <1>2, <1>3 DEF TypeOK

THEOREM TypeCorrect == Spec => []TypeOK
<1>1. Init => QueueTypes
  BY IdMaxAssumption DEF Init, QueueTypes, TaskIds, InvalidId
<1>2. Init => FlagTypes
  BY DEF Init, FlagTypes
<1>3. Init => PlaceTypes
  BY DEF Init, PlaceTypes, WorkerPC, ApiPC
<1>4. Init => TypeOK
  BY <1>1, <1>2, <1>3 DEF TypeOK
<1> QED  BY <1>4, TypeStep, PTL DEF Spec

-----------------------------------------------------------------------------
(* Who holds which lock follows from where the two threads are, and the     *)
(* lock-out is set only between Suspend and the second half of Resume.      *)
LockInv ==
    /\ exOwner = "worker" <=> wpc \in {"wantQ", "exec"}
    /\ exOwner = "api" <=> ApiOwnsEx
    /\ mLockOut => apc \in {"suspended", "stopClear", "stopResume", "resuming"}

(* Every queued task, and the one that runs, was accepted after the last    *)
(* suspended RemoveAllTasks; there is a running task exactly while the      *)
(* worker executes.                                                         *)
EpochInv ==
    /\ \A i \in 1 .. Len(mTaskQueue) : mTaskQueue[i].epoch = epoch
    /\ IF wpc = "exec" THEN running.epoch = epoch /\ running # NoTask ELSE running = NoTask

LEMMA LockStep ==
    ASSUME TypeOK, LockInv, [Next]_vars
    PROVE  LockInv'
<1> USE DEF LockInv, ApiOwnsEx, queueVars, apiVars, flagVars, lockVars
<1>0. /\ exOwner \in {"none", "worker", "api"}
      /\ wpc \in WorkerPC
      /\ apc \in ApiPC
  BY DEF TypeOK, PlaceTypes
<1>1. CASE Worker
  BY <1>0, <1>1 DEF Worker, WorkerLock, WorkerGuard, WorkerLoop, WorkerTakeEx, WorkerTake,
     WorkerFinish
<1>2. CASE SuspendTakeEx
  BY <1>0, <1>2 DEF SuspendTakeEx
<1>3. CASE SuspendLockOut
  BY <1>0, <1>3 DEF SuspendLockOut
<1>4. CASE RemoveAllTasks
  BY <1>0, <1>4 DEF RemoveAllTasks
<1>5. CASE ResumeReleaseEx
  BY <1>0, <1>5 DEF ResumeReleaseEx
<1>6. CASE ResumeUnlock
  BY <1>0, <1>6 DEF ResumeUnlock
<1>7. CASE EnableScheduleTask
  BY <1>0, <1>7 DEF EnableScheduleTask
<1>8. CASE StopScheduler
  BY <1>0, <1>8 DEF StopScheduler
<1>9. CASE StopNotify \/ StopJoin \/ StartScheduler \/ SpuriousWakeup
  BY <1>0, <1>9 DEF StopNotify, StopJoin, StartScheduler, SpuriousWakeup, Notified
<1>10. ASSUME NEW c \in Callers, Caller(c) PROVE LockInv'
  BY <1>0, <1>10 DEF Caller, ScheduleCheck, SchedulePush, Notified
<1>11. ASSUME NEW id \in TaskIds, RemoveTask(id) PROVE LockInv'
  BY <1>11 DEF RemoveTask
<1>12. ASSUME NEW s \in {"ok", "bad"}, SetState(s) PROVE LockInv'
  BY <1>12 DEF SetState
<1>13. CASE UNCHANGED vars
  BY <1>13 DEF vars
<1> QED
  BY <1>1, <1>2, <1>3, <1>4, <1>5, <1>6, <1>7, <1>8, <1>9, <1>10, <1>11, <1>12, <1>13
     DEF Next, Api
LEMMA EpochStep ==
    ASSUME TypeOK, LockInv, EpochInv, [Next]_vars
    PROVE  EpochInv'
<1> USE DEF queueVars, apiVars, flagVars, lockVars
<1>0. /\ mTaskQueue \in Seq(Task)
      /\ epoch \in Nat
      /\ wpc \in WorkerPC
  BY DEF TypeOK, QueueTypes, PlaceTypes
<1>1. CASE WorkerTake
  <2>1. CASE mTaskQueue = <<>>
    BY <1>1, <2>1 DEF WorkerTake, EpochInv
  <2>2. CASE mTaskQueue # <<>>
    <3>1. 1 \in 1 .. Len(mTaskQueue)
      BY <1>0, <2>2
    <3>2. /\ RemoveAt(mTaskQueue, 1) \in Seq(Task)
          /\ Len(RemoveAt(mTaskQueue, 1)) = Len(mTaskQueue) - 1
          /\ \A k \in 1 .. Len(RemoveAt(mTaskQueue, 1)) :
                RemoveAt(mTaskQueue, 1)[k] = mTaskQueue[IF k < 1 THEN k ELSE k + 1]
      BY <1>0, <3>1, RemoveAtSeq
    <3>3. mTaskQueue' = RemoveAt(mTaskQueue, 1) /\ epoch' = epoch
      BY <1>1, <2>2 DEF WorkerTake, NextTaskIndex
    <3>4. \A i \in 1 .. Len(mTaskQueue') : mTaskQueue'[i].epoch = epoch'
      BY <1>0, <3>2, <3>3 DEF EpochInv
    <3>5. mTaskQueue[1].epoch = epoch
      BY <3>1 DEF EpochInv
    <3>6. mTaskQueue[1] # NoTask
      <4>1. mTaskQueue[1] \in Task
        BY <1>0, <2>2, RemoveFirstIsTail
      <4>2. mTaskQueue[1].id # 0
        BY <4>1, IdMaxAssumption DEF Task, TaskIds
      <4> QED  BY <4>2 DEF NoTask, InvalidId
    <3>7. CASE mState = "ok"
      BY <1>1, <2>2, <3>3, <3>4, <3>5, <3>6, <3>7 DEF WorkerTake, NextTaskIndex, EpochInv
    <3>8. CASE mState # "ok"
      BY <1>1, <2>2, <3>3, <3>4, <3>8 DEF WorkerTake, EpochInv
    <3> QED  BY <3>7, <3>8
  <2> QED  BY <2>1, <2>2
<1>2. CASE WorkerLock \/ WorkerGuard \/ WorkerLoop \/ WorkerTakeEx \/ WorkerFinish
  BY <1>2 DEF WorkerLock, WorkerGuard, WorkerLoop, WorkerTakeEx, WorkerFinish, EpochInv
<1>3. CASE RemoveAllTasks
  <2>1. mTaskQueue' = <<>> /\ UNCHANGED <<wpc, running>>
    BY <1>3 DEF RemoveAllTasks
  <2>2. wpc = "exec" => epoch' = epoch
    <3>1. wpc = "exec" => apc \notin {"suspended", "stopClear"}
      BY DEF LockInv, ApiOwnsEx
    <3> QED  BY <1>3, <3>1 DEF RemoveAllTasks
  <2> QED  BY <2>1, <2>2 DEF EpochInv
<1>4. CASE Api /\ ~RemoveAllTasks
  BY <1>4 DEF Api, StartScheduler, SuspendTakeEx, SuspendLockOut, ResumeReleaseEx,
     ResumeUnlock, EnableScheduleTask, StopScheduler, StopNotify, StopJoin, Notified,
     EpochInv
<1>5. ASSUME NEW c \in Callers, SchedulePush(c) PROVE EpochInv'
  <2>0. (wpc' = "exec" <=> wpc = "exec") /\ UNCHANGED <<running, epoch>>
    BY <1>5 DEF SchedulePush, Notified
  <2>1. CASE ~Admits
    BY <1>5, <2>0, <2>1 DEF SchedulePush, EpochInv
  <2>2. CASE Admits
    <3> DEFINE t == [id |-> mNextTaskId, epoch |-> epoch]
    <3>1. mTaskQueue' = Append(mTaskQueue, t)
      BY <1>5, <2>2 DEF SchedulePush
    <3>2. t.epoch = epoch
      OBVIOUS
    <3> HIDE DEF t
    <3>3. \A i \in 1 .. Len(mTaskQueue') : mTaskQueue'[i].epoch = epoch
      BY <1>0, <3>1, <3>2 DEF EpochInv
    <3> QED  BY <2>0, <3>3 DEF EpochInv
  <2> QED  BY <2>1, <2>2
<1>6. ASSUME NEW id \in TaskIds, RemoveTask(id) PROVE EpochInv'
  <2>1. PICK i \in 1 .. Len(mTaskQueue) : mTaskQueue' = RemoveAt(mTaskQueue, i)
    BY <1>6, Zenon DEF RemoveTask
  <2>2. /\ Len(RemoveAt(mTaskQueue, i)) = Len(mTaskQueue) - 1
        /\ \A k \in 1 .. Len(RemoveAt(mTaskQueue, i)) :
              RemoveAt(mTaskQueue, i)[k] = mTaskQueue[IF k < i THEN k ELSE k + 1]
    BY <1>0, RemoveAtSeq
  <2>3. \A k \in 1 .. Len(mTaskQueue') : mTaskQueue'[k].epoch = epoch
    BY <1>0, <2>1, <2>2 DEF EpochInv
  <2>4. UNCHANGED <<wpc, running, epoch>>
    BY <1>6 DEF RemoveTask
  <2> QED  BY <2>3, <2>4 DEF EpochInv
<1>7. CASE SpuriousWakeup \/ (\E s \in {"ok", "bad"} : SetState(s)) \/ UNCHANGED vars
  BY <1>7 DEF SpuriousWakeup, SetState, vars, EpochInv
<1>8. ASSUME NEW c \in Callers, ScheduleCheck(c) PROVE EpochInv'
  BY <1>8 DEF ScheduleCheck, EpochInv
<1> QED
  BY <1>1, <1>2, <1>3, <1>4, <1>5, <1>6, <1>7, <1>8 DEF Next, Worker, Api, Caller

-----------------------------------------------------------------------------
IInv == TypeOK /\ LockInv /\ EpochInv

LEMMA Invariance == Spec => []IInv
<1>1. Init => LockInv /\ EpochInv
  BY DEF Init, LockInv, EpochInv, ApiOwnsEx, NoTask
<1>2. IInv /\ [Next]_vars => IInv'
  BY TypeStep, LockStep, EpochStep DEF IInv
<1>3. Spec => []TypeOK
  BY TypeCorrect
<1>4. LockInv /\ EpochInv /\ TypeOK => IInv
  BY DEF IInv
<1> QED  BY <1>1, <1>2, <1>3, <1>4, PTL DEF Spec

(* SuspendScheduler returns only between tasks, and none starts before the  *)
(* execution lock is given back.                                            *)
THEOREM SuspendExcludesTasks == Spec => []NoTaskWhileSuspended
<1>1. IInv => NoTaskWhileSuspended
  BY DEF IInv, LockInv, NoTaskWhileSuspended
<1> QED  BY <1>1, Invariance, PTL

(* The guarantee DELIA-57121 asked for.                                     *)
THEOREM ClearedTasksAreGone == Spec => []ClearedTasksNeverRun
<1>1. IInv => ClearedTasksNeverRun
  BY DEF IInv, EpochInv, ClearedTasksNeverRun
<1> QED  BY <1>1, Invariance, PTL

(* Callers that passed the unlocked checks do not get a task into a queue   *)
(* that was cleared under lock-out.                                         *)
THEOREM ClearedStaysEmpty == Spec => []ClearedQueueStaysEmpty
<1> USE DEF queueVars, apiVars, flagVars, lockVars
<1>1. Init => ClearedQueueStaysEmpty
  BY DEF Init, ClearedQueueStaysEmpty
<1>2. ASSUME IInv, ClearedQueueStaysEmpty, [Next]_vars
      PROVE  ClearedQueueStaysEmpty'
  <2>1. CASE Worker
    BY <1>2, <2>1 DEF Worker, WorkerLock, WorkerGuard, WorkerLoop, WorkerTakeEx, WorkerTake,
       WorkerFinish, ClearedQueueStaysEmpty
  <2>2. CASE Api
    BY <1>2, <2>2 DEF Api, StartScheduler, SuspendTakeEx, SuspendLockOut, RemoveAllTasks,
       ResumeReleaseEx, ResumeUnlock, EnableScheduleTask, StopScheduler, StopNotify,
       StopJoin, ClearedQueueStaysEmpty
  <2>3. ASSUME NEW c \in Callers, Caller(c) PROVE ClearedQueueStaysEmpty'
    BY <1>2, <2>3 DEF Caller, ScheduleCheck, SchedulePush, Admits, ClearedQueueStaysEmpty
  <2>4. ASSUME NEW id \in TaskIds, RemoveTask(id) PROVE ClearedQueueStaysEmpty'
    <3>1. mTaskQueue # <<>>
      BY <1>2, <2>4 DEF RemoveTask
    <3> QED  BY <1>2, <2>4, <3>1 DEF RemoveTask, ClearedQueueStaysEmpty
  <2>5. CASE SpuriousWakeup \/ (\E s \in {"ok", "bad"} : SetState(s)) \/ UNCHANGED vars
    BY <1>2, <2>5 DEF SpuriousWakeup, SetState, vars, ClearedQueueStaysEmpty
  <2> QED  BY <1>2, <2>1, <2>2, <2>3, <2>4, <2>5 DEF Next
<1> QED  BY <1>1, <1>2, Invariance, PTL DEF Spec
-----------------------------------------------------------------------------
(* The scheduler implements the serial executor: the worker's last step     *)
(* before a task is Start, its failed takes and RemoveTask are Withdraw,    *)
(* and everything the threads do about locks and waiting is stuttering.     *)

LEMMA RefinementStep ==
    ASSUME IInv, [Next]_vars
    PROVE  [Executor!Next]_(Executor!vars)
<1> USE DEF queueVars, apiVars, flagVars, lockVars, Executor!vars
<1>0. /\ mTaskQueue \in Seq(Task)
      /\ exOwner \in {"none", "worker", "api"}
      /\ wpc # "exec" => running = NoTask
      /\ exOwner = "worker" <=> wpc \in {"wantQ", "exec"}
  BY DEF IInv, TypeOK, QueueTypes, PlaceTypes, EpochInv, LockInv
<1>1. CASE WorkerTake
  <2>1. CASE mTaskQueue = <<>>
    <3>1. UNCHANGED <<mTaskQueue, running>> /\ exOwner' = "none" /\ exOwner = "worker"
      BY <1>0, <1>1, <2>1 DEF WorkerTake
    <3> QED  BY <3>1
  <2>2. CASE mTaskQueue # <<>>
    <3>1. /\ mTaskQueue' = Tail(mTaskQueue)
          /\ mTaskQueue[1] = Head(mTaskQueue)
          /\ RemoveAt(mTaskQueue, 1) = mTaskQueue'
          /\ 1 \in 1 .. Len(mTaskQueue)
      BY <1>0, <1>1, <2>2, RemoveFirstIsTail DEF WorkerTake, NextTaskIndex
    <3>2. exOwner = "worker" /\ running = NoTask
      BY <1>0, <1>1 DEF WorkerTake
    <3>3. CASE mState = "ok"
      <4>1. running' = Head(mTaskQueue) /\ UNCHANGED exOwner
        BY <1>1, <2>2, <3>1, <3>3 DEF WorkerTake, NextTaskIndex
      <4>2. Executor!Start
        BY <2>2, <3>1, <3>2, <4>1 DEF Executor!Start
      <4> QED  BY <4>2 DEF Executor!Next
    <3>4. CASE mState # "ok"
      <4>1. exOwner' = "none" /\ UNCHANGED running
        BY <1>1, <2>2, <3>4 DEF WorkerTake
      <4>2. Executor!Withdraw
        BY <3>1, <3>2, <4>1 DEF Executor!Withdraw, Executor!RemoveAt, RemoveAt
      <4> QED  BY <4>2 DEF Executor!Next
    <3> QED  BY <3>3, <3>4
  <2> QED  BY <2>1, <2>2
<1>2. CASE WorkerFinish
  <2>1. running' = NoTask /\ UNCHANGED mTaskQueue /\ exOwner' = "none" /\ exOwner = "worker"
    BY <1>0, <1>2 DEF WorkerFinish
  <2>2. Executor!Finish
    BY <2>1 DEF Executor!Finish
  <2> QED  BY <2>2 DEF Executor!Next
<1>3. CASE WorkerTakeEx
  <2>1. UNCHANGED <<mTaskQueue, running>> /\ exOwner' = "worker" /\ exOwner = "none"
    BY <1>3 DEF WorkerTakeEx
  <2> QED  BY <2>1
<1>4. CASE SuspendTakeEx
  <2>1. UNCHANGED <<mTaskQueue, running>> /\ exOwner' = "api" /\ exOwner = "none"
    BY <1>4 DEF SuspendTakeEx
  <2>2. running = NoTask
    BY <1>0, <2>1
  <2>3. Executor!Suspend
    BY <2>1, <2>2 DEF Executor!Suspend
  <2> QED  BY <2>3 DEF Executor!Next
<1>5. CASE ResumeReleaseEx
  <2>1. UNCHANGED <<mTaskQueue, running>> /\ exOwner' = "none"
    BY <1>5 DEF ResumeReleaseEx
  <2>2. Executor!Resume
    BY <2>1 DEF Executor!Resume
  <2> QED  BY <2>2 DEF Executor!Next
<1>6. CASE RemoveAllTasks
  <2>1. mTaskQueue' = <<>> /\ UNCHANGED <<running, exOwner>>
    BY <1>6 DEF RemoveAllTasks
  <2>2. Executor!Clear
    BY <2>1 DEF Executor!Clear
  <2> QED  BY <2>2 DEF Executor!Next
<1>7. ASSUME NEW c \in Callers, SchedulePush(c) PROVE [Executor!Next]_(Executor!vars)
  <2>0. UNCHANGED <<running, exOwner>>
    BY <1>7 DEF SchedulePush
  <2>1. CASE ~Admits
    BY <1>7, <2>0, <2>1 DEF SchedulePush
  <2>2. CASE Admits
    <3> DEFINE t == [id |-> mNextTaskId, epoch |-> epoch]
    <3>1. mTaskQueue' = Append(mTaskQueue, t)
      BY <1>7, <2>2 DEF SchedulePush
    <3>2. t \in Task
      BY DEF IInv, TypeOK, QueueTypes, Task
    <3> HIDE DEF t
    <3>3. /\ mTaskQueue' \in Seq(Task)
          /\ Len(mTaskQueue') = Len(mTaskQueue) + 1
          /\ \A k \in 1 .. Len(mTaskQueue) : mTaskQueue'[k] = mTaskQueue[k]
          /\ mTaskQueue'[Len(mTaskQueue) + 1] = t
      BY <1>0, <3>1, <3>2, AppendProperties
    <3>4. Last(mTaskQueue') \in Task /\ mTaskQueue' # <<>>
      BY <1>0, <3>2, <3>3 DEF Last
    <3>5. Front(mTaskQueue') = mTaskQueue
      BY <1>0, <3>3, SeqEqual DEF Front
    <3>6. Executor!Accept
      BY <2>0, <3>4, <3>5 DEF Executor!Accept, Executor!Front, Executor!Last, Front, Last
    <3> QED  BY <3>6 DEF Executor!Next
  <2> QED  BY <2>1, <2>2
<1>8. ASSUME NEW id \in TaskIds, RemoveTask(id) PROVE [Executor!Next]_(Executor!vars)
  <2>1. PICK i \in 1 .. Len(mTaskQueue) : mTaskQueue' = RemoveAt(mTaskQueue, i)
    BY <1>8, Zenon DEF RemoveTask
  <2>2. UNCHANGED <<running, exOwner>>
    BY <1>8 DEF RemoveTask
  <2>3. Executor!Withdraw
    BY <2>1, <2>2 DEF Executor!Withdraw, Executor!RemoveAt, RemoveAt
  <2> QED  BY <2>3 DEF Executor!Next
<1> DEFINE Quiet ==
      \/ WorkerLock \/ WorkerGuard \/ WorkerLoop \/ SpuriousWakeup
      \/ StartScheduler \/ SuspendLockOut \/ ResumeUnlock \/ EnableScheduleTask
      \/ StopScheduler \/ StopNotify \/ StopJoin \/ UNCHANGED vars
      \/ (\E c \in Callers : ScheduleCheck(c)) \/ (\E s \in {"ok", "bad"} : SetState(s))
<1>9. CASE Quiet
  BY <1>9 DEF WorkerLock, WorkerGuard, WorkerLoop, SpuriousWakeup, StartScheduler,
     SuspendLockOut, ResumeUnlock, EnableScheduleTask, StopScheduler, StopNotify, StopJoin,
     ScheduleCheck, SetState, vars
<1> QED
  BY <1>1, <1>2, <1>3, <1>4, <1>5, <1>6, <1>7, <1>8, <1>9 DEF Next, Worker, Api, Caller

THEOREM Refinement == Spec => ImplementsSerialExecutor
<1>1. Init => Executor!Init
  BY DEF Init, Executor!Init
<1>2. IInv /\ [Next]_vars => [Executor!Next]_(Executor!vars)
  BY RefinementStep
<1> QED  BY <1>1, <1>2, Invariance, PTL DEF Spec, ImplementsSerialExecutor, Executor!Spec
=============================================================================
