------------------------ MODULE Discontinuity_proofs ------------------------
(***************************************************************************)
(* Proofs about Discontinuity, for tracks of any length with any            *)
(* discontinuities, any settings and any commands.                          *)
(***************************************************************************)
EXTENDS Discontinuity, SequenceTheorems, TLAPS

Pcs == {"run", "enter", "wait", "woken", "sink", "flag", "read", "write", "signal", "done"}
Task == {"discontinuity", "eos", "retune"}

(* The actions a step may be, each by its name.                             *)
LEMMA Steps ==
    ASSUME [Next]_vars
    PROVE  \/ UNCHANGED vars
           \/ \E t \in Tracks : \/ Fetch(t) \/ InjectFragment(t) \/ InjectDiscontinuity(t)
                                \/ InjectEnd(t) \/ EnterDiscontinuity(t)
                                \/ WokenAtDiscontinuity(t) \/ SinkDiscontinuity(t)
                                \/ FlagDiscontinuity(t) \/ ReadTrackState(t)
                                \/ WriteTrackState(t) \/ PairSignal(t)
                                \/ CheckForMediaTrackInjectionStall(t)
                                \/ CheckForDiscontinuityStall(t) \/ StallReset(t)
                                \/ StallRetune(t)
           \/ Underflow \/ NotifyEOS \/ StartTask \/ NotifyEOSReached \/ ProcessCheck
           \/ ProcessBegin \/ ProcessAgain \/ ReportProgress \/ ReportedProgress \/ Crash
           \/ StopInjection \/ RestartInjection \/ ProcessEnd \/ ProcessReturn
           \/ Command \/ RetuneTeardown \/ TeardownWoken \/ StopStream \/ DeleteStream
  BY DEF Next, InjectorStep, MonitorStep, WorkerStep, TeardownStep

-----------------------------------------------------------------------------
(* The helpers of the actions                                               *)

\* A signal wakes one injector that waits, if there is one, and changes nothing else.
LEMMA SignalIs ==
    ASSUME NEW pc \in [Tracks -> Pcs], SignalState(pc)
    PROVE  /\ ipc' \in [Tracks -> Pcs]
           /\ \A t \in Tracks : ipc'[t] = pc[t] \/ (pc[t] = "wait" /\ ipc'[t] = "woken")
           /\ (\E t \in Tracks : pc[t] = "wait") =>
                 \E t \in Tracks : pc[t] = "wait" /\ ipc'[t] = "woken"
  BY DEF SignalState, Pcs

LEMMA ScheduleIs ==
    ASSUME tasks \in Seq(Task), NEW task \in Task, Schedule(task)
    PROVE  /\ tasks' \in Seq(Task)
           /\ InQueue(task)'
           /\ \A x \in Task : InQueue(x) => InQueue(x)'
<1>1. CASE InQueue(task)
  BY <1>1 DEF Schedule, InQueue
<1>2. CASE ~InQueue(task)
  <2>1. tasks' = Append(tasks, task)
    BY <1>2 DEF Schedule
  <2>2. /\ tasks' \in Seq(Task)
        /\ Len(tasks') = Len(tasks) + 1 /\ Len(tasks) \in Nat
        /\ tasks'[Len(tasks) + 1] = task
        /\ \A i \in 1 .. Len(tasks) : tasks'[i] = tasks[i]
    BY <2>1, AppendProperties, LenProperties
  <2> QED BY <2>2 DEF InQueue
<1> QED BY <1>1, <1>2

LEMMA TailIs ==
    ASSUME tasks \in Seq(Task), tasks # <<>>, tasks' = Tail(tasks)
    PROVE  /\ Head(tasks) \in Task
           /\ tasks' \in Seq(Task)
           /\ \A x \in Task : InQueue(x) /\ Head(tasks) # x => InQueue(x)'
<1>1. /\ Head(tasks) \in Task /\ tasks' \in Seq(Task)
      /\ Len(tasks') = Len(tasks) - 1 /\ Len(tasks) \in Nat /\ Len(tasks) >= 1
      /\ Head(tasks) = tasks[1]
      /\ \A i \in 1 .. Len(tasks') : tasks'[i] = tasks[i + 1]
  BY HeadTailProperties, LenProperties
<1>2. ASSUME NEW x \in Task, InQueue(x), Head(tasks) # x
      PROVE  InQueue(x)'
  <2>1. PICK i \in 1 .. Len(tasks) : tasks[i] = x
    BY <1>2 DEF InQueue
  <2>2. i - 1 \in 1 .. Len(tasks') /\ (i - 1) + 1 = i
    BY <1>1, <1>2, <2>1
  <2>3. tasks'[i - 1] = x
    BY <1>1, <2>1, <2>2
  <2> QED BY <2>2, <2>3 DEF InQueue
<1> QED BY <1>1, <1>2

\* The elements in front of i stay, those behind it move up by one: RemoveAsyncTask
\* erases a task of the queue.
LEMMA RemoveAtSeq ==
    ASSUME NEW S, NEW s \in Seq(S), NEW i \in 1 .. Len(s)
    PROVE  /\ RemoveAt(s, i) \in Seq(S)
           /\ Len(RemoveAt(s, i)) = Len(s) - 1
           /\ \A k \in 1 .. Len(RemoveAt(s, i)) :
                 RemoveAt(s, i)[k] = s[IF k < i THEN k ELSE k + 1]
<1> DEFINE a == SubSeq(s, 1, i - 1)
           b == SubSeq(s, i + 1, Len(s))
<1>0. Len(s) \in Nat /\ i \in Nat /\ 1 <= i /\ i <= Len(s)
  BY LenProperties
<1>1. /\ a \in Seq(S)
      /\ Len(a) = i - 1
      /\ \A k \in 1 .. i - 1 : a[k] = s[k]
  BY <1>0
<1>2. /\ b \in Seq(S)
      /\ Len(b) = Len(s) - i
      /\ \A k \in 1 .. Len(s) - i : b[k] = s[i + k]
  BY <1>0
<1> HIDE DEF a, b
<1>3. /\ a \o b \in Seq(S)
      /\ Len(a \o b) = Len(a) + Len(b)
      /\ \A k \in 1 .. Len(a) + Len(b) :
            (a \o b)[k] = IF k <= Len(a) THEN a[k] ELSE b[k - Len(a)]
  BY <1>1, <1>2, ConcatProperties
<1>4. RemoveAt(s, i) = a \o b
  BY DEF RemoveAt, a, b
<1>5. ASSUME NEW k \in 1 .. Len(s) - 1
      PROVE  (a \o b)[k] = s[IF k < i THEN k ELSE k + 1]
  <2>1. CASE k < i
    BY <2>1, <1>0, <1>1, <1>2, <1>3
  <2>2. CASE ~(k < i)
    <3>1. /\ k - (i - 1) \in 1 .. Len(s) - i
          /\ i + (k - (i - 1)) = k + 1
      BY <2>2, <1>0
    <3>2. (a \o b)[k] = b[k - (i - 1)]
      BY <2>2, <1>0, <1>1, <1>2, <1>3
    <3> QED  BY <2>2, <3>1, <3>2, <1>2
  <2> QED  BY <2>1, <2>2
<1>6. Len(a \o b) = Len(s) - 1
  BY <1>0, <1>1, <1>2, <1>3
<1> QED  BY <1>3, <1>4, <1>5, <1>6

LEMMA WithoutIs ==
    ASSUME tasks \in Seq(Task), NEW task \in Task, tasks' = Without(task)
    PROVE  /\ tasks' \in Seq(Task)
           /\ \A x \in Task : InQueue(x) /\ x # task => InQueue(x)'
<1>1. CASE ~InQueue(task)
  BY <1>1 DEF Without, InQueue
<1>2. CASE InQueue(task)
  <2> DEFINE i == CHOOSE i \in 1 .. Len(tasks) : tasks[i] = task
  <2>1. i \in 1 .. Len(tasks) /\ tasks[i] = task
    BY <1>2 DEF InQueue
  <2>2. tasks' = RemoveAt(tasks, i)
    BY <1>2 DEF Without
  <2> HIDE DEF i
  <2>3. /\ tasks' \in Seq(Task)
        /\ Len(tasks') = Len(tasks) - 1 /\ Len(tasks) \in Nat
        /\ \A k \in 1 .. Len(tasks') : tasks'[k] = tasks[IF k < i THEN k ELSE k + 1]
    BY <2>1, <2>2, RemoveAtSeq, LenProperties
  <2>4. ASSUME NEW x \in Task, InQueue(x), x # task
        PROVE  InQueue(x)'
    <3>1. PICK k \in 1 .. Len(tasks) : tasks[k] = x
      BY <2>4 DEF InQueue
    <3>2. k # i
      BY <2>1, <2>4, <3>1
    <3>3. CASE k < i
      <4>1. k \in 1 .. Len(tasks') /\ tasks'[k] = x
        BY <2>1, <2>3, <3>1, <3>3
      <4> QED BY <4>1 DEF InQueue
    <3>4. CASE k > i
      <4>1. k - 1 \in 1 .. Len(tasks') /\ tasks'[k - 1] = x
        BY <2>1, <2>3, <3>1, <3>4
      <4> QED BY <4>1 DEF InQueue
    <3> QED BY <2>1, <3>2, <3>3, <3>4
  <2> QED BY <2>3, <2>4
<1> QED BY <1>1, <1>2

LEMMA ScheduleRetuneIs ==
    ASSUME tasks \in Seq(Task), mDiscontinuityTuneOperationId \in {0, 1}, ScheduleRetune
    PROVE  /\ tasks' \in Seq(Task)
           /\ mDiscontinuityTuneOperationId' \in {0, 1}
           /\ \A x \in Task : InQueue(x) => InQueue(x)'
           /\ \/ mDiscontinuityTuneOperationId' = mDiscontinuityTuneOperationId
              \/ InQueue("discontinuity")'
<1>1. CASE UNCHANGED <<tasks, mDiscontinuityTuneOperationId>>
  BY <1>1 DEF InQueue
<1>2. CASE mDiscontinuityTuneOperationId' = 1 /\ Schedule("discontinuity")
  BY <1>2, ScheduleIs DEF Task
<1>3. CASE Schedule("retune") /\ UNCHANGED mDiscontinuityTuneOperationId
  BY <1>3, ScheduleIs DEF Task
<1> QED BY <1>1, <1>2, <1>3 DEF ScheduleRetune

-----------------------------------------------------------------------------
(* Types                                                                    *)

LEMMA ExceptType ==
    ASSUME NEW S, NEW f \in [Tracks -> S], NEW t \in Tracks, NEW v \in S
    PROVE  [f EXCEPT ![t] = v] \in [Tracks -> S]
  OBVIOUS

LEMMA EachType ==
    ASSUME NEW S, NEW v \in S
    PROVE  Each(v) \in [Tracks -> S]
  BY DEF Each

LEMMA InitType == Init => TypeOK
<1> SUFFICES ASSUME Init PROVE TypeOK
  OBVIOUS
<1>1. StreamTypes
  BY DiscontinuityAssumption DEF Init, StreamTypes, Each
<1>2. InjectorTypes
  BY DEF Init, InjectorTypes, Each
<1>3. SinkTypes
  BY DEF Init, SinkTypes, Each
<1>4. PlayerTypes
  BY EmptySeq DEF Init, PlayerTypes, Each
<1> QED BY <1>1, <1>2, <1>3, <1>4 DEF TypeOK

LEMMA StreamType == TypeOK /\ [Next]_vars => StreamTypes'
<1> SUFFICES ASSUME StreamTypes, [Next]_vars
             PROVE  StreamTypes'
  BY DEF TypeOK
<1> USE DEF stream
<1>0. NFragments \in Nat /\ maxCached \in Nat
  BY DiscontinuityAssumption
<1>1. ASSUME UNCHANGED stream
      PROVE  StreamTypes'
  BY <1>1 DEF StreamTypes
<1>2. CASE UNCHANGED vars
  BY <1>1, <1>2 DEF vars
<1>3. ASSUME NEW t \in Tracks, Fetch(t)
      PROVE  StreamTypes'
  <2>1. /\ cached[t] \in 0 .. maxCached /\ cached[t] < maxCached /\ sent[t] \in 0 .. NFragments
        /\ sent[t] + cached[t] < NFragments
    BY <1>3 DEF Fetch, StreamTypes
  <2>2. cached[t] + 1 \in 0 .. maxCached /\ sent[t] + (cached[t] + 1) <= NFragments
    BY <1>0, <2>1
  <2>3. cached' = [cached EXCEPT ![t] = cached[t] + 1]
        /\ UNCHANGED <<config, layout, sent, cleared, total>>
    BY <1>3 DEF Fetch
  <2>4. cached' \in [Tracks -> 0 .. maxCached]
    BY <2>2, <2>3, ExceptType DEF StreamTypes
  <2> QED BY <2>2, <2>3, <2>4 DEF StreamTypes
<1>4. ASSUME NEW t \in Tracks, InjectFragment(t)
      PROVE  StreamTypes'
  <2>1. /\ cached[t] \in 0 .. maxCached /\ cached[t] > 0 /\ sent[t] \in 0 .. NFragments
        /\ sent[t] + cached[t] <= NFragments /\ total[t] \in 0 .. NFragments
        /\ total[t] <= sent[t]
    BY <1>4 DEF InjectFragment, StreamTypes
  <2>2. /\ cached[t] - 1 \in 0 .. maxCached /\ sent[t] + 1 \in 0 .. NFragments
        /\ (sent[t] + 1) + (cached[t] - 1) <= NFragments
        /\ total[t] + 1 \in 0 .. NFragments /\ total[t] + 1 <= sent[t] + 1
    BY <1>0, <2>1
  <2>3. /\ sent' = [sent EXCEPT ![t] = sent[t] + 1]
        /\ cached' = [cached EXCEPT ![t] = cached[t] - 1]
        /\ total' = [total EXCEPT ![t] = total[t] + 1]
        /\ UNCHANGED <<config, layout, cleared>>
    BY <1>4 DEF InjectFragment
  <2>4. /\ sent' \in [Tracks -> 0 .. NFragments] /\ cached' \in [Tracks -> 0 .. maxCached]
        /\ total' \in [Tracks -> 0 .. NFragments]
    BY <2>2, <2>3, ExceptType DEF StreamTypes
  <2>5. \A u \in Tracks : sent'[u] + cached'[u] <= NFragments /\ total'[u] <= sent'[u]
    BY <2>2, <2>3 DEF StreamTypes
  <2> QED BY <2>3, <2>4, <2>5 DEF StreamTypes
<1>5. ASSUME NEW t \in Tracks, InjectDiscontinuity(t)
      PROVE  StreamTypes'
  <2>1. /\ cached[t] \in 0 .. maxCached /\ cached[t] > 0 /\ sent[t] \in 0 .. NFragments
        /\ sent[t] + cached[t] <= NFragments
    BY <1>5 DEF InjectDiscontinuity, StreamTypes
  <2>2. sent[t] + 1 \in 0 .. NFragments
    BY <1>0, <2>1
  <2>3. /\ cleared' = [cleared EXCEPT ![t] = sent[t] + 1]
        /\ UNCHANGED <<config, layout, sent, cached, total>>
    BY <1>5 DEF InjectDiscontinuity
  <2> QED BY <2>2, <2>3, ExceptType DEF StreamTypes
<1>6. CASE RestartInjection
  <2>1. total' = Each(0) /\ UNCHANGED <<config, layout, sent, cached, cleared>>
    BY <1>6 DEF RestartInjection
  <2>2. total' \in [Tracks -> 0 .. NFragments] /\ \A t \in Tracks : total'[t] = 0
    BY <1>0, <2>1 DEF Each
  <2> QED BY <2>1, <2>2 DEF StreamTypes
<1>7. ASSUME NEW t \in Tracks,
             \/ InjectEnd(t) \/ EnterDiscontinuity(t) \/ WokenAtDiscontinuity(t)
             \/ SinkDiscontinuity(t) \/ FlagDiscontinuity(t) \/ ReadTrackState(t)
             \/ WriteTrackState(t) \/ PairSignal(t) \/ CheckForMediaTrackInjectionStall(t)
             \/ CheckForDiscontinuityStall(t) \/ StallReset(t) \/ StallRetune(t)
      PROVE  StreamTypes'
  <2>1. UNCHANGED stream
    BY <1>7 DEF InjectEnd, EnterDiscontinuity, WokenAtDiscontinuity, SinkDiscontinuity,
                FlagDiscontinuity, ReadTrackState, WriteTrackState, PairSignal,
                CheckForMediaTrackInjectionStall, CheckForDiscontinuityStall, StallReset,
                StallRetune
  <2> QED BY <1>1, <2>1
<1>8. CASE \/ Underflow \/ NotifyEOS \/ StartTask \/ NotifyEOSReached \/ ProcessCheck
           \/ ProcessBegin \/ ProcessAgain \/ ReportProgress \/ ReportedProgress \/ Crash
           \/ StopInjection \/ ProcessEnd \/ ProcessReturn
  <2>1. UNCHANGED stream
    BY <1>8 DEF Underflow, NotifyEOS, StartTask, NotifyEOSReached, ProcessCheck, ProcessBegin,
                ProcessAgain, ReportProgress, ReportedProgress, Crash, StopInjection,
                StopInjectionAbort, StopInjectionJoin, ProcessEnd, ProcessReturn
  <2> QED BY <1>1, <2>1
<1>9. CASE Command \/ RetuneTeardown \/ TeardownWoken \/ StopStream \/ DeleteStream
  <2>1. UNCHANGED stream
    BY <1>9 DEF Command, RetuneTeardown, AwaitDiscontinuity, TeardownStream, TeardownWoken,
                StopStream, DeleteStream
  <2> QED BY <1>1, <2>1
<1> QED BY <1>2, <1>3, <1>4, <1>5, <1>6, <1>7, <1>8, <1>9, Steps

LEMMA InjectorType == TypeOK /\ [Next]_vars => InjectorTypes'
<1> SUFFICES ASSUME InjectorTypes, [Next]_vars
             PROVE  InjectorTypes'
  BY DEF TypeOK
<1> USE DEF injector, pairing
<1>0. ipc \in [Tracks -> Pcs]
  BY DEF InjectorTypes, Pcs
<1>1. ASSUME UNCHANGED <<injector, pairing>>
      PROVE  InjectorTypes'
  BY <1>1 DEF InjectorTypes
<1>2. CASE UNCHANGED vars
  BY <1>1, <1>2 DEF vars
<1>3. ASSUME NEW t \in Tracks, NEW pc \in Pcs, ipc' = [ipc EXCEPT ![t] = pc]
      PROVE  ipc' \in [Tracks -> Pcs]
  BY <1>0, <1>3, ExceptType
<1>4. ASSUME NEW t \in Tracks, Fetch(t)
      PROVE  InjectorTypes'
  <2>1. mESChangeStatus' \in BOOLEAN
    BY <1>4 DEF Fetch, InjectorTypes
  <2>2. UNCHANGED <<injector, mTrackState, stateLock>>
    BY <1>4 DEF Fetch
  <2> QED BY <2>1, <2>2 DEF InjectorTypes
<1>5. ASSUME NEW t \in Tracks, InjectFragment(t) \/ CheckForDiscontinuityStall(t) \/ StallReset(t)
      PROVE  InjectorTypes'
  <2>1. UNCHANGED <<injector, pairing>>
    BY <1>5 DEF InjectFragment, CheckForDiscontinuityStall, StallReset
  <2> QED BY <1>1, <2>1
<1>6. ASSUME NEW t \in Tracks,
             \/ InjectDiscontinuity(t) \/ SinkDiscontinuity(t) \/ FlagDiscontinuity(t)
      PROVE  InjectorTypes'
  <2>1. UNCHANGED <<abortInject, saved, pairing>>
    BY <1>6 DEF InjectDiscontinuity, SinkDiscontinuity, FlagDiscontinuity
  <2>2. UNCHANGED ipc \/ \E pc \in Pcs : ipc' = [ipc EXCEPT ![t] = pc]
    BY <1>6 DEF InjectDiscontinuity, SinkDiscontinuity, FlagDiscontinuity, Pcs
  <2>3. ipc' \in [Tracks -> Pcs]
    BY <1>0, <1>3, <2>2
  <2> QED BY <2>1, <2>3 DEF InjectorTypes, Pcs
<1>7. ASSUME NEW t \in Tracks, InjectEnd(t) \/ WokenAtDiscontinuity(t)
      PROVE  InjectorTypes'
  <2>1. UNCHANGED <<saved, pairing>>
    BY <1>7 DEF InjectEnd, WokenAtDiscontinuity
  <2>2. /\ \E pc \in Pcs : ipc' = [ipc EXCEPT ![t] = pc]
        /\ UNCHANGED abortInject \/ abortInject' = [abortInject EXCEPT ![t] = TRUE]
    BY <1>7 DEF InjectEnd, WokenAtDiscontinuity, Pcs
  <2>3. ipc' \in [Tracks -> Pcs]
    BY <1>3, <2>2
  <2>4. abortInject' \in [Tracks -> BOOLEAN]
    BY <2>2, ExceptType DEF InjectorTypes
  <2> QED BY <2>1, <2>3, <2>4 DEF InjectorTypes, Pcs
<1>8. ASSUME NEW t \in Tracks, EnterDiscontinuity(t)
      PROVE  InjectorTypes'
  <2>1. UNCHANGED <<abortInject, saved, stateLock, mESChangeStatus>>
    BY <1>8 DEF EnterDiscontinuity
  <2>2. mTrackState' \subseteq Tracks
    BY <1>8 DEF EnterDiscontinuity, InjectorTypes
  <2>3. \E pc \in Pcs : ipc' = [ipc EXCEPT ![t] = pc]
    BY <1>8 DEF EnterDiscontinuity, Pcs
  <2>4. ipc' \in [Tracks -> Pcs]
    BY <1>3, <2>3
  <2> QED BY <2>1, <2>2, <2>4 DEF InjectorTypes, Pcs
<1>9. ASSUME NEW t \in Tracks, ReadTrackState(t)
      PROVE  InjectorTypes'
  <2>1. UNCHANGED <<abortInject, pairing>>
    BY <1>9 DEF ReadTrackState
  <2>2. ipc' = [ipc EXCEPT ![t] = "write"] /\ "write" \in Pcs
    BY <1>9 DEF ReadTrackState, Pcs
  <2>3. ipc' \in [Tracks -> Pcs]
    BY <1>3, <2>2
  <2>4. saved' \in [Tracks -> SUBSET Tracks]
    BY <1>9, ExceptType DEF ReadTrackState, InjectorTypes
  <2> QED BY <2>1, <2>3, <2>4 DEF InjectorTypes, Pcs
<1>10. ASSUME NEW t \in Tracks, WriteTrackState(t)
       PROVE  InjectorTypes'
  <2>1. [ipc EXCEPT ![t] = "run"] \in [Tracks -> Pcs]
    BY <1>0, ExceptType DEF Pcs
  <2>2. ipc' \in [Tracks -> Pcs]
    BY <1>10, <2>1, SignalIs DEF WriteTrackState
  <2>3. mTrackState' \subseteq Tracks
    BY <1>10 DEF WriteTrackState, InjectorTypes
  <2>4. saved' \in [Tracks -> SUBSET Tracks]
    BY <1>10, ExceptType DEF WriteTrackState, InjectorTypes
  <2>5. UNCHANGED <<abortInject, stateLock, mESChangeStatus>>
    BY <1>10 DEF WriteTrackState
  <2> QED BY <2>2, <2>3, <2>4, <2>5 DEF InjectorTypes, Pcs
<1>11. ASSUME NEW t \in Tracks, PairSignal(t)
       PROVE  InjectorTypes'
  <2>1. [ipc EXCEPT ![t] = "done"] \in [Tracks -> Pcs]
    BY <1>0, ExceptType DEF Pcs
  <2>2. ipc' \in [Tracks -> Pcs]
    BY <1>11, <2>1, SignalIs DEF PairSignal
  <2>3. abortInject' \in [Tracks -> BOOLEAN]
    BY <1>11, ExceptType DEF PairSignal, InjectorTypes
  <2>4. UNCHANGED <<saved, pairing>>
    BY <1>11 DEF PairSignal
  <2> QED BY <2>2, <2>3, <2>4 DEF InjectorTypes, Pcs
<1>12. ASSUME NEW t \in Tracks, CheckForMediaTrackInjectionStall(t)
       PROVE  InjectorTypes'
  <2>1. UNCHANGED <<abortInject, saved, mESChangeStatus>>
    BY <1>12 DEF CheckForMediaTrackInjectionStall
  <2>2. \/ UNCHANGED <<ipc, mTrackState, stateLock>>
        \/ UNCHANGED <<ipc, mTrackState>> /\ stateLock' \in {{}, {t}}
        \/ mTrackState' = {} /\ SignalState(ipc) /\ UNCHANGED stateLock
    BY <1>12 DEF CheckForMediaTrackInjectionStall
  <2>3. ipc' \in [Tracks -> Pcs]
    BY <1>0, <2>2, SignalIs
  <2>4. mTrackState' \subseteq Tracks /\ stateLock' \subseteq Tracks
    BY <2>2 DEF InjectorTypes
  <2> QED BY <2>1, <2>3, <2>4 DEF InjectorTypes, Pcs
<1>13. ASSUME NEW t \in Tracks, StallRetune(t)
       PROVE  InjectorTypes'
  <2>1. UNCHANGED <<injector, mTrackState, mESChangeStatus>>
    BY <1>13 DEF StallRetune
  <2>2. stateLock' \subseteq Tracks
    BY <1>13 DEF StallRetune, InjectorTypes
  <2> QED BY <2>1, <2>2 DEF InjectorTypes
<1>14. CASE \/ Underflow \/ NotifyEOS \/ StartTask \/ NotifyEOSReached \/ ProcessCheck
            \/ ProcessBegin \/ ProcessAgain \/ ReportProgress \/ ReportedProgress \/ Crash
            \/ ProcessEnd \/ ProcessReturn
  <2>1. UNCHANGED <<injector, pairing>>
    BY <1>14 DEF Underflow, NotifyEOS, StartTask, NotifyEOSReached, ProcessCheck, ProcessBegin,
                 ProcessAgain, ReportProgress, ReportedProgress, Crash, ProcessEnd,
                 ProcessReturn
  <2> QED BY <1>1, <2>1
<1>15. CASE StopInjection
  <2>1. UNCHANGED <<saved, pairing>>
    BY <1>15 DEF StopInjection, StopInjectionAbort, StopInjectionJoin
  <2>2. \/ UNCHANGED <<ipc, abortInject>>
        \/ /\ SignalState(ipc)
           /\ \E t \in Tracks : abortInject' = [abortInject EXCEPT ![t] = TRUE]
    BY <1>15 DEF StopInjection, StopInjectionAbort, StopInjectionJoin, Tracks
  <2>3. ipc' \in [Tracks -> Pcs]
    BY <1>0, <2>2, SignalIs
  <2>4. abortInject' \in [Tracks -> BOOLEAN]
    BY <2>2, ExceptType DEF InjectorTypes
  <2> QED BY <2>1, <2>3, <2>4 DEF InjectorTypes, Pcs
<1>16. CASE RestartInjection
  <2>1. /\ mESChangeStatus' = FALSE /\ mTrackState' = {} /\ abortInject' = Each(FALSE)
        /\ ipc' = Each("run") /\ UNCHANGED <<saved, stateLock>>
    BY <1>16 DEF RestartInjection
  <2>2. abortInject' \in [Tracks -> BOOLEAN] /\ ipc' \in [Tracks -> Pcs]
    BY <2>1, EachType DEF Pcs
  <2> QED BY <2>1, <2>2 DEF InjectorTypes, Pcs
<1>17. CASE StopStream
  <2>1. abortInject' = Each(TRUE) /\ UNCHANGED <<saved, pairing>>
    BY <1>17 DEF StopStream
  <2>2. ipc' \in [Tracks -> Pcs]
    BY <1>0, <1>17 DEF StopStream, Pcs
  <2>3. abortInject' \in [Tracks -> BOOLEAN]
    BY <2>1, EachType
  <2> QED BY <2>1, <2>2, <2>3 DEF InjectorTypes, Pcs
<1>18. CASE Command \/ RetuneTeardown \/ TeardownWoken \/ DeleteStream
  <2>1. UNCHANGED <<injector, pairing>>
    BY <1>18 DEF Command, RetuneTeardown, AwaitDiscontinuity, TeardownStream, TeardownWoken,
                 DeleteStream
  <2> QED BY <1>1, <2>1
<1> QED BY <1>2, <1>4, <1>5, <1>6, <1>7, <1>8, <1>9, <1>10, <1>11, <1>12, <1>13, <1>14, <1>15,
           <1>16, <1>17, <1>18, Steps

LEMMA SinkType == TypeOK /\ [Next]_vars => SinkTypes'
<1> SUFFICES ASSUME SinkTypes, [Next]_vars
             PROVE  SinkTypes'
  BY DEF TypeOK
<1> USE DEF flags, sink
<1>1. ASSUME UNCHANGED <<flags, sink>>
      PROVE  SinkTypes'
  BY <1>1 DEF SinkTypes
<1>2. CASE UNCHANGED vars
  BY <1>1, <1>2 DEF vars
<1>3. NothingIgnored => mIsDiscontinuityIgnored' \in [Tracks -> BOOLEAN]
  BY EachType DEF NothingIgnored
<1>4. ResetFlags => /\ mIsDiscontinuityIgnored' \in [Tracks -> BOOLEAN]
                    /\ mProcessingDiscontinuity' \in [Tracks -> BOOLEAN]
  BY <1>3, EachType DEF ResetFlags
<1>5. ASSUME NEW t \in Tracks,
             \/ Fetch(t) \/ EnterDiscontinuity(t) \/ WokenAtDiscontinuity(t)
             \/ ReadTrackState(t) \/ WriteTrackState(t) \/ PairSignal(t)
             \/ CheckForDiscontinuityStall(t) \/ StallRetune(t)
      PROVE  SinkTypes'
  <2>1. UNCHANGED <<flags, sink>>
    BY <1>5 DEF Fetch, EnterDiscontinuity, WokenAtDiscontinuity, ReadTrackState,
                WriteTrackState, PairSignal, CheckForDiscontinuityStall, StallRetune
  <2> QED BY <1>1, <2>1
<1>6. ASSUME NEW t \in Tracks, InjectFragment(t)
      PROVE  SinkTypes'
  BY <1>6, ExceptType DEF InjectFragment, SinkTypes
<1>7. ASSUME NEW t \in Tracks, InjectDiscontinuity(t)
      PROVE  SinkTypes'
  <2>1. UNCHANGED <<mProcessingDiscontinuity, sink>>
    BY <1>7 DEF InjectDiscontinuity
  <2>2. \/ mIsDiscontinuityIgnored' = [mIsDiscontinuityIgnored EXCEPT ![t] = TRUE]
        \/ NothingIgnored \/ UNCHANGED mIsDiscontinuityIgnored
    BY <1>7 DEF InjectDiscontinuity
  <2>3. mIsDiscontinuityIgnored' \in [Tracks -> BOOLEAN]
    BY <1>3, <2>2, ExceptType DEF SinkTypes
  <2> QED BY <2>1, <2>3 DEF SinkTypes
<1>8. ASSUME NEW t \in Tracks, NEW v, sinkEos' = [sinkEos EXCEPT ![t] = @ \/ v],
             UNCHANGED <<flags, buffered, eosSignalled>>
      PROVE  SinkTypes'
  <2>1. (sinkEos[t] \/ v) \in BOOLEAN
    BY Zenon
  <2>2. sinkEos' \in [Tracks -> BOOLEAN]
    BY <1>8, <2>1, Zenon DEF SinkTypes
  <2> QED BY <1>8, <2>2, Zenon DEF SinkTypes
<1>9. ASSUME NEW t \in Tracks, InjectEnd(t) \/ SinkDiscontinuity(t)
      PROVE  SinkTypes'
  <2>1. UNCHANGED <<flags, buffered, eosSignalled>>
    BY <1>9 DEF InjectEnd, SinkDiscontinuity
  <2>2. \/ sinkEos' = [sinkEos EXCEPT ![t] = @ \/ EosReached(t)]
        \/ sinkEos' = [sinkEos EXCEPT ![t] = @ \/ buffered[t]]
    BY <1>9, Zenon DEF InjectEnd, SinkDiscontinuity
  <2> QED BY <1>8, <2>1, <2>2, Zenon
<1>10. ASSUME NEW t \in Tracks, FlagDiscontinuity(t)
       PROVE  SinkTypes'
  BY <1>10, ExceptType DEF FlagDiscontinuity, SinkTypes
<1>11. ASSUME NEW t \in Tracks, CheckForMediaTrackInjectionStall(t)
       PROVE  SinkTypes'
  <2>1. UNCHANGED <<mProcessingDiscontinuity, sink>>
    BY <1>11 DEF CheckForMediaTrackInjectionStall
  <2>2. \/ UNCHANGED mIsDiscontinuityIgnored
        \/ mIsDiscontinuityIgnored' =
              [mIsDiscontinuityIgnored EXCEPT ![t] = @ \/ config.IsDashAsset]
    BY <1>11, Zenon DEF CheckForMediaTrackInjectionStall
  <2>3. (mIsDiscontinuityIgnored[t] \/ config.IsDashAsset) \in BOOLEAN
    BY Zenon
  <2>4. mIsDiscontinuityIgnored' \in [Tracks -> BOOLEAN]
    BY <2>2, <2>3, Zenon DEF SinkTypes
  <2> QED BY <2>1, <2>4, Zenon DEF SinkTypes
<1>12. ASSUME NEW t \in Tracks, StallReset(t)
       PROVE  SinkTypes'
  BY <1>4, <1>12 DEF StallReset, SinkTypes
<1>13. CASE NotifyEOS
  BY <1>13 DEF NotifyEOS, SinkTypes
<1>14. CASE \/ Underflow \/ StartTask \/ NotifyEOSReached \/ ProcessCheck \/ ProcessBegin
            \/ ReportProgress \/ ReportedProgress \/ Crash \/ StopInjection
            \/ ProcessEnd \/ ProcessReturn
  <2>1. UNCHANGED <<flags, sink>>
    BY <1>14 DEF Underflow, StartTask, NotifyEOSReached, ProcessCheck, ProcessBegin,
                 ReportProgress, ReportedProgress, Crash, StopInjection, StopInjectionAbort,
                 StopInjectionJoin, ProcessEnd, ProcessReturn
  <2> QED BY <1>1, <2>1
<1>15. CASE ProcessAgain
  BY <1>4, <1>15 DEF ProcessAgain, SinkTypes
<1>16. CASE RestartInjection
  BY <1>16, EachType DEF RestartInjection, SinkTypes
<1>17. CASE Command \/ RetuneTeardown \/ TeardownWoken
  <2>1. UNCHANGED flags \/ ResetFlags
    BY <1>17 DEF Command, RetuneTeardown, AwaitDiscontinuity, TeardownStream, TeardownWoken
  <2>2. UNCHANGED sink
    BY <1>17 DEF Command, RetuneTeardown, AwaitDiscontinuity, TeardownStream, TeardownWoken
  <2> QED BY <1>4, <2>1, <2>2 DEF SinkTypes
<1>18. CASE StopStream \/ DeleteStream
  BY <1>1, <1>18 DEF StopStream, DeleteStream
<1> QED BY <1>2, <1>5, <1>6, <1>7, <1>9, <1>10, <1>11, <1>12, <1>13, <1>14, <1>15, <1>16,
           <1>17, <1>18, Steps

\* What the player keeps, without its queue of tasks.  The leaves keep the set of the
\* worker's program counters folded and cite WorkerPCs.
WorkerPC == {"idle", "check", "begin", "again", "report", "progress", "abort video",
             "join video", "abort audio", "join audio", "restart", "end", "return",
             "teardown", "complete", "crash"}

LEMMA WorkerPCs ==
    /\ "idle" \in WorkerPC /\ "check" \in WorkerPC /\ "begin" \in WorkerPC
    /\ "again" \in WorkerPC /\ "report" \in WorkerPC /\ "progress" \in WorkerPC
    /\ "abort video" \in WorkerPC /\ "join video" \in WorkerPC
    /\ "abort audio" \in WorkerPC /\ "join audio" \in WorkerPC
    /\ "restart" \in WorkerPC /\ "end" \in WorkerPC /\ "return" \in WorkerPC
    /\ "teardown" \in WorkerPC /\ "complete" \in WorkerPC /\ "crash" \in WorkerPC
  BY Zenon DEF WorkerPC

WorkerTypes ==
    /\ mDiscontinuityTuneOperationInProgress \in BOOLEAN
    /\ wpc \in WorkerPC
    /\ wtask \in {"none"} \cup Task

TeardownTypes ==
    /\ tpc \in {"none", "wait", "woken", "stop", "join", "deleted"}
    /\ tby \in {"none", "seek", "rate", "retune"}

MonitorTypes == mpc \in [Tracks -> {"idle", "reset", "retune"}]

QueueTypes == tasks \in Seq(Task) /\ mDiscontinuityTuneOperationId \in {0, 1}

LEMMA PlayerParts == PlayerTypes <=> QueueTypes /\ WorkerTypes /\ TeardownTypes /\ MonitorTypes
<1>1. {"none"} \cup Task = {"none", "discontinuity", "eos", "retune"}
  BY DEF Task
<1> QED BY <1>1, Zenon DEF PlayerTypes, QueueTypes, WorkerTypes, TeardownTypes, MonitorTypes, Task,
                           WorkerPC

\* The queue is only changed by the operators whose lemmas stand above.
LEMMA QueueType == QueueTypes /\ [Next]_vars => QueueTypes'
<1> SUFFICES ASSUME QueueTypes, [Next]_vars
             PROVE  QueueTypes'
  OBVIOUS
<1>0. tasks \in Seq(Task) /\ mDiscontinuityTuneOperationId \in {0, 1}
  BY DEF QueueTypes
<1>1. ASSUME UNCHANGED tasks, \/ mDiscontinuityTuneOperationId' = 0
                              \/ UNCHANGED mDiscontinuityTuneOperationId
      PROVE  QueueTypes'
  BY <1>0, <1>1 DEF QueueTypes
<1>2. ASSUME ScheduleRetune PROVE QueueTypes'
  BY <1>0, <1>2, ScheduleRetuneIs, Zenon DEF QueueTypes
<1>3. ASSUME tasks' \in Seq(Task), \/ mDiscontinuityTuneOperationId' = 0
                                   \/ UNCHANGED mDiscontinuityTuneOperationId
      PROVE  QueueTypes'
  BY <1>0, <1>3 DEF QueueTypes
<1>4. CASE UNCHANGED vars
  BY <1>1, <1>4, Zenon DEF vars, player, tune
<1>5. ASSUME NEW t \in Tracks,
             \/ Fetch(t) \/ InjectFragment(t) \/ InjectDiscontinuity(t) \/ InjectEnd(t)
             \/ EnterDiscontinuity(t) \/ WokenAtDiscontinuity(t) \/ SinkDiscontinuity(t)
             \/ FlagDiscontinuity(t) \/ ReadTrackState(t) \/ WriteTrackState(t) \/ PairSignal(t)
             \/ CheckForDiscontinuityStall(t) \/ StallReset(t)
      PROVE  QueueTypes'
  <2>1. UNCHANGED <<tasks, mDiscontinuityTuneOperationId>>
    BY <1>5, Zenon DEF Fetch, InjectFragment, InjectDiscontinuity, InjectEnd, EnterDiscontinuity,
                WokenAtDiscontinuity, SinkDiscontinuity, FlagDiscontinuity, ReadTrackState,
                WriteTrackState, PairSignal, CheckForDiscontinuityStall, StallReset, player, tune
  <2> QED BY <1>1, <2>1, Zenon
<1>6. ASSUME NEW t \in Tracks, CheckForMediaTrackInjectionStall(t) \/ StallRetune(t)
      PROVE  QueueTypes'
  <2>1. ScheduleRetune \/ UNCHANGED <<tasks, mDiscontinuityTuneOperationId>>
    BY <1>6, Zenon DEF CheckForMediaTrackInjectionStall, StallRetune, player, tune
  <2> QED BY <1>1, <1>2, <2>1, Zenon
<1>7. CASE Underflow
  BY <1>2, <1>7, Zenon DEF Underflow
<1>8. CASE NotifyEOS
  <2>1. Schedule("eos") /\ UNCHANGED mDiscontinuityTuneOperationId
    BY <1>8, Zenon DEF NotifyEOS, tune
  <2>2. tasks' \in Seq(Task)
    BY <1>0, <2>1, ScheduleIs DEF Task
  <2> QED BY <1>3, <2>1, <2>2, Zenon
<1>9. CASE StartTask \/ NotifyEOSReached
  <2>1. tasks # <<>> /\ tasks' = Tail(tasks) /\ UNCHANGED mDiscontinuityTuneOperationId
    BY <1>9, Zenon DEF StartTask, NotifyEOSReached, Queued, tune
  <2> QED BY <1>0, <1>3, <2>1, TailIs, Zenon
<1>10. CASE \/ ProcessCheck \/ ProcessBegin \/ ProcessAgain \/ ReportProgress
            \/ ReportedProgress \/ Crash \/ StopInjection \/ ProcessEnd
  <2>1. UNCHANGED <<tasks, mDiscontinuityTuneOperationId>>
    BY <1>10, Zenon DEF ProcessCheck, ProcessBegin, ProcessAgain, ReportProgress,
                 ReportedProgress, Crash, StopInjection, StopInjectionAbort, StopInjectionJoin,
                 ProcessEnd, tune
  <2> QED BY <1>1, <2>1, Zenon
<1>11. CASE ProcessReturn
  BY <1>1, <1>11, Zenon DEF ProcessReturn
<1>12. CASE RestartInjection
  <2>1. tasks' = Without("eos") /\ UNCHANGED mDiscontinuityTuneOperationId
    BY <1>12, Zenon DEF RestartInjection, tune
  <2>2. tasks' \in Seq(Task)
    BY <1>0, <2>1, WithoutIs DEF Task
  <2> QED BY <1>3, <2>1, <2>2, Zenon
<1>13. ASSUME NEW c, AwaitDiscontinuity(c) \/ TeardownStream(c)
       PROVE  QueueTypes'
  <2>1. /\ \/ tasks' = Without("discontinuity") \/ tasks' = tasks
        /\ \/ mDiscontinuityTuneOperationId' = 0 \/ UNCHANGED mDiscontinuityTuneOperationId
    BY <1>13, Zenon DEF AwaitDiscontinuity, TeardownStream, tune
  <2>2. tasks' \in Seq(Task)
    BY <1>0, <2>1, WithoutIs DEF Task
  <2> QED BY <1>3, <2>1, <2>2, Zenon
<1>14. CASE Command \/ RetuneTeardown
  BY <1>13, <1>14, Zenon DEF Command, RetuneTeardown
<1>15. CASE TeardownWoken \/ StopStream \/ DeleteStream
  BY <1>1, <1>15, Zenon DEF TeardownWoken, StopStream, DeleteStream, tune
<1> QED BY <1>4, <1>5, <1>6, <1>7, <1>8, <1>9, <1>10, <1>11, <1>12, <1>14, <1>15, Steps, Zenon

LEMMA WorkerType == QueueTypes /\ WorkerTypes /\ [Next]_vars => WorkerTypes'
<1> SUFFICES ASSUME QueueTypes, WorkerTypes, [Next]_vars
             PROVE  WorkerTypes'
  OBVIOUS
<1>1. ASSUME UNCHANGED <<mDiscontinuityTuneOperationInProgress, worker>>
      PROVE  WorkerTypes'
  <2>1. wpc' = wpc /\ wtask' = wtask
    BY <1>1, Zenon DEF worker
  <2> QED BY <1>1, <2>1, Zenon DEF WorkerTypes
<1>2. CASE UNCHANGED vars
  BY <1>1, <1>2, Zenon DEF vars, player, tune
<1>3. ASSUME NEW t \in Tracks,
             \/ Fetch(t) \/ InjectFragment(t) \/ InjectDiscontinuity(t) \/ InjectEnd(t)
             \/ EnterDiscontinuity(t) \/ WokenAtDiscontinuity(t) \/ SinkDiscontinuity(t)
             \/ FlagDiscontinuity(t) \/ ReadTrackState(t) \/ WriteTrackState(t) \/ PairSignal(t)
             \/ CheckForMediaTrackInjectionStall(t) \/ CheckForDiscontinuityStall(t)
             \/ StallReset(t) \/ StallRetune(t)
      PROVE  WorkerTypes'
  <2>1. UNCHANGED <<mDiscontinuityTuneOperationInProgress, worker>>
    BY <1>3, Zenon DEF Fetch, InjectFragment, InjectDiscontinuity, InjectEnd, EnterDiscontinuity,
                WokenAtDiscontinuity, SinkDiscontinuity, FlagDiscontinuity, ReadTrackState,
                WriteTrackState, PairSignal, CheckForMediaTrackInjectionStall,
                CheckForDiscontinuityStall, StallReset, StallRetune, player, tune
  <2> QED BY <1>1, <2>1, Zenon
<1>4. CASE Underflow \/ NotifyEOS
  <2>1. UNCHANGED <<mDiscontinuityTuneOperationInProgress, worker>>
    BY <1>4, Zenon DEF Underflow, NotifyEOS, tune
  <2> QED BY <1>1, <2>1, Zenon
<1>5. ASSUME UNCHANGED mDiscontinuityTuneOperationInProgress, NEW pc \in WorkerPC, Step(pc)
      PROVE  WorkerTypes'
  BY <1>5, Zenon DEF WorkerTypes, Step
<1>6. CASE StartTask
  <2>1. Head(tasks) \in Task
    BY <1>6, TailIs, Zenon DEF StartTask, Queued, QueueTypes
  <2>2. /\ wtask' = Head(tasks) /\ UNCHANGED mDiscontinuityTuneOperationInProgress
        /\ wpc' = "teardown" \/ wpc' = "check"
    BY <1>6, Zenon DEF StartTask, tune
  <2>3. wtask' \in {"none"} \cup Task
    BY <2>1, <2>2
  <2> QED BY <2>2, <2>3, WorkerPCs, Zenon DEF WorkerTypes
<1>7. CASE NotifyEOSReached
  <2>1. /\ UNCHANGED mDiscontinuityTuneOperationInProgress
        /\ \/ wpc' = "check" /\ wtask' = "eos"
           \/ wpc' = "complete" /\ UNCHANGED wtask
           \/ UNCHANGED worker
    BY <1>7, Zenon DEF NotifyEOSReached, tune
  <2>2. "eos" \in {"none"} \cup Task
    BY DEF Task
  <2>3. CASE UNCHANGED worker
    BY <1>1, <2>1, <2>3, Zenon
  <2> QED BY <2>1, <2>2, <2>3, WorkerPCs, Zenon DEF WorkerTypes
<1>8. CASE ProcessCheck
  BY <1>5, <1>8, WorkerPCs, Zenon DEF ProcessCheck, tune
<1>9. CASE ProcessBegin
  <2>1. mDiscontinuityTuneOperationInProgress' \in BOOLEAN /\ Step("again")
    BY <1>9, Zenon DEF ProcessBegin
  <2> QED BY <2>1, WorkerPCs, Zenon DEF WorkerTypes, Step
<1>10. CASE \/ ProcessAgain \/ ReportProgress \/ ReportedProgress \/ Crash \/ StopInjection
            \/ RestartInjection
  <2>1. /\ UNCHANGED mDiscontinuityTuneOperationInProgress
        /\ \/ Step("end") \/ Step("report") \/ Step("abort video") \/ Step("progress")
           \/ Step("crash") \/ Step("join video") \/ Step("abort audio")
           \/ Step("join audio") \/ Step("restart")
    BY <1>10, Zenon DEF ProcessAgain, ReportProgress, ReportedProgress, Crash, StopInjection,
                 StopInjectionAbort, StopInjectionJoin, RestartInjection, tune
  <2> QED BY <1>5, <2>1, WorkerPCs, Zenon
<1>11. CASE ProcessEnd \/ ProcessReturn
  <2>1. /\ mDiscontinuityTuneOperationInProgress' \in BOOLEAN
        /\ \/ Step("return")
           \/ wpc' = "idle" /\ wtask' = "none"
    BY <1>11, Zenon DEF ProcessEnd, ProcessReturn, WorkerTypes
  <2>2. "none" \in {"none"} \cup Task
    OBVIOUS
  <2> QED BY <2>1, <2>2, WorkerPCs, Zenon DEF WorkerTypes, Step
<1>12. ASSUME NEW c, AwaitDiscontinuity(c) \/ TeardownStream(c)
       PROVE  WorkerTypes'
  <2>1. UNCHANGED <<mDiscontinuityTuneOperationInProgress, worker>>
    BY <1>12, Zenon DEF AwaitDiscontinuity, TeardownStream, tune
  <2> QED BY <1>1, <2>1, Zenon
<1>13. CASE Command \/ RetuneTeardown
  BY <1>12, <1>13, Zenon DEF Command, RetuneTeardown
<1>14. CASE TeardownWoken \/ StopStream \/ DeleteStream
  <2>1. UNCHANGED <<mDiscontinuityTuneOperationInProgress, worker>>
    BY <1>14, Zenon DEF TeardownWoken, StopStream, DeleteStream, tune
  <2> QED BY <1>1, <2>1, Zenon
<1> QED BY <1>2, <1>3, <1>4, <1>5, <1>6, <1>7, <1>8, <1>9, <1>10, <1>11, <1>13, <1>14, Steps, Zenon

LEMMA TeardownType == TeardownTypes /\ [Next]_vars => TeardownTypes'
<1> SUFFICES ASSUME TeardownTypes, [Next]_vars
             PROVE  TeardownTypes'
  OBVIOUS
<1>1. ASSUME UNCHANGED teardown
      PROVE  TeardownTypes'
  BY <1>1 DEF TeardownTypes, teardown
<1>2. CASE UNCHANGED vars
  BY <1>1, <1>2, Zenon DEF vars, player
<1>3. ASSUME NEW t \in Tracks,
             \/ Fetch(t) \/ InjectFragment(t) \/ InjectDiscontinuity(t) \/ InjectEnd(t)
             \/ EnterDiscontinuity(t) \/ WokenAtDiscontinuity(t) \/ SinkDiscontinuity(t)
             \/ FlagDiscontinuity(t) \/ ReadTrackState(t) \/ WriteTrackState(t) \/ PairSignal(t)
             \/ CheckForMediaTrackInjectionStall(t) \/ CheckForDiscontinuityStall(t)
             \/ StallReset(t) \/ StallRetune(t)
      PROVE  TeardownTypes'
  <2>1. UNCHANGED teardown
    BY <1>3, Zenon DEF Fetch, InjectFragment, InjectDiscontinuity, InjectEnd, EnterDiscontinuity,
                WokenAtDiscontinuity, SinkDiscontinuity, FlagDiscontinuity, ReadTrackState,
                WriteTrackState, PairSignal, CheckForMediaTrackInjectionStall,
                CheckForDiscontinuityStall, StallReset, StallRetune, player
  <2> QED BY <1>1, <2>1, Zenon
<1>4. CASE \/ Underflow \/ NotifyEOS \/ StartTask \/ NotifyEOSReached \/ ProcessCheck
           \/ ProcessBegin \/ ProcessAgain \/ ReportProgress \/ ReportedProgress \/ Crash
           \/ StopInjection \/ RestartInjection \/ ProcessEnd
  <2>1. UNCHANGED teardown
    BY <1>4, Zenon DEF Underflow, NotifyEOS, StartTask, NotifyEOSReached, ProcessCheck,
                ProcessBegin, ProcessAgain, ReportProgress, ReportedProgress, Crash,
                StopInjection, StopInjectionAbort, StopInjectionJoin, RestartInjection, ProcessEnd
  <2> QED BY <1>1, <2>1, Zenon
<1>5. CASE ProcessReturn
  BY <1>5 DEF ProcessReturn, TeardownTypes
<1>6. ASSUME NEW c \in {"seek", "rate", "retune"}, AwaitDiscontinuity(c) \/ TeardownStream(c)
      PROVE  TeardownTypes'
  BY <1>6 DEF AwaitDiscontinuity, TeardownStream, TeardownTypes
<1>7. CASE Command
  <2>1. Commands \subseteq {"seek", "rate", "retune"}
    BY DiscontinuityAssumption
  <2> QED BY <1>6, <1>7, <2>1 DEF Command
<1>8. CASE RetuneTeardown
  BY <1>6, <1>8 DEF RetuneTeardown
<1>9. CASE TeardownWoken \/ StopStream \/ DeleteStream
  BY <1>9 DEF TeardownWoken, StopStream, DeleteStream, TeardownTypes
<1> QED BY <1>2, <1>3, <1>4, <1>5, <1>7, <1>8, <1>9, Steps, Zenon

LEMMA MonitorType == MonitorTypes /\ [Next]_vars => MonitorTypes'
<1> SUFFICES ASSUME MonitorTypes, [Next]_vars
             PROVE  MonitorTypes'
  OBVIOUS
<1>1. ASSUME UNCHANGED mpc
      PROVE  MonitorTypes'
  BY <1>1 DEF MonitorTypes
<1>2. CASE UNCHANGED vars
  BY <1>1, <1>2, Zenon DEF vars, player
<1>3. ASSUME NEW t \in Tracks,
             \/ Fetch(t) \/ InjectFragment(t) \/ InjectDiscontinuity(t) \/ InjectEnd(t)
             \/ EnterDiscontinuity(t) \/ WokenAtDiscontinuity(t) \/ SinkDiscontinuity(t)
             \/ FlagDiscontinuity(t) \/ ReadTrackState(t) \/ WriteTrackState(t) \/ PairSignal(t)
      PROVE  MonitorTypes'
  <2>1. UNCHANGED mpc
    BY <1>3, Zenon DEF Fetch, InjectFragment, InjectDiscontinuity, InjectEnd, EnterDiscontinuity,
                WokenAtDiscontinuity, SinkDiscontinuity, FlagDiscontinuity, ReadTrackState,
                WriteTrackState, PairSignal, player
  <2> QED BY <1>1, <2>1, Zenon
<1>4. ASSUME NEW t \in Tracks, NEW pc \in {"idle", "reset", "retune"}, mpc' = [mpc EXCEPT ![t] = pc]
      PROVE  MonitorTypes'
  BY <1>4, ExceptType, Zenon DEF MonitorTypes
<1>5. ASSUME NEW t \in Tracks,
             \/ CheckForMediaTrackInjectionStall(t) \/ CheckForDiscontinuityStall(t)
             \/ StallReset(t) \/ StallRetune(t)
      PROVE  MonitorTypes'
  <2>1. \/ UNCHANGED mpc
        \/ mpc' = [mpc EXCEPT ![t] = "idle"] \/ mpc' = [mpc EXCEPT ![t] = "reset"]
        \/ mpc' = [mpc EXCEPT ![t] = "retune"]
    BY <1>5, Zenon DEF CheckForMediaTrackInjectionStall, CheckForDiscontinuityStall, StallReset,
                StallRetune, PtsStalled
  <2> QED BY <1>1, <1>4, <2>1
<1>6. CASE \/ Underflow \/ NotifyEOS \/ StartTask \/ NotifyEOSReached \/ ProcessCheck
           \/ ProcessBegin \/ ProcessAgain \/ ReportProgress \/ ReportedProgress \/ Crash
           \/ StopInjection \/ RestartInjection \/ ProcessEnd \/ ProcessReturn
  <2>1. UNCHANGED mpc
    BY <1>6, Zenon DEF Underflow, NotifyEOS, StartTask, NotifyEOSReached, ProcessCheck,
                ProcessBegin, ProcessAgain, ReportProgress, ReportedProgress, Crash,
                StopInjection, StopInjectionAbort, StopInjectionJoin, RestartInjection,
                ProcessEnd, ProcessReturn
  <2> QED BY <1>1, <2>1, Zenon
<1>7. ASSUME NEW c, AwaitDiscontinuity(c) \/ TeardownStream(c)
      PROVE  MonitorTypes'
  <2>1. UNCHANGED mpc
    BY <1>7, Zenon DEF AwaitDiscontinuity, TeardownStream
  <2> QED BY <1>1, <2>1, Zenon
<1>8. CASE Command \/ RetuneTeardown
  BY <1>7, <1>8, Zenon DEF Command, RetuneTeardown
<1>9. CASE TeardownWoken \/ StopStream \/ DeleteStream
  BY <1>1, <1>9, Zenon DEF TeardownWoken, StopStream, DeleteStream
<1> QED BY <1>2, <1>3, <1>5, <1>6, <1>8, <1>9, Steps, Zenon

LEMMA PlayerType == TypeOK /\ [Next]_vars => PlayerTypes'
<1> SUFFICES ASSUME PlayerTypes, [Next]_vars
             PROVE  PlayerTypes'
  BY DEF TypeOK
<1>1. QueueTypes /\ WorkerTypes /\ TeardownTypes /\ MonitorTypes
  BY PlayerParts, Zenon
<1>2. QueueTypes' /\ WorkerTypes' /\ TeardownTypes' /\ MonitorTypes'
  BY <1>1, QueueType, WorkerType, TeardownType, MonitorType, Zenon
<1>3. PlayerTypes' <=> QueueTypes' /\ WorkerTypes' /\ TeardownTypes' /\ MonitorTypes'
  <2>1. {"none"} \cup Task = {"none", "discontinuity", "eos", "retune"}
    BY DEF Task
  <2> QED BY <2>1, Zenon DEF PlayerTypes, QueueTypes, WorkerTypes, TeardownTypes, MonitorTypes,
                             Task, WorkerPC
<1> QED BY <1>2, <1>3, Zenon

LEMMA NextType == TypeOK /\ [Next]_vars => TypeOK'
  BY StreamType, InjectorType, SinkType, PlayerType DEF TypeOK

-----------------------------------------------------------------------------
(* The task that processes a discontinuity                                  *)

(* Between two tasks the thread runs none; so the id is of a task that is   *)
(* queued, or of the one that runs.                                         *)
TaskInv ==
    /\ wpc = "idle" => wtask = "none"
    /\ IdIsLive
    /\ OperationIsWorked

LEMMA InitTask == Init => TaskInv
  BY DEF Init, TaskInv, IdIsLive, OperationIsWorked

LEMMA NextTask == TypeOK /\ TaskInv /\ [Next]_vars => TaskInv'
<1> SUFFICES ASSUME TypeOK, TaskInv, [Next]_vars
             PROVE  TaskInv'
  OBVIOUS
<1> USE DEF player, tune, worker, teardown
<1>0. tasks \in Seq(Task) /\ mDiscontinuityTuneOperationId \in {0, 1}
  BY DEF TypeOK, PlayerTypes, Task
<1>1. ASSUME UNCHANGED <<worker, mDiscontinuityTuneOperationInProgress>>,
             InQueue("discontinuity") => InQueue("discontinuity")',
             \/ UNCHANGED mDiscontinuityTuneOperationId
             \/ InQueue("discontinuity")' \/ mDiscontinuityTuneOperationId' = 0
      PROVE  TaskInv'
  <2>1. OperationIsWorked'
    BY <1>1, Zenon DEF TaskInv, OperationIsWorked
  <2>2. IdIsLive'
    BY <1>1 DEF TaskInv, IdIsLive
  <2> QED BY <1>1, <2>1, <2>2 DEF TaskInv
<1>2. UNCHANGED tasks => (InQueue("discontinuity") => InQueue("discontinuity")')
  BY DEF InQueue
<1>3. CASE UNCHANGED vars
  BY <1>1, <1>2, <1>3 DEF vars
<1>4. ASSUME NEW t \in Tracks,
             \/ Fetch(t) \/ InjectFragment(t) \/ InjectDiscontinuity(t) \/ InjectEnd(t)
             \/ EnterDiscontinuity(t) \/ WokenAtDiscontinuity(t) \/ SinkDiscontinuity(t)
             \/ FlagDiscontinuity(t) \/ ReadTrackState(t) \/ WriteTrackState(t) \/ PairSignal(t)
             \/ CheckForDiscontinuityStall(t) \/ StallReset(t)
      PROVE  TaskInv'
  <2>1. UNCHANGED <<tasks, tune, worker>>
    BY <1>4 DEF Fetch, InjectFragment, InjectDiscontinuity, InjectEnd, EnterDiscontinuity,
                WokenAtDiscontinuity, SinkDiscontinuity, FlagDiscontinuity, ReadTrackState,
                WriteTrackState, PairSignal, CheckForDiscontinuityStall, StallReset
  <2> QED BY <1>1, <1>2, <2>1
<1>5. ASSUME UNCHANGED <<worker, mDiscontinuityTuneOperationInProgress>>,
             ScheduleRetune \/ UNCHANGED <<tasks, mDiscontinuityTuneOperationId>>
      PROVE  TaskInv'
  <2>1. CASE ScheduleRetune
    BY <1>0, <1>1, <1>5, <2>1, ScheduleRetuneIs DEF Task
  <2>2. CASE UNCHANGED <<tasks, mDiscontinuityTuneOperationId>>
    BY <1>1, <1>2, <1>5, <2>2
  <2> QED BY <1>5, <2>1, <2>2
<1>6. ASSUME NEW t \in Tracks, CheckForMediaTrackInjectionStall(t) \/ StallRetune(t)
      PROVE  TaskInv'
  <2>1. /\ UNCHANGED <<worker, mDiscontinuityTuneOperationInProgress>>
        /\ ScheduleRetune \/ UNCHANGED <<tasks, mDiscontinuityTuneOperationId>>
    BY <1>6 DEF CheckForMediaTrackInjectionStall, StallRetune
  <2> QED BY <1>5, <2>1
<1>7. CASE Underflow
  BY <1>5, <1>7 DEF Underflow
<1>8. CASE NotifyEOS
  <2>1. Schedule("eos") /\ UNCHANGED <<tune, worker>>
    BY <1>8 DEF NotifyEOS
  <2> QED BY <1>0, <1>1, <2>1, ScheduleIs DEF Task
<1>9. CASE StartTask
  <2>1. /\ Head(tasks) \in Task
        /\ InQueue("discontinuity") /\ Head(tasks) # "discontinuity" => InQueue("discontinuity")'
    BY <1>0, <1>9, TailIs DEF StartTask, Queued, Task
  <2>2. /\ wpc = "idle" /\ wtask' = Head(tasks) /\ wpc' \in {"teardown", "check"}
        /\ UNCHANGED tune
    BY <1>9 DEF StartTask
  <2> QED BY <2>1, <2>2 DEF TaskInv, IdIsLive, OperationIsWorked
<1>10. CASE NotifyEOSReached
  <2>1. InQueue("discontinuity") => InQueue("discontinuity")'
    BY <1>0, <1>10, TailIs DEF NotifyEOSReached, Queued, Task
  <2>2. /\ wpc = "idle" /\ UNCHANGED tune
        /\ \/ wpc' = "check" /\ wtask' = "eos"
           \/ wpc' \in {"idle", "complete"} /\ UNCHANGED wtask
    BY <1>10 DEF NotifyEOSReached
  <2> QED BY <2>1, <2>2 DEF TaskInv, IdIsLive, OperationIsWorked
<1>11. CASE \/ ProcessCheck \/ ProcessBegin \/ ProcessAgain \/ ReportProgress
            \/ ReportedProgress \/ Crash \/ ProcessEnd \/ StopInjection
  <2>1. UNCHANGED <<wtask, mDiscontinuityTuneOperationId, tasks>> /\ wpc' # "idle"
    BY <1>11 DEF ProcessCheck, ProcessBegin, ProcessAgain, ReportProgress, ReportedProgress,
                 Crash, ProcessEnd, StopInjection, StopInjectionAbort, StopInjectionJoin, Step
  <2>2. OperationIsWorked'
    BY <1>11 DEF ProcessCheck, ProcessBegin, ProcessAgain, ReportProgress, ReportedProgress,
                 Crash, ProcessEnd, StopInjection, StopInjectionAbort, StopInjectionJoin, Step,
                 UsesStream, TaskInv, OperationIsWorked
  <2> QED BY <1>2, <2>1, <2>2 DEF TaskInv, IdIsLive
<1>12. CASE RestartInjection
  <2>1. InQueue("discontinuity") => InQueue("discontinuity")'
    BY <1>0, <1>12, WithoutIs DEF RestartInjection, Task
  <2>2. wpc' = "end" /\ UNCHANGED <<wtask, tune>>
    BY <1>12 DEF RestartInjection, Step
  <2>3. OperationIsWorked'
    BY <2>2, Zenon DEF OperationIsWorked
  <2>4. IdIsLive'
    BY <2>1, <2>2 DEF TaskInv, IdIsLive
  <2> QED BY <2>2, <2>3, <2>4 DEF TaskInv
<1>13. CASE ProcessReturn
  <2>1. /\ wpc = "return" /\ wtask' = "none"
        /\ mDiscontinuityTuneOperationId' =
              IF wtask = "discontinuity" THEN 0 ELSE mDiscontinuityTuneOperationId
        /\ UNCHANGED <<tasks, mDiscontinuityTuneOperationInProgress>>
    BY <1>13 DEF ProcessReturn
  <2>2. ~mDiscontinuityTuneOperationInProgress
    BY <2>1, Zenon DEF TaskInv, OperationIsWorked
  <2>3. OperationIsWorked'
    BY <2>1, <2>2, Zenon DEF OperationIsWorked
  <2>4. IdIsLive'
    BY <1>2, <2>1 DEF TaskInv, IdIsLive
  <2> QED BY <2>1, <2>3, <2>4 DEF TaskInv
<1>14. ASSUME NEW c, AwaitDiscontinuity(c) \/ TeardownStream(c)
       PROVE  TaskInv'
  <2>1. /\ UNCHANGED <<worker, mDiscontinuityTuneOperationInProgress>>
        /\ \/ UNCHANGED <<tasks, mDiscontinuityTuneOperationId>>
           \/ mDiscontinuityTuneOperationId' = 0
    BY <1>14 DEF AwaitDiscontinuity, TeardownStream
  <2>2. OperationIsWorked'
    BY <2>1, Zenon DEF TaskInv, OperationIsWorked
  <2>3. IdIsLive'
    BY <1>2, <2>1 DEF TaskInv, IdIsLive
  <2> QED BY <2>1, <2>2, <2>3 DEF TaskInv
<1>15. CASE Command \/ RetuneTeardown
  BY <1>14, <1>15 DEF Command, RetuneTeardown
<1>16. CASE TeardownWoken \/ StopStream \/ DeleteStream
  <2>1. UNCHANGED <<tasks, tune, worker>>
    BY <1>16 DEF TeardownWoken, StopStream, DeleteStream
  <2> QED BY <1>1, <1>2, <2>1
<1> QED BY <1>3, <1>4, <1>6, <1>7, <1>8, <1>9, <1>10, <1>11, <1>12, <1>13, <1>15, <1>16, Steps

\* ScheduleRetune, ProcessPendingDiscontinuity and TeardownStream: the id that keeps a
\* second discontinuity task away is of a task that is queued or runs, and the flag
\* TeardownStream waits by is set only while the task is at work.
THEOREM TaskLives == Spec => []TaskIsAlive
<1> DEFINE Inv == TypeOK /\ TaskInv
<1>1. Init => Inv
  BY InitType, InitTask
<1>2. Inv /\ [Next]_vars => Inv'
  BY NextType, NextTask
<1>3. Inv => TaskIsAlive
  BY DEF TaskInv, TaskIsAlive
<1> QED BY <1>1, <1>2, <1>3, PTL DEF Spec

-----------------------------------------------------------------------------
(* The pairing                                                              *)

(* An injector that waits has its bit: whoever takes the bit away wakes it. *)
WaitInv ==
    /\ \A t \in Tracks : ipc[t] = "wait" => t \in mTrackState
    /\ NoMutualWait

LEMMA InitWait == Init => WaitInv
  BY DEF Init, WaitInv, NoMutualWait, Each, Tracks

\* A step that lets no injector enter the wait and takes no bit away.
LEMMA WaitStays ==
    ASSUME WaitInv, mTrackState \subseteq mTrackState',
           \A t \in Tracks : ipc'[t] = "wait" => ipc[t] = "wait"
    PROVE  WaitInv'
  BY DEF WaitInv, NoMutualWait, Tracks

\* A signal when at most one injector waits leaves none that waits.
LEMMA SignalWakes ==
    ASSUME WaitInv, NEW pc \in [Tracks -> Pcs], SignalState(pc),
           \A t \in Tracks : pc[t] = "wait" => ipc[t] = "wait"
    PROVE  \A t \in Tracks : ipc'[t] # "wait"
<1>1. /\ \A t \in Tracks : ipc'[t] = pc[t] \/ (pc[t] = "wait" /\ ipc'[t] = "woken")
      /\ (\E t \in Tracks : pc[t] = "wait") =>
            \E t \in Tracks : pc[t] = "wait" /\ ipc'[t] = "woken"
  BY SignalIs
<1>2. \A t, u \in Tracks : pc[t] = "wait" /\ pc[u] = "wait" => t = u
  BY DEF WaitInv, NoMutualWait, Tracks
<1> QED BY <1>1, <1>2

LEMMA NextWait == TypeOK /\ WaitInv /\ [Next]_vars => WaitInv'
<1> SUFFICES ASSUME TypeOK, WaitInv, [Next]_vars
             PROVE  WaitInv'
  OBVIOUS
<1> USE DEF injector, pairing
<1>0. ipc \in [Tracks -> Pcs]
  BY DEF TypeOK, InjectorTypes, Pcs
<1>1. (\A t \in Tracks : ipc'[t] # "wait") => WaitInv'
  BY DEF WaitInv, NoMutualWait, Tracks
<1>2. CASE UNCHANGED vars
  BY <1>2, WaitStays DEF vars
<1>3. ASSUME NEW t \in Tracks,
             \/ Fetch(t) \/ InjectFragment(t) \/ InjectDiscontinuity(t) \/ InjectEnd(t)
             \/ WokenAtDiscontinuity(t) \/ SinkDiscontinuity(t) \/ FlagDiscontinuity(t)
             \/ ReadTrackState(t) \/ CheckForDiscontinuityStall(t) \/ StallReset(t)
             \/ StallRetune(t)
      PROVE  WaitInv'
  <2>1. UNCHANGED mTrackState
    BY <1>3 DEF Fetch, InjectFragment, InjectDiscontinuity, InjectEnd, WokenAtDiscontinuity,
                SinkDiscontinuity, FlagDiscontinuity, ReadTrackState,
                CheckForDiscontinuityStall, StallReset, StallRetune
  <2>2. \/ UNCHANGED ipc
        \/ \E pc \in Pcs \ {"wait"} : ipc' = [ipc EXCEPT ![t] = pc]
    BY <1>3 DEF Fetch, InjectFragment, InjectDiscontinuity, InjectEnd, WokenAtDiscontinuity,
                SinkDiscontinuity, FlagDiscontinuity, ReadTrackState,
                CheckForDiscontinuityStall, StallReset, StallRetune, Pcs
  <2>3. \A u \in Tracks : ipc'[u] = "wait" => ipc[u] = "wait"
    BY <1>0, <2>2
  <2> QED BY <2>1, <2>3, WaitStays
<1>4. ASSUME NEW t \in Tracks, EnterDiscontinuity(t)
      PROVE  WaitInv'
  <2>1. /\ mTrackState' = mTrackState \cup {t} /\ t \in mTrackState'
        /\ ipc' = [ipc EXCEPT ![t] = IF mTrackState' = {t} THEN "wait" ELSE "sink"]
    BY <1>4 DEF EnterDiscontinuity
  <2>2. CASE mTrackState' = {t}
    <3>1. ipc'[t] = "wait" /\ \A u \in Tracks : u # t => ipc'[u] = ipc[u] /\ ipc[u] # "wait"
      BY <1>0, <2>1, <2>2 DEF WaitInv
    <3> QED BY <2>1, <3>1 DEF WaitInv, NoMutualWait, Tracks
  <2>3. CASE mTrackState' # {t}
    <3>1. \A u \in Tracks : ipc'[u] = "wait" => ipc[u] = "wait"
      BY <1>0, <2>1, <2>3
    <3> QED BY <2>1, <3>1, WaitStays
  <2> QED BY <2>2, <2>3
<1>5. ASSUME NEW t \in Tracks, WriteTrackState(t)
      PROVE  WaitInv'
  <2>1. [ipc EXCEPT ![t] = "run"] \in [Tracks -> Pcs]
    BY <1>0, ExceptType DEF Pcs
  <2>2. \A u \in Tracks : [ipc EXCEPT ![t] = "run"][u] = "wait" => ipc[u] = "wait"
    BY <1>0
  <2> QED BY <1>1, <1>5, <2>1, <2>2, SignalWakes DEF WriteTrackState
<1>6. ASSUME NEW t \in Tracks, PairSignal(t)
      PROVE  WaitInv'
  <2>1. [ipc EXCEPT ![t] = "done"] \in [Tracks -> Pcs]
    BY <1>0, ExceptType DEF Pcs
  <2>2. \A u \in Tracks : [ipc EXCEPT ![t] = "done"][u] = "wait" => ipc[u] = "wait"
    BY <1>0
  <2> QED BY <1>1, <1>6, <2>1, <2>2, SignalWakes DEF PairSignal
<1>7. ASSUME NEW t \in Tracks, CheckForMediaTrackInjectionStall(t)
      PROVE  WaitInv'
  <2>1. UNCHANGED <<ipc, mTrackState>> \/ SignalState(ipc)
    BY <1>7 DEF CheckForMediaTrackInjectionStall
  <2> QED BY <1>0, <1>1, <2>1, SignalWakes, WaitStays
<1>8. CASE \/ Underflow \/ NotifyEOS \/ StartTask \/ NotifyEOSReached \/ ProcessCheck
           \/ ProcessBegin \/ ProcessAgain \/ ReportProgress \/ ReportedProgress \/ Crash
           \/ ProcessEnd \/ ProcessReturn
  <2>1. UNCHANGED <<ipc, mTrackState>>
    BY <1>8 DEF Underflow, NotifyEOS, StartTask, NotifyEOSReached, ProcessCheck, ProcessBegin,
                ProcessAgain, ReportProgress, ReportedProgress, Crash, ProcessEnd,
                ProcessReturn
  <2> QED BY <2>1, WaitStays
<1>9. CASE StopInjection
  <2>1. UNCHANGED <<ipc, mTrackState>> \/ SignalState(ipc)
    BY <1>9 DEF StopInjection, StopInjectionAbort, StopInjectionJoin
  <2> QED BY <1>0, <1>1, <2>1, SignalWakes, WaitStays
<1>10. CASE RestartInjection
  BY <1>1, <1>10 DEF RestartInjection, Each
<1>11. CASE StopStream
  <2>1. \A t \in Tracks : ipc'[t] # "wait"
    BY <1>11 DEF StopStream
  <2> QED BY <1>1, <2>1
<1>12. CASE Command \/ RetuneTeardown \/ TeardownWoken \/ DeleteStream
  <2>1. UNCHANGED <<ipc, mTrackState>>
    BY <1>12 DEF Command, RetuneTeardown, AwaitDiscontinuity, TeardownStream, TeardownWoken,
                 DeleteStream
  <2> QED BY <2>1, WaitStays
<1> QED BY <1>2, <1>3, <1>4, <1>5, <1>6, <1>7, <1>8, <1>9, <1>10, <1>11, <1>12, Steps

\* StreamAbstractionAAMP::ProcessDiscontinuity: the two injectors never wait for each
\* other, though bits are taken back and written without the lock.
THEOREM NoMutualWaits == Spec => []NoMutualWait
<1> DEFINE Inv == TypeOK /\ WaitInv
<1>1. Init => Inv
  BY InitType, InitWait
<1>2. Inv /\ [Next]_vars => Inv'
  BY NextType, NextWait
<1>3. Inv => NoMutualWait
  BY DEF WaitInv
<1> QED BY <1>1, <1>2, <1>3, PTL DEF Spec

-----------------------------------------------------------------------------
(* The flush                                                                *)

AtMet == sent["video"] + 1 \in layout["video"] /\ cleared["video"] = sent["video"] + 1
Parked == ipc["video"] \in {"signal", "done"} /\ AtMet
AtWork == wpc \in {"report", "progress", "abort video", "join video", "abort audio",
                   "join audio", "restart"}

(* The video injector is inside ProcessDiscontinuity only at a discontinuity; *)
(* its flag is set only when it has left it to end; and the task goes on to  *)
(* restart the injection only if it has seen the flag.                       *)
ParkInv ==
    /\ ipc["video"] \notin {"run", "done"} => AtMet
    /\ mProcessingDiscontinuity["video"] => Parked
    /\ AtWork => Parked /\ ~mProcessingDiscontinuity["video"]

LEMMA InitPark == Init => ParkInv
  BY DEF Init, ParkInv, AtWork, Each, Tracks

\* The parts of a step that matter: where the video injector goes, whether its flag is
\* set, and whether the task begins its work.
Meeting == <<layout, sent["video"], cleared["video"]>>

LEMMA ParkStays ==
    ASSUME ParkInv, UNCHANGED Meeting,
           \/ ipc'["video"] = ipc["video"]
           \/ ipc["video"] \notin {"run", "signal", "done"}
           \/ ipc["video"] = "run" /\ ipc'["video"] = "done"
           \/ ipc["video"] = "signal" /\ ipc'["video"] = "done",
           mProcessingDiscontinuity'["video"] => mProcessingDiscontinuity["video"],
           AtWork' => AtWork
    PROVE  ParkInv'
  BY DEF ParkInv, Parked, AtMet, Meeting

LEMMA NextPark == TypeOK /\ ParkInv /\ [Next]_vars => ParkInv'
<1> SUFFICES ASSUME TypeOK, ParkInv, [Next]_vars
             PROVE  ParkInv'
  OBVIOUS
<1> USE DEF stream, injector, pairing, flags, player, worker, Meeting
<1>0. /\ ipc \in [Tracks -> Pcs] /\ "video" \in Tracks
      /\ sent \in [Tracks -> 0 .. NFragments] /\ cleared \in [Tracks -> 0 .. NFragments]
      /\ mProcessingDiscontinuity \in [Tracks -> BOOLEAN]
  BY DEF TypeOK, StreamTypes, InjectorTypes, SinkTypes, Pcs, Tracks
<1>1. ResetFlags => ~mProcessingDiscontinuity'["video"]
  BY DEF ResetFlags, Each, Tracks
<1>2. ASSUME NEW pc \in [Tracks -> Pcs], SignalState(pc)
      PROVE  \/ ipc'["video"] = pc["video"]
             \/ pc["video"] = "wait" /\ ipc'["video"] = "woken"
  BY <1>0, <1>2, SignalIs
<1>3. UNCHANGED wpc => (AtWork' => AtWork)
  BY DEF AtWork
<1>4. CASE UNCHANGED vars
  BY <1>3, <1>4, ParkStays DEF vars
<1>5. ASSUME NEW t \in Tracks,
             \/ Fetch(t) \/ CheckForDiscontinuityStall(t) \/ StallReset(t) \/ StallRetune(t)
      PROVE  ParkInv'
  <2>1. UNCHANGED <<layout, sent, cleared, ipc, wpc>>
    BY <1>5 DEF Fetch, CheckForDiscontinuityStall, StallReset, StallRetune
  <2>2. ResetFlags \/ UNCHANGED mProcessingDiscontinuity
    BY <1>5 DEF Fetch, CheckForDiscontinuityStall, StallReset, StallRetune
  <2> QED BY <1>1, <1>3, <2>1, <2>2, ParkStays
<1>6. ASSUME NEW t \in Tracks, InjectFragment(t)
      PROVE  ParkInv'
  <2>1. /\ sent' = [sent EXCEPT ![t] = sent[t] + 1] /\ ipc[t] = "run"
        /\ UNCHANGED <<layout, cleared, ipc, mProcessingDiscontinuity, wpc>>
    BY <1>6 DEF InjectFragment
  <2>2. CASE t = "video"
    BY <1>3, <2>1, <2>2 DEF ParkInv, Parked
  <2>3. CASE t # "video"
    <3>1. sent'["video"] = sent["video"]
      BY <1>0, <2>1, <2>3
    <3> QED BY <1>3, <2>1, <3>1, ParkStays
  <2> QED BY <2>2, <2>3
<1>7. ASSUME NEW t \in Tracks, InjectDiscontinuity(t)
      PROVE  ParkInv'
  <2>1. /\ cleared' = [cleared EXCEPT ![t] = sent[t] + 1] /\ ipc[t] = "run"
        /\ sent[t] + 1 \in layout[t]
        /\ UNCHANGED <<layout, sent, mProcessingDiscontinuity, wpc>>
        /\ UNCHANGED ipc \/ ipc' = [ipc EXCEPT ![t] = "enter"]
    BY <1>7 DEF InjectDiscontinuity, AtDiscontinuity
  <2>2. CASE t = "video"
    <3>1. cleared'["video"] = sent["video"] + 1
      BY <1>0, <2>1, <2>2
    <3>2. AtMet'
      BY <2>1, <2>2, <3>1 DEF AtMet
    <3> QED BY <1>3, <2>1, <2>2, <3>2 DEF ParkInv, Parked
  <2>3. CASE t # "video"
    <3>1. cleared'["video"] = cleared["video"] /\ ipc'["video"] = ipc["video"]
      BY <1>0, <2>1, <2>3
    <3> QED BY <1>3, <2>1, <3>1, ParkStays
  <2> QED BY <2>2, <2>3
<1>8. ASSUME NEW t \in Tracks,
             \/ InjectEnd(t) \/ EnterDiscontinuity(t) \/ WokenAtDiscontinuity(t)
             \/ SinkDiscontinuity(t) \/ ReadTrackState(t)
      PROVE  ParkInv'
  <2>1. UNCHANGED <<layout, sent, cleared, mProcessingDiscontinuity, wpc>>
    BY <1>8 DEF InjectEnd, EnterDiscontinuity, WokenAtDiscontinuity, SinkDiscontinuity,
                ReadTrackState
  <2>2. \/ ipc[t] = "run" /\ ipc' = [ipc EXCEPT ![t] = "done"]
        \/ /\ ipc[t] \notin {"run", "signal", "done"}
           /\ \E pc \in Pcs : ipc' = [ipc EXCEPT ![t] = pc]
    BY <1>8 DEF InjectEnd, EnterDiscontinuity, WokenAtDiscontinuity, SinkDiscontinuity,
                ReadTrackState, Pcs
  <2>3. \/ ipc'["video"] = ipc["video"]
        \/ ipc["video"] = "run" /\ ipc'["video"] = "done"
        \/ ipc["video"] \notin {"run", "signal", "done"} /\ ipc'["video"] \in Pcs
    BY <1>0, <2>2
  <2> QED BY <1>3, <2>1, <2>3, ParkStays DEF Pcs
<1>9. ASSUME NEW t \in Tracks, FlagDiscontinuity(t)
      PROVE  ParkInv'
  <2>1. /\ mProcessingDiscontinuity' = [mProcessingDiscontinuity EXCEPT ![t] = TRUE]
        /\ ipc[t] = "flag" /\ ipc' = [ipc EXCEPT ![t] = "signal"]
        /\ UNCHANGED <<layout, sent, cleared, wpc>>
    BY <1>9 DEF FlagDiscontinuity
  <2>2. CASE t = "video"
    <3>1. ipc'["video"] = "signal"
      BY <1>0, <2>1, <2>2
    <3>2. AtMet /\ AtMet' /\ ~AtWork
      BY <2>1, <2>2 DEF ParkInv, Parked, AtMet
    <3> QED BY <1>3, <2>1, <3>1, <3>2 DEF ParkInv, Parked
  <2>3. CASE t # "video"
    <3>1. /\ ipc'["video"] = ipc["video"]
          /\ mProcessingDiscontinuity'["video"] = mProcessingDiscontinuity["video"]
      BY <1>0, <2>1, <2>3
    <3> QED BY <1>3, <2>1, <3>1, ParkStays
  <2> QED BY <2>2, <2>3
<1>10. ASSUME NEW t \in Tracks, WriteTrackState(t)
       PROVE  ParkInv'
  <2>1. /\ UNCHANGED <<layout, sent, cleared, mProcessingDiscontinuity, wpc>>
        /\ ipc[t] = "write" /\ SignalState([ipc EXCEPT ![t] = "run"])
    BY <1>10 DEF WriteTrackState
  <2>2. [ipc EXCEPT ![t] = "run"] \in [Tracks -> Pcs]
    BY <1>0, ExceptType DEF Pcs
  <2>3. \/ ipc'["video"] = [ipc EXCEPT ![t] = "run"]["video"]
        \/ [ipc EXCEPT ![t] = "run"]["video"] = "wait" /\ ipc'["video"] = "woken"
    BY <1>2, <2>1, <2>2
  <2>4. \/ ipc'["video"] = ipc["video"]
        \/ ipc["video"] \in {"wait", "write"} /\ ipc'["video"] \in {"run", "woken"}
    BY <1>0, <2>1, <2>3
  <2> QED BY <1>3, <2>1, <2>4, ParkStays
<1>11. ASSUME NEW t \in Tracks, PairSignal(t)
       PROVE  ParkInv'
  <2>1. /\ UNCHANGED <<layout, sent, cleared, mProcessingDiscontinuity, wpc>>
        /\ ipc[t] = "signal" /\ SignalState([ipc EXCEPT ![t] = "done"])
    BY <1>11 DEF PairSignal
  <2>2. [ipc EXCEPT ![t] = "done"] \in [Tracks -> Pcs]
    BY <1>0, ExceptType DEF Pcs
  <2>3. \/ ipc'["video"] = [ipc EXCEPT ![t] = "done"]["video"]
        \/ [ipc EXCEPT ![t] = "done"]["video"] = "wait" /\ ipc'["video"] = "woken"
    BY <1>2, <2>1, <2>2
  <2>4. \/ ipc'["video"] = ipc["video"]
        \/ ipc["video"] = "wait" /\ ipc'["video"] = "woken"
        \/ ipc["video"] = "signal" /\ ipc'["video"] = "done"
    BY <1>0, <2>1, <2>3
  <2> QED BY <1>3, <2>1, <2>4, ParkStays
<1>12. ASSUME NEW t \in Tracks, CheckForMediaTrackInjectionStall(t)
       PROVE  ParkInv'
  <2>1. /\ UNCHANGED <<layout, sent, cleared, mProcessingDiscontinuity, wpc>>
        /\ UNCHANGED ipc \/ SignalState(ipc)
    BY <1>12 DEF CheckForMediaTrackInjectionStall
  <2>2. \/ ipc'["video"] = ipc["video"]
        \/ ipc["video"] = "wait" /\ ipc'["video"] = "woken"
    BY <1>0, <1>2, <2>1
  <2> QED BY <1>3, <2>1, <2>2, ParkStays
<1>13. CASE \/ Underflow \/ NotifyEOS \/ StartTask \/ NotifyEOSReached \/ ProcessCheck
            \/ ProcessBegin \/ ReportProgress \/ ReportedProgress \/ Crash
            \/ ProcessEnd \/ ProcessReturn
  <2>1. UNCHANGED <<layout, sent, cleared, ipc, mProcessingDiscontinuity>>
    BY <1>13 DEF Underflow, NotifyEOS, StartTask, NotifyEOSReached, ProcessCheck, ProcessBegin,
                 ReportProgress, ReportedProgress, Crash, ProcessEnd, ProcessReturn
  <2>2. AtWork' => AtWork
    BY <1>13 DEF Underflow, NotifyEOS, StartTask, NotifyEOSReached, ProcessCheck, ProcessBegin,
                 ReportProgress, ReportedProgress, Crash, ProcessEnd, ProcessReturn, Step,
                 AtWork
  <2> QED BY <2>1, <2>2, ParkStays
<1>14. CASE ProcessAgain
  <2>1. UNCHANGED <<layout, sent, cleared, ipc>>
    BY <1>14 DEF ProcessAgain
  <2>2. CASE wpc' = "end" /\ UNCHANGED mProcessingDiscontinuity
    BY <2>1, <2>2, ParkStays DEF AtWork
  <2>3. CASE DiscontinuitySeenInAllTracks /\ ResetFlags
    <3>1. mProcessingDiscontinuity["video"]
      BY <1>14, <2>3 DEF ProcessAgain, UsesStream, DiscontinuitySeenInAllTracks
    <3>2. Parked /\ Parked'
      BY <2>1, <3>1 DEF ParkInv, Parked, AtMet
    <3> QED BY <1>1, <2>3, <3>2 DEF ParkInv, Parked
  <2> QED BY <1>14, <2>2, <2>3 DEF ProcessAgain, Step
<1>15. CASE StopInjection
  <2>1. /\ UNCHANGED <<layout, sent, cleared, mProcessingDiscontinuity>>
        /\ UNCHANGED ipc \/ SignalState(ipc)
    BY <1>15 DEF StopInjection, StopInjectionAbort, StopInjectionJoin
  <2>2. AtWork
    BY <1>15 DEF StopInjection, StopInjectionAbort, StopInjectionJoin, AtWork
  <2>3. \/ ipc'["video"] = ipc["video"]
        \/ ipc["video"] = "wait" /\ ipc'["video"] = "woken"
    BY <1>0, <1>2, <2>1
  <2> QED BY <2>1, <2>2, <2>3, ParkStays
<1>16. CASE RestartInjection
  <2>1. wpc = "restart" /\ wpc' = "end" /\ ipc' = Each("run") /\ UNCHANGED mProcessingDiscontinuity
    BY <1>16 DEF RestartInjection, Step
  <2>2. ipc'["video"] = "run"
    BY <1>0, <2>1 DEF Each
  <2> QED BY <2>1, <2>2 DEF ParkInv, AtWork
<1>17. CASE Command \/ RetuneTeardown \/ TeardownWoken \/ StopStream \/ DeleteStream
  <2>1. UNCHANGED <<layout, sent, cleared, wpc>>
    BY <1>17 DEF Command, RetuneTeardown, AwaitDiscontinuity, TeardownStream, TeardownWoken,
                 StopStream, DeleteStream
  <2>2. ResetFlags \/ UNCHANGED mProcessingDiscontinuity
    BY <1>17 DEF Command, RetuneTeardown, AwaitDiscontinuity, TeardownStream, TeardownWoken,
                 StopStream, DeleteStream
  <2>3. \/ ipc'["video"] = ipc["video"]
        \/ ipc["video"] = "wait" /\ ipc'["video"] = "woken"
    BY <1>0, <1>17 DEF Command, RetuneTeardown, AwaitDiscontinuity, TeardownStream,
                 TeardownWoken, StopStream, DeleteStream
  <2> QED BY <1>1, <1>3, <2>1, <2>2, <2>3, ParkStays
<1> QED BY <1>4, <1>5, <1>6, <1>7, <1>8, <1>9, <1>10, <1>11, <1>12, <1>13, <1>14, <1>15, <1>16,
           <1>17, Steps

\* ProcessPendingDiscontinuity: the sink is flushed and the injection restarted only
\* while the video injector is parked at the discontinuity, however late the EOS, the
\* underflow or the stall check comes.
THEOREM FlushesAtDiscontinuity == Spec => FlushAtDiscontinuity
<1> DEFINE Inv == TypeOK /\ ParkInv
<1>1. Init => Inv
  BY InitType, InitPark
<1>2. Inv /\ [Next]_vars => Inv'
  BY NextType, NextPark
<1>3. Inv /\ [Next]_vars =>
         [RestartInjection => /\ sent["video"] + 1 \in layout["video"]
                              /\ cleared["video"] = sent["video"] + 1]_vars
  BY DEF ParkInv, AtWork, Parked, AtMet, RestartInjection
<1> QED BY <1>1, <1>2, <1>3, PTL DEF Spec, FlushAtDiscontinuity
=============================================================================
