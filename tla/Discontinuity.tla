--------------------------- MODULE Discontinuity ---------------------------
(***************************************************************************)
(* A discontinuity of the stream: the two injector threads pair it in      *)
(* StreamAbstractionAAMP::ProcessDiscontinuity, the buffer monitors break  *)
(* up a pair that does not come, and PrivateInstanceAAMP restarts the      *)
(* injection (ProcessPendingDiscontinuity) on its asynchronous task thread *)
(* while the application may tear the stream down (TeardownStream).        *)
(*                                                                         *)
(* A section under mStateLock (pairing) or mLock (player) is one action;   *)
(* what the code does between two sections is a step of its own.  A track  *)
(* is a row of fragments of equal length; a fragment is known by its       *)
(* number.                                                                 *)
(***************************************************************************)
EXTENDS Integers, Sequences, SequencesExt

CONSTANTS
    NFragments,          \* fragments of each track
    Layouts,             \* the discontinuities [video |-> .., audio |-> ..] a stream may have
    maxCached,           \* maxCachedFragmentsPerTrack
    Configs,             \* settings [RetuneForUnpair |-> .., IsDashAsset |-> ..]
    EsChanges,           \* the audio codec may change in front of a discontinuity
    Commands             \* commands of the application that tear the stream down

ASSUME DiscontinuityAssumption ==
    /\ NFragments \in Nat \ {0} /\ maxCached \in Nat \ {0}
    /\ Layouts \subseteq [{"video", "audio"} -> SUBSET (1 .. NFragments)]
    /\ Configs \subseteq [RetuneForUnpair : BOOLEAN, IsDashAsset : BOOLEAN]
    /\ EsChanges \in BOOLEAN
    /\ Commands \subseteq {"seek", "rate"}

Tracks == {"video", "audio"}
Other(t) == IF t = "video" THEN "audio" ELSE "video"
Each(v) == [t \in Tracks |-> v]

VARIABLES
    config,              \* RetuneForUnpair: eAAMPConfig_RetuneForUnpairDiscontinuity;
                         \* IsDashAsset: a broken pair is remembered for the other track
    layout,              \* fragments that begin with a discontinuity; 1: those in front of it
                         \* could not be downloaded
    sent, cached,        \* fragments injected and released; fragments waiting
    cleared,             \* the last discontinuity whose flag the injector cleared
    total,               \* totalInjectedDuration since the injector started
    ipc,                 \* injector thread of the track
    abortInject,         \* the track's abort flags, see IsInjectionAborted
    mTrackState,         \* set of tracks at a discontinuity, under mStateLock mostly
    saved,               \* mTrackState as read by an injector that resets its bit
    mESChangeStatus,
    mProcessingDiscontinuity, mIsDiscontinuityIgnored,
    buffered, sinkEos,   \* sink: it has a buffer, and an EOS, of the track
    eosSignalled,        \* sink: EOS was handed to the player since the last flush
    tasks,               \* queue of the scheduler: tasks not yet started
    mDiscontinuityTuneOperationId, \* 0, or 1 for the id of the task
    mDiscontinuityTuneOperationInProgress,
    wpc, wtask,          \* the thread of the tasks and what it runs
    mpc,                 \* CheckForDiscontinuityStall of a buffer monitor
    stateLock,           \* the monitor that keeps mStateLock over several steps
    tpc, tby             \* TeardownStream and who called it

stream   == <<config, layout, sent, cached, cleared, total>>
injector == <<ipc, abortInject, saved>>
pairing  == <<mTrackState, stateLock, mESChangeStatus>>
flags    == <<mProcessingDiscontinuity, mIsDiscontinuityIgnored>>
sink     == <<buffered, sinkEos, eosSignalled>>
tune     == <<mDiscontinuityTuneOperationId, mDiscontinuityTuneOperationInProgress>>
worker   == <<wpc, wtask>>
teardown == <<tpc, tby>>
player   == <<tasks, tune, worker, mpc, teardown>>
vars     == <<stream, injector, pairing, flags, sink, player>>

StreamTypes ==
    /\ config \in Configs /\ layout \in Layouts
    /\ sent \in [Tracks -> 0 .. NFragments] /\ cached \in [Tracks -> 0 .. maxCached]
    /\ cleared \in [Tracks -> 0 .. NFragments] /\ total \in [Tracks -> 0 .. NFragments]
    /\ \A t \in Tracks : sent[t] + cached[t] <= NFragments /\ total[t] <= sent[t]

InjectorTypes ==
    /\ ipc \in [Tracks -> {"run", "enter", "wait", "woken", "sink", "flag", "read",
                           "write", "signal", "done"}]
    /\ abortInject \in [Tracks -> BOOLEAN]
    /\ mTrackState \subseteq Tracks /\ saved \in [Tracks -> SUBSET Tracks]
    /\ stateLock \subseteq Tracks /\ mESChangeStatus \in BOOLEAN

SinkTypes ==
    /\ mProcessingDiscontinuity \in [Tracks -> BOOLEAN]
    /\ mIsDiscontinuityIgnored \in [Tracks -> BOOLEAN]
    /\ buffered \in [Tracks -> BOOLEAN] /\ sinkEos \in [Tracks -> BOOLEAN]
    /\ eosSignalled \in BOOLEAN

PlayerTypes ==
    /\ tasks \in Seq({"discontinuity", "eos", "retune"})
    /\ mDiscontinuityTuneOperationId \in {0, 1}
    /\ mDiscontinuityTuneOperationInProgress \in BOOLEAN
    /\ wpc \in {"idle", "check", "begin", "again", "report", "progress", "abort video",
                "join video", "abort audio", "join audio", "restart", "end", "return",
                "teardown", "complete", "crash"}
    /\ wtask \in {"none", "discontinuity", "eos", "retune"}
    /\ mpc \in [Tracks -> {"idle", "reset", "retune"}]
    /\ tpc \in {"none", "wait", "woken", "stop", "join", "deleted"}
    /\ tby \in {"none", "seek", "rate", "retune"}

TypeOK == StreamTypes /\ InjectorTypes /\ SinkTypes /\ PlayerTypes

Init ==
    /\ config \in Configs /\ layout \in Layouts
    /\ sent = Each(0) /\ cached = Each(0) /\ cleared = Each(0) /\ total = Each(0)
    /\ ipc = Each("run") /\ abortInject = Each(FALSE) /\ saved = Each({})
    /\ mTrackState = {} /\ mESChangeStatus = FALSE
    /\ mProcessingDiscontinuity = Each(FALSE) /\ mIsDiscontinuityIgnored = Each(FALSE)
    /\ buffered = Each(FALSE) /\ sinkEos = Each(FALSE) /\ eosSignalled = FALSE
    /\ tasks = <<>> /\ mDiscontinuityTuneOperationId = 0
    /\ mDiscontinuityTuneOperationInProgress = FALSE
    /\ wpc = "idle" /\ wtask = "none" /\ mpc = Each("idle") /\ stateLock = {}
    /\ tpc = "none" /\ tby = "none"

--------------------------------------------------------------------------
(* The collectors and the injectors. *)

\* The stream is torn down: no thread of it may start anything new.
Stopping == tpc \in {"stop", "join", "deleted"}

\* The collector caches the next fragment; a change of the audio codec is seen
\* when the fragment behind a discontinuity is selected.
Fetch(t) ==
    /\ ~Stopping /\ cached[t] < maxCached /\ sent[t] + cached[t] < NFragments
    /\ cached' = [cached EXCEPT ![t] = @ + 1]
    /\ mESChangeStatus' \in
          IF EsChanges /\ t = "audio" /\ sent[t] + cached[t] + 1 \in layout[t]
          THEN {mESChangeStatus, TRUE} ELSE {mESChangeStatus}
    /\ UNCHANGED <<config, layout, sent, cleared, total, injector, mTrackState, stateLock,
                   flags, sink, player>>

\* eosReached: the collector has cached the last fragment.
EosReached(t) == sent[t] + cached[t] = NFragments

\* The flag cachedFragment->discontinuity of the fragment the injector is at.
AtDiscontinuity(t) == sent[t] + 1 \in layout[t] /\ sent[t] + 1 > cleared[t]

InjectFragment(t) ==
    /\ ipc[t] = "run" /\ ~abortInject[t] /\ cached[t] > 0 /\ ~AtDiscontinuity(t)
    /\ sent' = [sent EXCEPT ![t] = @ + 1]
    /\ cached' = [cached EXCEPT ![t] = @ - 1]
    /\ total' = [total EXCEPT ![t] = @ + 1]
    /\ buffered' = [buffered EXCEPT ![t] = TRUE]
    /\ UNCHANGED <<config, layout, cleared, injector, pairing, flags, sinkEos, eosSignalled,
                   player>>

\* ResetTrackDiscontinuityIgnoredStatus, and with it ResetDiscontinuityInTracks.
NothingIgnored == mIsDiscontinuityIgnored' = Each(FALSE)

\* mutant: the flags of the discontinuity that is processed stay set
ResetFlagsNot == NothingIgnored /\ UNCHANGED mProcessingDiscontinuity
ResetFlags == mProcessingDiscontinuity' = Each(FALSE) /\ NothingIgnored

\* InjectFragment meets a discontinuity: ignored when nothing was pushed before it
\* or when the other track ignored its own, handed to ProcessDiscontinuity else.
InjectDiscontinuity(t) ==
    LET ignoredByOther == mIsDiscontinuityIgnored[Other(t)]
        nothingPushed  == total[t] = 0 /\ ~mESChangeStatus
    IN  /\ ipc[t] = "run" /\ ~abortInject[t] /\ cached[t] > 0 /\ AtDiscontinuity(t)
        /\ cleared' = [cleared EXCEPT ![t] = sent[t] + 1]
        /\ \/ /\ nothingPushed /\ ~ignoredByOther
              /\ mIsDiscontinuityIgnored' = [mIsDiscontinuityIgnored EXCEPT ![t] = TRUE]
              /\ UNCHANGED ipc
           \/ /\ ignoredByOther /\ ~mESChangeStatus
              /\ NothingIgnored
              /\ UNCHANGED ipc
           \/ /\ ~nothingPushed /\ (~ignoredByOther \/ mESChangeStatus)
              /\ ipc' = [ipc EXCEPT ![t] = "enter"]
              /\ UNCHANGED mIsDiscontinuityIgnored
        /\ UNCHANGED <<config, layout, sent, cached, total, abortInject, saved, pairing,
                       mProcessingDiscontinuity, sink, player>>

\* WaitForCachedFragmentAvailable fails: EOS goes to the sink if the collector has
\* reached it, and the injector ends with its abort flag set.
InjectEnd(t) ==
    /\ ipc[t] = "run"
    /\ abortInject[t] \/ (EosReached(t) /\ cached[t] = 0)
    /\ sinkEos' = [sinkEos EXCEPT ![t] = @ \/ EosReached(t)]
    /\ ipc' = [ipc EXCEPT ![t] = "done"]
    /\ abortInject' = [abortInject EXCEPT ![t] = TRUE]
    /\ UNCHANGED <<stream, saved, pairing, flags, buffered, eosSignalled, player>>

--------------------------------------------------------------------------
(* StreamAbstractionAAMP::ProcessDiscontinuity.                            *)

\* pthread_cond_signal(&mStateCond) in a step that leaves the injectors at pc.
SignalState(pc) ==
    IF \E t \in Tracks : pc[t] = "wait"
    THEN \E t \in Tracks : pc[t] = "wait" /\ ipc' = [pc EXCEPT ![t] = "woken"]
    ELSE ipc' = pc

StateLockFree == stateLock = {}

\* mutant: the wait does not depend on the bit of the other track
EnterDiscontinuityWaits(t) ==
    /\ ipc[t] = "enter" /\ StateLockFree
    /\ mTrackState' = mTrackState \cup {t}
    /\ ipc' = [ipc EXCEPT ![t] = "wait"]
    /\ UNCHANGED <<stream, abortInject, saved, stateLock, mESChangeStatus, flags, sink,
                   player>>

\* Sets the bit; the first track waits, without a look at its abort flag.
EnterDiscontinuity(t) ==
    /\ ipc[t] = "enter" /\ StateLockFree
    /\ mTrackState' = mTrackState \cup {t}
    /\ ipc' = [ipc EXCEPT ![t] = IF mTrackState' = {t} THEN "wait" ELSE "sink"]
    /\ UNCHANGED <<stream, abortInject, saved, stateLock, mESChangeStatus, flags, sink,
                   player>>

\* IsInjectionAborted of the track, for audio also of video.
Aborted(t) == abortInject[t] \/ (t = "audio" /\ abortInject["video"])

\* Back from the wait: the bit was taken away by the stall check (ignore the
\* discontinuity), the pair is complete or the wait was broken (EOS to the
\* sink), or the injection is aborted.
WokenAtDiscontinuity(t) ==
    LET reset == (~config.RetuneForUnpair \/ t = "audio") /\ ~Aborted(t) /\ t \notin mTrackState
    IN  /\ ipc[t] = "woken" /\ StateLockFree
        /\ \/ reset /\ ipc' = [ipc EXCEPT ![t] = "run"] /\ UNCHANGED abortInject
           \/ /\ ~reset /\ (mTrackState = Tracks \/ ~Aborted(t))
              /\ ipc' = [ipc EXCEPT ![t] = "sink"] /\ UNCHANGED abortInject
           \/ /\ mTrackState # Tracks /\ Aborted(t)
              /\ ipc' = [ipc EXCEPT ![t] = "done"]
              /\ abortInject' = [abortInject EXCEPT ![t] = TRUE]
        /\ UNCHANGED <<stream, saved, pairing, flags, sink, player>>

\* PrivateInstanceAAMP::Discontinuity: the sink takes an EOS of the track unless
\* it has no buffer of it.
SinkDiscontinuity(t) ==
    /\ ipc[t] = "sink"
    /\ sinkEos' = [sinkEos EXCEPT ![t] = @ \/ buffered[t]]
    /\ ipc' = [ipc EXCEPT ![t] = IF buffered[t] THEN "flag" ELSE "read"]
    /\ UNCHANGED <<stream, abortInject, saved, pairing, flags, buffered, eosSignalled,
                   player>>

\* ... and the flag of the track follows outside mLock.
FlagDiscontinuity(t) ==
    /\ ipc[t] = "flag"
    /\ mProcessingDiscontinuity' = [mProcessingDiscontinuity EXCEPT ![t] = TRUE]
    /\ ipc' = [ipc EXCEPT ![t] = "signal"]
    /\ UNCHANGED <<stream, abortInject, saved, pairing, mIsDiscontinuityIgnored, sink,
                   player>>

\* The sink ignored it: mTrackState & ~state is read and written without mStateLock.
ReadTrackState(t) ==
    /\ ipc[t] = "read"
    /\ saved' = [saved EXCEPT ![t] = mTrackState]
    /\ ipc' = [ipc EXCEPT ![t] = "write"]
    /\ UNCHANGED <<stream, abortInject, pairing, flags, sink, player>>

WriteTrackState(t) ==
    /\ ipc[t] = "write" /\ StateLockFree
    /\ mTrackState' = saved[t] \ {t}
    /\ saved' = [saved EXCEPT ![t] = {}]
    /\ SignalState([ipc EXCEPT ![t] = "run"])
    /\ UNCHANGED <<stream, abortInject, stateLock, mESChangeStatus, flags, sink, player>>

\* mutant: the other track is not signalled
PairSignalNobody(t) ==
    /\ ipc[t] = "signal" /\ StateLockFree
    /\ ipc' = [ipc EXCEPT ![t] = "done"]
    /\ abortInject' = [abortInject EXCEPT ![t] = TRUE]
    /\ UNCHANGED <<stream, saved, pairing, flags, sink, player>>

\* The other track is signalled; this one has stopped its injection.
PairSignal(t) ==
    /\ ipc[t] = "signal" /\ StateLockFree
    /\ SignalState([ipc EXCEPT ![t] = "done"])
    /\ abortInject' = [abortInject EXCEPT ![t] = TRUE]
    /\ UNCHANGED <<stream, saved, pairing, flags, sink, player>>

--------------------------------------------------------------------------
(* ScheduleRetune and the buffer monitor of a track.                       *)

\* ScheduleAsyncTask and RemoveAsyncTask: the queue of the scheduler.  A task is
\* queued once: mDiscontinuityTuneOperationId, reTune and eosCallbackIdleTaskPending.
Queued == tasks # <<>>
InQueue(task) == \E i \in 1 .. Len(tasks) : tasks[i] = task
Schedule(task) == tasks' = IF InQueue(task) THEN tasks ELSE Append(tasks, task)
Without(task) ==
    IF InQueue(task) THEN RemoveAt(tasks, CHOOSE i \in 1 .. Len(tasks) : tasks[i] = task)
    ELSE tasks

\* mLock section of ScheduleRetune: one task processes a pending discontinuity;
\* without one the stream is tuned again.
Pending == \E t \in Tracks : mProcessingDiscontinuity[t]
Spawned == mDiscontinuityTuneOperationId # 0 \/ mDiscontinuityTuneOperationInProgress
mIsRetuneInProgress == wpc = "teardown"

ScheduleRetune ==
    \/ /\ Spawned \/ mIsRetuneInProgress
       /\ UNCHANGED <<tasks, mDiscontinuityTuneOperationId>>
    \/ /\ ~Spawned /\ ~mIsRetuneInProgress /\ Pending
       /\ mDiscontinuityTuneOperationId' = 1
       /\ Schedule("discontinuity")
    \/ /\ ~Spawned /\ ~mIsRetuneInProgress /\ ~Pending
       /\ Schedule("retune")
       /\ UNCHANGED mDiscontinuityTuneOperationId

\* The sink runs out of data of a track that waits behind a discontinuity.
Underflow ==
    /\ Pending /\ ~Stopping /\ wpc # "complete"
    /\ ScheduleRetune
    /\ UNCHANGED <<stream, injector, pairing, flags, sink,
                   mDiscontinuityTuneOperationInProgress, worker, mpc, teardown>>

\* No discontinuity of the track is cached and the other one waits more than two
\* fragments behind or ahead of it.
FutureDiscontinuity(t) ==
    \E k \in layout[t] : k > cleared[t] /\ k \in sent[t] + 1 .. sent[t] + cached[t]

Unpaired(t) ==
    LET diff == total[Other(t)] - total[t]
    IN  \/ diff >= 0 /\ ~FutureDiscontinuity(Other(t)) /\ diff + cached[Other(t)] > 2
        \/ diff < -2

\* mLock section of CheckForDiscontinuityStall, when the PTS did not change for
\* mDiscontinuityTimeout: the rest is skipped if the discontinuity is in work.
PtsStalled(t) == mpc' = [mpc EXCEPT ![t] = IF Spawned THEN "idle" ELSE "reset"]

\* One track waits and its monitor gives the pair up: a retune, or the bit is taken
\* back; DASH remembers that for the other track.
CheckForMediaTrackInjectionStall(t) ==
    /\ mpc[t] = "idle" /\ ~Stopping /\ StateLockFree
    /\ mTrackState = {t} /\ Unpaired(t)
    /\ \/ /\ config.RetuneForUnpair /\ t # "audio"
          /\ ScheduleRetune
          /\ UNCHANGED <<ipc, mTrackState, stateLock, mIsDiscontinuityIgnored, mpc>>
       \/ /\ config.RetuneForUnpair /\ t # "audio"
          /\ PtsStalled(t)
          /\ stateLock' = IF Spawned THEN {} ELSE {t}
          /\ UNCHANGED <<ipc, mTrackState, mIsDiscontinuityIgnored, tasks,
                         mDiscontinuityTuneOperationId>>
       \/ /\ ~config.RetuneForUnpair \/ t = "audio"
          /\ mIsDiscontinuityIgnored' =
                [mIsDiscontinuityIgnored EXCEPT ![t] = @ \/ config.IsDashAsset]
          /\ mTrackState' = {}
          /\ SignalState(ipc)
          /\ UNCHANGED <<stateLock, tasks, mDiscontinuityTuneOperationId, mpc>>
    /\ UNCHANGED <<stream, abortInject, saved, mESChangeStatus, mProcessingDiscontinuity,
                   sink, mDiscontinuityTuneOperationInProgress, worker, teardown>>

\* The monitor finds that a discontinuity is pending and the picture stands still.
CheckForDiscontinuityStall(t) ==
    /\ mpc[t] = "idle" /\ ~Stopping /\ Pending
    /\ PtsStalled(t)
    /\ UNCHANGED <<stream, injector, pairing, flags, sink, tasks, tune, worker, teardown>>

\* It has left mLock: the flags are reset ...
StallReset(t) ==
    /\ mpc[t] = "reset"
    /\ mpc' = [mpc EXCEPT ![t] = "retune"]
    /\ ResetFlags
    /\ UNCHANGED <<stream, injector, pairing, sink, tasks, tune, worker, teardown>>

\* ... and a retune is asked for.
StallRetune(t) ==
    /\ mpc[t] = "retune"
    /\ mpc' = [mpc EXCEPT ![t] = "idle"]
    /\ ScheduleRetune
    /\ stateLock' = stateLock \ {t}
    /\ UNCHANGED <<stream, injector, mTrackState, mESChangeStatus, flags, sink,
                   mDiscontinuityTuneOperationInProgress, worker, teardown>>

--------------------------------------------------------------------------
(* The thread of the asynchronous tasks: NotifyEOSReached and              *)
(* ProcessPendingDiscontinuity.                                            *)

\* The sink has played both tracks to their EOS.
NotifyEOS ==
    /\ sinkEos = Each(TRUE) /\ ~eosSignalled /\ ~Stopping
    /\ eosSignalled' = TRUE
    /\ Schedule("eos")
    /\ UNCHANGED <<stream, injector, pairing, flags, buffered, sinkEos, tune, worker, mpc,
                   teardown>>

\* PrivateInstanceAAMP_ProcessDiscontinuity and PrivateInstanceAAMP_Retune.
StartTask ==
    /\ wpc = "idle" /\ Queued /\ Head(tasks) # "eos"
    /\ tasks' = Tail(tasks) /\ wtask' = Head(tasks)
    /\ wpc' = IF Head(tasks) = "retune" THEN "teardown" ELSE "check"
    /\ UNCHANGED <<stream, injector, pairing, flags, sink, tune, mpc, teardown>>

\* NotifyEOSReached: a pending discontinuity is processed; the end of the stream
\* ends playback; any other EOS is bogus and discarded.
NotifyEOSReached ==
    /\ wpc = "idle" /\ Queued /\ Head(tasks) = "eos"
    /\ tasks' = Tail(tasks)
    /\ \/ Pending /\ wpc' = "check" /\ wtask' = "eos"
       \/ /\ ~Pending /\ ~Stopping /\ \A t \in Tracks : EosReached(t)
          /\ wpc' = "complete" /\ UNCHANGED wtask
       \/ /\ ~Pending /\ (Stopping \/ \E t \in Tracks : ~EosReached(t))
          /\ UNCHANGED worker
    /\ UNCHANGED <<stream, injector, pairing, flags, sink, tune, mpc, teardown>>

\* mVideoFormat is FORMAT_INVALID once TeardownStream has deleted the stream; the
\* format of aux audio always is here, and the flag of audio is not looked at.
DiscontinuitySeenInAllTracks == tpc = "deleted" \/ mProcessingDiscontinuity["video"]

Step(pc) == wpc' = pc /\ UNCHANGED wtask

\* Nothing to do if a tune operation is in progress or video has seen no discontinuity.
ProcessCheck ==
    /\ wpc = "check"
    /\ Step(IF ~mDiscontinuityTuneOperationInProgress /\ DiscontinuitySeenInAllTracks
            THEN "begin" ELSE "return")
    /\ UNCHANGED <<stream, injector, pairing, flags, sink, tasks, tune, mpc, teardown>>

ProcessBegin ==
    /\ wpc = "begin" /\ Step("again")
    /\ mDiscontinuityTuneOperationInProgress' = TRUE
    /\ UNCHANGED <<stream, injector, pairing, flags, sink, tasks,
                   mDiscontinuityTuneOperationId, mpc, teardown>>

\* Steps that use the stream, mpStreamAbstractionAAMP, without mLock or mStreamLock.
UsesStream ==
    \/ wpc = "again" /\ DiscontinuitySeenInAllTracks
    \/ wpc \in {"abort video", "join video", "abort audio", "join audio", "restart"}

\* The flags are reset and progress is reported, mProgressReportFromProcessDiscontinuity.
ProcessAgain ==
    /\ wpc = "again" /\ ~(UsesStream /\ tpc = "deleted")
    /\ \/ ~DiscontinuitySeenInAllTracks /\ Step("end") /\ UNCHANGED flags
       \/ DiscontinuitySeenInAllTracks /\ Step("report") /\ ResetFlags
    /\ UNCHANGED <<stream, injector, pairing, sink, tasks, tune, mpc, teardown>>

\* ReportProgress: skipped when a seek has set its state, else it needs mStreamLock,
\* which whoever tears the stream down keeps until the next stream is tuned.
ReportProgress ==
    /\ wpc = "report" /\ Step(IF tby = "seek" THEN "abort video" ELSE "progress")
    /\ UNCHANGED <<stream, injector, pairing, flags, sink, tasks, tune, mpc, teardown>>

ReportedProgress ==
    /\ wpc = "progress" /\ tpc = "none" /\ Step("abort video")
    /\ UNCHANGED <<stream, injector, pairing, flags, sink, tasks, tune, mpc, teardown>>

\* A step of them on the deleted stream is the end of the process.
Crash ==
    /\ UsesStream /\ tpc = "deleted" /\ Step("crash")
    /\ UNCHANGED <<stream, injector, pairing, flags, sink, tasks, tune, mpc, teardown>>

\* StopInjection of a track: AbortWaitForCachedFragment ...
StopInjectionAbort(t, from, to) ==
    /\ wpc = from /\ tpc # "deleted" /\ StateLockFree /\ Step(to)
    /\ abortInject' = [abortInject EXCEPT ![t] = TRUE]
    /\ SignalState(ipc)
    /\ UNCHANGED <<stream, saved, pairing, flags, sink, tasks, tune, mpc, teardown>>

\* ... and StopInjectLoop, the join.
StopInjectionJoin(t, from, to) ==
    /\ wpc = from /\ tpc # "deleted" /\ ipc[t] = "done" /\ Step(to)
    /\ UNCHANGED <<stream, injector, pairing, flags, sink, tasks, tune, mpc, teardown>>

StopInjection ==
    \/ StopInjectionAbort("video", "abort video", "join video")
    \/ StopInjectionJoin("video", "join video", "abort audio")
    \/ StopInjectionAbort("audio", "abort audio", "join audio")
    \/ StopInjectionJoin("audio", "join audio", "restart")

\* The sink is flushed, which removes its EOS task, and configured; StartInjection
\* starts both injectors anew.
RestartInjection ==
    /\ wpc = "restart" /\ tpc # "deleted" /\ Step("end")
    /\ buffered' = Each(FALSE) /\ sinkEos' = Each(FALSE) /\ eosSignalled' = FALSE
    /\ tasks' = Without("eos")
    /\ mESChangeStatus' = FALSE /\ mTrackState' = {}
    /\ abortInject' = Each(FALSE) /\ ipc' = Each("run") /\ total' = Each(0)
    /\ UNCHANGED <<config, layout, sent, cached, cleared, saved, stateLock, flags, tune,
                   mpc, teardown>>

ProcessEnd ==
    /\ wpc = "end" /\ Step("return")
    /\ mDiscontinuityTuneOperationInProgress' = FALSE
    /\ UNCHANGED <<stream, injector, pairing, flags, sink, tasks,
                   mDiscontinuityTuneOperationId, mpc, teardown>>

\* The task forgets its id, and mCondDiscontinuity is signalled.
ProcessReturn ==
    /\ wpc = "return" /\ wpc' = "idle" /\ wtask' = "none"
    /\ mDiscontinuityTuneOperationId' =
          IF wtask = "discontinuity" THEN 0 ELSE mDiscontinuityTuneOperationId
    /\ tpc' = IF tpc = "wait" THEN "woken" ELSE tpc
    /\ UNCHANGED <<stream, injector, pairing, flags, sink, tasks,
                   mDiscontinuityTuneOperationInProgress, mpc, tby>>

--------------------------------------------------------------------------
(* TeardownStream, of a seek or a change of rate on the application's     *)
(* thread (mAsyncTuneEnabled is off), or of a retune on the thread of the  *)
(* tasks.  Tasks always run on the scheduler's thread, where there is no   *)
(* GSource: the branch for a caller with the id of the task is not taken.  *)

\* A discontinuity that is being processed is waited for.
AwaitDiscontinuity(c) ==
    /\ tpc = "none" /\ mDiscontinuityTuneOperationInProgress
    /\ tpc' = "wait" /\ tby' = c
    /\ UNCHANGED <<stream, injector, pairing, flags, sink, tasks, tune, worker, mpc>>

\* mutant: the task is removed and its id kept
TeardownStreamKeepsId(c) ==
    /\ tpc = "none" /\ ~mDiscontinuityTuneOperationInProgress
    /\ tpc' = "stop" /\ tby' = c
    /\ tasks' = IF c = "retune" THEN tasks ELSE Without("discontinuity")
    /\ ResetFlags
    /\ UNCHANGED <<stream, injector, pairing, sink, tune, worker, mpc>>

\* A task that is only scheduled is removed by a command and left alone by a retune.
TeardownStream(c) ==
    /\ tpc = "none" /\ ~mDiscontinuityTuneOperationInProgress
    /\ tpc' = "stop" /\ tby' = c
    /\ \/ /\ c # "retune" /\ mDiscontinuityTuneOperationId # 0
          /\ tasks' = Without("discontinuity")
          /\ mDiscontinuityTuneOperationId' = 0
       \/ /\ c = "retune" \/ mDiscontinuityTuneOperationId = 0
          /\ UNCHANGED <<tasks, mDiscontinuityTuneOperationId>>
    /\ ResetFlags
    /\ UNCHANGED <<stream, injector, pairing, sink, mDiscontinuityTuneOperationInProgress,
                   worker, mpc>>

Command ==
    \E c \in Commands : ~mIsRetuneInProgress /\ (AwaitDiscontinuity(c) \/ TeardownStream(c))
RetuneTeardown == mIsRetuneInProgress /\ TeardownStream("retune")

\* Signalled: the flags are reset before mLock is left.
TeardownWoken ==
    /\ tpc = "woken" /\ tpc' = "stop" /\ ResetFlags
    /\ UNCHANGED <<stream, injector, pairing, sink, tasks, tune, worker, mpc, tby>>

\* Stop of the stream wakes every injector.
StopStream ==
    /\ tpc = "stop" /\ tpc' = "join" /\ StateLockFree
    /\ abortInject' = Each(TRUE)
    /\ ipc' = [t \in Tracks |-> IF ipc[t] = "wait" THEN "woken" ELSE ipc[t]]
    /\ UNCHANGED <<stream, saved, pairing, flags, sink, tasks, tune, worker, mpc, tby>>

\* The injectors, and in the destructors the monitors, are joined.
DeleteStream ==
    /\ tpc = "join" /\ tpc' = "deleted"
    /\ ipc = Each("done") /\ mpc = Each("idle")
    /\ UNCHANGED <<stream, injector, pairing, flags, sink, tasks, tune, worker, mpc, tby>>

--------------------------------------------------------------------------
InjectorStep(t) ==
    \/ InjectFragment(t) \/ InjectDiscontinuity(t) \/ InjectEnd(t)
    \/ EnterDiscontinuity(t) \/ WokenAtDiscontinuity(t) \/ SinkDiscontinuity(t)
    \/ FlagDiscontinuity(t) \/ ReadTrackState(t) \/ WriteTrackState(t) \/ PairSignal(t)

MonitorStep(t) ==
    CheckForMediaTrackInjectionStall(t) \/ CheckForDiscontinuityStall(t)
    \/ StallReset(t) \/ StallRetune(t)

WorkerStep ==
    \/ StartTask \/ NotifyEOSReached \/ ProcessCheck \/ ProcessBegin \/ ProcessAgain \/ ReportProgress \/ ReportedProgress
    \/ Crash \/ StopInjection \/ RestartInjection \/ ProcessEnd \/ ProcessReturn

TeardownStep == TeardownWoken \/ StopStream \/ DeleteStream

Next ==
    \/ \E t \in Tracks : Fetch(t) \/ InjectorStep(t) \/ MonitorStep(t)
    \/ Underflow \/ NotifyEOS \/ WorkerStep
    \/ Command \/ RetuneTeardown \/ TeardownStep

Spec == Init /\ [][Next]_vars

--------------------------------------------------------------------------
(* Fairness.  Every thread of the player runs on: collectors, injectors, the      *)
(* monitors' one second period, the thread of the tasks.  The sink plays what it   *)
(* has to the EOS.  Nobody has to stop the player and no underflow has to happen.  *)

Fairness ==
    /\ \A t \in Tracks : /\ WF_vars(Fetch(t)) /\ WF_vars(InjectorStep(t))
                         /\ WF_vars(MonitorStep(t))
    /\ WF_vars(NotifyEOS) /\ WF_vars(WorkerStep)
    /\ WF_vars(RetuneTeardown) /\ WF_vars(TeardownStep)

FairSpec == Spec /\ Fairness

--------------------------------------------------------------------------
(* Properties *)

\* ProcessDiscontinuity: the two injectors never wait in mStateCond for each other,
\* though the stall checks of both tracks take bits of mTrackState back, injectors
\* read and write it without mStateLock, and every wake-up is a signal to one thread.
NoMutualWait == ~(ipc["video"] = "wait" /\ ipc["audio"] = "wait")

\* ScheduleRetune, ProcessPendingDiscontinuity, TeardownStream: the id that keeps a
\* second discontinuity task from being scheduled is the one of a task that is still
\* queued or running, so that no return path leaves the player deaf to underflows.
IdIsLive ==
    mDiscontinuityTuneOperationId = 1 =>
        InQueue("discontinuity") \/ wtask = "discontinuity"

\* TeardownStream waits for mCondDiscontinuity when the tune operation is in progress:
\* whenever the flag is set the task thread is inside ProcessPendingDiscontinuity, so
\* that somebody signals.
OperationIsWorked ==
    mDiscontinuityTuneOperationInProgress =>
        wpc \in {"again", "report", "progress", "abort video", "join video",
                 "abort audio", "join audio", "restart", "end", "crash"}

\* What ScheduleRetune and TeardownStream go by is the truth about the task.
TaskIsAlive == TypeOK /\ IdIsLive /\ OperationIsWorked

\* ProcessPendingDiscontinuity flushes the sink and starts the injection anew only
\* while the video injector is parked at a discontinuity: no fragment that the sink
\* still has to play is lost, however late the EOS or the underflow comes.
FlushAtDiscontinuity ==
    [][RestartInjection => /\ sent["video"] + 1 \in layout["video"]
                           /\ cleared["video"] = sent["video"] + 1]_vars

\* A track that waits for the discontinuity of the other one goes on: the pair comes,
\* the monitor gives it up, or the stream is torn down.  The code has no way out when
\* the other track has played to its end close by, which the property leaves out.
Exhausted(t) == ipc[t] = "done" /\ EosReached(t) /\ cached[t] = 0

WaitEnds ==
    \A t \in Tracks : ipc[t] = "wait" ~>
        \/ ipc[t] # "wait" \/ tpc # "none"
        \/ Exhausted(Other(t)) /\ ~Unpaired(t)

\* "The same thread will be executing operations involving TeardownStream", says
\* ProcessPendingDiscontinuity of its unlocked use of the stream: no step of it may
\* use the deleted one.  TeardownStream waits only if the operation is in progress,
\* a flag the task sets some steps after it has started.
StreamIsAlive == wpc # "crash"

\* "Wait until the Discontinuity Tune operation to complete!!", says TeardownStream,
\* whose caller keeps mStreamLock over the wait: the operation must complete, that is
\* nothing in it may need the lock.
TeardownReturns == tpc = "wait" ~> tpc # "wait"
=============================================================================
