--------------------------- MODULE FragmentTrack ---------------------------
(***************************************************************************)
(* One MediaTrack: the ring of cached fragments (streamabstraction.cpp)    *)
(* between the collector thread that downloads them and the injector       *)
(* thread that sends them to the sink, and the player that stops and       *)
(* restarts the two.                                                       *)
(*                                                                         *)
(* Every critical section of MediaTrack::mutex is one step; what the code  *)
(* reads or writes outside the mutex is a step of its own.  A thread in    *)
(* pthread_cond_wait is at "wait" and a signal moves it to "woken": the    *)
(* waits are not in loops, so the thread goes on from there.  A fragment   *)
(* is its number; 0 is a slot whose ptr is NULL.                           *)
(***************************************************************************)
EXTENDS Integers, Sequences

CONSTANTS
    maxCachedFragmentsPerTrack,
    Total,             \* bound: fragments until the end of the stream
    DiscontinuityAt,   \* fragments that carry the discontinuity flag
    PrePlayBufferCount,
    Timeouts,          \* timeoutMs of WaitForFreeFragmentAvailable: "forever" is -1
    MaxRestarts,       \* bound: StopInjection / StartInjection rounds
    SegmentInjectThreshold,
    SinkDiscards,      \* the sink may discard what it is given
    MaxSwitches,       \* bound: RefreshSubtitles calls (HLS subtitle track)
    Spurious           \* POSIX: pthread_cond_wait may return without a signal

ASSUME RingAssumption == maxCachedFragmentsPerTrack \in Nat \ {0}
ASSUME TrackAssumption ==
    /\ Total \in Nat /\ PrePlayBufferCount \in Nat
    /\ MaxRestarts \in Nat /\ MaxSwitches \in Nat /\ SegmentInjectThreshold \in Nat
    /\ Spurious \in BOOLEAN /\ SinkDiscards \in BOOLEAN
    /\ Timeouts \subseteq {"forever", "timed"}

VARIABLES
    cachedFragment,           \* the ring: slot -> fragment
    fragmentIdxToFetch,
    fragmentIdxToInject,
    numberOfFragmentsCached,
    discontinuity,            \* cached fragments whose flag is still set
    eosReached, abort, abortInject, refreshSubtitles,
    downloads,                \* aamp->DownloadsAreEnabled()
    prepared,                 \* the player is in eSTATE_PREPARED
    fetched,                  \* totalFragmentsDownloaded
    fpc, timeout,             \* the collector: where it is, its timeoutMs
    ipc, keepInjecting,       \* the injector
    mSegInjectFailCount,
    injected,                 \* history: last fragment sent to the sink
    eosSent,                  \* history: EndOfStreamReached was called
    cpc,                      \* the player's thread
    restarts, switches

ring   == <<cachedFragment, fragmentIdxToFetch, fragmentIdxToInject,
            numberOfFragmentsCached, discontinuity>>
flags  == <<eosReached, abort, abortInject, refreshSubtitles>>
player == <<downloads, prepared, cpc, restarts, switches>>
fetch  == <<fpc, timeout, fetched>>
sent   == <<keepInjecting, mSegInjectFailCount, injected, eosSent>>
inject == <<ipc, sent>>
vars   == <<ring, flags, player, fetch, inject>>

N == maxCachedFragmentsPerTrack
Slots == 0 .. (N - 1)
Empty == 0

FetchPC == {"idle", "playstart", "lock", "wait", "woken", "fetch", "filled", "switch",
            "eos", "done"}
InjectPC == {"off", "loop", "avail", "wait", "woken", "peek", "send", "sent", "ending",
             "done"}
PlayerPC == {"idle", "refresh", "injJoin", "injStopped", "disabled", "joinFetch",
             "joinInject", "stopped"}

TypeOK ==
    /\ cachedFragment \in [Slots -> Nat]
    /\ fragmentIdxToFetch \in Slots /\ fragmentIdxToInject \in Slots
    /\ numberOfFragmentsCached \in Int
    /\ discontinuity \subseteq DiscontinuityAt
    /\ eosReached \in BOOLEAN /\ abort \in BOOLEAN /\ abortInject \in BOOLEAN
    /\ refreshSubtitles \in BOOLEAN /\ downloads \in BOOLEAN /\ prepared \in BOOLEAN
    /\ keepInjecting \in BOOLEAN /\ eosSent \in BOOLEAN
    /\ fetched \in Nat /\ injected \in Nat /\ mSegInjectFailCount \in Nat
    /\ fpc \in FetchPC /\ timeout \in {"forever", "timed"}
    /\ ipc \in InjectPC /\ cpc \in PlayerPC
    /\ restarts \in Nat /\ switches \in Nat

Init ==
    /\ cachedFragment = [s \in Slots |-> Empty]
    /\ fragmentIdxToFetch = 0 /\ fragmentIdxToInject = 0
    /\ numberOfFragmentsCached = 0
    /\ discontinuity = {}
    /\ eosReached = FALSE /\ abort = FALSE /\ abortInject = FALSE
    /\ refreshSubtitles = FALSE
    /\ downloads = TRUE /\ prepared = TRUE
    /\ fetched = 0
    /\ fpc = "idle" /\ timeout = "timed"
    /\ ipc = "off" /\ keepInjecting = TRUE
    /\ mSegInjectFailCount = 0 /\ injected = 0 /\ eosSent = FALSE
    /\ cpc = "injStopped"
    /\ restarts = 0 /\ switches = 0

\* fragmentIdxToFetch++ and fragmentIdxToInject++, with the wrap.
NextIdx(i) == IF i + 1 = N THEN 0 ELSE i + 1

Signal(pc) == IF pc = "wait" THEN "woken" ELSE pc

-----------------------------------------------------------------------------
(* The collector                                                            *)

\* WaitForFreeFragmentAvailable: abort is read before any lock is taken.
FetchCheckAbort ==
    /\ fpc = "idle"
    /\ downloads /\ fetched < Total /\ ~refreshSubtitles
    /\ ~abort
    /\ \E t \in Timeouts : timeout' = t
    /\ fpc' = IF prepared /\ fetched > PrePlayBufferCount THEN "playstart" ELSE "lock"
    /\ UNCHANGED <<ring, flags, player, fetched, inject>>

\* The wait in eSTATE_PREPARED: signalled, and all later waits are timed, or
\* timed out after 500ms, and the call returns false.
FetchPlaystart ==
    /\ fpc = "playstart"
    /\ \/ (~prepared \/ abort) /\ fpc' = "lock" /\ timeout' = "timed"
       \/ fpc' = "idle" /\ UNCHANGED timeout
    /\ UNCHANGED <<ring, flags, player, fetched, inject>>

\* mutant: one more than the ring holds
CacheFullLate == numberOfFragmentsCached > N

CacheFull == numberOfFragmentsCached = N

\* abort is read again only after a wait.
FetchLock ==
    /\ fpc = "lock"
    /\ fpc' = IF CacheFull THEN "wait" ELSE "fetch"
    /\ UNCHANGED <<ring, flags, player, timeout, fetched, inject>>

FetchTimeout ==
    /\ fpc = "wait" /\ timeout = "timed"
    /\ fpc' = "idle"
    /\ UNCHANGED <<ring, flags, player, timeout, fetched, inject>>

\* The wait returned: the number of cached fragments is not looked at again.
FetchWoken ==
    /\ fpc = "woken"
    /\ fpc' = IF abort THEN "idle" ELSE "fetch"
    /\ UNCHANGED <<ring, flags, player, timeout, fetched, inject>>

\* The download into the slot of GetFetchBuffer, or its failure.
FetchFragment ==
    /\ fpc = "fetch"
    /\ \/ /\ cachedFragment' = [cachedFragment EXCEPT ![fragmentIdxToFetch] = fetched + 1]
          /\ discontinuity' = discontinuity \cup (DiscontinuityAt \cap {fetched + 1})
          /\ fpc' = "filled"
       \/ fpc' = "idle" /\ UNCHANGED <<cachedFragment, discontinuity>>
    /\ UNCHANGED <<fragmentIdxToFetch, fragmentIdxToInject, numberOfFragmentsCached,
                   flags, player, timeout, fetched, inject>>

\* mutant: the injector is not signalled
UpdateTSAfterFetchSilent ==
    /\ fpc = "filled"
    /\ numberOfFragmentsCached' = numberOfFragmentsCached + 1
    /\ fragmentIdxToFetch' = NextIdx(fragmentIdxToFetch)
    /\ fetched' = fetched + 1
    /\ fpc' = "idle"
    /\ UNCHANGED <<cachedFragment, fragmentIdxToInject, discontinuity, flags, player,
                   timeout, inject>>

UpdateTSAfterFetch ==
    /\ fpc = "filled"
    /\ numberOfFragmentsCached' = numberOfFragmentsCached + 1
    /\ fragmentIdxToFetch' = NextIdx(fragmentIdxToFetch)
    /\ fetched' = fetched + 1
    /\ ipc' = Signal(ipc)
    /\ fpc' = "idle"
    /\ UNCHANGED <<cachedFragment, fragmentIdxToInject, discontinuity, flags, player,
                   timeout, sent>>

\* The end of the stream: eosReached is set without the mutex ...
FetchEos ==
    /\ fpc = "idle"
    /\ downloads /\ fetched = Total /\ ~refreshSubtitles
    /\ eosReached' = TRUE
    /\ fpc' = "eos"
    /\ UNCHANGED <<ring, abort, abortInject, refreshSubtitles, player, timeout, fetched,
                   inject>>

\* ... then AbortWaitForCachedAndFreeFragment(false), also when downloads stop.
FetchExit ==
    /\ fpc = "eos" \/ (fpc = "idle" /\ ~downloads)
    /\ ipc' = Signal(ipc)
    /\ fpc' = "done"
    /\ UNCHANGED <<ring, flags, player, timeout, fetched, sent>>

\* RunFetchLoop on refreshSubtitles: abort is reset without the mutex ...
RefreshTaken ==
    /\ fpc = "idle"
    /\ downloads /\ refreshSubtitles
    /\ abort' = FALSE
    /\ refreshSubtitles' = FALSE
    /\ fpc' = "switch"
    /\ UNCHANGED <<ring, eosReached, abortInject, player, timeout, fetched, inject>>

\* ... then SwitchSubtitleTrack flushes the ring under it, and the new playlist
\* starts from its first fragment.
SwitchSubtitleTrack ==
    /\ fpc = "switch"
    /\ cachedFragment' = [s \in Slots |-> Empty]
    /\ fragmentIdxToFetch' = 0 /\ fragmentIdxToInject' = 0
    /\ numberOfFragmentsCached' = 0
    /\ discontinuity' = {}
    /\ fetched' = 0
    /\ fpc' = "idle"
    /\ UNCHANGED <<flags, player, timeout, inject>>

-----------------------------------------------------------------------------
(* The injector                                                             *)

\* while (aamp->DownloadsAreEnabled() && keepInjecting)
InjectLoop ==
    /\ ipc = "loop"
    /\ ipc' = IF downloads /\ keepInjecting THEN "avail" ELSE "ending"
    /\ UNCHANGED <<ring, flags, player, fetch, sent>>

MayWait == numberOfFragmentsCached = 0 /\ ~abort /\ ~abortInject /\ ~eosReached

\* mutant: the last fragment of the ring does not count
CachedFragmentAvailableButLast ==
    IF abort \/ abortInject \/ numberOfFragmentsCached <= 1
    THEN /\ ipc' = "loop"
         /\ keepInjecting' = FALSE
         /\ eosSent' = (eosSent \/ eosReached)
    ELSE /\ ipc' = "peek"
         /\ UNCHANGED <<keepInjecting, eosSent>>

\* WaitForCachedFragmentAvailable returns: a fragment, or EOS or an abort, and
\* then InjectFragment reports EndOfStreamReached and ends the loop.
CachedFragmentAvailable ==
    IF abort \/ abortInject \/ numberOfFragmentsCached = 0
    THEN /\ ipc' = "loop"
         /\ keepInjecting' = FALSE
         /\ eosSent' = (eosSent \/ eosReached)
    ELSE /\ ipc' = "peek"
         /\ UNCHANGED <<keepInjecting, eosSent>>

InjectAvail ==
    /\ ipc = "avail"
    /\ IF MayWait
       THEN ipc' = "wait" /\ UNCHANGED <<keepInjecting, eosSent>>
       ELSE CachedFragmentAvailable
    /\ UNCHANGED <<ring, flags, player, fetch, mSegInjectFailCount, injected>>

InjectWoken ==
    /\ ipc = "woken"
    /\ CachedFragmentAvailable
    /\ UNCHANGED <<ring, flags, player, fetch, mSegInjectFailCount, injected>>

\* InjectFragment looks at the slot without the mutex; a NULL ptr ends the loop.
InjectPeek ==
    /\ ipc = "peek"
    /\ IF cachedFragment[fragmentIdxToInject] # Empty
       THEN ipc' = "send" /\ UNCHANGED <<keepInjecting, eosSent>>
       ELSE /\ ipc' = "loop"
            /\ keepInjecting' = FALSE
            /\ eosSent' = (eosSent \/ eosReached)
    /\ UNCHANGED <<ring, flags, player, fetch, mSegInjectFailCount, injected>>

\* A discontinuity is processed once: the injection stops in front of the
\* fragment (ProcessDiscontinuity paired it) or goes on.  Too many fragments in
\* a row that the sink discards end the loop.
InjectSend ==
    LET f == cachedFragment[fragmentIdxToInject] IN
    /\ ipc = "send"
    /\ discontinuity' = discontinuity \ {f}
    /\ \/ /\ f \in discontinuity
          /\ ipc' = "loop"
          /\ keepInjecting' = FALSE
          /\ UNCHANGED <<mSegInjectFailCount, injected>>
       \/ \E discarded \in IF SinkDiscards THEN BOOLEAN ELSE {FALSE} :
          /\ ipc' = "sent"
          /\ injected' = f
          /\ mSegInjectFailCount' = IF discarded THEN mSegInjectFailCount + 1 ELSE 0
          /\ keepInjecting' =
                (keepInjecting /\ (discarded => mSegInjectFailCount' < SegmentInjectThreshold))
    /\ UNCHANGED <<cachedFragment, fragmentIdxToFetch, fragmentIdxToInject,
                   numberOfFragmentsCached, flags, player, fetch, eosSent>>

\* mutant: the slot is released without being freed
UpdateTSAfterInjectKeepsSlot ==
    /\ ipc = "sent"
    /\ fragmentIdxToInject' = NextIdx(fragmentIdxToInject)
    /\ numberOfFragmentsCached' = numberOfFragmentsCached - 1
    /\ fpc' = Signal(fpc)
    /\ ipc' = "loop"
    /\ UNCHANGED <<cachedFragment, fragmentIdxToFetch, discontinuity, flags, player, timeout,
                   fetched, sent>>

UpdateTSAfterInject ==
    /\ ipc = "sent"
    /\ cachedFragment' = [cachedFragment EXCEPT ![fragmentIdxToInject] = Empty]
    /\ fragmentIdxToInject' = NextIdx(fragmentIdxToInject)
    /\ numberOfFragmentsCached' = numberOfFragmentsCached - 1
    /\ fpc' = Signal(fpc)
    /\ ipc' = "loop"
    /\ UNCHANGED <<fragmentIdxToFetch, discontinuity, flags, player, timeout, fetched,
                   sent>>

\* The end of RunInjectLoop.
InjectEnd ==
    /\ ipc = "ending"
    /\ abortInject' = TRUE
    /\ ipc' = "done"
    /\ UNCHANGED <<ring, eosReached, abort, refreshSubtitles, player, fetch, sent>>

SpuriousWakeup ==
    /\ Spurious
    /\ fpc = "wait" \/ ipc = "wait"
    /\ \/ fpc' = Signal(fpc) /\ UNCHANGED ipc
       \/ ipc' = Signal(ipc) /\ UNCHANGED fpc
    /\ UNCHANGED <<ring, flags, player, timeout, fetched, sent>>

-----------------------------------------------------------------------------
(* The player                                                               *)

\* StartInjectLoop, on Start and on StartInjection.
StartInjectLoop ==
    /\ cpc = "injStopped"
    /\ abort' = FALSE /\ abortInject' = FALSE
    /\ keepInjecting' = TRUE
    /\ ipc' = "loop"
    /\ cpc' = "idle"
    /\ UNCHANGED <<ring, eosReached, refreshSubtitles, downloads, prepared, restarts,
                   switches, fetch, mSegInjectFailCount, injected, eosSent>>

\* mutant: the abort flag is set, and nobody is woken
AbortWaitForCachedFragmentSilent ==
    /\ cpc = "idle" /\ restarts < MaxRestarts
    /\ restarts' = restarts + 1
    /\ abortInject' = TRUE
    /\ cpc' = "injJoin"
    /\ UNCHANGED <<ring, eosReached, abort, refreshSubtitles, downloads, prepared, switches,
                   fetch, inject>>

\* StopInjection: AbortWaitForCachedFragment, then StopInjectLoop joins.
AbortWaitForCachedFragment ==
    /\ cpc = "idle" /\ restarts < MaxRestarts
    /\ restarts' = restarts + 1
    /\ abortInject' = TRUE
    /\ ipc' = Signal(ipc)
    /\ cpc' = "injJoin"
    /\ UNCHANGED <<ring, eosReached, abort, refreshSubtitles, downloads, prepared, switches,
                   fetch, sent>>

StopInjectLoop ==
    /\ cpc \in {"injJoin", "joinInject"}
    /\ ipc = "done"
    /\ cpc' = IF cpc = "injJoin" THEN "injStopped" ELSE "stopped"
    /\ UNCHANGED <<ring, flags, downloads, prepared, restarts, switches, fetch, inject>>

\* Stop: DisableDownloads ...
Stop ==
    /\ cpc = "idle"
    /\ downloads' = FALSE
    /\ cpc' = "disabled"
    /\ UNCHANGED <<ring, flags, prepared, restarts, switches, fetch, inject>>

\* RefreshSubtitles: the flag, without the mutex ...
RefreshSubtitles ==
    /\ cpc = "idle" /\ switches < MaxSwitches
    /\ switches' = switches + 1
    /\ refreshSubtitles' = TRUE
    /\ cpc' = "refresh"
    /\ UNCHANGED <<ring, eosReached, abort, abortInject, downloads, prepared, restarts,
                   fetch, inject>>

\* ... and both: AbortWaitForCachedAndFreeFragment(true).
AbortWaitForCachedAndFreeFragment ==
    /\ cpc \in {"disabled", "refresh"}
    /\ abort' = TRUE
    /\ fpc' = Signal(fpc)
    /\ ipc' = Signal(ipc)
    /\ cpc' = IF cpc = "disabled" THEN "joinFetch" ELSE "idle"
    /\ UNCHANGED <<ring, eosReached, abortInject, refreshSubtitles, downloads, prepared,
                   restarts, switches, timeout, fetched, sent>>

JoinCollector ==
    /\ cpc = "joinFetch"
    /\ fpc = "done"
    /\ cpc' = "joinInject"
    /\ UNCHANGED <<ring, flags, downloads, prepared, restarts, switches, fetch, inject>>

\* The player leaves eSTATE_PREPARED and broadcasts waitforplaystart.
PlayStart ==
    /\ prepared
    /\ prepared' = FALSE
    /\ UNCHANGED <<ring, flags, downloads, cpc, restarts, switches, fetch, inject>>

-----------------------------------------------------------------------------
Collector ==
    \/ FetchCheckAbort \/ FetchPlaystart \/ FetchLock \/ FetchTimeout \/ FetchWoken
    \/ FetchFragment \/ UpdateTSAfterFetch \/ FetchEos \/ FetchExit
    \/ RefreshTaken \/ SwitchSubtitleTrack

Injector ==
    \/ InjectLoop \/ InjectAvail \/ InjectWoken \/ InjectPeek \/ InjectSend
    \/ UpdateTSAfterInject \/ InjectEnd

\* What the player's thread does once it has begun an operation.
PlayerContinue ==
    \/ StartInjectLoop \/ StopInjectLoop \/ AbortWaitForCachedAndFreeFragment
    \/ JoinCollector

Next ==
    \/ Collector \/ Injector \/ SpuriousWakeup \/ PlayerContinue
    \/ AbortWaitForCachedFragment \/ Stop \/ RefreshSubtitles \/ PlayStart

Spec == Init /\ [][Next]_vars

\* The threads run, and pthread_cond_timedwait ends.
ThreadsRun == WF_vars(Collector) /\ WF_vars(Injector) /\ WF_vars(PlayerContinue)

StopSpec == Spec /\ ThreadsRun

\* Downloads succeed often enough to make progress, and the playback starts.
FairSpec ==
    /\ StopSpec
    /\ SF_vars(fpc = "fetch" /\ FetchFragment /\ fpc' = "filled")
    /\ WF_vars(PlayStart)

-----------------------------------------------------------------------------
(* Properties                                                               *)

\* assert(numberOfFragmentsCached <= maxCachedFragmentsPerTrack)
CacheNeverOverflows == numberOfFragmentsCached <= N

\* The ring holds exactly the fragments that are fetched and not released, in
\* order, from fragmentIdxToInject on; the slot the collector fills next is free
\* ("fragment.ptr already set - possible memory leak" never happens).
released == fetched - numberOfFragmentsCached

RingInOrder ==
    /\ numberOfFragmentsCached \in 0 .. N
    /\ fragmentIdxToInject = released % N
    /\ fragmentIdxToFetch = fetched % N
    /\ \A k \in 1 .. N :
          cachedFragment[(released + k - 1) % N] =
             IF k <= numberOfFragmentsCached THEN released + k
             ELSE IF k = numberOfFragmentsCached + 1 /\ fpc = "filled" THEN fetched + 1
             ELSE Empty

\* The sink gets every fragment once and in order, across stops and restarts of
\* the injection in front of a discontinuity.
InjectedInOrder == [][injected' # injected => injected' = injected + 1]_vars

\* The fragments from fragmentIdxToInject on, as far as they are counted.
Cached ==
    [k \in 1 .. numberOfFragmentsCached |-> cachedFragment[(fragmentIdxToInject + k - 1) % N]]

Channel == INSTANCE FragmentChannel WITH
    Capacity <- N, queue <- Cached, put <- fetched, delivered <- injected

\* Whatever the threads do, the ring with its two indices and its count is a
\* bounded channel from the collector (UpdateTSAfterFetch) to the sink: no
\* fragment is lost, overwritten or sent twice, also across a restart of the
\* injection in front of a discontinuity.
ImplementsChannel == Channel!Spec

\* The end of the stream is reported with fragments left only after an abort.
EosAfterLastFragment ==
    [][~eosSent /\ eosSent' => injected = Total \/ abort \/ abortInject]_vars

\* A cached fragment reaches the sink unless the player stops the track or a
\* discontinuity waits for it.
CachedIsInjected ==
    \A n \in 1 .. Total :
        (fetched >= n /\ injected < n) ~> (injected >= n \/ cpc # "idle" \/ ~keepInjecting)

\* The end of the stream is reported, unless the player stops the track, or the
\* sink or a discontinuity stopped the injection.
EosIsReported == eosReached ~> (eosSent \/ cpc # "idle" \/ ~keepInjecting)

\* Both: the stream gets to the sink, and so does its end.
StreamIsInjected == CachedIsInjected /\ EosIsReported

\* The joins of Stop and StopInjection return.
StopReturns == (cpc \in {"disabled", "injJoin"}) ~> (cpc \in {"stopped", "idle"})
=============================================================================
