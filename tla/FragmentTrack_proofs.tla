------------------------ MODULE FragmentTrack_proofs ------------------------
(***************************************************************************)
(* Proofs about FragmentTrack, for a ring of any size, a stream of any     *)
(* length, any discontinuities and any number of stops and restarts of the *)
(* injection.  The results about the ring assume that no wait returns by   *)
(* itself and that the subtitle track is not switched: with either of them *)
(* the code breaks the statements, so both assumptions are needed.         *)
(***************************************************************************)
EXTENDS FragmentTrack, TLAPS

-----------------------------------------------------------------------------
(* The indices modulo the size of the ring                                  *)

LEMMA ModDef ==
    ASSUME NEW n \in Nat \ {0}, NEW x \in Nat
    PROVE  /\ x = n * (x \div n) + (x % n)
           /\ x \div n \in Nat
           /\ x % n \in 0 .. (n - 1)
  BY SMT

LEMMA ModUnique ==
    ASSUME NEW n \in Nat \ {0}, NEW x \in Nat, NEW q \in Nat, NEW r \in 0 .. (n - 1),
           x = n * q + r
    PROVE  x % n = r
  BY SMT

LEMMA Distributes ==
    ASSUME NEW n \in Nat, NEW q \in Nat
    PROVE  n * (q + 1) = n * q + n /\ n * q \in Nat
  BY SMT

LEMMA ModStep ==
    ASSUME NEW n \in Nat \ {0}, NEW x \in Nat, NEW d \in 0 .. n
    PROVE  (x + d) % n = IF (x % n) + d < n THEN (x % n) + d ELSE (x % n) + d - n
<1> DEFINE q == x \div n
           r == x % n
<1>1. x = n * q + r /\ q \in Nat /\ r \in 0 .. (n - 1)
  BY ModDef
<1>2. CASE r + d < n
  <2>1. x + d = n * q + (r + d) /\ r + d \in 0 .. (n - 1) /\ x + d \in Nat
    BY <1>1, <1>2
  <2>2. (x + d) % n = r + d
    BY <1>1, <2>1, ModUnique, Zenon
  <2> QED BY <1>2, <2>2
<1>3. CASE r + d >= n
  <2>1. /\ x + d = n * (q + 1) + (r + d - n)
        /\ r + d - n \in 0 .. (n - 1) /\ x + d \in Nat /\ q + 1 \in Nat
    BY <1>1, <1>3, Distributes
  <2>2. (x + d) % n = r + d - n
    BY <2>1, ModUnique, Zenon
  <2> QED BY <1>1, <1>3, <2>2
<1> QED BY <1>1, <1>2, <1>3

LEMMA NSize == N \in Nat \ {0}
  BY RingAssumption DEF N

LEMMA RingStep ==
    ASSUME NEW x \in Nat, NEW d \in Nat, d <= N
    PROVE  /\ (x + d) % N = IF (x % N) + d < N THEN (x % N) + d ELSE (x % N) + d - N
           /\ x % N \in 0 .. (N - 1)
<1>1. d \in 0 .. N
  BY NSize
<1>2. (x + d) % N = IF (x % N) + d < N THEN (x % N) + d ELSE (x % N) + d - N
  BY <1>1, NSize, ModStep, Zenon
<1>3. x % N \in 0 .. (N - 1)
  BY NSize, ModDef, Zenon
<1> QED BY <1>2, <1>3

\* The index moves to the next position of the stream.
LEMMA NextIdxIsMod ==
    ASSUME NEW x \in Nat
    PROVE  NextIdx(x % N) = (x + 1) % N /\ x % N \in Slots
<1>1. 1 \in Nat /\ 1 <= N
  BY NSize
<1>2. /\ (x + 1) % N = IF (x % N) + 1 < N THEN (x % N) + 1 ELSE (x % N) + 1 - N
      /\ x % N \in 0 .. (N - 1)
  BY <1>1, RingStep, Zenon
<1> QED BY NSize, <1>2 DEF NextIdx, Slots

\* Two positions less than a ring apart never share a slot.
LEMMA WindowIsInjective ==
    ASSUME NEW x \in Nat, NEW j \in 0 .. (N - 1), NEW k \in 0 .. (N - 1), j # k
    PROVE  (x + j) % N # (x + k) % N
<1>1. j \in Nat /\ k \in Nat /\ j <= N /\ k <= N
  BY NSize
<1>2. /\ (x + j) % N = IF (x % N) + j < N THEN (x % N) + j ELSE (x % N) + j - N
      /\ x % N \in 0 .. (N - 1)
  BY <1>1, RingStep, Zenon
<1>3. (x + k) % N = IF (x % N) + k < N THEN (x % N) + k ELSE (x % N) + k - N
  BY <1>1, RingStep, Zenon
<1> QED BY NSize, <1>2, <1>3

LEMMA RingPeriod ==
    ASSUME NEW x \in Nat
    PROVE  (x + N) % N = x % N
<1>1. N \in Nat /\ N <= N
  BY NSize
<1>2. /\ (x + N) % N = IF (x % N) + N < N THEN (x % N) + N ELSE (x % N) + N - N
      /\ x % N \in 0 .. (N - 1)
  BY <1>1, RingStep, Zenon
<1> QED BY NSize, <1>2

-----------------------------------------------------------------------------
(* Type correctness                                                         *)

FlagTypes ==
    /\ eosReached \in BOOLEAN /\ abort \in BOOLEAN /\ abortInject \in BOOLEAN
    /\ refreshSubtitles \in BOOLEAN /\ downloads \in BOOLEAN /\ prepared \in BOOLEAN
    /\ keepInjecting \in BOOLEAN /\ eosSent \in BOOLEAN

RingTypes ==
    /\ cachedFragment \in [Slots -> Nat]
    /\ fragmentIdxToFetch \in Slots /\ fragmentIdxToInject \in Slots
    /\ numberOfFragmentsCached \in Int
    /\ discontinuity \subseteq DiscontinuityAt
    /\ fetched \in Nat /\ injected \in Nat /\ mSegInjectFailCount \in Nat

ControlTypes ==
    /\ fpc \in FetchPC /\ timeout \in {"forever", "timed"}
    /\ ipc \in InjectPC /\ cpc \in PlayerPC
    /\ restarts \in Nat /\ switches \in Nat

LEMMA TypeParts == TypeOK <=> FlagTypes /\ RingTypes /\ ControlTypes
  BY Zenon DEF TypeOK, FlagTypes, RingTypes, ControlTypes

LEMMA TypeInit == Init => TypeOK
<1> SUFFICES ASSUME Init PROVE FlagTypes /\ RingTypes /\ ControlTypes
  BY TypeParts
<1>1. FlagTypes
  BY DEF Init, FlagTypes
<1>2. RingTypes
  BY NSize DEF Init, RingTypes, Slots, Empty
<1>3. ControlTypes
  BY DEF Init, ControlTypes, FetchPC, InjectPC, PlayerPC
<1> QED BY <1>1, <1>2, <1>3

LEMMA NextIdxInRing ==
    ASSUME NEW i \in Slots PROVE NextIdx(i) \in Slots
  BY NSize DEF NextIdx, Slots

LEMMA SignalType ==
    /\ \A pc \in FetchPC : Signal(pc) \in FetchPC
    /\ \A pc \in InjectPC : Signal(pc) \in InjectPC
  BY DEF Signal, FetchPC, InjectPC

LEMMA FlagStep == FlagTypes /\ [Next]_vars => FlagTypes'
<1> SUFFICES ASSUME FlagTypes, [Next]_vars PROVE FlagTypes'
  OBVIOUS
<1> USE DEF FlagTypes
<1>1. CASE Collector
  <2>1. CASE FetchCheckAbort \/ FetchPlaystart \/ FetchLock \/ FetchTimeout \/ FetchWoken
             \/ FetchFragment
    BY <2>1 DEF FetchCheckAbort, FetchPlaystart, FetchLock, FetchTimeout, FetchWoken,
       FetchFragment, flags, player, inject, sent
  <2>2. CASE UpdateTSAfterFetch \/ FetchEos \/ FetchExit \/ RefreshTaken \/ SwitchSubtitleTrack
    BY <2>2 DEF UpdateTSAfterFetch, FetchEos, FetchExit, RefreshTaken, SwitchSubtitleTrack,
       flags, player, inject, sent
  <2> QED BY <1>1, <2>1, <2>2 DEF Collector
<1>2. CASE Injector
  <2>1. CASE InjectLoop \/ InjectAvail \/ InjectWoken
    BY <2>1 DEF InjectLoop, InjectAvail, InjectWoken, CachedFragmentAvailable, flags, player, sent
  <2>2. CASE InjectPeek \/ InjectSend
    BY <2>2 DEF InjectPeek, InjectSend, flags, player, sent
  <2>3. CASE UpdateTSAfterInject \/ InjectEnd
    BY <2>3 DEF UpdateTSAfterInject, InjectEnd, flags, player, sent
  <2> QED BY <1>2, <2>1, <2>2, <2>3, Zenon DEF Injector
<1>3. CASE SpuriousWakeup \/ PlayerContinue \/ AbortWaitForCachedFragment \/ Stop
           \/ RefreshSubtitles \/ PlayStart
  <2>1. CASE SpuriousWakeup \/ AbortWaitForCachedFragment \/ Stop
    BY <2>1 DEF SpuriousWakeup, AbortWaitForCachedFragment, Stop,
       AbortWaitForCachedAndFreeFragment, StopInjectLoop, flags, player, inject, sent
  <2>2. CASE PlayerContinue
    BY <2>2 DEF PlayerContinue, JoinCollector, StartInjectLoop, StopInjectLoop,
       AbortWaitForCachedAndFreeFragment, flags, player, inject, sent
  <2>3. CASE RefreshSubtitles \/ PlayStart
    BY <2>3 DEF RefreshSubtitles, PlayStart, flags, player, inject, sent
  <2> QED BY <1>3, <2>1, <2>2, <2>3, Zenon
<1>4. CASE UNCHANGED vars
  BY <1>4 DEF vars, flags, player, inject, sent
<1> QED BY <1>1, <1>2, <1>3, <1>4 DEF Next

LEMMA RingTypeStep == RingTypes /\ [Next]_vars => RingTypes'
<1> SUFFICES ASSUME RingTypes, [Next]_vars PROVE RingTypes'
  OBVIOUS
<1> USE DEF RingTypes
<1>1. CASE Collector
  <2>1. CASE FetchFragment
    BY <2>1 DEF FetchFragment, inject, sent, ring
  <2>2. CASE UpdateTSAfterFetch
    BY <2>2, NextIdxInRing DEF UpdateTSAfterFetch, sent
  <2>3. CASE SwitchSubtitleTrack
    BY <2>3, NSize DEF SwitchSubtitleTrack, inject, sent, Slots, Empty
  <2>4. CASE FetchCheckAbort \/ FetchPlaystart \/ FetchLock \/ FetchTimeout \/ FetchWoken
             \/ FetchEos \/ FetchExit \/ RefreshTaken
    BY <2>4 DEF FetchCheckAbort, FetchPlaystart, FetchLock, FetchTimeout, FetchWoken,
       FetchEos, FetchExit, RefreshTaken, ring, inject, sent
  <2> QED BY <1>1, <2>1, <2>2, <2>3, <2>4 DEF Collector
<1>2. CASE Injector
  <2>1. CASE InjectSend
    <3> DEFINE f == cachedFragment[fragmentIdxToInject]
    <3>1. f \in Nat
      OBVIOUS
    <3>2. /\ injected' = injected \/ injected' = f
          /\ \/ mSegInjectFailCount' = mSegInjectFailCount
             \/ mSegInjectFailCount' = mSegInjectFailCount + 1
             \/ mSegInjectFailCount' = 0
      BY <2>1, Zenon DEF InjectSend
    <3>3. /\ discontinuity' = discontinuity \ {f}
          /\ UNCHANGED <<cachedFragment, fragmentIdxToFetch, fragmentIdxToInject,
                         numberOfFragmentsCached, fetched>>
      BY <2>1, Zenon DEF InjectSend, fetch
    <3> QED BY <3>1, <3>2, <3>3
  <2>2. CASE UpdateTSAfterInject
    BY <2>2, NextIdxInRing DEF UpdateTSAfterInject, sent, Empty
  <2>3. CASE InjectLoop \/ InjectAvail \/ InjectWoken \/ InjectPeek \/ InjectEnd
    BY <2>3 DEF InjectLoop, InjectAvail, InjectWoken, InjectPeek, InjectEnd,
       ring, fetch, sent
  <2> QED BY <1>2, <2>1, <2>2, <2>3 DEF Injector
<1>3. CASE SpuriousWakeup \/ PlayerContinue \/ AbortWaitForCachedFragment \/ Stop
           \/ RefreshSubtitles \/ PlayStart
  BY <1>3 DEF SpuriousWakeup, PlayerContinue, AbortWaitForCachedFragment, Stop,
     RefreshSubtitles, PlayStart, StartInjectLoop, StopInjectLoop, JoinCollector,
     AbortWaitForCachedAndFreeFragment, ring, fetch, inject, sent
<1>4. CASE UNCHANGED vars
  BY <1>4 DEF vars, ring, fetch, inject, sent
<1> QED BY <1>1, <1>2, <1>3, <1>4 DEF Next

LEMMA ControlStep == ControlTypes /\ [Next]_vars => ControlTypes'
<1> SUFFICES ASSUME ControlTypes, [Next]_vars PROVE ControlTypes'
  OBVIOUS
<1> USE TrackAssumption DEF ControlTypes, FetchPC, InjectPC, PlayerPC, Signal
<1>1. CASE Collector
  BY <1>1 DEF Collector, FetchCheckAbort, FetchPlaystart, FetchLock, FetchTimeout, FetchWoken,
     FetchFragment, UpdateTSAfterFetch, FetchEos, FetchExit, RefreshTaken,
     SwitchSubtitleTrack, player, inject, sent
<1>2. CASE Injector
  BY <1>2 DEF Injector, InjectLoop, InjectAvail, InjectWoken, InjectPeek, InjectSend,
     UpdateTSAfterInject, InjectEnd, CachedFragmentAvailable, player, fetch
<1>3. CASE SpuriousWakeup \/ PlayerContinue \/ AbortWaitForCachedFragment \/ Stop
           \/ RefreshSubtitles \/ PlayStart
  BY <1>3 DEF SpuriousWakeup, PlayerContinue, AbortWaitForCachedFragment, Stop,
     RefreshSubtitles, PlayStart, StartInjectLoop, StopInjectLoop, JoinCollector,
     AbortWaitForCachedAndFreeFragment, player, fetch, inject
<1>4. CASE UNCHANGED vars
  BY <1>4 DEF vars, player, fetch, inject
<1> QED BY <1>1, <1>2, <1>3, <1>4 DEF Next

\* The ring's indices stay in the ring and every thread at a known place, for
\* every size of the ring (streamabstraction.cpp, MediaTrack).
THEOREM TypeCorrect == Spec => []TypeOK
<1>1. TypeOK /\ [Next]_vars => TypeOK'
  BY FlagStep, RingTypeStep, ControlStep
     DEF TypeOK, FlagTypes, RingTypes, ControlTypes
<1> QED BY <1>1, TypeInit, PTL DEF Spec

-----------------------------------------------------------------------------
(* The ring                                                                 *)

\* Without a subtitle switch only Stop sets abort, and the player's thread never
\* starts an injector while one runs.
Control ==
    /\ ~refreshSubtitles /\ cpc # "refresh" /\ fpc # "switch"
    /\ abort => cpc \in {"joinFetch", "joinInject", "stopped"}
    /\ cpc = "injStopped" => ipc \in {"off", "done"}

\* A collector past its wait has room for one more fragment, an injector past its
\* wait holds one: each thread only makes the other one's promise stronger.
Room ==
    /\ numberOfFragmentsCached \in 0 .. N
    /\ numberOfFragmentsCached <= fetched
    /\ fpc \in {"fetch", "filled"} => numberOfFragmentsCached < N
    /\ fpc = "woken" => abort \/ numberOfFragmentsCached < N
    /\ ipc \in {"peek", "send", "sent"} => numberOfFragmentsCached > 0

\* What is injected is what is released, and the fragment in between.
History == injected = IF ipc = "sent" THEN released + 1 ELSE released

LEMMA ControlInit == Init => Control /\ Room /\ History
  BY NSize DEF Init, Control, Room, History, released

\* What an injector step leaves alone.
LEMMA InjectorFrame ==
    ASSUME Injector
    PROVE  /\ UNCHANGED <<abort, refreshSubtitles, downloads, cpc, fetched, fragmentIdxToFetch>>
           /\ ipc \notin {"off", "done"}
           /\ fpc' = fpc \/ fpc' = Signal(fpc)
<1>1. CASE InjectLoop \/ InjectAvail \/ InjectWoken \/ InjectPeek \/ InjectEnd
  BY <1>1 DEF InjectLoop, InjectAvail, InjectWoken, InjectPeek, InjectEnd, ring, flags, player,
     fetch
<1>2. CASE InjectSend
  BY <1>2, Zenon DEF InjectSend, flags, player, fetch
<1>3. CASE UpdateTSAfterInject
  BY <1>3 DEF UpdateTSAfterInject, flags, player
<1> QED BY <1>1, <1>2, <1>3 DEF Injector

LEMMA ControlPreserved ==
    ASSUME MaxSwitches = 0, TypeOK, Control, [Next]_vars
    PROVE  Control'
<1> USE DEF Control, Signal
<1>1. CASE Collector
  BY <1>1 DEF Collector, FetchCheckAbort, FetchPlaystart, FetchLock, FetchTimeout, FetchWoken,
     FetchFragment, UpdateTSAfterFetch, FetchEos, FetchExit, RefreshTaken,
     SwitchSubtitleTrack, flags, player, inject
<1>2. CASE Injector
  BY <1>2, InjectorFrame
<1>3. CASE SpuriousWakeup \/ PlayerContinue \/ AbortWaitForCachedFragment \/ Stop
           \/ RefreshSubtitles \/ PlayStart
  BY <1>3 DEF TypeOK, SpuriousWakeup, PlayerContinue, AbortWaitForCachedFragment, Stop,
     RefreshSubtitles, PlayStart, StartInjectLoop, StopInjectLoop, JoinCollector,
     AbortWaitForCachedAndFreeFragment, flags, player, fetch, inject
<1>4. CASE UNCHANGED vars
  BY <1>4 DEF vars, flags, player, fetch, inject
<1> QED BY <1>1, <1>2, <1>3, <1>4 DEF Next

LEMMA RoomPreserved ==
    ASSUME Spurious = FALSE, TypeOK, Control, Room, [Next]_vars
    PROVE  Room'
<1> USE NSize DEF Room, Control, Signal, RingTypes
<1>t. RingTypes
  BY TypeParts
<1>1. CASE Collector
  BY <1>t, <1>1 DEF Collector, FetchCheckAbort, FetchPlaystart, FetchLock, CacheFull,
     FetchTimeout, FetchWoken, FetchFragment, UpdateTSAfterFetch, FetchEos, FetchExit,
     RefreshTaken, SwitchSubtitleTrack, ring, flags, inject
<1>2. CASE Injector
  <2>1. CASE InjectAvail \/ InjectWoken
    <3>1. /\ UNCHANGED <<numberOfFragmentsCached, fetched, fpc, abort>>
          /\ ipc' = "peek" => numberOfFragmentsCached # 0
          /\ ipc' \in {"wait", "loop", "peek"}
      BY <2>1 DEF InjectAvail, InjectWoken, CachedFragmentAvailable, ring, flags, fetch
    <3> QED BY <1>t, <3>1
  <2>2. CASE InjectLoop \/ InjectPeek \/ InjectEnd
    BY <1>t, <2>2 DEF InjectLoop, InjectPeek, InjectEnd, ring, flags, fetch
  <2>3. CASE InjectSend
    <3>1. /\ UNCHANGED <<numberOfFragmentsCached, fetched, fpc, abort>>
          /\ ipc = "send"
      BY <2>3, Zenon DEF InjectSend, flags, fetch
    <3> QED BY <1>t, <3>1
  <2>4. CASE UpdateTSAfterInject
    BY <1>t, <2>4 DEF UpdateTSAfterInject, flags
  <2> QED BY <1>2, <2>1, <2>2, <2>3, <2>4 DEF Injector
<1>3. CASE SpuriousWakeup \/ PlayerContinue \/ AbortWaitForCachedFragment \/ Stop
           \/ RefreshSubtitles \/ PlayStart
  BY <1>t, <1>3 DEF SpuriousWakeup, PlayerContinue, AbortWaitForCachedFragment, Stop,
     RefreshSubtitles, PlayStart, StartInjectLoop, StopInjectLoop, JoinCollector,
     AbortWaitForCachedAndFreeFragment, ring, flags, fetch, inject
<1>4. CASE UNCHANGED vars
  BY <1>t, <1>4 DEF vars, ring, flags, fetch, inject
<1> QED BY <1>1, <1>2, <1>3, <1>4 DEF Next

Position(k) == (released + k - 1) % N

LEMMA RingInit == Init => RingInOrder
<1> SUFFICES ASSUME Init PROVE RingInOrder
  OBVIOUS
<1>1. 0 % N = 0
  BY NSize, ModUnique, 0 = N * 0 + 0, 0 \in Nat, 0 \in 0 .. (N - 1)
<1>2. \A k \in 1 .. N : (k - 1) % N \in Slots
  <2> TAKE k \in 1 .. N
  <2>1. k - 1 \in Nat
    BY NSize
  <2> QED BY <2>1, NextIdxIsMod
<1>3. \A k \in 1 .. N : released + k - 1 = k - 1
  BY NSize DEF Init, released
<1> QED BY NSize, <1>1, <1>2, <1>3 DEF Init, RingInOrder, released, Empty

LEMMA RingFrame ==
    ASSUME RingInOrder, UNCHANGED <<ring, fetched>>, fpc' = "filled" <=> fpc = "filled"
    PROVE  RingInOrder'
  BY DEF RingInOrder, ring, released

LEMMA FetchFillsFreeSlot ==
    ASSUME TypeOK, Room, RingInOrder, FetchFragment
    PROVE  RingInOrder'
<1>t. RingTypes
  BY TypeParts
<1>1. CASE fpc' = "filled"
  <2> DEFINE n == numberOfFragmentsCached
  <2>1. /\ cachedFragment' = [cachedFragment EXCEPT ![fragmentIdxToFetch] = fetched + 1]
        /\ UNCHANGED <<fragmentIdxToFetch, fragmentIdxToInject, numberOfFragmentsCached, fetched>>
        /\ fpc = "fetch"
    BY <1>1, Zenon DEF FetchFragment, fetch
  <2>2. n \in 0 .. (N - 1) /\ released \in Nat /\ released + n = fetched /\ n + 1 \in 1 .. N
    BY <1>t, <2>1, NSize DEF Room, released, RingTypes
  <2>3. fragmentIdxToFetch = Position(n + 1) /\ fragmentIdxToFetch \in Slots
    BY <1>t, <2>2, NSize DEF RingInOrder, Position, RingTypes
  <2>4. \A k \in 1 .. N : k # n + 1 => Position(k) # fragmentIdxToFetch
    <3> SUFFICES ASSUME NEW k \in 1 .. N, k # n + 1
                 PROVE  Position(k) # Position(n + 1)
      BY <2>3
    <3>1. k - 1 \in 0 .. (N - 1) /\ k - 1 # n
      BY <2>2, NSize
    <3>2. (released + (k - 1)) % N # (released + n) % N
      BY <2>2, <3>1, WindowIsInjective, Zenon
    <3>3. released + k - 1 = released + (k - 1) /\ released + (n + 1) - 1 = released + n
      BY <2>2, NSize
    <3> QED BY <3>2, <3>3 DEF Position
  <2>5. \A k \in 1 .. N : Position(k) \in Slots
    <3> TAKE k \in 1 .. N
    <3>1. released + k - 1 \in Nat
      BY <2>2, NSize
    <3> QED BY <3>1, NextIdxIsMod DEF Position
  <2>6. released' = released
    BY <2>1 DEF released
  <2>7. ASSUME NEW k \in 1 .. N
        PROVE  cachedFragment'[Position(k)] =
                 IF k <= n THEN released + k ELSE IF k = n + 1 THEN fetched + 1 ELSE Empty
    <3>1. CASE k = n + 1
      BY <1>t, <2>1, <2>2, <2>3, <3>1 DEF RingTypes
    <3>2. CASE k # n + 1
      <4>1. cachedFragment'[Position(k)] = cachedFragment[Position(k)]
        BY <1>t, <2>1, <2>4, <2>5, <3>2 DEF RingTypes
      <4>2. cachedFragment[Position(k)] = IF k <= n THEN released + k ELSE Empty
        BY <2>1, <2>2, <3>2, NSize DEF RingInOrder, Position
      <4> QED BY <2>2, <3>2, <4>1, <4>2
    <3> QED BY <3>1, <3>2
  <2>8. /\ n' = n /\ fetched' = fetched
        /\ n \in 0 .. N /\ fragmentIdxToInject = released % N /\ fragmentIdxToFetch = fetched % N
    BY <2>1 DEF RingInOrder
  <2> QED BY <1>1, <2>1, <2>6, <2>7, <2>8 DEF RingInOrder, Position
<1>2. CASE fpc' # "filled"
  <2>1. UNCHANGED <<ring, fetched>> /\ fpc = "fetch"
    BY <1>2 DEF FetchFragment, ring, fetch
  <2> QED BY <1>2, <2>1, RingFrame
<1> QED BY <1>1, <1>2

LEMMA FetchedEntersRing ==
    ASSUME TypeOK, Room, RingInOrder, UpdateTSAfterFetch
    PROVE  RingInOrder'
<1> DEFINE n == numberOfFragmentsCached
<1>t. RingTypes
  BY TypeParts
<1>1. /\ n' = n + 1 /\ fetched' = fetched + 1
      /\ fragmentIdxToFetch' = NextIdx(fragmentIdxToFetch)
      /\ UNCHANGED <<cachedFragment, fragmentIdxToInject>>
      /\ fpc = "filled" /\ fpc' = "idle"
  BY Zenon DEF UpdateTSAfterFetch
<1>2. n \in 0 .. (N - 1) /\ released' = released /\ released \in Nat /\ released + n = fetched
  BY <1>t, <1>1, NSize DEF Room, released, RingTypes
<1>3. fragmentIdxToFetch' = fetched' % N /\ fragmentIdxToInject' = released' % N
  BY <1>t, <1>1, <1>2, NextIdxIsMod DEF RingInOrder, RingTypes
<1>4. ASSUME NEW k \in 1 .. N
      PROVE  cachedFragment'[Position(k)] = IF k <= n + 1 THEN released + k ELSE Empty
  BY <1>1, <1>2, <1>4, NSize DEF RingInOrder, Position
<1>5. n' \in 0 .. N
  BY <1>1, <1>2, NSize
<1> QED BY <1>1, <1>2, <1>3, <1>4, <1>5 DEF RingInOrder, Position

LEMMA ReleaseShiftsRing ==
    ASSUME TypeOK, Room, RingInOrder, UpdateTSAfterInject
    PROVE  RingInOrder' /\ released' = released + 1
<1> DEFINE n == numberOfFragmentsCached
<1>t. RingTypes
  BY TypeParts
<1>1. /\ n' = n - 1 /\ fetched' = fetched
      /\ fragmentIdxToInject' = NextIdx(fragmentIdxToInject)
      /\ cachedFragment' = [cachedFragment EXCEPT ![fragmentIdxToInject] = Empty]
      /\ fragmentIdxToFetch' = fragmentIdxToFetch
      /\ ipc = "sent" /\ fpc' = Signal(fpc)
  BY Zenon DEF UpdateTSAfterInject
<1>2. /\ n \in 1 .. N /\ released' = released + 1 /\ released \in Nat
      /\ released + n = fetched
  BY <1>t, <1>1, NSize DEF Room, released, RingTypes
<1>f. fpc' = "filled" <=> fpc = "filled"
  BY <1>1 DEF Signal
<1>3. fragmentIdxToFetch' = fetched' % N /\ fragmentIdxToInject' = released' % N
  BY <1>t, <1>1, <1>2, NextIdxIsMod DEF RingInOrder, RingTypes
<1>4. fragmentIdxToInject = released % N /\ fragmentIdxToInject \in Slots
  BY <1>t DEF RingInOrder, RingTypes
<1>5. ASSUME NEW k \in 1 .. (N - 1)
      PROVE  /\ cachedFragment'[(released + k) % N] = cachedFragment[Position(k + 1)]
             /\ released + (k + 1) - 1 = released + k
  <2>1. /\ 0 \in 0 .. (N - 1) /\ k \in 0 .. (N - 1) /\ 0 # k /\ released + 0 = released
        /\ released + k \in Nat /\ released + (k + 1) - 1 = released + k
    BY <1>2, <1>5, NSize
  <2>2. (released + k) % N # released % N /\ (released + k) % N \in Slots
    <3>1. (released + 0) % N # (released + k) % N
      BY <1>2, <2>1, WindowIsInjective, Zenon
    <3>2. (released + k) % N \in Slots
      BY <2>1, NextIdxIsMod
    <3> QED BY <2>1, <3>1, <3>2
  <2> QED BY <1>t, <1>1, <1>4, <2>1, <2>2 DEF RingTypes, Position
<1>6. cachedFragment'[(released + N) % N] = Empty
  BY <1>t, <1>1, <1>2, <1>4, RingPeriod DEF RingTypes
<1>7. ASSUME NEW k \in 1 .. N
      PROVE  cachedFragment'[(released' + k - 1) % N] =
               IF k <= n' THEN released' + k
               ELSE IF k = n' + 1 /\ fpc = "filled" THEN fetched' + 1 ELSE Empty
  <2>0. released' + k - 1 = released + k
    BY <1>2, NSize
  <2>1. CASE k = N
    BY <1>1, <1>2, <1>6, <2>0, <2>1, NSize DEF Room
  <2>2. CASE k # N
    <3>1. k \in 1 .. (N - 1) /\ k + 1 \in 1 .. N
      BY <2>2, NSize
    <3>2. cachedFragment[Position(k + 1)] =
             IF k + 1 <= n THEN released + (k + 1)
             ELSE IF k + 1 = n + 1 /\ fpc = "filled" THEN fetched + 1 ELSE Empty
      BY <3>1, Zenon DEF RingInOrder, Position
    <3> QED BY <1>1, <1>2, <1>5, <2>0, <3>1, <3>2
  <2> QED BY <2>1, <2>2
<1>8. n' \in 0 .. N
  BY <1>1, <1>2, NSize
<1> QED BY <1>1, <1>2, <1>f, <1>3, <1>7, <1>8 DEF RingInOrder

LEMMA RingPreserved ==
    ASSUME MaxSwitches = 0, TypeOK, Control, Room, RingInOrder, [Next]_vars
    PROVE  RingInOrder'
<1>1. CASE FetchFragment
  BY <1>1, FetchFillsFreeSlot
<1>2. CASE UpdateTSAfterFetch
  BY <1>2, FetchedEntersRing
<1>3. CASE UpdateTSAfterInject
  BY <1>3, ReleaseShiftsRing
<1>4. CASE \/ FetchCheckAbort \/ FetchPlaystart \/ FetchLock \/ FetchTimeout \/ FetchWoken
           \/ FetchEos \/ FetchExit \/ RefreshTaken
  BY <1>4, RingFrame DEF FetchCheckAbort, FetchPlaystart, FetchLock, FetchTimeout, FetchWoken,
     FetchEos, FetchExit, RefreshTaken
<1>5. CASE SwitchSubtitleTrack
  BY <1>5 DEF SwitchSubtitleTrack, Control
<1>6. CASE InjectLoop \/ InjectAvail \/ InjectWoken \/ InjectPeek \/ InjectEnd
  BY <1>6, RingFrame DEF InjectLoop, InjectAvail, InjectWoken, InjectPeek, InjectEnd, fetch
<1>7. CASE InjectSend
  <2>1. UNCHANGED <<cachedFragment, fragmentIdxToFetch, fragmentIdxToInject,
                    numberOfFragmentsCached, fetched, fpc>>
    BY <1>7, Zenon DEF InjectSend, fetch
  <2> QED BY <2>1 DEF RingInOrder, released
<1>8. CASE SpuriousWakeup \/ PlayerContinue \/ AbortWaitForCachedFragment \/ Stop
           \/ RefreshSubtitles \/ PlayStart
  BY <1>8, RingFrame DEF SpuriousWakeup, PlayerContinue, AbortWaitForCachedFragment, Stop,
     RefreshSubtitles, PlayStart, StartInjectLoop, StopInjectLoop, JoinCollector,
     AbortWaitForCachedAndFreeFragment, fetch, Signal
<1>9. CASE UNCHANGED vars
  BY <1>9, RingFrame DEF vars, fetch
<1> QED BY <1>1, <1>2, <1>3, <1>4, <1>5, <1>6, <1>7, <1>8, <1>9 DEF Next, Collector, Injector

-----------------------------------------------------------------------------
(* What the sink gets                                                       *)

\* The injector is at the first fragment that is not released.
LEMMA FirstIsNext ==
    ASSUME TypeOK, Room, RingInOrder, numberOfFragmentsCached > 0
    PROVE  cachedFragment[fragmentIdxToInject] = released + 1 /\ released \in Nat
<1>t. RingTypes
  BY TypeParts
<1>1. numberOfFragmentsCached \in 1 .. N /\ released \in Nat /\ released + 1 - 1 = released
  BY <1>t, NSize DEF Room, released, RingTypes
<1>2. 1 \in 1 .. N /\ 1 <= numberOfFragmentsCached
  BY <1>1, NSize
<1>3. cachedFragment[(released + 1 - 1) % N] = released + 1
  BY <1>2, Zenon DEF RingInOrder
<1> QED BY <1>1, <1>3 DEF RingInOrder

LEMMA InjectSendsNext ==
    ASSUME TypeOK, Room, RingInOrder, InjectSend
    PROVE  /\ ipc = "send" /\ released' = released
           /\ \/ injected' = injected /\ ipc' = "loop"
              \/ injected' = released + 1 /\ ipc' = "sent"
<1>1. /\ ipc = "send"
      /\ UNCHANGED <<numberOfFragmentsCached, fetched>>
      /\ \/ injected' = injected /\ ipc' = "loop"
         \/ injected' = cachedFragment[fragmentIdxToInject] /\ ipc' = "sent"
  BY Zenon DEF InjectSend, fetch
<1>2. cachedFragment[fragmentIdxToInject] = released + 1
  BY <1>1, FirstIsNext DEF Room
<1>3. released' = released
  BY <1>1 DEF released
<1> QED BY <1>1, <1>2, <1>3

LEMMA HistoryPreserved ==
    ASSUME MaxSwitches = 0, TypeOK, Control, Room, RingInOrder, History, [Next]_vars
    PROVE  /\ History'
           /\ injected' = injected \/ injected' = injected + 1
<1>t. RingTypes
  BY TypeParts
<1> USE DEF History
<1>1. CASE UpdateTSAfterFetch
  <2>1. UNCHANGED injected /\ (ipc' = ipc \/ ipc' = Signal(ipc))
    BY <1>1 DEF UpdateTSAfterFetch, sent
  <2>2. released' = released
    BY <1>t, <1>1 DEF UpdateTSAfterFetch, released, RingTypes
  <2> QED BY <2>1, <2>2 DEF Signal
<1>2. CASE UpdateTSAfterInject
  <2>1. UNCHANGED injected /\ ipc = "sent" /\ ipc' = "loop"
    BY <1>2 DEF UpdateTSAfterInject, sent
  <2>2. released' = released + 1
    BY <1>2, ReleaseShiftsRing
  <2> QED BY <2>1, <2>2
<1>3. CASE InjectSend
  BY <1>3, InjectSendsNext
<1>4. CASE \/ FetchCheckAbort \/ FetchPlaystart \/ FetchLock \/ FetchTimeout \/ FetchWoken
           \/ FetchFragment \/ FetchEos \/ FetchExit \/ RefreshTaken
  BY <1>4 DEF FetchCheckAbort, FetchPlaystart, FetchLock, FetchTimeout, FetchWoken,
     FetchFragment, FetchEos, FetchExit, RefreshTaken, ring, fetch, inject, sent, released, Signal
<1>5. CASE SwitchSubtitleTrack
  BY <1>5 DEF SwitchSubtitleTrack, Control
<1>6. CASE InjectLoop \/ InjectAvail \/ InjectWoken \/ InjectPeek \/ InjectEnd
  <2>1. UNCHANGED <<injected, numberOfFragmentsCached, fetched>>
    BY <1>6 DEF InjectLoop, InjectAvail, InjectWoken, InjectPeek, InjectEnd, ring, fetch, sent
  <2>2. ipc # "sent" /\ ipc' # "sent"
    BY <1>6 DEF InjectLoop, InjectAvail, InjectWoken, InjectPeek, InjectEnd,
       CachedFragmentAvailable
  <2> QED BY <2>1, <2>2 DEF released
<1>7. CASE SpuriousWakeup \/ PlayerContinue \/ AbortWaitForCachedFragment \/ Stop
           \/ RefreshSubtitles \/ PlayStart
  <2>1. UNCHANGED <<injected, numberOfFragmentsCached, fetched>>
    BY <1>7 DEF SpuriousWakeup, PlayerContinue, AbortWaitForCachedFragment, Stop,
       RefreshSubtitles, PlayStart, StartInjectLoop, StopInjectLoop, JoinCollector,
       AbortWaitForCachedAndFreeFragment, ring, fetch, inject, sent
  <2>2. ipc' = "sent" <=> ipc = "sent"
    BY <1>7 DEF SpuriousWakeup, PlayerContinue, AbortWaitForCachedFragment, Stop,
       RefreshSubtitles, PlayStart, StartInjectLoop, StopInjectLoop, JoinCollector,
       AbortWaitForCachedAndFreeFragment, inject, Signal, Control
  <2> QED BY <2>1, <2>2 DEF released
<1>8. CASE UNCHANGED vars
  BY <1>8 DEF vars, ring, fetch, inject, sent, released
<1> QED BY <1>1, <1>2, <1>3, <1>4, <1>5, <1>6, <1>7, <1>8 DEF Next, Collector, Injector

IInv == TypeOK /\ Control /\ Room /\ RingInOrder /\ History

LEMMA Inductive ==
    ASSUME MaxSwitches = 0, Spurious = FALSE
    PROVE  /\ Init => IInv
           /\ IInv /\ [Next]_vars => IInv'
<1>1. Init => IInv
  BY TypeInit, ControlInit, RingInit DEF IInv
<1>2. ASSUME IInv, [Next]_vars PROVE IInv'
  <2>1. TypeOK'
    BY <1>2, FlagStep, RingTypeStep, ControlStep
       DEF IInv, TypeOK, FlagTypes, RingTypes, ControlTypes
  <2> QED BY <1>2, <2>1, ControlPreserved, RoomPreserved, RingPreserved, HistoryPreserved
          DEF IInv
<1> QED BY <1>1, <1>2

\* The assertion of UpdateTSAfterFetch never fails: the collector has one slot
\* whenever it fetches.
THEOREM NeverOverflows ==
    ASSUME MaxSwitches = 0, Spurious = FALSE
    PROVE  Spec => []CacheNeverOverflows
<1>1. IInv => CacheNeverOverflows
  BY NSize DEF IInv, Room, CacheNeverOverflows
<1> QED BY <1>1, Inductive, PTL DEF Spec

\* The ring holds exactly the fragments between the injector's and the
\* collector's position, in order, and the slot to fill next is free.
THEOREM RingStaysInOrder ==
    ASSUME MaxSwitches = 0, Spurious = FALSE
    PROVE  Spec => []RingInOrder
<1>1. IInv => RingInOrder
  BY DEF IInv
<1> QED BY <1>1, Inductive, PTL DEF Spec

\* The sink gets every fragment once and in order, across stops and restarts of
\* the injection, discarded fragments and discontinuities.
THEOREM SinkInOrder ==
    ASSUME MaxSwitches = 0, Spurious = FALSE
    PROVE  Spec => InjectedInOrder
<1>1. IInv /\ [Next]_vars => [injected' # injected => injected' = injected + 1]_vars
  BY HistoryPreserved DEF IInv
<1> QED BY <1>1, Inductive, PTL DEF Spec, InjectedInOrder

-----------------------------------------------------------------------------
(* The end of the stream                                                    *)

\* After the end of the stream the collector only leaves its loop.
Ended == eosReached => fetched = Total /\ fpc \in {"eos", "done"}

LEMMA EndedPreserved ==
    ASSUME Ended, [Next]_vars
    PROVE  Ended'
<1> USE DEF Ended, Signal
<1>1. CASE Collector
  BY <1>1 DEF Collector, FetchCheckAbort, FetchPlaystart, FetchLock, FetchTimeout, FetchWoken,
     FetchFragment, UpdateTSAfterFetch, FetchEos, FetchExit, RefreshTaken,
     SwitchSubtitleTrack, flags, fetch
<1>2. CASE Injector
  <2>1. UNCHANGED <<eosReached, fetched>>
    <3>1. CASE InjectSend
      BY <3>1, Zenon DEF InjectSend, flags, fetch
    <3>2. CASE ~InjectSend
      BY <1>2, <3>2 DEF Injector, InjectLoop, InjectAvail, InjectWoken, InjectPeek, InjectEnd,
         UpdateTSAfterInject, flags, fetch
    <3> QED BY <3>1, <3>2
  <2> QED BY <1>2, <2>1, InjectorFrame
<1>3. CASE SpuriousWakeup \/ PlayerContinue \/ AbortWaitForCachedFragment \/ Stop
           \/ RefreshSubtitles \/ PlayStart
  BY <1>3 DEF SpuriousWakeup, PlayerContinue, AbortWaitForCachedFragment, Stop,
     RefreshSubtitles, PlayStart, StartInjectLoop, StopInjectLoop, JoinCollector,
     AbortWaitForCachedAndFreeFragment, flags, fetch
<1>4. CASE UNCHANGED vars
  BY <1>4 DEF vars, flags, fetch
<1> QED BY <1>1, <1>2, <1>3, <1>4 DEF Next

\* The injector looks at a slot only when the ring holds a fragment, so only an empty ring
\* or an abort ends its loop.
LEMMA PeekFindsFragment ==
    ASSUME TypeOK, Room, RingInOrder, ipc = "peek"
    PROVE  cachedFragment[fragmentIdxToInject] # Empty
<1>1. cachedFragment[fragmentIdxToInject] = released + 1 /\ released \in Nat
  BY FirstIsNext DEF Room
<1> QED BY <1>1 DEF Empty

LEMMA EosComesLast ==
    ASSUME IInv, Ended, [Next]_vars, ~eosSent, eosSent'
    PROVE  injected = Total \/ abort \/ abortInject
<1>1. InjectAvail \/ InjectWoken
  <2>1. CASE InjectSend
    BY <2>1, Zenon DEF InjectSend
  <2>2. CASE InjectPeek
    BY <2>2, PeekFindsFragment DEF IInv, InjectPeek
  <2>3. CASE InjectLoop \/ UpdateTSAfterInject \/ InjectEnd
    BY <2>3 DEF InjectLoop, UpdateTSAfterInject, InjectEnd, sent
  <2>4. CASE Collector
    BY <2>4 DEF Collector, FetchCheckAbort, FetchPlaystart, FetchLock, FetchTimeout, FetchWoken,
       FetchFragment, UpdateTSAfterFetch, FetchEos, FetchExit, RefreshTaken,
       SwitchSubtitleTrack, inject, sent
  <2>5. CASE SpuriousWakeup \/ PlayerContinue \/ AbortWaitForCachedFragment \/ Stop
             \/ RefreshSubtitles \/ PlayStart
    BY <2>5 DEF SpuriousWakeup, PlayerContinue, AbortWaitForCachedFragment, Stop,
       RefreshSubtitles, PlayStart, StartInjectLoop, StopInjectLoop, JoinCollector,
       AbortWaitForCachedAndFreeFragment, inject, sent
  <2>6. CASE UNCHANGED vars
    BY <2>6 DEF vars, inject, sent
  <2> QED BY <2>1, <2>2, <2>3, <2>4, <2>5, <2>6 DEF Next, Injector
<1>2. /\ eosReached /\ ipc \in {"avail", "woken"}
      /\ abort \/ abortInject \/ numberOfFragmentsCached = 0
  BY <1>1 DEF InjectAvail, InjectWoken, CachedFragmentAvailable
<1>3. CASE numberOfFragmentsCached = 0
  <2>1. released = fetched
    BY <1>3, TypeParts DEF IInv, released, RingTypes
  <2> QED BY <1>2, <2>1 DEF IInv, History, Ended
<1> QED BY <1>2, <1>3

\* InjectFragment reports the end of the stream when the sink has its last fragment, or the
\* injection was aborted: the ring is empty and the collector at its end.
THEOREM EosIsLast ==
    ASSUME MaxSwitches = 0, Spurious = FALSE
    PROVE  Spec => EosAfterLastFragment
<1>1. Init => Ended
  BY DEF Init, Ended
<1>2. Ended /\ [Next]_vars => Ended'
  BY EndedPreserved
<1>3. IInv /\ Ended /\ [Next]_vars =>
          [~eosSent /\ eosSent' => injected = Total \/ abort \/ abortInject]_vars
  BY EosComesLast
<1> QED BY <1>1, <1>2, <1>3, Inductive, PTL DEF Spec, EosAfterLastFragment
-----------------------------------------------------------------------------
(* The ring is a channel                                                    *)

\* The n fragments after the r-th.
Window(r, n) == [k \in 1 .. n |-> r + k]

LEMMA IsWindow ==
    ASSUME NEW r \in Nat, NEW n \in Nat, NEW s \in Seq(Nat), Len(s) = n,
           \A k \in 1 .. n : s[k] = r + k
    PROVE  s = Window(r, n)
<1>1. DOMAIN s = 1 .. n /\ s \in [1 .. n -> Nat]
  OBVIOUS
<1>2. s = [k \in 1 .. n |-> s[k]]
  BY <1>1
<1> QED BY <1>2 DEF Window

LEMMA WindowGrows ==
    ASSUME NEW r \in Nat, NEW n \in Nat
    PROVE  /\ Window(r, n) \in Seq(Nat) /\ Len(Window(r, n)) = n
           /\ Append(Window(r, n), r + n + 1) = Window(r, n + 1)
<1>1. Window(r, n) \in Seq(Nat) /\ Len(Window(r, n)) = n
  BY DEF Window
<1>2. \A k \in 1 .. n + 1 : Append(Window(r, n), r + n + 1)[k] = r + k
  BY <1>1 DEF Window
<1>3. Append(Window(r, n), r + n + 1) \in Seq(Nat) /\ Len(Append(Window(r, n), r + n + 1)) = n + 1
  BY <1>1
<1> QED BY <1>1, <1>2, <1>3 DEF Window

LEMMA WindowMoves ==
    ASSUME NEW r \in Nat, NEW n \in Nat \ {0}
    PROVE  /\ Window(r, n) # <<>> /\ Head(Window(r, n)) = r + 1
           /\ Tail(Window(r, n)) = Window(r + 1, n - 1)
<1>1. Window(r, n) \in Seq(Nat) /\ Len(Window(r, n)) = n
  BY DEF Window
<1>2. Window(r, n) # <<>> /\ Head(Window(r, n)) = r + 1
  BY <1>1 DEF Window
<1>3. Tail(Window(r, n)) \in Seq(Nat) /\ Len(Tail(Window(r, n))) = n - 1
  BY <1>1, <1>2
<1>4. ASSUME NEW k \in 1 .. (n - 1) PROVE Tail(Window(r, n))[k] = (r + 1) + k
  <2>1. Tail(Window(r, n))[k] = Window(r, n)[k + 1] /\ k + 1 \in 1 .. n
    BY <1>1, <1>2
  <2> QED BY <2>1 DEF Window
<1>5. Tail(Window(r, n)) = Window(r + 1, n - 1)
  <2>1. r + 1 \in Nat /\ n - 1 \in Nat
    OBVIOUS
  <2> QED BY <1>3, <1>4, <2>1, IsWindow, Zenon
<1> QED BY <1>2, <1>5

LEMMA RingOffset ==
    ASSUME NEW x \in Nat, NEW d \in Nat, d <= N
    PROVE  ((x % N) + d) % N = (x + d) % N
<1> DEFINE y == x % N
<1>1. y \in 0 .. (N - 1) /\ y \in Nat
  BY NSize, ModDef
<1>2. y % N = y
  BY NSize, <1>1, ModUnique, y = N * 0 + y, 0 \in Nat
<1>3. (y + d) % N = IF (y % N) + d < N THEN (y % N) + d ELSE (y % N) + d - N
  BY <1>1, RingStep, Zenon
<1>4. (x + d) % N = IF y + d < N THEN y + d ELSE y + d - N
  BY RingStep, Zenon
<1> QED BY <1>2, <1>3, <1>4

\* What the channel holds: the fragments between the released and the fetched ones.
HoldsWindow ==
    /\ Cached = Window(released, numberOfFragmentsCached)
    /\ released \in Nat /\ numberOfFragmentsCached \in 0 .. N
    /\ fetched = released + numberOfFragmentsCached

LEMMA CachedIsWindow == IInv => HoldsWindow
<1> SUFFICES ASSUME IInv PROVE HoldsWindow
  OBVIOUS
<1> DEFINE n == numberOfFragmentsCached
<1> USE DEF IInv
<1>t. RingTypes
  BY TypeParts
<1>1. released \in Nat /\ n \in 0 .. N /\ fetched = released + n
  BY <1>t DEF Room, released, RingTypes
<1>2. ASSUME NEW k \in 1 .. n
      PROVE  cachedFragment[(fragmentIdxToInject + k - 1) % N] = released + k
  <2>1. k \in 1 .. N /\ k - 1 \in Nat /\ k - 1 <= N /\ k <= n
    BY <1>1, <1>2, NSize
  <2>2. cachedFragment[(released + k - 1) % N] = released + k
    BY <2>1, Zenon DEF RingInOrder
  <2>3. ((released % N) + (k - 1)) % N = (released + (k - 1)) % N
    BY <1>1, <2>1, RingOffset, Zenon
  <2>4. /\ fragmentIdxToInject = released % N
        /\ fragmentIdxToInject \in Int
    BY <1>t, NSize DEF RingInOrder, RingTypes, Slots
  <2>5. /\ fragmentIdxToInject + k - 1 = (released % N) + (k - 1)
        /\ released + k - 1 = released + (k - 1)
    BY <1>1, <2>1, <2>4
  <2> QED BY <2>2, <2>3, <2>5
<1> QED BY <1>1, <1>2 DEF HoldsWindow, Cached, Window

\* Apart from three steps, no step touches what the channel is made of.
LEMMA ChannelFrame ==
    ASSUME Control, [Next]_vars, ~UpdateTSAfterFetch, ~UpdateTSAfterInject, ~InjectSend
    PROVE  UNCHANGED <<numberOfFragmentsCached, fetched, injected>>
<1>1. CASE \/ FetchCheckAbort \/ FetchPlaystart \/ FetchLock \/ FetchTimeout \/ FetchWoken
           \/ FetchFragment \/ FetchEos \/ FetchExit \/ RefreshTaken \/ SwitchSubtitleTrack
  BY <1>1 DEF FetchCheckAbort, FetchPlaystart, FetchLock, FetchTimeout, FetchWoken,
     FetchFragment, FetchEos, FetchExit, RefreshTaken, SwitchSubtitleTrack, Control,
     ring, fetch, inject, sent
<1>2. CASE InjectLoop \/ InjectAvail \/ InjectWoken \/ InjectPeek \/ InjectEnd
  BY <1>2 DEF InjectLoop, InjectAvail, InjectWoken, InjectPeek, InjectEnd, ring, fetch, sent
<1>3. CASE SpuriousWakeup \/ PlayerContinue \/ AbortWaitForCachedFragment \/ Stop
           \/ RefreshSubtitles \/ PlayStart
  BY <1>3 DEF SpuriousWakeup, PlayerContinue, AbortWaitForCachedFragment, Stop,
     RefreshSubtitles, PlayStart, StartInjectLoop, StopInjectLoop, JoinCollector,
     AbortWaitForCachedAndFreeFragment, ring, fetch, inject, sent
<1>4. CASE UNCHANGED vars
  BY <1>4 DEF vars, ring, fetch, inject, sent
<1> QED BY <1>1, <1>2, <1>3, <1>4 DEF Next, Collector, Injector

LEMMA ChannelStep ==
    ASSUME IInv, IInv', [Next]_vars
    PROVE  [Channel!Next]_(Channel!vars)
<1> DEFINE n == numberOfFragmentsCached
<1>1. /\ Cached = Window(released, n) /\ released \in Nat /\ n \in 0 .. N
      /\ fetched = released + n
  BY CachedIsWindow DEF HoldsWindow
<1>2. Cached' = Window(released', n')
  <2>1. HoldsWindow'
    BY CachedIsWindow, PTL
  <2> QED BY <2>1 DEF HoldsWindow
<1>3. CASE UpdateTSAfterFetch
  <2>1. /\ n' = n + 1 /\ fetched' = fetched + 1 /\ fpc = "filled" /\ injected' = injected
    BY <1>3, Zenon DEF UpdateTSAfterFetch, sent
  <2>2. n < N /\ n \in Nat
    BY <1>1, <2>1, NSize DEF IInv, Room
  <2>3. released' = released /\ fetched' = released + n + 1
    BY <1>1, <2>1 DEF released
  <2>4. Len(Cached) = n /\ Cached' = Append(Cached, fetched')
    BY <1>1, <1>2, <2>1, <2>2, <2>3, WindowGrows
  <2>5. Channel!Put
    BY <2>1, <2>2, <2>4 DEF Channel!Put
  <2> QED BY <2>5 DEF Channel!Next
<1>4. CASE InjectSend
  <2>1. /\ ipc = "send" /\ released' = released
        /\ injected' = injected \/ injected' = released + 1
    BY <1>4, InjectSendsNext DEF IInv
  <2>2. n' = n /\ fetched' = fetched
    BY <1>4, Zenon DEF InjectSend, fetch
  <2>3. n \in Nat \ {0} /\ injected = released
    BY <1>1, <2>1 DEF IInv, Room, History
  <2>4. Cached' = Cached /\ Cached # <<>> /\ Head(Cached) = released + 1
    BY <1>1, <1>2, <2>1, <2>2, <2>3, WindowMoves
  <2>5. CASE injected' = injected
    BY <2>2, <2>4, <2>5 DEF Channel!vars
  <2>6. CASE injected' = released + 1
    <3>1. injected' # injected
      BY <1>1, <2>3, <2>6
    <3>2. Channel!Deliver
      BY <2>2, <2>4, <2>6, <3>1 DEF Channel!Deliver
    <3> QED BY <3>2 DEF Channel!Next
  <2> QED BY <2>1, <2>5, <2>6
<1>5. CASE UpdateTSAfterInject
  <2>1. ipc = "sent" /\ n' = n - 1 /\ fetched' = fetched /\ injected' = injected
    BY <1>5, Zenon DEF UpdateTSAfterInject, sent
  <2>2. released' = released + 1
    BY <1>5, ReleaseShiftsRing DEF IInv
  <2>3. n \in Nat \ {0} /\ injected = released + 1
    BY <1>1, <2>1 DEF IInv, Room, History
  <2>4. Cached # <<>> /\ injected = Head(Cached) /\ Cached' = Tail(Cached)
    BY <1>1, <1>2, <2>1, <2>2, <2>3, WindowMoves
  <2>5. Channel!Release
    BY <2>1, <2>4 DEF Channel!Release
  <2> QED BY <2>5 DEF Channel!Next
<1>6. CASE ~UpdateTSAfterFetch /\ ~UpdateTSAfterInject /\ ~InjectSend
  <2>1. UNCHANGED <<n, fetched, injected>>
    BY <1>6, ChannelFrame DEF IInv
  <2>2. released' = released
    BY <2>1 DEF released
  <2>3. Cached' = Cached
    BY <1>1, <1>2, <2>1, <2>2
  <2> QED BY <2>1, <2>3 DEF Channel!vars
<1> QED BY <1>3, <1>4, <1>5, <1>6

\* The ring of cached fragments, with its collector, its injector and the player that stops
\* and restarts the injection, is a bounded channel to the sink for every size of the ring,
\* stream length and set of discontinuities (streamabstraction.cpp, MediaTrack).
THEOREM TrackIsChannel ==
    ASSUME MaxSwitches = 0, Spurious = FALSE
    PROVE  Spec => ImplementsChannel
<1>1. Init => Channel!Init
  <2> SUFFICES ASSUME Init PROVE Channel!Init
    OBVIOUS
  <2>1. fetched = 0 /\ injected = 0 /\ numberOfFragmentsCached = 0
    BY DEF Init
  <2>2. Cached = <<>>
    BY <2>1 DEF Cached
  <2> QED BY <2>1, <2>2 DEF Channel!Init
<1>2. IInv /\ IInv' /\ [Next]_vars => [Channel!Next]_(Channel!vars)
  BY ChannelStep
<1> QED BY <1>1, <1>2, Inductive, PTL DEF Spec, ImplementsChannel, Channel!Spec
=============================================================================
