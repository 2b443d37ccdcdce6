--------------------------- MODULE AdManager_proofs ---------------------------
(***************************************************************************)
(* Theorems about AdManager: the break the player is in stays in the table  *)
(* of breaks, whatever is pruned; and, while one break is known at a time,  *)
(* every index into its ads is one of them, its ads are placed in turn and  *)
(* do not overlap on the base timeline, and the content goes on after them. *)
(***************************************************************************)
EXTENDS AdManager, FiniteSetTheorems, NaturalsInduction, WellFoundedInduction,
        SequenceTheorems, TLAPS

-----------------------------------------------------------------------------
(* The break the player is in                                               *)

\* The tables after the events of a refreshed manifest are found.
FoundTable(e, init, m, map) ==
  [b \in DOMAIN m \cup (FoundBreaks(e, init, map) \ DOMAIN m) |->
     IF b \in DOMAIN m THEN m[b] ELSE NewBreak(b)]
FoundMap(e, init, m, map) ==
  [p \in DOMAIN map \cup Manifest(e) |->
     IF p \in DOMAIN map THEN map[p]
     ELSE IF p \in FoundBreaks(e, init, map) \ DOMAIN m
     THEN [NoData EXCEPT !.adBreakId = p] ELSE NoData]

\* The tables a refresh places ads in: those found, pruned.
Pruned(e, init) ==
  LET brk == IF init THEN 0 ELSE curBreak
  IN [adBreaks |-> Only(FoundTable(e, init, adBreaks, periodMap),
                        Manifest(e) \cup {placement.brk, brk}),
      periodMap |-> Only(FoundMap(e, init, adBreaks, periodMap), Manifest(e)),
      placement |-> placement, nextPlacement |-> nextPlacement, curBreak |-> brk]

\* The tables as FindBreaks, PrunePeriodMaps and PlaceAds work on them.
IsTables(s) ==
  s = [adBreaks |-> s.adBreaks, periodMap |-> s.periodMap, placement |-> s.placement,
       nextPlacement |-> s.nextPlacement, curBreak |-> s.curBreak]

LEMMA TwoTables ==
    ASSUME NEW s, IsTables(s), NEW x, NEW y
    PROVE  [s EXCEPT !.adBreaks = x, !.periodMap = y]
             = [adBreaks |-> x, periodMap |-> y, placement |-> s.placement,
                nextPlacement |-> s.nextPlacement, curBreak |-> s.curBreak]
<1> DEFINE r == [s EXCEPT !.adBreaks = x]
<1>1. r = [adBreaks |-> x, periodMap |-> s.periodMap, placement |-> s.placement,
           nextPlacement |-> s.nextPlacement, curBreak |-> s.curBreak]
  BY DEF IsTables
<1>2. [s EXCEPT !.adBreaks = x, !.periodMap = y] = [r EXCEPT !.periodMap = y]
  BY Zenon
<1> HIDE DEF r
<1>3. /\ IsTables(r) /\ r.adBreaks = x /\ r.placement = s.placement
      /\ r.nextPlacement = s.nextPlacement /\ r.curBreak = s.curBreak
  BY <1>1 DEF IsTables
<1>4. [r EXCEPT !.periodMap = y]
        = [adBreaks |-> r.adBreaks, periodMap |-> y, placement |-> r.placement,
           nextPlacement |-> r.nextPlacement, curBreak |-> r.curBreak]
  BY <1>3 DEF IsTables
<1> QED BY <1>2, <1>3, <1>4

LEMMA FindBreaksIs ==
    ASSUME NEW s, IsTables(s), NEW e, NEW init \in BOOLEAN
    PROVE  FindBreaks(e, init, s)
             = [adBreaks |-> FoundTable(e, init, s.adBreaks, s.periodMap),
                periodMap |-> FoundMap(e, init, s.adBreaks, s.periodMap),
                placement |-> s.placement, nextPlacement |-> s.nextPlacement,
                curBreak |-> s.curBreak]
<1>1. FindBreaks(e, init, s)
        = [s EXCEPT !.adBreaks = FoundTable(e, init, s.adBreaks, s.periodMap),
                    !.periodMap = FoundMap(e, init, s.adBreaks, s.periodMap)]
  BY Zenon DEF FindBreaks, FoundTable, FoundMap
<1> QED BY <1>1, TwoTables

LEMMA PruneIs ==
    ASSUME NEW s, IsTables(s), NEW e
    PROVE  PrunePeriodMaps(e, s)
             = [adBreaks |-> Only(s.adBreaks, Manifest(e) \cup {s.placement.brk, s.curBreak}),
                periodMap |-> Only(s.periodMap, Manifest(e)),
                placement |-> s.placement, nextPlacement |-> s.nextPlacement,
                curBreak |-> s.curBreak]
<1> DEFINE x == Only(s.adBreaks, Manifest(e) \cup {s.placement.brk, s.curBreak})
           y == Only(s.periodMap, Manifest(e))
<1>1. PrunePeriodMaps(e, s) = [s EXCEPT !.adBreaks = x, !.periodMap = y]
  BY Zenon DEF PrunePeriodMaps
<1> HIDE DEF x, y
<1>2. PrunePeriodMaps(e, s)
        = [adBreaks |-> x, periodMap |-> y, placement |-> s.placement,
           nextPlacement |-> s.nextPlacement, curBreak |-> s.curBreak]
  BY <1>1, TwoTables
<1> QED BY <1>2 DEF x, y

LEMMA RefreshedIs ==
    ASSUME NEW e, NEW init \in BOOLEAN
    PROVE  Refreshed(e, init) = PlaceAds(e, Pruned(e, init))
<1> DEFINE brk == IF init THEN 0 ELSE curBreak
           table == FoundTable(e, init, adBreaks, periodMap)
           map == FoundMap(e, init, adBreaks, periodMap)
           s == [adBreaks |-> adBreaks, periodMap |-> periodMap, placement |-> placement,
                 nextPlacement |-> nextPlacement, curBreak |-> brk]
           found == [adBreaks |-> table, periodMap |-> map, placement |-> placement,
                     nextPlacement |-> nextPlacement, curBreak |-> brk]
<1> HIDE DEF brk
<1>1. FindBreaks(e, init, s) = found
  <2>1. /\ IsTables(s) /\ s.adBreaks = adBreaks /\ s.periodMap = periodMap
        /\ s.placement = placement /\ s.nextPlacement = nextPlacement
        /\ s.curBreak = brk
    BY DEF IsTables
  <2> HIDE DEF s
  <2> QED BY <2>1, FindBreaksIs
<1>2. PrunePeriodMaps(e, found) = Pruned(e, init)
  <2> HIDE DEF table, map
  <2>1. /\ IsTables(found) /\ found.adBreaks = table /\ found.periodMap = map
        /\ found.placement = placement /\ found.nextPlacement = nextPlacement
        /\ found.curBreak = brk
    BY DEF IsTables
  <2> HIDE DEF found
  <2>2. PrunePeriodMaps(e, found)
          = [adBreaks |-> Only(table, Manifest(e) \cup {placement.brk, brk}),
             periodMap |-> Only(map, Manifest(e)), placement |-> placement,
             nextPlacement |-> nextPlacement, curBreak |-> brk]
    BY <2>1, PruneIs
  <2> QED BY <2>2 DEF Pruned, table, map, brk
<1>3. Refreshed(e, init) = PlaceAds(e, PrunePeriodMaps(e, FindBreaks(e, init, s)))
  BY Zenon DEF Refreshed, brk
<1> QED BY <1>1, <1>2, <1>3

\* The placement of ads adds and removes no break.
LEMMA PlaceAdsKeeps ==
    ASSUME NEW s, IsTables(s), NEW e
    PROVE  DOMAIN PlaceAds(e, s).adBreaks = DOMAIN s.adBreaks
<1> DEFINE t == Settled(e, Placed(e, s))
           w == WithPlacement(s, t)
           m == [s.adBreaks EXCEPT ![s.placement.brk] = t.abObj]
<1> HIDE DEF t
<1>1. w = [adBreaks |-> m, periodMap |-> t.map, placement |-> t.pl,
           nextPlacement |-> s.nextPlacement, curBreak |-> s.curBreak]
  <2>1. w = [s EXCEPT !.adBreaks = m, !.periodMap = t.map, !.placement = t.pl]
    BY Zenon DEF WithPlacement
  <2> HIDE DEF m, w
  <2> QED BY <2>1 DEF IsTables
<1> HIDE DEF w
<1>2. NextPlacement(w).adBreaks = m
  <2> HIDE DEF m
  <2>1. IsTables(w) /\ w.adBreaks = m
    BY <1>1 DEF IsTables
  <2> QED BY <2>1 DEF NextPlacement, IsTables
<1>3. DOMAIN m = DOMAIN s.adBreaks
  OBVIOUS
<1> QED BY <1>2, <1>3 DEF PlaceAds, w, t

LEMMA KeptByRefresh ==
    ASSUME NEW e, curBreak \in DOMAIN adBreaks
    PROVE  curBreak \in DOMAIN Refreshed(e, FALSE).adBreaks
<1> DEFINE s == Pruned(e, FALSE)
<1>1. IsTables(s) /\ curBreak \in DOMAIN s.adBreaks
  BY DEF Pruned, IsTables, Only, FoundTable
<1> HIDE DEF s
<1>2. Refreshed(e, FALSE) = PlaceAds(e, s)
  BY RefreshedIs DEF s
<1> QED BY <1>1, <1>2, PlaceAdsKeeps

\* What onAdEvent works on, as far as the break it is in is concerned.
InBreak(s) == s.state # "OUTSIDE_ADBREAK" => s.brk \in DOMAIN s.breaks
IsEvent(s) ==
  s = [state |-> s.state, brk |-> s.brk, ads |-> s.ads, idx |-> s.idx, seek |-> s.seek,
       base |-> s.base, breaks |-> s.breaks, map |-> s.map, offset |-> s.offset,
       changed |-> s.changed]

LEMMA Starting ==
    ASSUME NEW s, NEW init, NEW offset
    PROVE  LET start == CheckForAdStart(init, s, offset)
           IN start.brk = 0 \/ start.brk \in DOMAIN s.breaks
  BY DEF CheckForAdStart, NoAd

LEMMA EntersKnown ==
    ASSUME NEW s, IsEvent(s), InBreak(s), NEW init, NEW offset
    PROVE  InBreak(EnterBreak(s, init, offset))
<1> DEFINE start == CheckForAdStart(init, s, offset)
<1>1. start.brk = 0 \/ start.brk \in DOMAIN s.breaks
  BY Starting
<1> HIDE DEF start
<1>2. InBreak(EnterAt(s, start))
  BY <1>1 DEF EnterAt, Play, InBreak, IsEvent
<1> QED BY <1>2 DEF EnterBreak, start

LEMMA RejoinsKnown ==
    ASSUME NEW s, IsEvent(s), InBreak(s), s.state # "OUTSIDE_ADBREAK", NEW offset
    PROVE  InBreak(RejoinBreak(s, offset))
<1> DEFINE start == CheckForAdStart(FALSE, s, offset)
<1> HIDE DEF start
<1>2. InBreak(RejoinAt(s, start, offset))
  BY DEF RejoinAt, Play, InBreak, IsEvent, LeaveBreak, Invalidate
<1> QED BY <1>2 DEF RejoinBreak, start

LEMMA NextKnown ==
    ASSUME NEW s, IsEvent(s), InBreak(s), s.state # "OUTSIDE_ADBREAK"
    PROVE  InBreak(NextAd(s))
  BY DEF NextAd, Play, InBreak, IsEvent, LeaveBreak

LEMMA FailsKnown ==
    ASSUME NEW s, IsEvent(s), InBreak(s)
    PROVE  InBreak(OnAdFailed(s))
  BY DEF OnAdFailed, InBreak, IsEvent, Invalidate

LEMMA DefaultKnown ==
    ASSUME NEW s, IsEvent(s), InBreak(s), NEW offset
    PROVE  InBreak(OnDefault(s, offset))
<1>1. CASE s.state = "OUTSIDE_ADBREAK"
  <2>1. OnDefault(s, offset) = EnterBreak(s, FALSE, offset)
    BY <1>1 DEF OnDefault
  <2> QED BY <2>1, EntersKnown
<1>2. CASE s.state = "IN_ADBREAK_AD_NOT_PLAYING"
  <2>1. OnDefault(s, offset) = RejoinBreak(s, offset)
    BY <1>2 DEF OnDefault
  <2> QED BY <1>2, <2>1, RejoinsKnown
<1>3. CASE s.state = "IN_ADBREAK_WAIT2CATCHUP"
  <2>1. OnDefault(s, offset) = NextAd(s)
    BY <1>3 DEF OnDefault
  <2> QED BY <1>3, <2>1, NextKnown
<1>4. CASE s.state \notin {"OUTSIDE_ADBREAK", "IN_ADBREAK_AD_NOT_PLAYING",
                          "IN_ADBREAK_WAIT2CATCHUP"}
  <2>1. OnDefault(s, offset) = s
    BY <1>4 DEF OnDefault
  <2> QED BY <2>1
<1> QED BY <1>1, <1>2, <1>3, <1>4

\* The state machine's variables after an event.
LEMMA BecomesKnown ==
    ASSUME NEW s, InBreak(s), AdBecomes(s)
    PROVE  CurrentBreakIsKept'
  BY DEF InBreak, AdBecomes, CurrentBreakIsKept

LEMMA EventIs ==
    ASSUME CurrentBreakIsKept, NEW b
    PROVE  /\ IsEvent(AdNow) /\ InBreak(AdNow)
           /\ IsEvent([AdNow EXCEPT !.base = b]) /\ InBreak([AdNow EXCEPT !.base = b])
           /\ AdNow.state = adState
<1>1. IsEvent(AdNow) /\ InBreak(AdNow) /\ AdNow.state = adState
  BY DEF AdNow, IsEvent, InBreak, CurrentBreakIsKept
<1> DEFINE s == AdNow
<1> HIDE DEF s
<1>2. IsEvent([s EXCEPT !.base = b]) /\ InBreak([s EXCEPT !.base = b])
  BY <1>1 DEF IsEvent, InBreak, s
<1> QED BY <1>1, <1>2 DEF s

LEMMA EventStays ==
    ASSUME NEW s, IsEvent(s), NEW offset
    PROVE  IsEvent(OnDefault(s, offset))
<1>1. ASSUME NEW init PROVE IsEvent(EnterBreak(s, init, offset))
  <2> DEFINE start == CheckForAdStart(init, s, offset)
  <2> HIDE DEF start
  <2>1. IsEvent(EnterAt(s, start))
    BY DEF EnterAt, Play, IsEvent
  <2> QED BY <2>1 DEF EnterBreak, start
<1>2. IsEvent(RejoinBreak(s, offset))
  <2> DEFINE start == CheckForAdStart(FALSE, s, offset)
  <2> HIDE DEF start
  <2>1. IsEvent(RejoinAt(s, start, offset))
    BY DEF RejoinAt, Play, IsEvent, LeaveBreak, Invalidate
  <2> QED BY <2>1 DEF RejoinBreak, start
<1>3. IsEvent(NextAd(s))
  BY DEF NextAd, Play, IsEvent, LeaveBreak
<1>4. IsEvent(EnterBreak(s, FALSE, offset))
  BY <1>1
<1> QED BY <1>2, <1>3, <1>4 DEF OnDefault

LEMMA KeptByNext ==
    ASSUME CurrentBreakIsKept, [Next]_vars
    PROVE  CurrentBreakIsKept'
<1>1. ASSUME NEW g \in Growth, UpdateMPD(g) PROVE CurrentBreakIsKept'
  <2>1. /\ adBreaks' = Refreshed(edge + g, FALSE).adBreaks
        /\ adState' = adState /\ curBreak' = curBreak
    BY <1>1 DEF UpdateMPD, adVars
  <2>2. CASE adState = "OUTSIDE_ADBREAK"
    BY <2>1, <2>2 DEF CurrentBreakIsKept
  <2>3. CASE adState # "OUTSIDE_ADBREAK"
    <3>1. curBreak \in DOMAIN Refreshed(edge + g, FALSE).adBreaks
      BY <2>3, KeptByRefresh DEF CurrentBreakIsKept
    <3> QED BY <2>1, <3>1 DEF CurrentBreakIsKept
  <2> QED BY <2>2, <2>3
<1>2. CASE LeavePeriods \/ PassOn
  BY <1>2 DEF LeavePeriods, PassOn, daiVars, adVars, CurrentBreakIsKept
<1>3. CASE EnterPeriod
  <2> DEFINE base == IF PeriodChanged THEN iPeriod ELSE basePeriod
             s == OnDefault([AdNow EXCEPT !.base = base], OffsetInPeriod)
  <2>1. InBreak(s) /\ IsEvent(s)
    <3> HIDE DEF base
    <3> QED BY EventIs, DefaultKnown, EventStays
  <2>2. AdBecomes(s) \/ Select(s)
    BY <1>3, Zenon DEF EnterPeriod
  <2> HIDE DEF s
  <2>3. CASE AdBecomes(s)
    BY <2>1, <2>3, BecomesKnown
  <2>4. CASE Select(s)
    <3>1. AdBecomes(OnAdFailed(s)) \/ AdBecomes(s)
      BY <2>4, Zenon DEF Select
    <3>2. InBreak(OnAdFailed(s))
      BY <2>1, FailsKnown
    <3> QED BY <2>1, <3>1, <3>2, BecomesKnown
  <2> QED BY <2>2, <2>3, <2>4
<1>4. CASE FetchAd
  <2>1. \/ AdBecomes(OnAdFinished(AdNow))
        \/ UNCHANGED <<adState, curBreak, curAds, curAdIdx, adBreaks>>
    BY <1>4, Zenon DEF FetchAd
  <2>2. adState # "OUTSIDE_ADBREAK"
    BY <1>4 DEF FetchAd
  <2>3. InBreak(OnAdFinished(AdNow))
    BY <2>2 DEF OnAdFinished, AdNow, InBreak, CurrentBreakIsKept
  <2>4. CASE AdBecomes(OnAdFinished(AdNow))
    BY <2>3, <2>4, BecomesKnown
  <2> QED BY <2>1, <2>4 DEF CurrentBreakIsKept
<1>5. CASE FetchBase
  <2> DEFINE offset == IF playing = <<current>> /\ pos < Duration(current, edge)
                       THEN baseOffset + 1 ELSE baseOffset
             s == OnBaseOffsetChange(AdNow, offset)
  <2>1. AdBecomes(s) \/ UNCHANGED <<adState, curBreak, curAds, curAdIdx, adBreaks>>
    BY <1>5, Zenon DEF FetchBase
  <2>2. InBreak(s)
    <3> HIDE DEF offset
    <3>1. CASE adState = "IN_ADBREAK_AD_NOT_PLAYING"
      <4>1. s = RejoinBreak(AdNow, offset)
        BY <3>1, EventIs DEF OnBaseOffsetChange
      <4> QED BY <3>1, <4>1, EventIs, RejoinsKnown
    <3>2. CASE adState # "IN_ADBREAK_AD_NOT_PLAYING"
      BY <3>2, EventIs DEF OnBaseOffsetChange
    <3> QED BY <3>1, <3>2
  <2> HIDE DEF s
  <2>3. CASE AdBecomes(s)
    BY <2>2, <2>3, BecomesKnown
  <2> QED BY <2>1, <2>3 DEF CurrentBreakIsKept
<1>6. ASSUME NEW ad \in Ads, SetAlternateContents(ad) PROVE CurrentBreakIsKept'
  BY <1>6 DEF SetAlternateContents, daiVars, adVars, CurrentBreakIsKept
<1>7. ASSUME NEW p \in Periods, NEW o \in SeekOffsets, Seek(p, o)
      PROVE  CurrentBreakIsKept'
  <2> DEFINE r == Refreshed(edge, TRUE)
             reset == [state |-> "OUTSIDE_ADBREAK", brk |-> 0, ads |-> 0,
                       idx |-> 0, seek |-> 0, base |-> p, breaks |-> r.adBreaks,
                       map |-> r.periodMap, offset |-> 0, changed |-> FALSE]
             s == EnterBreak(reset, TRUE, o)
  <2>1. AdBecomes(s)
    BY <1>7, Zenon DEF Seek
  <2>2. InBreak(reset) /\ IsEvent(reset)
    <3> HIDE DEF r
    <3> QED BY DEF InBreak, IsEvent
  <2> HIDE DEF reset
  <2>3. InBreak(s)
    BY <2>2, EntersKnown
  <2> QED BY <2>1, <2>3, BecomesKnown
<1>8. CASE AdThread
  <2>1. CASE DownloadAd \/ DownloadFails
    BY <2>1 DEF DownloadAd, DownloadFails, daiVars, adVars, CurrentBreakIsKept
  <2>2. CASE FulFillAdObject
    <3>1. adState' = adState /\ curBreak' = curBreak
      BY <2>2 DEF FulFillAdObject, adVars
    <3>2. DOMAIN adBreaks' = DOMAIN adBreaks
      BY <2>2 DEF FulFillAdObject, daiVars
    <3> QED BY <3>1, <3>2 DEF CurrentBreakIsKept
  <2> QED BY <1>8, <2>1, <2>2 DEF AdThread
<1>9. CASE UNCHANGED vars
  BY <1>9 DEF vars, CurrentBreakIsKept
<1> QED BY <1>1, <1>2, <1>3, <1>4, <1>5, <1>6, <1>7, <1>8, <1>9
        DEF Next, Collect, Application

\* CurrentBreakIsKept holds in every reachable state: onAdEvent finds the
\* break of mCurPlayingBreakId in mAdBreaks, whatever PrunePeriodMaps, a seek
\* or a failed ad have done.
THEOREM CurrentBreakStays == Spec => []CurrentBreakIsKept
<1>1. Init => CurrentBreakIsKept
  BY DEF Init, CurrentBreakIsKept
<1>2. CurrentBreakIsKept /\ [Next]_vars => CurrentBreakIsKept'
  BY KeptByNext
<1> QED BY <1>1, <1>2, PTL DEF Spec

-----------------------------------------------------------------------------
(* Folds over 1..n.  PlaceAds is a fold over the periods of the manifest    *)
(* and, in each of them, over the ads.  A fold is given by a function       *)
(* defined by recursion over the subsets of its domain; facts about it are  *)
(* proved by a smallest subset that would be a counterexample.              *)

LEMMA LeastNatural ==
    ASSUME NEW T \in SUBSET Nat, T # {}
    PROVE  \E n \in T : \A m \in T : n <= m
<1>1. IsWellFoundedOn(OpToRel(<, Nat), Nat)
  BY NatLessThanWellFounded
<1>2. PICK n \in T : \A m \in T : ~(<<m, n>> \in OpToRel(<, Nat))
  BY <1>1, WFMin
<1>3. ASSUME NEW m \in T PROVE n <= m
  <2>1. ~(m < n)
    BY <1>2, <1>3 DEF OpToRel
  <2> QED BY <2>1
<1> QED BY <1>3

\* A set of numbers that are at most n has a greatest member.
LEMMA GreatestIs ==
    ASSUME NEW T \in SUBSET Int, T # {}, NEW n \in Int, \A m \in T : m <= n
    PROVE  Max(T) \in T /\ \A m \in T : m <= Max(T)
<1> DEFINE D == {d \in Nat : n - d \in T}
<1>1. D # {}
  <2>1. PICK m \in T : TRUE
    OBVIOUS
  <2>2. n - m \in D
    BY <2>1
  <2> QED BY <2>2
<1>2. PICK d \in D : \A c \in D : d <= c
  <2>1. D \in SUBSET Nat
    OBVIOUS
  <2> HIDE DEF D
  <2> QED BY <1>1, <2>1, LeastNatural
<1>3. \A m \in T : m <= n - d
  <2> TAKE m \in T
  <2>1. n - m \in D
    OBVIOUS
  <2>2. d <= n - m
    BY <1>2, <2>1
  <2> QED BY <1>2, <2>2
<1>4. \E x \in T : \A y \in T : x >= y
  BY <1>2, <1>3
<1> QED BY <1>4 DEF Max

LEMMA LastOf ==
    ASSUME NEW n \in Nat, NEW t \in SUBSET (1..n), t # {}
    PROVE  Max(t) \in t
  BY GreatestIs

LEMMA Smallest ==
    ASSUME NEW n \in Nat, NEW T \in SUBSET SUBSET (1..n), T # {}
    PROVE  \E t \in T : \A u \in SUBSET t : u # t => u \notin T
<1>1. IsWellFoundedOn(StrictSubsetOrdering(1..n), SUBSET (1..n))
  <2> DEFINE S == 1..n
  <2>1. IsFiniteSet(S)
    BY FS_Interval
  <2> HIDE DEF S
  <2>2. IsWellFoundedOn(StrictSubsetOrdering(S), SUBSET S)
    BY <2>1, FS_StrictSubsetOrderingWellFounded, FS_FiniteSubsetsOfFinite
  <2> QED BY <2>2 DEF S
<1>2. PICK t \in T : \A u \in T : ~(<<u, t>> \in StrictSubsetOrdering(1..n))
  BY <1>1, WFMin
<1> QED BY <1>2 DEF StrictSubsetOrdering

\* What holds at the empty set and is handed on by every step holds throughout.
LEMMA FoldClosed ==
    ASSUME NEW n \in Nat, NEW S, NEW f, f[{}] \in S,
           \A t \in SUBSET (1..n) :
              t # {} /\ f[t \ {Max(t)}] \in S => f[t] \in S
    PROVE  \A t \in SUBSET (1..n) : f[t] \in S
<1> DEFINE T == {t \in SUBSET (1..n) : f[t] \notin S}
<1> SUFFICES ASSUME T # {} PROVE FALSE
  OBVIOUS
<1>1. PICK t \in T : \A u \in SUBSET t : u # t => u \notin T
  <2>1. T \in SUBSET SUBSET (1..n)
    OBVIOUS
  <2> HIDE DEF T
  <2> QED BY <2>1, Smallest
<1>2. t # {}
  OBVIOUS
<1>3. Max(t) \in t
  BY <1>2, LastOf
<1>4. f[t \ {Max(t)}] \in S
  BY <1>1, <1>3
<1> QED BY <1>2, <1>4

Folds(F, base, D, it) ==
    it = [t \in SUBSET D |-> IF t = {} THEN base ELSE F[Max(t)][it[t \ {Max(t)}]]]

Folded(F, base, D) == CHOOSE it : Folds(F, base, D, it)

LEMMA FoldsStep ==
    ASSUME NEW F, NEW base, NEW D, NEW it, Folds(F, base, D, it), NEW t \in SUBSET D
    PROVE  /\ t = {} => it[t] = base
           /\ t # {} => it[t] = F[Max(t)][it[t \ {Max(t)}]]
  BY DEF Folds

UpTo(D, n) == D \subseteq 1..n

LEMMA FoldsUnique ==
    ASSUME NEW n \in Nat, NEW D, UpTo(D, n), NEW E, E \subseteq D,
           NEW F, NEW base, NEW f, Folds(F, base, D, f), NEW g, Folds(F, base, E, g)
    PROVE  \A t \in SUBSET E : f[t] = g[t]
<1> DEFINE T == {t \in SUBSET E : f[t] # g[t]}
<1> SUFFICES ASSUME T # {} PROVE FALSE
  OBVIOUS
<1>1. PICK t \in T : \A u \in SUBSET t : u # t => u \notin T
  <2>1. T \in SUBSET SUBSET (1..n)
    BY DEF UpTo
  <2> HIDE DEF T
  <2> QED BY <2>1, Smallest
<1>2. t \in SUBSET D /\ t \in SUBSET E /\ t \in SUBSET (1..n) /\ f[t] # g[t]
  BY DEF UpTo
<1>3. t # {}
  BY <1>2, FoldsStep
<1>4. Max(t) \in t
  BY <1>2, <1>3, LastOf
<1>5. f[t \ {Max(t)}] = g[t \ {Max(t)}]
  BY <1>1, <1>4
<1>6. /\ f[t] = F[Max(t)][f[t \ {Max(t)}]]
      /\ g[t] = F[Max(t)][g[t \ {Max(t)}]]
  <2> HIDE DEF T
  <2>1. f[t] = F[Max(t)][f[t \ {Max(t)}]]
    BY <1>2, <1>3 DEF Folds
  <2>2. g[t] = F[Max(t)][g[t \ {Max(t)}]]
    BY <1>2, <1>3 DEF Folds
  <2> QED BY <2>1, <2>2
<1> QED BY <1>2, <1>5, <1>6

LEMMA FoldsExist ==
    ASSUME NEW n \in Nat, NEW F, NEW base
    PROVE  \E it : Folds(F, base, 1..n, it)
<1> DEFINE T == {t \in SUBSET (1..n) : ~ \E it : Folds(F, base, t, it)}
<1> SUFFICES ASSUME T # {} PROVE FALSE
  OBVIOUS
<1>1. PICK t \in T : \A u \in SUBSET t : u # t => u \notin T
  <2>1. T \in SUBSET SUBSET (1..n)
    OBVIOUS
  <2> HIDE DEF T
  <2> QED BY <2>1, Smallest
<1> DEFINE it == [z \in SUBSET t |-> IF z = {} THEN base
                     ELSE F[Max(z)][Folded(F, base, z \ {Max(z)})[z \ {Max(z)}]]]
<1>2. ASSUME NEW u \in SUBSET t, u # t PROVE Folds(F, base, u, Folded(F, base, u))
  BY <1>1, <1>2 DEF Folded
<1>3. ASSUME NEW u \in SUBSET t, u # t PROVE Folded(F, base, u)[u] = it[u]
  <2> DEFINE v == u \ {Max(u)}
  <2>0. u \in SUBSET u /\ Folds(F, base, u, Folded(F, base, u))
    BY <1>2, <1>3
  <2>1. CASE u = {}
    <3>1. Folded(F, base, u)[u] = base
      BY <2>0, <2>1 DEF Folds
    <3> QED BY <2>1, <3>1
  <2>2. CASE u # {}
    <3>1. Max(u) \in u
      BY <2>2, LastOf
    <3>2. v \in SUBSET t /\ v # t /\ v \in SUBSET u
      BY <3>1
    <3>3. Folds(F, base, v, Folded(F, base, v))
      BY <1>2, <3>2
    <3>4. Folded(F, base, u)[v] = Folded(F, base, v)[v]
      <4> DEFINE f == Folded(F, base, u)
                 g == Folded(F, base, v)
      <4>1. UpTo(u, n) /\ v \subseteq u /\ Folds(F, base, u, f) /\ Folds(F, base, v, g)
        BY <2>0, <3>2, <3>3 DEF UpTo
      <4> HIDE DEF v, f, g, it, T
      <4>2. \A x \in SUBSET v : f[x] = g[x]
        BY <4>1, FoldsUnique
      <4> QED BY <4>2 DEF f, g
    <3>5. Folded(F, base, u)[u] = F[Max(u)][Folded(F, base, u)[v]]
      <4> HIDE DEF it, T
      <4> QED BY <2>0, <2>2, FoldsStep
    <3> QED BY <2>2, <3>4, <3>5
  <2> QED BY <2>1, <2>2
<1>4. ASSUME NEW z \in SUBSET t, z # {} PROVE it[z] = F[Max(z)][it[z \ {Max(z)}]]
  <2>1. Max(z) \in z
    BY <1>4, LastOf
  <2>2. Folded(F, base, z \ {Max(z)})[z \ {Max(z)}] = it[z \ {Max(z)}]
    BY <1>3, <2>1
  <2>3. it[z] = F[Max(z)][Folded(F, base, z \ {Max(z)})[z \ {Max(z)}]]
    BY <1>4
  <2> QED BY <2>2, <2>3
<1>5. it = [z \in SUBSET t |-> IF z = {} THEN base ELSE F[Max(z)][it[z \ {Max(z)}]]]
  <2>1. it = [z \in SUBSET t |-> it[z]] /\ it[{}] = base
    OBVIOUS
  <2> HIDE DEF it
  <2> QED BY <1>4, <2>1
<1>6. Folds(F, base, t, it)
  <2> HIDE DEF it
  <2> QED BY <1>5 DEF Folds
<1> QED BY <1>1, <1>6

\* A function that takes the members of S to S can be folded.
Steps(F, S, n) == \A i \in 1..n, x \in S : F[i][x] \in S

Tower(F, base, S, n, g) ==
    /\ g = [t \in SUBSET (1..n) |-> g[t]]
    /\ g[{}] = base
    /\ \A t \in SUBSET (1..n) :
         /\ g[t] \in S
         /\ t # {} => /\ Max(t) \in 1..n
                      /\ g[t \ {Max(t)}] \in S
                      /\ g[t] = F[Max(t)][g[t \ {Max(t)}]]

LEMMA FoldIn ==
    ASSUME NEW n \in Nat, NEW S, NEW base \in S, NEW F, Steps(F, S, n)
    PROVE  \E g : Tower(F, base, S, n, g)
<1>1. PICK g : Folds(F, base, 1..n, g)
  BY FoldsExist
<1>2. g = [t \in SUBSET (1..n) |-> g[t]] /\ g[{}] = base
  BY <1>1 DEF Folds
<1>3. ASSUME NEW t \in SUBSET (1..n), t # {}
      PROVE  g[t] = F[Max(t)][g[t \ {Max(t)}]] /\ Max(t) \in 1..n
  <2>1. g[t] = F[Max(t)][g[t \ {Max(t)}]]
    BY <1>1, <1>3 DEF Folds
  <2> QED BY <1>3, <2>1, LastOf
<1>4. \A t \in SUBSET (1..n) : g[t] \in S
  <2>1. \A t \in SUBSET (1..n) : t # {} /\ g[t \ {Max(t)}] \in S => g[t] \in S
    BY <1>3 DEF Steps
  <2> QED BY <1>2, <2>1, FoldClosed
<1>5. \A t \in SUBSET (1..n) : t \ {Max(t)} \in SUBSET (1..n)
  OBVIOUS
<1> QED BY <1>2, <1>3, <1>4, <1>5 DEF Tower

-----------------------------------------------------------------------------
(* The base timeline and the manifest                                       *)

Length == Len(PeriodLength)

LEMMA Lengths ==
    /\ Length \in Nat \ {0} /\ Periods = 1..Length
    /\ \A p \in Periods : PeriodLength[p] \in Nat \ {0}
<1>1. PeriodLength \in Seq(Nat \ {0}) /\ PeriodLength # << >>
  BY PeriodsAssumption DEF PeriodsAssumption
<1>2. Len(PeriodLength) \in Nat /\ Len(PeriodLength) # 0
  BY <1>1, LenProperties, EmptySeq
<1>3. \A p \in 1..Len(PeriodLength) : PeriodLength[p] \in Nat \ {0}
  BY <1>1, ElementOfSeq
<1> QED BY <1>2, <1>3 DEF Length, Periods

\* The sum of the first lengths is a natural number.
LEMMA StartsAreNat ==
    /\ StartOf \in [1..(Length + 1) -> Nat]
    /\ StartOf[1] = 0
<1>0. StartOf = [p \in 1..(Length + 1) |-> StartOf[p]] /\ 1 \in 1..(Length + 1)
  BY Lengths DEF StartOf, Length
<1> SUFFICES ASSUME NEW p \in 1..(Length + 1)
             PROVE  StartOf[p] \in Nat /\ (p = 1 => StartOf[p] = 0)
  BY <1>0
<1> DEFINE s == SubSeq(PeriodLength, 1, p - 1)
           n == p - 1
<1>1. n \in Nat /\ DOMAIN s = 1..n /\ \A i \in 1..n : s[i] \in Nat
  BY Lengths, PeriodsAssumption DEF PeriodsAssumption, Length, Periods
<1> DEFINE F == [i \in 1..n |-> [x \in Nat |-> x + s[i]]]
           G(it) == it = [t \in SUBSET (1..n) |-> IF t = {} THEN 0
                             ELSE it[t \ {Max(t)}] + s[Max(t)]]
           f == CHOOSE it : G(it)
<1>2. StartOf[p] = f[1..n]
  BY <1>1 DEF StartOf, LengthOf, FoldLeft, MapThenFoldSet, Length
<1> HIDE DEF s, n
<1>3. PICK g : Tower(F, 0, Nat, n, g)
  <2> DEFINE S == Nat
  <2>1. 0 \in S /\ Steps(F, S, n)
    BY <1>1 DEF Steps
  <2> HIDE DEF F, S
  <2>2. \E g : Tower(F, 0, S, n, g)
    BY <1>1, <2>1, FoldIn
  <2> QED BY <2>2 DEF S
<1>4. \A t \in SUBSET (1..n) : t # {} => g[t] = g[t \ {Max(t)}] + s[Max(t)]
  BY <1>1, <1>3 DEF Tower
<1>5. G(g)
  <2>1. [t \in SUBSET (1..n) |-> g[t]] = [t \in SUBSET (1..n) |-> IF t = {} THEN 0
                                             ELSE g[t \ {Max(t)}] + s[Max(t)]]
    BY <1>3, <1>4 DEF Tower
  <2> QED BY <1>3, <2>1 DEF Tower
<1>6. G(f)
  BY <1>5
<1> HIDE DEF f
<1>7. f[{}] = 0 /\ \A t \in SUBSET (1..n) : t # {} => f[t] = f[t \ {Max(t)}] + s[Max(t)]
  BY <1>6
<1>8. \A t \in SUBSET (1..n) : f[t] \in Nat
  <2> DEFINE S == Nat
  <2>1. ASSUME NEW t \in SUBSET (1..n), t # {}, f[t \ {Max(t)}] \in S PROVE f[t] \in S
    <3>1. Max(t) \in 1..n
      BY <1>1, <2>1, LastOf
    <3>2. s[Max(t)] \in Nat
      BY <1>1, <3>1
    <3>3. f[t] = f[t \ {Max(t)}] + s[Max(t)]
      BY <1>7, <2>1
    <3> HIDE DEF f
    <3> QED BY <2>1, <3>2, <3>3
  <2>2. f[{}] \in S
    BY <1>7
  <2> HIDE DEF S
  <2>3. \A t \in SUBSET (1..n) : f[t] \in S
    BY <1>1, <2>1, <2>2, FoldClosed
  <2> QED BY <2>3 DEF S
<1>9. p = 1 => 1..n = {}
  BY DEF n
<1> QED BY <1>2, <1>7, <1>8, <1>9

LEMMA PeriodsAre ==
    /\ \A p \in Periods : /\ p \in Nat /\ p # 0
                          /\ StartOf[p] \in Nat /\ StartOf[p + 1] \in Nat
    /\ MaxEdge \in Nat
  BY Lengths, StartsAreNat DEF MaxEdge, Length

LEMMA Constants ==
    /\ Align \in Nat \ {0} /\ Early \in Nat /\ Window \in Nat
    /\ Growth \subseteq Nat /\ SeekOffsets \subseteq Nat
    /\ IsFiniteSet(Ads)
    /\ Breaks \subseteq Periods /\ 0 \notin Periods
    /\ BreakLength \in [Breaks -> Nat]
    /\ Reservation \in [Ads -> Breaks]
    /\ AdLength \in [Ads -> Nat \ {0}]
  BY PeriodsAssumption, Lengths DEF PeriodsAssumption

\* There is always a period in the manifest: the last one announced.
LEMMA FirstPeriodIs ==
    ASSUME NEW e \in Nat
    PROVE  FirstPeriod(e) \in Manifest(e) /\ Manifest(e) \subseteq Periods
<1> DEFINE A == {p \in Periods : StartOf[p] <= e + Early}
           q == Max(A)
<1>1. 1 \in A
  BY Lengths, StartsAreNat, Constants
<1>2. q \in A /\ \A p \in A : p <= q
  <2>1. A \in SUBSET Int /\ \A p \in A : p <= Length
    BY Lengths
  <2>2. Length \in Int
    BY Lengths
  <2> HIDE DEF A
  <2> QED BY <1>1, <2>1, <2>2, GreatestIs
<1> HIDE DEF q
<1>3. q \in Manifest(e)
  <2>1. CASE q = Length
    BY <1>2, <2>1 DEF Manifest, InManifest, Length
  <2>2. CASE q # Length
    <3>1. q + 1 \in Periods /\ q + 1 \notin A
      BY <1>2, <2>2, Lengths
    <3>2. StartOf[q + 1] > e + Early
      BY <3>1, PeriodsAre, Constants
    <3>3. StartOf[q + 1] + Window > e
      BY <3>1, <3>2, PeriodsAre, Constants
    <3> QED BY <1>2, <3>3 DEF Manifest, InManifest
  <2> QED BY <2>1, <2>2
<1>4. \E p \in Manifest(e) : \A r \in Manifest(e) : p <= r
  <2>1. Manifest(e) \in SUBSET Nat
    BY PeriodsAre DEF Manifest
  <2> QED BY <1>3, <2>1, LeastNatural
<1> QED BY <1>4 DEF FirstPeriod, Manifest

\* A period that joins the manifest as it grows had not been announced.
LEMMA JoinsLate ==
    ASSUME NEW d \in Nat, NEW e \in Nat, d <= e,
           NEW p \in Manifest(e), p \notin Manifest(d)
    PROVE  StartOf[p] > d + Early
  BY PeriodsAre, Constants, Lengths DEF Manifest, InManifest

\* A step of the fold that adds the lengths up.
Adder == [i \in 1..Length |-> [x \in Nat |-> x + PeriodLength[i]]]

\* The begin of a period is the fold of the lengths of those in front of it.
LEMMA StartIsFold ==
    ASSUME NEW p \in 1..(Length + 1)
    PROVE  \E f : /\ Folds(Adder, 0, 1..(p - 1), f)
                  /\ \A t \in SUBSET (1..(p - 1)) : f[t] \in Nat
                  /\ StartOf[p] = f[1..(p - 1)]
<1> DEFINE s == SubSeq(PeriodLength, 1, p - 1)
           n == p - 1
<1>1. /\ n \in 0..Length /\ n \in Nat
      /\ DOMAIN s = 1..n
      /\ \A i \in 1..n : s[i] = PeriodLength[i] /\ PeriodLength[i] \in Nat /\ i \in 1..Length
  BY Lengths, PeriodsAssumption DEF PeriodsAssumption, Length, Periods
<1> DEFINE G(it) == it = [t \in SUBSET (1..n) |-> IF t = {} THEN 0
                             ELSE it[t \ {Max(t)}] + s[Max(t)]]
           f == CHOOSE it : G(it)
<1>2. StartOf[p] = f[1..n]
  BY <1>1, Lengths DEF StartOf, LengthOf, FoldLeft, MapThenFoldSet, Length
<1> HIDE DEF s, n
<1>3. PICK g : Tower(Adder, 0, Nat, n, g)
  <2> DEFINE S == Nat
  <2>1. 0 \in S /\ Steps(Adder, S, n)
    <3>1. \A i \in 1..n : \A x \in Nat :
            Adder[i][x] = x + PeriodLength[i] /\ PeriodLength[i] \in Nat
      BY <1>1 DEF Adder
    <3> QED BY <3>1 DEF Steps
  <2> HIDE DEF S
  <2>2. \E g : Tower(Adder, 0, S, n, g)
    BY <1>1, <2>1, FoldIn
  <2> QED BY <2>2 DEF S
<1>4. \A t \in SUBSET (1..n) : t # {} => g[t] = g[t \ {Max(t)}] + s[Max(t)]
  BY <1>1, <1>3 DEF Tower, Adder
<1>5. G(g)
  <2>1. [t \in SUBSET (1..n) |-> g[t]] = [t \in SUBSET (1..n) |-> IF t = {} THEN 0
                                             ELSE g[t \ {Max(t)}] + s[Max(t)]]
    BY <1>3, <1>4 DEF Tower
  <2> QED BY <1>3, <2>1 DEF Tower
<1>6. G(f)
  BY <1>5
<1> HIDE DEF f
<1>7. f[{}] = 0 /\ \A t \in SUBSET (1..n) : t # {} => f[t] = f[t \ {Max(t)}] + s[Max(t)]
  BY <1>6
<1>8. \A t \in SUBSET (1..n) : f[t] \in Nat
  <2> DEFINE S == Nat
  <2>1. ASSUME NEW t \in SUBSET (1..n), t # {}, f[t \ {Max(t)}] \in S PROVE f[t] \in S
    <3>1. Max(t) \in 1..n
      BY <1>1, <2>1, LastOf
    <3>2. s[Max(t)] \in Nat
      BY <1>1, <3>1
    <3>3. f[t] = f[t \ {Max(t)}] + s[Max(t)]
      BY <1>7, <2>1
    <3> HIDE DEF f
    <3> QED BY <2>1, <3>2, <3>3
  <2>2. f[{}] \in S
    BY <1>7
  <2> HIDE DEF S
  <2>3. \A t \in SUBSET (1..n) : f[t] \in S
    BY <1>1, <2>1, <2>2, FoldClosed
  <2> QED BY <2>3 DEF S
<1>9. Folds(Adder, 0, 1..n, f)
  <2>1. ASSUME NEW t \in SUBSET (1..n), t # {}
        PROVE  f[t] = Adder[Max(t)][f[t \ {Max(t)}]]
    <3>1. Max(t) \in 1..n /\ t \ {Max(t)} \in SUBSET (1..n)
      BY <1>1, <2>1, LastOf
    <3>2. s[Max(t)] = PeriodLength[Max(t)] /\ Max(t) \in 1..Length /\ f[t \ {Max(t)}] \in Nat
      BY <1>1, <1>8, <3>1
    <3>3. f[t] = f[t \ {Max(t)}] + s[Max(t)]
      BY <1>7, <2>1
    <3> QED BY <3>2, <3>3 DEF Adder
  <2>2. f = [t \in SUBSET (1..n) |-> f[t]]
    BY <1>6
  <2>3. [t \in SUBSET (1..n) |-> f[t]]
          = [t \in SUBSET (1..n) |-> IF t = {} THEN 0 ELSE Adder[Max(t)][f[t \ {Max(t)}]]]
    BY <1>7, <2>1
  <2> QED BY <2>2, <2>3 DEF Folds
<1> QED BY <1>2, <1>8, <1>9 DEF n

\* A period begins where the one in front of it ends.
LEMMA StartsAdd == \A p \in Periods : StartOf[p + 1] = StartOf[p] + PeriodLength[p]
<1> SUFFICES ASSUME NEW p \in Periods
             PROVE  StartOf[p + 1] = StartOf[p] + PeriodLength[p]
  OBVIOUS
<1>1. /\ p \in Nat /\ p >= 1 /\ p <= Length /\ Length \in Nat
      /\ p \in 1..(Length + 1) /\ p + 1 \in 1..(Length + 1) /\ p \in 1..Length
  BY Lengths
<1> DEFINE n == p - 1
           D == 1..p
           E == 1..n
<1>2. PICK f : /\ Folds(Adder, 0, E, f)
               /\ \A t \in SUBSET E : f[t] \in Nat
               /\ StartOf[p] = f[E]
  BY <1>1, StartIsFold
<1>3. PICK g : /\ Folds(Adder, 0, D, g)
               /\ \A t \in SUBSET D : g[t] \in Nat
               /\ StartOf[p + 1] = g[D]
  <2>1. p + 1 - 1 = p
    BY <1>1
  <2> QED BY <1>1, <2>1, StartIsFold
<1>4. /\ n \in Nat /\ E \subseteq D /\ p \in D /\ D \ {p} = E
      /\ D # {} /\ \A x \in D : x <= p
  BY <1>1
<1>5. Max(D) = p
  <2>1. Max(D) \in D /\ \A x \in D : x <= Max(D)
    <3>1. D \in SUBSET Int /\ p \in Int
      BY <1>1
    <3> HIDE DEF D
    <3> QED BY <1>1, <1>4, <3>1, GreatestIs
  <2> QED BY <1>1, <2>1
<1>6. UpTo(D, p)
  BY DEF UpTo
<1> HIDE DEF D, E, n
<1>7. g[E] = f[E]
  <2> DEFINE z == 0
  <2>1. p \in Nat /\ UpTo(D, p) /\ E \subseteq D /\ Folds(Adder, z, D, g) /\ Folds(Adder, z, E, f)
    BY <1>1, <1>2, <1>3, <1>4, <1>6
  <2> HIDE DEF z
  <2>2. \A t \in SUBSET E : g[t] = f[t]
    BY <2>1, FoldsUnique
  <2> QED BY <2>2
<1>8. g[D] = Adder[p][g[E]]
  BY <1>3, <1>4, <1>5, FoldsStep
<1>9. g[E] \in Nat
  BY <1>3, <1>4
<1> QED BY <1>1, <1>2, <1>3, <1>7, <1>8, <1>9 DEF Adder

\* So what comes later begins after it.
LEMMA StartsGrow ==
    ASSUME NEW p \in Periods, NEW q \in 1..(Length + 1), p < q
    PROVE  StartOf[p] + PeriodLength[p] <= StartOf[q]
<1> DEFINE T == {x \in 1..(Length + 1) : p < x /\ StartOf[x] < StartOf[p + 1]}
<1>1. /\ p \in Nat /\ Length \in Nat /\ p <= Length /\ p >= 1
      /\ \A x \in 1..(Length + 1) : StartOf[x] \in Nat
      /\ StartOf[p + 1] = StartOf[p] + PeriodLength[p]
      /\ p + 1 \in 1..(Length + 1)
  BY Lengths, StartsAreNat, StartsAdd
<1>2. SUFFICES ASSUME T # {} PROVE FALSE
  BY <1>1
<1>3. PICK x \in T : \A y \in T : x <= y
  <2>1. T \in SUBSET Nat
    OBVIOUS
  <2> HIDE DEF T
  <2> QED BY <1>2, <2>1, LeastNatural
<1>4. x # p + 1 /\ x - 1 \in Periods /\ x - 1 > p /\ x - 1 \in 1..(Length + 1)
  BY <1>1, <1>3, Lengths
<1>5. x - 1 \notin T
  BY <1>1, <1>3
<1>6. StartOf[x] = StartOf[x - 1] + PeriodLength[x - 1]
  <2>1. x - 1 + 1 = x
    BY <1>1, <1>3
  <2> QED BY <1>4, <2>1, StartsAdd
<1>7. PeriodLength[x - 1] \in Nat
  BY <1>4, Lengths
<1> QED BY <1>1, <1>3, <1>4, <1>5, <1>6, <1>7

\* The published content of a period grows.
LEMMA DurationGrows ==
    ASSUME NEW p \in Periods, NEW d \in Nat, NEW e \in Nat, d <= e
    PROVE  /\ Duration(p, d) \in Nat /\ Duration(p, e) \in Nat
           /\ Duration(p, d) <= Duration(p, e)
  BY SMTT(30), PeriodsAre, Lengths DEF Duration, Smaller, Larger

LEMMA OffsetKeyIs == ASSUME NEW o \in Int PROVE OffsetKey(o) \in Int
  BY Constants DEF OffsetKey

-----------------------------------------------------------------------------
(* The tables of the CDAI object                                            *)

Node == [ad : Ads, invalid : BOOLEAN, placed : BOOLEAN, duration : Nat,
         basePeriod : Periods \cup {0}, baseOffset : Nat]
AdBreakObject == [brkDuration : Nat, ads : Seq(Node), endPeriod : Periods \cup {0},
                  endOffset : Nat, adsDuration : Nat, adjust : BOOLEAN]
Start == [ad : Nat, start : Nat]
Starts == UNION {[K -> Start] : K \in SUBSET Int}
Period2AdData == [filled : BOOLEAN, adBreakId : Breaks \cup {0}, duration : Nat,
                  offset2Ad : Starts]
PlacementObj == [brk : Breaks \cup {0}, open : Periods \cup {0}, counted : Nat,
                 cur : Nat, next : Nat]

LEMMA StartsAre ==
    ASSUME NEW o
    PROVE  o \in Starts <=> /\ DOMAIN o \subseteq Int /\ o \in [DOMAIN o -> Start]
  BY DEF Starts

\* One more ad begins in a period.
LEMMA StartAdded ==
    ASSUME NEW o \in Starts, NEW k \in Int, NEW v \in Start
    PROVE  LET n == Put(o, k, v)
           IN  /\ n \in Starts
               /\ DOMAIN n = DOMAIN o \cup {k}
               /\ n[k] = v
               /\ \A x \in DOMAIN o : x # k => n[x] = o[x]
<1> DEFINE n == Put(o, k, v)
<1>1. /\ DOMAIN n = DOMAIN o \cup {k}
      /\ n = [x \in DOMAIN o \cup {k} |-> IF x = k THEN v ELSE o[x]]
  BY DEF Put
<1>2. DOMAIN o \subseteq Int /\ \A x \in DOMAIN o : o[x] \in Start
  BY StartsAre
<1> HIDE DEF n
<1>3. n \in [DOMAIN n -> Start] /\ DOMAIN n \subseteq Int
  BY <1>1, <1>2
<1>4. n \in Starts
  BY <1>3, StartsAre
<1> QED BY <1>1, <1>4 DEF n

LEMMA NodeSet ==
    ASSUME NEW ads \in Seq(Node), NEW i \in 1..Len(ads), NEW node \in Node
    PROVE  LET new == [ads EXCEPT ![i] = node]
           IN  /\ new \in Seq(Node) /\ Len(new) = Len(ads)
               /\ new[i] = node
               /\ \A j \in 1..Len(ads) : j # i => new[j] = ads[j]
<1>1. Len(ads) \in Nat /\ ads \in [1..Len(ads) -> Node]
  BY LenProperties
<1> QED BY <1>1

\* What the placement of ads leaves alone.
SameAds(a, o) ==
    /\ Len(a.ads) = Len(o.ads)
    /\ a.brkDuration = o.brkDuration /\ a.adsDuration = o.adsDuration
    /\ \A i \in 1..Len(o.ads) : /\ a.ads[i].ad = o.ads[i].ad
                                /\ a.ads[i].duration = o.ads[i].duration
                                /\ a.ads[i].invalid = o.ads[i].invalid

\* The first ad begins with the break, and each one only when those in front are placed.
Turn(b, ads) ==
    /\ ads # << >> => ads[1].basePeriod = b /\ ads[1].baseOffset = 0
    /\ \A i, j \in 1..Len(ads) : j < i /\ ads[i].basePeriod # 0 => ads[j].placed

\* Once its last ad is placed, the end of a break is known.
EndKnown(abObj) ==
    abObj.ads # << >> /\ abObj.ads[Len(abObj.ads)].placed => abObj.endPeriod # 0

\* The placement is at one of the ads, with a part of it, or at the end of the break.
AtAd(abObj, pl) ==
    /\ Len(abObj.ads) > 0
    /\ pl.cur \in 1..(Len(abObj.ads) + 1)
    /\ ~abObj.adjust => /\ pl.cur <= Len(abObj.ads)
                        /\ pl.next <= abObj.ads[pl.cur].duration
    /\ abObj.adjust => abObj.endPeriod # 0
    /\ \A j \in 1..Len(abObj.ads) : j < pl.cur => abObj.ads[j].placed

\* Ads begin only in periods that belong to a break, and those of b are its ads.
Marked(map, b, n) ==
    \A q \in DOMAIN map : \A k \in DOMAIN map[q].offset2Ad :
       /\ map[q].adBreakId # 0
       /\ map[q].adBreakId = b => map[q].offset2Ad[k].ad \in 1..n

\* A period is given to the break that is placed, or cleared.
Given(map, old, b) ==
    \A q \in DOMAIN map : map[q].adBreakId \in {old[q].adBreakId, b, 0}

Work(M) == [abObj : AdBreakObject, map : [M -> Period2AdData], pl : PlacementObj,
            delta : Nat, found : BOOLEAN, here : BOOLEAN, stop : BOOLEAN]

\* What holds of the placement of break b, which began as o with the map old.
Placing(b, o, old, e, s) ==
    /\ s \in Work(Manifest(e))
    /\ SameAds(s.abObj, o) /\ Turn(b, s.abObj.ads) /\ EndKnown(s.abObj)
    /\ AtAd(s.abObj, s.pl)
    /\ Marked(s.map, b, Len(o.ads)) /\ Given(s.map, old, b)
    /\ s.pl.brk = b /\ s.pl.open # 0 /\ s.pl.counted <= Duration(s.pl.open, e)

\* And in period p, of which delta is not covered.
Covering(b, o, old, e, p, s) ==
    /\ Placing(b, o, old, e, s)
    /\ s.map[p].adBreakId # 0
    /\ s.delta <= s.map[p].duration
    /\ s.stop \/ ~s.abObj.adjust

\* Ad i begins at base in period p: in its break, and in the period.
Begun(abObj, i, p, base) ==
  [abObj EXCEPT !.ads[i] = [@ EXCEPT !.basePeriod = p, !.baseOffset = base]]
Begins(map, i, p, base) ==
  [map EXCEPT ![p].offset2Ad = Put(@, OffsetKey(base), [ad |-> i, start |-> 0])]

MayBegin(b, M, p, abObj, map, i, base) ==
    /\ M \in SUBSET Periods /\ p \in M
    /\ abObj \in AdBreakObject /\ map \in [M -> Period2AdData]
    /\ i \in 1..Len(abObj.ads) /\ base \in Nat
    /\ abObj.ads[i].basePeriod = 0 /\ Turn(b, abObj.ads) /\ EndKnown(abObj)
    /\ \A j \in 1..Len(abObj.ads) : j < i => abObj.ads[j].placed
    /\ Marked(map, b, Len(abObj.ads)) /\ map[p].adBreakId # 0

\* An ad that begins in period p is known to its break and to the period.
LEMMA AdBegins ==
    ASSUME NEW b \in Breaks, NEW M, NEW p, NEW abObj, NEW map, NEW i, NEW base,
           MayBegin(b, M, p, abObj, map, i, base)
    PROVE  LET new == Begun(abObj, i, p, base)
               marked == Begins(map, i, p, base)
           IN  /\ new \in AdBreakObject
               /\ SameAds(new, abObj) /\ Turn(b, new.ads) /\ EndKnown(new)
               /\ new.adjust = abObj.adjust /\ new.endPeriod = abObj.endPeriod
               /\ \A j \in 1..Len(abObj.ads) : new.ads[j].placed = abObj.ads[j].placed
               /\ marked \in [M -> Period2AdData]
               /\ Marked(marked, b, Len(abObj.ads))
               /\ \A q \in M : /\ marked[q].adBreakId = map[q].adBreakId
                               /\ marked[q].duration = map[q].duration
<1> DEFINE new == [abObj EXCEPT !.ads[i] = [@ EXCEPT !.basePeriod = p, !.baseOffset = base]]
           n == Len(abObj.ads)
           node == [abObj.ads[i] EXCEPT !.basePeriod = p, !.baseOffset = base]
           v == [ad |-> i, start |-> 0]
           o == map[p].offset2Ad
           starts == Put(o, OffsetKey(base), v)
           marked == [map EXCEPT ![p].offset2Ad = starts]
<1>0. /\ M \in SUBSET Periods /\ p \in M
      /\ abObj \in AdBreakObject /\ map \in [M -> Period2AdData]
      /\ i \in 1..Len(abObj.ads) /\ base \in Nat
      /\ abObj.ads[i].basePeriod = 0 /\ Turn(b, abObj.ads) /\ EndKnown(abObj)
      /\ \A j \in 1..Len(abObj.ads) : j < i => abObj.ads[j].placed
      /\ Marked(map, b, Len(abObj.ads)) /\ map[p].adBreakId # 0
  BY DEF MayBegin
<1>1. /\ abObj.ads \in Seq(Node) /\ n \in Nat /\ i \in Nat /\ abObj.ads[i] \in Node
      /\ abObj.ads \in [1..n -> Node]
  BY <1>0, LenProperties DEF AdBreakObject
<1>2. node \in Node
  BY <1>0, <1>1 DEF Node
<1>3. new.ads = [abObj.ads EXCEPT ![i] = node] /\ new = [abObj EXCEPT !.ads = new.ads]
  BY <1>0, <1>1 DEF AdBreakObject
<1>4. /\ new.ads \in Seq(Node) /\ Len(new.ads) = n /\ new.ads[i] = node
      /\ \A j \in 1..n : j # i => new.ads[j] = abObj.ads[j]
  BY <1>0, <1>1, <1>2, <1>3, NodeSet
<1>5. /\ node.ad = abObj.ads[i].ad /\ node.duration = abObj.ads[i].duration
      /\ node.invalid = abObj.ads[i].invalid /\ node.placed = abObj.ads[i].placed
  BY <1>0, <1>1 DEF Node
<1>6. /\ new \in AdBreakObject /\ new.adjust = abObj.adjust
      /\ new.endPeriod = abObj.endPeriod /\ new.brkDuration = abObj.brkDuration
      /\ new.adsDuration = abObj.adsDuration
  BY <1>0, <1>3, <1>4 DEF AdBreakObject
<1> HIDE DEF new, node
<1>7. \A j \in 1..n : /\ new.ads[j].placed = abObj.ads[j].placed
                      /\ new.ads[j].ad = abObj.ads[j].ad
                      /\ new.ads[j].duration = abObj.ads[j].duration
                      /\ new.ads[j].invalid = abObj.ads[j].invalid
  BY <1>0, <1>4, <1>5
<1>8. SameAds(new, abObj)
  BY <1>0, <1>4, <1>6, <1>7 DEF SameAds
<1>9. EndKnown(new)
  <2>1. new.ads # << >> => n # 0 /\ abObj.ads # << >>
    BY <1>0, <1>1, <1>4, EmptySeq
  <2>2. n # 0 => n \in 1..n
    BY <1>0, <1>1
  <2> QED BY <1>0, <2>1, <2>2, <1>4, <1>6, <1>7 DEF EndKnown
<1>10. Turn(b, new.ads)
  <2>1. i # 1
    <3>1. abObj.ads # << >>
      BY <1>0, <1>1
    <3>2. abObj.ads[1].basePeriod # 0
      BY <1>0, <3>1, Constants DEF Turn
    <3> QED BY <1>0, <3>2
  <2>2. new.ads # << >> => new.ads[1].basePeriod = b /\ new.ads[1].baseOffset = 0
    <3>1. new.ads[1] = abObj.ads[1] /\ abObj.ads # << >>
      BY <1>0, <2>1, <1>1, <1>4
    <3> QED BY <1>0, <3>1 DEF Turn
  <2>3. ASSUME NEW k \in 1..n, NEW j \in 1..n, j < k, new.ads[k].basePeriod # 0
        PROVE  new.ads[j].placed
    <3>1. CASE k = i
      BY <1>0, <1>7, <2>3, <3>1
    <3>2. CASE k # i
      BY <1>0, <1>4, <1>7, <2>3, <3>2 DEF Turn
    <3> QED BY <1>0, <3>1, <3>2
  <2> QED BY <1>0, <1>4, <2>2, <2>3 DEF Turn
<1>11. /\ starts \in Starts
       /\ DOMAIN starts = DOMAIN o \cup {OffsetKey(base)}
       /\ starts[OffsetKey(base)] = v
       /\ \A x \in DOMAIN o : x # OffsetKey(base) => starts[x] = o[x]
  <2>1. OffsetKey(base) \in Int
    BY <1>0, OffsetKeyIs
  <2>2. o \in Starts /\ v \in Start
    BY <1>0, <1>1 DEF Start, Period2AdData
  <2> HIDE DEF o, v
  <2> QED BY <1>0, <2>1, <2>2, StartAdded
<1> HIDE DEF starts
<1>12. /\ marked \in [M -> Period2AdData]
       /\ \A q \in M : /\ marked[q].adBreakId = map[q].adBreakId
                       /\ marked[q].duration = map[q].duration
                       /\ q # p => marked[q].offset2Ad = map[q].offset2Ad
       /\ marked[p].offset2Ad = starts
  BY <1>0, <1>11 DEF Period2AdData
<1> HIDE DEF marked
<1>13. Marked(marked, b, n)
  <2> SUFFICES ASSUME NEW q \in M, NEW k \in DOMAIN marked[q].offset2Ad
               PROVE  /\ marked[q].adBreakId # 0
                      /\ marked[q].adBreakId = b => marked[q].offset2Ad[k].ad \in 1..n
    BY <1>0, <1>12 DEF Marked
  <2>1. CASE q # p
    BY <1>0, <1>12, <2>1 DEF Marked
  <2>2. CASE q = p /\ k # OffsetKey(base)
    BY <1>0, <1>11, <1>12, <2>2 DEF Marked
  <2>3. CASE q = p /\ k = OffsetKey(base)
    BY <1>0, <1>11, <1>12, <2>3
  <2> QED BY <1>0, <2>1, <2>2, <2>3
<1> QED BY <1>0, <1>6, <1>7, <1>8, <1>9, <1>10, <1>12, <1>13
        DEF new, marked, starts, Begun, Begins

-----------------------------------------------------------------------------
(* One turn of the inner loop of PlaceAds                                   *)

LEMMA SameAdsChain ==
    ASSUME NEW a, NEW c, NEW o, SameAds(a, c), SameAds(c, o)
    PROVE  SameAds(a, o)
  BY DEF SameAds

Done(abObj, i) == [abObj EXCEPT !.ads[i].placed = TRUE]

\* An ad of which nothing is left is placed.
LEMMA AdPlaced ==
    ASSUME NEW b \in Breaks, NEW abObj \in AdBreakObject, NEW i \in 1..Len(abObj.ads),
           Turn(b, abObj.ads)
    PROVE  LET new == Done(abObj, i)
           IN  /\ new \in AdBreakObject
               /\ SameAds(new, abObj) /\ Turn(b, new.ads)
               /\ new.adjust = abObj.adjust /\ new.endPeriod = abObj.endPeriod
               /\ new.endOffset = abObj.endOffset
               /\ new.ads[i].placed
               /\ \A j \in 1..Len(abObj.ads) :
                    j # i => new.ads[j].placed = abObj.ads[j].placed
<1> DEFINE new == [abObj EXCEPT !.ads[i].placed = TRUE]
           n == Len(abObj.ads)
           node == [abObj.ads[i] EXCEPT !.placed = TRUE]
<1>1. /\ abObj.ads \in Seq(Node) /\ n \in Nat /\ i \in Nat /\ abObj.ads[i] \in Node
      /\ abObj.ads \in [1..n -> Node]
  BY LenProperties DEF AdBreakObject
<1>2. node \in Node
  BY <1>1 DEF Node
<1>3. new.ads = [abObj.ads EXCEPT ![i] = node] /\ new = [abObj EXCEPT !.ads = new.ads]
  BY <1>1 DEF AdBreakObject
<1>4. /\ new.ads \in Seq(Node) /\ Len(new.ads) = n /\ new.ads[i] = node
      /\ \A j \in 1..n : j # i => new.ads[j] = abObj.ads[j]
  BY <1>1, <1>2, <1>3, NodeSet
<1>5. /\ node.ad = abObj.ads[i].ad /\ node.duration = abObj.ads[i].duration
      /\ node.invalid = abObj.ads[i].invalid /\ node.placed = TRUE
      /\ node.basePeriod = abObj.ads[i].basePeriod
      /\ node.baseOffset = abObj.ads[i].baseOffset
  BY <1>1 DEF Node
<1>6. /\ new \in AdBreakObject /\ new.adjust = abObj.adjust
      /\ new.endPeriod = abObj.endPeriod /\ new.brkDuration = abObj.brkDuration
      /\ new.adsDuration = abObj.adsDuration /\ new.endOffset = abObj.endOffset
  BY <1>3, <1>4 DEF AdBreakObject
<1> HIDE DEF new, node
<1>7. \A j \in 1..n : /\ j # i => new.ads[j].placed = abObj.ads[j].placed
                      /\ new.ads[j].ad = abObj.ads[j].ad
                      /\ new.ads[j].duration = abObj.ads[j].duration
                      /\ new.ads[j].invalid = abObj.ads[j].invalid
                      /\ new.ads[j].basePeriod = abObj.ads[j].basePeriod
                      /\ new.ads[j].baseOffset = abObj.ads[j].baseOffset
  BY <1>4, <1>5
<1>10. new.ads[i].placed
  BY <1>4, <1>5
<1>8. SameAds(new, abObj)
  BY <1>4, <1>6, <1>7 DEF SameAds
<1>9. Turn(b, new.ads)
  <2>1. abObj.ads # << >> /\ 1 \in 1..n
    BY <1>1
  <2> QED BY <2>1, <1>4, <1>7, <1>10 DEF Turn
<1> QED BY <1>6, <1>7, <1>8, <1>9, <1>10 DEF new, Done

LEMMA EndIsKnown ==
    ASSUME NEW abObj \in AdBreakObject,
           \/ abObj.endPeriod # 0
           \/ Len(abObj.ads) > 0 => ~abObj.ads[Len(abObj.ads)].placed
    PROVE  EndKnown(abObj)
<1>1. abObj.ads # << >> => Len(abObj.ads) > 0
  BY EmptySeq, LenProperties DEF AdBreakObject
<1> QED BY <1>1 DEF EndKnown

\* The placement goes on with the next ad.
LEMMA GoesOn ==
    ASSUME NEW pl \in PlacementObj, NEW c \in Nat
    PROVE  LET new == [pl EXCEPT !.cur = c, !.next = 0]
           IN  /\ new \in PlacementObj /\ new.brk = pl.brk /\ new.open = pl.open
               /\ new.counted = pl.counted /\ new.cur = c /\ new.next = 0
  BY DEF PlacementObj

LEMMA PlaceAdCovers ==
    ASSUME NEW b \in Breaks, NEW o \in AdBreakObject, NEW old, NEW e \in Nat,
           NEW p \in Manifest(e), NEW s, Covering(b, o, old, e, p, s),
           NEW i \in 1..Len(o.ads)
    PROVE  Covering(b, o, old, e, p, PlaceAd(p, s, i))
<1> DEFINE M == Manifest(e)
           n == Len(o.ads)
           base == s.map[p].duration - s.delta
           first == s.abObj.ads[i].basePeriod = 0
           abObj == IF first THEN Begun(s.abObj, i, p, base) ELSE s.abObj
           map == IF first THEN Begins(s.map, i, p, base) ELSE s.map
           left == s.delta - Rest(s, i)
           done == Done(abObj, i)
           over == [done EXCEPT !.endPeriod = p, !.endOffset = map[p].duration - left,
                                !.adjust = TRUE]
<1>1. /\ s \in Work(M) /\ SameAds(s.abObj, o) /\ Turn(b, s.abObj.ads)
      /\ EndKnown(s.abObj) /\ AtAd(s.abObj, s.pl) /\ Marked(s.map, b, n)
      /\ Given(s.map, old, b) /\ s.pl.brk = b /\ s.pl.open # 0
      /\ s.pl.counted <= Duration(s.pl.open, e)
      /\ s.map[p].adBreakId # 0 /\ s.delta <= s.map[p].duration
      /\ s.stop \/ ~s.abObj.adjust
  BY DEF Covering, Placing
<1>2. /\ s.abObj \in AdBreakObject /\ s.map \in [M -> Period2AdData]
      /\ s.pl \in PlacementObj /\ s.delta \in Nat /\ s.stop \in BOOLEAN
      /\ s.map[p] \in Period2AdData /\ s.map[p].duration \in Nat /\ base \in Nat
      /\ M \in SUBSET Periods /\ n \in Nat /\ i \in Nat /\ i >= 1 /\ i <= n
      /\ Len(s.abObj.ads) = n
  BY <1>1, FirstPeriodIs, LenProperties DEF Work, Period2AdData, AdBreakObject, SameAds
<1> SUFFICES ASSUME i = s.pl.cur, s.delta # 0, ~s.stop
             PROVE  Covering(b, o, old, e, p, PlaceAd(p, s, i))
  BY DEF PlaceAd
<1>3. /\ ~s.abObj.adjust /\ s.pl.next \in Nat /\ s.pl.next <= s.abObj.ads[i].duration
      /\ \A j \in 1..n : j < i => s.abObj.ads[j].placed
      /\ s.abObj.ads[i] \in Node /\ s.abObj.ads[i].duration \in Nat
  <2>1. s.abObj.ads \in Seq(Node) /\ s.abObj.ads[i] \in Node
    BY <1>2, ElementOfSeq DEF AdBreakObject
  <2> QED BY <1>1, <1>2, <2>1 DEF AtAd, PlacementObj, Node
<1>4. /\ abObj \in AdBreakObject
      /\ SameAds(abObj, s.abObj) /\ Turn(b, abObj.ads) /\ EndKnown(abObj)
      /\ abObj.adjust = s.abObj.adjust /\ abObj.endPeriod = s.abObj.endPeriod
      /\ \A j \in 1..n : abObj.ads[j].placed = s.abObj.ads[j].placed
      /\ map \in [M -> Period2AdData]
      /\ Marked(map, b, n)
      /\ \A q \in M : /\ map[q].adBreakId = s.map[q].adBreakId
                      /\ map[q].duration = s.map[q].duration
  <2>1. CASE ~first
    BY <1>1, <1>2, <2>1 DEF SameAds
  <2>2. CASE first
    <3> DEFINE c == s.abObj
               m == s.map
    <3>1. MayBegin(b, M, p, c, m, i, base)
      BY <1>1, <1>2, <1>3, <2>2 DEF MayBegin
    <3>2. abObj = Begun(c, i, p, base) /\ map = Begins(m, i, p, base) /\ Len(c.ads) = n
      BY <1>2, <2>2
    <3> HIDE DEF M, base, c, m, abObj, map, n
    <3>3. /\ abObj \in AdBreakObject
          /\ SameAds(abObj, c) /\ Turn(b, abObj.ads) /\ EndKnown(abObj)
          /\ abObj.adjust = c.adjust /\ abObj.endPeriod = c.endPeriod
          /\ \A j \in 1..Len(c.ads) : abObj.ads[j].placed = c.ads[j].placed
          /\ map \in [M -> Period2AdData]
          /\ Marked(map, b, Len(c.ads))
          /\ \A q \in M : /\ map[q].adBreakId = m[q].adBreakId
                          /\ map[q].duration = m[q].duration
      BY <3>1, <3>2, AdBegins
    <3> QED BY <3>2, <3>3 DEF c, m
  <2> QED BY <2>1, <2>2
<1>5. SameAds(abObj, o) /\ Len(abObj.ads) = n
  <2> HIDE DEF abObj
  <2>1. SameAds(abObj, s.abObj) /\ SameAds(s.abObj, o)
    BY <1>1, <1>4
  <2>2. SameAds(abObj, o)
    BY <2>1, SameAdsChain
  <2> QED BY <2>2 DEF SameAds
<1>6. Given(map, old, b)
  <2>1. /\ Given(s.map, old, b) /\ DOMAIN map = M /\ DOMAIN s.map = M
        /\ \A q \in M : map[q].adBreakId = s.map[q].adBreakId
    BY <1>1, <1>2, <1>4
  <2> HIDE DEF map, M
  <2> QED BY <2>1 DEF Given
<1> HIDE DEF abObj, map, base, first
<1>7. left \in Int /\ left <= s.delta
  <2>1. s.delta \in Nat
    BY <1>2
  <2>2. Rest(s, i) \in Nat
    BY <1>3 DEF Rest
  <2> QED BY <2>1, <2>2
<1> HIDE DEF left
<1>8. /\ done \in AdBreakObject
      /\ SameAds(done, o) /\ Turn(b, done.ads)
      /\ ~done.adjust /\ done.endPeriod = abObj.endPeriod
      /\ \A j \in 1..n : j # i => done.ads[j].placed = s.abObj.ads[j].placed
      /\ done.ads[i].placed
  <2>1. /\ abObj \in AdBreakObject /\ i \in 1..Len(abObj.ads) /\ Turn(b, abObj.ads)
        /\ Len(abObj.ads) = n
    BY <1>2, <1>4, <1>5
  <2>9. done = Done(abObj, i)
    OBVIOUS
  <2> HIDE DEF done, over
  <2>2. /\ done \in AdBreakObject
        /\ SameAds(done, abObj) /\ Turn(b, done.ads)
        /\ done.adjust = abObj.adjust /\ done.endPeriod = abObj.endPeriod
        /\ done.ads[i].placed
        /\ \A j \in 1..Len(abObj.ads) : j # i => done.ads[j].placed = abObj.ads[j].placed
    <3> HIDE DEF n
    <3> QED BY <2>1, <2>9, AdPlaced
  <2>3. \A j \in 1..n : j # i => done.ads[j].placed = abObj.ads[j].placed
    BY <2>1, <2>2
  <2>4. done.ads[i].placed
    BY <2>1, <2>2
  <2>5. SameAds(done, o)
    BY <1>5, <2>2, SameAdsChain
  <2> QED BY <1>3, <1>4, <2>2, <2>3, <2>4, <2>5
<1> HIDE DEF done
<1>9. s = [abObj |-> s.abObj, map |-> s.map, pl |-> s.pl, delta |-> s.delta,
           found |-> s.found, here |-> s.here, stop |-> s.stop]
      /\ s.pl = [brk |-> b, open |-> s.pl.open, counted |-> s.pl.counted,
                 cur |-> i, next |-> s.pl.next]
      /\ s.found \in BOOLEAN /\ s.here \in BOOLEAN
  BY <1>1, <1>2 DEF Work, PlacementObj
<1> DEFINE part == [s EXCEPT !.abObj = abObj, !.map = map,
                             !.pl.next = @ + s.delta, !.delta = 0]
           short == [s EXCEPT !.abObj = abObj, !.map = map, !.stop = TRUE]
           whole == [s EXCEPT !.abObj = done, !.map = map, !.delta = left,
                              !.pl = [@ EXCEPT !.cur = i + 1, !.next = 0]]
           final == [s EXCEPT !.abObj = over, !.map = map, !.delta = left,
                              !.pl.cur = i + 1, !.stop = TRUE]
<1>10. PlaceAd(p, s, i)
         = IF i # s.pl.cur \/ s.delta = 0 \/ s.stop THEN s
           ELSE IF left < 0 THEN part
           ELSE IF i = Len(s.abObj.ads) /\ s.delta < Align THEN short
           ELSE IF ~(i = Len(s.abObj.ads)) THEN whole ELSE final
  BY ZenonT(40) DEF PlaceAd, abObj, map, left, base, first, done, Begun, Begins, Done
<1> HIDE DEF part, short, whole, final, over
<1>11. ASSUME left < 0 PROVE Covering(b, o, old, e, p, part)
  <2>1. s.pl.next + s.delta \in Nat /\ s.pl.next + s.delta <= s.abObj.ads[i].duration
    BY <1>2, <1>3, <1>11 DEF left, Rest
  <2>2. /\ part \in Work(M) /\ part.abObj = abObj /\ part.map = map
        /\ part.pl.brk = b /\ part.pl.open = s.pl.open
        /\ part.pl.counted = s.pl.counted /\ part.pl.cur = i
        /\ part.pl.next = s.pl.next + s.delta /\ part.delta = 0
    <3> DEFINE pl == [s.pl EXCEPT !.next = @ + s.delta]
    <3>1. /\ pl \in PlacementObj /\ pl.brk = b /\ pl.open = s.pl.open
          /\ pl.counted = s.pl.counted /\ pl.cur = i /\ pl.next = s.pl.next + s.delta
      BY <1>1, <1>2, <2>1 DEF PlacementObj
    <3>2. part = [s EXCEPT !.abObj = abObj, !.map = map, !.pl = pl, !.delta = 0]
      BY Zenon DEF part
    <3> HIDE DEF pl
    <3> QED BY <1>1, <1>4, <3>1, <3>2 DEF Work
  <2>3. AtAd(part.abObj, part.pl)
    <3>1. /\ Len(abObj.ads) = n /\ ~abObj.adjust
          /\ \A j \in 1..n : j < i => abObj.ads[j].placed
      BY <1>2, <1>3, <1>4, <1>5
    <3>2. abObj.ads[i].duration = s.abObj.ads[i].duration
      BY <1>2, <1>4 DEF SameAds
    <3>3. part.abObj = abObj /\ part.pl.cur = i /\ part.pl.next <= abObj.ads[i].duration
      BY <2>1, <2>2, <3>2
    <3> QED BY <1>2, <3>1, <3>3 DEF AtAd
  <2> QED BY <1>1, <1>2, <1>3, <1>4, <1>5, <1>6, <2>2, <2>3 DEF Covering, Placing
<1>12. Covering(b, o, old, e, p, short)
  <2>2. /\ short \in Work(M) /\ short.abObj = abObj /\ short.map = map
        /\ short.pl = s.pl /\ short.delta = s.delta /\ short.stop
    <3> HIDE DEF M
    <3>1. s \in Work(M) /\ abObj \in AdBreakObject /\ map \in [M -> Period2AdData]
      BY <1>1, <1>4
    <3>2. short = [s EXCEPT !.abObj = abObj, !.map = map, !.stop = TRUE]
      BY Zenon DEF short
    <3> QED BY <3>1, <3>2 DEF Work
  <2>3. AtAd(short.abObj, short.pl)
    <3>1. /\ Len(abObj.ads) = n /\ ~abObj.adjust
          /\ \A j \in 1..n : j < i => abObj.ads[j].placed
      BY <1>2, <1>3, <1>4, <1>5
    <3>2. abObj.ads[i].duration = s.abObj.ads[i].duration
      BY <1>2, <1>4 DEF SameAds
    <3>3. short.abObj = abObj /\ short.pl.cur = i /\ short.pl.next <= abObj.ads[i].duration
      BY <1>3, <2>2, <3>2
    <3> QED BY <1>2, <3>1, <3>3 DEF AtAd
  <2> QED BY <1>1, <1>2, <1>3, <1>4, <1>5, <1>6, <2>2, <2>3 DEF Covering, Placing
<1>13. ASSUME left >= 0, i # n PROVE Covering(b, o, old, e, p, whole)
  <2> DEFINE pl == [s.pl EXCEPT !.cur = i + 1, !.next = 0]
  <2>1. /\ pl \in PlacementObj /\ pl.brk = b /\ pl.open = s.pl.open
        /\ pl.counted = s.pl.counted /\ pl.cur = i + 1 /\ pl.next = 0
    <3>1. i + 1 \in Nat
      BY <1>2
    <3> QED BY <1>1, <1>2, <3>1, GoesOn
  <2>0. left \in Nat
    BY <1>7, <1>13
  <2>7. whole = [s EXCEPT !.abObj = done, !.map = map, !.delta = left, !.pl = pl]
    BY Zenon DEF whole
  <2> HIDE DEF pl
  <2>2. /\ whole \in Work(M) /\ whole.abObj = done /\ whole.map = map
        /\ whole.pl.brk = b /\ whole.pl.open = s.pl.open
        /\ whole.pl.counted = s.pl.counted /\ whole.pl.cur = i + 1
        /\ whole.pl.next = 0 /\ whole.delta = left
    BY <1>1, <1>4, <1>8, <2>0, <2>1, <2>7 DEF Work
  <2>3. /\ Len(done.ads) = n /\ i + 1 \in 1..n /\ done.ads[i + 1].duration \in Nat
    <3>1. Len(done.ads) = n
      BY <1>8 DEF SameAds
    <3>2. i + 1 \in 1..n
      BY <1>2, <1>13
    <3>3. done.ads \in Seq(Node)
      BY <1>8 DEF AdBreakObject
    <3>4. done.ads[i + 1] \in Node
      BY <3>1, <3>2, <3>3, ElementOfSeq
    <3> QED BY <3>1, <3>2, <3>4 DEF Node
  <2>4. AtAd(done, whole.pl)
    <3>1. ASSUME NEW j \in 1..n, j < i + 1 PROVE done.ads[j].placed
      <4>1. j # i => j < i
        BY <1>2, <3>1
      <4> QED BY <1>3, <1>8, <4>1
    <3> QED BY <1>2, <1>8, <2>2, <2>3, <3>1 DEF AtAd
  <2>5. EndKnown(done)
    <3>1. n \in 1..n /\ n # i
      BY <1>2, <1>13
    <3>2. done.ads[n].placed = s.abObj.ads[n].placed
      BY <1>8, <3>1
    <3>3. s.abObj.ads[n].placed => s.abObj.endPeriod # 0
      BY <1>1, <1>2, <3>1, EmptySeq DEF EndKnown
    <3>4. done.endPeriod = s.abObj.endPeriod
      BY <1>4, <1>8
    <3> QED BY <2>3, <3>2, <3>3, <3>4 DEF EndKnown
  <2> QED BY <1>1, <1>2, <1>4, <1>6, <1>7, <1>8, <2>2, <2>4, <2>5 DEF Covering, Placing
<1>14. ASSUME left >= 0, i = n PROVE Covering(b, o, old, e, p, final)
  <2>1. /\ p \in Periods /\ p # 0 /\ map[p].duration - left \in Nat
    BY <1>2, <1>1, <1>4, <1>7, <1>14, PeriodsAre
  <2>2. /\ over \in AdBreakObject /\ over.ads = done.ads /\ over.adjust
        /\ over.endPeriod = p /\ over.brkDuration = done.brkDuration
        /\ over.adsDuration = done.adsDuration
    BY <1>8, <2>1 DEF over, AdBreakObject
  <2> DEFINE pl == [s.pl EXCEPT !.cur = i + 1]
  <2>7. /\ pl \in PlacementObj /\ pl.brk = b /\ pl.open = s.pl.open
        /\ pl.counted = s.pl.counted /\ pl.cur = i + 1
    BY <1>1, <1>2 DEF PlacementObj
  <2>8. left \in Nat
    BY <1>7, <1>14
  <2>9. final = [s EXCEPT !.abObj = over, !.map = map, !.delta = left, !.pl = pl,
                          !.stop = TRUE]
    BY Zenon DEF final
  <2> HIDE DEF pl
  <2>3. /\ final \in Work(M) /\ final.abObj = over /\ final.map = map
        /\ final.pl.brk = b /\ final.pl.open = s.pl.open
        /\ final.pl.counted = s.pl.counted /\ final.pl.cur = i + 1
        /\ final.delta = left /\ final.stop
    BY <1>1, <1>4, <2>2, <2>7, <2>8, <2>9 DEF Work
  <2>4. SameAds(over, o) /\ Turn(b, over.ads) /\ Len(over.ads) = n
    BY <1>8, <2>2 DEF SameAds
  <2>5. AtAd(over, final.pl)
    <3>1. ASSUME NEW j \in 1..n, j < i + 1 PROVE over.ads[j].placed
      <4>1. j # i => j < i
        BY <1>2, <3>1
      <4> QED BY <1>3, <1>8, <2>2, <4>1
    <3> QED BY <1>2, <1>14, <2>1, <2>2, <2>3, <2>4, <3>1 DEF AtAd
  <2>6. EndKnown(over)
    BY <2>1, <2>2 DEF EndKnown
  <2> QED BY <1>1, <1>2, <1>4, <1>6, <1>7, <2>2, <2>3, <2>4, <2>5, <2>6 DEF Covering, Placing
<1> QED BY <1>2, <1>7, <1>10, <1>11, <1>12, <1>13, <1>14

-----------------------------------------------------------------------------
(* The placement over one period, and over all of them                      *)

LEMMA FoldAds ==
    ASSUME NEW p, NEW S, NEW base \in S, NEW n \in Nat,
           \A i \in 1..n, x \in S : PlaceAd(p, x, i) \in S
    PROVE  FoldLeft(LAMBDA t, i : PlaceAd(p, t, i), base, [i \in 1..n |-> i]) \in S
<1> DEFINE s == [i \in 1..n |-> i]
           F == [i \in 1..n |-> [x \in S |-> PlaceAd(p, x, i)]]
           G(it) == it = [t \in SUBSET (1..n) |-> IF t = {} THEN base
                             ELSE PlaceAd(p, it[t \ {Max(t)}], s[Max(t)])]
           f == CHOOSE it : G(it)
           fold == FoldLeft(LAMBDA t, i : PlaceAd(p, t, i), base, s)
<1>1. DOMAIN s = 1..n /\ \A i \in 1..n : s[i] = i
  OBVIOUS
<1> HIDE DEF s
<1>2. fold = f[1..n]
  BY <1>1 DEF FoldLeft, MapThenFoldSet
<1>3. PICK g : Tower(F, base, S, n, g)
  <2>1. Steps(F, S, n)
    BY DEF Steps
  <2> HIDE DEF F
  <2> QED BY <2>1, FoldIn
<1>4. \A t \in SUBSET (1..n) : t # {} => g[t] = PlaceAd(p, g[t \ {Max(t)}], s[Max(t)])
  BY <1>1, <1>3 DEF Tower
<1>5. G(g)
  <2>1. [t \in SUBSET (1..n) |-> g[t]]
          = [t \in SUBSET (1..n) |-> IF t = {} THEN base
               ELSE PlaceAd(p, g[t \ {Max(t)}], s[Max(t)])]
    BY <1>3, <1>4 DEF Tower
  <2> QED BY <1>3, <2>1 DEF Tower
<1>6. G(f)
  BY <1>5
<1> HIDE DEF f
<1>7. /\ f[{}] = base
      /\ \A t \in SUBSET (1..n) : t # {} => f[t] = PlaceAd(p, f[t \ {Max(t)}], s[Max(t)])
  BY <1>6
<1>8. \A t \in SUBSET (1..n) : f[t] \in S
  <2>1. ASSUME NEW t \in SUBSET (1..n), t # {}, f[t \ {Max(t)}] \in S PROVE f[t] \in S
    <3>1. Max(t) \in 1..n
      BY <2>1, LastOf
    <3> QED BY <1>1, <1>7, <2>1, <3>1
  <2>2. f[{}] \in S
    BY <1>7
  <2> QED BY <2>1, <2>2, FoldClosed
<1> QED BY <1>2, <1>8 DEF s

LEMMA Member ==
    ASSUME NEW b \in Breaks, NEW o \in AdBreakObject, NEW old, NEW e \in Nat, NEW s,
           Placing(b, o, old, e, s)
    PROVE  /\ s \in Work(Manifest(e)) /\ SameAds(s.abObj, o) /\ Turn(b, s.abObj.ads)
           /\ EndKnown(s.abObj) /\ AtAd(s.abObj, s.pl) /\ Marked(s.map, b, Len(o.ads))
           /\ Given(s.map, old, b) /\ s.pl.brk = b /\ s.pl.open # 0
           /\ s.pl.counted <= Duration(s.pl.open, e)
           /\ s.abObj \in AdBreakObject /\ s.map \in [Manifest(e) -> Period2AdData]
           /\ s.pl \in PlacementObj /\ s.found \in BOOLEAN /\ s.here \in BOOLEAN
           /\ Manifest(e) \subseteq Periods
           /\ Len(s.abObj.ads) = Len(o.ads) /\ Len(o.ads) \in Nat
           /\ \A q \in Manifest(e) : s.map[q] \in Period2AdData
  BY FirstPeriodIs, LenProperties DEF Placing, Work, SameAds, AdBreakObject

Fill(map, q) == [map EXCEPT ![q].filled = TRUE]

\* A period that is marked as filled, as far as the ads in it are concerned.
LEMMA Filled ==
    ASSUME NEW M, NEW map \in [M -> Period2AdData], NEW q
    PROVE  LET new == Fill(map, q)
           IN  /\ new \in [M -> Period2AdData]
               /\ \A r \in M : /\ new[r].adBreakId = map[r].adBreakId
                               /\ new[r].offset2Ad = map[r].offset2Ad
  BY DEF Period2AdData, Fill

LEMMA OpenPeriodPlaces ==
    ASSUME NEW b \in Breaks, NEW o \in AdBreakObject, NEW old, NEW e \in Nat,
           NEW p \in Manifest(e), NEW s, Placing(b, o, old, e, s)
    PROVE  LET t == OpenPeriod(e, s, p)
           IN  /\ Placing(b, o, old, e, t)
               /\ t.abObj = s.abObj
               /\ t.here => t.pl.open = p
<1> DEFINE M == Manifest(e)
           map == [s.map EXCEPT ![s.pl.open].filled = TRUE]
           pl == [s.pl EXCEPT !.open = p, !.counted = 0]
           found == [s EXCEPT !.found = TRUE, !.here = TRUE]
           next == [s EXCEPT !.map = map, !.pl = pl, !.here = TRUE]
           other == [s EXCEPT !.here = FALSE]
<1>1. /\ s \in Work(M) /\ SameAds(s.abObj, o) /\ Turn(b, s.abObj.ads)
      /\ EndKnown(s.abObj) /\ AtAd(s.abObj, s.pl) /\ Marked(s.map, b, Len(o.ads))
      /\ Given(s.map, old, b) /\ s.pl.brk = b /\ s.pl.open # 0
      /\ s.pl.counted <= Duration(s.pl.open, e)
      /\ s.map \in [M -> Period2AdData] /\ s.pl \in PlacementObj
      /\ p \in Periods /\ p # 0
  BY Member, PeriodsAre
<1>2. OpenPeriod(e, s, p) = IF s.pl.open = p THEN found
                            ELSE IF s.found /\ Duration(p, e) > 0 THEN next ELSE other
  BY Zenon DEF OpenPeriod
<1>3. /\ map \in [M -> Period2AdData]
      /\ \A r \in M : /\ map[r].adBreakId = s.map[r].adBreakId
                      /\ map[r].offset2Ad = s.map[r].offset2Ad
  <2> DEFINE m == s.map
  <2>1. m \in [M -> Period2AdData]
    BY <1>1
  <2> HIDE DEF m, M
  <2>2. /\ Fill(m, s.pl.open) \in [M -> Period2AdData]
        /\ \A r \in M : /\ Fill(m, s.pl.open)[r].adBreakId = m[r].adBreakId
                        /\ Fill(m, s.pl.open)[r].offset2Ad = m[r].offset2Ad
    BY <2>1, Filled
  <2> QED BY <2>2 DEF m, Fill
<1>4. /\ pl \in PlacementObj /\ pl.brk = b /\ pl.open = p /\ pl.counted = 0
      /\ pl.cur = s.pl.cur /\ pl.next = s.pl.next
  BY <1>1 DEF PlacementObj
<1> HIDE DEF map, pl
<1>5. Placing(b, o, old, e, found) /\ found.abObj = s.abObj /\ found.pl = s.pl
  <2>1. /\ found \in Work(M) /\ found.abObj = s.abObj /\ found.map = s.map
        /\ found.pl = s.pl
    BY <1>1 DEF Work
  <2> QED BY <1>1, <2>1 DEF Placing
<1>6. Placing(b, o, old, e, next) /\ next.abObj = s.abObj /\ next.pl.open = p
  <2>1. /\ next \in Work(M) /\ next.abObj = s.abObj /\ next.map = map /\ next.pl = pl
    BY <1>1, <1>3, <1>4 DEF Work
  <2>2. AtAd(s.abObj, pl)
    BY <1>1, <1>4 DEF AtAd
  <2>3. Marked(map, b, Len(o.ads)) /\ Given(map, old, b)
    BY <1>1, <1>3 DEF Marked, Given
  <2>4. 0 <= Duration(p, e)
    BY <1>1, DurationGrows
  <2> QED BY <1>1, <1>4, <2>1, <2>2, <2>3, <2>4 DEF Placing
<1>7. Placing(b, o, old, e, other) /\ other.abObj = s.abObj /\ ~other.here
  <2>1. /\ other \in Work(M) /\ other.abObj = s.abObj /\ other.map = s.map
        /\ other.pl = s.pl /\ ~other.here
    BY <1>1 DEF Work
  <2> QED BY <1>1, <2>1 DEF Placing
<1> QED BY <1>2, <1>5, <1>6, <1>7

\* A period without a break is given to the break, with the ad it is in.
GivenTo(data, b, v, delta) ==
  [(IF data.adBreakId = 0
    THEN [data EXCEPT !.adBreakId = b, !.offset2Ad = Put(@, 0, v)]
    ELSE data) EXCEPT !.duration = @ + delta]

LEMMA PeriodGiven ==
    ASSUME NEW b \in Breaks, NEW data \in Period2AdData, NEW v \in Start, NEW delta \in Nat,
           NEW n \in Nat, v.ad \in 1..n,
           \A k \in DOMAIN data.offset2Ad :
             data.adBreakId # 0 /\ (data.adBreakId = b => data.offset2Ad[k].ad \in 1..n)
    PROVE  LET new == GivenTo(data, b, v, delta)
           IN  /\ new \in Period2AdData /\ new.adBreakId # 0
               /\ new.adBreakId \in {data.adBreakId, b}
               /\ delta <= new.duration /\ new.duration = data.duration + delta
               /\ \A k \in DOMAIN new.offset2Ad :
                    new.adBreakId = b => new.offset2Ad[k].ad \in 1..n
<1> DEFINE starts == Put(data.offset2Ad, 0, v)
           given == IF data.adBreakId = 0
                    THEN [data EXCEPT !.adBreakId = b, !.offset2Ad = starts]
                    ELSE data
           new == [given EXCEPT !.duration = @ + delta]
<1>1. data.offset2Ad \in Starts /\ data.duration \in Nat /\ b # 0
  BY Constants DEF Period2AdData
<1>2. /\ starts \in Starts
      /\ DOMAIN starts = DOMAIN data.offset2Ad \cup {0}
      /\ starts[0] = v
      /\ \A x \in DOMAIN data.offset2Ad : x # 0 => starts[x] = data.offset2Ad[x]
  <2> DEFINE off == data.offset2Ad
  <2>1. off \in Starts /\ 0 \in Int
    BY <1>1
  <2> HIDE DEF off
  <2> QED BY <2>1, StartAdded DEF off
<1> HIDE DEF starts
<1>3. /\ given \in Period2AdData /\ given.adBreakId # 0
      /\ given.adBreakId \in {data.adBreakId, b}
      /\ given.duration = data.duration
  BY <1>1, <1>2 DEF Period2AdData
<1>4. ASSUME NEW k \in DOMAIN given.offset2Ad, given.adBreakId = b
      PROVE  given.offset2Ad[k].ad \in 1..n
  <2>1. CASE data.adBreakId # 0
    BY <2>1, <1>4
  <2>2. CASE data.adBreakId = 0
    <3>1. given.offset2Ad = starts
      BY <2>2 DEF Period2AdData
    <3>2. k = 0
      BY <1>2, <1>4, <2>2, <3>1
    <3> QED BY <1>2, <3>1, <3>2
  <2> QED BY <2>1, <2>2
<1> HIDE DEF given
<1>5. /\ new \in Period2AdData /\ new.adBreakId = given.adBreakId
      /\ new.offset2Ad = given.offset2Ad /\ new.duration = data.duration + delta
  BY <1>1, <1>3 DEF Period2AdData
<1>6. delta <= new.duration
  BY <1>1, <1>5
<1> QED BY <1>3, <1>4, <1>5, <1>6 DEF new, given, starts, GivenTo

\* The content of period p that is new is now being covered.
OpenedFor(e, t, p) ==
  LET delta == Duration(p, e) - t.pl.counted
      v == [ad |-> t.pl.cur, start |-> t.pl.next]
  IN  [t EXCEPT !.pl.counted = Duration(p, e),
                !.map[p] = GivenTo(t.map[p], t.pl.brk, v, delta),
                !.delta = delta, !.stop = FALSE]

LEMMA OpenedCovers ==
    ASSUME NEW b \in Breaks, NEW o \in AdBreakObject, NEW old, NEW e \in Nat,
           NEW p \in Manifest(e), NEW t, Placing(b, o, old, e, t),
           t.pl.open = p, ~t.abObj.adjust
    PROVE  Covering(b, o, old, e, p, OpenedFor(e, t, p))
<1> DEFINE M == Manifest(e)
           n == Len(o.ads)
           delta == Duration(p, e) - t.pl.counted
           v == [ad |-> t.pl.cur, start |-> t.pl.next]
           data == GivenTo(t.map[p], t.pl.brk, v, delta)
           opened == OpenedFor(e, t, p)
<1>1. /\ t \in Work(M) /\ SameAds(t.abObj, o) /\ Turn(b, t.abObj.ads)
      /\ EndKnown(t.abObj) /\ AtAd(t.abObj, t.pl) /\ Marked(t.map, b, n)
      /\ Given(t.map, old, b) /\ t.pl.brk = b /\ t.pl.open # 0
      /\ t.pl.counted <= Duration(t.pl.open, e)
      /\ t.map \in [M -> Period2AdData] /\ t.pl \in PlacementObj
      /\ n \in Nat /\ Len(t.abObj.ads) = n /\ t.map[p] \in Period2AdData
  BY Member
<1>2. Duration(p, e) \in Nat
  BY FirstPeriodIs, DurationGrows
<1>3. delta \in Nat
  BY <1>1, <1>2 DEF PlacementObj
<1>4. v \in Start /\ v.ad \in 1..n
  BY <1>1 DEF AtAd, PlacementObj, Start
<1>5. \A k \in DOMAIN t.map[p].offset2Ad :
        /\ t.map[p].adBreakId # 0
        /\ (t.map[p].adBreakId = b => t.map[p].offset2Ad[k].ad \in 1..n)
  BY <1>1 DEF Marked
<1>6. /\ data \in Period2AdData /\ data.adBreakId # 0
      /\ data.adBreakId \in {t.map[p].adBreakId, b}
      /\ delta <= data.duration
      /\ \A k \in DOMAIN data.offset2Ad :
           data.adBreakId = b => data.offset2Ad[k].ad \in 1..n
  <2> DEFINE d == t.map[p]
  <2>1. d \in Period2AdData
    BY <1>1
  <2>2. data = GivenTo(d, b, v, delta)
    BY <1>1
  <2> HIDE DEF d, delta, v, n, data
  <2>3. \A k \in DOMAIN d.offset2Ad :
          d.adBreakId # 0 /\ (d.adBreakId = b => d.offset2Ad[k].ad \in 1..n)
    BY <1>5 DEF d
  <2>4. n \in Nat
    BY <1>1
  <2>5. /\ data \in Period2AdData /\ data.adBreakId # 0
        /\ data.adBreakId \in {d.adBreakId, b}
        /\ delta <= data.duration
        /\ \A k \in DOMAIN data.offset2Ad :
             data.adBreakId = b => data.offset2Ad[k].ad \in 1..n
    BY <1>3, <1>4, <2>1, <2>2, <2>3, <2>4, PeriodGiven
  <2> QED BY <2>5 DEF d
<1> HIDE DEF data, delta
<1> DEFINE map == [t.map EXCEPT ![p] = data]
           pl == [t.pl EXCEPT !.counted = Duration(p, e)]
<1>7. opened = [t EXCEPT !.pl = pl, !.map = map, !.delta = delta, !.stop = FALSE]
  BY Zenon DEF OpenedFor, data, delta
<1>8. /\ map \in [M -> Period2AdData] /\ map[p] = data
      /\ \A q \in M : q # p => map[q] = t.map[q]
  BY <1>1, <1>6
<1>9. /\ pl \in PlacementObj /\ pl.brk = b /\ pl.open = p /\ pl.cur = t.pl.cur
      /\ pl.next = t.pl.next /\ pl.counted = Duration(p, e)
  BY <1>1, <1>2 DEF PlacementObj
<1> HIDE DEF map, pl, opened
<1>10. /\ opened \in Work(M) /\ opened.abObj = t.abObj /\ opened.map = map
      /\ opened.pl = pl /\ opened.delta = delta
  BY <1>1, <1>3, <1>7, <1>8, <1>9 DEF Work
<1>11. Marked(map, b, n)
  BY <1>1, <1>6, <1>8 DEF Marked
<1>12. Given(map, old, b)
  BY <1>1, <1>6, <1>8 DEF Given
<1>13. AtAd(t.abObj, pl)
  BY <1>1, <1>9 DEF AtAd
<1>14. p # 0
  BY FirstPeriodIs, PeriodsAre
<1>15. Placing(b, o, old, e, opened)
  BY <1>1, <1>2, <1>9, <1>10, <1>11, <1>12, <1>13, <1>14 DEF Placing
<1> QED BY <1>6, <1>8, <1>10, <1>15 DEF Covering, opened
LEMMA PlaceOnPeriodPlaces ==
    ASSUME NEW b \in Breaks, NEW o \in AdBreakObject, NEW old, NEW e \in Nat,
           NEW p \in Manifest(e), NEW s, Placing(b, o, old, e, s)
    PROVE  Placing(b, o, old, e, PlaceOnPeriod(e, s, p))
<1> DEFINE M == Manifest(e)
           n == Len(o.ads)
           t == OpenPeriod(e, s, p)
           opened == OpenedFor(e, t, p)
           fold == FoldLeft(LAMBDA x, i : PlaceAd(p, x, i), opened,
                            [i \in 1..Len(s.abObj.ads) |-> i])
<1>1. PlaceOnPeriod(e, s, p) = IF s.abObj.adjust THEN s ELSE IF ~t.here THEN t ELSE fold
  BY Zenon DEF PlaceOnPeriod, OpenedFor, GivenTo
<1>2. Placing(b, o, old, e, t) /\ t.abObj = s.abObj /\ (t.here => t.pl.open = p)
  BY OpenPeriodPlaces
<1> HIDE DEF t
<1>3. n \in Nat /\ Len(s.abObj.ads) = n
  BY Member
<1>4. ASSUME ~s.abObj.adjust, t.here PROVE Covering(b, o, old, e, p, opened)
  BY <1>2, <1>4, OpenedCovers
<1>5. ASSUME ~s.abObj.adjust, t.here PROVE Placing(b, o, old, e, fold)
  <2> DEFINE S == {x \in Work(M) : Covering(b, o, old, e, p, x)}
  <2>1. opened \in S
    <3> HIDE DEF opened
    <3> QED BY <1>4, <1>5 DEF Covering, Placing
  <2>2. ASSUME NEW i \in 1..n, NEW x \in S PROVE PlaceAd(p, x, i) \in S
    <3>1. Covering(b, o, old, e, p, PlaceAd(p, x, i))
      BY PlaceAdCovers
    <3> QED BY <3>1 DEF Covering, Placing
  <2> HIDE DEF S, opened, n
  <2>3. FoldLeft(LAMBDA x, i : PlaceAd(p, x, i), opened, [i \in 1..n |-> i]) \in S
    BY <1>3, <2>1, <2>2, FoldAds
  <2>4. fold \in S
    BY <1>3, <2>3
  <2> QED BY <2>4 DEF S, Covering
<1> QED BY <1>1, <1>2, <1>5

-----------------------------------------------------------------------------
(* PlaceAds as a whole                                                      *)

PlaceOn(e, t, p) == IF p \in Manifest(e) THEN PlaceOnPeriod(e, t, p) ELSE t

\* What PlaceAds works on before it has seen a period.
Unplaced(s) ==
  [abObj |-> s.adBreaks[s.placement.brk], map |-> s.periodMap, pl |-> s.placement,
   delta |-> 0, found |-> FALSE, here |-> FALSE, stop |-> FALSE]

\* After PlaceAds: the placement goes on, or is over.
Settles(b, o, old, e, s) ==
    /\ s \in Work(Manifest(e))
    /\ SameAds(s.abObj, o) /\ Turn(b, s.abObj.ads) /\ EndKnown(s.abObj)
    /\ Marked(s.map, b, Len(o.ads)) /\ Given(s.map, old, b)
    /\ s.pl.cur # 0 => Placing(b, o, old, e, s)

\* The end of the break is moved to period q.
Ended(abObj, q, offset) ==
  [abObj EXCEPT !.endPeriod = q, !.endOffset = offset, !.adjust = FALSE]

LEMMA EndedIs ==
    ASSUME NEW abObj \in AdBreakObject, NEW q \in Periods, NEW offset \in Nat
    PROVE  LET new == Ended(abObj, q, offset)
           IN  /\ new \in AdBreakObject /\ SameAds(new, abObj) /\ EndKnown(new)
               /\ new.ads = abObj.ads /\ ~new.adjust
<1>1. q # 0
  BY PeriodsAre
<1> DEFINE new == Ended(abObj, q, offset)
<1>2. /\ new \in AdBreakObject /\ new.ads = abObj.ads /\ ~new.adjust
      /\ new.brkDuration = abObj.brkDuration /\ new.adsDuration = abObj.adsDuration
      /\ new.endPeriod = q
  BY DEF Ended, AdBreakObject
<1> HIDE DEF new
<1> QED BY <1>1, <1>2 DEF SameAds, EndKnown, new

\* A cleared period belongs to no break, and no ad begins in it.
LEMMA Cleared ==
    ASSUME NEW M, NEW map \in [M -> Period2AdData], NEW q \in M
    PROVE  LET new == Put(map, q, NoData)
           IN  /\ new \in [M -> Period2AdData]
               /\ \A b, n : Marked(map, b, n) => Marked(new, b, n)
               /\ \A b, old : Given(map, old, b) => Given(new, old, b)
<1>1. NoData \in Period2AdData /\ NoData.adBreakId = 0 /\ DOMAIN NoData.offset2Ad = {}
  <2>1. << >> \in Starts /\ DOMAIN << >> = {}
    <3> DEFINE o == << >>
    <3>1. o \in Seq(Start) /\ Len(o) = 0
      BY EmptySeq
    <3>2. DOMAIN o = 1..Len(o) /\ o \in [1..Len(o) -> Start]
      BY <3>1, LenProperties
    <3>3. 1..0 = {}
      OBVIOUS
    <3> HIDE DEF o
    <3>4. DOMAIN o = {} /\ o \in [DOMAIN o -> Start]
      BY <3>1, <3>2, <3>3
    <3>5. o \in Starts
      BY <3>4, StartsAre
    <3> QED BY <3>4, <3>5 DEF o
  <2> QED BY <2>1 DEF NoData, Period2AdData
<1> DEFINE new == Put(map, q, NoData)
<1>2. /\ new \in [M -> Period2AdData] /\ new[q] = NoData
      /\ \A r \in M : r # q => new[r] = map[r]
  BY <1>1 DEF Put
<1> HIDE DEF new
<1>3. ASSUME NEW b, NEW n, Marked(map, b, n) PROVE Marked(new, b, n)
  BY <1>1, <1>2, <1>3 DEF Marked
<1>4. ASSUME NEW b, NEW old, Given(map, old, b) PROVE Given(new, old, b)
  BY <1>1, <1>2, <1>4 DEF Given
<1> QED BY <1>2, <1>3, <1>4 DEF new

LEMMA AdjustEndSettles ==
    ASSUME NEW b \in Breaks, NEW o \in AdBreakObject, NEW old, NEW e \in Nat, NEW t,
           Placing(b, o, old, e, t), t.abObj.adjust
    PROVE  LET s == AdjustEnd(e, t)
           IN  /\ s \in Work(Manifest(e))
               /\ SameAds(s.abObj, o) /\ Turn(b, s.abObj.ads) /\ EndKnown(s.abObj)
               /\ Marked(s.map, b, Len(o.ads)) /\ Given(s.map, old, b)
               /\ s.abObj.adjust => s = t
<1> DEFINE M == Manifest(e)
           n == Len(o.ads)
           p == t.abObj.endPeriod
           offset == t.abObj.endOffset
           settle(q, off, map) == [t EXCEPT !.abObj = Ended(t.abObj, q, off), !.map = map]
           Good(s) == /\ s \in Work(M)
                      /\ SameAds(s.abObj, o) /\ Turn(b, s.abObj.ads) /\ EndKnown(s.abObj)
                      /\ Marked(s.map, b, n) /\ Given(s.map, old, b)
                      /\ s.abObj.adjust => s = t
<1>1. /\ t \in Work(M) /\ SameAds(t.abObj, o) /\ Turn(b, t.abObj.ads)
      /\ EndKnown(t.abObj) /\ AtAd(t.abObj, t.pl) /\ Marked(t.map, b, n)
      /\ Given(t.map, old, b) /\ t.abObj \in AdBreakObject
      /\ t.map \in [M -> Period2AdData] /\ M \subseteq Periods
  BY Member
<1>2. p \in Periods /\ offset \in Nat
  <2>1. p # 0
    BY <1>1 DEF AtAd
  <2> QED BY <1>1, <2>1 DEF AdBreakObject
<1>3. ASSUME NEW q \in Periods, NEW off \in Nat, NEW map \in [M -> Period2AdData],
             Marked(map, b, n), Given(map, old, b)
      PROVE  Good(settle(q, off, map))
  <2> DEFINE a == Ended(t.abObj, q, off)
             s == settle(q, off, map)
  <2>1. /\ a \in AdBreakObject /\ SameAds(a, t.abObj) /\ EndKnown(a)
        /\ a.ads = t.abObj.ads /\ ~a.adjust
    BY <1>1, EndedIs
  <2>5. s = [t EXCEPT !.abObj = a, !.map = map]
    OBVIOUS
  <2> HIDE DEF a, s, M
  <2>2. s \in Work(M) /\ s.abObj = a /\ s.map = map
    BY <1>1, <2>1, <2>5 DEF Work
  <2> HIDE DEF s
  <2>3. SameAds(a, o)
    BY <1>1, <2>1, SameAdsChain
  <2>4. Turn(b, a.ads)
    BY <1>1, <2>1
  <2> QED BY <1>3, <2>1, <2>2, <2>3, <2>4 DEF s
<1>4. ASSUME NEW q \in M
      PROVE  LET map == Put(t.map, q, NoData)
             IN  map \in [M -> Period2AdData] /\ Marked(map, b, n) /\ Given(map, old, b)
  <2> DEFINE m == t.map
  <2>1. m \in [M -> Period2AdData] /\ Marked(m, b, n) /\ Given(m, old, b)
    BY <1>1
  <2> HIDE DEF m, M, n
  <2>2. /\ Put(m, q, NoData) \in [M -> Period2AdData]
        /\ \A c, k : Marked(m, c, k) => Marked(Put(m, q, NoData), c, k)
        /\ \A c, l : Given(m, l, c) => Given(Put(m, q, NoData), l, c)
    BY <2>1, Cleared
  <2> QED BY <2>1, <2>2 DEF m
<1> DEFINE s1 == settle(p, offset, t.map)
           s2 == settle(p, 0, Put(t.map, p, NoData))
           s3 == settle(p + 1, 0, Put(t.map, p + 1, NoData))
<1>5. AdjustEnd(e, t) = IF p \notin M THEN s1
                        ELSE IF NearStart(t.abObj) THEN s2
                        ELSE IF ~NearEnd(t.abObj, e) THEN s1
                        ELSE IF p + 1 \in M THEN s3 ELSE t
  BY Zenon DEF AdjustEnd, Ended
<1>6. Good(s1)
  <2> DEFINE m == t.map
  <2>1. m \in [M -> Period2AdData] /\ Marked(m, b, n) /\ Given(m, old, b)
    BY <1>1
  <2> HIDE DEF m, M, n, settle, Good, p, offset
  <2>2. Good(settle(p, offset, m))
    BY <1>2, <1>3, <2>1
  <2> QED BY <2>2 DEF m
<1>7. ASSUME p \in M PROVE Good(s2)
  BY ZenonT(90), <1>2, <1>3, <1>4, <1>7
<1>8. ASSUME p + 1 \in M PROVE Good(s3)
  BY ZenonT(90), <1>1, <1>3, <1>4, <1>8
<1>9. Good(t)
  BY <1>1
<1> HIDE DEF s1, s2, s3, Good
<1>10. Good(AdjustEnd(e, t))
  BY <1>5, <1>6, <1>7, <1>8, <1>9
<1> QED BY <1>10 DEF Good

LEMMA SettledSettles ==
    ASSUME NEW b \in Breaks, NEW o \in AdBreakObject, NEW old, NEW e \in Nat, NEW t,
           Placing(b, o, old, e, t)
    PROVE  Settles(b, o, old, e, Settled(e, t))
<1>1. CASE ~t.abObj.adjust
  <2>1. Settled(e, t) = t
    BY <1>1 DEF Settled
  <2>2. /\ t \in Work(Manifest(e)) /\ SameAds(t.abObj, o) /\ Turn(b, t.abObj.ads)
        /\ EndKnown(t.abObj) /\ Marked(t.map, b, Len(o.ads)) /\ Given(t.map, old, b)
    BY Member
  <2> QED BY <2>1, <2>2 DEF Settles
<1>2. CASE t.abObj.adjust
  <2> DEFINE s == AdjustEnd(e, t)
             cur == IF s.abObj.adjust THEN s.pl.cur ELSE 0
             r == [s EXCEPT !.pl.cur = cur]
  <2>1. /\ s \in Work(Manifest(e))
        /\ SameAds(s.abObj, o) /\ Turn(b, s.abObj.ads) /\ EndKnown(s.abObj)
        /\ Marked(s.map, b, Len(o.ads)) /\ Given(s.map, old, b)
        /\ s.abObj.adjust => s = t
    BY <1>2, AdjustEndSettles
  <2>2. Settled(e, t) = r
    BY <1>2, Zenon DEF Settled
  <2> HIDE DEF s
  <2>3. cur \in Nat /\ (~s.abObj.adjust => cur = 0)
    BY <2>1 DEF Work, PlacementObj
  <2> HIDE DEF cur
  <2>4. /\ r \in Work(Manifest(e)) /\ r.abObj = s.abObj /\ r.map = s.map
        /\ r.pl.cur = cur
    BY <2>1, <2>3 DEF Work, PlacementObj
  <2>5. s.abObj.adjust => r = t
    <3>1. s.abObj.adjust => cur = s.pl.cur
      BY DEF cur
    <3>2. s.abObj.adjust => r = s
      BY <2>1, <3>1 DEF Work, PlacementObj
    <3> QED BY <2>1, <3>2
  <2> HIDE DEF r
  <2> QED BY <2>1, <2>2, <2>3, <2>4, <2>5 DEF Settles
<1> QED BY <1>1, <1>2

-----------------------------------------------------------------------------
(* Where the ads lie                                                        *)

\* What is placed was begun, and nothing begins before the ads in front of it end.
Laid(ads) ==
    /\ \A i \in 1..Len(ads) : ads[i].placed => ads[i].basePeriod # 0
    /\ \A i, j \in 1..Len(ads) :
         j < i /\ ads[i].basePeriod # 0 => EndOf(ads[j]) <= BeginOf(ads[i])

\* The break ends behind its ads.
Closed(abObj) ==
    /\ abObj.endOffset <= PeriodLength[abObj.endPeriod]
    /\ \A j \in 1..Len(abObj.ads) :
         abObj.ads[j].placed => EndOf(abObj.ads[j]) <= At(abObj.endPeriod, abObj.endOffset)

\* All that is placed lies in front of c, and so does what is begun.
Behind(abObj, pl, c) ==
    IF abObj.adjust THEN Closed(abObj)
    ELSE /\ abObj.endPeriod = 0
         /\ \A j \in 1..Len(abObj.ads) : IF j < pl.cur THEN EndOf(abObj.ads[j]) <= c
                                         ELSE ~abObj.ads[j].placed
         /\ IF abObj.ads[pl.cur].basePeriod # 0
            THEN BeginOf(abObj.ads[pl.cur]) + pl.next <= c ELSE pl.next = 0

\* An ad on the base timeline.
LEMMA AdLies ==
    ASSUME NEW ads \in Seq(Node), NEW i \in 1..Len(ads)
    PROVE  /\ ads[i] \in Node /\ ads[i].duration \in Nat /\ ads[i].baseOffset \in Nat
           /\ ads[i].basePeriod \in Periods \cup {0}
           /\ ads[i].basePeriod # 0 =>
                /\ ads[i].basePeriod \in Periods /\ BeginOf(ads[i]) \in Nat
                /\ EndOf(ads[i]) \in Nat /\ EndOf(ads[i]) = BeginOf(ads[i]) + ads[i].duration
<1>1. ads[i] \in Node
  BY ElementOfSeq
<1>2. /\ ads[i].duration \in Nat /\ ads[i].baseOffset \in Nat
      /\ ads[i].basePeriod \in Periods \cup {0}
  BY <1>1 DEF Node
<1>3. ASSUME ads[i].basePeriod # 0
      PROVE  ads[i].basePeriod \in Periods /\ StartOf[ads[i].basePeriod] \in Nat
  BY <1>2, <1>3, PeriodsAre
<1>4. ASSUME ads[i].basePeriod # 0 PROVE BeginOf(ads[i]) \in Nat
  BY <1>2, <1>3, <1>4 DEF BeginOf, At
<1> QED BY <1>1, <1>2, <1>3, <1>4 DEF EndOf

LEMMA BehindLater ==
    ASSUME NEW abObj \in AdBreakObject, Laid(abObj.ads), NEW pl \in PlacementObj,
           AtAd(abObj, pl), NEW c \in Nat, NEW d \in Nat, c <= d, Behind(abObj, pl, c)
    PROVE  Behind(abObj, pl, d)
<1>1. abObj.ads \in Seq(Node) /\ pl.cur \in Nat /\ pl.next \in Nat
  BY DEF AdBreakObject, PlacementObj
<1>2. CASE abObj.adjust
  BY <1>2 DEF Behind
<1>3. CASE ~abObj.adjust
  <2>1. pl.cur \in 1..Len(abObj.ads)
    BY <1>1, <1>3 DEF AtAd
  <2>2. ASSUME NEW j \in 1..Len(abObj.ads), j < pl.cur PROVE EndOf(abObj.ads[j]) <= d
    <3>1. abObj.ads[j].basePeriod # 0
      BY <2>2 DEF AtAd, Laid
    <3>2. EndOf(abObj.ads[j]) \in Nat
      BY <1>1, <3>1, AdLies
    <3> QED BY <1>3, <2>2, <3>2 DEF Behind
  <2>3. ASSUME abObj.ads[pl.cur].basePeriod # 0
        PROVE  BeginOf(abObj.ads[pl.cur]) + pl.next <= d
    <3>1. BeginOf(abObj.ads[pl.cur]) \in Nat
      BY <1>1, <2>1, <2>3, AdLies
    <3> QED BY <1>1, <1>3, <2>3, <3>1 DEF Behind
  <2> QED BY <1>3, <2>2, <2>3 DEF Behind
<1> QED BY <1>2, <1>3

LEMMA BegunAds ==
    ASSUME NEW abObj \in AdBreakObject, NEW i \in 1..Len(abObj.ads),
           NEW p \in Periods, NEW base \in Nat
    PROVE  LET new == Begun(abObj, i, p, base)
           IN  /\ new.ads \in Seq(Node) /\ Len(new.ads) = Len(abObj.ads)
               /\ new.ads[i].basePeriod = p /\ new.ads[i].baseOffset = base
               /\ new.ads[i].placed = abObj.ads[i].placed
               /\ new.ads[i].duration = abObj.ads[i].duration
               /\ \A j \in 1..Len(abObj.ads) : j # i => new.ads[j] = abObj.ads[j]
               /\ new.adjust = abObj.adjust /\ new.endPeriod = abObj.endPeriod
               /\ new.endOffset = abObj.endOffset
<1> DEFINE new == [abObj EXCEPT !.ads[i] = [@ EXCEPT !.basePeriod = p, !.baseOffset = base]]
           n == Len(abObj.ads)
           node == [abObj.ads[i] EXCEPT !.basePeriod = p, !.baseOffset = base]
<1>1. /\ abObj.ads \in Seq(Node) /\ n \in Nat /\ i \in Nat /\ abObj.ads[i] \in Node
      /\ abObj.ads \in [1..n -> Node]
  BY LenProperties DEF AdBreakObject
<1>2. /\ node \in Node /\ node.basePeriod = p /\ node.baseOffset = base
      /\ node.placed = abObj.ads[i].placed /\ node.duration = abObj.ads[i].duration
  BY <1>1 DEF Node
<1>3. /\ new.ads = [abObj.ads EXCEPT ![i] = node] /\ new.adjust = abObj.adjust
      /\ new.endPeriod = abObj.endPeriod /\ new.endOffset = abObj.endOffset
  BY <1>1 DEF AdBreakObject
<1>4. /\ new.ads \in Seq(Node) /\ Len(new.ads) = n /\ new.ads[i] = node
      /\ \A j \in 1..n : j # i => new.ads[j] = abObj.ads[j]
  BY <1>1, <1>2, <1>3, NodeSet
<1> HIDE DEF node, new
<1> QED BY <1>2, <1>3, <1>4 DEF new, Begun

LEMMA DoneAds ==
    ASSUME NEW abObj \in AdBreakObject, NEW i \in 1..Len(abObj.ads)
    PROVE  LET new == Done(abObj, i)
           IN  /\ new.ads \in Seq(Node) /\ Len(new.ads) = Len(abObj.ads)
               /\ new.adjust = abObj.adjust /\ new.endPeriod = abObj.endPeriod
               /\ \A j \in 1..Len(abObj.ads) :
                    /\ new.ads[j].basePeriod = abObj.ads[j].basePeriod
                    /\ EndOf(new.ads[j]) = EndOf(abObj.ads[j])
                    /\ BeginOf(new.ads[j]) = BeginOf(abObj.ads[j])
                    /\ j # i => new.ads[j].placed = abObj.ads[j].placed
<1> DEFINE new == [abObj EXCEPT !.ads[i].placed = TRUE]
           n == Len(abObj.ads)
           node == [abObj.ads[i] EXCEPT !.placed = TRUE]
<1>1. /\ abObj.ads \in Seq(Node) /\ n \in Nat /\ i \in Nat /\ abObj.ads[i] \in Node
      /\ abObj.ads \in [1..n -> Node]
  BY LenProperties DEF AdBreakObject
<1>2. /\ node \in Node /\ node.basePeriod = abObj.ads[i].basePeriod
      /\ node.baseOffset = abObj.ads[i].baseOffset
      /\ node.duration = abObj.ads[i].duration
  BY <1>1 DEF Node
<1>3. /\ new.ads = [abObj.ads EXCEPT ![i] = node] /\ new.adjust = abObj.adjust
      /\ new.endPeriod = abObj.endPeriod
  BY <1>1 DEF AdBreakObject
<1>4. /\ new.ads \in Seq(Node) /\ Len(new.ads) = n /\ new.ads[i] = node
      /\ \A j \in 1..n : j # i => new.ads[j] = abObj.ads[j]
  BY <1>1, <1>2, <1>3, NodeSet
<1> HIDE DEF node, new
<1>5. \A j \in 1..n : /\ new.ads[j].basePeriod = abObj.ads[j].basePeriod
                      /\ new.ads[j].baseOffset = abObj.ads[j].baseOffset
                      /\ new.ads[j].duration = abObj.ads[j].duration
                      /\ j # i => new.ads[j].placed = abObj.ads[j].placed
  BY <1>2, <1>4
<1> QED BY <1>3, <1>4, <1>5 DEF new, Done, EndOf, BeginOf

\* An ad that begins at c begins behind the others.
LEMMA BegunLies ==
    ASSUME NEW b \in Breaks, NEW abObj \in AdBreakObject, Turn(b, abObj.ads),
           Laid(abObj.ads), NEW pl \in PlacementObj, AtAd(abObj, pl), ~abObj.adjust,
           NEW p \in Periods, NEW base \in Nat, abObj.ads[pl.cur].basePeriod = 0,
           Behind(abObj, pl, At(p, base))
    PROVE  LET new == Begun(abObj, pl.cur, p, base)
           IN  /\ Laid(new.ads) /\ Behind(new, pl, At(p, base))
               /\ new.ads[pl.cur].basePeriod # 0
<1> DEFINE i == pl.cur
           n == Len(abObj.ads)
           c == At(p, base)
           new == Begun(abObj, i, p, base)
<1>1. abObj.ads \in Seq(Node) /\ n \in Nat /\ i \in Nat /\ i \in 1..n /\ pl.next \in Nat
  BY LenProperties DEF AdBreakObject, PlacementObj, AtAd
<1>2. /\ Len(new.ads) = n
      /\ new.ads[i].basePeriod = p /\ new.ads[i].baseOffset = base
      /\ new.ads[i].placed = abObj.ads[i].placed
      /\ \A j \in 1..n : j # i => new.ads[j] = abObj.ads[j]
      /\ new.adjust = abObj.adjust /\ new.endPeriod = abObj.endPeriod
  BY <1>1, BegunAds
<1>3. c \in Nat /\ p # 0
  BY PeriodsAre DEF At
<1>4. /\ abObj.endPeriod = 0 /\ pl.next = 0
      /\ \A j \in 1..n : j < i => EndOf(abObj.ads[j]) <= c
      /\ \A j \in 1..n : ~(j < i) => ~abObj.ads[j].placed
  BY DEF Behind
<1>5. BeginOf(new.ads[i]) = c
  BY <1>2 DEF BeginOf
<1> HIDE DEF new, c, i, n
<1>6. ASSUME NEW j \in 1..n, new.ads[j].placed PROVE new.ads[j].basePeriod # 0
  BY <1>1, <1>2, <1>3, <1>6 DEF Laid, n
<1>7. ASSUME NEW k \in 1..n, NEW j \in 1..n, j < k, new.ads[k].basePeriod # 0
      PROVE  EndOf(new.ads[j]) <= BeginOf(new.ads[k])
  <2>1. CASE k = i
    BY <1>2, <1>4, <1>5, <1>7, <2>1
  <2>2. CASE k # i /\ j # i
    BY <1>2, <1>7, <2>2 DEF Laid, n
  <2>3. CASE k # i /\ j = i
    <3>1. abObj.ads[k].basePeriod # 0
      BY <1>2, <1>7, <2>3
    <3>2. abObj.ads[i].placed
      BY <1>1, <1>7, <2>3, <3>1 DEF Turn, n
    <3> QED BY <1>1, <1>4, <3>2
  <2> QED BY <2>1, <2>2, <2>3
<1>8. Laid(new.ads)
  BY <1>2, <1>6, <1>7 DEF Laid
<1>9. Behind(new, pl, c)
  <2>1. \A j \in 1..n : IF j < i THEN EndOf(new.ads[j]) <= c ELSE ~new.ads[j].placed
    BY <1>1, <1>2, <1>4
  <2>2. BeginOf(new.ads[i]) + pl.next <= c
    BY <1>3, <1>4, <1>5
  <2> QED BY <1>2, <1>3, <1>4, <2>1, <2>2 DEF Behind, i
<1> QED BY <1>2, <1>3, <1>8, <1>9 DEF new, c, i, n

\* A part of the ad is placed.
LEMMA PartLies ==
    ASSUME NEW abObj \in AdBreakObject, Laid(abObj.ads), NEW pl \in PlacementObj,
           AtAd(abObj, pl), ~abObj.adjust, abObj.ads[pl.cur].basePeriod # 0,
           NEW c \in Nat, NEW d \in Nat, Behind(abObj, pl, c),
           NEW new, new.cur = pl.cur, new.next = pl.next + d
    PROVE  Behind(abObj, new, c + d)
<1> DEFINE i == pl.cur
           ads == abObj.ads
<1>1. /\ ads \in Seq(Node) /\ Len(ads) \in Nat /\ i \in Nat /\ i \in 1..Len(ads)
      /\ pl.next \in Nat /\ c + d \in Nat /\ c <= c + d
  BY LenProperties DEF AdBreakObject, PlacementObj, AtAd
<1>2. Behind(abObj, pl, c + d)
  BY <1>1, BehindLater
<1>3. BeginOf(ads[i]) \in Nat /\ BeginOf(ads[i]) + pl.next <= c
  BY <1>1, AdLies DEF Behind
<1>4. BeginOf(ads[i]) + (pl.next + d) <= c + d
  BY <1>1, <1>3
<1> QED BY <1>2, <1>4 DEF Behind

\* The rest of the ad is placed.
LEMMA WholeLies ==
    ASSUME NEW b \in Breaks, NEW abObj \in AdBreakObject, Turn(b, abObj.ads),
           Laid(abObj.ads), NEW pl \in PlacementObj,
           AtAd(abObj, pl), ~abObj.adjust, abObj.ads[pl.cur].basePeriod # 0,
           NEW c \in Nat, Behind(abObj, pl, c)
    PROVE  LET i == pl.cur
               done == Done(abObj, i)
               d == c + (abObj.ads[i].duration - pl.next)
           IN  /\ d \in Nat /\ c <= d /\ Laid(done.ads)
               /\ \A j \in 1..Len(abObj.ads) :
                    IF j < i + 1 THEN EndOf(done.ads[j]) <= d ELSE ~done.ads[j].placed
               /\ i < Len(abObj.ads) => done.ads[i + 1].basePeriod = 0
<1> DEFINE i == pl.cur
           n == Len(abObj.ads)
           ads == abObj.ads
           done == Done(abObj, i)
           d == c + (ads[i].duration - pl.next)
<1>1. /\ ads \in Seq(Node) /\ n \in Nat /\ i \in Nat /\ i \in 1..n
      /\ pl.next \in Nat /\ pl.next <= ads[i].duration
  BY LenProperties DEF AdBreakObject, PlacementObj, AtAd
<1>2. /\ ads[i].duration \in Nat /\ BeginOf(ads[i]) \in Nat
      /\ EndOf(ads[i]) = BeginOf(ads[i]) + ads[i].duration
      /\ BeginOf(ads[i]) + pl.next <= c
  BY <1>1, AdLies DEF Behind
<1>3. d \in Nat /\ c <= d /\ EndOf(ads[i]) <= d
  <2> DEFINE x == BeginOf(ads[i])
             y == ads[i].duration
             z == pl.next
  <2>1. /\ x \in Nat /\ y \in Nat /\ z \in Nat /\ z <= y /\ x + z <= c
        /\ EndOf(ads[i]) = x + y /\ d = c + (y - z)
    BY <1>1, <1>2
  <2> HIDE DEF x, y, z, d
  <2> QED BY <2>1
<1>4. /\ \A j \in 1..n : j < i => EndOf(ads[j]) <= c
      /\ \A j \in 1..n : ~(j < i) => ~ads[j].placed
  BY DEF Behind
<1>5. /\ Len(done.ads) = n
      /\ \A j \in 1..n : /\ done.ads[j].basePeriod = ads[j].basePeriod
                         /\ EndOf(done.ads[j]) = EndOf(ads[j])
                         /\ BeginOf(done.ads[j]) = BeginOf(ads[j])
                         /\ j # i => done.ads[j].placed = ads[j].placed
  BY <1>1, DoneAds
<1> HIDE DEF done, d
<1>6. Laid(done.ads)
  <2>1. \A j \in 1..n : done.ads[j].placed => done.ads[j].basePeriod # 0
    BY <1>5 DEF Laid
  <2> QED BY <1>5, <2>1 DEF Laid
<1>7. ASSUME NEW j \in 1..n, j < i + 1 PROVE EndOf(done.ads[j]) <= d
  <2>1. CASE j = i
    BY <1>3, <1>5, <2>1
  <2>2. CASE j # i
    <3>1. j < i /\ ads[j].basePeriod # 0
      BY <1>1, <1>7, <2>2 DEF AtAd, Laid
    <3>2. EndOf(ads[j]) \in Nat
      BY <1>1, <3>1, AdLies
    <3>3. EndOf(ads[j]) <= d
      BY <1>3, <1>4, <3>1, <3>2
    <3> QED BY <1>5, <3>3
  <2> QED BY <2>1, <2>2
<1>8. ASSUME NEW j \in 1..n, ~(j < i + 1) PROVE ~done.ads[j].placed
  BY <1>1, <1>4, <1>5, <1>8
<1>9. ASSUME i < n PROVE done.ads[i + 1].basePeriod = 0
  <2>1. i + 1 \in 1..n /\ i < i + 1 /\ ~(i < i)
    BY <1>1, <1>9
  <2>2. ~ads[i].placed
    BY <1>1, <1>4, <2>1
  <2>3. ads[i + 1].basePeriod = 0
    BY <1>1, <2>1, <2>2 DEF Turn
  <2> QED BY <1>5, <2>1, <2>3
<1> QED BY <1>3, <1>6, <1>7, <1>8, <1>9 DEF done, d

\* The last ad of a break is placed at the offset of period p.
Over(abObj, p, offset) ==
  [abObj EXCEPT !.endPeriod = p, !.endOffset = offset, !.adjust = TRUE]

BeginsIn(abObj, i, p, base) ==
  IF abObj.ads[i].basePeriod = 0 THEN Begun(abObj, i, p, base) ELSE abObj

\* The cases of one turn: a part of the ad, less than Align left, the whole ad, the last.
Turned(s, r, i, n, p, abObj, left) ==
    \/ /\ left < 0 /\ r.abObj = abObj /\ r.delta = 0
       /\ r.pl.cur = i /\ r.pl.next = s.pl.next + s.delta
    \/ r.abObj = abObj /\ r.delta = s.delta /\ r.pl.cur = i /\ r.pl.next = s.pl.next
    \/ /\ left >= 0 /\ i # n /\ r.abObj = Done(abObj, i) /\ r.delta = left
       /\ r.pl.cur = i + 1 /\ r.pl.next = 0
    \/ /\ left >= 0 /\ i = n /\ r.delta = left
       /\ r.abObj = Over(Done(abObj, i), p, s.map[p].duration - left)

Turns(M, s, r, i, n, p, abObj, left) ==
    /\ DOMAIN r.map = M
    /\ \A q \in M : r.map[q].duration = s.map[q].duration
    /\ r.pl.open = s.pl.open /\ r.pl.counted = s.pl.counted
    /\ Turned(s, r, i, n, p, abObj, left)

LEMMA PlaceAdTurns ==
    ASSUME NEW b \in Breaks, NEW o \in AdBreakObject, NEW old, NEW e \in Nat,
           NEW p \in Manifest(e), NEW s, Covering(b, o, old, e, p, s),
           NEW i \in 1..Len(o.ads), i = s.pl.cur, s.delta # 0, ~s.stop
    PROVE  LET base == s.map[p].duration - s.delta
           IN  Turns(Manifest(e), s, PlaceAd(p, s, i), i, Len(o.ads), p,
                     BeginsIn(s.abObj, i, p, base), s.delta - Rest(s, i))
<1> DEFINE M == Manifest(e)
           n == Len(o.ads)
           r == PlaceAd(p, s, i)
           base == s.map[p].duration - s.delta
           first == s.abObj.ads[i].basePeriod = 0
           abObj == BeginsIn(s.abObj, i, p, base)
           map == IF first THEN Begins(s.map, i, p, base) ELSE s.map
           left == s.delta - Rest(s, i)
           done == Done(abObj, i)
           over == Over(done, p, map[p].duration - left)
           Result(x) == /\ DOMAIN x.map = M
                        /\ \A q \in M : x.map[q].duration = s.map[q].duration
                        /\ x.pl.open = s.pl.open /\ x.pl.counted = s.pl.counted
                        /\ Turned(s, x, i, n, p, abObj, left)
<1>1. /\ s \in Work(M) /\ Len(s.abObj.ads) = n /\ s.pl \in PlacementObj
      /\ s.map \in [M -> Period2AdData] /\ s.delta \in Nat /\ s.pl.next \in Nat
      /\ s.abObj.ads[i].duration \in Nat /\ s.pl.next <= s.abObj.ads[i].duration
  <2>1. /\ s \in Work(M) /\ SameAds(s.abObj, o) /\ AtAd(s.abObj, s.pl)
        /\ (s.stop \/ ~s.abObj.adjust)
    BY DEF Covering, Placing
  <2>2. /\ s.abObj \in AdBreakObject /\ Len(s.abObj.ads) = n /\ s.pl \in PlacementObj
        /\ s.map \in [M -> Period2AdData] /\ s.delta \in Nat /\ s.pl.next \in Nat
    BY <2>1 DEF Work, SameAds, PlacementObj
  <2>3. s.abObj.ads[i].duration \in Nat
    BY <2>2, AdLies DEF AdBreakObject
  <2> QED BY <2>1, <2>2, <2>3 DEF AtAd
<1>2. DOMAIN map = M /\ \A q \in M : map[q].duration = s.map[q].duration
  <2>1. CASE ~first
    BY <1>1, <2>1
  <2>2. CASE first
    <3> DEFINE m == s.map
               starts == Put(m[p].offset2Ad, OffsetKey(base), [ad |-> i, start |-> 0])
    <3>1. map = [m EXCEPT ![p].offset2Ad = starts] /\ m \in [M -> Period2AdData]
      BY <1>1, <2>2 DEF Begins
    <3> HIDE DEF starts, m, map
    <3>2. DOMAIN map = M /\ \A q \in M : map[q].duration = m[q].duration
      BY <3>1 DEF Period2AdData
    <3> QED BY <3>2 DEF m
  <2> QED BY <2>1, <2>2
<1>3. map[p].duration = s.map[p].duration
  BY <1>2
<1> DEFINE part == [s EXCEPT !.abObj = abObj, !.map = map,
                             !.pl.next = @ + s.delta, !.delta = 0]
           short == [s EXCEPT !.abObj = abObj, !.map = map, !.stop = TRUE]
           whole == [s EXCEPT !.abObj = done, !.map = map, !.delta = left,
                              !.pl = [@ EXCEPT !.cur = i + 1, !.next = 0]]
           final == [s EXCEPT !.abObj = over, !.map = map, !.delta = left,
                              !.pl.cur = i + 1, !.stop = TRUE]
<1>4. r = IF i # s.pl.cur \/ s.delta = 0 \/ s.stop THEN s
          ELSE IF left < 0 THEN part
          ELSE IF i = Len(s.abObj.ads) /\ s.delta < Align THEN short
          ELSE IF ~(i = Len(s.abObj.ads)) THEN whole ELSE final
  BY ZenonT(60) DEF PlaceAd, BeginsIn, Begun, Begins, Done, Over
<1>0. left \in Int
  <2> DEFINE x == s.abObj.ads[i].duration
             y == s.pl.next
             z == s.delta
  <2>1. x \in Nat /\ y \in Nat /\ z \in Nat
    BY <1>1
  <2>2. left = z - (x - y)
    BY DEF Rest
  <2> HIDE DEF x, y, z, left
  <2> QED BY <2>1, <2>2
<1> HIDE DEF abObj, map, left, done, over, M, n, r
<1>5. ASSUME left < 0 PROVE Result(part)
  <2> DEFINE pl == [s.pl EXCEPT !.next = @ + s.delta]
  <2>1. /\ pl.open = s.pl.open /\ pl.counted = s.pl.counted /\ pl.cur = i
        /\ pl.next = s.pl.next + s.delta
    BY <1>1 DEF PlacementObj
  <2>2. part = [s EXCEPT !.abObj = abObj, !.map = map, !.pl = pl, !.delta = 0]
    BY Zenon
  <2> HIDE DEF pl, part
  <2>3. part.abObj = abObj /\ part.map = map /\ part.pl = pl /\ part.delta = 0
    BY <1>1, <2>2 DEF Work
  <2> QED BY <1>2, <1>5, <2>1, <2>3 DEF Turned
<1>6. Result(short)
  <2> HIDE DEF short
  <2>1. short.abObj = abObj /\ short.map = map /\ short.pl = s.pl /\ short.delta = s.delta
    BY <1>1 DEF Work, short
  <2> QED BY <1>2, <2>1 DEF Turned
<1>7. ASSUME left >= 0, i # n PROVE Result(whole)
  <2> DEFINE pl == [s.pl EXCEPT !.cur = i + 1, !.next = 0]
  <2>1. pl.open = s.pl.open /\ pl.counted = s.pl.counted /\ pl.cur = i + 1 /\ pl.next = 0
    BY <1>1 DEF PlacementObj
  <2>2. whole = [s EXCEPT !.abObj = done, !.map = map, !.delta = left, !.pl = pl]
    BY Zenon
  <2> HIDE DEF pl, whole
  <2>3. whole.abObj = done /\ whole.map = map /\ whole.pl = pl /\ whole.delta = left
    BY <1>1, <2>2 DEF Work
  <2> QED BY <1>2, <1>7, <2>1, <2>3 DEF Turned, done
<1>8. ASSUME left >= 0, i = n PROVE Result(final)
  <2> DEFINE pl == [s.pl EXCEPT !.cur = i + 1]
  <2>1. pl.open = s.pl.open /\ pl.counted = s.pl.counted
    BY <1>1 DEF PlacementObj
  <2>2. final = [s EXCEPT !.abObj = over, !.map = map, !.delta = left, !.pl = pl,
                          !.stop = TRUE]
    BY Zenon
  <2> HIDE DEF pl, final
  <2>3. final.abObj = over /\ final.map = map /\ final.pl = pl /\ final.delta = left
    BY <1>1, <2>2 DEF Work
  <2>4. over = Over(Done(abObj, i), p, s.map[p].duration - left)
    BY <1>3 DEF over, done
  <2> QED BY <1>2, <1>8, <2>1, <2>3, <2>4 DEF Turned
<1> HIDE DEF part, short, whole, final, Result
<1>9. Result(r)
  BY <1>0, <1>1, <1>4, <1>5, <1>6, <1>7, <1>8
<1> QED BY <1>9 DEF Result, Turns, r, abObj, left, M, n

\* No content of the periods from p on has been counted.
Untouched(map, p) == \A q \in DOMAIN map : q >= p => map[q].duration = 0

\* The placement is in period p, and what it has placed lies in front of what it has left.
Lying(p, s) ==
    /\ s.pl.open = p /\ s.pl.counted = s.map[p].duration /\ Untouched(s.map, p + 1)
    /\ Laid(s.abObj.ads)
    /\ Behind(s.abObj, s.pl, At(p, s.map[p].duration - s.delta))

\* The ad that is at turn has begun.
AtTurn(b, n, p, s, i, abObj, base) ==
    /\ base \in Nat /\ abObj \in AdBreakObject /\ Turn(b, abObj.ads)
    /\ Laid(abObj.ads) /\ AtAd(abObj, s.pl) /\ ~abObj.adjust
    /\ Len(abObj.ads) = n /\ abObj.ads[i].basePeriod # 0
    /\ abObj.ads[i].duration = s.abObj.ads[i].duration
    /\ Behind(abObj, s.pl, At(p, base))

LEMMA BeginsLies ==
    ASSUME NEW b \in Breaks, NEW o \in AdBreakObject, NEW old, NEW e \in Nat,
           NEW p \in Manifest(e), NEW s, Covering(b, o, old, e, p, s), Lying(p, s),
           NEW i \in 1..Len(o.ads), i = s.pl.cur, ~s.stop
    PROVE  LET base == s.map[p].duration - s.delta
           IN  AtTurn(b, Len(o.ads), p, s, i, BeginsIn(s.abObj, i, p, base), base)
<1> DEFINE n == Len(o.ads)
           base == s.map[p].duration - s.delta
           a == s.abObj
           m == s.map
           pl == s.pl
           abObj == BeginsIn(a, i, p, base)
           M == Manifest(e)
<1>1. /\ a \in AdBreakObject /\ Turn(b, a.ads) /\ EndKnown(a) /\ AtAd(a, pl) /\ ~a.adjust
      /\ Marked(m, b, n) /\ m[p].adBreakId # 0 /\ m \in [M -> Period2AdData]
      /\ pl \in PlacementObj /\ Len(a.ads) = n /\ base \in Nat /\ i = pl.cur
      /\ M \in SUBSET Periods /\ p \in M /\ p \in Periods /\ n \in Nat
  <2>1. /\ s \in Work(M) /\ s.delta <= m[p].duration /\ SameAds(a, o)
        /\ Turn(b, a.ads) /\ EndKnown(a) /\ AtAd(a, pl) /\ ~a.adjust
        /\ Marked(m, b, n) /\ m[p].adBreakId # 0
    BY DEF Covering, Placing
  <2>2. m \in [M -> Period2AdData] /\ s.delta \in Nat /\ m[p].duration \in Nat
    BY <2>1 DEF Work, Period2AdData
  <2>3. base \in Nat
    BY <2>1, <2>2
  <2>4. a \in AdBreakObject /\ pl \in PlacementObj /\ Len(a.ads) = n
    BY <2>1 DEF Work, SameAds
  <2>5. M \in SUBSET Periods /\ p \in M /\ p \in Periods
    BY FirstPeriodIs
  <2>6. n \in Nat
    BY LenProperties DEF AdBreakObject
  <2> QED BY <2>1, <2>2, <2>3, <2>4, <2>5, <2>6
<1>2. Laid(a.ads) /\ Behind(a, pl, At(p, base))
  BY DEF Lying
<1> HIDE DEF n, a, m, pl, M, base
<1>3. CASE a.ads[i].basePeriod # 0
  <2>1. abObj = a
    BY <1>3 DEF BeginsIn
  <2> QED BY <1>1, <1>2, <1>3, <2>1 DEF n, a, pl, base, AtTurn
<1>4. CASE a.ads[i].basePeriod = 0
  <2>1. abObj = Begun(a, i, p, base) /\ i \in 1..Len(a.ads)
    BY <1>1, <1>4 DEF BeginsIn, n
  <2>2. MayBegin(b, M, p, a, m, i, base)
    BY <1>1, <1>4, <2>1 DEF MayBegin, AtAd
  <2>3. abObj \in AdBreakObject /\ Turn(b, abObj.ads)
    <3> HIDE DEF abObj
    <3> QED BY <2>1, <2>2, AdBegins
  <2>4. /\ Len(abObj.ads) = n /\ abObj.adjust = a.adjust
        /\ abObj.ads[i].duration = a.ads[i].duration
        /\ abObj.ads[i].placed = a.ads[i].placed
        /\ \A j \in 1..n : j # i => abObj.ads[j] = a.ads[j]
    <3> HIDE DEF abObj
    <3> QED BY <1>1, <2>1, BegunAds
  <2>5. Laid(abObj.ads) /\ Behind(abObj, pl, At(p, base)) /\ abObj.ads[i].basePeriod # 0
    <3> HIDE DEF abObj
    <3> QED BY <1>1, <1>2, <1>4, <2>1, BegunLies
  <2> HIDE DEF abObj
  <2>6. AtAd(abObj, pl)
    <3>1. \A j \in 1..n : abObj.ads[j].placed = a.ads[j].placed
      BY <2>4
    <3> QED BY <1>1, <2>1, <2>4, <3>1 DEF AtAd
  <2> QED BY <1>1, <2>3, <2>4, <2>5, <2>6 DEF n, a, pl, base, abObj, AtTurn
<1> QED BY <1>3, <1>4

LEMMA PlaceAdLies ==
    ASSUME NEW b \in Breaks, NEW o \in AdBreakObject, NEW old, NEW e \in Nat,
           NEW p \in Manifest(e), NEW s, Covering(b, o, old, e, p, s), Lying(p, s),
           NEW i \in 1..Len(o.ads)
    PROVE  Lying(p, PlaceAd(p, s, i))
<1> SUFFICES ASSUME i = s.pl.cur, s.delta # 0, ~s.stop
             PROVE  Lying(p, PlaceAd(p, s, i))
  BY DEF PlaceAd
<1> DEFINE n == Len(o.ads)
           r == PlaceAd(p, s, i)
           base == s.map[p].duration - s.delta
           abObj == BeginsIn(s.abObj, i, p, base)
           left == s.delta - Rest(s, i)
           c == At(p, base)
           y == s.map[p].duration
           x == s.abObj.ads[i].duration
           rest == x - s.pl.next
           pl == s.pl
<1>1. /\ base \in Nat /\ abObj \in AdBreakObject /\ Turn(b, abObj.ads)
      /\ Laid(abObj.ads) /\ AtAd(abObj, pl) /\ ~abObj.adjust
      /\ Len(abObj.ads) = n /\ abObj.ads[i].basePeriod # 0
      /\ abObj.ads[i].duration = x
      /\ Behind(abObj, pl, c)
  <2>1. AtTurn(b, n, p, s, i, abObj, base)
    BY BeginsLies
  <2> HIDE DEF abObj, base, n
  <2> QED BY <2>1 DEF AtTurn
<1>2. /\ \A q \in DOMAIN r.map : q \in DOMAIN s.map /\ r.map[q].duration = s.map[q].duration
      /\ r.map[p].duration = y /\ r.pl.open = s.pl.open /\ r.pl.counted = s.pl.counted
      /\ Turned(s, r, i, n, p, abObj, left)
  <2> DEFINE M == Manifest(e)
  <2>1. Turns(M, s, r, i, n, p, abObj, left)
    BY PlaceAdTurns
  <2>2. DOMAIN s.map = M
    BY DEF Covering, Placing, Work
  <2>3. p \in M
    OBVIOUS
  <2> HIDE DEF r, abObj, left, M
  <2> QED BY <2>1, <2>2, <2>3 DEF Turns
<1>3. left = s.delta - rest
  BY DEF Rest
<1>4. /\ pl \in PlacementObj /\ s.delta \in Nat /\ y \in Nat /\ pl.next \in Nat
      /\ y <= PeriodLength[p] /\ PeriodLength[p] \in Nat /\ StartOf[p] \in Nat
      /\ p \in Periods /\ n \in Nat /\ i \in 1..n /\ i \in Nat /\ x \in Nat
  <2>1. /\ s \in Work(Manifest(e)) /\ s.pl.counted <= Duration(s.pl.open, e)
        /\ Len(s.abObj.ads) = n
    BY DEF Covering, Placing, SameAds
  <2>2. s.pl.open = p /\ s.pl.counted = y
    BY DEF Lying
  <2>3. /\ pl \in PlacementObj /\ s.delta \in Nat /\ pl.next \in Nat
        /\ s.map[p] \in Period2AdData /\ s.abObj.ads \in Seq(Node)
    BY <2>1 DEF Work, PlacementObj, AdBreakObject
  <2>4. p \in Periods /\ PeriodLength[p] \in Nat /\ StartOf[p] \in Nat
    BY FirstPeriodIs, PeriodsAre, Lengths
  <2>5. y \in Nat /\ y <= Duration(p, e)
    BY <2>1, <2>2, <2>3 DEF Period2AdData
  <2>6. Duration(p, e) <= PeriodLength[p]
    BY <2>4, PeriodsAre DEF Duration, Smaller, Larger
  <2>7. Duration(p, e) \in Nat
    BY <2>4, DurationGrows
  <2>8. x \in Nat
    BY <2>1, <2>3, AdLies
  <2>9. n \in Nat /\ i \in 1..n /\ i \in Nat
    BY LenProperties DEF AdBreakObject
  <2> HIDE DEF y, n, x
  <2> QED BY <2>3, <2>4, <2>5, <2>6, <2>7, <2>8, <2>9
<1>5. /\ s.pl.open = p /\ s.pl.counted = y /\ Untouched(s.map, p + 1)
  BY DEF Lying
<1>6. c \in Nat /\ c = StartOf[p] + base /\ base = y - s.delta
  <2> HIDE DEF base
  <2>1. c \in Nat /\ c = StartOf[p] + base
    BY <1>1, <1>4 DEF At
  <2> QED BY <2>1 DEF base
<1> HIDE DEF n, r, base, abObj, left, c, y, x, rest, pl
<1>7. r.pl.open = p /\ r.pl.counted = r.map[p].duration /\ Untouched(r.map, p + 1)
  BY <1>2, <1>5 DEF Untouched
<1> SUFFICES Laid(r.abObj.ads) /\ Behind(r.abObj, r.pl, At(p, y - r.delta))
  BY <1>2, <1>7 DEF Lying, r
<1>8. CASE /\ left < 0 /\ r.abObj = abObj /\ r.delta = 0
           /\ r.pl.cur = i /\ r.pl.next = s.pl.next + s.delta
  <2>1. At(p, y - r.delta) = c + s.delta
    BY <1>1, <1>4, <1>6, <1>8 DEF At
  <2>2. r.pl.cur = pl.cur /\ r.pl.next = pl.next + s.delta /\ i = pl.cur
    BY <1>8 DEF pl
  <2>3. Behind(abObj, r.pl, c + s.delta)
    BY <1>1, <1>4, <1>6, <2>2, PartLies
  <2> QED BY <1>1, <1>8, <2>1, <2>3
<1>9. CASE r.abObj = abObj /\ r.delta = s.delta /\ r.pl.cur = i /\ r.pl.next = s.pl.next
  <2>1. At(p, y - r.delta) = c
    BY <1>6, <1>9 DEF At
  <2> QED BY <1>1, <1>9, <2>1 DEF Behind, pl
<1> DEFINE done == Done(abObj, i)
           d == c + rest
<1>10. /\ i = pl.cur /\ d \in Nat /\ c <= d /\ Laid(done.ads)
       /\ \A j \in 1..n : IF j < i + 1 THEN EndOf(done.ads[j]) <= d ELSE ~done.ads[j].placed
       /\ i < n => done.ads[i + 1].basePeriod = 0
  <2>1. i = pl.cur
    BY DEF pl
  <2>2. LET d0 == c + (abObj.ads[i].duration - pl.next)
        IN  /\ d0 \in Nat /\ c <= d0 /\ Laid(done.ads)
            /\ \A j \in 1..Len(abObj.ads) :
                 IF j < i + 1 THEN EndOf(done.ads[j]) <= d0 ELSE ~done.ads[j].placed
            /\ i < Len(abObj.ads) => done.ads[i + 1].basePeriod = 0
    <3>1. abObj.ads[pl.cur].basePeriod # 0
      BY <1>1, <2>1
    <3> QED BY <1>1, <1>6, <1>4, <2>1, <3>1, WholeLies
  <2> QED BY <1>1, <2>1, <2>2 DEF rest, pl
<1>11. At(p, y - left) = d
  <2>1. rest \in Int
    BY <1>4 DEF rest, pl
  <2> QED BY <1>3, <1>4, <1>6, <2>1 DEF At
<1>12. /\ Len(done.ads) = n /\ done.adjust = abObj.adjust /\ done.endPeriod = abObj.endPeriod
       /\ done \in AdBreakObject
  BY <1>1, <1>4, DoneAds, AdPlaced
<1>13. abObj.endPeriod = 0
  BY <1>1 DEF Behind
<1> HIDE DEF done, d
<1>14. CASE /\ left >= 0 /\ i # n /\ r.abObj = Done(abObj, i) /\ r.delta = left
            /\ r.pl.cur = i + 1 /\ r.pl.next = 0
  <2>1. r.abObj = done
    BY <1>14 DEF done
  <2>2. done.ads[i + 1].basePeriod = 0
    BY <1>4, <1>10, <1>14
  <2>3. Behind(done, r.pl, d)
    BY <1>1, <1>10, <1>12, <1>13, <1>14, <2>2 DEF Behind
  <2> QED BY <1>10, <1>11, <1>14, <2>1, <2>3
<1>15. CASE /\ left >= 0 /\ i = n /\ r.delta = left
            /\ r.abObj = Over(Done(abObj, i), p, s.map[p].duration - left)
  <2> DEFINE off == y - left
             over == Over(done, p, off)
  <2>1. r.abObj = over
    BY <1>15 DEF done, y
  <2>2. over.ads = done.ads /\ over.adjust /\ over.endPeriod = p /\ over.endOffset = off
    <3> HIDE DEF off
    <3> QED BY <1>12 DEF Over, AdBreakObject
  <2>3. off <= PeriodLength[p]
    <3>1. left \in Int
      BY <1>3, <1>4 DEF rest, pl
    <3> QED BY <1>4, <1>15, <3>1
  <2> HIDE DEF off, over
  <2>4. \A j \in 1..n : over.ads[j].placed => EndOf(over.ads[j]) <= d
    <3>1. \A j \in 1..n : j < i + 1
      BY <1>4, <1>15
    <3> QED BY <1>10, <2>2, <3>1
  <2>5. Closed(over)
    BY <1>11, <1>12, <2>2, <2>3, <2>4 DEF Closed, off
  <2> QED BY <1>10, <2>1, <2>2, <2>5 DEF Behind
<1> QED BY <1>2, <1>8, <1>9, <1>14, <1>15 DEF Turned

\* The periods behind the open one are untouched, what is counted of the open one is
\* its duration, and what is placed lies in front of what is not counted.
Trail(abObj, map, pl) ==
    /\ Untouched(map, pl.open + 1)
    /\ pl.open \in DOMAIN map => map[pl.open].duration = pl.counted
    /\ Behind(abObj, pl, At(pl.open, pl.counted))
Onward(s) == Laid(s.abObj.ads) /\ Trail(s.abObj, s.map, s.pl)

LEMMA Counted ==
    ASSUME NEW b \in Breaks, NEW o \in AdBreakObject, NEW old, NEW e \in Nat, NEW s,
           Placing(b, o, old, e, s)
    PROVE  /\ s.pl.open \in Periods /\ s.pl.counted \in Nat
           /\ s.pl.counted <= PeriodLength[s.pl.open]
           /\ At(s.pl.open, s.pl.counted) \in Nat
<1>1. s.pl \in PlacementObj /\ s.pl.open # 0 /\ s.pl.counted <= Duration(s.pl.open, e)
  BY DEF Placing, Work
<1>2. s.pl.open \in Periods /\ s.pl.counted \in Nat
  BY <1>1 DEF PlacementObj
<1> DEFINE q == s.pl.open
           x == s.pl.counted
<1>0. q \in Periods
  BY <1>2
<1> HIDE DEF q, x
<1>3. /\ Duration(q, e) \in Nat /\ StartOf[q] \in Nat /\ PeriodLength[q] \in Nat
  <2>1. StartOf[q] \in Nat /\ PeriodLength[q] \in Nat
    BY <1>0, PeriodsAre, Lengths
  <2>2. Duration(q, e) \in Nat
    BY <1>0, DurationGrows
  <2> QED BY <2>1, <2>2
<1>4. Duration(q, e) <= PeriodLength[q]
  BY <1>3 DEF Duration, Smaller, Larger
<1> QED BY <1>1, <1>2, <1>3, <1>4 DEF q, x, At

LEMMA OpenPeriodLies ==
    ASSUME NEW b \in Breaks, NEW o \in AdBreakObject, NEW old, NEW e \in Nat,
           NEW p \in Manifest(e), NEW s, Placing(b, o, old, e, s), Onward(s),
           s.found => s.pl.open < p
    PROVE  LET t == OpenPeriod(e, s, p)
           IN  /\ Onward(t)
               /\ t.here => t.found
               /\ t.found => t.pl.open = p \/ (s.found /\ t.pl.open = s.pl.open)
<1> DEFINE M == Manifest(e)
           map == Fill(s.map, s.pl.open)
           pl == [s.pl EXCEPT !.open = p, !.counted = 0]
           found == [s EXCEPT !.found = TRUE, !.here = TRUE]
           next == [s EXCEPT !.map = map, !.pl = pl, !.here = TRUE]
           other == [s EXCEPT !.here = FALSE]
           Good(t) == /\ Onward(t)
                      /\ t.here => t.found
                      /\ t.found => t.pl.open = p \/ (s.found /\ t.pl.open = s.pl.open)
<1>1. /\ s \in Work(M) /\ s.map \in [M -> Period2AdData] /\ s.pl \in PlacementObj
      /\ s.abObj \in AdBreakObject /\ AtAd(s.abObj, s.pl)
      /\ p \in Periods /\ p \in Nat /\ StartOf[p] \in Nat
  BY Member, PeriodsAre
<1>2. OpenPeriod(e, s, p) = IF s.pl.open = p THEN found
                            ELSE IF s.found /\ Duration(p, e) > 0 THEN next ELSE other
  BY Zenon DEF OpenPeriod, Fill
<1>3. ASSUME s.pl.open = p PROVE Good(found)
  <2>1. found.abObj = s.abObj /\ found.map = s.map /\ found.pl = s.pl /\ found.found
    BY <1>1 DEF Work
  <2> HIDE DEF found
  <2> QED BY <1>3, <2>1 DEF Onward
<1>4. Good(other)
  <2>1. /\ other.abObj = s.abObj /\ other.map = s.map /\ other.pl = s.pl
        /\ other.found = s.found /\ ~other.here
    BY <1>1 DEF Work
  <2> HIDE DEF other
  <2> QED BY <2>1 DEF Onward
<1>5. ASSUME s.found, s.pl.open # p PROVE Good(next)
  <2>1. /\ pl \in PlacementObj /\ pl.open = p /\ pl.counted = 0
        /\ pl.cur = s.pl.cur /\ pl.next = s.pl.next
    BY <1>1 DEF PlacementObj
  <2>2. /\ DOMAIN map = M /\ \A q \in M : map[q].duration = s.map[q].duration
    <3> DEFINE m == s.map
               r == s.pl.open
               data == [m[r] EXCEPT !.filled = TRUE]
    <3>1. m \in [M -> Period2AdData] /\ map = [m EXCEPT ![r] = data]
      BY <1>1 DEF Fill
    <3>2. r \in M => data.duration = m[r].duration
      BY <3>1 DEF Period2AdData
    <3> HIDE DEF m, M, r, data, map
    <3>3. DOMAIN map = M /\ \A q \in M : map[q].duration = m[q].duration
      BY <3>1, <3>2
    <3> QED BY <3>3 DEF m
  <2> HIDE DEF map, pl
  <2>3. next.abObj = s.abObj /\ next.map = map /\ next.pl = pl /\ next.found
    BY <1>1, <1>5 DEF Work
  <2>4. /\ s.pl.open \in Periods /\ s.pl.open \in Nat /\ s.pl.open < p
        /\ s.pl.counted \in Nat /\ s.pl.counted <= PeriodLength[s.pl.open]
        /\ StartOf[s.pl.open] \in Nat /\ PeriodLength[s.pl.open] \in Nat
    BY <1>5, Counted, PeriodsAre, Lengths
  <2>5. StartOf[s.pl.open] + PeriodLength[s.pl.open] <= StartOf[p]
    BY <1>1, <2>4, StartsGrow, Lengths DEF Length
  <2>6. /\ At(s.pl.open, s.pl.counted) \in Nat /\ At(p, 0) \in Nat
        /\ At(s.pl.open, s.pl.counted) <= At(p, 0)
    BY <1>1, <2>4, <2>5 DEF At
  <2>7. Behind(s.abObj, s.pl, At(p, 0))
    <3> DEFINE c == At(s.pl.open, s.pl.counted)
               d == At(p, 0)
    <3>1. c \in Nat /\ d \in Nat /\ c <= d /\ Behind(s.abObj, s.pl, c) /\ Laid(s.abObj.ads)
      BY <2>6 DEF Onward, Trail
    <3> HIDE DEF c, d
    <3>2. Behind(s.abObj, s.pl, d)
      BY <1>1, <3>1, BehindLater
    <3> QED BY <3>2 DEF d
  <2>8. Behind(s.abObj, pl, At(pl.open, pl.counted))
    BY <2>1, <2>7 DEF Behind
  <2>9. DOMAIN s.map = M /\ Untouched(s.map, s.pl.open + 1)
    BY <1>1 DEF Onward, Trail
  <2>10. \A q \in M : q \in Nat
    BY FirstPeriodIs, PeriodsAre
  <2>11. Untouched(map, pl.open + 1)
    <3> SUFFICES ASSUME NEW q \in DOMAIN map, q >= p + 1 PROVE map[q].duration = 0
      BY <2>1 DEF Untouched
    <3>1. q \in M /\ q \in Nat
      BY <2>2, <2>10
    <3>2. q >= s.pl.open + 1
      BY <1>1, <2>4, <3>1
    <3> QED BY <2>2, <2>9, <3>1, <3>2 DEF Untouched
  <2>12. map[p].duration = 0
    BY <1>1, <2>2, <2>4, <2>9 DEF Untouched
  <2> HIDE DEF next
  <2>13. Onward(next)
    BY <2>1, <2>3, <2>8, <2>11, <2>12 DEF Onward, Trail
  <2> QED BY <2>1, <2>3, <2>13
<1> HIDE DEF found, next, other, Good
<1>6. Good(OpenPeriod(e, s, p))
  BY <1>2, <1>3, <1>4, <1>5
<1> QED BY <1>6 DEF Good

LEMMA OpenedLies ==
    ASSUME NEW b \in Breaks, NEW o \in AdBreakObject, NEW old, NEW e \in Nat,
           NEW p \in Manifest(e), NEW t, Placing(b, o, old, e, t), Onward(t),
           t.pl.open = p, ~t.abObj.adjust
    PROVE  Lying(p, OpenedFor(e, t, p))
<1> DEFINE M == Manifest(e)
           delta == Duration(p, e) - t.pl.counted
           v == [ad |-> t.pl.cur, start |-> t.pl.next]
           data == GivenTo(t.map[p], t.pl.brk, v, delta)
           opened == OpenedFor(e, t, p)
           map == [t.map EXCEPT ![p] = data]
           pl == [t.pl EXCEPT !.counted = Duration(p, e)]
<1>1. /\ t \in Work(M) /\ t.map \in [M -> Period2AdData] /\ t.pl \in PlacementObj
      /\ Duration(p, e) \in Nat /\ t.pl.counted \in Nat
  <2>1. Duration(p, e) \in Nat
    BY FirstPeriodIs, DurationGrows
  <2>2. t.pl.counted \in Nat
    BY Counted
  <2> QED BY <2>1, <2>2, Member
<1>2. opened = [t EXCEPT !.pl = pl, !.map = map, !.delta = delta, !.stop = FALSE]
  BY Zenon DEF OpenedFor
<1>0. data.duration = Duration(p, e)
  <2>1. t.map[p].duration = t.pl.counted /\ t.map[p] \in Period2AdData
    BY <1>1 DEF Onward, Trail
  <2>2. t.map[p].duration + delta = Duration(p, e)
    BY <1>1, <2>1
  <2> DEFINE d == t.map[p]
             w == Put(d.offset2Ad, 0, v)
             y == t.pl.brk
             given == IF d.adBreakId = 0 THEN [d EXCEPT !.adBreakId = y, !.offset2Ad = w] ELSE d
  <2>3. data = [given EXCEPT !.duration = @ + delta] /\ d \in Period2AdData
    BY <2>1 DEF GivenTo
  <2> HIDE DEF w, y, d, delta, data
  <2>4. given.duration = d.duration /\ given = [given EXCEPT !.duration = given.duration]
    BY <2>3 DEF Period2AdData
  <2> HIDE DEF given
  <2>5. data.duration = d.duration + delta
    BY <2>3, <2>4
  <2> QED BY <2>2, <2>5 DEF d
<1>3. /\ DOMAIN map = M /\ map[p] = data /\ \A q \in M : q # p => map[q] = t.map[q]
  BY <1>1
<1>4. /\ pl.open = p /\ pl.cur = t.pl.cur /\ pl.next = t.pl.next
      /\ pl.counted = Duration(p, e)
  BY <1>1 DEF PlacementObj
<1> HIDE DEF map, pl, delta, data, v, opened
<1>5. /\ opened.abObj = t.abObj /\ opened.map = map /\ opened.pl = pl
      /\ opened.delta = delta
  BY <1>1, <1>2 DEF Work
<1>6. Untouched(map, p + 1)
  <2>1. DOMAIN t.map = M /\ Untouched(t.map, p + 1)
    BY <1>1 DEF Onward, Trail
  <2>2. \A q \in M : q >= p + 1 => q # p
    BY FirstPeriodIs, PeriodsAre
  <2> QED BY <1>3, <2>1, <2>2 DEF Untouched
<1>7. Behind(t.abObj, pl, At(p, t.pl.counted))
  BY <1>4 DEF Onward, Trail, Behind
<1>8. map[p].duration - delta = t.pl.counted
  BY <1>0, <1>1, <1>3 DEF delta
<1> HIDE DEF M
<1> QED BY <1>3, <1>4, <1>5, <1>6, <1>7, <1>8, <1>0 DEF Lying, Onward, opened

\* What has been covered of a period lies in front of what is left of it.
LEMMA CoveredLies ==
    ASSUME NEW b \in Breaks, NEW o \in AdBreakObject, NEW old, NEW e \in Nat,
           NEW p \in Manifest(e), NEW s, Covering(b, o, old, e, p, s), Lying(p, s)
    PROVE  Onward(s)
<1> DEFINE d == At(s.pl.open, s.pl.counted)
           c == At(p, s.map[p].duration - s.delta)
<1>1. Placing(b, o, old, e, s) /\ s.delta <= s.map[p].duration
  BY DEF Covering
<1>2. /\ s \in Work(Manifest(e)) /\ s.abObj \in AdBreakObject /\ AtAd(s.abObj, s.pl)
      /\ s.pl \in PlacementObj /\ s.delta \in Nat
  BY <1>1 DEF Placing, Work
<1>3. /\ s.pl.open = p /\ s.pl.counted = s.map[p].duration /\ Untouched(s.map, p + 1)
      /\ Laid(s.abObj.ads) /\ Behind(s.abObj, s.pl, c)
  BY DEF Lying
<1>4. d \in Nat /\ s.pl.counted \in Nat
  BY <1>1, Counted
<1>5. StartOf[p] \in Nat
  BY FirstPeriodIs, PeriodsAre
<1>6. c \in Nat /\ c <= d
  BY <1>1, <1>2, <1>3, <1>4, <1>5 DEF At
<1> HIDE DEF c, d
<1>7. Behind(s.abObj, s.pl, d)
  BY <1>2, <1>3, <1>4, <1>6, BehindLater
<1> QED BY <1>3, <1>7 DEF Onward, Trail, d

LEMMA PlaceOnPeriodLies ==
    ASSUME NEW b \in Breaks, NEW o \in AdBreakObject, NEW old, NEW e \in Nat,
           NEW p \in Manifest(e), NEW s, Placing(b, o, old, e, s), Onward(s),
           s.found => s.pl.open < p
    PROVE  LET r == PlaceOnPeriod(e, s, p)
           IN  /\ Onward(r)
               /\ r.found => r.pl.open = p \/ (s.found /\ r.pl.open = s.pl.open)
<1> DEFINE M == Manifest(e)
           n == Len(o.ads)
           t == OpenPeriod(e, s, p)
           opened == OpenedFor(e, t, p)
           fold == FoldLeft(LAMBDA x, i : PlaceAd(p, x, i), opened,
                            [i \in 1..Len(s.abObj.ads) |-> i])
           Good(r) == /\ Onward(r)
                      /\ r.found => r.pl.open = p \/ (s.found /\ r.pl.open = s.pl.open)
<1>1. PlaceOnPeriod(e, s, p) = IF s.abObj.adjust THEN s ELSE IF ~t.here THEN t ELSE fold
  BY Zenon DEF PlaceOnPeriod, OpenedFor, GivenTo
<1>2. /\ Placing(b, o, old, e, t) /\ t.abObj = s.abObj /\ (t.here => t.pl.open = p)
  BY OpenPeriodPlaces
<1>3. Onward(t) /\ (t.found => t.pl.open = p \/ (s.found /\ t.pl.open = s.pl.open))
  BY OpenPeriodLies
<1> HIDE DEF t
<1>4. /\ t \in Work(M) /\ AtAd(t.abObj, t.pl) /\ Marked(t.map, b, n)
      /\ t.map \in [M -> Period2AdData] /\ t.map[p] \in Period2AdData
      /\ n \in Nat /\ Len(s.abObj.ads) = n
  BY <1>2, Member
<1>5. ASSUME ~s.abObj.adjust, t.here PROVE Good(fold)
  <2>1. t.pl.open = p /\ ~t.abObj.adjust
    BY <1>2, <1>5
  <2>3. Lying(p, opened)
    BY <1>2, <1>3, <2>1, OpenedLies
  <2>4. Covering(b, o, old, e, p, opened)
    BY <1>2, <2>1, OpenedCovers
  <2> DEFINE S == {x \in Work(M) : Covering(b, o, old, e, p, x) /\ Lying(p, x)}
  <2>5. opened \in S
    <3> HIDE DEF opened
    <3> QED BY <2>3, <2>4 DEF Covering, Placing
  <2>6. ASSUME NEW i \in 1..n, NEW x \in S PROVE PlaceAd(p, x, i) \in S
    <3>1. Covering(b, o, old, e, p, PlaceAd(p, x, i))
      BY PlaceAdCovers
    <3>2. Lying(p, PlaceAd(p, x, i))
      BY PlaceAdLies
    <3> QED BY <3>1, <3>2 DEF Covering, Placing
  <2> HIDE DEF S, opened, n
  <2>7. FoldLeft(LAMBDA x, i : PlaceAd(p, x, i), opened, [i \in 1..n |-> i]) \in S
    BY <1>4, <2>5, <2>6, FoldAds
  <2>8. fold \in S
    BY <1>4, <2>7
  <2> HIDE DEF fold
  <2>9. Covering(b, o, old, e, p, fold) /\ Lying(p, fold)
    BY <2>8 DEF S
  <2>10. Onward(fold)
    BY <2>9, CoveredLies
  <2>11. fold.pl.open = p
    BY <2>9 DEF Lying
  <2> QED BY <2>10, <2>11
<1>6. Good(s) /\ Good(t)
  BY <1>3
<1> HIDE DEF Good, fold
<1>7. Good(PlaceOnPeriod(e, s, p))
  BY <1>1, <1>5, <1>6
<1> QED BY <1>7 DEF Good

\* The fold of PlaceAds over the periods, as a function of the set of those it has seen.
PlacesOn(e, S, base, n, f) ==
    /\ f[{}] = base
    /\ \A t \in SUBSET (1..n) :
         /\ f[t] \in S
         /\ t # {} => f[t] = PlaceOn(e, f[t \ {Max(t)}], Max(t))

OverPeriods(e, base, n) ==
  FoldLeft(LAMBDA t, p : IF p \in Manifest(e) THEN PlaceOnPeriod(e, t, p) ELSE t,
           base, [p \in 1..n |-> p])

LEMMA PeriodsFold ==
    ASSUME NEW e, NEW S, NEW base \in S, NEW n \in Nat,
           \A p \in 1..n, x \in S : PlaceOn(e, x, p) \in S
    PROVE  \E f : PlacesOn(e, S, base, n, f) /\ OverPeriods(e, base, n) = f[1..n]
<1> DEFINE s == [p \in 1..n |-> p]
           F == [p \in 1..n |-> [x \in S |-> PlaceOn(e, x, p)]]
           G(it) == it = [t \in SUBSET (1..n) |-> IF t = {} THEN base
                             ELSE IF s[Max(t)] \in Manifest(e)
                             THEN PlaceOnPeriod(e, it[t \ {Max(t)}], s[Max(t)])
                             ELSE it[t \ {Max(t)}]]
           f == CHOOSE it : G(it)
           fold == FoldLeft(LAMBDA t, p : IF p \in Manifest(e) THEN PlaceOnPeriod(e, t, p)
                                          ELSE t, base, s)
<1>1. DOMAIN s = 1..n /\ \A p \in 1..n : s[p] = p
  OBVIOUS
<1> HIDE DEF s
<1>2. fold = f[1..n]
  BY <1>1 DEF FoldLeft, MapThenFoldSet
<1>3. PICK g : Tower(F, base, S, n, g)
  <2>1. Steps(F, S, n)
    BY DEF Steps
  <2> HIDE DEF F
  <2> QED BY <2>1, FoldIn
<1>4. \A t \in SUBSET (1..n) :
        t # {} => g[t] = IF s[Max(t)] \in Manifest(e)
                         THEN PlaceOnPeriod(e, g[t \ {Max(t)}], s[Max(t)])
                         ELSE g[t \ {Max(t)}]
  BY <1>1, <1>3 DEF Tower, PlaceOn
<1>5. G(g)
  <2>1. [t \in SUBSET (1..n) |-> g[t]]
          = [t \in SUBSET (1..n) |-> IF t = {} THEN base
                             ELSE IF s[Max(t)] \in Manifest(e)
                             THEN PlaceOnPeriod(e, g[t \ {Max(t)}], s[Max(t)])
                             ELSE g[t \ {Max(t)}]]
    BY <1>3, <1>4 DEF Tower
  <2> QED BY <1>3, <2>1 DEF Tower
<1>6. G(f)
  BY <1>5
<1> HIDE DEF f
<1>7. f[{}] = base /\ \A t \in SUBSET (1..n) :
                         t # {} => f[t] = PlaceOn(e, f[t \ {Max(t)}], s[Max(t)])
  BY <1>6 DEF PlaceOn
<1>8. ASSUME NEW t \in SUBSET (1..n), t # {}
      PROVE  Max(t) \in 1..n /\ s[Max(t)] = Max(t)
  BY <1>1, <1>8, LastOf
<1>9. \A t \in SUBSET (1..n) : f[t] \in S
  <2>1. ASSUME NEW t \in SUBSET (1..n), t # {}, f[t \ {Max(t)}] \in S PROVE f[t] \in S
    BY <1>7, <1>8, <2>1
  <2>2. f[{}] \in S
    BY <1>7
  <2> QED BY <2>1, <2>2, FoldClosed
<1>10. PlacesOn(e, S, base, n, f)
  BY <1>7, <1>8, <1>9 DEF PlacesOn
<1> HIDE DEF fold
<1>11. fold = f[1..n] /\ PlacesOn(e, S, base, n, f)
  BY <1>2, <1>10
<1> QED BY <1>11 DEF fold, s, OverPeriods

LEMMA LastIs ==
    ASSUME NEW n \in Nat, NEW t \in SUBSET (1..n), t # {}
    PROVE  Max(t) \in t /\ \A q \in t \ {Max(t)} : q < Max(t)
<1> DEFINE m == Max(t)
<1>1. t \in SUBSET Int /\ n \in Int /\ \A q \in t : q <= n
  OBVIOUS
<1>2. m \in t /\ \A q \in t : q <= m
  BY <1>1, GreatestIs
<1> HIDE DEF m
<1>3. \A q \in t \ {m} : q < m
  BY <1>1, <1>2
<1> QED BY <1>2, <1>3 DEF m

\* The periods that have been seen are t.
Seen(s, t) == Onward(s) /\ (s.found => s.pl.open \in t)

LEMMA PlacedLies ==
    ASSUME NEW b \in Breaks, NEW o \in AdBreakObject, NEW old, NEW e \in Nat, NEW s,
           Placing(b, o, old, e, Unplaced(s)), Onward(Unplaced(s))
    PROVE  Placing(b, o, old, e, Placed(e, s)) /\ Onward(Placed(e, s))
<1> DEFINE base == [abObj |-> s.adBreaks[s.placement.brk], map |-> s.periodMap,
                    pl |-> s.placement, delta |-> 0, found |-> FALSE,
                    here |-> FALSE, stop |-> FALSE]
           S == {x \in Work(Manifest(e)) : Placing(b, o, old, e, x)}
           fold == OverPeriods(e, base, Length)
<1>1. Placed(e, s) = fold
  <2>1. Periods = 1..Length
    BY Lengths
  <2> QED BY <2>1, Zenon DEF Placed, OverPeriods
<1>2. base \in S /\ Onward(base) /\ ~base.found
  <2>1. base = Unplaced(s) /\ ~base.found
    BY DEF Unplaced
  <2> HIDE DEF base
  <2> QED BY <2>1 DEF Placing
<1>3. ASSUME NEW p \in 1..Length, NEW x \in S PROVE PlaceOn(e, x, p) \in S
  <2>1. CASE p \in Manifest(e)
    <3>1. Placing(b, o, old, e, PlaceOnPeriod(e, x, p))
      BY <2>1, PlaceOnPeriodPlaces
    <3> QED BY <2>1, <3>1 DEF PlaceOn, Placing
  <2>2. CASE p \notin Manifest(e)
    BY <2>2 DEF PlaceOn
  <2> QED BY <2>1, <2>2
<1> HIDE DEF S, base
<1>4. PICK f : PlacesOn(e, S, base, Length, f) /\ fold = f[1..Length]
  BY <1>2, <1>3, Lengths, PeriodsFold
<1> HIDE DEF fold
<1>5. ASSUME NEW t \in SUBSET (1..Length), t # {}, Seen(f[t \ {Max(t)}], t \ {Max(t)})
      PROVE  Seen(f[t], t)
  <2> DEFINE p == Max(t)
             x == f[t \ {p}]
  <2>1. p \in t /\ p \in 1..Length /\ \A q \in t \ {p} : q < p
    BY <1>5, LastIs, Lengths
  <2>2. x \in S /\ f[t] = PlaceOn(e, x, p) /\ Seen(x, t \ {p})
    BY <1>4, <1>5 DEF PlacesOn
  <2> HIDE DEF p, x
  <2>3. CASE p \in Manifest(e)
    <3>1. Placing(b, o, old, e, x) /\ Onward(x) /\ (x.found => x.pl.open < p)
      BY <2>1, <2>2 DEF S, Seen
    <3> DEFINE r == PlaceOnPeriod(e, x, p)
    <3>2. Onward(r) /\ (r.found => r.pl.open = p \/ (x.found /\ r.pl.open = x.pl.open))
      BY <2>3, <3>1, PlaceOnPeriodLies
    <3>3. f[t] = r
      BY <2>2, <2>3 DEF PlaceOn
    <3> HIDE DEF r
    <3> QED BY <2>1, <2>2, <3>2, <3>3 DEF Seen
  <2>4. CASE p \notin Manifest(e)
    BY <2>2, <2>4 DEF PlaceOn, Seen
  <2> QED BY <2>3, <2>4
<1>6. \A t \in SUBSET (1..Length) : Seen(f[t], t)
  <2> DEFINE g == [t \in SUBSET (1..Length) |-> Seen(f[t], t)]
             B == {TRUE}
  <2>1. g[{}] \in B
    BY <1>2, <1>4 DEF PlacesOn, Seen
  <2>2. ASSUME NEW t \in SUBSET (1..Length), t # {}, g[t \ {Max(t)}] \in B PROVE g[t] \in B
    BY <1>5, <2>2
  <2> HIDE DEF g, B
  <2>3. \A t \in SUBSET (1..Length) : g[t] \in B
    BY <2>1, <2>2, Lengths, FoldClosed
  <2> QED BY <2>3 DEF g, B
<1>7. 1..Length \in SUBSET (1..Length)
  OBVIOUS
<1>8. fold \in S /\ Onward(fold)
  BY <1>4, <1>6, <1>7 DEF PlacesOn, Seen
<1> QED BY <1>1, <1>8 DEF S

\* The content resumes behind all ads of the break, but for the alignment.
Resumes(abObj) ==
    abObj.endPeriod # 0 /\ ~abObj.adjust =>
      \A j \in 1..Len(abObj.ads) :
        abObj.ads[j].placed =>
          EndOf(abObj.ads[j]) < At(abObj.endPeriod, abObj.endOffset) + 2 * Align

\* The placement of break b has got so far, or is over.
Tidy(s) ==
    /\ Laid(s.abObj.ads) /\ Resumes(s.abObj)
    /\ s.abObj.adjust => s.pl.cur # 0
    /\ s.pl.cur # 0 => Trail(s.abObj, s.map, s.pl)

LEMMA EndedLies ==
    ASSUME NEW abObj \in AdBreakObject, Laid(abObj.ads), Closed(abObj),
           NEW q \in Periods, NEW offset \in Nat, abObj.endPeriod # 0,
           At(abObj.endPeriod, abObj.endOffset) < At(q, offset) + 2 * Align
    PROVE  LET new == Ended(abObj, q, offset)
           IN  Laid(new.ads) /\ Resumes(new) /\ ~new.adjust
<1> DEFINE new == Ended(abObj, q, offset)
           x == At(abObj.endPeriod, abObj.endOffset)
           y == At(q, offset) + 2 * Align
<1>1. new.ads = abObj.ads /\ new.endPeriod = q /\ new.endOffset = offset /\ ~new.adjust
  BY DEF AdBreakObject, Ended
<1>2. x \in Nat /\ y \in Nat /\ x < y
  <2>1. abObj.endPeriod \in Periods /\ abObj.endOffset \in Nat
    BY DEF AdBreakObject
  <2>2. StartOf[abObj.endPeriod] \in Nat /\ StartOf[q] \in Nat
    BY <2>1, PeriodsAre
  <2> QED BY <2>1, <2>2, Constants DEF At
<1> HIDE DEF new, x, y
<1>3. ASSUME NEW j \in 1..Len(abObj.ads), abObj.ads[j].placed
      PROVE  EndOf(abObj.ads[j]) < y
  <2>1. EndOf(abObj.ads[j]) \in Nat
    BY <1>3, AdLies DEF Laid, AdBreakObject
  <2>2. EndOf(abObj.ads[j]) <= x
    BY <1>3 DEF Closed, x
  <2> QED BY <1>2, <2>1, <2>2
<1>4. Resumes(new)
  BY <1>1, <1>3 DEF Resumes, y
<1> QED BY <1>1, <1>4 DEF new

\* Where the end of a break may be moved to.
LEMMA EndMoves ==
    ASSUME NEW abObj \in AdBreakObject, Closed(abObj), abObj.endPeriod # 0
    PROVE  LET p == abObj.endPeriod
               x == At(p, abObj.endOffset)
           IN  /\ p \in Periods /\ abObj.endOffset \in Nat
               /\ x < x + 2 * Align
               /\ NearStart(abObj) => x < At(p, 0) + 2 * Align
               /\ p + 1 \in Periods => x < At(p + 1, 0) + 2 * Align
<1> DEFINE p == abObj.endPeriod
           off == abObj.endOffset
           z == 0
<1>1. p \in Periods /\ off \in Nat /\ off <= PeriodLength[p]
  BY DEF AdBreakObject, Closed
<1> HIDE DEF p, off
<1>2. StartOf[p] \in Nat /\ PeriodLength[p] \in Nat /\ p \in Nat /\ Align \in Nat /\ Align > 0
  BY <1>1, PeriodsAre, Lengths, Constants
<1>3. At(p, off) < At(p, off) + 2 * Align
  BY <1>1, <1>2 DEF At
<1>4. NearStart(abObj) => At(p, off) < At(p, z) + 2 * Align
  BY <1>1, <1>2 DEF At, NearStart, off
<1>5. ASSUME p + 1 \in Periods PROVE At(p, off) < At(p + 1, z) + 2 * Align
  <2>1. StartOf[p + 1] = StartOf[p] + PeriodLength[p]
    BY <1>1, StartsAdd
  <2> QED BY <1>1, <1>2, <2>1 DEF At
<1> HIDE DEF z
<1> QED BY <1>1, <1>3, <1>4, <1>5 DEF p, off, z

LEMMA AdjustEndLies ==
    ASSUME NEW b \in Breaks, NEW o \in AdBreakObject, NEW old, NEW e \in Nat, NEW t,
           Placing(b, o, old, e, t), Onward(t), t.abObj.adjust
    PROVE  LET s == AdjustEnd(e, t)
           IN  IF s.abObj.adjust THEN s = t ELSE Laid(s.abObj.ads) /\ Resumes(s.abObj)
<1> DEFINE M == Manifest(e)
           a == t.abObj
           p == a.endPeriod
           offset == a.endOffset
           settle(q, off, map) == [t EXCEPT !.abObj = Ended(a, q, off), !.map = map]
           Good(s) == IF s.abObj.adjust THEN s = t
                      ELSE Laid(s.abObj.ads) /\ Resumes(s.abObj)
           s1 == settle(p, offset, t.map)
           s2 == settle(p, 0, Put(t.map, p, NoData))
           s3 == settle(p + 1, 0, Put(t.map, p + 1, NoData))
<1>1. t \in Work(M) /\ a \in AdBreakObject /\ M \subseteq Periods
  BY Member
<1>2. Laid(a.ads) /\ Closed(a) /\ p # 0
  <2>1. AtAd(a, t.pl)
    BY Member
  <2> QED BY <2>1 DEF Onward, Trail, Behind, AtAd
<1>3. /\ p \in Periods /\ offset \in Nat
      /\ At(p, offset) < At(p, offset) + 2 * Align
      /\ NearStart(a) => At(p, offset) < At(p, 0) + 2 * Align
      /\ p + 1 \in Periods => At(p, offset) < At(p + 1, 0) + 2 * Align
  <2> HIDE DEF a
  <2> QED BY <1>1, <1>2, EndMoves
<1>4. AdjustEnd(e, t) = IF p \notin M THEN s1
                        ELSE IF NearStart(t.abObj) THEN s2
                        ELSE IF ~NearEnd(t.abObj, e) THEN s1
                        ELSE IF p + 1 \in M THEN s3 ELSE t
  BY Zenon DEF AdjustEnd, Ended
<1>5. ASSUME NEW q \in Periods, NEW off \in Nat, NEW map,
             At(p, offset) < At(q, off) + 2 * Align
      PROVE  Good(settle(q, off, map))
  <2> DEFINE new == Ended(a, q, off)
             s == settle(q, off, map)
  <2>1. s = [t EXCEPT !.abObj = new, !.map = map]
    OBVIOUS
  <2>2. Laid(new.ads) /\ Resumes(new) /\ ~new.adjust
    <3> HIDE DEF a, new
    <3> QED BY <1>1, <1>2, <1>5, EndedLies DEF new
  <2> HIDE DEF new, s
  <2>3. s.abObj = new
    BY <1>1, <2>1 DEF Work
  <2> HIDE DEF a
  <2> QED BY <2>2, <2>3 DEF s
<1> DEFINE z == 0
           m2 == Put(t.map, p, NoData)
           m3 == Put(t.map, p + 1, NoData)
<1>6. /\ z \in Nat /\ s2 = settle(p, z, m2) /\ s3 = settle(p + 1, z, m3)
      /\ (NearStart(a) => At(p, offset) < At(p, z) + 2 * Align)
      /\ (p + 1 \in Periods => At(p, offset) < At(p + 1, z) + 2 * Align)
  BY <1>3
<1> HIDE DEF z, m2, m3, Good, settle, s2, s3, a, p, offset
<1>7. Good(s1)
  BY <1>3, <1>5 DEF s1
<1>8. ASSUME NearStart(a) PROVE Good(s2)
  <2>1. Good(settle(p, z, m2))
    BY <1>3, <1>5, <1>6, <1>8
  <2> QED BY <1>6, <2>1
<1>9. ASSUME p + 1 \in M PROVE Good(s3)
  <2>1. p + 1 \in Periods
    BY <1>1, <1>9
  <2>2. Good(settle(p + 1, z, m3))
    BY <1>5, <1>6, <2>1
  <2> QED BY <1>6, <2>2
<1>10. Good(t)
  BY DEF Good
<1>11. Good(AdjustEnd(e, t))
  BY <1>4, <1>7, <1>8, <1>9, <1>10 DEF a
<1> QED BY <1>11 DEF Good

LEMMA SettledLies ==
    ASSUME NEW b \in Breaks, NEW o \in AdBreakObject, NEW old, NEW e \in Nat, NEW t,
           Placing(b, o, old, e, t), Onward(t)
    PROVE  Tidy(Settled(e, t))
<1>1. t \in Work(Manifest(e)) /\ AtAd(t.abObj, t.pl) /\ t.pl \in PlacementObj
  BY Member
<1>2. t.pl.cur # 0 /\ Laid(t.abObj.ads) /\ Trail(t.abObj, t.map, t.pl)
  BY <1>1 DEF AtAd, Onward
<1>3. CASE ~t.abObj.adjust
  <2>1. Settled(e, t) = t
    BY <1>3 DEF Settled
  <2>2. t.abObj.endPeriod = 0
    BY <1>2, <1>3 DEF Trail, Behind
  <2> QED BY <1>2, <1>3, <2>1, <2>2 DEF Tidy, Resumes
<1>4. CASE t.abObj.adjust
  <2> DEFINE s == AdjustEnd(e, t)
             cur == IF s.abObj.adjust THEN s.pl.cur ELSE 0
             r == [s EXCEPT !.pl.cur = cur]
  <2>1. IF s.abObj.adjust THEN s = t ELSE Laid(s.abObj.ads) /\ Resumes(s.abObj)
    BY <1>4, AdjustEndLies
  <2>2. s \in Work(Manifest(e))
    BY <1>4, AdjustEndSettles
  <2>3. Settled(e, t) = r
    BY <1>4, Zenon DEF Settled
  <2> HIDE DEF s
  <2>4. r.abObj = s.abObj /\ r.map = s.map /\ r.pl.cur = cur
    <3> HIDE DEF cur
    <3> QED BY <2>2 DEF Work, PlacementObj
  <2>5. s.abObj.adjust => r.pl = s.pl
    <3>1. s.abObj.adjust => cur = s.pl.cur
      BY DEF cur
    <3> QED BY <2>2, <3>1 DEF Work, PlacementObj
  <2> HIDE DEF r
  <2>6. CASE s.abObj.adjust
    BY <1>2, <2>1, <2>3, <2>4, <2>5, <2>6 DEF Tidy, Resumes
  <2>7. CASE ~s.abObj.adjust
    BY <2>1, <2>3, <2>4, <2>7 DEF Tidy
  <2> QED BY <2>6, <2>7
<1> QED BY <1>3, <1>4

-----------------------------------------------------------------------------
(* The tables, through a refresh                                            *)

Announced(p, e) == StartOf[p] <= e + Early

\* A break known by the time e.
BreakOK(b, abObj, e) ==
    /\ abObj \in AdBreakObject /\ abObj.adsDuration <= abObj.brkDuration
    /\ Turn(b, abObj.ads) /\ EndKnown(abObj) /\ Announced(b, e)
    /\ Len(abObj.ads) = 0 => ~abObj.adjust

\* The period of q: it is given to a break that was announced, or to none.
DataOK(m, data, e) ==
    /\ data \in Period2AdData
    /\ data.adBreakId # 0 => Announced(data.adBreakId, e)
    /\ \A k \in DOMAIN data.offset2Ad :
         /\ data.adBreakId # 0
         /\ data.adBreakId \in DOMAIN m =>
              data.offset2Ad[k].ad \in 1..Len(m[data.adBreakId].ads)

\* The placement is at an ad of its break.
PlacementOK(m, pl, e) ==
    /\ pl \in PlacementObj
    /\ pl.cur # 0 => /\ pl.brk \in DOMAIN m /\ AtAd(m[pl.brk], pl)
                     /\ pl.open # 0 /\ pl.counted <= Duration(pl.open, e)

TablesOK(m, map, pl, nx, e) ==
    /\ m = [b \in DOMAIN m |-> m[b]] /\ DOMAIN m \subseteq Breaks
    /\ \A b \in DOMAIN m : BreakOK(b, m[b], e)
    /\ map = [q \in Manifest(e) |-> map[q]]
    /\ \A q \in Manifest(e) : DataOK(m, map[q], e)
    /\ \A b \in DOMAIN m : b \in Manifest(e) /\ Len(m[b].ads) = 0 => map[b].adBreakId = b
    /\ PlacementOK(m, pl, e) /\ nx = NoPlacement

\* The breaks of n are those of m or new ones, and the ads of all are the same.
SameBreaks(n, m) ==
    \A b \in DOMAIN n : IF b \in DOMAIN m THEN SameAds(n[b], m[b]) ELSE Len(n[b].ads) = 0

LEMMA NewBreakIs ==
    ASSUME NEW b \in Breaks, NEW e, Announced(b, e)
    PROVE  BreakOK(b, NewBreak(b), e) /\ Len(NewBreak(b).ads) = 0
<1> DEFINE ads == << >>
           n == NewBreak(b)
<1>1. ads \in Seq(Node) /\ Len(ads) = 0
  BY EmptySeq
<1>2. n = [brkDuration |-> BreakLength[b], ads |-> ads, endPeriod |-> 0, endOffset |-> 0,
           adsDuration |-> 0, adjust |-> FALSE]
  BY DEF NewBreak
<1>3. BreakLength[b] \in Nat
  BY Constants
<1> HIDE DEF ads, n
<1>4. /\ n \in AdBreakObject /\ n.ads = ads /\ n.adsDuration = 0
      /\ n.brkDuration = BreakLength[b] /\ ~n.adjust
  BY <1>1, <1>2, <1>3 DEF AdBreakObject
<1>5. n.adsDuration <= n.brkDuration
  BY <1>3, <1>4
<1>6. Turn(b, n.ads)
  BY <1>1, <1>4 DEF Turn, ads
<1>7. EndKnown(n)
  BY <1>4 DEF EndKnown, ads
<1> QED BY <1>1, <1>4, <1>5, <1>6, <1>7 DEF BreakOK, n

LEMMA NoDataIs ==
    ASSUME NEW q, q \in Breaks \cup {0}
    PROVE  LET data == [NoData EXCEPT !.adBreakId = q]
           IN  /\ data \in Period2AdData /\ data.adBreakId = q
               /\ DOMAIN data.offset2Ad = {}
<1> DEFINE o == << >>
           data == [NoData EXCEPT !.adBreakId = q]
<1>1. o \in Seq(Start) /\ Len(o) = 0
  BY EmptySeq
<1>2. DOMAIN o = 1..Len(o) /\ o \in [1..Len(o) -> Start]
  BY <1>1, LenProperties
<1>3. 1..0 = {}
  OBVIOUS
<1>5. NoData = [filled |-> FALSE, adBreakId |-> 0, duration |-> 0, offset2Ad |-> o]
  BY DEF NoData
<1> HIDE DEF o
<1>4. DOMAIN o = {} /\ o \in Starts
  BY <1>1, <1>2, <1>3, StartsAre
<1>7. NoData \in Period2AdData /\ NoData.offset2Ad = o
  BY <1>4, <1>5 DEF Period2AdData
<1>6. data \in Period2AdData /\ data.adBreakId = q /\ data.offset2Ad = o
  BY <1>7 DEF Period2AdData
<1> QED BY <1>4, <1>6 DEF data

\* Found and pruned: the breaks.
FoundIs(n, m, d, e, K) ==
    /\ n = [b \in DOMAIN n |-> n[b]] /\ DOMAIN n \subseteq Breaks
    /\ \A b \in DOMAIN m \cap K : b \in DOMAIN n
    /\ \A b \in DOMAIN n :
         IF b \in DOMAIN m THEN n[b] = m[b]
         ELSE n[b] = NewBreak(b) /\ b \in Manifest(e) /\ b \notin Manifest(d)

LEMMA TableIs ==
    ASSUME NEW d, NEW e, NEW init \in BOOLEAN, NEW K,
           NEW m, DOMAIN m \subseteq Breaks, NEW map, DOMAIN map = Manifest(d)
    PROVE  FoundIs(Only(FoundTable(e, init, m, map), K), m, d, e, K)
  BY DEF Only, FoundTable, FoundBreaks, FoundIs

\* Found and pruned: the periods.
LEMMA MapIs ==
    ASSUME NEW d \in Nat, NEW e \in Nat, d <= e, NEW init \in BOOLEAN,
           NEW m, NEW map, DOMAIN map = Manifest(d)
    PROVE  LET n == Only(FoundMap(e, init, m, map), Manifest(e))
           IN  /\ n = [q \in Manifest(e) |-> n[q]]
               /\ \A q \in Manifest(e) :
                    IF q \in Manifest(d) THEN n[q] = map[q]
                    ELSE IF q \in FoundBreaks(e, init, map) \ DOMAIN m
                    THEN n[q] = [NoData EXCEPT !.adBreakId = q] ELSE n[q] = NoData
<1> DEFINE f == FoundMap(e, init, m, map)
           n == Only(f, Manifest(e))
<1>1. /\ DOMAIN f = Manifest(d) \cup Manifest(e)
      /\ \A q \in DOMAIN f : f[q] = IF q \in Manifest(d) THEN map[q]
                                    ELSE IF q \in FoundBreaks(e, init, map) \ DOMAIN m
                                    THEN [NoData EXCEPT !.adBreakId = q] ELSE NoData
  BY Zenon DEF FoundMap
<1> HIDE DEF f
<1>2. /\ n = [q \in DOMAIN f \cap Manifest(e) |-> f[q]]
      /\ DOMAIN f \cap Manifest(e) = Manifest(e)
  BY <1>1 DEF Only
<1> HIDE DEF n
<1>3. n = [q \in Manifest(e) |-> f[q]]
  BY <1>2
<1>4. n = [q \in Manifest(e) |-> n[q]] /\ \A q \in Manifest(e) : n[q] = f[q]
  BY <1>3
<1>5. ASSUME NEW q \in Manifest(e)
      PROVE  IF q \in Manifest(d) THEN n[q] = map[q]
             ELSE IF q \in FoundBreaks(e, init, map) \ DOMAIN m
             THEN n[q] = [NoData EXCEPT !.adBreakId = q] ELSE n[q] = NoData
  <2> DEFINE fresh == [NoData EXCEPT !.adBreakId = q]
  <2>1. f[q] = IF q \in Manifest(d) THEN map[q]
               ELSE IF q \in FoundBreaks(e, init, map) \ DOMAIN m THEN fresh ELSE NoData
    BY <1>1
  <2> HIDE DEF fresh
  <2>2. IF q \in Manifest(d) THEN n[q] = map[q]
        ELSE IF q \in FoundBreaks(e, init, map) \ DOMAIN m
        THEN n[q] = fresh ELSE n[q] = NoData
    BY <1>4, <2>1
  <2> QED BY <2>2 DEF fresh
<1> QED BY <1>4, <1>5 DEF n, f

LEMMA PrunedOK ==
    ASSUME NEW d \in Nat, NEW e \in Nat, d <= e, NEW init \in BOOLEAN, NEW brk,
           NEW m, NEW map, NEW pl, NEW nx, TablesOK(m, map, pl, nx, d)
    PROVE  LET table == Only(FoundTable(e, init, m, map), Manifest(e) \cup {pl.brk, brk})
               periods == Only(FoundMap(e, init, m, map), Manifest(e))
           IN  TablesOK(table, periods, pl, nx, e) /\ SameBreaks(table, m)
<1> DEFINE K == Manifest(e) \cup {pl.brk, brk}
           n == Only(FoundTable(e, init, m, map), K)
           new == Only(FoundMap(e, init, m, map), Manifest(e))
<1>1. /\ m = [b \in DOMAIN m |-> m[b]] /\ DOMAIN m \subseteq Breaks
      /\ \A b \in DOMAIN m : BreakOK(b, m[b], d)
      /\ map = [q \in Manifest(d) |-> map[q]]
      /\ \A q \in Manifest(d) : DataOK(m, map[q], d)
      /\ \A b \in DOMAIN m : b \in Manifest(d) /\ Len(m[b].ads) = 0 => map[b].adBreakId = b
      /\ PlacementOK(m, pl, d) /\ nx = NoPlacement
  BY DEF TablesOK
<1>2. /\ n = [b \in DOMAIN n |-> n[b]] /\ DOMAIN n \subseteq Breaks
      /\ \A b \in DOMAIN m \cap K : b \in DOMAIN n
      /\ \A b \in DOMAIN n :
           IF b \in DOMAIN m THEN n[b] = m[b]
           ELSE n[b] = NewBreak(b) /\ b \in Manifest(e) /\ b \notin Manifest(d)
  <2>1. DOMAIN map = Manifest(d) /\ DOMAIN m \subseteq Breaks
    BY <1>1
  <2>2. FoundIs(n, m, d, e, K)
    <3> HIDE DEF K
    <3> QED BY <2>1, TableIs
  <2> HIDE DEF n, K
  <2> QED BY <2>2 DEF FoundIs
<1>3. /\ new = [q \in Manifest(e) |-> new[q]]
      /\ \A q \in Manifest(e) :
           IF q \in Manifest(d) THEN new[q] = map[q]
           ELSE IF q \in FoundBreaks(e, init, map) \ DOMAIN m
           THEN new[q] = [NoData EXCEPT !.adBreakId = q] ELSE new[q] = NoData
  BY <1>1, MapIs
<1>K. pl.brk \in K
  OBVIOUS
<1>N. \A b \in DOMAIN n \ DOMAIN m : b \in FoundBreaks(e, init, map) \ DOMAIN m
  BY DEF Only, FoundTable
<1> HIDE DEF n, new, K
<1>4. ASSUME NEW p, Announced(p, d), p \in Periods PROVE Announced(p, e)
  BY <1>4, PeriodsAre, Constants DEF Announced
<1>5. ASSUME NEW b \in DOMAIN n
      PROVE  BreakOK(b, n[b], e) /\ (b \notin DOMAIN m => Len(n[b].ads) = 0)
  <2>1. b \in Breaks /\ b \in Periods
    BY <1>2, Constants
  <2>2. CASE b \in DOMAIN m
    BY <1>1, <1>2, <1>4, <2>1, <2>2 DEF BreakOK
  <2>3. CASE b \notin DOMAIN m
    <3>1. n[b] = NewBreak(b) /\ Announced(b, e)
      BY <1>2, <2>3 DEF Manifest, InManifest, Announced
    <3> QED BY <2>1, <2>3, <3>1, NewBreakIs
  <2> QED BY <2>2, <2>3
<1>6. ASSUME NEW q \in Manifest(e) PROVE DataOK(n, new[q], e)
  <2>1. CASE q \in Manifest(d)
    <3>1. DataOK(m, map[q], d) /\ new[q] = map[q]
      BY <1>1, <1>3, <2>1
    <3> DEFINE b == map[q].adBreakId
    <3>2. b # 0 => b \in Breaks /\ b \in Periods
      BY <3>1, Constants DEF DataOK, Period2AdData
    <3>3. b # 0 => Announced(b, e)
      BY <3>1, <3>2, <1>4 DEF DataOK
    <3>4. ASSUME b # 0, b \in DOMAIN n PROVE b \in DOMAIN m /\ n[b] = m[b]
      <4>1. SUFFICES ASSUME b \notin DOMAIN m PROVE FALSE
        BY <1>2, <3>4
      <4>2. b \in Manifest(e) /\ b \notin Manifest(d)
        BY <1>2, <3>4, <4>1
      <4>3. StartOf[b] > d + Early
        BY <4>2, JoinsLate
      <4>4. StartOf[b] <= d + Early
        BY <3>1, <3>4 DEF DataOK, Announced
      <4> QED BY <3>2, <3>4, <4>3, <4>4, PeriodsAre, Constants
    <3> QED BY <3>1, <3>3, <3>4 DEF DataOK
  <2>2. CASE q \notin Manifest(d) /\ q \in FoundBreaks(e, init, map) \ DOMAIN m
    <3> DEFINE data == [NoData EXCEPT !.adBreakId = q]
    <3>1. q \in Breaks /\ new[q] = data /\ Announced(q, e)
      BY <1>3, <2>2 DEF FoundBreaks, Manifest, InManifest, Announced
    <3>2. data \in Period2AdData /\ data.adBreakId = q /\ DOMAIN data.offset2Ad = {}
      BY <3>1, NoDataIs
    <3> HIDE DEF data
    <3> QED BY <3>1, <3>2 DEF DataOK
  <2>3. CASE q \notin Manifest(d) /\ q \notin FoundBreaks(e, init, map) \ DOMAIN m
    <3> DEFINE data == [NoData EXCEPT !.adBreakId = 0]
    <3>1. new[q] = NoData
      BY <1>3, <2>3
    <3>2. data \in Period2AdData /\ data.adBreakId = 0 /\ DOMAIN data.offset2Ad = {}
      BY NoDataIs
    <3>3. data = NoData
      BY DEF NoData
    <3> HIDE DEF data
    <3> QED BY <3>1, <3>2, <3>3 DEF DataOK
  <2> QED BY <2>1, <2>2, <2>3
<1>7. ASSUME NEW b \in DOMAIN n, b \in Manifest(e), Len(n[b].ads) = 0
      PROVE  new[b].adBreakId = b
  <2>1. CASE b \in DOMAIN m
    <3>1. b \in Manifest(d)
      <4>1. SUFFICES ASSUME b \notin Manifest(d) PROVE FALSE
        OBVIOUS
      <4>2. StartOf[b] > d + Early
        BY <1>7, <4>1, JoinsLate
      <4>3. StartOf[b] <= d + Early
        BY <1>1, <2>1 DEF BreakOK, Announced
      <4>4. b \in Periods
        BY <1>2, Constants
      <4> QED BY <4>2, <4>3, <4>4, PeriodsAre, Constants
    <3> QED BY <1>1, <1>2, <1>3, <1>7, <2>1, <3>1
  <2>2. CASE b \notin DOMAIN m
    <3>1. b \notin Manifest(d) /\ b \in FoundBreaks(e, init, map) \ DOMAIN m
      BY <1>2, <1>N, <2>2
    <3>2. new[b] = [NoData EXCEPT !.adBreakId = b]
      BY <1>3, <1>7, <3>1
    <3>3. b \in Breaks
      BY <1>2
    <3> QED BY <3>2, <3>3, NoDataIs
  <2> QED BY <2>1, <2>2
<1>8. PlacementOK(n, pl, e)
  <2>1. CASE pl.cur = 0
    BY <1>1, <2>1 DEF PlacementOK
  <2>2. CASE pl.cur # 0
    <3>1. /\ pl.brk \in DOMAIN m /\ AtAd(m[pl.brk], pl) /\ pl \in PlacementObj
          /\ pl.open # 0 /\ pl.counted <= Duration(pl.open, d)
      BY <1>1, <2>2 DEF PlacementOK
    <3>2. pl.brk \in DOMAIN n /\ n[pl.brk] = m[pl.brk]
      BY <1>2, <1>K, <3>1
    <3>3. pl.open \in Periods /\ pl.counted \in Nat
      BY <3>1 DEF PlacementObj
    <3>4. pl.counted <= Duration(pl.open, e)
      BY <3>1, <3>3, DurationGrows
    <3> QED BY <3>1, <3>2, <3>4 DEF PlacementOK
  <2> QED BY <2>1, <2>2
<1>9. SameBreaks(n, m)
  <2>1. \A b \in DOMAIN m : SameAds(m[b], m[b])
    BY DEF SameAds
  <2> QED BY <1>2, <1>5, <2>1 DEF SameBreaks
<1>10. TablesOK(n, new, pl, nx, e)
  BY <1>1, <1>2, <1>3, <1>5, <1>6, <1>7, <1>8 DEF TablesOK
<1> QED BY <1>9, <1>10 DEF n, new, K

\* The ads of all breaks lie one behind the other, and the placement goes on behind them.
AdsLie(m, map, pl) ==
    /\ \A b \in DOMAIN m :
         /\ Laid(m[b].ads) /\ Resumes(m[b])
         /\ Len(m[b].ads) = 0 => Untouched(map, b) /\ m[b].endPeriod = 0
         /\ m[b].adjust => pl.cur # 0 /\ pl.brk = b
    /\ pl.cur # 0 => Trail(m[pl.brk], map, pl)

LEMMA NewBreakLies ==
    ASSUME NEW b
    PROVE  LET new == NewBreak(b)
           IN  /\ Laid(new.ads) /\ Resumes(new) /\ Len(new.ads) = 0
               /\ new.endPeriod = 0 /\ ~new.adjust
<1> DEFINE ads == << >>
           new == NewBreak(b)
<1>1. new.ads = ads /\ new.endPeriod = 0 /\ ~new.adjust
  BY DEF NewBreak
<1>2. Len(ads) = 0
  BY EmptySeq
<1> HIDE DEF ads, new
<1>3. \A i : i \notin 1..Len(ads)
  BY <1>2
<1> QED BY <1>1, <1>2, <1>3 DEF Laid, Resumes, new

\* A period that has just been announced was empty.
LEMMA JoinsEmpty ==
    ASSUME NEW d \in Nat, NEW e \in Nat, d <= e, NEW p \in Manifest(e), p \notin Manifest(d)
    PROVE  Duration(p, d) = 0
<1>1. p \in Periods /\ StartOf[p] \in Nat /\ PeriodLength[p] \in Nat
  BY PeriodsAre, Lengths DEF Manifest
<1>2. StartOf[p] > d + Early
  BY JoinsLate
<1> QED BY <1>1, <1>2, Constants DEF Duration, Smaller, Larger

\* Through a refresh.
LEMMA PrunedLies ==
    ASSUME NEW d \in Nat, NEW e \in Nat, d <= e, NEW init \in BOOLEAN, NEW brk,
           NEW m, NEW map, NEW pl, NEW nx, TablesOK(m, map, pl, nx, d), AdsLie(m, map, pl)
    PROVE  AdsLie(Only(FoundTable(e, init, m, map), Manifest(e) \cup {pl.brk, brk}),
                  Only(FoundMap(e, init, m, map), Manifest(e)), pl)
<1> DEFINE K == Manifest(e) \cup {pl.brk, brk}
           n == Only(FoundTable(e, init, m, map), K)
           new == Only(FoundMap(e, init, m, map), Manifest(e))
<1>1. /\ DOMAIN m \subseteq Breaks /\ map = [q \in Manifest(d) |-> map[q]]
      /\ PlacementOK(m, pl, d) /\ DOMAIN map = Manifest(d)
      /\ \A b \in DOMAIN m : Announced(b, d)
  BY DEF TablesOK, BreakOK
<1>2. FoundIs(n, m, d, e, K)
  <2> HIDE DEF K
  <2> QED BY <1>1, TableIs
<1>3. /\ new = [q \in Manifest(e) |-> new[q]]
      /\ \A q \in Manifest(e) :
           IF q \in Manifest(d) THEN new[q] = map[q]
           ELSE IF q \in FoundBreaks(e, init, map) \ DOMAIN m
           THEN new[q] = [NoData EXCEPT !.adBreakId = q] ELSE new[q] = NoData
  BY <1>1, MapIs
<1>K. pl.brk \in K
  OBVIOUS
<1> HIDE DEF n, new, K
<1>4. /\ DOMAIN new = Manifest(e)
      /\ \A q \in Manifest(e) : IF q \in Manifest(d) THEN new[q] = map[q]
                                ELSE new[q].duration = 0
  <2>1. DOMAIN new = Manifest(e)
    BY <1>3
  <2>2. ASSUME NEW q \in Manifest(e), q \notin Manifest(d) PROVE new[q].duration = 0
    <3> DEFINE fresh == [NoData EXCEPT !.adBreakId = q]
    <3>1. NoData.duration = 0 /\ fresh.duration = 0
      BY DEF NoData
    <3>2. new[q] = fresh \/ new[q] = NoData
      BY <1>3, <2>2
    <3> HIDE DEF fresh
    <3> QED BY <3>1, <3>2
  <2> QED BY <1>3, <2>1, <2>2
<1>5. ASSUME NEW p, Untouched(map, p) PROVE Untouched(new, p)
  BY <1>1, <1>4, <1>5 DEF Untouched
<1>6. ASSUME NEW b \in DOMAIN n
      PROVE  /\ Laid(n[b].ads) /\ Resumes(n[b])
             /\ Len(n[b].ads) = 0 => Untouched(new, b) /\ n[b].endPeriod = 0
             /\ n[b].adjust => pl.cur # 0 /\ pl.brk = b
  <2>1. CASE b \in DOMAIN m
    <3>1. n[b] = m[b]
      BY <1>2, <2>1 DEF FoundIs
    <3> QED BY <1>5, <2>1, <3>1 DEF AdsLie
  <2>2. CASE b \notin DOMAIN m
    <3>1. n[b] = NewBreak(b) /\ b \in Manifest(e) /\ b \notin Manifest(d)
      BY <1>2, <2>2 DEF FoundIs
    <3>2. Untouched(new, b)
      <4> SUFFICES ASSUME NEW q \in Manifest(e), q >= b PROVE new[q].duration = 0
        BY <1>4 DEF Untouched
      <4>1. b \in Periods /\ q \in Periods /\ StartOf[b] \in Nat /\ StartOf[q] \in Nat
        BY <3>1, PeriodsAre DEF Manifest
      <4>2. StartOf[b] > d + Early
        BY <3>1, JoinsLate
      <4>3. StartOf[b] <= StartOf[q]
        <5>1. b \in Nat /\ q \in 1..(Length + 1) /\ PeriodLength[b] \in Nat
          BY <4>1, Lengths
        <5>2. b < q => StartOf[b] + PeriodLength[b] <= StartOf[q]
          BY <4>1, <5>1, StartsGrow
        <5> QED BY <4>1, <5>1, <5>2
      <4>4. q \notin Manifest(d)
        <5>1. SUFFICES ASSUME q \in Manifest(d) PROVE FALSE
          OBVIOUS
        <5>2. StartOf[q] <= d + Early
          BY <5>1 DEF Manifest, InManifest
        <5> QED BY <4>1, <4>2, <4>3, <5>2, Constants
      <4> QED BY <1>4, <4>4
    <3> QED BY <3>1, <3>2, NewBreakLies
  <2> QED BY <2>1, <2>2
<1>7. ASSUME pl.cur # 0 PROVE Trail(n[pl.brk], new, pl)
  <2>1. /\ pl.brk \in DOMAIN m /\ pl \in PlacementObj /\ pl.open # 0
        /\ pl.counted <= Duration(pl.open, d) /\ Trail(m[pl.brk], map, pl)
    BY <1>1, <1>7 DEF PlacementOK, AdsLie
  <2>2. n[pl.brk] = m[pl.brk]
    BY <1>2, <1>K, <2>1 DEF FoundIs
  <2>3. pl.open \in Manifest(e) => new[pl.open].duration = pl.counted
    <3>1. CASE pl.open \in Manifest(d)
      BY <1>1, <1>4, <2>1, <3>1 DEF Trail
    <3>2. CASE pl.open \in Manifest(e) \ Manifest(d)
      <4>1. Duration(pl.open, d) = 0 /\ pl.counted \in Nat
        BY <2>1, <3>2, JoinsEmpty DEF PlacementObj
      <4>2. new[pl.open].duration = 0
        BY <1>4, <3>2
      <4> QED BY <2>1, <4>1, <4>2
    <3> QED BY <3>1, <3>2
  <2> QED BY <1>4, <1>5, <2>1, <2>2, <2>3 DEF Trail
<1>8. AdsLie(n, new, pl)
  BY <1>6, <1>7 DEF AdsLie
<1> QED BY <1>8 DEF n, new, K

LEMMA PlaceAdsOK ==
    ASSUME NEW e \in Nat, NEW s, IsTables(s),
           TablesOK(s.adBreaks, s.periodMap, s.placement, s.nextPlacement, e),
           AdsLie(s.adBreaks, s.periodMap, s.placement),
           \A b, c \in DOMAIN s.adBreaks : b = c
    PROVE  LET r == PlaceAds(e, s)
           IN  /\ TablesOK(r.adBreaks, r.periodMap, r.placement, r.nextPlacement, e)
               /\ AdsLie(r.adBreaks, r.periodMap, r.placement)
               /\ SameBreaks(r.adBreaks, s.adBreaks)
<1> DEFINE m == s.adBreaks
           map == s.periodMap
           pl == s.placement
           b == pl.brk
           o == m[b]
           base == [abObj |-> m[b], map |-> map, pl |-> pl, delta |-> 0,
                    found |-> FALSE, here |-> FALSE, stop |-> FALSE]
           t == Settled(e, Placed(e, s))
           w == WithPlacement(s, t)
           n == [m EXCEPT ![b] = t.abObj]
<1>1. /\ m = [c \in DOMAIN m |-> m[c]] /\ DOMAIN m \subseteq Breaks
      /\ \A c \in DOMAIN m : BreakOK(c, m[c], e)
      /\ map = [q \in Manifest(e) |-> map[q]]
      /\ \A q \in Manifest(e) : DataOK(m, map[q], e)
      /\ \A c \in DOMAIN m : c \in Manifest(e) /\ Len(m[c].ads) = 0 => map[c].adBreakId = c
      /\ PlacementOK(m, pl, e) /\ s.nextPlacement = NoPlacement
  BY DEF TablesOK
<1>2. CASE pl.cur = 0 \/ b \notin DOMAIN m
  <2>1. PlaceAds(e, s) = s
    BY <1>2 DEF PlaceAds
  <2>2. SameBreaks(m, m)
    BY DEF SameBreaks, SameAds
  <2> QED BY <2>1, <2>2
<1>3. CASE pl.cur # 0 /\ b \in DOMAIN m
  <2>1. PlaceAds(e, s) = NextPlacement(w)
    BY <1>3 DEF PlaceAds
  <2>2. /\ b \in Breaks /\ BreakOK(b, o, e) /\ o \in AdBreakObject
        /\ Turn(b, o.ads) /\ EndKnown(o) /\ AtAd(o, pl) /\ pl \in PlacementObj
        /\ pl.open # 0 /\ pl.counted <= Duration(pl.open, e)
    BY <1>1, <1>3 DEF BreakOK, PlacementOK
  <2>3. Placing(b, o, map, e, base)
    <3>1. /\ base.abObj = o /\ base.map = map /\ base.pl = pl
          /\ base = [abObj |-> o, map |-> map, pl |-> pl, delta |-> 0,
                     found |-> FALSE, here |-> FALSE, stop |-> FALSE]
      OBVIOUS
    <3>2. map \in [Manifest(e) -> Period2AdData]
      BY <1>1 DEF DataOK
    <3> HIDE DEF base, o, map, pl, b, m
    <3>3. base \in Work(Manifest(e))
      BY <2>2, <3>1, <3>2 DEF Work
    <3>4. SameAds(o, o)
      BY DEF SameAds
    <3>5. Marked(map, b, Len(o.ads))
      BY <1>1, <1>3 DEF DataOK, Marked, o
    <3>6. Given(map, map, b)
      BY DEF Given
    <3>7. b = pl.brk
      BY DEF b
    <3> QED BY <2>2, <3>1, <3>3, <3>4, <3>5, <3>6, <3>7 DEF Placing
  <2>4. Settles(b, o, map, e, t) /\ Tidy(t)
    <3>0. base = Unplaced(s)
      BY DEF Unplaced
    <3>1. Onward(base)
      <4>1. Laid(o.ads) /\ Trail(o, map, pl)
        BY <1>3 DEF AdsLie
      <4>2. base.abObj = o /\ base.map = map /\ base.pl = pl
        OBVIOUS
      <4> HIDE DEF base, map, o, pl
      <4> QED BY <4>1, <4>2 DEF Onward
    <3> HIDE DEF base, map, o, b
    <3>2. Placing(b, o, map, e, Placed(e, s)) /\ Onward(Placed(e, s))
      BY <2>2, <2>3, <3>0, <3>1, PlacedLies
    <3> QED BY <2>2, <3>2, SettledSettles, SettledLies
  <2> HIDE DEF t
  <2>5. w = [adBreaks |-> n, periodMap |-> t.map, placement |-> t.pl,
             nextPlacement |-> NoPlacement, curBreak |-> s.curBreak]
    <3>1. w = [s EXCEPT !.adBreaks = n, !.periodMap = t.map, !.placement = t.pl]
      BY Zenon DEF WithPlacement
    <3> HIDE DEF n, w
    <3> QED BY <1>1, <3>1 DEF IsTables
  <2> HIDE DEF w
  <2>6. /\ t \in Work(Manifest(e))
        /\ SameAds(t.abObj, o) /\ Turn(b, t.abObj.ads) /\ EndKnown(t.abObj)
        /\ Marked(t.map, b, Len(o.ads)) /\ Given(t.map, map, b)
        /\ t.pl.cur # 0 => Placing(b, o, map, e, t)
        /\ t.abObj \in AdBreakObject /\ t.map \in [Manifest(e) -> Period2AdData]
        /\ t.pl \in PlacementObj
    BY <2>4 DEF Settles, Work
  <2>7. /\ DOMAIN n = DOMAIN m /\ DOMAIN m = {b} /\ n[b] = t.abObj
        /\ n = [c \in DOMAIN n |-> n[c]]
    BY <1>1, <1>3
  <2> HIDE DEF n
  <2>10. Len(n[b].ads) # 0
    <3>1. Len(o.ads) \in Nat /\ Len(o.ads) > 0
      BY <2>2, LenProperties DEF AtAd, AdBreakObject
    <3>2. Len(t.abObj.ads) = Len(o.ads)
      BY <2>6 DEF SameAds
    <3>3. n[b].ads = t.abObj.ads
      BY <2>7
    <3> QED BY <3>1, <3>2, <3>3
  <2>8. BreakOK(b, t.abObj, e)
    <3>1. Len(t.abObj.ads) # 0
      BY <2>7, <2>10
    <3> QED BY <2>2, <2>6, <3>1 DEF BreakOK, SameAds
  <2>9. ASSUME NEW q \in Manifest(e) PROVE DataOK(n, t.map[q], e)
    <3>1. t.map[q] \in Period2AdData
      BY <2>6
    <3>2. t.map[q].adBreakId \in {map[q].adBreakId, b, 0}
      BY <2>6 DEF Given
    <3>3. t.map[q].adBreakId # 0 => Announced(t.map[q].adBreakId, e)
      BY <1>1, <2>2, <3>2 DEF DataOK, BreakOK
    <3>4. \A k \in DOMAIN t.map[q].offset2Ad :
            /\ t.map[q].adBreakId # 0
            /\ t.map[q].adBreakId = b => t.map[q].offset2Ad[k].ad \in 1..Len(o.ads)
      BY <2>6 DEF Marked
    <3>5. Len(t.abObj.ads) = Len(o.ads)
      BY <2>6 DEF SameAds
    <3> QED BY <2>7, <3>1, <3>3, <3>4, <3>5 DEF DataOK
  <2>11. PlacementOK(n, t.pl, e)
    <3>1. CASE t.pl.cur = 0
      BY <2>6, <3>1 DEF PlacementOK
    <3>2. CASE t.pl.cur # 0
      <4>1. /\ AtAd(t.abObj, t.pl) /\ t.pl.brk = b /\ t.pl.open # 0
            /\ t.pl.counted <= Duration(t.pl.open, e)
        BY <2>6, <3>2 DEF Placing
      <4> QED BY <2>6, <2>7, <4>1 DEF PlacementOK
    <3> QED BY <3>1, <3>2
  <2>12. PlacementOK(n, NoPlacement, e)
    <3>1. NoPlacement \in PlacementObj /\ NoPlacement.cur = 0
      BY DEF NoPlacement, PlacementObj
    <3> QED BY <3>1 DEF PlacementOK
  <2>13. SameBreaks(n, m)
    BY <2>6, <2>7 DEF SameBreaks
  <2>17. \A p : p = t.pl \/ (t.pl.cur = 0 /\ p.cur = 0) => AdsLie(n, t.map, p)
    <3> SUFFICES ASSUME NEW p, p = t.pl \/ (t.pl.cur = 0 /\ p.cur = 0)
                 PROVE  AdsLie(n, t.map, p)
      OBVIOUS
    <3>1. /\ Laid(t.abObj.ads) /\ Resumes(t.abObj)
          /\ t.abObj.adjust => t.pl.cur # 0
          /\ t.pl.cur # 0 => Trail(t.abObj, t.map, t.pl) /\ t.pl.brk = b
      BY <2>4, <2>6 DEF Tidy, Placing
    <3>2. \A c \in DOMAIN n : c = b /\ n[c] = t.abObj
      BY <2>7
    <3>3. Len(t.abObj.ads) # 0
      BY <2>7, <2>10
    <3>4. p.cur # 0 => p = t.pl /\ n[p.brk] = t.abObj
      BY <2>7, <3>1
    <3> HIDE DEF b
    <3> QED BY <3>1, <3>2, <3>3, <3>4 DEF AdsLie
  <2>14. \A p : PlacementOK(n, p, e) => TablesOK(n, t.map, p, NoPlacement, e)
    <3>1. t.map = [q \in Manifest(e) |-> t.map[q]]
      BY <2>6
    <3>2. /\ n = [c \in DOMAIN n |-> n[c]] /\ DOMAIN n \subseteq Breaks
          /\ \A c \in DOMAIN n : BreakOK(c, n[c], e) /\ Len(n[c].ads) # 0
      BY <1>1, <2>7, <2>8, <2>10
    <3> QED BY <2>9, <3>1, <3>2 DEF TablesOK
  <2>15. CASE t.pl.cur # 0
    <3>1. NextPlacement(w) = w
      BY <2>5, <2>15 DEF NextPlacement
    <3> HIDE DEF m
    <3> QED BY <2>1, <2>5, <2>11, <2>13, <2>14, <2>17, <3>1 DEF m
  <2>16. CASE t.pl.cur = 0
    <3>0. w.placement.cur = 0 /\ w.nextPlacement.cur = 0
      BY <2>5, <2>16 DEF NoPlacement
    <3>1. NextPlacement(w) = [w EXCEPT !.placement = NoPlacement]
      BY <3>0 DEF NextPlacement
    <3>2. NextPlacement(w) = [adBreaks |-> n, periodMap |-> t.map, placement |-> NoPlacement,
                              nextPlacement |-> NoPlacement, curBreak |-> s.curBreak]
      BY <2>5, <3>1
    <3>3. AdsLie(n, t.map, NoPlacement)
      BY <2>16, <2>17 DEF NoPlacement
    <3> HIDE DEF m
    <3> QED BY <2>1, <2>12, <2>13, <2>14, <3>2, <3>3 DEF m
  <2> QED BY <2>15, <2>16
<1> QED BY <1>2, <1>3

\* Each event works on the tables of the last refresh.
OneIn(m) == \A b, c \in DOMAIN m : b = c

LEMMA RefreshKeepsTables ==
    ASSUME NEW e \in Nat, edge \in Nat, edge <= e, NEW init \in BOOLEAN,
           TablesOK(adBreaks, periodMap, placement, nextPlacement, edge),
           AdsLie(adBreaks, periodMap, placement),
           OneIn(Refreshed(e, init).adBreaks)
    PROVE  LET r == Refreshed(e, init)
           IN  /\ TablesOK(r.adBreaks, r.periodMap, r.placement, r.nextPlacement, e)
               /\ AdsLie(r.adBreaks, r.periodMap, r.placement)
               /\ SameBreaks(r.adBreaks, adBreaks)
<1> DEFINE s == Pruned(e, init)
           r == Refreshed(e, init)
           brk == IF init THEN 0 ELSE curBreak
<1>1. r = PlaceAds(e, s)
  BY RefreshedIs
<1>2. /\ IsTables(s)
      /\ s.adBreaks = Only(FoundTable(e, init, adBreaks, periodMap),
                           Manifest(e) \cup {placement.brk, brk})
      /\ s.periodMap = Only(FoundMap(e, init, adBreaks, periodMap), Manifest(e))
      /\ s.placement = placement /\ s.nextPlacement = nextPlacement
  BY DEF Pruned, IsTables
<1> HIDE DEF s, r, brk
<1>3. /\ TablesOK(s.adBreaks, s.periodMap, s.placement, s.nextPlacement, e)
      /\ AdsLie(s.adBreaks, s.periodMap, s.placement)
      /\ SameBreaks(s.adBreaks, adBreaks)
  <2> DEFINE table == Only(FoundTable(e, init, adBreaks, periodMap),
                           Manifest(e) \cup {placement.brk, brk})
             periods == Only(FoundMap(e, init, adBreaks, periodMap), Manifest(e))
  <2>1. /\ TablesOK(table, periods, placement, nextPlacement, e) /\ SameBreaks(table, adBreaks)
        /\ AdsLie(table, periods, placement)
    <3> DEFINE d == edge
               m == adBreaks
               map == periodMap
               pl == placement
               nx == nextPlacement
    <3>1. d \in Nat /\ d <= e /\ TablesOK(m, map, pl, nx, d) /\ AdsLie(m, map, pl)
      OBVIOUS
    <3> HIDE DEF d, m, map, pl, nx
    <3>2. LET tab == Only(FoundTable(e, init, m, map), Manifest(e) \cup {pl.brk, brk})
              per == Only(FoundMap(e, init, m, map), Manifest(e))
          IN  TablesOK(tab, per, pl, nx, e) /\ SameBreaks(tab, m)
      BY <3>1, PrunedOK, Zenon
    <3>3. LET tab == Only(FoundTable(e, init, m, map), Manifest(e) \cup {pl.brk, brk})
              per == Only(FoundMap(e, init, m, map), Manifest(e))
          IN  AdsLie(tab, per, pl)
      BY <3>1, PrunedLies, Zenon
    <3> QED BY <3>2, <3>3 DEF m, map, pl, nx
  <2>2. s.adBreaks = table /\ s.periodMap = periods
    BY <1>2
  <2> HIDE DEF table, periods
  <2> QED BY <1>2, <2>1, <2>2
<1>4. DOMAIN r.adBreaks = DOMAIN s.adBreaks
  BY <1>1, <1>2, PlaceAdsKeeps
<1>5. \A b, c \in DOMAIN s.adBreaks : b = c
  BY <1>4 DEF OneIn, r
<1>6. /\ TablesOK(r.adBreaks, r.periodMap, r.placement, r.nextPlacement, e)
      /\ AdsLie(r.adBreaks, r.periodMap, r.placement)
      /\ SameBreaks(r.adBreaks, s.adBreaks)
  BY <1>1, <1>2, <1>3, <1>5, PlaceAdsOK
<1>7. SameBreaks(r.adBreaks, adBreaks)
  <2> SUFFICES ASSUME NEW b \in DOMAIN r.adBreaks
               PROVE  IF b \in DOMAIN adBreaks THEN SameAds(r.adBreaks[b], adBreaks[b])
                      ELSE Len(r.adBreaks[b].ads) = 0
    BY DEF SameBreaks
  <2>1. SameAds(r.adBreaks[b], s.adBreaks[b])
    BY <1>4, <1>6 DEF SameBreaks
  <2>2. IF b \in DOMAIN adBreaks THEN SameAds(s.adBreaks[b], adBreaks[b])
        ELSE Len(s.adBreaks[b].ads) = 0
    BY <1>3, <1>4 DEF SameBreaks
  <2>3. CASE b \in DOMAIN adBreaks
    BY <2>1, <2>2, <2>3, SameAdsChain
  <2>4. CASE b \notin DOMAIN adBreaks
    BY <2>1, <2>2, <2>4 DEF SameAds
  <2> QED BY <2>3, <2>4
<1> QED BY <1>6, <1>7 DEF r

\* The ads of n are those of m, or none.
SameNames(n, m) ==
    \A b \in DOMAIN n :
       IF b \in DOMAIN m
       THEN /\ Len(n[b].ads) = Len(m[b].ads)
            /\ \A i \in 1..Len(m[b].ads) : n[b].ads[i].ad = m[b].ads[i].ad
       ELSE Len(n[b].ads) = 0

\* A marked ad stays where it is.
LEMMA InvalidatedOK ==
    ASSUME NEW m, NEW map, NEW pl, NEW nx, NEW e, TablesOK(m, map, pl, nx, e),
           NEW b \in DOMAIN m, NEW i \in 1..Len(m[b].ads)
    PROVE  LET n == [m EXCEPT ![b].ads[i].invalid = TRUE]
           IN  TablesOK(n, map, pl, nx, e) /\ DOMAIN n = DOMAIN m /\ SameNames(n, m)
<1> DEFINE o == m[b]
           node == [o.ads[i] EXCEPT !.invalid = TRUE]
           ads == [o.ads EXCEPT ![i] = node]
           new == [o EXCEPT !.ads = ads]
           n == [m EXCEPT ![b].ads[i].invalid = TRUE]
<1>1. /\ m = [c \in DOMAIN m |-> m[c]] /\ DOMAIN m \subseteq Breaks
      /\ \A c \in DOMAIN m : BreakOK(c, m[c], e)
      /\ map = [q \in Manifest(e) |-> map[q]]
      /\ \A q \in Manifest(e) : DataOK(m, map[q], e)
      /\ \A c \in DOMAIN m : c \in Manifest(e) /\ Len(m[c].ads) = 0 => map[c].adBreakId = c
      /\ PlacementOK(m, pl, e) /\ nx = NoPlacement
  BY DEF TablesOK
<1>2. /\ BreakOK(b, o, e) /\ o \in AdBreakObject /\ o.ads \in Seq(Node)
      /\ Len(o.ads) \in Nat /\ o.ads[i] \in Node
      /\ Turn(b, o.ads) /\ EndKnown(o)
  BY <1>1, LenProperties, ElementOfSeq DEF BreakOK, AdBreakObject
<1>3. /\ n = [m EXCEPT ![b] = new]
  OBVIOUS
<1>4. /\ node \in Node /\ node.ad = o.ads[i].ad /\ node.placed = o.ads[i].placed
      /\ node.duration = o.ads[i].duration /\ node.basePeriod = o.ads[i].basePeriod
      /\ node.baseOffset = o.ads[i].baseOffset
  BY <1>2 DEF Node
<1> HIDE DEF node, o, n
<1>5. /\ ads \in Seq(Node) /\ Len(ads) = Len(o.ads) /\ ads[i] = node
      /\ \A j \in 1..Len(o.ads) : j # i => ads[j] = o.ads[j]
  BY <1>2, <1>4, NodeSet DEF o
<1> HIDE DEF ads
<1>6. \A j \in 1..Len(o.ads) :
        /\ ads[j].ad = o.ads[j].ad /\ ads[j].placed = o.ads[j].placed
        /\ ads[j].duration = o.ads[j].duration
        /\ ads[j].basePeriod = o.ads[j].basePeriod
        /\ ads[j].baseOffset = o.ads[j].baseOffset
  BY <1>4, <1>5
<1>7. /\ new \in AdBreakObject /\ new.ads = ads /\ new.adjust = o.adjust
      /\ new.endPeriod = o.endPeriod /\ new.brkDuration = o.brkDuration
      /\ new.adsDuration = o.adsDuration
  BY <1>2, <1>5 DEF AdBreakObject
<1> HIDE DEF new
<1>8. Len(o.ads) # 0 /\ Len(o.ads) \in 1..Len(o.ads) /\ 1 \in 1..Len(o.ads)
  <2>1. i \in 1..Len(o.ads)
    BY DEF o
  <2> QED BY <1>2, <2>1
<1>9. BreakOK(b, new, e)
  <2>1. Turn(b, new.ads)
    <3>1. o.ads # << >>
      BY <1>2, <1>8, EmptySeq
    <3> QED BY <1>2, <1>5, <1>6, <1>7, <1>8, <3>1 DEF Turn
  <2>2. EndKnown(new)
    <3>1. o.ads # << >>
      BY <1>2, <1>8, EmptySeq
    <3> QED BY <1>2, <1>5, <1>6, <1>7, <1>8, <3>1 DEF EndKnown
  <2> QED BY <1>2, <1>5, <1>7, <1>8, <2>1, <2>2 DEF BreakOK
<1>10. /\ DOMAIN n = DOMAIN m /\ n = [c \in DOMAIN n |-> n[c]] /\ n[b] = new
       /\ \A c \in DOMAIN m : c # b => n[c] = m[c]
  BY <1>1, <1>3
<1>11. \A c \in DOMAIN m : /\ Len(n[c].ads) = Len(m[c].ads)
                           /\ \A j \in 1..Len(m[c].ads) : n[c].ads[j].ad = m[c].ads[j].ad
  <2> SUFFICES ASSUME NEW c \in DOMAIN m
               PROVE  /\ Len(n[c].ads) = Len(m[c].ads)
                      /\ \A j \in 1..Len(m[c].ads) : n[c].ads[j].ad = m[c].ads[j].ad
    OBVIOUS
  <2>1. CASE c = b
    <3>1. n[c].ads = ads /\ m[c] = o
      BY <1>7, <1>10, <2>1 DEF o
    <3> QED BY <1>5, <1>6, <3>1
  <2>2. CASE c # b
    BY <1>10, <2>2
  <2> QED BY <2>1, <2>2
<1>12. PlacementOK(n, pl, e)
  <2>1. CASE pl.cur # 0 /\ pl.brk = b
    <3>1. AtAd(o, pl) /\ pl \in PlacementObj
      BY <1>1, <2>1 DEF PlacementOK, o
    <3>2. AtAd(new, pl)
      <4>1. pl.cur \in Nat
        BY <3>1 DEF PlacementObj
      <4>2. pl.cur # 0
        BY <2>1
      <4>3. /\ Len(o.ads) > 0 /\ pl.cur \in 1..(Len(o.ads) + 1)
            /\ ~o.adjust => /\ pl.cur <= Len(o.ads)
                            /\ pl.next <= o.ads[pl.cur].duration
            /\ o.adjust => o.endPeriod # 0
            /\ \A j \in 1..Len(o.ads) : j < pl.cur => o.ads[j].placed
        BY <3>1 DEF AtAd
      <4>4. /\ Len(new.ads) = Len(o.ads) /\ new.adjust = o.adjust
            /\ new.endPeriod = o.endPeriod
            /\ \A j \in 1..Len(o.ads) : /\ new.ads[j].placed = o.ads[j].placed
                                        /\ new.ads[j].duration = o.ads[j].duration
        BY <1>5, <1>6, <1>7
      <4>5. ~o.adjust => pl.cur \in 1..Len(o.ads)
        BY <1>2, <4>1, <4>2, <4>3
      <4> QED BY <4>3, <4>4, <4>5 DEF AtAd
    <3> QED BY <1>1, <1>10, <2>1, <3>2 DEF PlacementOK
  <2>2. CASE pl.cur = 0 \/ pl.brk # b
    BY <1>1, <1>10, <2>2 DEF PlacementOK
  <2> QED BY <2>1, <2>2
<1>13. \A q \in Manifest(e) : DataOK(n, map[q], e)
  BY <1>1, <1>10, <1>11 DEF DataOK
<1>14. \A c \in DOMAIN n : BreakOK(c, n[c], e)
  BY <1>1, <1>9, <1>10
<1>15. SameNames(n, m)
  BY <1>10, <1>11 DEF SameNames
<1>16. TablesOK(n, map, pl, nx, e)
  BY <1>1, <1>10, <1>11, <1>12, <1>13, <1>14 DEF TablesOK
<1> QED BY <1>10, <1>15, <1>16 DEF n

\* Every ad of the break is where it was.
SamePlaces(new, o) ==
    /\ Len(new.ads) = Len(o.ads) /\ new.adjust = o.adjust
    /\ new.endPeriod = o.endPeriod /\ new.endOffset = o.endOffset
    /\ \A j \in 1..Len(o.ads) :
         /\ new.ads[j].placed = o.ads[j].placed
         /\ new.ads[j].basePeriod = o.ads[j].basePeriod
         /\ BeginOf(new.ads[j]) = BeginOf(o.ads[j]) /\ EndOf(new.ads[j]) = EndOf(o.ads[j])

LEMMA StillLies ==
    ASSUME NEW o, NEW new, SamePlaces(new, o), Laid(o.ads), Resumes(o)
    PROVE  Laid(new.ads) /\ Resumes(new)
  BY DEF SamePlaces, Laid, Resumes

LEMMA StillBehind ==
    ASSUME NEW o \in AdBreakObject, NEW new, SamePlaces(new, o), NEW pl \in PlacementObj,
           AtAd(o, pl), pl.cur # 0, NEW c, Behind(o, pl, c)
    PROVE  Behind(new, pl, c)
<1>1. o.ads \in Seq(Node) /\ Len(o.ads) \in Nat /\ pl.cur \in Nat
  BY LenProperties DEF AdBreakObject, PlacementObj
<1>2. CASE o.adjust
  BY <1>2 DEF SamePlaces, Behind, Closed
<1>3. CASE ~o.adjust
  <2>1. pl.cur \in 1..Len(o.ads)
    BY <1>1, <1>3 DEF AtAd
  <2> QED BY <1>3, <2>1 DEF SamePlaces, Behind
<1> QED BY <1>2, <1>3

\* A marked ad lies where it lay.
LEMMA InvalidatedLies ==
    ASSUME NEW m, NEW map, NEW pl, NEW nx, NEW e, TablesOK(m, map, pl, nx, e),
           AdsLie(m, map, pl), NEW b \in DOMAIN m, NEW i \in 1..Len(m[b].ads)
    PROVE  AdsLie([m EXCEPT ![b].ads[i].invalid = TRUE], map, pl)
<1> DEFINE o == m[b]
           node == [o.ads[i] EXCEPT !.invalid = TRUE]
           ads == [o.ads EXCEPT ![i] = node]
           new == [o EXCEPT !.ads = ads]
           n == [m EXCEPT ![b].ads[i].invalid = TRUE]
<1>1. /\ m = [c \in DOMAIN m |-> m[c]] /\ o \in AdBreakObject /\ o.ads \in Seq(Node)
      /\ PlacementOK(m, pl, e) /\ Len(o.ads) \in Nat /\ o.ads[i] \in Node
  BY LenProperties, ElementOfSeq DEF TablesOK, BreakOK, AdBreakObject
<1>2. n = [m EXCEPT ![b] = new]
  OBVIOUS
<1>3. /\ node \in Node /\ node.placed = o.ads[i].placed
      /\ node.duration = o.ads[i].duration /\ node.basePeriod = o.ads[i].basePeriod
      /\ node.baseOffset = o.ads[i].baseOffset
  BY <1>1 DEF Node
<1> HIDE DEF node, o, n
<1>4. /\ Len(ads) = Len(o.ads) /\ ads[i] = node
      /\ \A j \in 1..Len(o.ads) : j # i => ads[j] = o.ads[j]
  BY <1>1, <1>3, NodeSet DEF o
<1> HIDE DEF ads
<1>5. /\ new.ads = ads /\ new.adjust = o.adjust
      /\ new.endPeriod = o.endPeriod /\ new.endOffset = o.endOffset
  BY <1>1 DEF AdBreakObject
<1> HIDE DEF new
<1>6. SamePlaces(new, o)
  BY <1>3, <1>4, <1>5 DEF SamePlaces, BeginOf, EndOf
<1>7. /\ DOMAIN n = DOMAIN m /\ n[b] = new /\ \A c \in DOMAIN m : c # b => n[c] = m[c]
  BY <1>1, <1>2
<1>8. ASSUME NEW c \in DOMAIN n
      PROVE  /\ Laid(n[c].ads) /\ Resumes(n[c])
             /\ Len(n[c].ads) = 0 => Untouched(map, c) /\ n[c].endPeriod = 0
             /\ n[c].adjust => pl.cur # 0 /\ pl.brk = c
  <2>1. CASE c = b
    <3>1. /\ Laid(o.ads) /\ Resumes(o)
          /\ Len(o.ads) = 0 => Untouched(map, b) /\ o.endPeriod = 0
          /\ o.adjust => pl.cur # 0 /\ pl.brk = b
      BY DEF AdsLie, o
    <3>2. Laid(new.ads) /\ Resumes(new)
      BY <1>6, <3>1, StillLies
    <3> QED BY <1>6, <1>7, <2>1, <3>1, <3>2 DEF SamePlaces
  <2>2. CASE c # b
    BY <1>7, <2>2 DEF AdsLie
  <2> QED BY <2>1, <2>2
<1>9. ASSUME pl.cur # 0 PROVE Trail(n[pl.brk], map, pl)
  <2>1. Trail(m[pl.brk], map, pl) /\ pl.brk \in DOMAIN m /\ AtAd(m[pl.brk], pl)
        /\ pl \in PlacementObj
    BY <1>1, <1>9 DEF AdsLie, PlacementOK
  <2>2. CASE pl.brk = b
    <3>1. Behind(new, pl, At(pl.open, pl.counted))
      <4>1. Behind(o, pl, At(pl.open, pl.counted)) /\ AtAd(o, pl)
        BY <2>1, <2>2 DEF Trail, o
      <4> QED BY <1>1, <1>6, <1>9, <2>1, <4>1, StillBehind
    <3> QED BY <1>7, <2>1, <2>2, <3>1 DEF Trail
  <2>3. CASE pl.brk # b
    BY <1>7, <2>1, <2>3
  <2> QED BY <2>2, <2>3
<1>10. AdsLie(n, map, pl)
  BY <1>8, <1>9 DEF AdsLie
<1> QED BY <1>10 DEF n

-----------------------------------------------------------------------------
(* The playback state machine                                               *)

\* The ad that starts is one of its break.
StartOK(start, m) ==
    /\ start.offset \in Nat /\ start.brk \in DOMAIN m \cup {0}
    /\ start.ad # 0 => /\ start.brk \in DOMAIN m
                       /\ start.ad \in 1..Len(m[start.brk].ads)

LEMMA DiscreteIs ==
    ASSUME NEW data \in Period2AdData, NEW n,
           \A k \in DOMAIN data.offset2Ad : data.offset2Ad[k].ad \in 1..n,
           NEW abObj, NEW p, NEW offset \in Int
    PROVE  LET d == DiscreteStart(data, abObj, p, offset)
           IN  d.offset \in Nat /\ (d.ad # 0 => d.ad \in 1..n)
<1> DEFINE end == IF p = abObj.endPeriod THEN abObj.endOffset ELSE data.duration
           keys == {k \in DOMAIN data.offset2Ad : k <= offset}
           key == Max(keys)
           d == DiscreteStart(data, abObj, p, offset)
<1>1. keys \in SUBSET Int
  BY StartsAre DEF Period2AdData
<1>2. ASSUME keys # {} PROVE key \in keys
  <2>1. \A k \in keys : k <= offset
    OBVIOUS
  <2> HIDE DEF keys
  <2> QED BY <1>1, <1>2, <2>1, GreatestIs
<1>3. d = IF offset <= end /\ keys # {}
          THEN [ad |-> data.offset2Ad[key].ad, offset |-> offset - key]
          ELSE [ad |-> 0, offset |-> 0]
  BY Zenon DEF DiscreteStart, Max
<1> HIDE DEF end, key, d
<1>4. ASSUME keys # {}
      PROVE  offset - key \in Nat /\ data.offset2Ad[key].ad \in 1..n
  BY <1>1, <1>2, <1>4
<1> HIDE DEF keys
<1> QED BY <1>3, <1>4 DEF d

LEMMA SeamlessIs ==
    ASSUME NEW data, NEW n, NEW offset,
           \A k \in DOMAIN data.offset2Ad : data.offset2Ad[k].ad \in 1..n
    PROVE  SeamlessStart(data, offset) # 0 => SeamlessStart(data, offset) \in 1..n
<1> DEFINE key == IF OffsetKey(offset) \in DOMAIN data.offset2Ad THEN OffsetKey(offset)
                  ELSE OffsetKey(offset) + Align
<1>1. SeamlessStart(data, offset)
        = IF key \in DOMAIN data.offset2Ad /\ data.offset2Ad[key].start = 0
          THEN data.offset2Ad[key].ad ELSE 0
  BY Zenon DEF SeamlessStart
<1> HIDE DEF key
<1> QED BY <1>1

\* CheckForAdStart finds one of the ads the period's break has.
LEMMA StartIs ==
    ASSUME NEW s, NEW pl, NEW nx, NEW e, TablesOK(s.breaks, s.map, pl, nx, e),
           NEW init \in BOOLEAN, NEW offset \in Int
    PROVE  StartOK(CheckForAdStart(init, s, offset), s.breaks)
<1> DEFINE data == DataOf(s.map, s.base)
           b == data.adBreakId
           abObj == s.breaks[b]
           n == Len(abObj.ads)
           seam == [ad |-> SeamlessStart(data, offset), offset |-> 0]
           disc == DiscreteStart(data, abObj, s.base, offset)
           start == IF init THEN disc ELSE seam
           brk == IF start.ad = 0 /\ abObj.endPeriod = s.base /\ offset >= abObj.endOffset
                  THEN 0 ELSE b
           found == [ad |-> start.ad, brk |-> brk, offset |-> start.offset]
<1>1. CheckForAdStart(init, s, offset)
        = IF b = 0 \/ b \notin DOMAIN s.breaks THEN NoAd ELSE found
  BY Zenon DEF CheckForAdStart
<1>2. StartOK(NoAd, s.breaks)
  BY DEF StartOK, NoAd
<1>3. ASSUME b # 0, b \in DOMAIN s.breaks PROVE StartOK(found, s.breaks)
  <2>1. DataOK(s.breaks, data, e)
    <3>1. s.base \in DOMAIN s.map
      BY <1>3 DEF DataOf, NoData
    <3>2. s.base \in Manifest(e) /\ data = s.map[s.base]
      BY <3>1 DEF TablesOK, DataOf
    <3> QED BY <3>2 DEF TablesOK
  <2> HIDE DEF data
  <2>2. /\ data \in Period2AdData
        /\ \A k \in DOMAIN data.offset2Ad : data.offset2Ad[k].ad \in 1..n
    BY <1>3, <2>1 DEF DataOK
  <2> HIDE DEF abObj, n
  <2>3. disc.offset \in Nat /\ (disc.ad # 0 => disc.ad \in 1..n)
    BY <2>2, DiscreteIs
  <2>4. seam.offset = 0 /\ (seam.ad # 0 => seam.ad \in 1..n)
    BY <2>2, SeamlessIs
  <2> HIDE DEF disc, seam
  <2>5. start.offset \in Nat /\ (start.ad # 0 => start.ad \in 1..n)
    BY <2>3, <2>4
  <2> HIDE DEF start
  <2>6. brk \in {0, b} /\ (start.ad # 0 => brk = b)
    OBVIOUS
  <2> HIDE DEF brk
  <2>7. n = Len(s.breaks[b].ads)
    BY DEF n, abObj
  <2>8. found.offset = start.offset /\ found.ad = start.ad /\ found.brk = brk
    OBVIOUS
  <2> HIDE DEF found, b
  <2> QED BY <1>3, <2>5, <2>6, <2>7, <2>8 DEF StartOK
<1> HIDE DEF found, b
<1> QED BY <1>1, <1>2, <1>3

\* The fields of an event, one by one.
Event(st, brk, ads, idx, seek, base, breaks, map, off, ch) ==
  [state |-> st, brk |-> brk, ads |-> ads, idx |-> idx, seek |-> seek, base |-> base,
   breaks |-> breaks, map |-> map, offset |-> off, changed |-> ch]
Fields(s, st, brk, ads, idx, seek, base, breaks, map, off, ch) ==
    /\ IsEvent(s) /\ s.state = st /\ s.brk = brk /\ s.ads = ads /\ s.idx = idx
    /\ s.seek = seek /\ s.base = base /\ s.breaks = breaks /\ s.map = map
    /\ s.offset = off /\ s.changed = ch

LEMMA FieldsOf ==
    ASSUME NEW s, NEW st, NEW brk, NEW ads, NEW idx, NEW seek, NEW base, NEW breaks,
           NEW map, NEW off, NEW ch,
           s = Event(st, brk, ads, idx, seek, base, breaks, map, off, ch)
    PROVE  Fields(s, st, brk, ads, idx, seek, base, breaks, map, off, ch)
  BY DEF Event, IsEvent, Fields

\* An ad is played.
LEMMA PlaySets ==
    ASSUME NEW s, IsEvent(s), NEW v, NEW w, NEW x, NEW y
    PROVE  Fields([s EXCEPT !.ads = v, !.idx = w, !.changed = x, !.state = y],
                  y, s.brk, v, w, s.seek, s.base,
                  s.breaks, s.map, s.offset, x)
<1> DEFINE st == s.state
           brk == s.brk
           ads == s.ads
           idx == s.idx
           seek == s.seek
           base == s.base
           breaks == s.breaks
           map == s.map
           off == s.offset
           ch == s.changed
           s0 == Event(st, brk, ads, idx, seek, base, breaks, map, off, ch)
           s1 == Event(st, brk, v, idx, seek, base, breaks, map, off, ch)
           s2 == Event(st, brk, v, w, seek, base, breaks, map, off, ch)
           s3 == Event(st, brk, v, w, seek, base, breaks, map, off, x)
           s4 == Event(y, brk, v, w, seek, base, breaks, map, off, x)
           t == [s EXCEPT !.ads = v, !.idx = w, !.changed = x, !.state = y]
<1>0. s = s0
  BY DEF IsEvent, Event
<1> HIDE DEF st, brk, ads, idx, seek, base, breaks, map, off, ch
<1>1. [s0 EXCEPT !.ads = v] = s1
  BY DEF Event
<1>2. [s1 EXCEPT !.idx = w] = s2
  BY DEF Event
<1>3. [s2 EXCEPT !.changed = x] = s3
  BY DEF Event
<1>4. [s3 EXCEPT !.state = y] = s4
  BY DEF Event
<1> HIDE DEF s0, s1, s2, s3, s4
<1>5. t = [[[[s EXCEPT !.ads = v] EXCEPT !.idx = w] EXCEPT !.changed = x] EXCEPT !.state = y]
  BY Zenon
<1>6. t = s4
  BY <1>0, <1>1, <1>2, <1>3, <1>4, <1>5, Zenon
<1> HIDE DEF t
<1> QED BY <1>6, FieldsOf DEF t, s4, st, brk, ads, idx, seek, base, breaks, map, off, ch

\* The break is left.
LEMMA LeaveSets ==
    ASSUME NEW s, IsEvent(s), NEW v, NEW w, NEW x, NEW y, NEW z
    PROVE  Fields([s EXCEPT !.brk = v, !.ads = w, !.idx = x, !.changed = y, !.state = z],
                  z, v, w, x, s.seek, s.base,
                  s.breaks, s.map, s.offset, y)
<1> DEFINE st == s.state
           brk == s.brk
           ads == s.ads
           idx == s.idx
           seek == s.seek
           base == s.base
           breaks == s.breaks
           map == s.map
           off == s.offset
           ch == s.changed
           s0 == Event(st, brk, ads, idx, seek, base, breaks, map, off, ch)
           s1 == Event(st, v, ads, idx, seek, base, breaks, map, off, ch)
           s2 == Event(st, v, w, idx, seek, base, breaks, map, off, ch)
           s3 == Event(st, v, w, x, seek, base, breaks, map, off, ch)
           s4 == Event(st, v, w, x, seek, base, breaks, map, off, y)
           s5 == Event(z, v, w, x, seek, base, breaks, map, off, y)
           t == [s EXCEPT !.brk = v, !.ads = w, !.idx = x, !.changed = y, !.state = z]
<1>0. s = s0
  BY DEF IsEvent, Event
<1> HIDE DEF st, brk, ads, idx, seek, base, breaks, map, off, ch
<1>1. [s0 EXCEPT !.brk = v] = s1
  BY DEF Event
<1>2. [s1 EXCEPT !.ads = w] = s2
  BY DEF Event
<1>3. [s2 EXCEPT !.idx = x] = s3
  BY DEF Event
<1>4. [s3 EXCEPT !.changed = y] = s4
  BY DEF Event
<1>5. [s4 EXCEPT !.state = z] = s5
  BY DEF Event
<1> HIDE DEF s0, s1, s2, s3, s4, s5
<1>6. t = [[[[[s EXCEPT !.brk = v] EXCEPT !.ads = w] EXCEPT !.idx = x]
              EXCEPT !.changed = y] EXCEPT !.state = z]
  BY Zenon
<1>7. t = s5
  BY <1>0, <1>1, <1>2, <1>3, <1>4, <1>5, <1>6, Zenon
<1> HIDE DEF t
<1> QED BY <1>7, FieldsOf DEF t, s5, st, brk, ads, idx, seek, base, breaks, map, off, ch

\* The content is resumed after the break.
LEMMA LandSets ==
    ASSUME NEW s, IsEvent(s), NEW v, NEW w
    PROVE  Fields([s EXCEPT !.base = v, !.seek = w],
                  s.state, s.brk, s.ads, s.idx, w, v,
                  s.breaks, s.map, s.offset, s.changed)
<1> DEFINE st == s.state
           brk == s.brk
           ads == s.ads
           idx == s.idx
           seek == s.seek
           base == s.base
           breaks == s.breaks
           map == s.map
           off == s.offset
           ch == s.changed
           s0 == Event(st, brk, ads, idx, seek, base, breaks, map, off, ch)
           s1 == Event(st, brk, ads, idx, seek, v, breaks, map, off, ch)
           s2 == Event(st, brk, ads, idx, w, v, breaks, map, off, ch)
           t == [s EXCEPT !.base = v, !.seek = w]
<1>0. s = s0
  BY DEF IsEvent, Event
<1> HIDE DEF st, brk, ads, idx, seek, base, breaks, map, off, ch
<1>1. [s0 EXCEPT !.base = v] = s1
  BY DEF Event
<1>2. [s1 EXCEPT !.seek = w] = s2
  BY DEF Event
<1> HIDE DEF s0, s1, s2
<1>3. t = [[s EXCEPT !.base = v] EXCEPT !.seek = w]
  BY Zenon
<1>4. t = s2
  BY <1>0, <1>1, <1>2, <1>3, Zenon
<1> HIDE DEF t
<1> QED BY <1>4, FieldsOf DEF t, s2, st, brk, ads, idx, seek, base, breaks, map, off, ch

\* A break is entered.
LEMMA EnterSets ==
    ASSUME NEW s, IsEvent(s), NEW v, NEW w
    PROVE  Fields([s EXCEPT !.brk = v, !.offset = w],
                  s.state, v, s.ads, s.idx, s.seek, s.base,
                  s.breaks, s.map, w, s.changed)
<1> DEFINE st == s.state
           brk == s.brk
           ads == s.ads
           idx == s.idx
           seek == s.seek
           base == s.base
           breaks == s.breaks
           map == s.map
           off == s.offset
           ch == s.changed
           s0 == Event(st, brk, ads, idx, seek, base, breaks, map, off, ch)
           s1 == Event(st, v, ads, idx, seek, base, breaks, map, off, ch)
           s2 == Event(st, v, ads, idx, seek, base, breaks, map, w, ch)
           t == [s EXCEPT !.brk = v, !.offset = w]
<1>0. s = s0
  BY DEF IsEvent, Event
<1> HIDE DEF st, brk, ads, idx, seek, base, breaks, map, off, ch
<1>1. [s0 EXCEPT !.brk = v] = s1
  BY DEF Event
<1>2. [s1 EXCEPT !.offset = w] = s2
  BY DEF Event
<1> HIDE DEF s0, s1, s2
<1>3. t = [[s EXCEPT !.brk = v] EXCEPT !.offset = w]
  BY Zenon
<1>4. t = s2
  BY <1>0, <1>1, <1>2, <1>3, Zenon
<1> HIDE DEF t
<1> QED BY <1>4, FieldsOf DEF t, s2, st, brk, ads, idx, seek, base, breaks, map, off, ch

\* The ad is over, or is not played.
LEMMA StopSets ==
    ASSUME NEW s, IsEvent(s), NEW v, NEW w
    PROVE  Fields([s EXCEPT !.state = v, !.changed = w],
                  v, s.brk, s.ads, s.idx, s.seek, s.base,
                  s.breaks, s.map, s.offset, w)
<1> DEFINE st == s.state
           brk == s.brk
           ads == s.ads
           idx == s.idx
           seek == s.seek
           base == s.base
           breaks == s.breaks
           map == s.map
           off == s.offset
           ch == s.changed
           s0 == Event(st, brk, ads, idx, seek, base, breaks, map, off, ch)
           s1 == Event(v, brk, ads, idx, seek, base, breaks, map, off, ch)
           s2 == Event(v, brk, ads, idx, seek, base, breaks, map, off, w)
           t == [s EXCEPT !.state = v, !.changed = w]
<1>0. s = s0
  BY DEF IsEvent, Event
<1> HIDE DEF st, brk, ads, idx, seek, base, breaks, map, off, ch
<1>1. [s0 EXCEPT !.state = v] = s1
  BY DEF Event
<1>2. [s1 EXCEPT !.changed = w] = s2
  BY DEF Event
<1> HIDE DEF s0, s1, s2
<1>3. t = [[s EXCEPT !.state = v] EXCEPT !.changed = w]
  BY Zenon
<1>4. t = s2
  BY <1>0, <1>1, <1>2, <1>3, Zenon
<1> HIDE DEF t
<1> QED BY <1>4, FieldsOf DEF t, s2, st, brk, ads, idx, seek, base, breaks, map, off, ch

\* The next ad is not played.
LEMMA SkipSets ==
    ASSUME NEW s, IsEvent(s), NEW v, NEW w, NEW x
    PROVE  Fields([s EXCEPT !.idx = v, !.changed = w, !.state = x],
                  x, s.brk, s.ads, v, s.seek, s.base,
                  s.breaks, s.map, s.offset, w)
<1> DEFINE st == s.state
           brk == s.brk
           ads == s.ads
           idx == s.idx
           seek == s.seek
           base == s.base
           breaks == s.breaks
           map == s.map
           off == s.offset
           ch == s.changed
           s0 == Event(st, brk, ads, idx, seek, base, breaks, map, off, ch)
           s1 == Event(st, brk, ads, v, seek, base, breaks, map, off, ch)
           s2 == Event(st, brk, ads, v, seek, base, breaks, map, off, w)
           s3 == Event(x, brk, ads, v, seek, base, breaks, map, off, w)
           t == [s EXCEPT !.idx = v, !.changed = w, !.state = x]
<1>0. s = s0
  BY DEF IsEvent, Event
<1> HIDE DEF st, brk, ads, idx, seek, base, breaks, map, off, ch
<1>1. [s0 EXCEPT !.idx = v] = s1
  BY DEF Event
<1>2. [s1 EXCEPT !.changed = w] = s2
  BY DEF Event
<1>3. [s2 EXCEPT !.state = x] = s3
  BY DEF Event
<1> HIDE DEF s0, s1, s2, s3
<1>4. t = [[[s EXCEPT !.idx = v] EXCEPT !.changed = w] EXCEPT !.state = x]
  BY Zenon
<1>5. t = s3
  BY <1>0, <1>1, <1>2, <1>3, <1>4, Zenon
<1> HIDE DEF t
<1> QED BY <1>5, FieldsOf DEF t, s3, st, brk, ads, idx, seek, base, breaks, map, off, ch

\* An ad that is played, or was, is one of its break.
AtOneOfTheAds(state, ads, idx, m) ==
    state \in {"IN_ADBREAK_AD_PLAYING", "IN_ADBREAK_WAIT2CATCHUP"} =>
      ads \in DOMAIN m /\ idx \in 1..Len(m[ads].ads)

\* What onAdEvent works on has its types, and the tables are those of m.
MachineOK(s) ==
    /\ IsEvent(s) /\ s.state \in AdStates
    /\ s.brk \in Breaks \cup {0} /\ s.ads \in Breaks \cup {0}
    /\ s.idx \in 0..Cardinality(Ads) /\ s.seek \in Nat /\ s.base \in Periods
    /\ s.offset \in Nat
    /\ InBreak(s) /\ AtOneOfTheAds(s.state, s.ads, s.idx, s.breaks)

FewAds(m) == \A b \in DOMAIN m : Len(m[b].ads) <= Cardinality(Ads)

EventTables(s, m, map, pl, nx, e) ==
    /\ TablesOK(s.breaks, s.map, pl, nx, e) /\ AdsLie(s.breaks, s.map, pl)
    /\ s.map = map
    /\ DOMAIN s.breaks = DOMAIN m /\ SameNames(s.breaks, m) /\ FewAds(m)

EventOK(s, m, map, pl, nx, e) == MachineOK(s) /\ EventTables(s, m, map, pl, nx, e)

LEMMA CountOfAds == Cardinality(Ads) \in Nat
  BY Constants, FS_CardinalityType

LEMMA AdIndex ==
    ASSUME NEW s, NEW m, NEW map, NEW pl, NEW nx, NEW e, EventTables(s, m, map, pl, nx, e),
           NEW b \in DOMAIN s.breaks, NEW i \in 1..Len(s.breaks[b].ads)
    PROVE  i \in 0..Cardinality(Ads) /\ i # 0 /\ b \in Breaks
<1>1. /\ b \in Breaks /\ b \in DOMAIN m /\ s.breaks[b].ads \in Seq(Node)
  BY DEF EventTables, TablesOK, BreakOK, AdBreakObject
<1>2. Len(s.breaks[b].ads) \in Nat
  BY <1>1, LenProperties
<1>3. Len(s.breaks[b].ads) <= Cardinality(Ads)
  BY <1>1 DEF EventTables, SameNames, FewAds
<1> QED BY <1>1, <1>2, <1>3, CountOfAds

LEMMA PlayOK ==
    ASSUME NEW s, NEW m, NEW map, NEW pl, NEW nx, NEW e, EventOK(s, m, map, pl, nx, e),
           NEW b \in DOMAIN s.breaks, NEW i \in 1..Len(s.breaks[b].ads),
           s.brk \in DOMAIN s.breaks
    PROVE  EventOK(Play(s, b, i), m, map, pl, nx, e)
<1>1. MachineOK(s) /\ EventTables(s, m, map, pl, nx, e)
  BY DEF EventOK
<1>2. i \in 0..Cardinality(Ads) /\ i # 0 /\ b \in Breaks
  BY <1>1, AdIndex
<1> DEFINE t == Play(s, b, i)
<1>3. Fields(t, "IN_ADBREAK_AD_PLAYING", s.brk, b, i, s.seek, s.base, s.breaks, s.map,
             s.offset, TRUE)
  <2>1. IsEvent(s)
    BY <1>1 DEF MachineOK
  <2> QED BY <2>1, PlaySets DEF Play
<1> HIDE DEF t
<1>4. MachineOK(t)
  BY <1>1, <1>2, <1>3 DEF Fields, MachineOK, AdStates, InBreak, AtOneOfTheAds
<1>5. EventTables(t, m, map, pl, nx, e)
  BY <1>1, <1>3 DEF Fields, EventTables
<1> QED BY <1>4, <1>5 DEF EventOK, t

LEMMA LeaveBreakOK ==
    ASSUME NEW s, NEW m, NEW map, NEW pl, NEW nx, NEW e, EventOK(s, m, map, pl, nx, e),
           NEW base \in Periods, NEW seek \in Nat
    PROVE  /\ EventOK(LeaveBreak(s), m, map, pl, nx, e)
           /\ EventOK(LeaveBreak([s EXCEPT !.base = base, !.seek = seek]), m, map, pl, nx, e)
<1>1. MachineOK(s) /\ EventTables(s, m, map, pl, nx, e)
  BY DEF EventOK
<1>2. ASSUME NEW t, t.base \in Periods, t.seek \in Nat, IsEvent(t),
             t.breaks = s.breaks, t.map = s.map, t.offset = s.offset
      PROVE  EventOK(LeaveBreak(t), m, map, pl, nx, e)
  <2> DEFINE u == LeaveBreak(t)
  <2>1. Fields(u, "OUTSIDE_ADBREAK", 0, 0, 0, t.seek, t.base, t.breaks, t.map, t.offset,
               TRUE)
    BY <1>2, LeaveSets DEF LeaveBreak
  <2> HIDE DEF u
  <2>2. MachineOK(u)
    BY <1>1, <1>2, <2>1, CountOfAds DEF Fields, MachineOK, AdStates, InBreak, AtOneOfTheAds
  <2>3. EventTables(u, m, map, pl, nx, e)
    BY <1>1, <1>2, <2>1 DEF Fields, EventTables
  <2> QED BY <2>2, <2>3 DEF EventOK, u
<1>3. EventOK(LeaveBreak(s), m, map, pl, nx, e)
  BY <1>1, <1>2 DEF MachineOK
<1> DEFINE t == [s EXCEPT !.base = base, !.seek = seek]
<1>4. Fields(t, s.state, s.brk, s.ads, s.idx, seek, base, s.breaks, s.map, s.offset,
             s.changed)
  <2>1. IsEvent(s)
    BY <1>1 DEF MachineOK
  <2> QED BY <2>1, LandSets
<1> HIDE DEF t
<1>5. EventOK(LeaveBreak(t), m, map, pl, nx, e)
  BY <1>2, <1>4 DEF Fields
<1> QED BY <1>3, <1>5 DEF t

LEMMA InvalidateOK ==
    ASSUME NEW s, NEW m, NEW map, NEW pl, NEW nx, NEW e, EventOK(s, m, map, pl, nx, e),
           NEW b \in DOMAIN s.breaks, NEW i \in 1..Len(s.breaks[b].ads)
    PROVE  EventOK(Invalidate(s, b, i), m, map, pl, nx, e)
<1>1. MachineOK(s) /\ EventTables(s, m, map, pl, nx, e)
  BY DEF EventOK
<1> DEFINE n == [s.breaks EXCEPT ![b].ads[i].invalid = TRUE]
           t == [s EXCEPT !.breaks = n]
<1>2. Invalidate(s, b, i) = t
  BY <1>1 DEF Invalidate, MachineOK, IsEvent
<1>3. /\ TablesOK(n, s.map, pl, nx, e) /\ DOMAIN n = DOMAIN s.breaks
      /\ SameNames(n, s.breaks) /\ AdsLie(n, s.map, pl)
  BY <1>1, InvalidatedOK, InvalidatedLies DEF EventTables
<1> HIDE DEF n
<1>4. /\ IsEvent(t) /\ t.state = s.state /\ t.brk = s.brk /\ t.ads = s.ads
      /\ t.idx = s.idx /\ t.seek = s.seek /\ t.base = s.base /\ t.breaks = n
      /\ t.map = s.map /\ t.offset = s.offset
  BY <1>1 DEF MachineOK, IsEvent
<1> HIDE DEF t
<1>5. \A c \in DOMAIN n : Len(n[c].ads) = Len(s.breaks[c].ads)
  BY <1>3 DEF SameNames
<1>6. MachineOK(t)
  BY <1>1, <1>3, <1>4, <1>5 DEF MachineOK, InBreak, AtOneOfTheAds
<1>7. SameNames(n, m)
  <2>1. DOMAIN s.breaks = DOMAIN m /\ SameNames(s.breaks, m)
    BY <1>1 DEF EventTables
  <2> QED BY <1>3, <2>1 DEF SameNames
<1>8. EventTables(t, m, map, pl, nx, e)
  BY <1>1, <1>3, <1>4, <1>7 DEF EventTables
<1> QED BY <1>2, <1>6, <1>8 DEF EventOK

LEMMA StopOK ==
    ASSUME NEW s, NEW m, NEW map, NEW pl, NEW nx, NEW e, EventOK(s, m, map, pl, nx, e),
           s.state # "OUTSIDE_ADBREAK" \/ s.brk \in DOMAIN s.breaks
    PROVE  EventOK([s EXCEPT !.state = "IN_ADBREAK_AD_NOT_PLAYING", !.changed = TRUE],
                   m, map, pl, nx, e)
<1> DEFINE t == [s EXCEPT !.state = "IN_ADBREAK_AD_NOT_PLAYING", !.changed = TRUE]
<1>1. MachineOK(s) /\ EventTables(s, m, map, pl, nx, e)
  BY DEF EventOK
<1>2. Fields(t, "IN_ADBREAK_AD_NOT_PLAYING", s.brk, s.ads, s.idx, s.seek, s.base, s.breaks,
             s.map, s.offset, TRUE)
  <2>1. IsEvent(s)
    BY <1>1 DEF MachineOK
  <2> QED BY <2>1, StopSets
<1> HIDE DEF t
<1>3. MachineOK(t)
  BY <1>1, <1>2 DEF Fields, MachineOK, AdStates, InBreak, AtOneOfTheAds
<1>4. EventTables(t, m, map, pl, nx, e)
  BY <1>1, <1>2 DEF Fields, EventTables
<1> QED BY <1>3, <1>4 DEF EventOK, t

LEMMA EnterOK ==
    ASSUME NEW s, NEW m, NEW map, NEW pl, NEW nx, NEW e, EventOK(s, m, map, pl, nx, e),
           s.state = "OUTSIDE_ADBREAK", NEW init \in BOOLEAN, NEW offset \in Int
    PROVE  EventOK(EnterBreak(s, init, offset), m, map, pl, nx, e)
<1> DEFINE start == CheckForAdStart(init, s, offset)
           t == [s EXCEPT !.brk = start.brk, !.offset = start.offset]
           stop == [t EXCEPT !.state = "IN_ADBREAK_AD_NOT_PLAYING", !.changed = TRUE]
           play == Play(t, start.brk, start.ad)
<1>1. MachineOK(s) /\ EventTables(s, m, map, pl, nx, e)
  BY DEF EventOK
<1>2. StartOK(start, s.breaks)
  BY <1>1, StartIs DEF EventTables
<1> HIDE DEF start
<1>3. EnterBreak(s, init, offset)
        = IF start.ad = 0 \/ start.brk = 0 THEN s
          ELSE IF s.breaks[start.brk].ads[start.ad].invalid THEN stop ELSE play
  BY Zenon DEF EnterBreak, EnterAt, start
<1>4. Fields(t, s.state, start.brk, s.ads, s.idx, s.seek, s.base, s.breaks, s.map,
             start.offset, s.changed)
  <2>1. IsEvent(s)
    BY <1>1 DEF MachineOK
  <2> QED BY <2>1, EnterSets
<1> HIDE DEF t
<1>5. ASSUME start.ad # 0, start.brk # 0
      PROVE  EventOK(stop, m, map, pl, nx, e) /\ EventOK(play, m, map, pl, nx, e)
  <2>1. /\ start.brk \in DOMAIN s.breaks /\ start.offset \in Nat
        /\ start.ad \in 1..Len(s.breaks[start.brk].ads)
    BY <1>2, <1>5 DEF StartOK
  <2>2. DOMAIN s.breaks \subseteq Breaks
    BY <1>1 DEF EventTables, TablesOK
  <2>3. MachineOK(t)
    BY <1>1, <1>4, <2>1, <2>2 DEF Fields, MachineOK, InBreak, AtOneOfTheAds
  <2>4. EventTables(t, m, map, pl, nx, e)
    BY <1>1, <1>4 DEF Fields, EventTables
  <2>5. EventOK(t, m, map, pl, nx, e)
    BY <2>3, <2>4 DEF EventOK
  <2>6. /\ t.brk = start.brk /\ t.breaks = s.breaks
    BY <1>4 DEF Fields
  <2>7. EventOK(stop, m, map, pl, nx, e)
    BY <2>1, <2>5, <2>6, StopOK
  <2>8. EventOK(play, m, map, pl, nx, e)
    BY <2>1, <2>5, <2>6, PlayOK
  <2> QED BY <2>7, <2>8
<1> HIDE DEF stop, play
<1> QED BY <1>3, <1>5

LEMMA RejoinOK ==
    ASSUME NEW s, NEW m, NEW map, NEW pl, NEW nx, NEW e, EventOK(s, m, map, pl, nx, e),
           s.state # "OUTSIDE_ADBREAK", NEW offset \in Int
    PROVE  EventOK(RejoinBreak(s, offset), m, map, pl, nx, e)
<1> DEFINE start == CheckForAdStart(FALSE, s, offset)
           leave == LeaveBreak(s)
           marked == Invalidate(s, start.brk, 1)
           play == Play(s, start.brk, start.ad)
<1>1. MachineOK(s) /\ EventTables(s, m, map, pl, nx, e)
  BY DEF EventOK
<1>2. StartOK(start, s.breaks)
  BY <1>1, StartIs DEF EventTables
<1> HIDE DEF start
<1>3. RejoinBreak(s, offset)
        = IF start.ad = 0 THEN IF start.brk = 0 THEN leave ELSE s
          ELSE IF start.ad = 1 /\ offset # 0 THEN marked
          ELSE IF s.breaks[start.brk].ads[start.ad].invalid THEN s ELSE play
  BY Zenon DEF RejoinBreak, RejoinAt, start
<1>4. EventOK(leave, m, map, pl, nx, e)
  <2>1. s.base \in Periods /\ s.seek \in Nat
    BY <1>1 DEF MachineOK
  <2> QED BY <2>1, LeaveBreakOK
<1>5. ASSUME start.ad # 0
      PROVE  /\ EventOK(play, m, map, pl, nx, e)
             /\ start.ad = 1 => EventOK(marked, m, map, pl, nx, e)
  <2>1. /\ start.brk \in DOMAIN s.breaks
        /\ start.ad \in 1..Len(s.breaks[start.brk].ads)
    BY <1>2, <1>5 DEF StartOK
  <2>2. s.brk \in DOMAIN s.breaks
    BY <1>1 DEF MachineOK, InBreak
  <2>3. EventOK(play, m, map, pl, nx, e)
    BY <2>1, <2>2, PlayOK
  <2>4. start.ad = 1 => EventOK(marked, m, map, pl, nx, e)
    BY <2>1, InvalidateOK
  <2> QED BY <2>3, <2>4
<1> HIDE DEF leave, marked, play
<1> QED BY <1>3, <1>4, <1>5

LEMMA NextAdOK ==
    ASSUME NEW s, NEW m, NEW map, NEW pl, NEW nx, NEW e, EventOK(s, m, map, pl, nx, e),
           s.state = "IN_ADBREAK_WAIT2CATCHUP", OneIn(s.breaks)
    PROVE  EventOK(NextAd(s), m, map, pl, nx, e)
<1> DEFINE ads == s.breaks[s.ads].ads
           i == s.idx + 1
           base == s.breaks[s.brk].endPeriod
           seek == s.breaks[s.brk].endOffset
           leave == LeaveBreak([s EXCEPT !.base = base, !.seek = seek])
           skip == [s EXCEPT !.idx = i, !.changed = TRUE,
                             !.state = "IN_ADBREAK_AD_NOT_PLAYING"]
           play == Play(s, s.ads, i)
<1>1. MachineOK(s) /\ EventTables(s, m, map, pl, nx, e)
  BY DEF EventOK
<1>2. NextAd(s) = IF ~ads[s.idx].placed THEN s
                  ELSE IF i > Len(ads) THEN leave
                  ELSE IF ads[i].invalid THEN skip ELSE play
  BY Zenon DEF NextAd
<1>3. /\ s.ads \in DOMAIN s.breaks /\ s.idx \in 1..Len(ads)
      /\ s.brk \in DOMAIN s.breaks /\ s.brk = s.ads
  <2>1. s.ads \in DOMAIN s.breaks /\ s.idx \in 1..Len(ads)
    BY <1>1 DEF MachineOK, AtOneOfTheAds
  <2>2. s.brk \in DOMAIN s.breaks
    BY <1>1 DEF MachineOK, InBreak
  <2> QED BY <2>1, <2>2 DEF OneIn
<1>4. /\ s.breaks[s.ads] \in AdBreakObject /\ EndKnown(s.breaks[s.ads])
      /\ ads \in Seq(Node) /\ Len(ads) \in Nat
  <2>1. BreakOK(s.ads, s.breaks[s.ads], e)
    BY <1>1, <1>3 DEF EventTables, TablesOK
  <2>2. s.breaks[s.ads] \in AdBreakObject /\ EndKnown(s.breaks[s.ads])
    BY <2>1 DEF BreakOK
  <2> QED BY <2>2, LenProperties DEF AdBreakObject
<1>5. ASSUME ads[s.idx].placed, i > Len(ads)
      PROVE  EventOK(leave, m, map, pl, nx, e)
  <2>1. s.idx = Len(ads) /\ ads # << >>
    BY <1>3, <1>4, <1>5, EmptySeq
  <2>2. base \in Periods /\ seek \in Nat
    BY <1>3, <1>4, <1>5, <2>1 DEF EndKnown, AdBreakObject
  <2> HIDE DEF base, seek
  <2> QED BY <2>2, LeaveBreakOK
<1>6. ASSUME ~(i > Len(ads))
      PROVE  EventOK(skip, m, map, pl, nx, e) /\ EventOK(play, m, map, pl, nx, e)
  <2>1. i \in 1..Len(ads)
    BY <1>3, <1>4, <1>6
  <2>2. EventOK(play, m, map, pl, nx, e)
    <3> HIDE DEF i
    <3> QED BY <1>3, <2>1, PlayOK
  <2>3. i \in 0..Cardinality(Ads)
    <3> HIDE DEF i
    <3> QED BY <1>1, <1>3, <2>1, AdIndex
  <2>4. Fields(skip, "IN_ADBREAK_AD_NOT_PLAYING", s.brk, s.ads, i, s.seek, s.base, s.breaks,
               s.map, s.offset, TRUE)
    <3>1. IsEvent(s)
      BY <1>1 DEF MachineOK
    <3> HIDE DEF i
    <3> QED BY <3>1, SkipSets
  <2> HIDE DEF skip, i
  <2>5. MachineOK(skip)
    BY <1>1, <1>3, <2>3, <2>4 DEF Fields, MachineOK, AdStates, InBreak, AtOneOfTheAds
  <2>6. EventTables(skip, m, map, pl, nx, e)
    BY <1>1, <2>4 DEF Fields, EventTables
  <2> QED BY <2>2, <2>5, <2>6 DEF EventOK
<1> HIDE DEF leave, skip, play, ads, i
<1> QED BY <1>2, <1>5, <1>6

LEMMA FinishedOK ==
    ASSUME NEW s, NEW m, NEW map, NEW pl, NEW nx, NEW e, EventOK(s, m, map, pl, nx, e),
           s.state = "IN_ADBREAK_AD_PLAYING"
    PROVE  EventOK(OnAdFinished(s), m, map, pl, nx, e)
<1> DEFINE t == OnAdFinished(s)
<1>1. MachineOK(s) /\ EventTables(s, m, map, pl, nx, e)
  BY DEF EventOK
<1>2. Fields(t, "IN_ADBREAK_WAIT2CATCHUP", s.brk, s.ads, s.idx, s.seek, s.base, s.breaks,
             s.map, s.offset, TRUE)
  <2>1. IsEvent(s)
    BY <1>1 DEF MachineOK
  <2> QED BY <2>1, StopSets DEF OnAdFinished
<1> HIDE DEF t
<1>3. MachineOK(t)
  BY <1>1, <1>2 DEF Fields, MachineOK, AdStates, InBreak, AtOneOfTheAds
<1>4. EventTables(t, m, map, pl, nx, e)
  BY <1>1, <1>2 DEF Fields, EventTables
<1> QED BY <1>3, <1>4 DEF EventOK, t

LEMMA FailedOK ==
    ASSUME NEW s, NEW m, NEW map, NEW pl, NEW nx, NEW e, EventOK(s, m, map, pl, nx, e)
    PROVE  EventOK(OnAdFailed(s), m, map, pl, nx, e)
<1>1. CASE s.state # "IN_ADBREAK_AD_PLAYING"
  BY <1>1 DEF OnAdFailed
<1>2. CASE s.state = "IN_ADBREAK_AD_PLAYING"
  <2> DEFINE t == Invalidate(s, s.ads, s.idx)
  <2>1. MachineOK(s)
    BY DEF EventOK
  <2>2. s.ads \in DOMAIN s.breaks /\ s.idx \in 1..Len(s.breaks[s.ads].ads)
    BY <1>2, <2>1 DEF MachineOK, AtOneOfTheAds
  <2>3. EventOK(t, m, map, pl, nx, e)
    BY <2>2, InvalidateOK
  <2>4. t.state = s.state
    BY <2>1 DEF Invalidate, MachineOK, IsEvent
  <2>5. OnAdFailed(s) = [t EXCEPT !.state = "IN_ADBREAK_AD_NOT_PLAYING", !.changed = TRUE]
    BY <1>2, Zenon DEF OnAdFailed
  <2> DEFINE u == [t EXCEPT !.state = "IN_ADBREAK_AD_NOT_PLAYING", !.changed = TRUE]
  <2> HIDE DEF t
  <2>6. EventOK(u, m, map, pl, nx, e)
    BY <1>2, <2>3, <2>4, StopOK
  <2>7. OnAdFailed(s) = u
    BY <2>5
  <2> HIDE DEF u
  <2> QED BY <2>6, <2>7
<1> QED BY <1>1, <1>2

LEMMA DefaultOK ==
    ASSUME NEW s, NEW m, NEW map, NEW pl, NEW nx, NEW e, EventOK(s, m, map, pl, nx, e),
           OneIn(s.breaks), NEW offset \in Int
    PROVE  EventOK(OnDefault(s, offset), m, map, pl, nx, e)
<1>1. CASE s.state = "OUTSIDE_ADBREAK"
  <2>1. OnDefault(s, offset) = EnterBreak(s, FALSE, offset)
    BY <1>1 DEF OnDefault
  <2> QED BY <1>1, <2>1, EnterOK
<1>2. CASE s.state = "IN_ADBREAK_AD_NOT_PLAYING"
  <2>1. OnDefault(s, offset) = RejoinBreak(s, offset)
    BY <1>2 DEF OnDefault
  <2> QED BY <1>2, <2>1, RejoinOK
<1>3. CASE s.state = "IN_ADBREAK_WAIT2CATCHUP"
  <2>1. OnDefault(s, offset) = NextAd(s)
    BY <1>3 DEF OnDefault
  <2> QED BY <1>3, <2>1, NextAdOK
<1>4. CASE s.state \notin {"OUTSIDE_ADBREAK", "IN_ADBREAK_AD_NOT_PLAYING",
                          "IN_ADBREAK_WAIT2CATCHUP"}
  <2>1. OnDefault(s, offset) = s
    BY <1>4 DEF OnDefault
  <2> QED BY <2>1
<1> QED BY <1>1, <1>2, <1>3, <1>4

-----------------------------------------------------------------------------
(* An ad is given to its break                                              *)

Appended(abObj, node) ==
  [abObj EXCEPT !.ads = Append(@, node), !.adsDuration = @ + node.duration]

\* An ad that may be appended to its break.
MayAppend(b, abObj, node) ==
    /\ node \in Node /\ node.placed = FALSE /\ node.baseOffset = 0
    /\ node.duration <= abObj.brkDuration - abObj.adsDuration
    /\ node.basePeriod = IF abObj.ads = << >> THEN b ELSE 0

LEMMA AppendedIs ==
    ASSUME NEW b \in Breaks, NEW e, NEW abObj, BreakOK(b, abObj, e),
           NEW node, MayAppend(b, abObj, node)
    PROVE  LET new == Appended(abObj, node)
               n == Len(abObj.ads)
           IN  /\ BreakOK(b, new, e) /\ n \in Nat /\ Len(new.ads) = n + 1
               /\ new.ads[n + 1] = node
               /\ \A i \in 1..n : new.ads[i] = abObj.ads[i]
               /\ new.adjust = abObj.adjust /\ new.endPeriod = abObj.endPeriod
<1> DEFINE n == Len(abObj.ads)
           ads == Append(abObj.ads, node)
           d == abObj.adsDuration + node.duration
           new == [abObj EXCEPT !.ads = ads, !.adsDuration = d]
<1>1. /\ abObj \in AdBreakObject /\ abObj.adsDuration <= abObj.brkDuration
      /\ Turn(b, abObj.ads) /\ EndKnown(abObj) /\ Announced(b, e)
      /\ n = 0 => ~abObj.adjust
  BY DEF BreakOK
<1>2. /\ node \in Node /\ node.placed = FALSE /\ node.baseOffset = 0
      /\ node.duration <= abObj.brkDuration - abObj.adsDuration
      /\ node.basePeriod = IF abObj.ads = << >> THEN b ELSE 0
  BY DEF MayAppend
<1>3. abObj.ads \in Seq(Node) /\ n \in Nat
  BY <1>1, LenProperties DEF AdBreakObject
<1>4. /\ ads \in Seq(Node) /\ Len(ads) = n + 1 /\ ads[n + 1] = node
      /\ \A i \in 1..n : ads[i] = abObj.ads[i]
  BY <1>2, <1>3, AppendProperties
<1>5. d \in Nat /\ d <= abObj.brkDuration
  BY <1>1, <1>2 DEF AdBreakObject, Node
<1> HIDE DEF ads, d
<1>6. /\ new \in AdBreakObject /\ new.ads = ads /\ new.adsDuration = d
      /\ new.brkDuration = abObj.brkDuration /\ new.adjust = abObj.adjust
      /\ new.endPeriod = abObj.endPeriod
  BY <1>1, <1>4, <1>5 DEF AdBreakObject
<1>7. Appended(abObj, node) = new
  BY Zenon DEF Appended, ads, d
<1> HIDE DEF new
<1>8. Turn(b, ads)
  <2>1. ads[1].basePeriod = b /\ ads[1].baseOffset = 0
    <3>1. CASE abObj.ads = << >>
      <4>1. n = 0
        BY <1>3, <3>1, EmptySeq
      <4>2. ads[1] = node
        BY <1>4, <4>1
      <4> QED BY <1>2, <3>1, <4>2
    <3>2. CASE abObj.ads # << >>
      <4>1. n # 0
        BY <1>3, <3>2, EmptySeq
      <4>2. ads[1] = abObj.ads[1]
        BY <1>3, <1>4, <4>1
      <4> QED BY <1>1, <3>2, <4>2 DEF Turn
    <3> QED BY <3>1, <3>2
  <2>2. ASSUME NEW i \in 1..(n + 1), NEW j \in 1..(n + 1), j < i, ads[i].basePeriod # 0
        PROVE  ads[j].placed
    <3>1. CASE i = n + 1
      <4>1. abObj.ads = << >>
        BY <1>2, <1>4, <2>2, <3>1
      <4>2. n = 0
        BY <1>3, <4>1, EmptySeq
      <4> QED BY <2>2, <3>1, <4>2
    <3>2. CASE i # n + 1
      <4>1. i \in 1..n /\ j \in 1..n
        BY <1>3, <2>2, <3>2
      <4> QED BY <1>1, <1>4, <2>2, <4>1 DEF Turn
    <3> QED BY <3>1, <3>2
  <2> QED BY <1>4, <2>1, <2>2 DEF Turn
<1>9. EndKnown(new)
  BY <1>2, <1>4, <1>6 DEF EndKnown
<1>10. BreakOK(b, new, e)
  BY <1>1, <1>3, <1>4, <1>5, <1>6, <1>8, <1>9 DEF BreakOK
<1> QED BY <1>3, <1>4, <1>6, <1>7, <1>10

\* The first ad of a break is its first placement.
LEMMA FirstIsPlacedNow ==
    ASSUME NEW m, NEW map, NEW pl, NEW nx, NEW e, TablesOK(m, map, pl, nx, e), OneIn(m),
           NEW b \in DOMAIN m, m[b].ads = << >>
    PROVE  pl.cur = 0
<1> SUFFICES ASSUME pl.cur # 0 PROVE FALSE
  OBVIOUS
<1>1. pl.brk \in DOMAIN m /\ AtAd(m[pl.brk], pl)
  BY DEF TablesOK, PlacementOK
<1>2. pl.brk = b
  BY <1>1 DEF OneIn
<1>3. Len(m[b].ads) > 0
  BY <1>1, <1>2 DEF AtAd
<1>4. Len(m[b].ads) = 0
  BY EmptySeq
<1> QED BY <1>3, <1>4

\* A new ad is where its placement begins, if it is the first.
LEMMA GivenOK ==
    ASSUME NEW m, NEW map, NEW pl, NEW nx, NEW e \in Nat, TablesOK(m, map, pl, nx, e),
           OneIn(m), NEW b \in DOMAIN m, NEW node, MayAppend(b, m[b], node)
    PROVE  LET first == m[b].ads = << >>
               n == [m EXCEPT ![b] = Appended(m[b], node)]
               p == IF first /\ b \in DOMAIN map
                    THEN [map EXCEPT ![b].offset2Ad = Put(@, 0, [ad |-> 1, start |-> 0])]
                    ELSE map
               begin == [brk |-> b, open |-> b, counted |-> 0, cur |-> 1, next |-> 0]
           IN  /\ TablesOK(n, p, IF first THEN begin ELSE pl, nx, e)
               /\ DOMAIN n = DOMAIN m
<1> DEFINE o == m[b]
           first == o.ads = << >>
           new == Appended(o, node)
           n == [m EXCEPT ![b] = new]
           v == [ad |-> 1, start |-> 0]
           p == IF first /\ b \in DOMAIN map
                THEN [map EXCEPT ![b].offset2Ad = Put(@, 0, v)] ELSE map
           begin == [brk |-> b, open |-> b, counted |-> 0, cur |-> 1, next |-> 0]
           k == Len(o.ads)
<1>1. /\ m = [c \in DOMAIN m |-> m[c]] /\ DOMAIN m \subseteq Breaks
      /\ \A c \in DOMAIN m : BreakOK(c, m[c], e)
      /\ map = [q \in Manifest(e) |-> map[q]]
      /\ \A q \in Manifest(e) : DataOK(m, map[q], e)
      /\ \A c \in DOMAIN m : c \in Manifest(e) /\ Len(m[c].ads) = 0 => map[c].adBreakId = c
      /\ PlacementOK(m, pl, e) /\ nx = NoPlacement
  BY DEF TablesOK
<1>2. /\ b \in Breaks /\ b \in Periods /\ b # 0 /\ BreakOK(b, o, e)
      /\ o \in AdBreakObject /\ o.ads \in Seq(Node)
  BY <1>1, Constants DEF BreakOK, AdBreakObject
<1>3. /\ BreakOK(b, new, e) /\ k \in Nat /\ Len(new.ads) = k + 1
      /\ new.ads[k + 1] = node
      /\ \A i \in 1..k : new.ads[i] = o.ads[i]
      /\ new.adjust = o.adjust /\ new.endPeriod = o.endPeriod
  BY <1>2, AppendedIs
<1>4. first <=> k = 0
  BY <1>2, EmptySeq
<1>5. DOMAIN m = {b}
  BY DEF OneIn
<1>M. MayAppend(b, o, node)
  OBVIOUS
<1> HIDE DEF o, new, first, k
<1>6. DOMAIN n = {b} /\ n[b] = new /\ n = [c \in DOMAIN n |-> n[c]]
  BY <1>1, <1>5
<1> HIDE DEF n
<1>8. PlacementOK(n, IF first THEN begin ELSE pl, e)
  <2>1. CASE first
    <3>1. begin \in PlacementObj /\ begin.brk = b /\ begin.open = b
      BY <1>2 DEF PlacementObj
    <3>2. AtAd(new, begin)
      <4>1. k = 0 /\ ~new.adjust
        BY <1>2, <1>3, <1>4, <2>1 DEF BreakOK, k
      <4>2. Len(new.ads) = 1 /\ new.ads[1] = node
        BY <1>3, <4>1
      <4>3. 0 <= node.duration
        BY <1>M DEF MayAppend, Node
      <4> QED BY <4>1, <4>2, <4>3 DEF AtAd
    <3>3. 0 <= Duration(b, e)
      BY <1>2, DurationGrows
    <3> QED BY <1>2, <1>6, <2>1, <3>1, <3>2, <3>3 DEF PlacementOK
  <2>2. CASE ~first /\ pl.cur # 0
    <3>1. /\ pl.brk = b /\ AtAd(o, pl) /\ pl \in PlacementObj
          /\ pl.open # 0 /\ pl.counted <= Duration(pl.open, e)
      BY <1>1, <1>5, <2>2 DEF PlacementOK, o
    <3>2. AtAd(new, pl)
      <4>1. /\ k > 0 /\ pl.cur \in 1..(k + 1)
            /\ ~o.adjust => pl.cur <= k /\ pl.next <= o.ads[pl.cur].duration
            /\ o.adjust => o.endPeriod # 0
            /\ \A j \in 1..k : j < pl.cur => o.ads[j].placed
        BY <3>1 DEF AtAd, k
      <4>2. ~o.adjust => pl.cur \in 1..k
        BY <1>3, <4>1
      <4>3. \A j \in 1..(k + 1) : j < pl.cur => j \in 1..k
        BY <1>3, <4>1
      <4>4. /\ Len(new.ads) > 0 /\ pl.cur \in 1..(Len(new.ads) + 1)
            /\ new.adjust => new.endPeriod # 0
        BY <1>3, <4>1
      <4>5. ~new.adjust => /\ pl.cur <= Len(new.ads)
                           /\ pl.next <= new.ads[pl.cur].duration
        <5>1. ~o.adjust => new.ads[pl.cur] = o.ads[pl.cur]
          BY <1>3, <4>2
        <5> QED BY <1>3, <4>1, <5>1
      <4>6. \A j \in 1..Len(new.ads) : j < pl.cur => new.ads[j].placed
        BY <1>3, <4>1, <4>3
      <4> QED BY <4>4, <4>5, <4>6 DEF AtAd
    <3> QED BY <1>6, <2>2, <3>1, <3>2 DEF PlacementOK
  <2>3. CASE ~first /\ pl.cur = 0
    BY <1>1, <2>3 DEF PlacementOK
  <2> QED BY <2>1, <2>2, <2>3
<1>9. ASSUME NEW q \in Manifest(e), NEW data, data \in Period2AdData,
             data.adBreakId = map[q].adBreakId,
             \A x \in DOMAIN data.offset2Ad :
               \/ x \in DOMAIN map[q].offset2Ad /\ data.offset2Ad[x] = map[q].offset2Ad[x]
               \/ data.adBreakId # 0 /\ data.offset2Ad[x].ad = 1
      PROVE  DataOK(n, data, e)
  <2>1. DataOK(m, map[q], e)
    BY <1>1
  <2>2. data.adBreakId # 0 => Announced(data.adBreakId, e)
    BY <1>9, <2>1 DEF DataOK
  <2>3. ASSUME NEW x \in DOMAIN data.offset2Ad
        PROVE  /\ data.adBreakId # 0
               /\ data.adBreakId = b => data.offset2Ad[x].ad \in 1..(k + 1)
    <3>1. CASE x \in DOMAIN map[q].offset2Ad /\ data.offset2Ad[x] = map[q].offset2Ad[x]
      <4>1. /\ data.adBreakId # 0
            /\ data.adBreakId = b => data.offset2Ad[x].ad \in 1..k
        BY <1>5, <1>9, <2>1, <3>1 DEF DataOK, k, o
      <4> QED BY <1>3, <4>1
    <3>2. CASE data.adBreakId # 0 /\ data.offset2Ad[x].ad = 1
      BY <1>3, <3>2
    <3> QED BY <1>9, <3>1, <3>2
  <2> QED BY <1>3, <1>6, <1>9, <2>2, <2>3 DEF DataOK
<1>10. /\ p = [q \in Manifest(e) |-> p[q]]
       /\ \A q \in Manifest(e) : DataOK(n, p[q], e)
  <2>0. \A q \in Manifest(e) : map[q] \in Period2AdData
    BY <1>1 DEF DataOK
  <2>1. CASE ~(first /\ b \in DOMAIN map)
    <3>1. p = map
      BY <2>1
    <3> HIDE DEF p
    <3> QED BY <1>1, <1>9, <2>0, <3>1
  <2>2. CASE first /\ b \in DOMAIN map
    <3> DEFINE starts == Put(map[b].offset2Ad, 0, v)
               data == [map[b] EXCEPT !.offset2Ad = starts]
    <3>1. b \in Manifest(e) /\ map[b].adBreakId = b /\ map[b].offset2Ad \in Starts
      <4>1. b \in Manifest(e)
        BY <1>1, <2>2
      <4>2. Len(m[b].ads) = 0
        BY <1>4, <2>2 DEF k, o
      <4> QED BY <1>1, <2>0, <4>1, <4>2 DEF Period2AdData
    <3>2. v \in Start /\ v.ad = 1
      BY DEF Start
    <3> HIDE DEF v
    <3>3. /\ starts \in Starts /\ DOMAIN starts = DOMAIN map[b].offset2Ad \cup {0}
          /\ starts[0] = v
          /\ \A x \in DOMAIN map[b].offset2Ad : x # 0 => starts[x] = map[b].offset2Ad[x]
      <4> DEFINE s == map[b].offset2Ad
                 z == 0
      <4>1. s \in Starts /\ z \in Int
        BY <3>1
      <4> HIDE DEF s, z
      <4>2. LET n2 == Put(s, z, v)
            IN  /\ n2 \in Starts /\ DOMAIN n2 = DOMAIN s \cup {z} /\ n2[z] = v
                /\ \A x \in DOMAIN s : x # z => n2[x] = s[x]
        BY <3>2, <4>1, StartAdded
      <4> QED BY <4>2 DEF s, z
    <3> HIDE DEF starts
    <3>4. /\ data \in Period2AdData /\ data.adBreakId = map[b].adBreakId
          /\ data.offset2Ad = starts
      BY <2>0, <3>1, <3>3 DEF Period2AdData
    <3>5. p = [map EXCEPT ![b] = data]
      BY <2>2 DEF starts
    <3> HIDE DEF p, data
    <3>6. /\ p = [q \in Manifest(e) |-> p[q]] /\ p[b] = data
          /\ \A q \in Manifest(e) : q # b => p[q] = map[q]
      BY <1>1, <3>1, <3>5
    <3>7. DataOK(n, data, e)
      BY <1>2, <1>9, <3>1, <3>2, <3>3, <3>4
    <3>8. \A q \in Manifest(e) : q # b => DataOK(n, map[q], e)
      BY <1>9, <2>0
    <3> QED BY <3>6, <3>7, <3>8
  <2> QED BY <2>1, <2>2
<1> HIDE DEF p, begin
<1>11. \A c \in DOMAIN n : BreakOK(c, n[c], e) /\ Len(n[c].ads) # 0
  BY <1>3, <1>6
<1>12. DOMAIN n \subseteq Breaks /\ DOMAIN n = DOMAIN m
  BY <1>2, <1>5, <1>6
<1>13. TablesOK(n, p, IF first THEN begin ELSE pl, nx, e)
  <2> DEFINE r == IF first THEN begin ELSE pl
  <2>1. PlacementOK(n, r, e)
    BY <1>8
  <2> HIDE DEF r
  <2>2. TablesOK(n, p, r, nx, e)
    BY <1>1, <1>6, <1>10, <1>11, <1>12, <2>1 DEF TablesOK
  <2> QED BY <2>2 DEF r
<1> QED BY <1>12, <1>13 DEF n, p, begin, first, new, o

\* A new ad lies nowhere, or where its break begins.
LEMMA GivenLies ==
    ASSUME NEW m, NEW map, NEW pl, NEW nx, NEW e \in Nat, TablesOK(m, map, pl, nx, e),
           AdsLie(m, map, pl), OneIn(m), NEW b \in DOMAIN m,
           NEW node, MayAppend(b, m[b], node)
    PROVE  LET first == m[b].ads = << >>
               n == [m EXCEPT ![b] = Appended(m[b], node)]
               p == IF first /\ b \in DOMAIN map
                    THEN [map EXCEPT ![b].offset2Ad = Put(@, 0, [ad |-> 1, start |-> 0])]
                    ELSE map
               begin == [brk |-> b, open |-> b, counted |-> 0, cur |-> 1, next |-> 0]
           IN  AdsLie(n, p, IF first THEN begin ELSE pl)
<1> DEFINE o == m[b]
           first == o.ads = << >>
           new == Appended(o, node)
           n == [m EXCEPT ![b] = new]
           v == [ad |-> 1, start |-> 0]
           p == IF first /\ b \in DOMAIN map
                THEN [map EXCEPT ![b].offset2Ad = Put(@, 0, v)] ELSE map
           begin == [brk |-> b, open |-> b, counted |-> 0, cur |-> 1, next |-> 0]
           k == Len(o.ads)
           r == IF first THEN begin ELSE pl
<1>1. /\ m = [c \in DOMAIN m |-> m[c]] /\ DOMAIN m \subseteq Breaks
      /\ map \in [Manifest(e) -> Period2AdData] /\ PlacementOK(m, pl, e)
      /\ \A c \in DOMAIN m : BreakOK(c, m[c], e)
  BY DEF TablesOK, DataOK
<1>2. /\ b \in Breaks /\ b \in Periods /\ BreakOK(b, o, e) /\ StartOf[b] \in Nat
      /\ o \in AdBreakObject /\ o.ads \in Seq(Node) /\ (k = 0 => ~o.adjust)
  BY <1>1, Constants, PeriodsAre DEF BreakOK, AdBreakObject
<1>M. MayAppend(b, o, node) /\ node \in Node /\ ~node.placed
  BY DEF MayAppend
<1>3. /\ k \in Nat /\ Len(new.ads) = k + 1 /\ new.ads[k + 1] = node
      /\ \A i \in 1..k : new.ads[i] = o.ads[i]
      /\ new.adjust = o.adjust /\ new.endPeriod = o.endPeriod
  BY <1>2, <1>M, AppendedIs
<1>4. new.endOffset = o.endOffset
  BY <1>2 DEF Appended, AdBreakObject
<1>5. (first <=> k = 0) /\ (~first => node.basePeriod = 0)
  BY <1>2, <1>M, EmptySeq DEF MayAppend
<1>6. DOMAIN m = {b}
  BY DEF OneIn
<1>L. /\ Laid(o.ads) /\ Resumes(o)
      /\ k = 0 => Untouched(map, b) /\ o.endPeriod = 0
      /\ o.adjust => pl.cur # 0 /\ pl.brk = b
      /\ pl.cur # 0 => Trail(m[pl.brk], map, pl)
  BY DEF AdsLie
<1>F. first => /\ new.ads[1] = node /\ node.basePeriod = b /\ node.baseOffset = 0
  BY <1>3, <1>5, <1>M DEF MayAppend
<1>7. DOMAIN p = DOMAIN map /\ \A q \in DOMAIN map : p[q].duration = map[q].duration
  <2>1. CASE ~(first /\ b \in DOMAIN map)
    BY <2>1
  <2>2. CASE first /\ b \in DOMAIN map
    <3> DEFINE x == Put(map[b].offset2Ad, 0, v)
               data == [map[b] EXCEPT !.offset2Ad = x]
    <3>1. p = [map EXCEPT ![b] = data]
      BY <2>2
    <3> HIDE DEF x, p
    <3>2. map[b] \in Period2AdData
      BY <1>1, <2>2
    <3>3. data.duration = map[b].duration
      BY <3>2 DEF Period2AdData
    <3> HIDE DEF data
    <3> QED BY <1>1, <3>1, <3>3
  <2> QED BY <2>1, <2>2
<1> HIDE DEF p, o, new, first, k
<1>8. \A q : Untouched(map, q) => Untouched(p, q)
  BY <1>7 DEF Untouched
<1>9. DOMAIN n = {b} /\ n[b] = new
  BY <1>1, <1>6
<1> HIDE DEF n
<1>10. Laid(new.ads) /\ Resumes(new)
  <2>1. \A i \in 1..(k + 1) : i \in 1..k \/ i = k + 1
    BY <1>3
  <2>2. Len(o.ads) = k
    BY DEF k
  <2>3. \A i \in 1..(k + 1) : new.ads[i].placed => new.ads[i].basePeriod # 0
    BY <1>3, <1>L, <1>M, <2>1, <2>2 DEF Laid
  <2>4. ASSUME NEW i \in 1..(k + 1), NEW j \in 1..(k + 1), j < i, new.ads[i].basePeriod # 0
        PROVE  EndOf(new.ads[j]) <= BeginOf(new.ads[i])
    <3>1. i \in 1..k /\ j \in 1..k
      <4>1. SUFFICES ASSUME i = k + 1 PROVE FALSE
        BY <1>3, <2>1, <2>4
      <4>2. first
        BY <1>3, <1>5, <2>4, <4>1
      <4> QED BY <1>5, <2>4, <4>1, <4>2
    <3> QED BY <1>3, <1>L, <2>2, <2>4, <3>1 DEF Laid
  <2>5. Resumes(new)
    <3> SUFFICES ASSUME new.endPeriod # 0, ~new.adjust, NEW j \in 1..(k + 1), new.ads[j].placed
                 PROVE  EndOf(new.ads[j]) < At(new.endPeriod, new.endOffset) + 2 * Align
      BY <1>3 DEF Resumes
    <3>1. j \in 1..k
      BY <1>3, <1>M, <2>1
    <3> QED BY <1>3, <1>4, <1>L, <2>2, <3>1 DEF Resumes
  <2> QED BY <1>3, <2>3, <2>4, <2>5 DEF Laid
<1>11. ASSUME first PROVE AdsLie(n, p, r)
  <2>1. k = 0 /\ ~o.adjust /\ r = begin
    BY <1>2, <1>5, <1>11 DEF k, o
  <2>2. Len(new.ads) = 1 /\ ~new.adjust /\ new.endPeriod = 0
    BY <1>3, <1>L, <2>1
  <2>3. Untouched(p, b) /\ Untouched(p, b + 1)
    <3>1. Untouched(p, b)
      BY <1>8, <1>L, <2>1
    <3>2. \A q \in DOMAIN p : q \in Nat
      BY <1>1, <1>7, PeriodsAre DEF Manifest
    <3>3. b \in Nat
      BY <1>2, PeriodsAre
    <3>4. \A q \in DOMAIN p : q >= b + 1 => q >= b
      BY <3>2, <3>3
    <3> QED BY <3>1, <3>4 DEF Untouched
  <2>4. b \in DOMAIN p => p[b].duration = 0
    BY <2>3, <1>2, PeriodsAre DEF Untouched
  <2>5. Behind(new, begin, At(b, 0))
    <3>1. BeginOf(new.ads[1]) = At(b, 0) /\ At(b, 0) \in Nat
      BY <1>2, <1>11, <1>F DEF BeginOf, At
    <3>2. ~new.ads[1].placed
      BY <1>11, <1>F, <1>M
    <3> DEFINE z == At(b, 0)
    <3> HIDE DEF z
    <3>3. BeginOf(new.ads[1]) + 0 <= z
      BY <3>1 DEF z
    <3>4. \A j \in 1..1 : j = 1 /\ ~(j < 1)
      OBVIOUS
    <3>5. \A j \in 1..Len(new.ads) : IF j < 1 THEN EndOf(new.ads[j]) <= z
                                     ELSE ~new.ads[j].placed
      BY <2>2, <3>2, <3>4
    <3>6. new.ads[1].basePeriod # 0
      BY <1>2, <1>11, <1>F, PeriodsAre
    <3>7. begin.cur = 1 /\ begin.next = 0
      OBVIOUS
    <3> HIDE DEF begin
    <3>8. Behind(new, begin, z)
      BY <2>2, <3>3, <3>5, <3>6, <3>7 DEF Behind
    <3> QED BY <3>8 DEF z
  <2>6. Trail(new, p, begin)
    BY <2>3, <2>4, <2>5 DEF Trail
  <2>7. begin.brk = b
    OBVIOUS
  <2> HIDE DEF begin, r
  <2>8. AdsLie(n, p, begin)
    BY <1>9, <1>10, <2>2, <2>6, <2>7 DEF AdsLie
  <2> QED BY <2>1, <2>8
<1>12. ASSUME ~first PROVE AdsLie(n, p, r)
  <2>1. r = pl /\ k # 0
    BY <1>5, <1>12
  <2>2. ASSUME pl.cur # 0 PROVE Trail(new, p, pl)
    <3>1. /\ pl.brk = b /\ pl \in PlacementObj /\ AtAd(o, pl) /\ Trail(o, map, pl)
      BY <1>1, <1>6, <1>L, <2>2 DEF PlacementOK, o
    <3>2. Behind(new, pl, At(pl.open, pl.counted))
      <4> DEFINE c == At(pl.open, pl.counted)
      <4>1. Behind(o, pl, c) /\ pl.cur \in Nat
        BY <3>1 DEF Trail, PlacementObj
      <4> HIDE DEF c
      <4>2. Len(o.ads) = k /\ \A j \in 1..(k + 1) : j \in 1..k \/ j = k + 1
        BY <1>3 DEF k
      <4>3. ASSUME o.adjust PROVE Behind(new, pl, c)
        BY <1>3, <1>4, <1>M, <4>1, <4>2, <4>3 DEF Behind, Closed
      <4>4. ASSUME ~o.adjust PROVE Behind(new, pl, c)
        <5>1. pl.cur \in 1..k /\ ~(k + 1 < pl.cur)
          BY <1>3, <2>2, <3>1, <4>1, <4>2, <4>4 DEF AtAd
        <5>2. \A j \in 1..(k + 1) : IF j < pl.cur THEN EndOf(new.ads[j]) <= c
                                    ELSE ~new.ads[j].placed
          BY <1>3, <1>M, <4>1, <4>2, <4>4, <5>1 DEF Behind
        <5>3. IF new.ads[pl.cur].basePeriod # 0
              THEN BeginOf(new.ads[pl.cur]) + pl.next <= c ELSE pl.next = 0
          BY <1>3, <4>1, <4>4, <5>1 DEF Behind
        <5>4. new.endPeriod = 0 /\ ~new.adjust
          BY <1>3, <4>1, <4>4 DEF Behind
        <5> QED BY <1>3, <5>2, <5>3, <5>4 DEF Behind
      <4>5. Behind(new, pl, c)
        BY <4>3, <4>4
      <4> QED BY <4>5 DEF c
    <3> QED BY <1>7, <1>8, <3>1, <3>2 DEF Trail
  <2>3. Len(new.ads) # 0 /\ (new.adjust => pl.cur # 0 /\ pl.brk = b)
    BY <1>3, <1>L
  <2>4. pl.cur # 0 => pl.brk = b
    BY <1>1, <1>6 DEF PlacementOK
  <2> HIDE DEF r, begin
  <2>5. \A c \in DOMAIN n : c = b /\ n[c] = new
    BY <1>9
  <2>6. pl.cur # 0 => n[pl.brk] = new
    BY <1>9, <2>4
  <2>7. AdsLie(n, p, pl)
    BY <1>10, <2>2, <2>3, <2>5, <2>6 DEF AdsLie
  <2> QED BY <2>1, <2>7
<1>13. AdsLie(n, p, r)
  BY <1>11, <1>12
<1> QED BY <1>13 DEF r, begin, n, p, first, new, o

-----------------------------------------------------------------------------
(* The invariant                                                            *)

\* No two breaks are known at a time.
OneAtATime == \A b, c \in DOMAIN adBreaks : b = c

Types ==
    /\ edge \in 0..MaxEdge /\ thread \in {"idle", "started", "download"}
    /\ mode \in {"refresh", "loop", "fetch"}
    /\ basePeriod \in Periods /\ current \in Periods
    /\ baseOffset \in Int /\ pos \in Nat /\ seekOffset \in Nat

Machine ==
    /\ adState \in AdStates /\ curBreak \in Breaks \cup {0} /\ curAds \in Breaks \cup {0}
    /\ curAdIdx \in 0..Cardinality(Ads) /\ CurrentBreakIsKept
    /\ AtOneOfTheAds(adState, curAds, curAdIdx, adBreaks)

\* An ad is given once: it is in one place of its break, and was asked for.
Names ==
  \A b \in DOMAIN adBreaks : LET ads == adBreaks[b].ads IN
    \A i \in 1..Len(ads) :
       /\ ads[i].ad \in asked /\ (thread # "idle" => ads[i].ad # fulfil.ad)
       /\ \A j \in 1..Len(ads) : ads[i].ad = ads[j].ad => i = j

Giving == asked \subseteq Ads /\ (thread # "idle" => fulfil.ad \in asked)

IInv == /\ Types /\ Machine /\ Names /\ Giving
        /\ TablesOK(adBreaks, periodMap, placement, nextPlacement, edge)
        /\ AdsLie(adBreaks, periodMap, placement)

LEMMA EdgeIs == ASSUME Types PROVE edge \in Nat
  BY PeriodsAre DEF Types

\* A break has no more ads than there are.
LEMMA FewAdsThen == ASSUME IInv PROVE FewAds(adBreaks)
<1> SUFFICES ASSUME NEW b \in DOMAIN adBreaks
             PROVE  Len(adBreaks[b].ads) <= Cardinality(Ads)
  BY DEF FewAds
<1> DEFINE ads == adBreaks[b].ads
           n == Len(ads)
           f == [i \in 1..n |-> ads[i].ad]
<1>1. ads \in Seq(Node) /\ n \in Nat
  <2>1. BreakOK(b, adBreaks[b], edge)
    BY DEF IInv, TablesOK
  <2>2. ads \in Seq(Node)
    BY <2>1 DEF BreakOK, AdBreakObject
  <2> QED BY <2>2, LenProperties
<1>2. \A i \in 1..n : ads[i].ad \in Ads /\ \A j \in 1..n : ads[i].ad = ads[j].ad => i = j
  BY DEF IInv, Names, Giving
<1> HIDE DEF ads, n
<1>3. f \in Injection(1..n, Ads)
  BY <1>2 DEF Injection, IsInjective
<1>4. Cardinality(1..n) = n
  BY <1>1, FS_Interval
<1>5. Cardinality(1..n) <= Cardinality(Ads)
  BY <1>3, Constants, FS_Injection
<1> QED BY <1>4, <1>5 DEF n, ads

LEMMA EventNow ==
    ASSUME IInv, NEW b \in Periods
    PROVE  /\ EventOK(AdNow, adBreaks, periodMap, placement, nextPlacement, edge)
           /\ EventOK([AdNow EXCEPT !.base = b], adBreaks, periodMap, placement,
                      nextPlacement, edge)
           /\ AdNow.state = adState /\ AdNow.breaks = adBreaks
           /\ [AdNow EXCEPT !.base = b].breaks = adBreaks
<1>0. SameNames(adBreaks, adBreaks) /\ FewAds(adBreaks)
  BY FewAdsThen DEF SameNames
<1>1. ASSUME NEW t, NEW a \in Periods,
             Fields(t, adState, curBreak, curAds, curAdIdx, seekOffset, a, adBreaks,
                    periodMap, 0, FALSE)
      PROVE  EventOK(t, adBreaks, periodMap, placement, nextPlacement, edge)
  <2>1. MachineOK(t)
    BY <1>1 DEF IInv, Types, Machine, MachineOK, Fields, InBreak, CurrentBreakIsKept
  <2>2. EventTables(t, adBreaks, periodMap, placement, nextPlacement, edge)
    BY <1>0, <1>1 DEF IInv, EventTables, Fields
  <2> QED BY <2>1, <2>2 DEF EventOK
<1>2. ASSUME NEW a
      PROVE  Fields([AdNow EXCEPT !.base = a], adState, curBreak, curAds, curAdIdx,
                    seekOffset, a, adBreaks, periodMap, 0, FALSE)
  <2> DEFINE f == FALSE
             z == 0
             u == [AdNow EXCEPT !.base = a]
  <2>1. AdNow = Event(adState, curBreak, curAds, curAdIdx, seekOffset, basePeriod, adBreaks,
                      periodMap, z, f)
    BY DEF AdNow, Event
  <2> HIDE DEF f, z
  <2>2. u = Event(adState, curBreak, curAds, curAdIdx, seekOffset, a, adBreaks, periodMap,
                  z, f)
    BY <2>1 DEF Event
  <2> HIDE DEF u
  <2>3. Fields(u, adState, curBreak, curAds, curAdIdx, seekOffset, a, adBreaks, periodMap,
               z, f)
    BY <2>2, FieldsOf
  <2> QED BY <2>3 DEF u, z, f
<1>3. Fields(AdNow, adState, curBreak, curAds, curAdIdx, seekOffset, basePeriod, adBreaks,
             periodMap, 0, FALSE)
  BY DEF AdNow, Fields, IsEvent
<1>4. basePeriod \in Periods
  BY DEF IInv, Types
<1> DEFINE s == AdNow
           t == [AdNow EXCEPT !.base = b]
<1> HIDE DEF s, t
<1>5. /\ Fields(s, adState, curBreak, curAds, curAdIdx, seekOffset, basePeriod, adBreaks,
                periodMap, 0, FALSE)
      /\ Fields(t, adState, curBreak, curAds, curAdIdx, seekOffset, b, adBreaks,
                periodMap, 0, FALSE)
  BY <1>2, <1>3 DEF s, t
<1>6. /\ EventOK(s, adBreaks, periodMap, placement, nextPlacement, edge)
      /\ EventOK(t, adBreaks, periodMap, placement, nextPlacement, edge)
      /\ s.state = adState /\ s.breaks = adBreaks /\ t.breaks = adBreaks
  BY <1>1, <1>4, <1>5 DEF Fields
<1> QED BY <1>6 DEF s, t

\* What does not change the ads leaves their names alone.
LEMMA NamesKept ==
    ASSUME Names, SameNames(adBreaks', adBreaks), asked' = asked, thread' = thread,
           fulfil' = fulfil
    PROVE  Names'
<1> SUFFICES ASSUME NEW b \in DOMAIN adBreaks', NEW i \in 1..Len(adBreaks'[b].ads)
             PROVE  LET ads == adBreaks'[b].ads
                    IN  /\ ads[i].ad \in asked /\ (thread # "idle" => ads[i].ad # fulfil.ad)
                        /\ \A j \in 1..Len(ads) : ads[i].ad = ads[j].ad => i = j
  BY DEF Names
<1>1. CASE b \in DOMAIN adBreaks
  BY <1>1 DEF Names, SameNames
<1>2. CASE b \notin DOMAIN adBreaks
  <2>1. Len(adBreaks'[b].ads) = 0
    BY <1>2 DEF SameNames
  <2> QED BY <2>1
<1> QED BY <1>1, <1>2

\* The event's effect on the variables.
LEMMA BecomesOK ==
    ASSUME Names, Giving, NEW s, NEW m, NEW map, NEW pl, NEW nx,
           EventOK(s, m, map, pl, nx, edge), SameNames(m, adBreaks), AdBecomes(s),
           periodMap' = map, placement' = pl, nextPlacement' = nx, edge' = edge,
           asked' = asked, fulfil' = fulfil, thread' = thread
    PROVE  /\ Machine' /\ Names' /\ Giving'
           /\ TablesOK(adBreaks', periodMap', placement', nextPlacement', edge')
           /\ AdsLie(adBreaks', periodMap', placement')
<1>1. /\ MachineOK(s) /\ TablesOK(s.breaks, s.map, pl, nx, edge) /\ s.map = map
      /\ AdsLie(s.breaks, s.map, pl) /\ DOMAIN s.breaks = DOMAIN m /\ SameNames(s.breaks, m)
  BY DEF EventOK, EventTables
<1>2. /\ adState' = s.state /\ curBreak' = s.brk /\ curAds' = s.ads /\ curAdIdx' = s.idx
      /\ adBreaks' = s.breaks
  BY DEF AdBecomes
<1>3. Machine'
  BY <1>1, <1>2 DEF MachineOK, Machine, InBreak, CurrentBreakIsKept, AtOneOfTheAds
<1>4. SameNames(adBreaks', adBreaks)
  BY <1>1, <1>2 DEF SameNames
<1>5. Names'
  BY <1>4, NamesKept
<1> QED BY <1>1, <1>2, <1>3, <1>5 DEF Giving

LEMMA UpdateStep ==
    ASSUME IInv, OneAtATime, OneAtATime', NEW g \in Growth, UpdateMPD(g)
    PROVE  IInv'
<1> DEFINE e == edge + g
           r == Refreshed(e, FALSE)
           here == IF basePeriod \in Manifest(e) THEN basePeriod ELSE FirstPeriod(e)
<1>1. /\ edge' = e /\ e <= MaxEdge /\ current' = here /\ mode' = "loop"
      /\ adBreaks' = r.adBreaks /\ periodMap' = r.periodMap
      /\ placement' = r.placement /\ nextPlacement' = r.nextPlacement
      /\ asked' = asked /\ fulfil' = fulfil /\ thread' = thread
      /\ adState' = adState /\ curBreak' = curBreak /\ curAds' = curAds
      /\ curAdIdx' = curAdIdx /\ seekOffset' = seekOffset
      /\ basePeriod' = basePeriod /\ baseOffset' = baseOffset /\ pos' = pos
  BY DEF UpdateMPD, fulfilVars, adVars
<1>2. edge \in Nat /\ e \in Nat /\ edge <= e
  BY EdgeIs, Constants DEF IInv
<1>3. /\ TablesOK(r.adBreaks, r.periodMap, r.placement, r.nextPlacement, e)
      /\ AdsLie(r.adBreaks, r.periodMap, r.placement)
      /\ SameBreaks(r.adBreaks, adBreaks)
  <2>1. OneIn(r.adBreaks)
    BY <1>1 DEF OneAtATime, OneIn
  <2>2. /\ TablesOK(adBreaks, periodMap, placement, nextPlacement, edge)
        /\ AdsLie(adBreaks, periodMap, placement)
    BY DEF IInv
  <2> QED BY <1>2, <2>1, <2>2, RefreshKeepsTables
<1>4. adState # "OUTSIDE_ADBREAK" =>
        curBreak \in DOMAIN adBreaks /\ curBreak \in DOMAIN r.adBreaks
  BY KeptByRefresh DEF IInv, Machine, CurrentBreakIsKept
<1> HIDE DEF r, here, e
<1>5. here \in Periods
  <2>1. Manifest(e) \subseteq Periods /\ FirstPeriod(e) \in Manifest(e)
    BY <1>2, FirstPeriodIs
  <2> QED BY <2>1 DEF here
<1>6. Types'
  BY <1>1, <1>2, <1>5, PeriodsAre DEF IInv, Types
<1>7. SameNames(adBreaks', adBreaks)
  BY <1>1, <1>3 DEF SameBreaks, SameAds, SameNames
<1>8. Names' /\ Giving'
  BY <1>1, <1>7, NamesKept DEF IInv, Giving
<1>9. Machine'
  <2>1. CurrentBreakIsKept'
    BY <1>1, <1>4 DEF CurrentBreakIsKept
  <2>2. AtOneOfTheAds(adState, curAds, curAdIdx, adBreaks')
    <3> SUFFICES ASSUME adState \in {"IN_ADBREAK_AD_PLAYING", "IN_ADBREAK_WAIT2CATCHUP"}
                 PROVE  /\ curAds \in DOMAIN adBreaks'
                        /\ curAdIdx \in 1..Len(adBreaks'[curAds].ads)
      BY DEF AtOneOfTheAds
    <3>1. curAds \in DOMAIN adBreaks /\ curAdIdx \in 1..Len(adBreaks[curAds].ads)
      BY DEF IInv, Machine, AtOneOfTheAds
    <3>2. curBreak \in DOMAIN adBreaks /\ curBreak \in DOMAIN adBreaks'
      BY <1>1, <1>4
    <3>3. curAds \in DOMAIN adBreaks'
      <4>1. SUFFICES ASSUME curAds # curBreak PROVE FALSE
        BY <3>2
      <4> QED BY <3>1, <3>2, <4>1 DEF OneAtATime
    <3> QED BY <1>7, <3>1, <3>3 DEF SameNames
  <2> QED BY <1>1, <2>1, <2>2 DEF IInv, Machine
<1> QED BY <1>1, <1>3, <1>6, <1>8, <1>9 DEF IInv

LEMMA OffsetIs == ASSUME IInv PROVE OffsetInPeriod \in Int
<1>1. baseOffset \in Int
  BY DEF IInv, Types
<1>2. DataOf(periodMap, basePeriod).duration \in Int
  <2>1. CASE basePeriod \in DOMAIN periodMap
    <3>1. basePeriod \in Manifest(edge)
      BY <2>1 DEF IInv, TablesOK
    <3>2. DataOK(adBreaks, periodMap[basePeriod], edge)
      BY <3>1 DEF IInv, TablesOK
    <3> QED BY <2>1, <3>2 DEF DataOf, DataOK, Period2AdData
  <2>2. CASE basePeriod \notin DOMAIN periodMap
    BY <2>2 DEF DataOf, NoData
  <2> QED BY <2>1, <2>2
<1> QED BY <1>1, <1>2 DEF OffsetInPeriod

LEMMA EnterStep ==
    ASSUME IInv, OneAtATime, EnterPeriod
    PROVE  IInv'
<1> DEFINE here == IF PeriodChanged THEN iPeriod ELSE current
           base == IF PeriodChanged THEN iPeriod ELSE basePeriod
           s == OnDefault([AdNow EXCEPT !.base = base], OffsetInPeriod)
           OK(t) == EventOK(t, adBreaks, periodMap, placement, nextPlacement, edge)
<1>1. /\ iPeriod \in Manifest(edge)
      /\ baseOffset' = OffsetInPeriod /\ basePeriod' = s.base /\ Land(s, here)
      /\ IF s.state = "IN_ADBREAK_WAIT2CATCHUP"
         THEN /\ mode' = "refresh" /\ AdBecomes(s)
              /\ UNCHANGED <<adFailed, playing, pos, seekOffset, failures>>
         ELSE Select(s)
      /\ UNCHANGED <<edge, periodMap, placement, nextPlacement, fulfilVars, seeks>>
  BY Zenon DEF EnterPeriod
<1>2. here \in Periods /\ base \in Periods
  BY <1>1 DEF IInv, Types, Manifest
<1>3. OffsetInPeriod \in Int
  BY OffsetIs
<1>4. OK(s)
  <2> DEFINE t == [AdNow EXCEPT !.base = base]
  <2> HIDE DEF base
  <2>1. OK(t) /\ OneIn(t.breaks)
    BY <1>2, EventNow DEF OneAtATime, OneIn
  <2> HIDE DEF t
  <2> QED BY <1>3, <2>1, DefaultOK DEF t
<1> HIDE DEF here, s
<1>5. s.base \in Periods /\ s.seek \in Nat
  BY <1>4 DEF EventOK, MachineOK
<1>6. current' \in Periods
  BY <1>1, <1>2, <1>5 DEF Land
<1>7. PICK t : OK(t) /\ AdBecomes(t) /\ pos' \in Nat /\ seekOffset' \in Nat
               /\ mode' \in {"refresh", "loop", "fetch"}
  <2>1. CASE s.state = "IN_ADBREAK_WAIT2CATCHUP"
    <3>1. AdBecomes(s) /\ pos' = pos /\ seekOffset' = seekOffset /\ mode' = "refresh"
      BY <1>1, <2>1
    <3>2. pos \in Nat /\ seekOffset \in Nat
      BY DEF IInv, Types
    <3> QED BY <1>4, <3>1, <3>2
  <2>2. CASE s.state # "IN_ADBREAK_WAIT2CATCHUP"
    <3>1. Select(s)
      BY <1>1, <2>2
    <3>2. pos \in Nat
      BY DEF IInv, Types
    <3>3. pos' \in Nat /\ seekOffset' \in Nat
      BY <1>5, <3>1, <3>2 DEF Select
    <3>4. \/ AdBecomes(OnAdFailed(s)) /\ mode' = "loop"
          \/ AdBecomes(s) /\ mode' = "fetch"
      BY <3>1, Zenon DEF Select
    <3>5. OK(OnAdFailed(s))
      BY <1>4, FailedOK
    <3> QED BY <1>4, <3>3, <3>4, <3>5
  <2> QED BY <2>1, <2>2
<1>8. Types'
  BY <1>1, <1>3, <1>5, <1>6, <1>7 DEF IInv, Types, fulfilVars
<1>9. /\ Machine' /\ Names' /\ Giving'
      /\ TablesOK(adBreaks', periodMap', placement', nextPlacement', edge')
      /\ AdsLie(adBreaks', periodMap', placement')
  <2>1. SameNames(adBreaks, adBreaks)
    BY DEF SameNames
  <2>2. Names /\ Giving
    BY DEF IInv
  <2> QED BY <1>1, <1>7, <2>1, <2>2, BecomesOK DEF fulfilVars
<1> QED BY <1>8, <1>9 DEF IInv

\* What is left once the tables and the machine are known to hold.
LEMMA EventStep ==
    ASSUME IInv, Types',
           NEW t, EventOK(t, adBreaks, periodMap, placement, nextPlacement, edge),
           AdBecomes(t) \/ UNCHANGED <<adState, curBreak, curAds, curAdIdx, adBreaks>>,
           UNCHANGED <<edge, periodMap, placement, nextPlacement, fulfilVars>>
    PROVE  IInv'
<1>1. SameNames(adBreaks, adBreaks) /\ Names /\ Giving
  BY DEF SameNames, IInv
<1>2. CASE AdBecomes(t)
  <2>1. /\ Machine' /\ Names' /\ Giving'
        /\ TablesOK(adBreaks', periodMap', placement', nextPlacement', edge')
        /\ AdsLie(adBreaks', periodMap', placement')
    BY <1>1, <1>2, BecomesOK DEF fulfilVars
  <2> QED BY <2>1 DEF IInv
<1>3. CASE UNCHANGED <<adState, curBreak, curAds, curAdIdx, adBreaks>>
  BY <1>3 DEF IInv, Machine, Names, Giving, CurrentBreakIsKept, fulfilVars
<1> QED BY <1>2, <1>3

LEMMA FetchAdStep ==
    ASSUME IInv, FetchAd
    PROVE  IInv'
<1> DEFINE more == pos < AdLength[adBreaks[curAds].ads[curAdIdx].ad]
           t == OnAdFinished(AdNow)
<1>1. /\ adState = "IN_ADBREAK_AD_PLAYING"
      /\ pos' = (IF more THEN pos + 1 ELSE pos)
      /\ baseOffset' = (IF more THEN baseOffset + 1 ELSE baseOffset)
      /\ AdBecomes(t) \/ UNCHANGED <<adState, curBreak, curAds, curAdIdx, adBreaks>>
      /\ mode' \in {"refresh", "loop", "fetch"}
      /\ UNCHANGED <<edge, periodMap, placement, nextPlacement, fulfilVars, seekOffset,
                     basePeriod, current>>
  <2>1. mode' = "loop" \/ NextPeriod \/ FetchOn
    BY Zenon DEF FetchAd
  <2>2. mode' \in {"refresh", "loop", "fetch"}
    BY <2>1 DEF NextPeriod, FetchOn
  <2> QED BY <2>2, Zenon DEF FetchAd
<1> HIDE DEF more, t
<1>2. basePeriod \in Periods
  BY DEF IInv, Types
<1>3. EventOK(t, adBreaks, periodMap, placement, nextPlacement, edge)
  BY <1>1, <1>2, EventNow, FinishedOK DEF t
<1>4. Types'
  BY <1>1 DEF IInv, Types, fulfilVars
<1> QED BY <1>1, <1>3, <1>4, EventStep

LEMMA FetchBaseStep ==
    ASSUME IInv, FetchBase
    PROVE  IInv'
<1> DEFINE more == playing = <<current>> /\ pos < Duration(current, edge)
           offset == IF more THEN baseOffset + 1 ELSE baseOffset
           t == OnBaseOffsetChange(AdNow, offset)
<1>1. /\ pos' = (IF more THEN pos + 1 ELSE pos) /\ baseOffset' = offset
      /\ AdBecomes(t) \/ UNCHANGED <<adState, curBreak, curAds, curAdIdx, adBreaks>>
      /\ mode' \in {"refresh", "loop", "fetch"}
      /\ UNCHANGED <<edge, periodMap, placement, nextPlacement, fulfilVars, seekOffset,
                     basePeriod, current>>
  <2>1. NextPeriod \/ FetchOn
    BY Zenon DEF FetchBase
  <2>2. mode' \in {"refresh", "loop", "fetch"}
    BY <2>1 DEF NextPeriod, FetchOn
  <2> QED BY <2>2, Zenon DEF FetchBase
<1> HIDE DEF more
<1>2. offset \in Int /\ basePeriod \in Periods
  BY DEF IInv, Types
<1> HIDE DEF offset, t
<1>3. EventOK(t, adBreaks, periodMap, placement, nextPlacement, edge)
  <2>1. /\ EventOK(AdNow, adBreaks, periodMap, placement, nextPlacement, edge)
        /\ AdNow.state = adState
    BY <1>2, EventNow
  <2>2. CASE adState = "IN_ADBREAK_AD_NOT_PLAYING"
    <3>1. t = RejoinBreak(AdNow, offset)
      BY <2>1, <2>2 DEF OnBaseOffsetChange, t
    <3> QED BY <1>2, <2>1, <2>2, <3>1, RejoinOK
  <2>3. CASE adState # "IN_ADBREAK_AD_NOT_PLAYING"
    BY <2>1, <2>3 DEF OnBaseOffsetChange, t
  <2> QED BY <2>2, <2>3
<1>4. Types'
  BY <1>1, <1>2 DEF IInv, Types, fulfilVars
<1> QED BY <1>1, <1>3, <1>4, EventStep

LEMMA SeekStep ==
    ASSUME IInv, OneAtATime', NEW p \in Periods, NEW o \in SeekOffsets, Seek(p, o)
    PROVE  IInv'
<1> DEFINE r == Refreshed(edge, TRUE)
           z == 0
           f == FALSE
           reset == [state |-> "OUTSIDE_ADBREAK", brk |-> z, ads |-> z, idx |-> z,
                     seek |-> z, base |-> p, breaks |-> r.adBreaks, map |-> r.periodMap,
                     offset |-> z, changed |-> f]
           s == EnterBreak(reset, TRUE, o)
<1>1. /\ AdBecomes(s) /\ pos' = (IF s.ads # 0 THEN s.offset ELSE o)
      /\ periodMap' = r.periodMap
      /\ placement' = r.placement /\ nextPlacement' = r.nextPlacement
      /\ seekOffset' = 0 /\ basePeriod' = p /\ baseOffset' = o /\ current' = p
      /\ mode' = "loop" /\ UNCHANGED <<edge, fulfilVars, failures>>
  BY Zenon DEF Seek
<1>2. o \in Nat /\ edge \in Nat
  BY Constants, EdgeIs DEF IInv
<1>3. Fields(reset, "OUTSIDE_ADBREAK", z, z, z, z, p, r.adBreaks, r.periodMap, z, f)
  <2> HIDE DEF z, f, r
  <2>1. reset = Event("OUTSIDE_ADBREAK", z, z, z, z, p, r.adBreaks, r.periodMap, z, f)
    BY DEF Event
  <2> HIDE DEF reset
  <2> QED BY <2>1, FieldsOf
<1> HIDE DEF reset, r, f
<1>4. s.breaks = r.adBreaks
  <2> DEFINE start == CheckForAdStart(TRUE, reset, o)
             t == [reset EXCEPT !.brk = start.brk, !.offset = start.offset]
             stop == [t EXCEPT !.state = "IN_ADBREAK_AD_NOT_PLAYING", !.changed = TRUE]
             play == Play(t, start.brk, start.ad)
  <2>1. s \in {reset, stop, play}
    BY Zenon DEF EnterBreak, EnterAt
  <2>2. IsEvent(reset) /\ reset.breaks = r.adBreaks
    BY <1>3 DEF Fields
  <2> HIDE DEF start
  <2>3. IsEvent(t) /\ t.breaks = r.adBreaks
    <3>1. Fields(t, reset.state, start.brk, reset.ads, reset.idx, reset.seek, reset.base,
                 reset.breaks, reset.map, start.offset, reset.changed)
      BY <2>2, EnterSets
    <3> HIDE DEF t
    <3> QED BY <2>2, <3>1 DEF Fields
  <2> HIDE DEF t
  <2>4. stop.breaks = r.adBreaks
    <3>1. Fields(stop, "IN_ADBREAK_AD_NOT_PLAYING", t.brk, t.ads, t.idx, t.seek, t.base,
                 t.breaks, t.map, t.offset, TRUE)
      BY <2>3, StopSets
    <3> HIDE DEF stop
    <3> QED BY <2>3, <3>1 DEF Fields
  <2>5. play.breaks = r.adBreaks
    <3>1. Fields(play, "IN_ADBREAK_AD_PLAYING", t.brk, start.brk, start.ad, t.seek, t.base,
                 t.breaks, t.map, t.offset, TRUE)
      BY <2>3, PlaySets DEF Play
    <3> HIDE DEF play
    <3> QED BY <2>3, <3>1 DEF Fields
  <2> HIDE DEF s, stop, play
  <2> QED BY <2>1, <2>2, <2>4, <2>5
<1>5. /\ TablesOK(r.adBreaks, r.periodMap, r.placement, r.nextPlacement, edge)
      /\ AdsLie(r.adBreaks, r.periodMap, r.placement)
      /\ SameBreaks(r.adBreaks, adBreaks)
  <2>1. OneIn(r.adBreaks)
    BY <1>1, <1>4 DEF OneAtATime, OneIn, AdBecomes
  <2>2. /\ TablesOK(adBreaks, periodMap, placement, nextPlacement, edge)
        /\ AdsLie(adBreaks, periodMap, placement)
    BY DEF IInv
  <2>3. edge <= edge /\ TRUE \in BOOLEAN
    BY <1>2
  <2> QED BY <1>2, <2>1, <2>2, <2>3, RefreshKeepsTables DEF r
<1>6. SameNames(r.adBreaks, adBreaks)
  BY <1>5 DEF SameBreaks, SameAds, SameNames
<1>7. FewAds(r.adBreaks)
  BY <1>6, FewAdsThen, CountOfAds DEF SameNames, FewAds
<1>8. EventOK(reset, r.adBreaks, r.periodMap, r.placement, r.nextPlacement, edge)
  <2>1. MachineOK(reset)
    BY <1>3, CountOfAds DEF Fields, MachineOK, AdStates, InBreak, AtOneOfTheAds
  <2>2. SameNames(r.adBreaks, r.adBreaks)
    BY DEF SameNames
  <2>3. EventTables(reset, r.adBreaks, r.periodMap, r.placement, r.nextPlacement, edge)
    BY <1>3, <1>5, <1>7, <2>2 DEF EventTables, Fields
  <2> QED BY <2>1, <2>3 DEF EventOK
<1>9. EventOK(s, r.adBreaks, r.periodMap, r.placement, r.nextPlacement, edge)
  <2>1. reset.state = "OUTSIDE_ADBREAK" /\ o \in Int
    BY <1>2, <1>3 DEF Fields
  <2> QED BY <1>8, <2>1, EnterOK
<1> HIDE DEF s, z
<1>10. s.offset \in Nat
  BY <1>9 DEF EventOK, MachineOK
<1>11. Types'
  BY <1>1, <1>2, <1>10 DEF IInv, Types, fulfilVars
<1>12. /\ Machine' /\ Names' /\ Giving'
       /\ TablesOK(adBreaks', periodMap', placement', nextPlacement', edge')
       /\ AdsLie(adBreaks', periodMap', placement')
  <2>1. Names /\ Giving
    BY DEF IInv
  <2> QED BY <1>1, <1>6, <1>9, <2>1, BecomesOK DEF fulfilVars
<1> QED BY <1>11, <1>12 DEF IInv

\* The two fields of a break that FulFillAdObject changes.
LEMMA AppendsTo ==
    ASSUME NEW m, m = [c \in DOMAIN m |-> m[c]], NEW b \in DOMAIN m, m[b] \in AdBreakObject,
           NEW node
    PROVE  [m EXCEPT ![b].ads = Append(@, node), ![b].adsDuration = @ + node.duration]
             = [m EXCEPT ![b] = Appended(m[b], node)]
<1> DEFINE o == m[b]
           ads == Append(o.ads, node)
           d == o.adsDuration + node.duration
           m1 == [m EXCEPT ![b].ads = ads]
           m2 == [m1 EXCEPT ![b].adsDuration = @ + node.duration]
           new == [o EXCEPT !.ads = ads, !.adsDuration = d]
<1>1. [m EXCEPT ![b].ads = Append(@, node), ![b].adsDuration = @ + node.duration] = m2
  BY Zenon
<1>2. Appended(o, node) = new
  BY Zenon DEF Appended
<1>3. m1 = [m EXCEPT ![b] = [o EXCEPT !.ads = ads]] /\ m1[b] = [o EXCEPT !.ads = ads]
  OBVIOUS
<1>4. m1[b].adsDuration = o.adsDuration
  BY <1>3 DEF AdBreakObject
<1>5. m2 = [m1 EXCEPT ![b] = [m1[b] EXCEPT !.adsDuration = d]]
  BY <1>4
<1> HIDE DEF o, ads, d
<1>6. [[o EXCEPT !.ads = ads] EXCEPT !.adsDuration = d] = new
  BY Zenon
<1> HIDE DEF new
<1>7. m2 = [m1 EXCEPT ![b] = new]
  BY <1>3, <1>5, <1>6
<1> HIDE DEF m2
<1>8. m2 = [m EXCEPT ![b] = new]
  BY <1>3, <1>7
<1> QED BY <1>1, <1>2, <1>8 DEF m2, o

LEMMA FulFillStep ==
    ASSUME IInv, OneAtATime, FulFillAdObject
    PROVE  IInv'
<1> DEFINE b == fulfil.brk
           o == adBreaks[b]
           first == o.ads = << >>
           now == placement.cur = 0
           node == [ad |-> fulfil.ad, invalid |-> FALSE, placed |-> FALSE,
                    duration |-> Trimmed(o, fulfil.ad),
                    basePeriod |-> IF first /\ now THEN b ELSE 0, baseOffset |-> 0]
           begin == [brk |-> b, open |-> b, counted |-> 0, cur |-> 1, next |-> 0]
           n == [adBreaks EXCEPT ![b].ads = Append(@, node),
                                 ![b].adsDuration = @ + node.duration]
           map == IF first /\ b \in DOMAIN periodMap
                  THEN [periodMap EXCEPT ![b].offset2Ad = Put(@, 0, [ad |-> 1, start |-> 0])]
                  ELSE periodMap
           pl == IF first /\ now THEN begin ELSE placement
           nx == IF first /\ ~now THEN begin ELSE nextPlacement
<1>1. /\ thread = "download" /\ thread' = "idle" /\ asked' = asked /\ fulfil' = fulfil
      /\ edge' = edge /\ adState' = adState /\ curBreak' = curBreak /\ curAds' = curAds
      /\ curAdIdx' = curAdIdx /\ seekOffset' = seekOffset /\ mode' = mode
      /\ basePeriod' = basePeriod /\ baseOffset' = baseOffset /\ pos' = pos
      /\ current' = current
  BY DEF FulFillAdObject, adVars, collectorVars
<1>2. IF b \notin DOMAIN adBreaks THEN UNCHANGED daiVars
      ELSE /\ adBreaks' = n /\ periodMap' = map /\ placement' = pl /\ nextPlacement' = nx
  BY Zenon DEF FulFillAdObject
<1>3. Types' /\ Giving'
  BY <1>1 DEF IInv, Types, Giving
<1>4. /\ TablesOK(adBreaks, periodMap, placement, nextPlacement, edge) /\ OneIn(adBreaks)
      /\ AdsLie(adBreaks, periodMap, placement)
  BY DEF IInv, OneAtATime, OneIn
<1>5. CASE b \notin DOMAIN adBreaks
  BY <1>1, <1>2, <1>3, <1>5
     DEF IInv, Machine, CurrentBreakIsKept, Names, daiVars
<1>6. CASE b \in DOMAIN adBreaks
  <2>1. /\ adBreaks = [c \in DOMAIN adBreaks |-> adBreaks[c]] /\ b \in Breaks
        /\ BreakOK(b, o, edge) /\ o \in AdBreakObject /\ o.ads \in Seq(Node)
        /\ o.adsDuration <= o.brkDuration /\ o.adsDuration \in Nat /\ o.brkDuration \in Nat
    BY <1>4, <1>6 DEF TablesOK, BreakOK, AdBreakObject
  <2>2. fulfil.ad \in Ads /\ b \in Periods
    BY <1>1, <2>1, Constants DEF IInv, Giving
  <2>3. first => now
    BY <1>4, <1>6, FirstIsPlacedNow
  <2> HIDE DEF now, first
  <2>4. Trimmed(o, fulfil.ad) \in Nat /\ Trimmed(o, fulfil.ad) <= o.brkDuration - o.adsDuration
    <3>1. AdLength[fulfil.ad] \in Nat
      BY <2>2, Constants
    <3> HIDE DEF o, b, node, n
    <3> QED BY <2>1, <3>1 DEF Trimmed, Smaller
  <2>5. MayAppend(b, o, node)
    <3> HIDE DEF b, o
    <3>1. node \in Node
      BY <2>2, <2>4 DEF Node
    <3> QED BY <2>3, <2>4, <3>1 DEF MayAppend, first
  <2>6. n = [adBreaks EXCEPT ![b] = Appended(o, node)]
    <3> HIDE DEF node, b
    <3> QED BY <1>6, <2>1, AppendsTo
  <2> DEFINE new == Appended(o, node)
             k == Len(o.ads)
  <2> HIDE DEF node, n
  <2>7. /\ k \in Nat /\ Len(new.ads) = k + 1 /\ new.ads[k + 1] = node
        /\ \A i \in 1..k : new.ads[i] = o.ads[i]
    <3> HIDE DEF b, o, new
    <3> QED BY <2>1, <2>5, AppendedIs DEF new
  <2>8. /\ TablesOK(n, map, pl, nx, edge) /\ DOMAIN n = DOMAIN adBreaks
        /\ AdsLie(n, map, pl)
    <3> DEFINE m0 == adBreaks
               map0 == periodMap
               pl0 == placement
               nx0 == nextPlacement
               e0 == edge
               f0 == m0[b].ads = << >>
               n0 == [m0 EXCEPT ![b] = Appended(m0[b], node)]
               p0 == IF f0 /\ b \in DOMAIN map0
                     THEN [map0 EXCEPT ![b].offset2Ad = Put(@, 0, [ad |-> 1, start |-> 0])]
                     ELSE map0
               q0 == IF f0 THEN begin ELSE pl0
    <3>1. TablesOK(n0, p0, q0, nx0, e0) /\ DOMAIN n0 = DOMAIN m0 /\ AdsLie(n0, p0, q0)
      <4>1. /\ TablesOK(m0, map0, pl0, nx0, e0) /\ OneIn(m0) /\ e0 \in Nat
            /\ AdsLie(m0, map0, pl0)
            /\ b \in DOMAIN m0 /\ MayAppend(b, m0[b], node)
        BY <1>4, <1>6, <2>5, EdgeIs DEF IInv
      <4> HIDE DEF m0, map0, pl0, nx0, e0, b
      <4>2. TablesOK(n0, p0, q0, nx0, e0) /\ DOMAIN n0 = DOMAIN m0
        BY <4>1, GivenOK
      <4>3. AdsLie(n0, p0, q0)
        BY <4>1, GivenLies
      <4> QED BY <4>2, <4>3
    <3>2. n0 = n /\ p0 = map /\ q0 = pl /\ nx0 = nx
      <4>1. n0 = n
        BY <2>6
      <4>2. f0 <=> first
        BY DEF first
      <4> HIDE DEF f0, n0
      <4> QED BY <2>3, <4>1, <4>2
    <3> HIDE DEF n0, p0, q0, nx0, map, pl, nx
    <3> QED BY <3>1, <3>2
  <2> HIDE DEF map, pl, nx
  <2>9. /\ adBreaks' = n /\ periodMap' = map /\ placement' = pl /\ nextPlacement' = nx
    BY <1>2, <1>6
  <2>10. DOMAIN adBreaks = {b} /\ DOMAIN adBreaks' = {b} /\ adBreaks'[b] = new
    <3>1. DOMAIN adBreaks = {b}
      BY <1>4, <1>6 DEF OneIn
    <3>2. DOMAIN adBreaks' = {b} /\ adBreaks' = n
      BY <2>8, <2>9, <3>1
    <3> HIDE DEF b, o
    <3>3. n[b] = new
      BY <2>6, <3>1 DEF new
    <3> QED BY <3>1, <3>2, <3>3
  <2> HIDE DEF new, k, b
  <2>11. Machine'
    <3>1. \A c \in DOMAIN adBreaks : \A i \in 1..Len(adBreaks[c].ads) :
            c \in DOMAIN adBreaks' /\ i \in 1..Len(adBreaks'[c].ads)
      BY <2>7, <2>10 DEF k
    <3> QED BY <1>1, <2>10, <3>1 DEF IInv, Machine, CurrentBreakIsKept, AtOneOfTheAds
  <2>12. Names'
    <3> SUFFICES ASSUME NEW i \in 1..(k + 1)
                 PROVE  /\ new.ads[i].ad \in asked
                        /\ \A j \in 1..(k + 1) : new.ads[i].ad = new.ads[j].ad => i = j
      BY <1>1, <2>7, <2>10 DEF Names
    <3>1. node.ad = fulfil.ad /\ fulfil.ad \in asked
      BY <1>1 DEF IInv, Giving, node
    <3>2. \A x \in 1..k : /\ o.ads[x].ad \in asked /\ o.ads[x].ad # fulfil.ad
                          /\ \A y \in 1..k : o.ads[x].ad = o.ads[y].ad => x = y
      BY <1>1, <1>6 DEF IInv, Names, k
    <3>3. \A x \in 1..(k + 1) : x \in 1..k \/ x = k + 1
      BY <2>7
    <3> HIDE DEF o
    <3>4. \A x \in 1..k : new.ads[x].ad = o.ads[x].ad
      BY <2>7
    <3>5. new.ads[k + 1].ad = fulfil.ad
      BY <2>7, <3>1
    <3> QED BY <3>1, <3>2, <3>3, <3>4, <3>5
  <2> QED BY <1>1, <1>3, <2>8, <2>9, <2>11, <2>12 DEF IInv
<1> QED BY <1>5, <1>6

\* An ad is asked for once.
LEMMA AskStep ==
    ASSUME IInv, NEW ad \in Ads, SetAlternateContents(ad)
    PROVE  IInv'
<1>1. /\ ad \notin asked /\ thread = "idle" /\ asked' = asked \cup {ad}
      /\ \/ fulfil'.ad = ad /\ thread' = "started"
         \/ fulfil' = fulfil /\ thread' = thread
      /\ UNCHANGED <<edge, daiVars, adVars, collectorVars>>
  BY DEF SetAlternateContents
<1>2. Types' /\ Machine' /\ Giving'
  BY <1>1 DEF IInv, Types, Machine, Giving, CurrentBreakIsKept, daiVars, adVars,
              collectorVars
<1>3. Names'
  <2> SUFFICES ASSUME NEW b \in DOMAIN adBreaks, NEW i \in 1..Len(adBreaks[b].ads)
               PROVE  LET ads == adBreaks[b].ads
                      IN  /\ ads[i].ad \in asked'
                          /\ (thread' # "idle" => ads[i].ad # fulfil'.ad)
                          /\ \A j \in 1..Len(ads) : ads[i].ad = ads[j].ad => i = j
    BY <1>1 DEF Names, daiVars
  <2>1. /\ adBreaks[b].ads[i].ad \in asked
        /\ \A j \in 1..Len(adBreaks[b].ads) :
             adBreaks[b].ads[i].ad = adBreaks[b].ads[j].ad => i = j
    BY DEF IInv, Names
  <2> QED BY <1>1, <2>1
<1> QED BY <1>1, <1>2, <1>3 DEF IInv, daiVars

LEMMA InitOK ==
    ASSUME Init
    PROVE  IInv
<1> DEFINE none == << >>
           s == [adBreaks |-> none, periodMap |-> none]
           m == FoundTable(edge, TRUE, none, none)
           map == FoundMap(edge, TRUE, none, none)
           fresh == FoundBreaks(edge, TRUE, none)
<1>1. edge \in 0..MaxEdge /\ edge \in Nat
  BY EdgeAssumption, PeriodsAre DEF Init
<1>2. DOMAIN none = {}
  <2>1. none \in Seq({}) /\ Len(none) = 0
    BY EmptySeq
  <2>2. DOMAIN none = 1..Len(none)
    BY <2>1, LenProperties
  <2> QED BY <2>1, <2>2
<1> HIDE DEF none
<1>3. FindBreaks(edge, TRUE, s) = [adBreaks |-> m, periodMap |-> map]
  <2>1. FindBreaks(edge, TRUE, s)
          = [s EXCEPT !.adBreaks = FoundTable(edge, TRUE, s.adBreaks, s.periodMap),
                     !.periodMap =
                       FoundMap(edge, TRUE, s.adBreaks, s.periodMap)]
    BY Zenon DEF FindBreaks, FoundTable, FoundMap
  <2>2. s.adBreaks = none /\ s.periodMap = none
    OBVIOUS
  <2> DEFINE t == [s EXCEPT !.adBreaks = m]
  <2>3. [s EXCEPT !.adBreaks = m, !.periodMap = map] = [t EXCEPT !.periodMap = map]
    BY Zenon
  <2> HIDE DEF m, map
  <2>4. t = [adBreaks |-> m, periodMap |-> none]
    OBVIOUS
  <2> HIDE DEF t
  <2>5. [t EXCEPT !.periodMap = map] = [adBreaks |-> m, periodMap |-> map]
    BY <2>4
  <2> QED BY <2>1, <2>2, <2>3, <2>5 DEF m, map
<1>4. /\ adBreaks = m /\ periodMap = map /\ placement = NoPlacement
      /\ nextPlacement = NoPlacement /\ asked = {} /\ thread = "idle"
      /\ adState = "OUTSIDE_ADBREAK" /\ curBreak = 0 /\ curAds = 0 /\ curAdIdx = 0
      /\ seekOffset = 0 /\ basePeriod = FirstPeriod(edge) /\ baseOffset = 0
      /\ current = basePeriod /\ pos = 0 /\ mode = "loop"
  <2> DEFINE f == FindBreaks(edge, TRUE, s)
  <2>1. f.adBreaks = m /\ f.periodMap = map
    <3>1. f = [adBreaks |-> m, periodMap |-> map]
      BY <1>3
    <3> HIDE DEF m, map, f
    <3> QED BY <3>1
  <2> HIDE DEF m, map
  <2> QED BY <2>1, Zenon DEF Init, none
<1>5. fresh \subseteq Manifest(edge) \cap Breaks
  BY DEF FoundBreaks
<1>6. /\ m = [b \in fresh |-> NewBreak(b)]
      /\ map = [q \in Manifest(edge) |->
                  IF q \in fresh THEN [NoData EXCEPT !.adBreakId = q] ELSE NoData]
  <2> HIDE DEF fresh
  <2>1. \A K : {} \cup K = K /\ K \ {} = K
    OBVIOUS
  <2>2. m = [b \in fresh |-> NewBreak(b)]
    BY <1>2, <2>1 DEF FoundTable, fresh
  <2>3. map = [q \in Manifest(edge) |->
                 IF q \in fresh THEN [NoData EXCEPT !.adBreakId = q] ELSE NoData]
    BY <1>2, <2>1, Zenon DEF FoundMap, fresh
  <2> QED BY <2>2, <2>3
<1> HIDE DEF m, map, fresh, s
<1>7. Manifest(edge) \subseteq Periods /\ FirstPeriod(edge) \in Manifest(edge)
  BY <1>1, FirstPeriodIs
<1>8. \A b \in fresh : BreakOK(b, m[b], edge) /\ Len(m[b].ads) = 0
  <2> TAKE b \in fresh
  <2>1. b \in Breaks /\ Announced(b, edge)
    BY <1>5 DEF Manifest, InManifest, Announced
  <2> QED BY <1>6, <2>1, NewBreakIs
<1>9. \A q \in Manifest(edge) :
        /\ DataOK(m, map[q], edge) /\ (q \in fresh => map[q].adBreakId = q)
  <2> TAKE q \in Manifest(edge)
  <2> DEFINE z == 0
             r == IF q \in fresh THEN q ELSE z
             data == [NoData EXCEPT !.adBreakId = r]
  <2>1. r \in Breaks \cup {0} /\ (r # 0 => Announced(r, edge))
    BY <1>5 DEF Manifest, InManifest, Announced
  <2>2. map[q] = data
    <3>1. NoData = [NoData EXCEPT !.adBreakId = z]
      BY DEF NoData
    <3> HIDE DEF z
    <3>2. q \in fresh => data = [NoData EXCEPT !.adBreakId = q]
      OBVIOUS
    <3>3. q \notin fresh => data = [NoData EXCEPT !.adBreakId = z]
      OBVIOUS
    <3> HIDE DEF data
    <3> DEFINE one == [NoData EXCEPT !.adBreakId = q]
    <3>4. map[q] = IF q \in fresh THEN one ELSE NoData
      BY <1>6, Zenon
    <3> HIDE DEF one
    <3> QED BY <3>1, <3>2, <3>3, <3>4 DEF one
  <2> HIDE DEF r
  <2>3. data \in Period2AdData /\ data.adBreakId = r /\ DOMAIN data.offset2Ad = {}
    BY <2>1, NoDataIs
  <2> HIDE DEF data
  <2>4. DataOK(m, data, edge)
    BY <2>1, <2>3 DEF DataOK
  <2> QED BY <2>2, <2>3, <2>4 DEF r
<1>10. PlacementOK(m, NoPlacement, edge)
  BY DEF PlacementOK, NoPlacement, PlacementObj
<1>11. TablesOK(m, map, NoPlacement, NoPlacement, edge)
  <2>1. m = [b \in DOMAIN m |-> m[b]] /\ DOMAIN m = fresh
    BY <1>6
  <2>2. map = [q \in Manifest(edge) |-> map[q]]
    BY <1>6, Zenon
  <2> QED BY <1>5, <1>8, <1>9, <1>10, <2>1, <2>2 DEF TablesOK
<1>14. AdsLie(m, map, NoPlacement)
  <2>1. \A q \in Manifest(edge) : map[q].duration = 0
    <3> TAKE q \in Manifest(edge)
    <3> DEFINE one == [NoData EXCEPT !.adBreakId = q]
    <3>1. map[q] = IF q \in fresh THEN one ELSE NoData
      BY <1>6, Zenon
    <3>2. one.duration = 0 /\ NoData.duration = 0
      BY DEF NoData
    <3> HIDE DEF one
    <3> QED BY <3>1, <3>2
  <2>2. DOMAIN map = Manifest(edge) /\ DOMAIN m = fresh
    BY <1>6
  <2>3. \A q : Untouched(map, q)
    BY <2>1, <2>2 DEF Untouched
  <2>4. \A b \in fresh : /\ Laid(m[b].ads) /\ Resumes(m[b]) /\ Len(m[b].ads) = 0
                         /\ m[b].endPeriod = 0 /\ ~m[b].adjust
    <3> TAKE b \in fresh
    <3>1. m[b] = NewBreak(b)
      BY <1>6
    <3> QED BY <3>1, NewBreakLies
  <2>5. NoPlacement.cur = 0
    BY DEF NoPlacement
  <2> QED BY <2>2, <2>3, <2>4, <2>5 DEF AdsLie
<1>12. Names /\ Giving
  <2>1. \A b \in DOMAIN adBreaks : Len(adBreaks[b].ads) = 0
    BY <1>4, <1>6, <1>8
  <2> QED BY <1>4, <2>1 DEF Names, Giving
<1>13. Types /\ Machine
  BY <1>1, <1>4, <1>7, CountOfAds
     DEF Types, Machine, AdStates, CurrentBreakIsKept, AtOneOfTheAds
<1> QED BY <1>4, <1>11, <1>12, <1>13, <1>14 DEF IInv

LEMMA IInvStep ==
    ASSUME IInv, OneAtATime, OneAtATime', [Next]_vars
    PROVE  IInv'
<1>1. ASSUME NEW g \in Growth, UpdateMPD(g) PROVE IInv'
  BY <1>1, UpdateStep
<1>2. CASE LeavePeriods \/ PassOn
  <2>1. UNCHANGED <<edge, daiVars, fulfilVars, adVars, basePeriod, baseOffset, current, pos>>
    BY <1>2 DEF LeavePeriods, PassOn
  <2>2. mode' \in {"refresh", "loop", "fetch"}
    BY <1>2 DEF LeavePeriods, PassOn
  <2> QED BY <2>1, <2>2
          DEF IInv, Types, Machine, Names, Giving, CurrentBreakIsKept, daiVars, fulfilVars,
              adVars
<1>3. CASE EnterPeriod
  BY <1>3, EnterStep
<1>4. CASE FetchAd
  BY <1>4, FetchAdStep
<1>5. CASE FetchBase
  BY <1>5, FetchBaseStep
<1>6. ASSUME NEW ad \in Ads, SetAlternateContents(ad) PROVE IInv'
  BY <1>6, AskStep
<1>7. ASSUME NEW p \in Periods, NEW o \in SeekOffsets, Seek(p, o) PROVE IInv'
  BY <1>7, SeekStep
<1>8. CASE DownloadAd \/ DownloadFails
  <2>1. /\ UNCHANGED <<edge, daiVars, asked, fulfil, adVars, collectorVars>>
        /\ thread # "idle" /\ thread' \in {"idle", "download"}
    BY <1>8 DEF DownloadAd, DownloadFails
  <2> QED BY <2>1
          DEF IInv, Types, Machine, Names, Giving, CurrentBreakIsKept, daiVars, adVars,
              collectorVars
<1>9. CASE FulFillAdObject
  BY <1>9, FulFillStep
<1>10. CASE UNCHANGED vars
  BY <1>10 DEF vars, IInv, Types, Machine, Names, Giving, CurrentBreakIsKept
<1> QED BY <1>1, <1>2, <1>3, <1>4, <1>5, <1>6, <1>7, <1>8, <1>9, <1>10
        DEF Next, Collect, Application, AdThread

LEMMA IInvKept == ASSUME IInv PROVE PlayingBreakIsKept
<1>1. \A b \in DOMAIN adBreaks :
        /\ adBreaks[b].ads \in Seq([ad : Ads, invalid : BOOLEAN, placed : BOOLEAN,
              duration : Nat, basePeriod : Periods \cup {0}, baseOffset : Nat])
        /\ adBreaks[b].adsDuration \in 0..adBreaks[b].brkDuration
  <2> TAKE b \in DOMAIN adBreaks
  <2> DEFINE abObj == adBreaks[b]
  <2>1. abObj \in AdBreakObject /\ abObj.adsDuration <= abObj.brkDuration
    BY DEF IInv, TablesOK, BreakOK
  <2> HIDE DEF abObj
  <2>2. abObj.ads \in Seq(Node)
    BY <2>1 DEF AdBreakObject
  <2>3. abObj.adsDuration \in 0..abObj.brkDuration
    BY <2>1 DEF AdBreakObject
  <2> QED BY <2>2, <2>3 DEF Node, abObj
<1>2. DOMAIN adBreaks \subseteq Breaks /\ DOMAIN periodMap \subseteq Periods
  <2>1. DOMAIN adBreaks \subseteq Breaks /\ DOMAIN periodMap = Manifest(edge)
    BY DEF IInv, TablesOK
  <2> QED BY <2>1 DEF Manifest
<1>3. TypeOK
  BY <1>1, <1>2 DEF IInv, Types, Machine, TypeOK
<1> QED BY <1>3 DEF IInv, Machine, AtOneOfTheAds, PlayingBreakIsKept

LEMMA IInvInTurn == ASSUME IInv PROVE PlacedInTurn
<1> SUFFICES ASSUME NEW b \in DOMAIN adBreaks, NEW i \in 1..Len(adBreaks[b].ads),
                    adBreaks[b].ads[i].basePeriod # 0
             PROVE  IF i = 1 THEN BeginOf(adBreaks[b].ads[i]) = StartOf[b]
                    ELSE \A j \in 1..(i - 1) : adBreaks[b].ads[j].placed
  BY DEF PlacedInTurn
<1> DEFINE ads == adBreaks[b].ads
<1>1. Turn(b, ads) /\ b \in Breaks /\ ads \in Seq(Node)
  BY DEF IInv, TablesOK, BreakOK, AdBreakObject
<1>2. StartOf[b] \in Nat
  BY <1>1, Constants, PeriodsAre
<1> HIDE DEF ads
<1>3. Len(ads) \in Nat /\ i \in 1..Len(ads) /\ ads[i].basePeriod # 0
  BY <1>1, LenProperties DEF ads
<1>4. CASE i = 1
  <2>1. ads # << >>
    BY <1>3, EmptySeq
  <2>2. ads[1].basePeriod = b /\ ads[1].baseOffset = 0
    BY <1>1, <2>1 DEF Turn
  <2> QED BY <1>2, <1>4, <2>2 DEF BeginOf, At, ads
<1>5. CASE i # 1
  BY <1>1, <1>3, <1>5 DEF Turn, ads
<1> QED BY <1>4, <1>5

LEMMA IInvApart == ASSUME IInv PROVE AdsDoNotOverlap
<1> SUFFICES ASSUME NEW b \in DOMAIN adBreaks, NEW i \in 1..Len(adBreaks[b].ads),
                    adBreaks[b].ads[i].basePeriod # 0, NEW j \in 1..(i - 1)
             PROVE  EndOf(adBreaks[b].ads[j]) <= BeginOf(adBreaks[b].ads[i])
  BY DEF AdsDoNotOverlap
<1> DEFINE ads == adBreaks[b].ads
<1>1. Laid(ads) /\ ads \in Seq(Node)
  BY DEF IInv, AdsLie, TablesOK, BreakOK, AdBreakObject
<1> HIDE DEF ads
<1>2. Len(ads) \in Nat /\ i \in 1..Len(ads) /\ ads[i].basePeriod # 0
  BY <1>1, LenProperties DEF ads
<1>3. j \in 1..Len(ads) /\ j < i
  BY <1>2
<1> QED BY <1>1, <1>2, <1>3 DEF Laid, ads

LEMMA IInvResumes == ASSUME IInv PROVE ResumesAfterItsAds
  BY DEF IInv, AdsLie, Resumes, ResumesAfterItsAds

\* While no two breaks are known at a time, the break whose ad is played, or was
\* played and is waited for, is in mAdBreaks, and mCurAdIdx is one of its ads: onAdEvent
\* and the collector, which index with them, find what they look for, whatever a refresh
\* prunes, however late an ad is appended, and whichever downloads fail.
THEOREM PlayingBreakStays == Spec /\ []OneAtATime => []PlayingBreakIsKept
<1>1. Init => IInv
  BY InitOK
<1>2. IInv /\ OneAtATime /\ OneAtATime' /\ [Next]_vars => IInv'
  BY IInvStep
<1>3. IInv => PlayingBreakIsKept
  BY IInvKept
<1> QED BY <1>1, <1>2, <1>3, PTL DEF Spec

\* While no two breaks are known at a time, PlaceAds begins an ad only once
\* all in front of it are placed, and the first where its break begins, over however many
\* refreshes the placement is spread.
THEOREM AdsPlacedInTurn == Spec /\ []OneAtATime => []PlacedInTurn
<1>1. Init => IInv
  BY InitOK
<1>2. IInv /\ OneAtATime /\ OneAtATime' /\ [Next]_vars => IInv'
  BY IInvStep
<1>3. IInv => PlacedInTurn
  BY IInvInTurn
<1> QED BY <1>1, <1>2, <1>3, PTL DEF Spec

\* While no two breaks are known at a time, no ad of a break begins on the base timeline
\* before those in front of it end: what mPlacementObj carries from refresh to refresh
\* (the open period, what is counted of it, the ad and how much of it is placed) never
\* lets PlaceAds cover the same content twice, wherever periods end, whatever is pruned,
\* and whenever an ad is appended or fails.
THEOREM AdsNeverOverlap == Spec /\ []OneAtATime => []AdsDoNotOverlap
<1>1. Init => IInv
  BY InitOK
<1>2. IInv /\ OneAtATime /\ OneAtATime' /\ [Next]_vars => IInv'
  BY IInvStep
<1>3. IInv => AdsDoNotOverlap
  BY IInvApart
<1> QED BY <1>1, <1>2, <1>3, PTL DEF Spec

\* While no two breaks are known at a time, the point PlaceAds chooses for the content
\* after a break lies less than twice OFFSET_ALIGN_FACTOR before the end of any ad that
\* was placed: neither the adjustment to the beginning of that period or of the next nor
\* an ad appended later moves it further back.
THEOREM ContentResumesAfterAds == Spec /\ []OneAtATime => []ResumesAfterItsAds
<1>1. Init => IInv
  BY InitOK
<1>2. IInv /\ OneAtATime /\ OneAtATime' /\ [Next]_vars => IInv'
  BY IInvStep
<1>3. IInv => ResumesAfterItsAds
  BY IInvResumes
<1> QED BY <1>1, <1>2, <1>3, PTL DEF Spec
=============================================================================
