------------------------------ MODULE AdManager ------------------------------
(***************************************************************************)
(* Client-side ad insertion of a live DASH stream (admanager_mpd.cpp and   *)
(* the collector's loop of fragmentcollector_mpd.cpp).                     *)
(*                                                                         *)
(* Three threads share the CDAI object.  The collector's thread refreshes  *)
(* the manifest, finds ad breaks, prunes what left the manifest, places    *)
(* ads over the base periods that have been published, fetches fragments   *)
(* and moves the playback state machine (onAdEvent).  The application      *)
(* gives an ad for a break, and a thread per ad fulfils it: it downloads   *)
(* the ad's manifest with mDaiMtx held and appends the ad to the break.    *)
(*                                                                         *)
(* The base stream is a row of periods; "edge" is how much of it has been  *)
(* published and every view of the manifest follows from it.  Time is in   *)
(* units of which Align is OFFSET_ALIGN_FACTOR (2 s).  Ad i of a break is  *)
(* ads[i], index 0 is the code's -1, and period 0 its empty id.            *)
(*                                                                         *)
(* Left out: trick play (the rate is normal), Fog (ad manifests are final, *)
(* so none is fetched when its ad starts), tracks other than video.  A     *)
(* fragment is one unit long.                                              *)
(* PlaceAds and PrunePeriodMaps run without mDaiMtx in the code; here they *)
(* are one step with the refresh that calls them.                          *)
(***************************************************************************)
EXTENDS Naturals, Integers, Sequences, FiniteSets, SequencesExt, TLC

CONSTANTS
  PeriodLength,   \* sequence: the length of each period of the base stream
  BreakLength,    \* for each period with an SCTE-35 event: its duration
  Ads,            \* what the application has to offer
  AdLength,       \* the duration of each ad's manifest
  Reservation,    \* the break each ad is meant for
  Growth,         \* by how much a refreshed manifest may have grown
  Early,          \* a period is announced this long before its content
  Window,         \* content that ended this long before the edge has left
  Align,          \* OFFSET_ALIGN_FACTOR
  MaxLag,         \* bound: the edge is no further ahead of what is played
  InitialEdge,    \* what is published when playback starts
  SeekOffsets,    \* bound: where in a period a seek may land
  MaxSeeks,       \* bound: seeks of the application
  MaxFailures     \* bound: failed downloads, of ad manifests and fragments

Periods == 1..Len(PeriodLength)
Breaks  == DOMAIN BreakLength

ASSUME PeriodsAssumption ==
  /\ PeriodLength \in Seq(Nat \ {0}) /\ PeriodLength # << >>
  /\ Breaks \subseteq Periods /\ BreakLength \in [Breaks -> Nat]
  /\ Reservation \in [Ads -> Breaks]
  /\ AdLength \in [Ads -> Nat \ {0}]
  /\ IsFiniteSet(Ads)
  /\ Align \in Nat \ {0} /\ Early \in Nat /\ Window \in Nat
  /\ Growth \subseteq Nat /\ SeekOffsets \subseteq Nat

\* Where a period begins on the base timeline, and a point of a period.
LengthOf(n) == FoldLeft(+, 0, SubSeq(PeriodLength, 1, n))
StartOf == [p \in 1..(Len(PeriodLength) + 1) |-> LengthOf(p - 1)]
At(p, offset) == StartOf[p] + offset
MaxEdge == StartOf[Len(PeriodLength) + 1]

ASSUME EdgeAssumption == InitialEdge \in 0..MaxEdge

VARIABLES
  edge,           \* published part of the base stream
  adBreaks,       \* mAdBreaks
  periodMap,      \* mPeriodMap
  placement,      \* mPlacementObj
  nextPlacement,  \* mAdtoInsertInNextBreak
  asked,          \* ads the application has given
  fulfil,         \* mAdFulfillObj: the ad the thread works on
  thread,         \* the ad thread: "idle", "started", "download" (holds mDaiMtx)
  adState,        \* mAdState
  curBreak,       \* mCurPlayingBreakId
  curAds,         \* the break whose ads mCurAds holds
  curAdIdx,       \* mCurAdIdx
  seekOffset,     \* mContentSeekOffset
  adFailed,       \* mAdFailed
  basePeriod,     \* mBasePeriodId
  baseOffset,     \* mBasePeriodOffset
  current,        \* the period at mCurrentPeriodIdx
  iPeriod,        \* the loop's period
  playing,        \* currentPeriodId: <<period>> or <<break, index of the ad>>
  pos,            \* the next fragment of what is played
  mpdChanged, adStateChanged,
  mode,           \* "refresh", "loop" (head of the period loop) or "fetch"
  seeks, failures

manifestVars  == <<edge>>
daiVars       == <<adBreaks, periodMap, placement, nextPlacement>>
fulfilVars    == <<asked, fulfil, thread>>
adVars        == <<adState, curBreak, curAds, curAdIdx, seekOffset>>
collectorVars == <<adFailed, basePeriod, baseOffset, current, iPeriod, playing,
                   pos, mpdChanged, adStateChanged, mode>>
vars == <<edge, adBreaks, periodMap, placement, nextPlacement, asked, fulfil,
          thread, adState, curBreak, curAds, curAdIdx, seekOffset, adFailed,
          basePeriod, baseOffset, current, iPeriod, playing, pos, mpdChanged,
          adStateChanged, mode, seeks, failures>>

----------------------------------------------------------------------------
\* The manifest published up to e.

Smaller(a, b) == IF a < b THEN a ELSE b
Larger(a, b)  == IF a > b THEN a ELSE b

Duration(p, e) == Smaller(PeriodLength[p], Larger(0, e - StartOf[p]))
InManifest(p, e) ==
  /\ StartOf[p] <= e + Early
  /\ \/ StartOf[p + 1] + Window > e
     \/ p = Len(PeriodLength)
Manifest(e) == {p \in Periods : InManifest(p, e)}
FirstPeriod(e) == CHOOSE p \in Manifest(e) : \A q \in Manifest(e) : p <= q

----------------------------------------------------------------------------
\* The tables of the CDAI object.

NoData == [filled |-> FALSE, adBreakId |-> 0, duration |-> 0,
           offset2Ad |-> << >>]
NoPlacement == [brk |-> 0, open |-> 0, counted |-> 0, cur |-> 0, next |-> 0]
NewBreak(b) == [brkDuration |-> BreakLength[b], ads |-> << >>,
                endPeriod |-> 0, endOffset |-> 0, adsDuration |-> 0,
                adjust |-> FALSE]
DataOf(map, p) == IF p \in DOMAIN map THEN map[p] ELSE NoData
Only(f, S) == [x \in DOMAIN f \cap S |-> f[x]]
Put(f, k, v) == [x \in DOMAIN f \cup {k} |-> IF x = k THEN v ELSE f[x]]
OffsetKey(o) == IF o >= 0 THEN o - (o % Align) ELSE -((-o) - ((-o) % Align))

----------------------------------------------------------------------------
\* FindTimedMetadata: breaks and periods of a refreshed manifest, then
\* PrunePeriodMaps.  At the initialisation only empty periods are searched
\* for events.

FoundBreaks(e, init, map) ==
  {b \in Manifest(e) \cap Breaks :
     b \notin DOMAIN map /\ (init => Duration(b, e) = 0)}

FindBreaks(e, init, s) ==
  LET found == FoundBreaks(e, init, s.periodMap)
      fresh == found \ DOMAIN s.adBreaks
      insert(p) == IF p \in fresh THEN [NoData EXCEPT !.adBreakId = p] ELSE NoData
  IN [s EXCEPT
        !.adBreaks = [b \in DOMAIN @ \cup fresh |->
                        IF b \in DOMAIN @ THEN @[b] ELSE NewBreak(b)],
        !.periodMap = [p \in DOMAIN @ \cup Manifest(e) |->
                         IF p \in DOMAIN @ THEN @[p] ELSE insert(p)]]

\* Mutant: the break that is played is pruned with its period.
PrunePeriodMapsPlaying(e, s) ==
  [s EXCEPT !.adBreaks  = Only(@, Manifest(e) \cup {s.placement.brk}),
            !.periodMap = Only(@, Manifest(e))]

PrunePeriodMaps(e, s) ==
  [s EXCEPT
     !.adBreaks  = Only(@, Manifest(e) \cup {s.placement.brk, s.curBreak}),
     !.periodMap = Only(@, Manifest(e))]

----------------------------------------------------------------------------
\* PlaceAds.  A placement step works on s = [abObj, map, pl, delta, found]:
\* the break, mPeriodMap, mPlacementObj, the new content of the open period
\* still to be covered, and whether the open period has been met.

\* What of ad i is still to be placed.  Mutant: adNextOffset is forgotten.
RestWhole(s, i) == s.abObj.ads[i].duration
Rest(s, i) == s.abObj.ads[i].duration - s.pl.next

\* One turn of the inner loop: ad i over the rest of the delta in period p.
PlaceAd(p, s, i) ==
  LET base == s.map[p].duration - s.delta
      first == s.abObj.ads[i].basePeriod = 0
      abObj == IF first
               THEN [s.abObj EXCEPT
                       !.ads[i] = [@ EXCEPT !.basePeriod = p, !.baseOffset = base]]
               ELSE s.abObj
      map == IF first
             THEN [s.map EXCEPT ![p].offset2Ad =
                     Put(@, OffsetKey(base), [ad |-> i, start |-> 0])]
             ELSE s.map
      left == s.delta - Rest(s, i)
      last == i = Len(s.abObj.ads)
  IN IF i # s.pl.cur \/ s.delta = 0 \/ s.stop
     THEN s
     ELSE IF left < 0
     THEN [s EXCEPT !.abObj = abObj, !.map = map,
                    !.pl.next = @ + s.delta, !.delta = 0]
     ELSE IF last /\ s.delta < Align
     THEN [s EXCEPT !.abObj = abObj, !.map = map, !.stop = TRUE]
     ELSE IF ~last
     THEN [s EXCEPT !.abObj = [abObj EXCEPT !.ads[i].placed = TRUE],
                    !.map = map, !.delta = left,
                    !.pl = [@ EXCEPT !.cur = i + 1, !.next = 0]]
     ELSE [s EXCEPT !.abObj = [abObj EXCEPT !.ads[i].placed = TRUE,
                                            !.endPeriod = p,
                                            !.endOffset = map[p].duration - left,
                                            !.adjust = TRUE],
                    !.map = map, !.delta = left,
                    !.pl.cur = i + 1, !.stop = TRUE]

\* Mutant: the placement never leaves its first period.
OpenPeriodStays(e, s, p) ==
  [s EXCEPT !.found = @ \/ s.pl.open = p, !.here = (s.pl.open = p)]

\* The open period is found, or the next one with content becomes it.
OpenPeriod(e, s, p) ==
  IF s.pl.open = p
  THEN [s EXCEPT !.found = TRUE, !.here = TRUE]
  ELSE IF s.found /\ Duration(p, e) > 0
  THEN [s EXCEPT !.map[s.pl.open].filled = TRUE,
                 !.pl.open = p, !.pl.counted = 0, !.here = TRUE]
  ELSE [s EXCEPT !.here = FALSE]

\* The new content of the open period is covered with ads.
PlaceOnPeriod(e, s, p) ==
  LET o == OpenPeriod(e, s, p)
      delta == Duration(p, e) - o.pl.counted
      data == IF o.map[p].adBreakId = 0
              THEN [o.map[p] EXCEPT !.adBreakId = o.pl.brk,
                      !.offset2Ad = Put(@, 0, [ad |-> o.pl.cur, start |-> o.pl.next])]
              ELSE o.map[p]
      opened == [o EXCEPT !.pl.counted = Duration(p, e),
                          !.map[p] = [data EXCEPT !.duration = @ + delta],
                          !.delta = delta, !.stop = FALSE]
  IN IF s.abObj.adjust THEN s
     ELSE IF ~o.here THEN o
     ELSE FoldLeft(LAMBDA t, i : PlaceAd(p, t, i), opened,
                   [i \in 1..Len(s.abObj.ads) |-> i])

\* The end of the break is near the beginning, or the end, of its period.
NearStart(abObj) == abObj.endOffset < 2 * Align
\* Mutant: what remains of the period is not looked at.
NearEndAlways(abObj, e) == TRUE
NearEnd(abObj, e) == Duration(abObj.endPeriod, e) - abObj.endOffset < Align

\* The end of the break is moved to the beginning of a period near it.
AdjustEnd(e, s) ==
  LET p == s.abObj.endPeriod
      settle(q, offset, map) ==
        [s EXCEPT !.abObj.endPeriod = q, !.abObj.endOffset = offset,
                  !.abObj.adjust = FALSE, !.map = map]
      fresh(q) == Put(s.map, q, NoData)
  IN IF p \notin Manifest(e)
     THEN settle(p, s.abObj.endOffset, s.map)
     ELSE IF NearStart(s.abObj)
     THEN settle(p, 0, fresh(p))
     ELSE IF ~NearEnd(s.abObj, e)
     THEN settle(p, s.abObj.endOffset, s.map)
     ELSE IF p + 1 \in Manifest(e)
     THEN settle(p + 1, 0, fresh(p + 1))
     ELSE s

\* A finished placement makes way for that of the next break.
NextPlacement(s) ==
  IF s.placement.cur # 0
  THEN s
  ELSE IF s.nextPlacement.cur = 0
  THEN [s EXCEPT !.placement = NoPlacement]
  ELSE [s EXCEPT !.placement = s.nextPlacement, !.nextPlacement.cur = 0]

\* The content of all periods that are published is covered.
Placed(e, s) ==
  FoldLeft(LAMBDA t, p : IF p \in Manifest(e) THEN PlaceOnPeriod(e, t, p) ELSE t,
           [abObj |-> s.adBreaks[s.placement.brk], map |-> s.periodMap,
            pl |-> s.placement, delta |-> 0, found |-> FALSE,
            here |-> FALSE, stop |-> FALSE],
           [p \in Periods |-> p])

\* The end is adjusted, and the placement is over once it is.
Settled(e, t) ==
  IF ~t.abObj.adjust THEN t
  ELSE LET over == AdjustEnd(e, t)
       IN [over EXCEPT !.pl.cur = IF over.abObj.adjust THEN @ ELSE 0]

WithPlacement(s, t) ==
  [s EXCEPT !.adBreaks[s.placement.brk] = t.abObj, !.periodMap = t.map,
            !.placement = t.pl]

PlaceAds(e, s) ==
  IF s.placement.cur = 0 \/ s.placement.brk \notin DOMAIN s.adBreaks
  THEN s
  ELSE NextPlacement(WithPlacement(s, Settled(e, Placed(e, s))))

\* A whole refresh: the tables after a manifest published up to e.
Refreshed(e, init) ==
  PlaceAds(e, PrunePeriodMaps(e, FindBreaks(e, init,
    [adBreaks |-> adBreaks, periodMap |-> periodMap, placement |-> placement,
     nextPlacement |-> nextPlacement,
     curBreak |-> IF init THEN 0 ELSE curBreak])))

----------------------------------------------------------------------------
Init ==
  /\ edge = InitialEdge
  /\ LET first == FindBreaks(InitialEdge, TRUE,
                    [adBreaks |-> << >>, periodMap |-> << >>])
     IN adBreaks = first.adBreaks /\ periodMap = first.periodMap
  /\ placement = NoPlacement /\ nextPlacement = NoPlacement
  /\ asked = {} /\ fulfil = [brk |-> 0, ad |-> 0] /\ thread = "idle"
  /\ adState = "OUTSIDE_ADBREAK" /\ curBreak = 0 /\ curAds = 0
  /\ curAdIdx = 0
  /\ seekOffset = 0 /\ adFailed = FALSE
  /\ basePeriod = FirstPeriod(InitialEdge) /\ baseOffset = 0
  /\ current = basePeriod /\ iPeriod = basePeriod
  /\ playing = <<basePeriod>> /\ pos = 0
  /\ mpdChanged = FALSE /\ adStateChanged = FALSE /\ mode = "loop"
  /\ seeks = 0 /\ failures = 0

----------------------------------------------------------------------------
\* The application's thread and the ad thread.

\* SetAlternateContents for an ad: a thread that has ended is joined, the
\* ad is dropped if its break is unknown or full.
SetAlternateContents(ad) ==
  LET b == Reservation[ad]
  IN /\ ad \notin asked
     /\ StartOf[b] <= edge + Early       \* the break has been reported
     /\ thread = "idle"
     /\ asked' = asked \cup {ad}
     /\ IF /\ b \in DOMAIN adBreaks
           /\ adBreaks[b].brkDuration > adBreaks[b].adsDuration
        THEN fulfil' = [brk |-> b, ad |-> ad] /\ thread' = "started"
        ELSE UNCHANGED <<fulfil, thread>>
     /\ UNCHANGED <<edge, daiVars, adVars, collectorVars, seeks, failures>>

\* FulFillAdObject takes mDaiMtx and downloads the manifest of the ad.
DownloadAd ==
  /\ thread = "started"
  /\ thread' = "download"
  /\ UNCHANGED <<edge, daiVars, asked, fulfil, adVars, collectorVars, seeks,
                 failures>>

\* The length an ad gets: what is left of its break, if that is shorter.
Trimmed(abObj, ad) ==
  Smaller(AdLength[ad], abObj.brkDuration - abObj.adsDuration)

\* The ad is appended; the first ad of a break starts its placement, or is
\* the next to be placed.
FulFillAdObject ==
  LET b == fulfil.brk
      abObj == adBreaks[b]
      first == abObj.ads = << >>
      now == placement.cur = 0
      node == [ad |-> fulfil.ad, invalid |-> FALSE, placed |-> FALSE,
               duration |-> Trimmed(abObj, fulfil.ad),
               basePeriod |-> IF first /\ now THEN b ELSE 0,
               baseOffset |-> 0]
      begin == [brk |-> b, open |-> b, counted |-> 0, cur |-> 1, next |-> 0]
  IN /\ thread = "download"
     /\ thread' = "idle"
     /\ IF b \notin DOMAIN adBreaks
        THEN UNCHANGED daiVars
        ELSE /\ adBreaks' = [adBreaks EXCEPT
                  ![b].ads = Append(@, node),
                  ![b].adsDuration = @ + node.duration]
             /\ periodMap' = IF first /\ b \in DOMAIN periodMap
                             THEN [periodMap EXCEPT ![b].offset2Ad =
                                     Put(@, 0, [ad |-> 1, start |-> 0])]
                             ELSE periodMap
             /\ placement' = IF first /\ now THEN begin ELSE placement
             /\ nextPlacement' = IF first /\ ~now THEN begin ELSE nextPlacement
     /\ UNCHANGED <<edge, asked, fulfil, adVars, collectorVars, seeks, failures>>

\* The download of the manifest fails.
DownloadFails ==
  /\ thread = "download" /\ failures < MaxFailures
  /\ thread' = "idle"
  /\ failures' = failures + 1
  /\ UNCHANGED <<edge, daiVars, asked, fulfil, adVars, collectorVars, seeks>>

----------------------------------------------------------------------------
\* The playback state machine.

\* CheckForAdStart: [ad, brk, offset], ad 0 if there is none.
NoAd == [ad |-> 0, brk |-> 0, offset |-> 0]

\* At normal rate an ad starts at its own beginning, up to Align early.
SeamlessStart(data, offset) ==
  LET starts(k) == k \in DOMAIN data.offset2Ad
      floor == OffsetKey(offset)
      key == IF starts(floor) THEN floor ELSE floor + Align
  IN IF starts(key) /\ data.offset2Ad[key].start = 0
     THEN data.offset2Ad[key].ad
     ELSE 0

\* After a seek it is the ad that covers the position.
DiscreteStart(data, abObj, p, offset) ==
  LET end == IF p = abObj.endPeriod THEN abObj.endOffset ELSE data.duration
      keys == {k \in DOMAIN data.offset2Ad : k <= offset}
      key == CHOOSE k \in keys : \A l \in keys : l <= k
  IN IF offset <= end /\ keys # {}
     THEN [ad |-> data.offset2Ad[key].ad, offset |-> offset - key]
     ELSE [ad |-> 0, offset |-> 0]

CheckForAdStart(init, s, offset) ==
  LET data == DataOf(s.map, s.base)
      abObj == s.breaks[data.adBreakId]
      start == IF init THEN DiscreteStart(data, abObj, s.base, offset)
               ELSE [ad |-> SeamlessStart(data, offset), offset |-> 0]
      ended == start.ad = 0 /\ abObj.endPeriod = s.base
                 /\ offset >= abObj.endOffset
  IN IF data.adBreakId = 0 \/ data.adBreakId \notin DOMAIN s.breaks
     THEN NoAd
     ELSE [ad |-> start.ad, brk |-> IF ended THEN 0 ELSE data.adBreakId,
           offset |-> start.offset]

\* What onAdEvent works on: its own variables, the base position's period
\* and the tables.
AdNow == [state |-> adState, brk |-> curBreak, ads |-> curAds,
          idx |-> curAdIdx, seek |-> seekOffset, base |-> basePeriod,
          breaks |-> adBreaks, map |-> periodMap, offset |-> 0,
          changed |-> FALSE]

Invalidate(s, b, i) == [s EXCEPT !.breaks[b].ads[i].invalid = TRUE]

Play(s, b, i) == [s EXCEPT !.ads = b, !.idx = i, !.changed = TRUE,
                           !.state = "IN_ADBREAK_AD_PLAYING"]
LeaveBreak(s) == [s EXCEPT !.brk = 0, !.ads = 0, !.idx = 0, !.changed = TRUE,
                           !.state = "OUTSIDE_ADBREAK"]

\* OUTSIDE_ADBREAK: a break begins at the position.
EnterAt(s, start) ==
  LET t == [s EXCEPT !.brk = start.brk, !.offset = start.offset]
  IN IF start.ad = 0 \/ start.brk = 0
     THEN s
     ELSE IF s.breaks[start.brk].ads[start.ad].invalid
     THEN [t EXCEPT !.state = "IN_ADBREAK_AD_NOT_PLAYING", !.changed = TRUE]
     ELSE Play(t, start.brk, start.ad)
EnterBreak(s, init, offset) == EnterAt(s, CheckForAdStart(init, s, offset))

\* IN_ADBREAK_AD_NOT_PLAYING: the base content reaches an ad, or the end.
\* A first ad that is reached late is not played.
RejoinAt(s, start, offset) ==
  IF start.ad = 0
  THEN IF start.brk = 0 THEN LeaveBreak(s) ELSE s
  ELSE IF start.ad = 1 /\ offset # 0
  THEN Invalidate(s, start.brk, 1)
  ELSE IF s.breaks[start.brk].ads[start.ad].invalid
  THEN s
  ELSE Play(s, start.brk, start.ad)
RejoinBreak(s, offset) ==
  RejoinAt(s, CheckForAdStart(FALSE, s, offset), offset)

\* IN_ADBREAK_WAIT2CATCHUP, once the ad is placed: the next ad, or the
\* content after the break (IN_ADBREAK_AD_READY2PLAY is passed through).
NextAd(s) ==
  LET ads == s.breaks[s.ads].ads
      i == s.idx + 1
  IN IF ~ads[s.idx].placed
     THEN s
     ELSE IF i > Len(ads)
     THEN LeaveBreak([s EXCEPT !.base = s.breaks[s.brk].endPeriod,
                               !.seek = s.breaks[s.brk].endOffset])
     ELSE IF ads[i].invalid
     THEN [s EXCEPT !.idx = i, !.changed = TRUE,
                    !.state = "IN_ADBREAK_AD_NOT_PLAYING"]
     ELSE Play(s, s.ads, i)

OnDefault(s, offset) ==
  CASE s.state = "OUTSIDE_ADBREAK"           -> EnterBreak(s, FALSE, offset)
    [] s.state = "IN_ADBREAK_AD_NOT_PLAYING" -> RejoinBreak(s, offset)
    [] s.state = "IN_ADBREAK_WAIT2CATCHUP"   -> NextAd(s)
    [] OTHER                                 -> s

OnBaseOffsetChange(s, offset) ==
  IF s.state = "IN_ADBREAK_AD_NOT_PLAYING" THEN RejoinBreak(s, offset) ELSE s

OnAdFinished(s) ==
  [s EXCEPT !.state = "IN_ADBREAK_WAIT2CATCHUP", !.changed = TRUE]

\* Mutant: the failed ad stays valid.
OnAdFailedValid(s) ==
  IF s.state = "IN_ADBREAK_AD_PLAYING"
  THEN [s EXCEPT !.state = "IN_ADBREAK_AD_NOT_PLAYING", !.changed = TRUE]
  ELSE s
OnAdFailed(s) ==
  IF s.state = "IN_ADBREAK_AD_PLAYING"
  THEN [Invalidate(s, s.ads, s.idx) EXCEPT
          !.state = "IN_ADBREAK_AD_NOT_PLAYING", !.changed = TRUE]
  ELSE s

\* The event's effect on the variables of onAdEvent.
AdBecomes(s) ==
  /\ adState' = s.state /\ curBreak' = s.brk /\ curAds' = s.ads
  /\ curAdIdx' = s.idx
  /\ adBreaks' = s.breaks
DaiFree == thread # "download"      \* onAdEvent takes mDaiMtx

----------------------------------------------------------------------------
\* The collector's thread.

\* Where the collector is on the base timeline.
Position == IF adState = "OUTSIDE_ADBREAK" THEN At(current, pos)
            ELSE At(basePeriod, baseOffset)

\* UpdateMPD: a manifest with g more content, then the period of the base
\* position is looked up again.  A new break takes mDaiMtx.
UpdateMPD(g) ==
  LET e == edge + g
      here == IF basePeriod \in Manifest(e) THEN basePeriod
              ELSE FirstPeriod(e)
  IN /\ mode = "refresh"
     /\ e <= MaxEdge /\ (g = 0 \/ e <= Position + MaxLag)
     /\ FoundBreaks(e, FALSE, periodMap) # {} => DaiFree
     /\ edge' = e
     /\ \E r \in {Refreshed(e, FALSE)} :
          /\ adBreaks' = r.adBreaks /\ periodMap' = r.periodMap
          /\ placement' = r.placement /\ nextPlacement' = r.nextPlacement
     /\ current' = here /\ iPeriod' = here
     /\ mpdChanged' = TRUE /\ mode' = "loop"
     /\ UNCHANGED <<fulfilVars, adVars, adFailed, basePeriod, baseOffset,
                    playing, pos, adStateChanged, seeks, failures>>

PeriodChanged == iPeriod # current \/ basePeriod # current
NewPass == PeriodChanged \/ mpdChanged \/ adStateChanged

\* The loop is past the last period: the manifest is refreshed.
LeavePeriods ==
  /\ mode = "loop" /\ iPeriod \notin Manifest(edge)
  /\ mode' = "refresh"
  /\ UNCHANGED <<edge, daiVars, fulfilVars, adVars, adFailed, basePeriod,
                 baseOffset, current, iPeriod, playing, pos, mpdChanged,
                 adStateChanged, seeks, failures>>

\* Nothing has changed since the last pass, or the period is empty.
PassOn ==
  /\ mode = "loop" /\ iPeriod \in Manifest(edge)
  /\ \/ /\ ~NewPass
        /\ mode' = "fetch" /\ UNCHANGED iPeriod
     \/ /\ PeriodChanged /\ Duration(iPeriod, edge) = 0
        /\ iPeriod' = iPeriod + 1 /\ UNCHANGED mode
  /\ mpdChanged' = FALSE
  /\ UNCHANGED <<edge, daiVars, fulfilVars, adVars, adFailed, basePeriod,
                 baseOffset, current, playing, pos, adStateChanged, seeks,
                 failures>>

\* The base offset once the loop goes on with iPeriod.  Mutant: it restarts
\* with each period, in a break as well.
OffsetRestarts ==
  IF PeriodChanged /\ basePeriod # iPeriod THEN 0 ELSE baseOffset
OffsetInPeriod ==
  IF ~PeriodChanged THEN baseOffset
  ELSE IF adState # "OUTSIDE_ADBREAK"
  THEN baseOffset - DataOf(periodMap, basePeriod).duration
  ELSE IF basePeriod # iPeriod THEN 0
  ELSE baseOffset

\* Just out of a break, the loop goes on at the period the content resumes
\* in, or past the last one if that is not in the manifest.
Land(s, here) ==
  IF ~(s.changed /\ s.state = "OUTSIDE_ADBREAK")
  THEN current' = here /\ UNCHANGED iPeriod
  ELSE IF s.base \in Manifest(edge)
  THEN current' = s.base /\ iPeriod' = s.base
  ELSE current' = here /\ iPeriod' = Len(PeriodLength) + 1

\* What is played is selected, which may fail for an ad, and a failure since
\* the last pass is told to the state machine.
Select(s) ==
  LET adPlays == s.state = "IN_ADBREAK_AD_PLAYING"
      content == IF adPlays THEN <<s.ads, s.idx>> ELSE <<current'>>
      select == content # playing /\ (adPlays \/ Duration(current', edge) > 0)
  IN /\ playing' = IF select THEN content ELSE playing
     /\ pos' = IF s.seek # 0 THEN s.seek ELSE IF select THEN 0 ELSE pos
     /\ seekOffset' = 0 /\ adFailed' = FALSE
     /\ \E fails \in IF adPlays /\ select /\ failures < MaxFailures
                     THEN BOOLEAN ELSE {FALSE} :
          /\ failures' = IF fails THEN failures + 1 ELSE failures
          /\ IF fails \/ adFailed
             THEN /\ AdBecomes(OnAdFailed(s))
                  /\ adStateChanged' = adPlays /\ mode' = "loop"
             ELSE /\ AdBecomes(s)
                  /\ adStateChanged' = FALSE /\ mode' = "fetch"

\* The next pass over a period: onAdEvent(DEFAULT), then what is played is
\* selected: the ad, or the base period the state machine left us in.
EnterPeriod ==
  LET here == IF PeriodChanged THEN iPeriod ELSE current
      base == IF PeriodChanged THEN iPeriod ELSE basePeriod
  IN /\ mode = "loop" /\ iPeriod \in Manifest(edge) /\ NewPass
     /\ PeriodChanged => Duration(iPeriod, edge) > 0
     /\ DaiFree
     /\ mpdChanged' = FALSE /\ baseOffset' = OffsetInPeriod
     /\ \E s \in {OnDefault([AdNow EXCEPT !.base = base], OffsetInPeriod)} :
          /\ basePeriod' = s.base
          /\ Land(s, here)
          /\ IF s.state = "IN_ADBREAK_WAIT2CATCHUP"
             THEN /\ mode' = "refresh" /\ adStateChanged' = s.changed
                  /\ AdBecomes(s)
                  /\ UNCHANGED <<adFailed, playing, pos, seekOffset, failures>>
             ELSE Select(s)
     /\ UNCHANGED <<edge, periodMap, placement, nextPlacement, fulfilVars, seeks>>

\* The base period is complete and the base position has passed its end.
BaseCompleted(offset) ==
  LET data == DataOf(periodMap, basePeriod)
  IN data.filled /\ data.duration <= offset

\* The rest of a pass of the fetch loop: the next pass, or a refresh.
FetchOn == mode' \in {"fetch", "refresh"} /\ UNCHANGED iPeriod
NextPeriod == mode' = "loop" /\ iPeriod' = iPeriod + 1

\* The fragments of an ad; past the end of its slot it is terminated
\* (CheckForAdTerminate).
FetchAd ==
  LET node == adBreaks[curAds].ads[curAdIdx]
      more == pos < AdLength[node.ad]
      offset == IF more THEN baseOffset + 1 ELSE baseOffset
      eos == ~more \/ pos + 1 >= node.duration + Align
  IN /\ mode = "fetch" /\ adState = "IN_ADBREAK_AD_PLAYING"
     /\ pos' = IF more THEN pos + 1 ELSE pos
     /\ baseOffset' = offset
     /\ \E fails \in IF more /\ failures < MaxFailures THEN BOOLEAN ELSE {FALSE} :
          /\ adFailed' = (adFailed \/ fails)
          /\ failures' = IF fails THEN failures + 1 ELSE failures
     /\ IF eos
        THEN /\ DaiFree
             /\ AdBecomes(OnAdFinished(AdNow))
             /\ adStateChanged' = TRUE /\ mode' = "loop" /\ UNCHANGED iPeriod
        ELSE /\ IF BaseCompleted(offset) THEN NextPeriod ELSE FetchOn
             /\ UNCHANGED <<adState, curBreak, curAds, curAdIdx, adBreaks,
                            adStateChanged>>
     /\ UNCHANGED <<edge, periodMap, placement, nextPlacement, fulfilVars,
                    seekOffset, basePeriod, current, playing, mpdChanged, seeks>>

\* The fragments of the base content.
FetchBase ==
  LET more == playing = <<current>> /\ pos < Duration(current, edge)
      offset == IF more THEN baseOffset + 1 ELSE baseOffset
      inBreak == adState # "OUTSIDE_ADBREAK"
      s == OnBaseOffsetChange(AdNow, offset)
  IN /\ mode = "fetch" /\ adState # "IN_ADBREAK_AD_PLAYING"
     /\ pos' = IF more THEN pos + 1 ELSE pos
     /\ baseOffset' = offset
     /\ IF more /\ inBreak /\ ~BaseCompleted(offset)
        THEN /\ DaiFree
             /\ AdBecomes(s) /\ adStateChanged' = s.changed
             /\ IF s.changed THEN NextPeriod ELSE FetchOn
        ELSE /\ IF ~more \/ inBreak THEN NextPeriod ELSE FetchOn
             /\ UNCHANGED <<adState, curBreak, curAds, curAdIdx, adBreaks,
                            adStateChanged>>
     /\ UNCHANGED <<edge, periodMap, placement, nextPlacement, fulfilVars,
                    seekOffset, adFailed, basePeriod, current, playing,
                    mpdChanged, seeks, failures>>

\* A seek of the application: a new stream at offset o of period p, whose
\* Init resets the state machine and looks for an ad at that position.
Seek(p, o) ==
  /\ seeks < MaxSeeks /\ seeks' = seeks + 1
  /\ p \in Manifest(edge) /\ o < Duration(p, edge)
  /\ DaiFree
  /\ \E r \in {Refreshed(edge, TRUE)} :
       LET reset == [state |-> "OUTSIDE_ADBREAK", brk |-> 0, ads |-> 0,
                     idx |-> 0, seek |-> 0, base |-> p, breaks |-> r.adBreaks,
                     map |-> r.periodMap, offset |-> 0, changed |-> FALSE]
       IN \E s \in {EnterBreak(reset, TRUE, o)} :
            /\ AdBecomes(s)
            /\ playing' = IF s.ads # 0 THEN <<s.ads, s.idx>> ELSE <<p>>
            /\ pos' = IF s.ads # 0 THEN s.offset ELSE o
            /\ periodMap' = r.periodMap
            /\ placement' = r.placement /\ nextPlacement' = r.nextPlacement
  /\ seekOffset' = 0 /\ adFailed' = FALSE
  /\ basePeriod' = p /\ baseOffset' = o /\ current' = p /\ iPeriod' = p
  /\ mpdChanged' = FALSE /\ adStateChanged' = FALSE /\ mode' = "loop"
  /\ UNCHANGED <<edge, fulfilVars, failures>>

Collect ==
  \/ \E g \in Growth : UpdateMPD(g)
  \/ LeavePeriods \/ PassOn \/ EnterPeriod \/ FetchAd \/ FetchBase
Application ==
  \/ \E ad \in Ads : SetAlternateContents(ad)
  \/ \E p \in Periods, o \in SeekOffsets : Seek(p, o)
AdThread == DownloadAd \/ FulFillAdObject \/ DownloadFails
Next == Collect \/ Application \/ AdThread

Grow == \E g \in Growth \ {0} : UpdateMPD(g)
MayGrow == mode = "refresh" /\ edge < MaxEdge /\ edge + Align <= Position + MaxLag

\* The collector's thread runs, a download ends, and a live manifest that is
\* refreshed again and again grows until the stream ends.
Fairness ==
  /\ WF_vars(AdThread)
  /\ []<><<Collect>>_vars
  /\ []<>MayGrow => []<><<Grow>>_vars
Spec == Init /\ [][Next]_vars /\ Fairness

----------------------------------------------------------------------------
AdStates == {"OUTSIDE_ADBREAK", "IN_ADBREAK_AD_NOT_PLAYING",
             "IN_ADBREAK_AD_PLAYING", "IN_ADBREAK_WAIT2CATCHUP"}

\* Every variable keeps its type, and the ads of a break never exceed it
\* (the trimming in FulFillAdObject).
TypeOK ==
  /\ edge \in 0..MaxEdge
  /\ adState \in AdStates
  /\ thread \in {"idle", "started", "download"}
  /\ mode \in {"refresh", "loop", "fetch"}
  /\ DOMAIN adBreaks \subseteq Breaks /\ DOMAIN periodMap \subseteq Periods
  /\ basePeriod \in Periods /\ current \in Periods
  /\ baseOffset \in Int /\ pos \in Nat /\ seekOffset \in Nat
  /\ curBreak \in Breaks \cup {0} /\ curAds \in Breaks \cup {0}
  /\ curAdIdx \in 0..Cardinality(Ads)
  /\ \A b \in DOMAIN adBreaks :
       /\ adBreaks[b].ads \in Seq([ad : Ads, invalid : BOOLEAN, placed : BOOLEAN,
             duration : Nat, basePeriod : Periods \cup {0}, baseOffset : Nat])
       /\ adBreaks[b].adsDuration \in 0..adBreaks[b].brkDuration

\* The break the player is in is in mAdBreaks, which onAdEvent indexes with
\* mCurPlayingBreakId, whatever PrunePeriodMaps removed as the manifest moved on.
CurrentBreakIsKept ==
  adState # "OUTSIDE_ADBREAK" => curBreak \in DOMAIN adBreaks

\* So is the break whose ad is played, or was played and is waited for, with
\* that ad: mCurAds points to its ads, and mCurAdIdx is one of them.  (And TypeOK.)
PlayingBreakIsKept ==
  /\ TypeOK /\ CurrentBreakIsKept
  /\ adState \in {"IN_ADBREAK_AD_PLAYING", "IN_ADBREAK_WAIT2CATCHUP"} =>
       curAds \in DOMAIN adBreaks /\ curAdIdx \in 1..Len(adBreaks[curAds].ads)

\* Where an ad lies on the base timeline.
BeginOf(ad) == At(ad.basePeriod, ad.baseOffset)
EndOf(ad) == BeginOf(ad) + ad.duration

\* The ads of a break are placed in turn: the first begins with the break, and
\* none is begun before all in front of it are placed.
PlacedInTurn ==
  \A b \in DOMAIN adBreaks : LET ads == adBreaks[b].ads IN
    \A i \in 1..Len(ads) :
       ads[i].basePeriod # 0 =>
         IF i = 1 THEN BeginOf(ads[i]) = StartOf[b]
         ELSE \A j \in 1..(i - 1) : ads[j].placed

\* No ad of a break begins on the base timeline before those in front of it end,
\* over however many refreshes PlaceAds spreads its work.
AdsDoNotOverlap ==
  \A b \in DOMAIN adBreaks : LET ads == adBreaks[b].ads IN
    \A i \in 1..Len(ads) :
       ads[i].basePeriod # 0 =>
         \A j \in 1..(i - 1) : EndOf(ads[j]) <= BeginOf(ads[i])

\* The ads of a break are placed in turn, and lie on the base timeline one behind
\* the other without a gap (a manifest that grows by less than Align could leave one).
AdsAreConsecutive ==
  /\ PlacedInTurn /\ AdsDoNotOverlap
  /\ \A b \in DOMAIN adBreaks : LET ads == adBreaks[b].ads IN
       \A i \in 2..Len(ads) :
          ads[i].basePeriod # 0 => BeginOf(ads[i]) = EndOf(ads[i-1])

\* The content is resumed where all placed ads of the break have ended, but for the
\* alignment: AdjustEnd never takes more than two Align of an ad back.
ResumesAfterItsAds ==
  \A b \in DOMAIN adBreaks :
    LET abObj == adBreaks[b]
    IN abObj.endPeriod # 0 /\ ~abObj.adjust =>
         \A j \in 1..Len(abObj.ads) :
           abObj.ads[j].placed =>
             EndOf(abObj.ads[j]) < At(abObj.endPeriod, abObj.endOffset) + 2 * Align

\* And it is resumed at the end of the last placed ad, not later, but for the
\* alignment at the end of PlaceAds.
EndsWithItsAds ==
  /\ ResumesAfterItsAds
  /\ \A b \in DOMAIN adBreaks :
       LET abObj == adBreaks[b]
           placed == SelectSeq(abObj.ads, LAMBDA ad : ad.placed)
       IN abObj.endPeriod # 0 /\ ~abObj.adjust =>
            At(abObj.endPeriod, abObj.endOffset) - EndOf(Last(placed)) < Align + Early

\* When the player leaves a break after its last ad, the point PlaceAds chose
\* for the content is where the base position that was counted fragment by
\* fragment has arrived, but for the alignments.  (Not after a seek into the
\* middle of an ad, which is then begun at another point than was placed.)
LandsInPlace ==
  [][adState = "IN_ADBREAK_WAIT2CATCHUP" /\ adState' = "OUTSIDE_ADBREAK"
       /\ seeks' = 0 =>
     LET abObj == adBreaks[curBreak]
         d == At(abObj.endPeriod, abObj.endOffset) - At(basePeriod, baseOffset)
     IN d >= -3 * Align /\ d <= Align]_vars

\* Within a break no ad is played twice or after a later one, whatever fails
\* and whenever the placement, the base position or the application move on
\* (onAdEvent).
AdsPlayInOrder ==
  [][curAds' = curAds /\ curAds # 0 /\ seeks' = seeks =>
       /\ curAdIdx' >= curAdIdx
       /\ adState # "IN_ADBREAK_AD_PLAYING" /\ adState' = "IN_ADBREAK_AD_PLAYING" =>
            curAdIdx' > curAdIdx]_vars

\* The break that is played is being placed, in a period the manifest has.
PlacementGoesOn ==
  placement.brk = curAds /\ placement.cur # 0 /\ placement.open \in Manifest(edge)

\* A player that waits for the base content to cover the ad it has played
\* (IN_ADBREAK_WAIT2CATCHUP) goes on once the ad is placed, and it is placed:
\* not for ever does it wait while the ad is placed or its break is being
\* placed in a period the manifest still has.
CatchupEnds ==
  []<>~( /\ adState = "IN_ADBREAK_WAIT2CATCHUP"
         /\ adBreaks[curAds].ads[curAdIdx].placed \/ PlacementGoesOn )

=============================================================================
