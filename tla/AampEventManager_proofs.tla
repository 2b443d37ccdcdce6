----------------------- MODULE AampEventManager_proofs -----------------------
(***************************************************************************)
(* Proofs about AampEventManager, for any finite set of sending threads,    *)
(* any listeners and any number of events, stops and changes.               *)
(***************************************************************************)
EXTENDS AampEventManager, FiniteSetTheorems, SequenceTheorems, TLAPS

(* The actions a step may be, each by its name.                             *)
LEMMA Steps ==
    ASSUME [Next]_vars
    PROVE  \/ UNCHANGED vars
           \/ \E s \in Senders : \/ SendEvent(s) \/ SendEventAsync(s) \/ AddCallback(s)
                                 \/ SetCallbackAsPending(s)
           \/ Dispatch \/ SetCallbackAsDispatched \/ AsyncEvent \/ AsyncEventListeners
           \/ AsyncEventState \/ SendOnMainLoop \/ SendEventSync \/ CallListener
           \/ LastReturns
           \/ Stop \/ FlushPendingEvents \/ Tune \/ AddEventListener \/ RemoveEventListener
  BY DEF Next, SenderContinue, LoopContinue

-----------------------------------------------------------------------------
(* Types                                                                    *)

(* The map of marks: its domain, its values, and the ids marked each way.   *)
MarkType ==
    /\ DOMAIN mPendingAsyncEvents \subseteq 1 .. callbackId
    /\ \A id \in DOMAIN mPendingAsyncEvents : mPendingAsyncEvents[id] \in BOOLEAN

LEMMA ErasedMarks ==
    ASSUME NEW id, mPendingAsyncEvents' = Erased(id)
    PROVE  /\ DOMAIN mPendingAsyncEvents' = DOMAIN mPendingAsyncEvents \ {id}
           /\ \A i \in DOMAIN mPendingAsyncEvents' :
                 mPendingAsyncEvents'[i] = mPendingAsyncEvents[i]
           /\ \A state : Marked(state)' = Marked(state) \ {id}
<1>1. mPendingAsyncEvents' =
         [i \in DOMAIN mPendingAsyncEvents \ {id} |-> mPendingAsyncEvents[i]]
  BY Zenon DEF Erased
<1>2. DOMAIN mPendingAsyncEvents' = DOMAIN mPendingAsyncEvents \ {id}
  BY <1>1, Zenon
<1>3. \A i \in DOMAIN mPendingAsyncEvents' : mPendingAsyncEvents'[i] = mPendingAsyncEvents[i]
  BY <1>1, Zenon
<1>4. \A state : Marked(state)' = Marked(state) \ {id}
  BY <1>2, <1>3, Zenon DEF Marked
<1> QED BY <1>2, <1>3, <1>4, Zenon

LEMMA InsertedMarks ==
    ASSUME NEW id, NEW mark \in BOOLEAN, id \notin DOMAIN mPendingAsyncEvents,
           mPendingAsyncEvents' = Inserted(id, mark)
    PROVE  /\ DOMAIN mPendingAsyncEvents' = DOMAIN mPendingAsyncEvents \cup {id}
           /\ mPendingAsyncEvents'[id] = mark
           /\ \A i \in DOMAIN mPendingAsyncEvents :
                 mPendingAsyncEvents'[i] = mPendingAsyncEvents[i]
           /\ Marked(mark)' = Marked(mark) \cup {id}
           /\ \A state : state # mark => Marked(state)' = Marked(state)
<1>1. mPendingAsyncEvents' =
         [i \in DOMAIN mPendingAsyncEvents \cup {id} |->
             IF i = id THEN mark ELSE mPendingAsyncEvents[i]]
  BY Zenon DEF Inserted
<1>2. DOMAIN mPendingAsyncEvents' = DOMAIN mPendingAsyncEvents \cup {id}
  BY <1>1, Zenon
<1>3. mPendingAsyncEvents'[id] = mark
  BY <1>1, Zenon
<1>4. \A i \in DOMAIN mPendingAsyncEvents : mPendingAsyncEvents'[i] = mPendingAsyncEvents[i]
  BY <1>1, Zenon
<1>5. Marked(mark)' = Marked(mark) \cup {id}
  BY <1>2, <1>3, <1>4, Zenon DEF Marked
<1>6. \A state : state # mark => Marked(state)' = Marked(state)
  BY <1>2, <1>3, <1>4, Zenon DEF Marked
<1> QED BY <1>2, <1>3, <1>4, <1>5, <1>6, Zenon

(* SetCallbackAsPending marks TRUE and SetCallbackAsDispatched FALSE, unless *)
(* the other has marked the id before.                                      *)
LEMMA MarkStep ==
    ASSUME MarkType, NEW id \in 1 .. callbackId, NEW mark \in BOOLEAN,
           callbackId' = callbackId,
           mPendingAsyncEvents' =
              IF id \in DOMAIN mPendingAsyncEvents THEN Erased(id) ELSE Inserted(id, mark)
    PROVE  /\ MarkType'
           /\ Marked(mark)' \subseteq Marked(mark) \cup {id}
           /\ \A state : state # mark => Marked(state)' \subseteq Marked(state)
<1>1. CASE id \in DOMAIN mPendingAsyncEvents
  <2>1. mPendingAsyncEvents' = Erased(id)
    BY <1>1, Zenon
  <2>2. /\ DOMAIN mPendingAsyncEvents' = DOMAIN mPendingAsyncEvents \ {id}
        /\ \A i \in DOMAIN mPendingAsyncEvents' :
              mPendingAsyncEvents'[i] = mPendingAsyncEvents[i]
        /\ \A state : Marked(state)' = Marked(state) \ {id}
    BY <2>1, ErasedMarks, Zenon
  <2> QED BY <2>2, Zenon DEF MarkType
<1>2. CASE id \notin DOMAIN mPendingAsyncEvents
  <2>1. mPendingAsyncEvents' = Inserted(id, mark)
    BY <1>2, Zenon
  <2>2. /\ DOMAIN mPendingAsyncEvents' = DOMAIN mPendingAsyncEvents \cup {id}
        /\ mPendingAsyncEvents'[id] = mark
        /\ \A i \in DOMAIN mPendingAsyncEvents :
              mPendingAsyncEvents'[i] = mPendingAsyncEvents[i]
        /\ Marked(mark)' = Marked(mark) \cup {id}
        /\ \A state : state # mark => Marked(state)' = Marked(state)
    BY <1>2, <2>1, InsertedMarks, Zenon
  <2> QED BY <2>2, Zenon DEF MarkType
<1> QED BY <1>1, <1>2

LEMMA NoMarks == DOMAIN [id \in {} |-> TRUE] = {}
  OBVIOUS

LEMMA InitType == Init => TypeOK
<1> SUFFICES ASSUME Init PROVE TypeOK
  OBVIOUS
<1> USE DEF Init, Sync
<1>1. mEventWorkerDataQue \in Seq(1 .. MaxEvents)
  BY EmptySeq
<1>1a. outer \in Seq(SUBSET Listeners)
  BY EmptySeq
<1>2. DOMAIN mPendingAsyncEvents = {}
  BY NoMarks, Zenon
<1>3. /\ spc \in [Senders -> {"idle", "push", "add", "pend"}]
      /\ sid \in [Senders -> 0 .. callbackId]
      /\ owed \in [Listeners -> Int]
      /\ \A s \in Senders : spc[s] # "pend"
  OBVIOUS
<1>4. MaxEvents \in Nat /\ MaxSyncs \in Nat /\ MaxStops \in Nat /\ MaxChanges \in Nat
  BY EventAssumption, Zenon
<1>5. \A id \in DOMAIN mPendingAsyncEvents : mPendingAsyncEvents[id] \in BOOLEAN
  BY <1>2, Zenon
<1>6. /\ released \in BOOLEAN /\ mEventListeners \subseteq Listeners
      /\ sources = {} /\ callbackId = 0 /\ lpc = "idle" /\ current = 0
      /\ event = 0 /\ pList = {} /\ cpc = "idle" /\ queued = 0 /\ stops = 0
      /\ changes = 0 /\ syncs = 0 /\ delivered = 0 /\ gone = {}
  OBVIOUS
<1> HIDE DEF Init
<1> QED BY <1>1, <1>1a, <1>2, <1>3, <1>4, <1>5, <1>6 DEF TypeOK

LEMMA SenderType ==
    ASSUME TypeOK, NEW s \in Senders,
           SendEvent(s) \/ SendEventAsync(s) \/ AddCallback(s) \/ SetCallbackAsPending(s)
    PROVE  TypeOK'
<1> USE EventAssumption DEF TypeOK, callbacks, sender, loop, app, history
<1>1. CASE SendEvent(s)
  BY <1>1 DEF SendEvent
<1>2. CASE SendEventAsync(s)
  <2>1. CASE ~released /\ queued < MaxEvents
    <3>1. queued' = queued + 1 /\ queued + 1 \in 1 .. MaxEvents
      BY <1>2, <2>1 DEF SendEventAsync
    <3>2. mEventWorkerDataQue' = Append(mEventWorkerDataQue, queued + 1)
      BY <1>2, <2>1 DEF SendEventAsync
    <3>3. mEventWorkerDataQue' \in Seq(1 .. MaxEvents)
      BY <3>1, <3>2, AppendProperties
    <3>4. spc' \in [Senders -> {"idle", "push", "add", "pend"}] /\ spc'[s] = "add"
      BY <1>2, <2>1 DEF SendEventAsync
    <3>5. \A t \in Senders : spc'[t] = "pend" => spc[t] = "pend"
      BY <1>2, <2>1 DEF SendEventAsync
    <3>6. UNCHANGED <<callbacks, released, mEventListeners, sid, loop, app, syncs, history>>
      BY <1>2 DEF SendEventAsync
    <3> QED BY <3>1, <3>3, <3>4, <3>5, <3>6
  <2>2. CASE ~(~released /\ queued < MaxEvents)
    BY <1>2, <2>2 DEF SendEventAsync
  <2> QED BY <2>1, <2>2
<1>3. CASE AddCallback(s)
  BY <1>3 DEF AddCallback
<1>4. CASE SetCallbackAsPending(s)
  <2>1. sid[s] \in 1 .. callbackId
    BY <1>4 DEF SetCallbackAsPending
  <2>2. MarkType'
    BY <1>4, <2>1, MarkStep, Zenon DEF SetCallbackAsPending, MarkType, TypeOK
  <2> QED BY <1>4, <2>2 DEF SetCallbackAsPending, MarkType
<1> QED BY <1>1, <1>2, <1>3, <1>4

(* Of a list of lists: what Append, Last and Front make of it.              *)
LEMMA Pushed ==
    ASSUME NEW T, NEW lists \in Seq(T), NEW last \in T
    PROVE  /\ Append(lists, last) \in Seq(T)
           /\ Len(Append(lists, last)) = Len(lists) + 1 /\ Len(lists) \in Nat
           /\ \A i \in 1 .. Len(lists) : Append(lists, last)[i] = lists[i]
           /\ Append(lists, last)[Len(lists) + 1] = last
  BY AppendProperties, LenProperties

LEMMA FirstOnes ==
    ASSUME NEW T, NEW lists, NEW n \in Nat, \A i \in 1 .. n : lists[i] \in T
    PROVE  /\ SubSeq(lists, 1, n) \in Seq(T) /\ Len(SubSeq(lists, 1, n)) = n
           /\ \A i \in 1 .. n : SubSeq(lists, 1, n)[i] = lists[i]
  BY SubSeqProperties

LEMMA Popped ==
    ASSUME NEW T, NEW lists \in Seq(T), lists # <<>>
    PROVE  /\ Last(lists) \in T /\ Last(lists) = lists[Len(lists)]
           /\ Front(lists) \in Seq(T)
           /\ Len(lists) \in Nat \ {0} /\ Len(Front(lists)) = Len(lists) - 1
           /\ \A i \in 1 .. Len(lists) - 1 : Front(lists)[i] = lists[i]
<1>1. Len(lists) \in Nat \ {0}
  BY LenProperties, EmptySeq
<1>2. lists[Len(lists)] \in T
  BY <1>1, ElementOfSeq
<1>3. \A i \in 1 .. Len(lists) - 1 : lists[i] \in T
  BY <1>1, ElementOfSeq
<1>4. PICK n \in Nat : n = Len(lists) - 1
  BY <1>1
<1>5. /\ SubSeq(lists, 1, n) \in Seq(T) /\ Len(SubSeq(lists, 1, n)) = n
      /\ \A i \in 1 .. n : SubSeq(lists, 1, n)[i] = lists[i]
  <2>1. \A i \in 1 .. n : lists[i] \in T
    BY <1>3, <1>4
  <2> QED BY <2>1, FirstOnes
<1>6. Front(lists) = SubSeq(lists, 1, n)
  BY <1>4 DEF Front
<1> QED BY <1>1, <1>2, <1>4, <1>5, <1>6 DEF Last

LEMMA FinishType ==
    ASSUME TypeOK, Finish
    PROVE  /\ lpc' \in {"idle", "called"} /\ current' \in {current, 0}
           /\ pList' \subseteq Listeners /\ outer' \in Seq(SUBSET Listeners)
<1>0. outer \in Seq(SUBSET Listeners) /\ pList \subseteq Listeners
  BY DEF TypeOK
<1>1. CASE outer = <<>>
  BY <1>0, <1>1 DEF Finish
<1>2. CASE outer # <<>>
  <2>1. Last(outer) \in SUBSET Listeners /\ Front(outer) \in Seq(SUBSET Listeners)
    BY <1>0, <1>2, Popped
  <2> QED BY <1>2, <2>1 DEF Finish
<1> QED BY <1>1, <1>2

LEMMA LoopType ==
    ASSUME TypeOK,
           \/ Dispatch \/ SetCallbackAsDispatched \/ AsyncEvent \/ AsyncEventListeners
           \/ AsyncEventState \/ SendOnMainLoop \/ SendEventSync \/ CallListener
           \/ LastReturns
    PROVE  TypeOK'
<1> USE EventAssumption DEF TypeOK, callbacks, sender, loop, app, history, Sync
<1>1. CASE Dispatch
  BY <1>1 DEF Dispatch
<1>2. CASE SetCallbackAsDispatched
  <2>1. current \in 1 .. callbackId
    BY <1>2 DEF SetCallbackAsDispatched
  <2>2. MarkType'
    BY <1>2, <2>1, MarkStep, Zenon DEF SetCallbackAsDispatched, MarkType, TypeOK
  <2> QED BY <1>2, <2>2 DEF SetCallbackAsDispatched, MarkType
<1>3. CASE AsyncEvent
  <2>1. CASE mEventWorkerDataQue # <<>>
    <3>1. /\ event' = Head(mEventWorkerDataQue)
          /\ mEventWorkerDataQue' = Tail(mEventWorkerDataQue)
      BY <1>3, <2>1 DEF AsyncEvent, TakeFirst
    <3>2. event' \in 1 .. MaxEvents /\ mEventWorkerDataQue' \in Seq(1 .. MaxEvents)
      BY <2>1, <3>1, HeadTailProperties
    <3> QED BY <1>3, <2>1, <3>2 DEF AsyncEvent
  <2>2. CASE mEventWorkerDataQue = <<>>
    BY <1>3, <2>2 DEF AsyncEvent
  <2> QED BY <2>1, <2>2
<1>4. CASE AsyncEventListeners
  BY <1>4 DEF AsyncEventListeners
<1>5. CASE AsyncEventState
  BY <1>5 DEF AsyncEventState
<1>6. CASE SendOnMainLoop
  <2>0. outer \in Seq(SUBSET Listeners) /\ pList \in SUBSET Listeners
    OBVIOUS
  <2>1. Append(outer, pList) \in Seq(SUBSET Listeners)
    BY <2>0, Pushed
  <2>2. outer' \in {outer, Append(outer, pList)}
    BY <1>6 DEF SendOnMainLoop
  <2>3. outer' \in Seq(SUBSET Listeners)
    BY <2>0, <2>1, <2>2
  <2>4. /\ lpc' = "sync" /\ syncs' \in 0 .. MaxSyncs
        /\ event' \in 0 .. MaxEvents /\ pList' \subseteq Listeners
    BY <1>6 DEF SendOnMainLoop
  <2>5. UNCHANGED <<mEventWorkerDataQue, callbacks, released, mEventListeners, sender, current,
                    app, queued, history>>
    BY <1>6 DEF SendOnMainLoop
  <2> HIDE <1>6
  <2> QED BY <2>3, <2>4, <2>5
<1>7. CASE SendEventSync
  <2>1. CASE released \/ mEventListeners = {}
    BY <1>7, <2>1, FinishType DEF SendEventSync
  <2>2. CASE ~(released \/ mEventListeners = {})
    BY <1>7, <2>2 DEF SendEventSync
  <2> QED BY <2>1, <2>2
<1>8. CASE CallListener
  BY <1>8 DEF CallListener
<1>9. CASE LastReturns
  BY <1>9, FinishType DEF LastReturns
<1> QED BY <1>1, <1>2, <1>3, <1>4, <1>5, <1>6, <1>7, <1>8, <1>9

(* The places of the suspended lists that still have a listener.            *)
Holding(l) == {i \in 1 .. Len(outer) : l \in outer[i]}

LEMMA HoldingFinite ==
    ASSUME outer \in Seq(SUBSET Listeners), NEW l
    PROVE  IsFiniteSet(Holding(l)) /\ Cardinality(Holding(l)) \in Nat
<1>1. Len(outer) \in Int
  BY LenProperties
<1>2. IsFiniteSet(1 .. Len(outer)) /\ Holding(l) \in SUBSET (1 .. Len(outer))
  BY <1>1, FS_Interval DEF Holding
<1> QED BY <1>2, FS_Subset, FS_CardinalityType

LEMMA CopiesType ==
    ASSUME TypeOK, NEW l
    PROVE  Copies(l) \in Nat
<1>1. Cardinality(Holding(l)) \in Nat
  BY HoldingFinite DEF TypeOK
<1> QED BY <1>1 DEF Copies, Holding

LEMMA AppType ==
    ASSUME TypeOK,
           Stop \/ FlushPendingEvents \/ Tune \/ AddEventListener \/ RemoveEventListener
    PROVE  TypeOK'
<1> USE EventAssumption DEF TypeOK, callbacks, sender, loop, app, history
<1>1. CASE Stop
  BY <1>1 DEF Stop
<1>2. CASE FlushPendingEvents
  <2>1. mEventWorkerDataQue' \in Seq(1 .. MaxEvents) /\ DOMAIN mPendingAsyncEvents' = {}
    BY <1>2, EmptySeq, NoMarks DEF FlushPendingEvents
  <2>2. sources' \subseteq sources
    BY <1>2 DEF FlushPendingEvents
  <2>3. owed' \in [Listeners -> Int]
    BY <1>2, CopiesType DEF FlushPendingEvents
  <2> QED BY <1>2, <2>1, <2>2, <2>3 DEF FlushPendingEvents
<1>3. CASE Tune
  BY <1>3 DEF Tune
<1>4. CASE AddEventListener
  BY <1>4 DEF AddEventListener
<1>5. CASE RemoveEventListener
  <2>1. owed' \in [Listeners -> Int]
    BY <1>5, CopiesType DEF RemoveEventListener
  <2> QED BY <1>5, <2>1 DEF RemoveEventListener
<1> QED BY <1>1, <1>2, <1>3, <1>4, <1>5

LEMMA NextType == TypeOK /\ [Next]_vars => TypeOK'
<1> SUFFICES ASSUME TypeOK, [Next]_vars
             PROVE  TypeOK'
  OBVIOUS
<1>1. CASE UNCHANGED vars
  BY <1>1 DEF vars, TypeOK, callbacks, sender, loop, app, history
<1> QED BY <1>1, Steps, SenderType, LoopType, AppType

\* Every variable stays in its type, for any constants (all the members of
\* AampEventManager, the idle sources and the threads that use them).
THEOREM TypeCorrect == Spec => []TypeOK
  BY InitType, NextType, PTL DEF Spec

-----------------------------------------------------------------------------
(* The marks of the callbacks                                               *)

(* A source that waits has no mark of its dispatch; nor does the one that   *)
(* is about to be marked dispatched; and the id a sender is about to mark   *)
(* is its own and not marked by a sender yet.                               *)
MarksInv ==
    /\ \A id \in Marked(FALSE) : id \notin sources
    /\ lpc = "dispatched" => current \notin sources \cup Marked(FALSE)
    /\ \A s \in Senders : spc[s] = "pend" => sid[s] \notin Marked(TRUE)
    /\ \A s, t \in Senders :
          spc[s] = "pend" /\ spc[t] = "pend" /\ s # t => sid[s] # sid[t]

LEMMA MarksHold == MarksInv => CallbackAsserts
  BY DEF MarksInv, CallbackAsserts

LEMMA InitMarks == Init => MarksInv
  BY DEF Init, MarksInv, Marked

(* A step that leaves the map, the sources and the loop alone, and moves no   *)
(* sender to where it marks.                                                *)
LEMMA MarksStay ==
    ASSUME MarksInv, UNCHANGED mPendingAsyncEvents,
           sources' \subseteq sources, UNCHANGED <<current, sid>>,
           lpc' = "dispatched" => lpc = "dispatched",
           \A s \in Senders : spc'[s] = "pend" => spc[s] = "pend"
    PROVE  MarksInv'
<1>1. \A state : Marked(state)' = Marked(state)
  BY Zenon DEF Marked
<1> QED BY <1>1 DEF MarksInv

LEMMA NextMarks == TypeOK /\ MarksInv /\ [Next]_vars => MarksInv'
<1> SUFFICES ASSUME TypeOK, MarksInv, [Next]_vars
             PROVE  MarksInv'
  OBVIOUS
<1> USE DEF callbacks, sender, loop, app, history
<1>1. CASE UNCHANGED vars
  BY <1>1, MarksStay DEF vars
<1>2. ASSUME NEW s \in Senders, SendEvent(s) \/ SendEventAsync(s)
      PROVE  MarksInv'
  <2>1. spc'[s] # "pend" /\ \A t \in Senders : t # s => spc'[t] = spc[t]
    BY <1>2 DEF SendEvent, SendEventAsync, TypeOK
  <2>2. UNCHANGED <<callbacks, sid, loop>>
    BY <1>2 DEF SendEvent, SendEventAsync
  <2> QED BY <2>1, <2>2, MarksStay
<1>3. ASSUME NEW s \in Senders, AddCallback(s)
      PROVE  MarksInv'
  <2>1. /\ callbackId' = callbackId + 1 /\ sources' = sources \cup {callbackId + 1}
        /\ sid'[s] = callbackId + 1
        /\ \A t \in Senders : t # s => spc'[t] = spc[t] /\ sid'[t] = sid[t]
        /\ UNCHANGED <<mPendingAsyncEvents, loop>>
    BY <1>3 DEF AddCallback, TypeOK
  <2>2. \A state : Marked(state)' = Marked(state) /\ callbackId + 1 \notin Marked(state)
    BY <2>1 DEF TypeOK, Marked
  <2>3. callbackId + 1 # current /\ \A t \in Senders : sid[t] # callbackId + 1
    BY DEF TypeOK
  <2> QED BY <2>1, <2>2, <2>3 DEF MarksInv
<1>4. ASSUME NEW s \in Senders, SetCallbackAsPending(s)
      PROVE  MarksInv'
  <2>1. /\ spc[s] = "pend" /\ spc'[s] = "idle"
        /\ \A t \in Senders : t # s => spc'[t] = spc[t]
        /\ UNCHANGED <<sources, callbackId, sid, loop>>
    BY <1>4 DEF SetCallbackAsPending, TypeOK
  <2>2. sid[s] \in 1 .. callbackId
    BY <2>1 DEF TypeOK
  <2>3. /\ Marked(TRUE)' \subseteq Marked(TRUE) \cup {sid[s]}
        /\ Marked(FALSE)' \subseteq Marked(FALSE)
    BY <1>4, <2>1, <2>2, MarkStep, Zenon DEF SetCallbackAsPending, MarkType, TypeOK
  <2> QED BY <2>1, <2>3 DEF MarksInv
<1>5. CASE Dispatch
  <2>1. PICK id \in sources : sources' = sources \ {id} /\ current' = id
    BY <1>5 DEF Dispatch
  <2>2. UNCHANGED <<mPendingAsyncEvents, sender>>
    BY <1>5 DEF Dispatch
  <2>3. \A state : Marked(state)' = Marked(state)
    BY <2>2, Zenon DEF Marked
  <2> QED BY <2>1, <2>2, <2>3 DEF MarksInv
<1>6. CASE SetCallbackAsDispatched
  <2>1. /\ lpc = "dispatched" /\ lpc' = "pop"
        /\ UNCHANGED <<sources, callbackId, current, sender>>
    BY <1>6 DEF SetCallbackAsDispatched
  <2>2. current \in 1 .. callbackId
    BY <2>1 DEF TypeOK
  <2>3. /\ Marked(FALSE)' \subseteq Marked(FALSE) \cup {current}
        /\ Marked(TRUE)' \subseteq Marked(TRUE)
    BY <1>6, <2>1, <2>2, MarkStep, Zenon DEF SetCallbackAsDispatched, MarkType, TypeOK
  <2> QED BY <2>1, <2>3 DEF MarksInv
<1>7. CASE \/ AsyncEvent \/ AsyncEventListeners \/ AsyncEventState \/ SendOnMainLoop
           \/ SendEventSync \/ CallListener \/ LastReturns
  <2>1. lpc' # "dispatched" /\ UNCHANGED <<callbacks, sender>>
    BY <1>7 DEF AsyncEvent, AsyncEventListeners, AsyncEventState, SendOnMainLoop,
                SendEventSync, CallListener, LastReturns, Finish
  <2>2. \A state : Marked(state)' = Marked(state)
    BY <2>1, Zenon DEF Marked
  <2> QED BY <2>1, <2>2 DEF MarksInv
<1>8. CASE FlushPendingEvents
  <2>1. sources' \subseteq sources /\ UNCHANGED <<sender, loop>>
    BY <1>8 DEF FlushPendingEvents
  <2>2. \A state : Marked(state)' = {}
    BY <1>8, NoMarks, Zenon DEF FlushPendingEvents, Marked
  <2> QED BY <2>1, <2>2 DEF MarksInv
<1>9. CASE Stop \/ Tune \/ AddEventListener \/ RemoveEventListener
  <2>1. UNCHANGED <<callbacks, sender, loop>>
    BY <1>9 DEF Stop, Tune, AddEventListener, RemoveEventListener
  <2> QED BY <2>1, MarksStay
<1> QED BY <1>1, <1>2, <1>3, <1>4, <1>5, <1>6, <1>7, <1>8, <1>9, Steps

-----------------------------------------------------------------------------
(* Callbacks for events                                                     *)

(* The senders between the queue and the source, and the callback that is   *)
(* about to take an event.                                                  *)
Adding == {s \in Senders : spc[s] = "add"}
Taking == IF lpc \in {"dispatched", "pop"} THEN 1 ELSE 0

Owed == Len(mEventWorkerDataQue) <= Cardinality(sources) + Cardinality(Adding) + Taking

LEMMA SubsetSize ==
    ASSUME NEW T, IsFiniteSet(T), NEW S, S \subseteq T
    PROVE  IsFiniteSet(S) /\ Cardinality(S) \in Nat
  BY FS_Subset, FS_CardinalityType

LEMMA Sizes ==
    ASSUME TypeOK
    PROVE  /\ IsFiniteSet(sources) /\ Cardinality(sources) \in Nat
           /\ IsFiniteSet(Adding) /\ Cardinality(Adding) \in Nat
           /\ Len(mEventWorkerDataQue) \in Nat
           /\ Taking \in {0, 1}
<1>1. IsFiniteSet(1 .. callbackId) /\ sources \subseteq 1 .. callbackId
  BY FS_Interval DEF TypeOK
<1>2. Adding \subseteq Senders /\ IsFiniteSet(Senders)
  BY EventAssumption DEF Adding
<1>3. Len(mEventWorkerDataQue) \in Nat
  BY LenProperties DEF TypeOK
<1> QED BY <1>1, <1>2, <1>3, SubsetSize DEF Taking

LEMMA InitOwed == Init => Owed
<1> SUFFICES ASSUME Init PROVE Owed
  OBVIOUS
<1>1. Len(mEventWorkerDataQue) = 0
  BY DEF Init
<1>2. TypeOK
  BY InitType
<1> QED BY <1>1, <1>2, Sizes DEF Owed

LEMMA NextOwed == TypeOK /\ Owed /\ [Next]_vars => Owed'
<1> SUFFICES ASSUME TypeOK, Owed, [Next]_vars
             PROVE  Owed'
  OBVIOUS
<1> USE DEF callbacks, sender, loop, app, history
<1>0. TypeOK'
  BY NextType
<1>a. /\ Cardinality(sources) \in Nat /\ Cardinality(Adding) \in Nat /\ Taking \in {0, 1}
      /\ Len(mEventWorkerDataQue) \in Nat
      /\ IsFiniteSet(sources) /\ IsFiniteSet(Adding)
  BY Sizes
<1>b. /\ Cardinality(sources)' \in Nat /\ Cardinality(Adding)' \in Nat /\ Taking' \in {0, 1}
      /\ Len(mEventWorkerDataQue)' \in Nat
  <2>0. 1 \in Int /\ callbackId' \in Int /\ sources' \subseteq 1 .. callbackId'
    BY <1>0 DEF TypeOK
  <2>1. IsFiniteSet(1 .. callbackId') /\ sources' \subseteq 1 .. callbackId'
    BY <2>0, FS_Interval
  <2>2. Adding' \subseteq Senders /\ IsFiniteSet(Senders)
    BY EventAssumption DEF Adding
  <2>3. Len(mEventWorkerDataQue)' \in Nat
    BY <1>0, LenProperties DEF TypeOK
  <2> QED BY <2>1, <2>2, <2>3, SubsetSize DEF Taking
<1>1. CASE UNCHANGED vars
  BY <1>1 DEF vars, Owed, Adding, Taking
<1>2. ASSUME NEW s \in Senders, SendEvent(s)
      PROVE  Owed'
  <2>1. Adding' = Adding
    BY <1>2 DEF SendEvent, Adding, TypeOK
  <2> QED BY <1>2, <2>1 DEF SendEvent, Owed, Taking
<1>3. ASSUME NEW s \in Senders, SendEventAsync(s)
      PROVE  Owed'
  <2>0. UNCHANGED <<sources, lpc>>
    BY <1>3 DEF SendEventAsync
  <2>1. CASE ~released /\ queued < MaxEvents
    <3>1. Adding' = Adding \cup {s} /\ s \notin Adding
      BY <1>3, <2>1 DEF SendEventAsync, Adding, TypeOK
    <3>2. Cardinality(Adding)' = Cardinality(Adding) + 1
      BY <1>a, <3>1, FS_AddElement
    <3>3. Len(mEventWorkerDataQue)' = Len(mEventWorkerDataQue) + 1
      BY <1>3, <2>1, AppendProperties DEF SendEventAsync, TypeOK
    <3> QED BY <1>a, <1>b, <2>0, <3>2, <3>3 DEF Owed, Taking
  <2>2. CASE ~(~released /\ queued < MaxEvents)
    <3>1. Adding' = Adding
      BY <1>3, <2>2 DEF SendEventAsync, Adding, TypeOK
    <3> QED BY <1>3, <2>0, <2>2, <3>1 DEF SendEventAsync, Owed, Taking
  <2> QED BY <2>1, <2>2
<1>4. ASSUME NEW s \in Senders, AddCallback(s)
      PROVE  Owed'
  <2>1. Adding' = Adding \ {s} /\ s \in Adding
    BY <1>4 DEF AddCallback, Adding, TypeOK
  <2>2. Cardinality(Adding)' = Cardinality(Adding) - 1
    BY <1>a, <2>1, FS_RemoveElement
  <2>3. sources' = sources \cup {callbackId + 1} /\ callbackId + 1 \notin sources
    BY <1>4 DEF AddCallback, TypeOK
  <2>4. Cardinality(sources)' = Cardinality(sources) + 1
    BY <1>a, <2>3, FS_AddElement
  <2> QED BY <1>4, <1>a, <1>b, <2>2, <2>4 DEF AddCallback, Owed, Taking
<1>5. ASSUME NEW s \in Senders, SetCallbackAsPending(s)
      PROVE  Owed'
  <2>1. Adding' = Adding
    BY <1>5 DEF SetCallbackAsPending, Adding, TypeOK
  <2> QED BY <1>5, <2>1 DEF SetCallbackAsPending, Owed, Taking
<1>6. CASE Dispatch
  <2>1. PICK id \in sources : sources' = sources \ {id}
    BY <1>6 DEF Dispatch
  <2>2. Cardinality(sources)' = Cardinality(sources) - 1
    BY <1>a, <2>1, FS_RemoveElement
  <2>3. Taking = 0 /\ Taking' = 1
    BY <1>6 DEF Dispatch, Taking
  <2>4. Adding' = Adding /\ UNCHANGED mEventWorkerDataQue
    BY <1>6 DEF Dispatch, Adding
  <2> QED BY <1>a, <1>b, <2>2, <2>3, <2>4 DEF Owed
<1>7. CASE AsyncEvent
  <2>1. UNCHANGED sources /\ Adding' = Adding /\ Taking = 1 /\ Taking' = 0
    BY <1>7 DEF AsyncEvent, Adding, Taking
  <2>2. CASE mEventWorkerDataQue # <<>>
    <3>1. Len(mEventWorkerDataQue)' = Len(mEventWorkerDataQue) - 1
      BY <1>7, <2>2, HeadTailProperties DEF AsyncEvent, TakeFirst, TypeOK
    <3> QED BY <1>a, <1>b, <2>1, <3>1 DEF Owed
  <2>3. CASE mEventWorkerDataQue = <<>>
    <3>1. Len(mEventWorkerDataQue)' = 0
      BY <1>7, <2>3 DEF AsyncEvent
    <3> QED BY <1>b, <3>1 DEF Owed
  <2> QED BY <2>2, <2>3
<1>8. CASE FlushPendingEvents
  <2>1. Len(mEventWorkerDataQue)' = 0
    BY <1>8 DEF FlushPendingEvents
  <2> QED BY <1>b, <2>1 DEF Owed
<1>9. CASE \/ SetCallbackAsDispatched \/ AsyncEventListeners \/ AsyncEventState
           \/ SendOnMainLoop \/ SendEventSync \/ CallListener \/ LastReturns
  <2>1. UNCHANGED <<sources, mEventWorkerDataQue>> /\ Adding' = Adding /\ Taking' = Taking
    BY <1>9 DEF SetCallbackAsDispatched, AsyncEventListeners, AsyncEventState,
                SendOnMainLoop, SendEventSync, CallListener, LastReturns, Finish,
                Adding, Taking
  <2> QED BY <2>1 DEF Owed
<1>10. CASE Stop \/ Tune \/ AddEventListener \/ RemoveEventListener
  <2>1. UNCHANGED <<sources, mEventWorkerDataQue>> /\ Adding' = Adding /\ Taking' = Taking
    BY <1>10 DEF Stop, Tune, AddEventListener, RemoveEventListener, Adding, Taking
  <2> QED BY <2>1 DEF Owed
<1> QED BY <1>1, <1>2, <1>3, <1>4, <1>5, <1>6, <1>7, <1>8, <1>9, <1>10, Steps

\* No callback is marked twice, and each queued event has a callback that will
\* take it, wherever a flush falls (AampEventManager.cpp, SendEventAsync,
\* SetCallbackAsPending, SetCallbackAsDispatched, FlushPendingEvents).
THEOREM CallbacksMatch == Spec => []CallbacksMatchEvents
<1> DEFINE Inv == TypeOK /\ MarksInv /\ Owed
<1>1. Init => Inv
  BY InitType, InitMarks, InitOwed
<1>2. Inv /\ [Next]_vars => Inv'
  BY NextType, NextMarks, NextOwed
<1>3. Inv => CallbacksMatchEvents
  BY MarksHold DEF CallbacksMatchEvents, EveryEventHasCallback, Owed, Adding, Taking
<1> QED BY <1>1, <1>2, <1>3, PTL DEF Spec
-----------------------------------------------------------------------------
(* The order of the events                                                  *)

(* The queue holds events in the order of their numbers, all later than     *)
(* those that were taken.                                                   *)
OrderInv ==
    /\ \A i \in 1 .. Len(mEventWorkerDataQue) :
          /\ mEventWorkerDataQue[i] <= queued
          /\ mEventWorkerDataQue[i] > delivered /\ mEventWorkerDataQue[i] > event
    /\ \A i, j \in 1 .. Len(mEventWorkerDataQue) :
          i < j => mEventWorkerDataQue[i] < mEventWorkerDataQue[j]
    /\ event <= queued /\ delivered <= queued
    /\ event # Sync => event >= delivered

LEMMA InitOrder == Init => OrderInv
  BY DEF Init, OrderInv, Sync

LEMMA NextOrder == TypeOK /\ OrderInv /\ [Next]_vars => OrderInv' /\ delivered' >= delivered
<1> SUFFICES ASSUME TypeOK, OrderInv, [Next]_vars
             PROVE  OrderInv' /\ delivered' >= delivered
  OBVIOUS
<1> USE DEF callbacks, sender, loop, app, history
<1>0. /\ delivered \in Nat /\ event \in Nat /\ queued \in Nat
      /\ mEventWorkerDataQue \in Seq(1 .. MaxEvents) /\ MaxEvents \in Nat
  BY EventAssumption DEF TypeOK
<1>1. ASSUME UNCHANGED <<mEventWorkerDataQue, queued, delivered, event>>
      PROVE  OrderInv' /\ delivered' >= delivered
  BY <1>0, <1>1 DEF OrderInv
<1>2. CASE UNCHANGED vars
  BY <1>1, <1>2 DEF vars
<1>3. ASSUME NEW s \in Senders, SendEventAsync(s)
      PROVE  OrderInv' /\ delivered' >= delivered
  <2>1. UNCHANGED <<delivered, event>>
    BY <1>3 DEF SendEventAsync
  <2>2. CASE ~released /\ queued < MaxEvents
    <3>1. /\ queued' = queued + 1
          /\ mEventWorkerDataQue' = Append(mEventWorkerDataQue, queued + 1)
          /\ queued + 1 \in 1 .. MaxEvents
      BY <1>0, <1>3, <2>2 DEF SendEventAsync
    <3>2. /\ Len(mEventWorkerDataQue') = Len(mEventWorkerDataQue) + 1
          /\ \A i \in 1 .. Len(mEventWorkerDataQue) :
                mEventWorkerDataQue'[i] = mEventWorkerDataQue[i]
          /\ mEventWorkerDataQue'[Len(mEventWorkerDataQue) + 1] = queued + 1
          /\ Len(mEventWorkerDataQue) \in Nat
      BY <1>0, <3>1, AppendProperties, LenProperties
    <3>3. \A i \in 1 .. Len(mEventWorkerDataQue) : mEventWorkerDataQue[i] \in Nat
      BY <1>0, ElementOfSeq
    <3>4. \A i \in 1 .. Len(mEventWorkerDataQue') :
             /\ mEventWorkerDataQue'[i] <= queued'
             /\ mEventWorkerDataQue'[i] > delivered' /\ mEventWorkerDataQue'[i] > event'
      BY <1>0, <2>1, <3>1, <3>2, <3>3 DEF OrderInv
    <3>5. \A i, j \in 1 .. Len(mEventWorkerDataQue') :
             i < j => mEventWorkerDataQue'[i] < mEventWorkerDataQue'[j]
      <4> SUFFICES ASSUME NEW i \in 1 .. Len(mEventWorkerDataQue'),
                          NEW j \in 1 .. Len(mEventWorkerDataQue'), i < j
                   PROVE  mEventWorkerDataQue'[i] < mEventWorkerDataQue'[j]
        OBVIOUS
      <4>1. i \in 1 .. Len(mEventWorkerDataQue)
        BY <3>2
      <4>2. mEventWorkerDataQue'[i] = mEventWorkerDataQue[i] /\ mEventWorkerDataQue[i] <= queued
        BY <3>2, <4>1 DEF OrderInv
      <4>3. CASE j \in 1 .. Len(mEventWorkerDataQue)
        BY <3>2, <4>1, <4>2, <4>3 DEF OrderInv
      <4>4. CASE j = Len(mEventWorkerDataQue) + 1
        BY <1>0, <3>2, <3>3, <4>1, <4>2, <4>4
      <4> QED BY <3>2, <4>3, <4>4
    <3> QED BY <1>0, <2>1, <3>1, <3>4, <3>5 DEF OrderInv
  <2>3. CASE ~(~released /\ queued < MaxEvents)
    BY <1>1, <1>3, <2>1, <2>3 DEF SendEventAsync
  <2> QED BY <2>2, <2>3
<1>4. CASE AsyncEvent
  <2>1. UNCHANGED <<delivered, queued>>
    BY <1>4 DEF AsyncEvent
  <2>2. CASE mEventWorkerDataQue # <<>>
    <3>1. /\ event' = Head(mEventWorkerDataQue)
          /\ mEventWorkerDataQue' = Tail(mEventWorkerDataQue)
      BY <1>4, <2>2 DEF AsyncEvent, TakeFirst
    <3>2. /\ Len(mEventWorkerDataQue) \in Nat /\ Len(mEventWorkerDataQue) >= 1
          /\ event' = mEventWorkerDataQue[1]
          /\ Len(mEventWorkerDataQue') = Len(mEventWorkerDataQue) - 1
          /\ \A i \in 1 .. Len(mEventWorkerDataQue') :
                mEventWorkerDataQue'[i] = mEventWorkerDataQue[i + 1]
      BY <1>0, <2>2, <3>1, HeadTailProperties, LenProperties
    <3>3. \A i \in 1 .. Len(mEventWorkerDataQue) : mEventWorkerDataQue[i] \in Nat
      BY <1>0, ElementOfSeq
    <3>4. event' \in Nat /\ event' > delivered /\ event' <= queued
      BY <3>2, <3>3 DEF OrderInv
    <3>5. \A i \in 1 .. Len(mEventWorkerDataQue') :
             /\ mEventWorkerDataQue'[i] <= queued
             /\ mEventWorkerDataQue'[i] > delivered /\ mEventWorkerDataQue'[i] > event'
      <4> SUFFICES ASSUME NEW i \in 1 .. Len(mEventWorkerDataQue')
                   PROVE  /\ mEventWorkerDataQue'[i] <= queued
                          /\ mEventWorkerDataQue'[i] > delivered
                          /\ mEventWorkerDataQue'[i] > event'
        OBVIOUS
      <4>1. /\ i + 1 \in 1 .. Len(mEventWorkerDataQue) /\ 1 \in 1 .. Len(mEventWorkerDataQue)
            /\ 1 < i + 1
        BY <3>2
      <4>2. mEventWorkerDataQue[1] < mEventWorkerDataQue[i + 1]
        BY <4>1 DEF OrderInv
      <4> QED BY <3>2, <4>1, <4>2 DEF OrderInv
    <3>6. \A i, j \in 1 .. Len(mEventWorkerDataQue') :
             i < j => mEventWorkerDataQue'[i] < mEventWorkerDataQue'[j]
      <4> SUFFICES ASSUME NEW i \in 1 .. Len(mEventWorkerDataQue'),
                          NEW j \in 1 .. Len(mEventWorkerDataQue'), i < j
                   PROVE  mEventWorkerDataQue'[i] < mEventWorkerDataQue'[j]
        OBVIOUS
      <4>1. /\ i + 1 \in 1 .. Len(mEventWorkerDataQue)
            /\ j + 1 \in 1 .. Len(mEventWorkerDataQue) /\ i + 1 < j + 1
        BY <3>2
      <4>2. mEventWorkerDataQue[i + 1] < mEventWorkerDataQue[j + 1]
        BY <4>1 DEF OrderInv
      <4> QED BY <3>2, <4>2
    <3> QED BY <1>0, <2>1, <3>4, <3>5, <3>6 DEF OrderInv
  <2>3. CASE mEventWorkerDataQue = <<>>
    BY <1>1, <1>4, <2>1, <2>3 DEF AsyncEvent
  <2> QED BY <2>2, <2>3
<1>5. CASE SendOnMainLoop
  <2>1. UNCHANGED <<mEventWorkerDataQue, queued, delivered>> /\ event' \in {event, 0}
    BY <1>5 DEF SendOnMainLoop, Sync
  <2>2. \A i \in 1 .. Len(mEventWorkerDataQue) : mEventWorkerDataQue[i] > 0
    BY <1>0, ElementOfSeq
  <2> QED BY <1>0, <2>1, <2>2 DEF OrderInv, Sync
<1>6. CASE CallListener
  <2>1. /\ UNCHANGED <<mEventWorkerDataQue, queued, event>>
        /\ delivered' \in {delivered, event}
        /\ event = Sync => delivered' = delivered
    BY <1>6 DEF CallListener
  <2> QED BY <1>0, <2>1 DEF OrderInv
<1>7. CASE FlushPendingEvents
  <2>1. UNCHANGED <<queued, delivered, event>> /\ Len(mEventWorkerDataQue') = 0
    BY <1>7 DEF FlushPendingEvents
  <2> QED BY <1>0, <2>1 DEF OrderInv
<1>8. ASSUME NEW s \in Senders, SendEvent(s) \/ AddCallback(s) \/ SetCallbackAsPending(s)
      PROVE  OrderInv' /\ delivered' >= delivered
  BY <1>1, <1>8 DEF SendEvent, AddCallback, SetCallbackAsPending
<1>9. CASE \/ Dispatch \/ SetCallbackAsDispatched \/ AsyncEventListeners \/ AsyncEventState
           \/ SendEventSync \/ LastReturns
  BY <1>1, <1>9 DEF Dispatch, SetCallbackAsDispatched, AsyncEventListeners, AsyncEventState,
                    SendEventSync, LastReturns
<1>10. CASE Stop \/ Tune \/ AddEventListener \/ RemoveEventListener
  BY <1>1, <1>10 DEF Stop, Tune, AddEventListener, RemoveEventListener
<1> QED BY <1>2, <1>3, <1>4, <1>5, <1>6, <1>7, <1>8, <1>9, <1>10, Steps

\* A listener never gets an event that was queued before one that was delivered
\* (AampEventManager.cpp, SendEventAsync and AsyncEvent).
THEOREM InOrder == Spec => DeliveredInOrder
<1> DEFINE Inv == TypeOK /\ OrderInv
<1>1. Init => Inv
  BY InitType, InitOrder
<1>2. Inv /\ [Next]_vars => Inv'
  BY NextType, NextOrder
<1>3. Inv /\ [Next]_vars => [delivered' >= delivered]_vars
  BY NextOrder
<1> QED BY <1>1, <1>2, <1>3, PTL DEF Spec, DeliveredInOrder

-----------------------------------------------------------------------------
(* The mailbox                                                              *)

LEMMA MailboxStep ==
    ASSUME TypeOK, OrderInv, [Next]_vars
    PROVE  [Mailbox!Next]_(Mailbox!vars)
<1> USE DEF callbacks, sender, loop, app, history, Mailbox!vars, Mailbox!None
<1>0. delivered \in Nat /\ event \in Nat
  BY DEF TypeOK
<1>1. CASE UNCHANGED vars
  BY <1>1 DEF vars, InHand
<1>2. ASSUME NEW s \in Senders, SendEventAsync(s)
      PROVE  [Mailbox!Next]_(Mailbox!vars)
  <2>1. UNCHANGED <<InHand, delivered>>
    BY <1>2 DEF SendEventAsync, InHand
  <2>2. CASE ~released /\ queued < MaxEvents
    <3>1. Mailbox!Post
      BY <1>2, <2>1, <2>2 DEF SendEventAsync, Mailbox!Post
    <3> QED BY <3>1 DEF Mailbox!Next
  <2>3. CASE ~(~released /\ queued < MaxEvents)
    BY <1>2, <2>1, <2>3 DEF SendEventAsync
  <2> QED BY <2>2, <2>3
<1>3. CASE AsyncEvent
  <2>1. InHand = 0 /\ UNCHANGED <<queued, delivered>>
    BY <1>3 DEF AsyncEvent, InHand, Sync
  <2>2. CASE mEventWorkerDataQue # <<>>
    <3>1. InHand' = event' /\ TakeFirst
      BY <1>3, <2>2 DEF AsyncEvent, InHand
    <3>2. Mailbox!Take
      BY <2>1, <2>2, <3>1 DEF TakeFirst, Mailbox!Take
    <3> QED BY <3>2 DEF Mailbox!Next
  <2>3. CASE mEventWorkerDataQue = <<>>
    <3>1. InHand' = 0 /\ UNCHANGED mEventWorkerDataQue
      BY <1>3, <2>3 DEF AsyncEvent, InHand, Sync
    <3> QED BY <2>1, <3>1
  <2> QED BY <2>2, <2>3
<1>4. CASE AsyncEventListeners \/ AsyncEventState \/ SendEventSync \/ LastReturns
  <2>1. UNCHANGED <<mEventWorkerDataQue, queued, delivered>>
    BY <1>4 DEF AsyncEventListeners, AsyncEventState, SendEventSync, LastReturns
  <2>2. InHand' = InHand \/ InHand' = 0
    BY <1>4 DEF AsyncEventListeners, AsyncEventState, SendEventSync, LastReturns, Finish,
                InHand, Sync
  <2>3. CASE InHand' = InHand
    BY <2>1, <2>3
  <2>4. CASE InHand' = 0
    <3>1. Mailbox!PutAway
      BY <2>1, <2>4 DEF Mailbox!PutAway
    <3> QED BY <3>1 DEF Mailbox!Next
  <2> QED BY <2>2, <2>3, <2>4
<1>5. CASE CallListener
  <2>1. UNCHANGED <<mEventWorkerDataQue, queued>> /\ InHand = event /\ InHand' = event
    BY <1>5 DEF CallListener, InHand
  <2>2. delivered' \in {delivered, event} /\ (event = 0 => delivered' = delivered)
    BY <1>5 DEF CallListener, Sync
  <2>3. CASE delivered' = delivered
    BY <2>1, <2>3
  <2>4. CASE delivered' # delivered
    <3>1. event # 0 /\ delivered' = event /\ event > delivered
      BY <1>0, <2>2, <2>4 DEF OrderInv, Sync
    <3>2. Mailbox!Deliver
      BY <2>1, <3>1 DEF Mailbox!Deliver
    <3> QED BY <3>2 DEF Mailbox!Next
  <2> QED BY <2>3, <2>4
<1>6. CASE FlushPendingEvents
  <2>1. Mailbox!Withdraw
    BY <1>6 DEF FlushPendingEvents, InHand, Mailbox!Withdraw
  <2> QED BY <2>1 DEF Mailbox!Next
<1>7. CASE Dispatch \/ SetCallbackAsDispatched \/ SendOnMainLoop
  BY <1>7 DEF Dispatch, SetCallbackAsDispatched, SendOnMainLoop, InHand, Sync
<1>8. ASSUME NEW s \in Senders, SendEvent(s) \/ AddCallback(s) \/ SetCallbackAsPending(s)
      PROVE  [Mailbox!Next]_(Mailbox!vars)
  BY <1>8 DEF SendEvent, AddCallback, SetCallbackAsPending, InHand
<1>9. CASE Stop \/ Tune \/ AddEventListener \/ RemoveEventListener
  BY <1>9 DEF Stop, Tune, AddEventListener, RemoveEventListener, InHand
<1> QED BY <1>1, <1>2, <1>3, <1>4, <1>5, <1>6, <1>7, <1>8, <1>9, Steps

\* The queue, its idle sources and their callbacks are a mailbox, for any number of senders,
\* events, stops and changes of the listeners (AampEventManager.cpp, SendEventAsync,
\* AsyncEvent, SendEventSync, FlushPendingEvents).
THEOREM EventsAreMail == Spec => ImplementsMailbox
<1> DEFINE Inv == TypeOK /\ OrderInv
<1>1. Init => Inv
  BY InitType, InitOrder
<1>2. Inv /\ [Next]_vars => Inv'
  BY NextType, NextOrder
<1>3. Init => Mailbox!Init
  BY DEF Init, InHand, Sync, Mailbox!Init, Mailbox!None
<1>4. Inv /\ [Next]_vars => [Mailbox!Next]_(Mailbox!vars)
  BY MailboxStep
<1> QED BY <1>1, <1>2, <1>3, <1>4, PTL DEF Spec, ImplementsMailbox, Mailbox!Spec

-----------------------------------------------------------------------------
(* Late calls                                                               *)

(* A delivery that is suspended, or that goes on, leaves as many lists with a *)
(* listener.                                                                *)
LEMMA PushedCopies ==
    ASSUME TypeOK, outer' = Append(outer, pList), pList' = {}, NEW l
    PROVE  Copies(l)' = Copies(l)
<1>0. outer \in Seq(SUBSET Listeners) /\ pList \in SUBSET Listeners
  BY DEF TypeOK
<1>1. /\ Len(outer') = Len(outer) + 1 /\ Len(outer) \in Nat
      /\ \A i \in 1 .. Len(outer) : outer'[i] = outer[i]
      /\ outer'[Len(outer) + 1] = pList
  BY <1>0, Pushed
<1>2. IsFiniteSet(Holding(l)) /\ Cardinality(Holding(l)) \in Nat
  BY <1>0, HoldingFinite
<1>2a. Len(outer) + 1 \notin Holding(l)
  BY <1>1 DEF Holding
<1>3. CASE l \in pList
  <2>1. Holding(l)' = Holding(l) \cup {Len(outer) + 1}
    <3>1. 1 .. Len(outer') = (1 .. Len(outer)) \cup {Len(outer) + 1}
      BY <1>1
    <3>2. Holding(l)' = {i \in 1 .. Len(outer') : l \in outer'[i]}
      BY DEF Holding
    <3>3. \A i \in 1 .. Len(outer) : i # Len(outer) + 1 /\ outer'[i] = outer[i]
      BY <1>1
    <3> QED BY <1>1, <1>3, <3>1, <3>2, <3>3 DEF Holding
  <2>2. Cardinality(Holding(l)') = Cardinality(Holding(l)) + 1
    BY <1>2, <1>2a, <2>1, FS_AddElement
  <2>3. Copies(l) = Cardinality(Holding(l)) + 1
    BY <1>3 DEF Copies, Holding
  <2>4. Copies(l)' = Cardinality(Holding(l)') + 0
    BY DEF Copies, Holding
  <2> QED BY <1>2, <2>2, <2>3, <2>4
<1>4. CASE l \notin pList
  <2>1. Holding(l)' = Holding(l)
    BY <1>1, <1>4 DEF Holding
  <2> QED BY <1>4, <2>1 DEF Copies, Holding
<1> QED BY <1>3, <1>4

LEMMA PoppedCopies ==
    ASSUME TypeOK, outer # <<>>, pList = {}, pList' = Last(outer), outer' = Front(outer), NEW l
    PROVE  Copies(l)' = Copies(l)
<1>0. outer \in Seq(SUBSET Listeners)
  BY DEF TypeOK
<1>1. /\ Len(outer) \in Nat \ {0} /\ Len(outer') = Len(outer) - 1
      /\ \A i \in 1 .. Len(outer) - 1 : outer'[i] = outer[i]
      /\ pList' = outer[Len(outer)]
  BY <1>0, Popped
<1>2. IsFiniteSet(Holding(l)) /\ Cardinality(Holding(l)) \in Nat
  BY <1>0, HoldingFinite
<1>3. CASE l \in pList'
  <2>1. Holding(l)' = Holding(l) \ {Len(outer)} /\ Len(outer) \in Holding(l)
    BY <1>1, <1>3 DEF Holding
  <2>2. Cardinality(Holding(l)') = Cardinality(Holding(l)) - 1
    BY <1>2, <2>1, FS_RemoveElement
  <2> QED BY <1>2, <1>3, <2>2 DEF Copies, Holding
<1>4. CASE l \notin pList'
  <2>1. Holding(l)' = Holding(l)
    BY <1>1, <1>4 DEF Holding
  <2> QED BY <1>4, <2>1 DEF Copies, Holding
<1> QED BY <1>3, <1>4

LEMMA FinishCopies ==
    ASSUME TypeOK, pList = {}, Finish, NEW l
    PROVE  Copies(l)' = Copies(l)
<1>1. CASE outer = <<>>
  BY <1>1 DEF Finish, Copies
<1>2. CASE outer # <<>>
  BY <1>2, PoppedCopies DEF Finish
<1> QED BY <1>1, <1>2

(* A listener is owed a call for every list that has it, and no list is made *)
(* of the listeners while the player is stopped, nor gets one that is gone.  *)
LateInv ==
    /\ cpc # "idle" => released
    /\ \A l \in gone : l \notin mEventListeners
    /\ lpc \notin {"deliver", "called"} => pList = {}
    /\ \A l \in Listeners :
          /\ owed[l] >= 0
          /\ (cpc = "stopped" \/ l \in gone) => owed[l] >= Copies(l)

LEMMA InitLate == Init => LateInv
  BY DEF Init, LateInv

LEMMA NextLate == TypeOK /\ LateInv /\ [Next]_vars => LateInv'
<1> SUFFICES ASSUME TypeOK, LateInv, [Next]_vars
             PROVE  LateInv'
  OBVIOUS
<1> USE DEF callbacks, sender, loop, app, history
<1>0. /\ owed \in [Listeners -> Int] /\ pList \subseteq Listeners
      /\ \A l \in Listeners : Copies(l) \in Nat
  BY CopiesType DEF TypeOK
<1>1. ASSUME UNCHANGED <<released, mEventListeners, owed, cpc, gone>>,
             \A l \in Listeners : Copies(l)' = Copies(l),
             lpc' \notin {"deliver", "called"} => pList' = {}
      PROVE  LateInv'
  BY <1>1 DEF LateInv
<1>2. ASSUME UNCHANGED <<pList, outer>>
      PROVE  \A l : Copies(l)' = Copies(l)
  BY <1>2 DEF Copies
<1>3. CASE UNCHANGED vars
  BY <1>1, <1>2, <1>3 DEF vars, LateInv
<1>4. ASSUME NEW s \in Senders,
             SendEvent(s) \/ SendEventAsync(s) \/ AddCallback(s) \/ SetCallbackAsPending(s)
      PROVE  LateInv'
  <2>1. UNCHANGED <<released, mEventListeners, loop, app, history>>
    BY <1>4 DEF SendEvent, SendEventAsync, AddCallback, SetCallbackAsPending
  <2> QED BY <1>1, <1>2, <2>1 DEF LateInv
<1>5. CASE \/ Dispatch \/ SetCallbackAsDispatched \/ AsyncEvent \/ AsyncEventListeners
           \/ AsyncEventState
  <2>1. /\ UNCHANGED <<released, mEventListeners, pList, outer, app, history>>
        /\ lpc \notin {"deliver", "called"}
    BY <1>5 DEF Dispatch, SetCallbackAsDispatched, AsyncEvent, AsyncEventListeners,
                AsyncEventState
  <2> QED BY <1>1, <1>2, <2>1 DEF LateInv
<1>6. CASE SendOnMainLoop
  <2>0. UNCHANGED <<released, mEventListeners, app, history>>
    BY <1>6 DEF SendOnMainLoop
  <2>1. CASE lpc = "called"
    <3>1. outer' = Append(outer, pList) /\ pList' = {}
      BY <1>6, <2>1 DEF SendOnMainLoop
    <3> QED BY <1>1, <2>0, <3>1, PushedCopies
  <2>2. CASE lpc = "idle"
    <3>1. UNCHANGED <<pList, outer>> /\ pList = {}
      BY <1>6, <2>2 DEF SendOnMainLoop, LateInv
    <3> QED BY <1>1, <1>2, <2>0, <3>1
  <2> QED BY <1>6, <2>1, <2>2 DEF SendOnMainLoop
<1>7. CASE SendEventSync
  <2>0. UNCHANGED <<released, mEventListeners, app, history>> /\ pList = {}
    BY <1>7 DEF SendEventSync, LateInv
  <2>1. CASE released \/ mEventListeners = {}
    <3>1. Finish
      BY <1>7, <2>1 DEF SendEventSync
    <3>2. lpc' \notin {"deliver", "called"} => pList' = {}
      BY <2>0, <3>1 DEF Finish
    <3> QED BY <1>1, <2>0, <3>1, <3>2, FinishCopies
  <2>2. CASE ~released /\ mEventListeners # {}
    <3>1. pList' = mEventListeners /\ UNCHANGED outer /\ lpc' = "deliver"
      BY <1>7, <2>2 DEF SendEventSync
    <3>2. \A l \in Listeners : l \in gone => Copies(l)' = Copies(l)
      BY <2>0, <3>1 DEF Copies, LateInv
    <3>3. cpc = "idle"
      BY <2>2 DEF LateInv
    <3> QED BY <2>0, <3>1, <3>2, <3>3 DEF LateInv
  <2> QED BY <2>1, <2>2
<1>8. CASE CallListener
  <2>1. PICK l \in pList :
           /\ pList' = pList \ {l}
           /\ owed' = IF cpc = "stopped" \/ l \in gone
                      THEN [owed EXCEPT ![l] = @ - 1] ELSE owed
    BY <1>8 DEF CallListener
  <2>2. UNCHANGED <<released, mEventListeners, cpc, gone, outer>> /\ lpc' = "called"
    BY <1>8 DEF CallListener
  <2>3. l \in Listeners /\ Copies(l)' = Copies(l) - 1 /\ Copies(l)' \in Nat
    <3>1. Cardinality(Holding(l)) \in Nat
      BY HoldingFinite DEF TypeOK
    <3> QED BY <1>0, <2>1, <2>2, <3>1 DEF Copies, Holding
  <2>4. \A k \in Listeners : k # l => Copies(k)' = Copies(k)
    BY <2>1, <2>2 DEF Copies
  <2>5. CASE cpc = "stopped" \/ l \in gone
    <3>1. owed'[l] = owed[l] - 1 /\ \A k \in Listeners : k # l => owed'[k] = owed[k]
      BY <1>0, <2>1, <2>3, <2>5
    <3>2. owed[l] >= Copies(l)
      BY <2>3, <2>5 DEF LateInv
    <3>3. owed'[l] >= 0 /\ owed'[l] >= Copies(l)'
      BY <1>0, <2>3, <3>1, <3>2
    <3> QED BY <2>2, <2>4, <3>1, <3>3 DEF LateInv
  <2>6. CASE ~(cpc = "stopped" \/ l \in gone)
    <3>1. owed' = owed
      BY <2>1, <2>6
    <3> QED BY <2>2, <2>4, <2>6, <3>1 DEF LateInv
  <2> QED BY <2>5, <2>6
<1>9. CASE LastReturns
  <2>1. /\ UNCHANGED <<released, mEventListeners, app, history>> /\ pList = {} /\ Finish
        /\ lpc' \notin {"deliver", "called"} => pList' = {}
    BY <1>9 DEF LastReturns, Finish
  <2> QED BY <1>1, <2>1, FinishCopies
<1>10. CASE Stop
  <2>1. /\ released' = TRUE /\ cpc = "idle" /\ cpc' = "flush"
        /\ UNCHANGED <<mEventListeners, loop, history>>
    BY <1>10 DEF Stop
  <2> QED BY <1>2, <2>1 DEF LateInv
<1>11. CASE FlushPendingEvents
  <2>1. /\ cpc = "flush" /\ UNCHANGED <<released, mEventListeners, loop, gone>>
        /\ owed' = [l \in Listeners |-> Copies(l)]
    BY <1>11 DEF FlushPendingEvents
  <2>2. \A l \in Listeners : owed'[l] = Copies(l) /\ Copies(l)' = Copies(l)
    BY <1>2, <2>1
  <2> QED BY <1>0, <2>1, <2>2 DEF LateInv
<1>12. CASE Tune
  <2>1. cpc' = "idle" /\ UNCHANGED <<mEventListeners, loop, history>>
    BY <1>12 DEF Tune
  <2> QED BY <1>2, <2>1 DEF LateInv
<1>13. CASE AddEventListener
  <2>1. PICK l \in Listeners \ mEventListeners :
           mEventListeners' = mEventListeners \cup {l} /\ gone' = gone \ {l}
    BY <1>13 DEF AddEventListener
  <2>2. UNCHANGED <<released, loop, cpc, owed>>
    BY <1>13 DEF AddEventListener
  <2> QED BY <1>2, <2>1, <2>2 DEF LateInv
<1>14. CASE RemoveEventListener
  <2>1. PICK l \in mEventListeners :
           /\ mEventListeners' = mEventListeners \ {l}
           /\ gone' = gone \cup {l}
           /\ owed' = [owed EXCEPT ![l] = Copies(l)]
    BY <1>14 DEF RemoveEventListener
  <2>2. UNCHANGED <<released, loop, cpc>>
    BY <1>14 DEF RemoveEventListener
  <2>3. l \in Listeners
    BY DEF TypeOK
  <2>4. owed'[l] = Copies(l) /\ \A k \in Listeners : k # l => owed'[k] = owed[k]
    BY <1>0, <2>1, <2>3
  <2>5. \A k \in Listeners : Copies(k)' = Copies(k)
    BY <1>2, <2>2
  <2> QED BY <1>0, <2>1, <2>2, <2>4, <2>5 DEF LateInv
<1> QED BY <1>3, <1>4, <1>5, <1>6, <1>7, <1>8, <1>9, <1>10, <1>11, <1>12, <1>13, <1>14, Steps

\* After its removal, or a Stop, a listener is called at most once by each delivery that
\* was under way, however many are nested in each other's listeners
\* (AampEventManager.cpp, SendEvent and SendEventSync).
THEOREM LateCallsOwed == Spec => []OnlyOwedCalls
<1> DEFINE Inv == TypeOK /\ LateInv
<1>1. Init => Inv
  BY InitType, InitLate
<1>2. Inv /\ [Next]_vars => Inv'
  BY NextType, NextLate
<1>3. Inv => OnlyOwedCalls
  BY DEF LateInv, OnlyOwedCalls
<1> QED BY <1>1, <1>2, <1>3, PTL DEF Spec
=============================================================================
