-------------------------- MODULE AampEventManager --------------------------
(***************************************************************************)
(* The event manager (AampEventManager.cpp): threads of the player queue    *)
(* events and add a glib idle source for each; the thread of the main loop  *)
(* dispatches the sources, each of which takes one event from the queue and *)
(* calls the listeners; the application stops and tunes the player and      *)
(* changes the listeners.                                                   *)
(*                                                                          *)
(* A step is one critical section of mMutexVar, one call of glib, or one    *)
(* unlocked read.  An event is the number it gets when it is queued; an     *)
(* event sent on the main loop itself (sourceId # 0) is Sync.               *)
(***************************************************************************)
EXTENDS Integers, Sequences, FiniteSets, SequencesExt

CONSTANTS
    Senders,       \* threads that are not the main loop
    Listeners,
    MaxEvents,     \* bound: events queued
    MaxSyncs,      \* bound: events sent on the main loop
    MaxStops,      \* bound: Stop / Tune rounds
    MaxChanges     \* bound: listeners added or removed

ASSUME EventAssumption ==
    /\ IsFiniteSet(Senders)
    /\ MaxEvents \in Nat /\ MaxSyncs \in Nat /\ MaxStops \in Nat /\ MaxChanges \in Nat

VARIABLES
    mEventWorkerDataQue,
    mPendingAsyncEvents,   \* source id -> TRUE pending, FALSE dispatched first
    released,              \* mPlayerState = eSTATE_RELEASED
    mEventListeners,
    sources,               \* glib: the idle sources not yet dispatched
    callbackId,            \* glib: the last id given out
    spc, sid,              \* each sender: where it is, the id it got from glib
    lpc, current,          \* the main loop: where it is, the source it runs (0: none)
    event, pList,          \* the event its source delivers, the listeners left to call
    outer,                 \* the lists of the deliveries in whose listeners it is
    cpc,                   \* the application's thread
    queued, stops, changes, syncs,
    delivered,             \* history: the last queued event a listener got
    gone,                  \* history: listeners whose removal has returned
    owed                   \* history: calls of a listener that were under way when it
                           \* was removed or stopped, less those made since

callbacks == <<sources, callbackId, mPendingAsyncEvents>>
sender    == <<spc, sid>>
loop      == <<lpc, current, event, pList, outer>>
app       == <<cpc, stops, changes>>
history   == <<delivered, gone, owed>>
vars      == <<mEventWorkerDataQue, callbacks, released, mEventListeners, sender, loop, app,
               queued, syncs, history>>

Sync == 0
\* The lists, of this delivery and of those it is nested in, that still have the listener.
Copies(l) ==
    Cardinality({i \in 1 .. Len(outer) : l \in outer[i]}) + (IF l \in pList THEN 1 ELSE 0)

Marked(state) == {id \in DOMAIN mPendingAsyncEvents : mPendingAsyncEvents[id] = state}

TypeOK ==
    /\ mEventWorkerDataQue \in Seq(1 .. MaxEvents)
    /\ DOMAIN mPendingAsyncEvents \subseteq 1 .. callbackId
    /\ \A id \in DOMAIN mPendingAsyncEvents : mPendingAsyncEvents[id] \in BOOLEAN
    /\ released \in BOOLEAN
    /\ mEventListeners \subseteq Listeners
    /\ sources \subseteq 1 .. callbackId /\ callbackId \in Nat
    /\ spc \in [Senders -> {"idle", "push", "add", "pend"}]
    /\ sid \in [Senders -> 0 .. callbackId]
    /\ \A s \in Senders : spc[s] = "pend" => sid[s] # 0
    /\ lpc \in {"idle", "dispatched", "pop", "listeners", "state", "sync", "deliver",
               "called"}
    /\ current \in 0 .. callbackId /\ (lpc = "dispatched" => current # 0)
    /\ event \in 0 .. MaxEvents
    /\ pList \subseteq Listeners /\ outer \in Seq(SUBSET Listeners)
    /\ cpc \in {"idle", "flush", "stopped"}
    /\ queued \in 0 .. MaxEvents
    /\ stops \in 0 .. MaxStops /\ changes \in 0 .. MaxChanges /\ syncs \in 0 .. MaxSyncs
    /\ delivered \in 0 .. MaxEvents
    /\ gone \subseteq Listeners
    /\ owed \in [Listeners -> Int]

Init ==
    /\ mEventWorkerDataQue = <<>>
    /\ mPendingAsyncEvents = [id \in {} |-> TRUE]
    /\ released = FALSE
    /\ mEventListeners = Listeners
    /\ sources = {} /\ callbackId = 0
    /\ spc = [s \in Senders |-> "idle"] /\ sid = [s \in Senders |-> 0]
    /\ lpc = "idle" /\ current = 0 /\ event = Sync /\ pList = {} /\ outer = <<>>
    /\ cpc = "idle"
    /\ queued = 0 /\ stops = 0 /\ changes = 0 /\ syncs = 0
    /\ delivered = 0 /\ gone = {} /\ owed = [l \in Listeners |-> 0]

-----------------------------------------------------------------------------
(* A thread that sends an event                                             *)

\* SendEvent: the state and the listeners, without the mutex.
SendEvent(s) ==
    /\ spc[s] = "idle"
    /\ ~released /\ mEventListeners # {}
    /\ queued < MaxEvents
    /\ spc' = [spc EXCEPT ![s] = "push"]
    /\ UNCHANGED <<mEventWorkerDataQue, callbacks, released, mEventListeners, sid, loop, app,
                   queued, syncs, history>>

\* SendEventAsync: the state again, and the queue, under the mutex ...
SendEventAsync(s) ==
    /\ spc[s] = "push"
    /\ IF ~released /\ queued < MaxEvents
       THEN /\ queued' = queued + 1
            /\ mEventWorkerDataQue' = Append(mEventWorkerDataQue, queued')
            /\ spc' = [spc EXCEPT ![s] = "add"]
       ELSE /\ spc' = [spc EXCEPT ![s] = "idle"]
            /\ UNCHANGED <<queued, mEventWorkerDataQue>>
    /\ UNCHANGED <<callbacks, released, mEventListeners, sid, loop, app, syncs, history>>

\* mutant: the id is kept in a member of the manager
AddCallbackSharedId(s) ==
    /\ spc[s] = "add"
    /\ callbackId' = callbackId + 1
    /\ sources' = sources \cup {callbackId'}
    /\ sid' = [t \in Senders |-> callbackId']
    /\ spc' = [spc EXCEPT ![s] = "pend"]
    /\ UNCHANGED <<mEventWorkerDataQue, mPendingAsyncEvents, released, mEventListeners, loop,
                   app, queued, syncs, history>>

\* mutant: a callback is only added for the first event of the queue
AddCallbackWhenEmpty(s) ==
    /\ spc[s] = "add"
    /\ IF Len(mEventWorkerDataQue) <= 1
       THEN /\ callbackId' = callbackId + 1
            /\ sources' = sources \cup {callbackId'}
            /\ sid' = [sid EXCEPT ![s] = callbackId']
            /\ spc' = [spc EXCEPT ![s] = "pend"]
       ELSE /\ spc' = [spc EXCEPT ![s] = "idle"]
            /\ UNCHANGED <<callbackId, sources, sid>>
    /\ UNCHANGED <<mEventWorkerDataQue, mPendingAsyncEvents, released, mEventListeners, loop,
                   app, queued, syncs, history>>

\* ... then g_idle_add_full, without it.
AddCallback(s) ==
    /\ spc[s] = "add"
    /\ callbackId' = callbackId + 1
    /\ sources' = sources \cup {callbackId'}
    /\ sid' = [sid EXCEPT ![s] = callbackId']
    /\ spc' = [spc EXCEPT ![s] = "pend"]
    /\ UNCHANGED <<mEventWorkerDataQue, mPendingAsyncEvents, released, mEventListeners, loop,
                   app, queued, syncs, history>>

Erased(id) == [i \in DOMAIN mPendingAsyncEvents \ {id} |-> mPendingAsyncEvents[i]]

Inserted(id, state) ==
    [i \in DOMAIN mPendingAsyncEvents \cup {id} |->
        IF i = id THEN state ELSE mPendingAsyncEvents[i]]

SetCallbackAsPending(s) ==
    /\ spc[s] = "pend"
    /\ mPendingAsyncEvents' =
          IF sid[s] \in DOMAIN mPendingAsyncEvents THEN Erased(sid[s]) ELSE Inserted(sid[s], TRUE)
    /\ spc' = [spc EXCEPT ![s] = "idle"]
    /\ UNCHANGED <<mEventWorkerDataQue, sources, callbackId, released, mEventListeners, sid,
                   loop, app, queued, syncs, history>>

-----------------------------------------------------------------------------
(* The main loop                                                            *)

\* glib runs EventManagerThreadFunction: any source, since SetAsyncTuneState
\* gives later ones another priority.
Dispatch ==
    /\ lpc = "idle"
    /\ \E id \in sources : sources' = sources \ {id} /\ current' = id
    /\ lpc' = "dispatched"
    /\ UNCHANGED <<mEventWorkerDataQue, callbackId, mPendingAsyncEvents, released,
                   mEventListeners, sender, event, pList, outer, app, queued, syncs, history>>

SetCallbackAsDispatched ==
    /\ lpc = "dispatched"
    /\ mPendingAsyncEvents' =
          IF current \in DOMAIN mPendingAsyncEvents THEN Erased(current)
          ELSE Inserted(current, FALSE)
    /\ lpc' = "pop"
    /\ UNCHANGED <<mEventWorkerDataQue, sources, callbackId, released, mEventListeners, sender,
                   current, event, pList, outer, app, queued, syncs, history>>

\* mutant: the newest event is taken
TakeLast ==
    /\ event' = Last(mEventWorkerDataQue)
    /\ mEventWorkerDataQue' = Front(mEventWorkerDataQue)

TakeFirst ==
    /\ event' = Head(mEventWorkerDataQue)
    /\ mEventWorkerDataQue' = Tail(mEventWorkerDataQue)

\* AsyncEvent: one event of the queue, if any is left; the callback's source goes.
AsyncEvent ==
    /\ lpc = "pop"
    /\ IF mEventWorkerDataQue # <<>>
       THEN lpc' = "listeners" /\ TakeFirst /\ UNCHANGED current
       ELSE lpc' = "idle" /\ current' = 0 /\ UNCHANGED <<event, mEventWorkerDataQue>>
    /\ UNCHANGED <<callbacks, released, mEventListeners, sender, pList, outer, app, queued, syncs,
                   history>>

\* IsEventListenerAvailable, under the mutex.
AsyncEventListeners ==
    /\ lpc = "listeners"
    /\ IF mEventListeners # {}
       THEN lpc' = "state" /\ UNCHANGED current
       ELSE lpc' = "idle" /\ current' = 0
    /\ UNCHANGED <<mEventWorkerDataQue, callbacks, released, mEventListeners, sender, event,
                   pList, outer, app, queued, syncs, history>>

\* The state, without the mutex.
AsyncEventState ==
    /\ lpc = "state"
    /\ IF ~released
       THEN lpc' = "sync" /\ UNCHANGED current
       ELSE lpc' = "idle" /\ current' = 0
    /\ UNCHANGED <<mEventWorkerDataQue, callbacks, released, mEventListeners, sender, event,
                   pList, outer, app, queued, syncs, history>>

\* SendEvent with a current source: it does not queue.  The source is another than the
\* manager's, or a listener sends from within its call: then this delivery runs inside
\* the one that called it, whose list waits.  (An event the main loop queues all the
\* same, with AsyncTune, takes the steps of a sender.)
SendOnMainLoop ==
    /\ lpc \in {"idle", "called"}
    /\ syncs < MaxSyncs
    /\ ~released /\ mEventListeners # {}
    /\ syncs' = syncs + 1
    /\ IF lpc = "called"
       THEN outer' = Append(outer, pList) /\ pList' = {} /\ UNCHANGED event
       ELSE event' = Sync /\ UNCHANGED <<pList, outer>>
    /\ lpc' = "sync"
    /\ UNCHANGED <<mEventWorkerDataQue, callbacks, released, mEventListeners, sender, current,
                   app, queued, history>>

\* A delivery is over: its source goes, or the listener that sent it goes on.
Finish ==
    IF outer = <<>>
    THEN lpc' = "idle" /\ current' = 0 /\ UNCHANGED <<pList, outer>>
    ELSE lpc' = "called" /\ pList' = Last(outer) /\ outer' = Front(outer) /\ UNCHANGED current

\* SendEventSync: the state again and the listeners' copy, under the mutex ...
SendEventSync ==
    /\ lpc = "sync"
    /\ IF released \/ mEventListeners = {}
       THEN Finish
       ELSE lpc' = "deliver" /\ pList' = mEventListeners /\ UNCHANGED <<current, outer>>
    /\ UNCHANGED <<mEventWorkerDataQue, callbacks, released, mEventListeners, sender, event,
                   app, queued, syncs, history>>

\* ... and the calls, without it ...
CallListener ==
    /\ lpc \in {"deliver", "called"}
    /\ \E l \in pList :
          /\ pList' = pList \ {l}
          /\ owed' = IF cpc = "stopped" \/ l \in gone THEN [owed EXCEPT ![l] = @ - 1] ELSE owed
    /\ delivered' = IF outer # <<>> \/ event = Sync THEN delivered ELSE event
    /\ lpc' = "called"
    /\ UNCHANGED <<mEventWorkerDataQue, callbacks, released, mEventListeners, sender, current,
                   event, outer, app, queued, syncs, gone>>

\* ... the last of which returns.
LastReturns ==
    /\ lpc = "called"
    /\ pList = {}
    /\ Finish
    /\ UNCHANGED <<mEventWorkerDataQue, callbacks, released, mEventListeners, sender, event,
                   app, queued, syncs, history>>

-----------------------------------------------------------------------------
(* The application's thread                                                 *)

\* PrivateInstanceAAMP::Stop: the state ...
Stop ==
    /\ cpc = "idle"
    /\ stops < MaxStops
    /\ stops' = stops + 1
    /\ released' = TRUE
    /\ cpc' = "flush"
    /\ UNCHANGED <<mEventWorkerDataQue, callbacks, mEventListeners, sender, loop, changes,
                   queued, syncs, history>>

\* ... and then the queue and the sources that are known.
FlushPendingEvents ==
    /\ cpc = "flush"
    /\ mEventWorkerDataQue' = <<>>
    /\ sources' = sources \ Marked(TRUE)
    /\ mPendingAsyncEvents' = [id \in {} |-> TRUE]
    /\ owed' = [l \in Listeners |-> Copies(l)]
    /\ cpc' = "stopped"
    /\ UNCHANGED <<callbackId, released, mEventListeners, sender, loop, stops, changes,
                   queued, syncs, delivered, gone>>

\* Tune: SetPlayerState(eSTATE_IDLE).
Tune ==
    /\ cpc = "stopped"
    /\ released' = FALSE
    /\ cpc' = "idle"
    /\ UNCHANGED <<mEventWorkerDataQue, callbacks, mEventListeners, sender, loop, stops, changes,
                   queued, syncs, history>>

AddEventListener ==
    /\ changes < MaxChanges
    /\ changes' = changes + 1
    /\ \E l \in Listeners \ mEventListeners :
          /\ mEventListeners' = mEventListeners \cup {l}
          /\ gone' = gone \ {l}
    /\ UNCHANGED <<mEventWorkerDataQue, callbacks, released, sender, loop, cpc, stops, queued,
                   syncs, delivered, owed>>

\* mutant: a listener stays registered while an event is delivered
RemoveEventListenerWhenQuiet ==
    /\ changes < MaxChanges
    /\ changes' = changes + 1
    /\ \E l \in mEventListeners :
          /\ mEventListeners' = IF pList = {} THEN mEventListeners \ {l} ELSE mEventListeners
          /\ gone' = gone \cup {l}
          /\ owed' = [owed EXCEPT ![l] = Copies(l)]
    /\ UNCHANGED <<mEventWorkerDataQue, callbacks, released, sender, loop, cpc, stops, queued,
                   syncs, delivered>>

RemoveEventListener ==
    /\ changes < MaxChanges
    /\ changes' = changes + 1
    /\ \E l \in mEventListeners :
          /\ mEventListeners' = mEventListeners \ {l}
          /\ gone' = gone \cup {l}
          /\ owed' = [owed EXCEPT ![l] = Copies(l)]
    /\ UNCHANGED <<mEventWorkerDataQue, callbacks, released, sender, loop, cpc, stops, queued,
                   syncs, delivered>>

-----------------------------------------------------------------------------
SenderContinue ==
    \E s \in Senders : SendEventAsync(s) \/ AddCallback(s) \/ SetCallbackAsPending(s)

LoopContinue ==
    \/ SetCallbackAsDispatched \/ AsyncEvent \/ AsyncEventListeners \/ AsyncEventState
    \/ SendEventSync \/ CallListener \/ LastReturns

Next ==
    \/ \E s \in Senders : SendEvent(s)
    \/ SenderContinue
    \/ Dispatch \/ SendOnMainLoop \/ LoopContinue
    \/ Stop \/ FlushPendingEvents \/ Tune \/ AddEventListener \/ RemoveEventListener

Spec == Init /\ [][Next]_vars

\* The threads run, and the main loop dispatches its sources.
FairSpec ==
    /\ Spec
    /\ \A s \in Senders :
          WF_vars(SendEventAsync(s) \/ AddCallback(s) \/ SetCallbackAsPending(s))
    /\ WF_vars(LoopContinue) /\ SF_vars(Dispatch)

-----------------------------------------------------------------------------
(* Properties                                                               *)

\* assert(itr->second) of SetCallbackAsDispatched and assert(!itr->second) of
\* SetCallbackAsPending hold, whichever of the two comes first and wherever a
\* flush falls.
CallbackAsserts ==
    /\ lpc = "dispatched" => current \notin Marked(FALSE)
    /\ \A s \in Senders : spc[s] = "pend" => sid[s] \notin Marked(TRUE)

\* "Every event need a idle task to execute it": each queued event has a source,
\* or a sender about to add one, or the callback that is about to take it.
EveryEventHasCallback ==
    Len(mEventWorkerDataQue) <=
        Cardinality(sources) + Cardinality({s \in Senders : spc[s] = "add"})
        + (IF lpc \in {"dispatched", "pop"} THEN 1 ELSE 0)

\* One callback for one event, and the map of pending callbacks agrees with both.
CallbacksMatchEvents == TypeOK /\ CallbackAsserts /\ EveryEventHasCallback

\* The listeners get queued events in the order they were queued, also across a
\* stop and a tune and whatever source the main loop picks.
DeliveredInOrder == [][delivered' >= delivered]_vars

\* The queued event that the main loop has taken and not yet finished with.
InHand == IF lpc \in {"listeners", "state", "sync", "deliver", "called"} THEN event ELSE Sync

Mailbox == INSTANCE EventMailbox WITH
    queue <- mEventWorkerDataQue, posted <- queued, inHand <- InHand

\* Queue, sources and callbacks are together a mailbox (SendEventAsync, AsyncEvent,
\* FlushPendingEvents): in order, one event in hand, and none that was flushed
\* before AsyncEvent took it reaches a listener.
ImplementsMailbox == Mailbox!Spec

\* A listener that was removed, or whose player is stopped, is called only by the
\* deliveries that were under way, at most once by each: one, and one more for every
\* listener in whose call the next of them was sent.
OnlyOwedCalls == \A l \in Listeners : owed[l] >= 0

\* A queued event does not stay in the queue.
QueuedIsTaken ==
    \A e \in 1 .. MaxEvents :
        (\E i \in 1 .. Len(mEventWorkerDataQue) : mEventWorkerDataQue[i] = e)
            ~> ~(\E i \in 1 .. Len(mEventWorkerDataQue) : mEventWorkerDataQue[i] = e)
=============================================================================
