---------------------------- MODULE EventMailbox ----------------------------
(***************************************************************************)
(* What the event manager promises the listeners, without threads or glib  *)
(* sources: a mailbox.  Events are delivered in the order they were        *)
(* posted, one is in hand at a time, and what is withdrawn before it was   *)
(* taken is never delivered.  An event is its number, 0 is none.           *)
(***************************************************************************)
EXTENDS Naturals, Sequences

VARIABLES
    queue,       \* posted and not taken
    posted,      \* the last event that was posted
    inHand,      \* taken, and on its way to the listeners
    delivered    \* the last event that a listener got

vars == <<queue, posted, inHand, delivered>>

None == 0

Init == queue = <<>> /\ posted = 0 /\ inHand = None /\ delivered = 0

Post ==
    /\ posted' = posted + 1
    /\ queue' = Append(queue, posted')
    /\ UNCHANGED <<inHand, delivered>>

\* Events that were not taken are dropped, all at once.
Withdraw == queue' = <<>> /\ UNCHANGED <<posted, inHand, delivered>>

Take ==
    /\ inHand = None
    /\ queue # <<>>
    /\ inHand' = Head(queue)
    /\ queue' = Tail(queue)
    /\ UNCHANGED <<posted, delivered>>

\* The first listener gets the event in hand; it may be the only one.
Deliver ==
    /\ inHand # None
    /\ inHand > delivered
    /\ delivered' = inHand
    /\ inHand' \in {inHand, None}
    /\ UNCHANGED <<queue, posted>>

\* All listeners have got it, or nobody is there to get it.
PutAway == inHand' = None /\ UNCHANGED <<queue, posted, delivered>>

Next == Post \/ Withdraw \/ Take \/ Deliver \/ PutAway

Spec == Init /\ [][Next]_vars
=============================================================================
