-------------------------- MODULE FragmentChannel --------------------------
(***************************************************************************)
(* What the fragment cache of a track promises, without threads, indices   *)
(* or waits: a bounded channel.  The fragments of the stream enter it one  *)
(* after the other, only the oldest one is delivered, once, and it leaves  *)
(* the channel when it has been.  A fragment is its number in the stream.  *)
(***************************************************************************)
EXTENDS Naturals, Sequences

CONSTANT Capacity

VARIABLES
    queue,       \* the fragments in the channel
    put,         \* the last fragment that entered it
    delivered    \* the last fragment that was delivered

vars == <<queue, put, delivered>>

Init == queue = <<>> /\ put = 0 /\ delivered = 0

Put ==
    /\ Len(queue) < Capacity
    /\ put' = put + 1
    /\ queue' = Append(queue, put')
    /\ UNCHANGED delivered

\* The fragment stays in the channel while the sink takes it.
Deliver ==
    /\ queue # <<>>
    /\ delivered' = Head(queue)
    /\ delivered' # delivered
    /\ UNCHANGED <<queue, put>>

Release ==
    /\ queue # <<>>
    /\ delivered = Head(queue)
    /\ queue' = Tail(queue)
    /\ UNCHANGED <<put, delivered>>

Next == Put \/ Deliver \/ Release

Spec == Init /\ [][Next]_vars
=============================================================================
