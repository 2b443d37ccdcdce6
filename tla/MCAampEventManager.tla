------------------------- MODULE MCAampEventManager -------------------------
(* Instance of AampEventManager for TLC: two senders, two listeners.  No    *)
(* symmetry, which would be unsound for the liveness property.              *)
EXTENDS AampEventManager
=============================================================================
