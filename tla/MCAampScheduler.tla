-------------------------- MODULE MCAampScheduler --------------------------
(* Small instances of AampScheduler: two calling threads, ids that wrap. *)
EXTENDS AampScheduler
=============================================================================
