-------------------------- MODULE MCFragmentTrack --------------------------
(* Small instances of FragmentTrack: a ring of two or three slots and a     *)
(* stream long enough to wrap it twice.                                     *)
EXTENDS FragmentTrack

SecondFragment == {2}
TimedOnly == {"timed"}
AnyTimeout == {"forever", "timed"}
=============================================================================
