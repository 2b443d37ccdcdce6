------------------------------ MODULE MCPlayer ------------------------------
(* Instance of Player for TLC: both settings of AsyncTune, every command.   *)
EXTENDS Player
=============================================================================
