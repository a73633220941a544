---------------------------- MODULE MCDaqPower ----------------------------
(* Instance of DaqPower for TLC; the cfg files give the constants. *)
EXTENDS DaqPower
=============================================================================
