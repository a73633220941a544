------------------------------ MODULE MCUplink -------------------------------
(* Instance of Uplink for TLC; the cfg files give the constants. *)
EXTENDS Uplink
=============================================================================
