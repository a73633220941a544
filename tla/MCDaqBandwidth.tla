---------------------------- MODULE MCDaqBandwidth ----------------------------
(* Instance of DaqBandwidth for TLC; the cfg files give the constants. *)
EXTENDS DaqBandwidth
=============================================================================
