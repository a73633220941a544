---------------------------- MODULE MCHandshake ------------------------------
(* Instance of Handshake for TLC; the cfg file gives the constants. *)
EXTENDS Handshake
=============================================================================
