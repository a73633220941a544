----------------------------- MODULE MCSendRing ------------------------------
(***************************************************************************)
(* Small instance of the ring for TLC: a ring of four slots and three      *)
(* samples, so that a ring can hold the same sample twice.                 *)
(***************************************************************************)
EXTENDS SendRing
=============================================================================
