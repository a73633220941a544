------------------------------ MODULE MCAcquire -------------------------------
(* Small instance of the acquire program, see the configuration.           *)
EXTENDS Acquire
=============================================================================
