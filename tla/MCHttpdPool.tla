---------------------------- MODULE MCHttpdPool ------------------------------
(* Instance of HttpdPool for TLC; the cfg file gives the constants. *)
EXTENDS HttpdPool
=============================================================================
