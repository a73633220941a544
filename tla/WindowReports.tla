---------------------------- MODULE WindowReports ----------------------------
(***************************************************************************)
(* What a meter promises: the line is cut into windows of samples, and     *)
(* every window is reported once, by itself and in order, before the next  *)
(* one is complete.                                                        *)
(***************************************************************************)
EXTENDS Integers

\* Windows are told apart by a label that comes round again.
CONSTANT Windows

VARIABLES
    open,   \* the window being measured
    due,    \* the complete window that awaits its report, if any
    last    \* the windows that the last report speaks of

Succ(w) == IF w = Windows - 1 THEN 0 ELSE w + 1
Pred(w) == IF w = 0 THEN Windows - 1 ELSE w - 1

Init == open = 0 /\ due = {} /\ last = {}

Complete ==
    /\ due = {}
    /\ due' = {open}
    /\ open' = Succ(open)
    /\ UNCHANGED last

Report ==
    /\ due # {}
    /\ last' = due
    /\ due' = {}
    /\ UNCHANGED open

Next == Complete \/ Report

Spec == Init /\ [][Next]_<<open, due, last>>
=============================================================================
