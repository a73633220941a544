--------------------------- MODULE MCSendRecvPort ----------------------------
(***************************************************************************)
(* Small instance of the receiver: the two characters that frame a message *)
(* and two that make it up, in buffers of two characters, so that four     *)
(* characters of one run are enough to end a message and to overflow the   *)
(* buffer behind it.  A text fails the check if its second character is a  *)
(* '$' and carries no sample if it has none; else that one is its sample.  *)
(***************************************************************************)
EXTENDS SendRecvPort

MCSamples == Chars \ {Dollar, Newline}

MCCheck(t) == \A i \in 2 .. Len(t) : t[i] # Dollar

MCFields(t) == Len(t) >= 2 /\ t[2] \in MCSamples

MCSample(t) == t[2]
=============================================================================
