----------------------------- MODULE MessageStore ----------------------------
(***************************************************************************)
(* What the receiving side of the Wi-Fi firmware promises to the uplink,   *)
(* without interrupts, tasks, double buffers or a state machine: one       *)
(* message at a time that passed the NMEA check waits to be stored, intact *)
(* and out of reach of whatever arrives meanwhile; it is stored exactly    *)
(* once, as the sample its fields denote, in the order of acceptance; and  *)
(* it does not wait for ever.                                              *)
(***************************************************************************)
EXTENDS Naturals, Sequences

CONSTANTS
  Chars,       (* the characters of a message                             *)
  Check(_),    (* the text is a sentence whose checksum is acceptable     *)
  Fields(_),   (* the sentence is one that carries a sample               *)
  Sample(_),   (* the sample its fields denote                            *)
  NoMessage,   (* no message is waiting                                   *)
  Samples,     (* the data points                                         *)
  Capacity     (* how many samples the send buffer holds                  *)

VARIABLES
  pending,     (* the accepted message that waits to be stored            *)
  queue        (* the samples waiting to be sent, oldest first            *)

storeVars == <<pending, queue>>

Fifo == INSTANCE LossyFifo

Init ==
  /\ pending = NoMessage
  /\ Fifo!Init

(* A message passes the check while none is waiting.                       *)
Accept ==
  /\ pending = NoMessage
  /\ pending' \in Seq(Chars)
  /\ Check(pending')
  /\ UNCHANGED queue

(* The waiting message becomes a sample.                                   *)
Store ==
  /\ pending # NoMessage
  /\ Fields(pending)
  /\ Fifo!Put(Sample(pending)) \/ Fifo!Displace(Sample(pending))
  /\ pending' = NoMessage

(* The waiting message carries no sample: it is dropped.                   *)
Discard ==
  /\ pending # NoMessage
  /\ ~Fields(pending)
  /\ pending' = NoMessage
  /\ UNCHANGED queue

(* The uplink takes the oldest sample.                                     *)
Take ==
  /\ Fifo!Get
  /\ UNCHANGED pending

Next == Accept \/ Store \/ Discard \/ Take

Spec == Init /\ [][Next]_storeVars

(* A waiting message is eventually stored or dropped for want of fields.   *)
NothingWaitsForever == (pending # NoMessage) ~> (pending = NoMessage)
=============================================================================
