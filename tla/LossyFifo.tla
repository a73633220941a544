------------------------------ MODULE LossyFifo ------------------------------
(***************************************************************************)
(* What the send buffer of the Wi-Fi firmware promises, independently of   *)
(* how buffers.c keeps it: a queue of at most Capacity samples in arrival  *)
(* order, where a sample that finds the queue full displaces the oldest    *)
(* one ("if you push on the buffer and it is full, then we overwrite the   *)
(* oldest values").  Nothing is ever refused, reordered, duplicated or     *)
(* taken out of the middle.                                                *)
(***************************************************************************)
EXTENDS Naturals, Sequences

CONSTANTS
  Samples,   (* the data points the queue can hold  *)
  Capacity   (* how many of them it holds at most   *)

VARIABLE queue   (* the samples waiting to be sent, oldest first *)

Room == Len(queue) < Capacity

Init == queue = <<>>

(* A sample arrives and there is room for it.                              *)
Put(s) ==
  /\ Room
  /\ queue' = Append(queue, s)

(* A sample arrives at a full queue: the oldest one makes room.            *)
Displace(s) ==
  /\ ~Room
  /\ queue' = Append(Tail(queue), s)

(* The oldest sample is taken for transmission.                            *)
Get ==
  /\ queue # <<>>
  /\ queue' = Tail(queue)

Next ==
  \/ \E s \in Samples : Put(s) \/ Displace(s)
  \/ Get

Spec == Init /\ [][Next]_queue
=============================================================================
