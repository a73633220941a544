------------------------------ MODULE SendRing -------------------------------
(***************************************************************************)
(* The circular send buffer of the Wi-Fi firmware: circular_send_buffer_t  *)
(* and the functions on it in sead_wifi_PROJECT/user/buffers.c.  The store *)
(* task pushes one sample per accepted meter message; the uplink reads the *)
(* sample at the tail and pops it.  Both run as tasks of the non-preemptive*)
(* ESP8266 scheduler, so each function is one step.                        *)
(*                                                                         *)
(* Every slot keeps its last value after a pop, as the C array does: only  *)
(* head, tail and count say which slots are live.                          *)
(***************************************************************************)
EXTENDS Naturals

CONSTANTS
  Samples,      (* the data points a slot can hold (timestamp and wattage)  *)
  NoSample,     (* the content of a slot that was never written             *)
  Capacity,     (* max_send_buff_size                                       *)
  SizeModulus   (* 2^8: size_send_buffer() returns the count as a uint8_t   *)

ASSUME RingAssumption ==
  /\ Capacity \in Nat \ {0}
  /\ SizeModulus \in Nat \ {0}
  /\ Capacity < SizeModulus      (* 200 < 256 *)
  /\ NoSample \notin Samples

VARIABLES
  slots,   (* send_buffer.buffer                              *)
  head,    (* index of the next slot to write                 *)
  tail,    (* index of the oldest live slot                   *)
  count    (* number of live slots                            *)

ringVars == <<slots, head, tail, count>>

buffer_end == Capacity - 1

Index == 0 .. buffer_end

(* "if (x > buffer_end) x = 0" after an increment.                         *)
Advance(i) == IF i + 1 > buffer_end THEN 0 ELSE i + 1

size_send_buffer == count % SizeModulus

(* The slot that the next pop, or the next data point of a POST, reads.    *)
Oldest == slots[tail]

-----------------------------------------------------------------------------
RingInit ==
  /\ slots = [i \in Index |-> NoSample]
  /\ head = 0
  /\ tail = 0
  /\ count = 0

(* push_send_buffer, the branch that has a free slot.                      *)
PushFree(s) ==
  /\ count # Capacity
  /\ slots' = [slots EXCEPT ![head] = s]
  /\ head' = Advance(head)
  /\ count' = count + 1
  /\ tail' = tail

(* Mutant: a push on a full buffer leaves the tail at the newest sample.   *)
mut_PushFull(s) ==
  /\ count = Capacity
  /\ slots' = [slots EXCEPT ![head] = s]
  /\ head' = Advance(head)
  /\ UNCHANGED <<tail, count>>

(* push_send_buffer on a full buffer: the slot at the head is the oldest   *)
(* sample, which is overwritten, and the tail moves past it.               *)
PushFull(s) ==
  /\ count = Capacity
  /\ slots' = [slots EXCEPT ![head] = s]
  /\ head' = Advance(head)
  /\ tail' = Advance(tail)
  /\ count' = count

(* push_send_buffer on a message with fields: its sample goes in.          *)
push_sample(s) == PushFree(s) \/ PushFull(s)

(* Mutant: a pop moves the head instead of the tail.                       *)
mut_pop_pop_buffer ==
  /\ count # 0
  /\ count' = count - 1
  /\ head' = Advance(head)
  /\ UNCHANGED <<slots, tail>>

(* pop_pop_buffer; on an empty buffer it returns at once.                  *)
pop_pop_buffer ==
  /\ count # 0
  /\ count' = count - 1
  /\ tail' = Advance(tail)
  /\ UNCHANGED <<slots, head>>

RingNext ==
  \/ \E s \in Samples : push_sample(s)
  \/ pop_pop_buffer

RingSpec == RingInit /\ [][RingNext]_ringVars

-----------------------------------------------------------------------------
RingTypeOK ==
  /\ slots \in [Index -> Samples \cup {NoSample}]
  /\ head \in Index
  /\ tail \in Index
  /\ count \in 0 .. Capacity

(* The slot k places after the tail, going round the end of the array.     *)
SlotAfter(k) == IF tail + k > buffer_end THEN tail + k - Capacity ELSE tail + k

(* Head, tail and count, which three functions update separately, agree:   *)
(* the head is count slots after the tail, and every slot in between was   *)
(* written by a push.                                                      *)
RingConsistent ==
  /\ head = SlotAfter(count)
  /\ \A k \in 0 .. count - 1 : slots[SlotAfter(k)] \in Samples

(* The live slots read from the tail on, oldest first.                     *)
Live == [k \in 1 .. count |-> slots[SlotAfter(k - 1)]]

Fifo == INSTANCE LossyFifo WITH queue <- Live

(* The ring implements the bounded queue that displaces its oldest entry.  *)
RefinesLossyFifo == Fifo!Spec
=============================================================================
