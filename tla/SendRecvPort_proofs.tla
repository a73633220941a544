------------------------- MODULE SendRecvPort_proofs -------------------------
(***************************************************************************)
(* Proofs about the send ring of the Wi-Fi firmware and about the receiver *)
(* that fills it, for every alphabet, check, buffer size, FIFO depth and   *)
(* ring capacity.  The ring's indices stay in range and agree with its     *)
(* count, and it implements the bounded queue of LossyFifo; the interrupt, *)
(* the receive task and the store task keep their handshakes, what reaches *)
(* the store task is a framed message that passed the check, and receiver  *)
(* and ring together implement the message store.                          *)
(***************************************************************************)
EXTENDS SendRecvPort, SequenceTheorems, TLAPS

(* The send ring of buffers.c, by itself.                                  *)

(* Going round the ring: where the index arithmetic of pushes and pops     *)
(* lands, stated once for the slots seen from the tail.                    *)
LEMMA SlotAfterFacts ==
  ASSUME RingTypeOK
  PROVE  /\ Capacity \in Nat \ {0}
         /\ \A k \in 0 .. Capacity - 1 : SlotAfter(k) \in Index
         /\ SlotAfter(Capacity) = tail
         /\ SlotAfter(0) = tail
         /\ \A j, k \in 0 .. Capacity - 1 :
              SlotAfter(j) = SlotAfter(k) => j = k
         /\ \A k \in 0 .. Capacity - 1 :
              SlotAfter(k + 1) = Advance(SlotAfter(k))
  BY RingAssumption DEF RingTypeOK, SlotAfter, Index, buffer_end, Advance

(* An index that is advanced stays inside the array.                       *)
LEMMA AdvanceInIndex ==
  ASSUME NEW i \in Index
  PROVE  Advance(i) \in Index
  BY RingAssumption DEF Index, buffer_end, Advance

(* Moving the tail one slot on renumbers the slots seen from it by one.    *)
LEMMA SlotAfterShift ==
  ASSUME RingTypeOK, tail' = Advance(tail), NEW k \in 0 .. Capacity - 1
  PROVE  SlotAfter(k)' = SlotAfter(k + 1)
  BY RingAssumption DEF RingTypeOK, SlotAfter, Index, buffer_end, Advance

(* The ring's indices and slots keep their types.                          *)
LEMMA RingTypeStep == RingTypeOK /\ [RingNext]_ringVars => RingTypeOK'
<1> SUFFICES ASSUME RingTypeOK, [RingNext]_ringVars PROVE RingTypeOK'
  OBVIOUS
<1>1. ASSUME NEW s \in Samples, PushFree(s) PROVE RingTypeOK'
  BY <1>1, AdvanceInIndex, RingAssumption DEF RingTypeOK, PushFree, Index, buffer_end
<1>2. ASSUME NEW s \in Samples, PushFull(s) PROVE RingTypeOK'
  BY <1>2, AdvanceInIndex, RingAssumption DEF RingTypeOK, PushFull, Index, buffer_end
<1>3. CASE pop_pop_buffer
  BY <1>3, AdvanceInIndex, RingAssumption DEF RingTypeOK, pop_pop_buffer, Index, buffer_end
<1>4. CASE UNCHANGED ringVars
  BY <1>4 DEF ringVars, RingTypeOK
<1> QED
  BY <1>1, <1>2, <1>3, <1>4 DEF RingNext, push_sample

(* head, tail and count agree after every step: the ring invariant is      *)
(* inductive together with the types.                                      *)
LEMMA RingConsistentStep ==
  RingTypeOK /\ RingConsistent /\ [RingNext]_ringVars => RingConsistent'
<1> SUFFICES ASSUME RingTypeOK, RingConsistent, [RingNext]_ringVars
             PROVE  RingConsistent'
  OBVIOUS
<1> USE DEF RingConsistent
<1>0. /\ count \in 0 .. Capacity
      /\ Capacity \in Nat \ {0}
      /\ slots \in [Index -> Samples \cup {NoSample}]
  BY RingAssumption DEF RingTypeOK
<1>1. ASSUME NEW s \in Samples, PushFree(s) PROVE RingConsistent'
  <2>1. \A k \in Nat : SlotAfter(k)' = SlotAfter(k)
    BY <1>1 DEF PushFree, SlotAfter, buffer_end
  <2>2. head' = SlotAfter(count + 1)
    BY <1>0, <1>1, SlotAfterFacts DEF PushFree
  <2>3. ASSUME NEW k \in 0 .. count PROVE slots'[SlotAfter(k)] \in Samples
    <3>1. SlotAfter(k) \in Index
      BY <1>0, <1>1, SlotAfterFacts DEF PushFree
    <3>2. CASE k = count
      BY <1>0, <1>1, <3>1, <3>2 DEF PushFree
    <3>3. CASE k \in 0 .. count - 1
      <4>1. SlotAfter(k) # head
        BY <1>0, <1>1, <3>3, SlotAfterFacts DEF PushFree
      <4> QED
        BY <1>0, <1>1, <3>1, <3>3, <4>1 DEF PushFree
    <3> QED
      BY <1>0, <3>2, <3>3
  <2> QED
    BY <1>0, <1>1, <2>1, <2>2, <2>3 DEF PushFree
<1>2. ASSUME NEW s \in Samples, PushFull(s) PROVE RingConsistent'
  <2>1. head = tail
    BY <1>2, SlotAfterFacts DEF PushFull
  <2>2. head' = SlotAfter(count)'
    BY <1>0, <1>2, <2>1, RingAssumption
       DEF PushFull, SlotAfter, Advance, RingTypeOK, Index, buffer_end
  <2>3. ASSUME NEW k \in 0 .. Capacity - 1 PROVE slots'[SlotAfter(k)'] \in Samples
    <3>1. SlotAfter(k)' = SlotAfter(k + 1)
      BY <1>2, SlotAfterShift DEF PushFull
    <3>2. CASE k = Capacity - 1
      <4>1. SlotAfter(k)' = head
        BY <1>0, <2>1, <3>1, <3>2, SlotAfterFacts
      <4> QED
        BY <1>0, <1>2, <4>1 DEF PushFull, RingTypeOK
    <3>3. CASE k + 1 \in 0 .. Capacity - 1
      <4>1. SlotAfter(k + 1) \in Index /\ SlotAfter(k + 1) # head
        BY <1>0, <2>1, <3>3, SlotAfterFacts
      <4> QED
        BY <1>0, <1>2, <3>1, <3>3, <4>1 DEF PushFull
    <3> QED
      BY <1>0, <3>2, <3>3
  <2> QED
    BY <1>0, <1>2, <2>2, <2>3 DEF PushFull
<1>3. CASE pop_pop_buffer
  <2>1. \A k \in 0 .. Capacity - 1 : SlotAfter(k)' = SlotAfter(k + 1)
    BY <1>3, SlotAfterShift DEF pop_pop_buffer
  <2> QED
    BY <1>0, <1>3, <2>1 DEF pop_pop_buffer
<1>4. CASE UNCHANGED ringVars
  BY <1>4 DEF ringVars, SlotAfter
<1> QED
  BY <1>1, <1>2, <1>3, <1>4 DEF RingNext, push_sample

(* The ring invariant holds initially.                                     *)
LEMMA RingStarts == RingInit => RingTypeOK /\ RingConsistent
  BY RingAssumption DEF RingInit, RingTypeOK, RingConsistent, SlotAfter, Index, buffer_end

(* The indices of the ring never leave the array and the count never       *)
(* exceeds the capacity, whatever pushes and pops happen in whatever order.*)
THEOREM RingTypeCorrect == RingSpec => []RingTypeOK
  BY RingStarts, RingTypeStep, PTL DEF RingSpec

(* Head, tail and count of the ring always agree, and every live slot was  *)
(* written by push_send_buffer.                                            *)
THEOREM RingAlwaysConsistent == RingSpec => []RingConsistent
<1>1. RingInit => RingTypeOK /\ RingConsistent
  BY RingStarts
<1>2. RingTypeOK /\ RingConsistent /\ [RingNext]_ringVars => (RingTypeOK /\ RingConsistent)'
  BY RingTypeStep, RingConsistentStep
<1> QED
  BY <1>1, <1>2, PTL DEF RingSpec

-----------------------------------------------------------------------------
LiveFacts ==
  /\ Live \in Seq(Samples)
  /\ Len(Live) = count
  /\ \A k \in 1 .. count : Live[k] = slots[SlotAfter(k - 1)]

(* The live slots, read from the tail, form a sequence of count samples.   *)
LEMMA LiveIsSequence == RingTypeOK /\ RingConsistent => LiveFacts
<1> SUFFICES ASSUME RingTypeOK, RingConsistent PROVE LiveFacts
  OBVIOUS
<1>1. count \in Nat
  BY RingAssumption DEF RingTypeOK
<1>2. \A k \in 1 .. count : slots[SlotAfter(k - 1)] \in Samples
  BY <1>1 DEF RingConsistent
<1> QED
  BY <1>1, <1>2 DEF LiveFacts, Live

(* The same of the state after a step.                                     *)
LEMMA LiveIsSequenceNext == (RingTypeOK /\ RingConsistent)' => LiveFacts'
  BY LiveIsSequence, PTL

(* A push into a free slot appends to the queue of live samples.           *)
LEMMA PushFreeIsPut ==
  ASSUME RingTypeOK, RingConsistent, RingTypeOK', RingConsistent',
         NEW s \in Samples, PushFree(s)
  PROVE  Fifo!Put(s)
<1>1. /\ count \in 0 .. Capacity - 1
      /\ Capacity \in Nat \ {0}
      /\ slots \in [Index -> Samples \cup {NoSample}]
  BY RingAssumption DEF RingTypeOK, PushFree
<1>2. Fifo!Room
  BY <1>1, LiveIsSequence DEF LiveFacts, Fifo!Room
<1>3. /\ Live' \in Seq(Samples)
      /\ Len(Live') = count + 1
      /\ \A k \in 1 .. count + 1 : Live'[k] = slots'[SlotAfter(k - 1)']
  BY LiveIsSequence, LiveIsSequenceNext DEF LiveFacts, PushFree
<1>4. \A k \in Nat : SlotAfter(k)' = SlotAfter(k)
  BY DEF PushFree, SlotAfter, buffer_end
<1>5. ASSUME NEW k \in 1 .. count PROVE Live'[k] = Live[k]
  <2>1. SlotAfter(k - 1) \in Index /\ SlotAfter(k - 1) # head
    BY <1>1, SlotAfterFacts DEF RingConsistent
  <2>2. slots'[SlotAfter(k - 1)] = slots[SlotAfter(k - 1)]
    BY <1>1, <2>1 DEF PushFree
  <2> QED
    BY <1>1, <1>3, <1>4, <2>2, LiveIsSequence DEF LiveFacts
<1>6. Live'[count + 1] = s
  BY <1>1, <1>3, <1>4 DEF PushFree, RingConsistent, RingTypeOK
<1>7. Live' = Append(Live, s)
  BY <1>1, <1>3, <1>5, <1>6, LiveIsSequence, AppendProperties, SeqEqual DEF LiveFacts
<1> QED
  BY <1>2, <1>7 DEF Fifo!Put

(* A push into a full ring drops the oldest sample and appends.            *)
LEMMA PushFullIsDisplace ==
  ASSUME RingTypeOK, RingConsistent, RingTypeOK', RingConsistent',
         NEW s \in Samples, PushFull(s)
  PROVE  Fifo!Displace(s)
<1>1. /\ count = Capacity
      /\ count' = Capacity
      /\ Capacity \in Nat \ {0}
      /\ slots \in [Index -> Samples \cup {NoSample}]
      /\ head = tail
  BY RingAssumption, SlotAfterFacts DEF RingTypeOK, PushFull, RingConsistent
<1>2. ~Fifo!Room /\ Live # <<>>
  BY <1>1, LiveIsSequence DEF LiveFacts, Fifo!Room
<1>3. /\ Live' \in Seq(Samples)
      /\ Len(Live') = Capacity
      /\ \A k \in 1 .. Capacity : Live'[k] = slots'[SlotAfter(k - 1)']
  BY <1>1, LiveIsSequenceNext DEF LiveFacts
<1>4. \A k \in 0 .. Capacity - 1 : SlotAfter(k)' = SlotAfter(k + 1)
  BY SlotAfterShift DEF PushFull
<1>5. ASSUME NEW k \in 1 .. Capacity - 1 PROVE Live'[k] = Live[k + 1]
  <2>1. SlotAfter(k) \in Index /\ SlotAfter(k) # head
    BY <1>1, SlotAfterFacts
  <2>2. slots'[SlotAfter(k)] = slots[SlotAfter(k)]
    BY <1>1, <2>1 DEF PushFull
  <2>3. Live'[k] = slots'[SlotAfter(k)]
    BY <1>1, <1>3, <1>4
  <2> QED
    BY <1>1, <2>2, <2>3, LiveIsSequence DEF LiveFacts
<1>6. Live'[Capacity] = s
  <2>1. SlotAfter(Capacity - 1)' = head
    BY <1>1, <1>4, SlotAfterFacts
  <2> QED
    BY <1>1, <1>3, <2>1 DEF PushFull, RingTypeOK
<1>7. /\ Tail(Live) \in Seq(Samples)
      /\ Len(Tail(Live)) = Capacity - 1
      /\ \A k \in 1 .. Capacity - 1 : Tail(Live)[k] = Live[k + 1]
  BY <1>1, <1>2, LiveIsSequence, HeadTailProperties DEF LiveFacts
<1>8. Live' = Append(Tail(Live), s)
  BY <1>1, <1>3, <1>5, <1>6, <1>7, AppendProperties, SeqEqual
<1> QED
  BY <1>2, <1>8 DEF Fifo!Displace

(* A pop takes the oldest sample.                                          *)
LEMMA PopIsGet ==
  ASSUME RingTypeOK, RingConsistent, RingTypeOK', RingConsistent', pop_pop_buffer
  PROVE  Fifo!Get
<1>1. /\ count \in 1 .. Capacity
      /\ count' = count - 1
      /\ slots' = slots
      /\ Capacity \in Nat \ {0}
  BY RingAssumption DEF RingTypeOK, pop_pop_buffer
<1>2. Live # <<>>
  BY <1>1, LiveIsSequence DEF LiveFacts
<1>3. /\ Live' \in Seq(Samples)
      /\ Len(Live') = count - 1
      /\ \A k \in 1 .. count - 1 : Live'[k] = slots[SlotAfter(k - 1)']
  BY <1>1, LiveIsSequenceNext DEF LiveFacts
<1>4. \A k \in 0 .. Capacity - 1 : SlotAfter(k)' = SlotAfter(k + 1)
  BY SlotAfterShift DEF pop_pop_buffer
<1>5. \A k \in 1 .. count - 1 : Live'[k] = Live[k + 1]
  <2> TAKE k \in 1 .. count - 1
  <2>1. Live'[k] = slots[SlotAfter(k)]
    BY <1>1, <1>3, <1>4
  <2>2. Live[k + 1] = slots[SlotAfter(k)]
    BY <1>1, LiveIsSequence DEF LiveFacts
  <2> QED
    BY <2>1, <2>2
<1>6. /\ Tail(Live) \in Seq(Samples)
      /\ Len(Tail(Live)) = count - 1
      /\ \A k \in 1 .. count - 1 : Tail(Live)[k] = Live[k + 1]
  BY <1>1, <1>2, LiveIsSequence, HeadTailProperties DEF LiveFacts
<1>7. Live' = Tail(Live)
  BY <1>1, <1>3, <1>5, <1>6, SeqEqual
<1> QED
  BY <1>2, <1>7 DEF Fifo!Get

(* The ring implements the bounded queue that displaces its oldest entry:  *)
(* push_send_buffer and pop_pop_buffer never lose, duplicate or reorder a  *)
(* sample, except that a push on a full ring drops the oldest one.         *)
THEOREM RingImplementsFifo == RingSpec => RefinesLossyFifo
<1>1. RingInit => Fifo!Init
  BY RingStarts, LiveIsSequence DEF LiveFacts, RingInit, Fifo!Init
<1>2. ASSUME RingTypeOK, RingConsistent, RingTypeOK', RingConsistent', [RingNext]_ringVars
      PROVE  [Fifo!Next]_Live
  <2>1. ASSUME NEW s \in Samples, push_sample(s) PROVE Fifo!Next
    BY <1>2, <2>1, PushFreeIsPut, PushFullIsDisplace
       DEF push_sample, Fifo!Next
  <2>2. CASE pop_pop_buffer
    BY <1>2, <2>2, PopIsGet DEF Fifo!Next
  <2>3. CASE UNCHANGED ringVars
    BY <2>3 DEF ringVars, Live, SlotAfter
  <2> QED
    BY <1>2, <2>1, <2>2, <2>3 DEF RingNext
<1> QED
  BY <1>1, <1>2, RingTypeCorrect, RingAlwaysConsistent, PTL
     DEF RingSpec, RefinesLossyFifo, Fifo!Spec

-----------------------------------------------------------------------------
(* The receiver.                                                           *)

(* A text is a sequence of characters that fits the buffer.                *)
LEMMA TextsFacts ==
  /\ \A t : t \in Texts <=> t \in Seq(Chars) /\ Len(t) <= BufSize
  /\ <<>> \in Texts
<1>1. ASSUME NEW t \in Texts PROVE t \in Seq(Chars) /\ Len(t) <= BufSize
  <2>1. PICK n \in 0 .. BufSize : t \in [1 .. n -> Chars]
    BY DEF Texts
  <2> QED
    BY <2>1, PortAssumption
<1>2. ASSUME NEW t \in Seq(Chars), Len(t) <= BufSize PROVE t \in Texts
  <2>1. t \in [1 .. Len(t) -> Chars] /\ Len(t) \in 0 .. BufSize
    BY <1>2, PortAssumption
  <2> QED
    BY <2>1 DEF Texts
<1>3. <<>> \in Seq(Chars) /\ Len(<<>>) <= BufSize
  BY PortAssumption
<1> QED
  BY <1>1, <1>2, <1>3

(* What one more character does to a text that has room for it.            *)
LEMMA AppendText ==
  ASSUME NEW t \in Texts, NEW c \in Chars, ~(Len(t) > BufSize - 1)
  PROVE  /\ Append(t, c) \in Texts
         /\ Len(Append(t, c)) = Len(t) + 1
         /\ Framed(t) /\ c # Newline => Framed(Append(t, c))
         /\ t = <<>> /\ c = Dollar => Framed(Append(t, c))
<1>1. t \in Seq(Chars) /\ Len(t) \in Nat
  BY TextsFacts
<1>2. /\ Append(t, c) \in Seq(Chars)
      /\ Append(t, c) # <<>>
      /\ Len(Append(t, c)) = Len(t) + 1
      /\ \A i \in 1 .. Len(t) : Append(t, c)[i] = t[i]
      /\ Append(t, c)[Len(t) + 1] = c
  BY <1>1, AppendProperties
<1>3. Append(t, c) \in Texts
  <2>1. BufSize \in Nat
    BY PortAssumption
  <2>2. Len(Append(t, c)) <= BufSize
    BY <1>1, <1>2, <2>1
  <2> QED
    BY <1>2, <2>2, TextsFacts
<1>4. ASSUME Framed(t), c # Newline PROVE Framed(Append(t, c))
  <2>1. Len(t) >= 1
    BY <1>1, <1>4, EmptySeq DEF Framed
  <2>2. Append(t, c)[1] = Dollar
    BY <1>1, <1>2, <1>4, <2>1 DEF Framed
  <2>3. \A i \in 1 .. Len(Append(t, c)) : Append(t, c)[i] # Newline
    BY <1>1, <1>2, <1>4 DEF Framed
  <2> QED
    BY <1>2, <2>2, <2>3 DEF Framed
<1>5. ASSUME t = <<>>, c = Dollar PROVE Framed(Append(t, c))
  <2>1. Len(t) = 0
    BY <1>5
  <2> QED
    BY <1>1, <1>2, <1>5, <2>1, PortAssumption DEF Framed
<1> QED
  BY <1>2, <1>3, <1>4, <1>5

-----------------------------------------------------------------------------
(* The inductive invariant, by the variables each part is about.           *)

LineInv ==
  /\ fifo \in Seq(Chars)
  /\ Len(fifo) <= FifoDepth
  /\ fullInt \in BOOLEAN
  /\ toutInt \in BOOLEAN
  /\ timedOut \in BOOLEAN
  /\ burst \in 0 .. MaxBurst

TaskInv ==
  /\ uartIntr \in BOOLEAN
  /\ recv \in Places
  /\ recvQueue \in Nat
  /\ OneWakeup

BuffersInv ==
  /\ current \in Buffers
  /\ text \in [Buffers -> Texts]
  /\ buff_size \in [Buffers -> Nat]
  /\ \A b \in Buffers : buff_size[b] <= Len(text[b])

FsmInv ==
  /\ BuffersInv
  /\ user_state \in States
  /\ storing \in BOOLEAN
  /\ storeQueue \in Nat
  /\ StoreHandshake
  /\ FramedBuffer
  /\ WaitingMessageIsChecked

(* put_buffer, and what it leaves alone.                                   *)
LEMMA PutFacts ==
  ASSUME BuffersInv, NEW c \in Chars, put_buffer(c), current' = current
  PROVE  /\ BuffersInv'
         /\ Other' = Other
         /\ text'[Other] = text[Other]
         /\ Framed(text[current]) /\ c # Newline => Framed(text'[current])
         /\ text[current] = <<>> /\ c = Dollar => Framed(text'[current])
<1>1. /\ current \in Buffers /\ Other \in Buffers /\ Other # current
      /\ text[current] \in Texts
      /\ ~(Len(text[current]) > BufSize - 1)
  BY DEF BuffersInv, put_buffer, BufferFull, Buffers, Other
<1>2. text' = [text EXCEPT ![current] = Append(text[current], c)]
  BY DEF put_buffer
<1>3. /\ text' \in [Buffers -> Texts]
      /\ text'[current] = Append(text[current], c)
      /\ Len(text'[current]) = Len(text[current]) + 1
      /\ \A b \in Buffers \ {current} : text'[b] = text[b]
  BY <1>1, <1>2, AppendText DEF BuffersInv
<1>4. Len(text[current]) \in Nat
  BY <1>1, TextsFacts
<1>5. /\ buff_size' \in [Buffers -> Nat]
      /\ \A b \in Buffers : buff_size'[b] <= Len(text'[b])
  BY <1>1, <1>3, <1>4 DEF BuffersInv, put_buffer
<1>6. BuffersInv' /\ Other' = Other
  BY <1>1, <1>3, <1>5 DEF BuffersInv, Other
<1> QED
  BY <1>1, <1>3, <1>6, AppendText

(* reset_buffer.                                                           *)
LEMMA ResetFacts ==
  ASSUME BuffersInv, reset_buffer, current' = current
  PROVE  /\ BuffersInv'
         /\ Other' = Other
         /\ text'[current] = <<>>
         /\ text'[Other] = text[Other]
<1>1. /\ current \in Buffers /\ Other \in Buffers /\ Other # current
  BY DEF BuffersInv, Buffers, Other
<1>2. Len(<<>>) = 0
  OBVIOUS
<1> QED
  BY <1>1, <1>2, TextsFacts DEF BuffersInv, reset_buffer, Other

(* swap_buffer and reset_buffer: what was filled is now the other buffer.  *)
LEMMA SwapFacts ==
  ASSUME BuffersInv, swap_reset_buffer
  PROVE  /\ BuffersInv'
         /\ Other' = current
         /\ text'[current'] = <<>>
         /\ text'[Other'] = text[current]
<1>1. /\ current \in Buffers /\ Other \in Buffers /\ Other # current
      /\ 3 - Other = current
  BY DEF BuffersInv, Buffers, Other
<1>2. current' = Other /\ Other' = current
  BY <1>1 DEF swap_reset_buffer, Other
<1>3. Len(<<>>) = 0
  OBVIOUS
<1>4. /\ text' \in [Buffers -> Texts]
      /\ text'[Other] = <<>>
      /\ text'[current] = text[current]
  BY <1>1, TextsFacts DEF BuffersInv, swap_reset_buffer
<1>5. /\ buff_size' \in [Buffers -> Nat]
      /\ \A b \in Buffers : buff_size'[b] <= Len(text'[b])
  BY <1>1, <1>3, TextsFacts DEF BuffersInv, swap_reset_buffer
<1> QED
  BY <1>1, <1>2, <1>4, <1>5 DEF BuffersInv

-----------------------------------------------------------------------------
(* A newline that ends a message while none is waiting.                    *)
LEMMA EndMessageStep ==
  ASSUME FsmInv, ~storing, Framed(text[current]), EndMessage
  PROVE  FsmInv'
<1>1. BuffersInv /\ storeQueue = 0
  BY DEF FsmInv, StoreHandshake
<1>2. CASE /\ checksum_buffer
           /\ storing' = TRUE
           /\ swap_reset_buffer
           /\ storeQueue' = Post(storeQueue, StoreQueueLen)
           /\ user_state' = "STORE"
  <2>1. storeQueue' = 1
    BY <1>1, <1>2, PortAssumption DEF Post
  <2>2. /\ BuffersInv' /\ text'[current'] = <<>>
        /\ text'[Other'] = text[current]
    BY <1>1, <1>2, SwapFacts
  <2> QED
    BY <1>2, <2>1, <2>2
       DEF FsmInv, StoreHandshake, FramedBuffer, WaitingMessageIsChecked,
           checksum_buffer, States
<1>3. CASE /\ ~checksum_buffer
           /\ reset_buffer
           /\ user_state' = "IDLE"
           /\ Quiet
  <2>1. BuffersInv' /\ text'[current] = <<>> /\ current' = current
    BY <1>1, <1>3, ResetFacts DEF Quiet
  <2> QED
    BY <1>1, <1>3, <2>1
       DEF FsmInv, StoreHandshake, FramedBuffer, WaitingMessageIsChecked,
           Quiet, States
<1> QED
  BY <1>2, <1>3 DEF EndMessage

(* Every character that goes through the state machine keeps its           *)
(* invariant, in each of the four states.                                  *)
LEMMA FsmStep ==
  ASSUME FsmInv, NEW c \in Chars, send_recv_store_fsm(c)
  PROVE  FsmInv'
<1> USE DEF FsmInv, StoreHandshake, FramedBuffer, WaitingMessageIsChecked, States
<1>1. CASE case_idle(c)
  <2>1. CASE c = Dollar /\ put_buffer(c) /\ user_state' = "RECEIVE"
    BY <1>1, <2>1, PutFacts DEF case_idle, Quiet
  <2>2. CASE UNCHANGED <<user_state, text, buff_size>>
    BY <1>1, <2>2 DEF case_idle, Quiet, BuffersInv, Other
  <2> QED
    BY <1>1, <2>1, <2>2 DEF case_idle
<1>2. CASE case_recv(c)
  <2>1. CASE c = Newline /\ EndMessage
    BY <1>2, <2>1, EndMessageStep DEF case_recv
  <2>2. CASE c # Newline /\ put_buffer(c) /\ UNCHANGED user_state /\ Quiet
    BY <1>2, <2>2, PutFacts DEF case_recv, Quiet
  <2>3. CASE reset_buffer /\ user_state' = "IDLE" /\ Quiet
    BY <1>2, <2>3, ResetFacts DEF case_recv, Quiet
  <2> QED
    BY <1>2, <2>1, <2>2, <2>3 DEF case_recv
<1>3. CASE case_store(c)
  <2>1. CASE c = Dollar /\ put_buffer(c)
    BY <1>3, <2>1, PutFacts, PortAssumption DEF case_store, Quiet
  <2>2. CASE c # Dollar
    BY <1>3, <2>2 DEF case_store, Quiet, BuffersInv, Other
  <2> QED
    BY <1>3, <2>1, <2>2 DEF case_store
<1>4. CASE case_recv_store(c)
  <2>1. CASE ResumeReceive(c)
    <3>1. CASE put_buffer(c)
      BY <1>4, <2>1, <3>1, PutFacts DEF case_recv_store, ResumeReceive, Quiet
    <3>2. CASE UNCHANGED <<text, buff_size>>
      BY <1>4, <2>1, <3>2 DEF case_recv_store, ResumeReceive, Quiet, BuffersInv, Other
    <3> QED
      BY <2>1, <3>1, <3>2 DEF ResumeReceive
  <2>2. CASE ~storing /\ c = Newline /\ EndMessage
    BY <1>4, <2>2, EndMessageStep DEF case_recv_store
  <2>3. CASE ReceiveBehindStore(c)
    <3>1. CASE c # Newline /\ put_buffer(c) /\ UNCHANGED user_state
      BY <1>4, <2>3, <3>1, PutFacts DEF case_recv_store, ReceiveBehindStore, Quiet
    <3>2. CASE reset_buffer /\ user_state' = "STORE"
      BY <1>4, <2>3, <3>2, ResetFacts DEF case_recv_store, ReceiveBehindStore, Quiet
    <3> QED
      BY <2>3, <3>1, <3>2 DEF ReceiveBehindStore
  <2> QED
    BY <1>4, <2>1, <2>2, <2>3 DEF case_recv_store
<1> QED
  BY <1>1, <1>2, <1>3, <1>4 DEF send_recv_store_fsm

(* The store task finds its message and clears the flag.                   *)
LEMMA StoreStep ==
  ASSUME FsmInv, store_send_message
  PROVE  FsmInv' /\ storing /\ storing' = FALSE /\ push_send_buffer
<1>1. storing /\ storeQueue = 1 /\ user_state \in {"STORE", "RECEIVE_STORE"}
  BY DEF FsmInv, StoreHandshake, store_send_message
<1>2. storing' = FALSE /\ push_send_buffer /\ storeQueue' = 0
  BY <1>1 DEF store_send_message
<1>3. UNCHANGED <<user_state, current, text, buff_size>>
  BY DEF store_send_message
<1> QED
  BY <1>1, <1>2, <1>3
     DEF FsmInv, StoreHandshake, FramedBuffer, WaitingMessageIsChecked,
         BuffersInv, Other

-----------------------------------------------------------------------------
(* The ring inside the receiver.                                           *)

RingInv == RingTypeOK /\ RingConsistent

LEMMA RingSteps ==
  /\ RingInit => RingInv
  /\ RingInv /\ [RingNext]_ringVars => RingInv'
  BY RingStarts, RingTypeStep, RingConsistentStep DEF RingInv

(* push_send_buffer is a step of the ring, or leaves it alone.             *)
LEMMA PushStep ==
  ASSUME FsmInv, push_send_buffer
  PROVE  [RingNext]_ringVars
<1>1. text[Other] \in Texts
  BY DEF FsmInv, BuffersInv, Buffers, Other
<1>2. Fields(text[Other]) => Sample(text[Other]) \in Samples
  BY <1>1, PortAssumption
<1> QED
  BY <1>2 DEF push_send_buffer, RingNext

-----------------------------------------------------------------------------
PortInv == LineInv /\ TaskInv /\ FsmInv /\ RingInv

(* The numeric part of the assumption on the constants.                    *)
LEMMA PortNumbers ==
  /\ FifoDepth \in Nat
  /\ MaxBurst \in Nat
  /\ RecvQueueLen \in Nat \ {0}
  /\ StoreQueueLen \in Nat \ {0}
  BY PortAssumption

LEMMA PortInit == Init => PortInv
<1> SUFFICES ASSUME Init PROVE PortInv
  OBVIOUS
<1>1. LineInv
  <2>1. <<>> \in Seq(Chars) /\ Len(<<>>) = 0
    BY EmptySeq
  <2> QED
    <3>1. 0 <= FifoDepth /\ 0 \in 0 .. MaxBurst
      BY PortNumbers
    <3> QED
      BY <2>1, <3>1 DEF Init, LineInv
<1>2. TaskInv
  BY DEF Init, TaskInv, OneWakeup, Draining, Places
<1>3. BuffersInv
  <2>1. Len(<<>>) = 0
    OBVIOUS
  <2> QED
    BY <2>1, TextsFacts DEF Init, BuffersInv, Buffers
<1>4. FsmInv
  BY <1>3 DEF Init, FsmInv, States, StoreHandshake, FramedBuffer,
              WaitingMessageIsChecked, Buffers
<1>5. RingInv
  BY RingSteps DEF Init
<1> QED
  BY <1>1, <1>2, <1>4, <1>5 DEF PortInv

(* What is not touched keeps its part of the invariant.                    *)
LEMMA Frames ==
  /\ LineInv /\ UNCHANGED lineVars => LineInv'
  /\ TaskInv /\ UNCHANGED taskVars => TaskInv'
  /\ FsmInv /\ UNCHANGED fsmVars => FsmInv'
  /\ RingInv /\ UNCHANGED ringVars => RingInv'
<1>1. LineInv /\ UNCHANGED lineVars => LineInv'
  BY DEF LineInv, lineVars
<1>2. TaskInv /\ UNCHANGED taskVars => TaskInv'
  BY DEF TaskInv, taskVars, OneWakeup, Draining
<1>3. FsmInv /\ UNCHANGED fsmVars => FsmInv'
  BY DEF FsmInv, fsmVars, BuffersInv, StoreHandshake, FramedBuffer,
         WaitingMessageIsChecked, Other
<1>4. RingInv /\ UNCHANGED ringVars => RingInv'
  BY RingSteps
<1> QED
  BY <1>1, <1>2, <1>3, <1>4

(* Every step of the line, the interrupt handler and the tasks keeps the   *)
(* invariant.                                                              *)
LEMMA PortStep == PortInv /\ [Next]_vars => PortInv'
<1> SUFFICES ASSUME PortInv, [Next]_vars PROVE PortInv'
  OBVIOUS
<1> USE DEF PortInv
<1>1. ASSUME NEW c \in Chars, Arrive(c) PROVE PortInv'
  <2>1. LineInv'
    <3>1. /\ fifo' \in Seq(Chars) /\ Len(fifo') = Len(fifo) + 1
          /\ Len(fifo) \in Nat
      BY <1>1, AppendProperties DEF Arrive, LineInv
    <3>2. burst' \in 0 .. MaxBurst
      <4>1. CASE Draining
        BY <1>1, <4>1, PortAssumption DEF Arrive, LineInv
      <4>2. CASE ~Draining
        BY <1>1, <4>2 DEF Arrive, LineInv
      <4> QED
        BY <4>1, <4>2
    <3>3. fullInt' \in BOOLEAN /\ toutInt' \in BOOLEAN /\ timedOut' \in BOOLEAN
      BY <1>1, Zenon DEF Arrive, LineInv
    <3>4. Len(fifo') <= FifoDepth
      BY <1>1, <3>1, PortAssumption DEF Arrive
    <3> QED
      BY <3>1, <3>2, <3>3, <3>4 DEF LineInv
  <2> QED
    BY <1>1, <2>1, Frames DEF Arrive
<1>2. CASE RaiseFull
  BY <1>2, Frames DEF RaiseFull, LineInv
<1>3. CASE RaiseTout
  BY <1>3, Frames DEF RaiseTout, LineInv
<1>4. CASE uart0_rx_intr_handler
  <2>1. uartIntr /\ recvQueue = 0 /\ ~Draining
    BY <1>4 DEF uart0_rx_intr_handler, TaskInv, OneWakeup
  <2>2. ~uartIntr' /\ recvQueue' = 1 /\ ~Draining'
    BY <1>4, <2>1, PortNumbers DEF uart0_rx_intr_handler, Post, Draining
  <2>3. uartIntr' \in BOOLEAN /\ recv' \in Places
    BY <1>4 DEF uart0_rx_intr_handler, TaskInv
  <2>4. TaskInv'
    BY <2>2, <2>3 DEF TaskInv, OneWakeup
  <2> QED
    BY <1>4, <2>4, Frames DEF uart0_rx_intr_handler
<1>5. CASE StartRecv
  <2>1. TaskInv'
    BY <1>5 DEF StartRecv, TaskInv, OneWakeup, Draining, Places
  <2> QED
    BY <1>5, <2>1, Frames DEF StartRecv
<1>6. CASE RecvChar
  <2>1. /\ Head(fifo) \in Chars
        /\ Tail(fifo) \in Seq(Chars)
        /\ Len(Tail(fifo)) = Len(fifo) - 1
        /\ Len(fifo) \in Nat
    BY <1>6, HeadTailProperties DEF RecvChar, LineInv
  <2>2. LineInv'
    BY <1>6, <2>1, PortAssumption DEF RecvChar, LineInv
  <2>3. FsmInv'
    BY <1>6, <2>1, FsmStep DEF RecvChar
  <2> QED
    BY <1>6, <2>2, <2>3, Frames DEF RecvChar
<1>7. CASE RecvDone
  <2>1. LineInv'
    BY <1>7, PortNumbers DEF RecvDone, LineInv
  <2>2. TaskInv'
    BY <1>7 DEF RecvDone, TaskInv, OneWakeup, Draining, Places
  <2> QED
    BY <1>7, <2>1, <2>2, Frames DEF RecvDone
<1>11. CASE LoopEnds
  <2>1. TaskInv'
    BY <1>11 DEF LoopEnds, TaskInv, OneWakeup, Draining, Places
  <2> QED
    BY <1>11, <2>1, Frames DEF LoopEnds
<1>12. CASE ClearFlag
  <2>1. LineInv'
    <3>1. fullInt' \in BOOLEAN /\ toutInt' \in BOOLEAN
      BY <1>12 DEF ClearFlag
    <3> QED
      BY <1>12, <3>1 DEF ClearFlag, LineInv
  <2>2. TaskInv'
    BY <1>12 DEF ClearFlag, TaskInv, OneWakeup, Draining, Places
  <2> QED
    BY <1>12, <2>1, <2>2, Frames DEF ClearFlag
<1>8. CASE store_send_message
  <2>1. FsmInv' /\ push_send_buffer
    BY <1>8, StoreStep
  <2>2. RingInv'
    BY <2>1, PushStep, RingSteps
  <2> QED
    BY <1>8, <2>1, <2>2, Frames DEF store_send_message
<1>9. CASE UplinkPop
  <2>1. RingInv'
    BY <1>9, RingSteps DEF UplinkPop, RingNext
  <2> QED
    BY <1>9, <2>1, Frames DEF UplinkPop
<1>10. CASE UNCHANGED vars
  BY <1>10, Frames DEF vars
<1> QED
  BY <1>1, <1>2, <1>3, <1>4, <1>5, <1>6, <1>7, <1>8, <1>9, <1>10, <1>11, <1>12
     DEF Next, Line, Tasks, RecvMessage

LEMMA PortInvariant == Spec => []PortInv
  BY PortInit, PortStep, PTL DEF Spec

(* The types of every variable, the bounds of the queues, of the buffers   *)
(* and of the ring's indices included.                                     *)
THEOREM PortTypeCorrect == Spec => []TypeOK
<1>1. PortInv => TypeOK
  <2> SUFFICES ASSUME PortInv PROVE TypeOK
    OBVIOUS
  <2>1. recvQueue \in 0 .. RecvQueueLen /\ storeQueue \in 0 .. StoreQueueLen
    BY PortAssumption DEF PortInv, TaskInv, OneWakeup, FsmInv, StoreHandshake
  <2>2. buff_size \in [Buffers -> 0 .. BufSize]
    <3>1. ASSUME NEW b \in Buffers PROVE buff_size[b] \in 0 .. BufSize
      <4>1. text[b] \in Texts /\ buff_size[b] \in Nat /\ buff_size[b] <= Len(text[b])
        BY DEF PortInv, FsmInv, BuffersInv
      <4>2. Len(text[b]) \in Nat /\ Len(text[b]) <= BufSize
        BY <4>1, TextsFacts
      <4> QED
        BY <4>1, <4>2, PortAssumption
    <3> QED
      BY <3>1 DEF PortInv, FsmInv, BuffersInv
  <2> QED
    BY <2>1, <2>2
       DEF PortInv, LineInv, TaskInv, FsmInv, BuffersInv, RingInv, TypeOK
<1> QED
  BY <1>1, PortInvariant, PTL

(* The wake-up of the receive task is never lost and never doubled,        *)
(* whatever arrives between an interrupt and the end of recv_message.      *)
THEOREM WakeupNeverLost == Spec => []OneWakeup
  BY PortInvariant, PTL DEF PortInv, TaskInv

(* The flag storing is set exactly while the store task's event is queued, *)
(* and the store task always finds a state in which it does its work.      *)
THEOREM StoreHandshakeHolds == Spec => []StoreHandshake
  BY PortInvariant, PTL DEF PortInv, FsmInv

(* The buffer being filled never holds a remainder of an earlier message.  *)
THEOREM BuffersAreFramed == Spec => []FramedBuffer
  BY PortInvariant, PTL DEF PortInv, FsmInv

(* What waits for the store task is a framed message that passed the check.*)
THEOREM WaitingMessagesAreChecked == Spec => []WaitingMessageIsChecked
  BY PortInvariant, PTL DEF PortInv, FsmInv

-----------------------------------------------------------------------------
(* What the code leaves to luck: results nobody looks at, and a full buffer.*)

(* The newline of a checked message is the one character that changes the  *)
(* buffer, and it finds the queue of the store task empty.                 *)
LEMMA SwapPosts ==
  ASSUME FsmInv, NEW c \in Chars, send_recv_store_fsm(c), current' # current
  PROVE  storeQueue' = storeQueue + 1
<1>1. ~Quiet
  BY DEF Quiet
<1>2. EndMessage /\ ~storing
  BY <1>1 DEF send_recv_store_fsm, case_idle, case_recv, case_store, case_recv_store,
     ResumeReceive, ReceiveBehindStore, FsmInv, StoreHandshake
<1>3. storeQueue = 0
  BY <1>2 DEF FsmInv, StoreHandshake
<1>4. storeQueue' = Post(storeQueue, StoreQueueLen)
  BY <1>1, <1>2 DEF EndMessage
<1> QED
  BY <1>3, <1>4, PortNumbers DEF Post

(* No call of system_os_post is ever refused, by the receive task's queue  *)
(* or by the store task's: uart0_rx_intr_handler (uart.c) and the end of a *)
(* message (send_recv_port.c) do not look at its result.                   *)
THEOREM NoPostIsRefused ==
  Spec => [][ /\ uart0_rx_intr_handler => recvQueue' = recvQueue + 1
              /\ current' # current => storeQueue' = storeQueue + 1 ]_vars
<1>1. ASSUME PortInv, Next
      PROVE  /\ uart0_rx_intr_handler => recvQueue' = recvQueue + 1
             /\ current' # current => storeQueue' = storeQueue + 1
  <2>1. ASSUME uart0_rx_intr_handler PROVE recvQueue' = recvQueue + 1
    <3>1. recvQueue = 0
      BY <1>1, <2>1 DEF PortInv, TaskInv, OneWakeup, uart0_rx_intr_handler
    <3> QED
      BY <2>1, <3>1, PortNumbers DEF uart0_rx_intr_handler, Post
  <2>2. ASSUME RecvChar, current' # current PROVE storeQueue' = storeQueue + 1
    <3>1. Head(fifo) \in Chars
      BY <1>1, <2>2, HeadTailProperties DEF RecvChar, PortInv, LineInv
    <3> QED
      BY <1>1, <2>2, <3>1, SwapPosts DEF RecvChar, PortInv
  <2>3. RecvChar \/ current' = current
    BY <1>1 DEF Next, Line, Tasks, Arrive, RaiseFull, RaiseTout, uart0_rx_intr_handler,
       RecvMessage,
       StartRecv, LoopEnds, ClearFlag, RecvDone, store_send_message, UplinkPop, fsmVars
  <2> QED
    BY <2>1, <2>2, <2>3
<1> QED
  BY <1>1, PortInvariant, PTL DEF Spec

(* A message that does not fit ends with the next character, except behind *)
(* a store that has just finished: there case_recv_store                   *)
(* (send_recv_port.c:199) does not look at the result of put_buffer.       *)
THEOREM OverflowEndsMostMessages ==
  Spec => [][ BufferFull /\ RecvChar /\ (storing \/ user_state # "RECEIVE_STORE") =>
                text'[current] = <<>> \/ current' # current ]_vars
<1>1. ASSUME PortInv, BufferFull, RecvChar, storing \/ user_state # "RECEIVE_STORE"
      PROVE  text'[current] = <<>> \/ current' # current
  <2> DEFINE c == Head(fifo)
  <2>1. FsmInv /\ BuffersInv /\ send_recv_store_fsm(c) /\ c \in Chars
    BY <1>1, HeadTailProperties DEF PortInv, FsmInv, LineInv, RecvChar
  <2> HIDE DEF c
  <2>2. text[current] # <<>>
    <3>1. Len(<<>>) = 0
      OBVIOUS
    <3> QED
      BY <1>1, <3>1, PortAssumption DEF BufferFull
  <2>3. user_state \in {"RECEIVE", "RECEIVE_STORE"}
    BY <2>1, <2>2 DEF FsmInv, FramedBuffer, States
  <2>4. ASSUME reset_buffer PROVE text'[current] = <<>>
    BY <2>1, <2>4 DEF BuffersInv, reset_buffer
  <2>5. ASSUME swap_reset_buffer PROVE current' # current
    BY <2>1, <2>5 DEF BuffersInv, Buffers, swap_reset_buffer, Other
  <2>6. EndMessage => reset_buffer \/ swap_reset_buffer
    BY DEF EndMessage
  <2>7. ~put_buffer(c)
    BY <1>1 DEF put_buffer
  <2>8. CASE case_recv(c)
    BY <2>4, <2>5, <2>6, <2>7, <2>8 DEF case_recv
  <2>9. CASE case_recv_store(c)
    <3>1. ReceiveBehindStore(c)
      BY <1>1, <2>9 DEF case_recv_store, ResumeReceive
    <3> QED
      BY <2>4, <2>7, <3>1 DEF ReceiveBehindStore
  <2> QED
    BY <2>1, <2>3, <2>8, <2>9 DEF send_recv_store_fsm, case_idle, case_store
<1> QED
  BY <1>1, PortInvariant, PTL DEF Spec

(* The size field of a buffer, but for the NUL behind a full one.          *)
SizeFollows ==
  \A b \in Buffers :
    IF Len(text[b]) = BufSize THEN buff_size[b] = 0 ELSE buff_size[b] = Len(text[b])

LEMMA SizeStep ==
  ASSUME FsmInv, SizeFollows, NEW c \in Chars, send_recv_store_fsm(c)
  PROVE  SizeFollows'
<1>1. /\ BuffersInv /\ current \in Buffers /\ Other \in Buffers /\ Other # current
      /\ BufSize \in Nat \ {0} /\ Len(<<>>) = 0
  BY PortAssumption DEF FsmInv, BuffersInv, Buffers, Other
<1>2. ASSUME put_buffer(c) PROVE SizeFollows'
  <2>1. /\ Len(text[current]) \in Nat /\ Len(text[current]) <= BufSize - 1
        /\ text[current] \in Texts
    BY <1>1, <1>2, TextsFacts DEF BuffersInv, put_buffer, BufferFull
  <2>2. Len(text'[current]) = Len(text[current]) + 1
    BY <1>1, <1>2, <2>1, AppendText DEF BuffersInv, put_buffer
  <2>3. buff_size[current] = Len(text[current])
    BY <1>1, <2>1 DEF SizeFollows
  <2>4. buff_size'[current] =
          IF Len(text[current]) = BufSize - 1 THEN 0 ELSE Len(text[current]) + 1
    BY <1>1, <1>2, <2>3 DEF put_buffer, BuffersInv
  <2>5. ASSUME NEW b \in Buffers, b # current
        PROVE  text'[b] = text[b] /\ buff_size'[b] = buff_size[b]
    BY <1>1, <1>2, <2>5 DEF put_buffer, BuffersInv
  <2>6. Len(text'[current]) = BufSize <=> Len(text[current]) = BufSize - 1
    BY <1>1, <2>1, <2>2
  <2>7. IF Len(text'[current]) = BufSize
          THEN buff_size'[current] = 0 ELSE buff_size'[current] = Len(text'[current])
    BY <2>2, <2>4, <2>6
  <2> QED
    BY <2>5, <2>7 DEF SizeFollows
<1>3. ASSUME reset_buffer PROVE SizeFollows'
  BY <1>1, <1>3 DEF SizeFollows, reset_buffer, BuffersInv
<1>4. ASSUME swap_reset_buffer PROVE SizeFollows'
  BY <1>1, <1>4 DEF SizeFollows, swap_reset_buffer, BuffersInv
<1>5. ASSUME UNCHANGED <<text, buff_size>> PROVE SizeFollows'
  BY <1>5 DEF SizeFollows
<1> QED
  BY <1>2, <1>3, <1>4, <1>5 DEF send_recv_store_fsm, case_idle, case_recv, case_store,
     case_recv_store, ResumeReceive, ReceiveBehindStore, EndMessage

(* The size field is wrong of a full buffer only, and then it is zero      *)
(* (put_buffer, buffers.c:105); it is right again with the next message.   *)
THEOREM OnlyFullBuffersLoseTheirSize == Spec => []SizeFollows
<1>1. Init => SizeFollows
  <2>1. Len(<<>>) = 0
    OBVIOUS
  <2> QED
    BY <2>1, PortAssumption DEF Init, SizeFollows
<1>2. PortInv /\ SizeFollows /\ [Next]_vars => SizeFollows'
  <2> SUFFICES ASSUME PortInv, SizeFollows, [Next]_vars PROVE SizeFollows'
    OBVIOUS
  <2>1. CASE RecvChar
    <3>1. Head(fifo) \in Chars
      BY <2>1, HeadTailProperties DEF RecvChar, PortInv, LineInv
    <3> QED
      BY <2>1, <3>1, SizeStep DEF RecvChar, PortInv
  <2>2. RecvChar \/ UNCHANGED <<text, buff_size>>
    BY DEF Next, Line, Tasks, Arrive, RaiseFull, RaiseTout, uart0_rx_intr_handler,
       RecvMessage,
       StartRecv, LoopEnds, ClearFlag, RecvDone, store_send_message, UplinkPop, fsmVars, vars
  <2> QED
    BY <2>1, <2>2 DEF SizeFollows
<1> QED
  BY <1>1, <1>2, PortInvariant, PTL DEF Spec

-----------------------------------------------------------------------------
(* Refinement: the receiver implements the message store.                  *)

(* A character either leaves the waiting message alone or is the newline   *)
(* that turns the checked text of the current buffer into the waiting one. *)
Accepted ==
  /\ Waiting = NoMessage
  /\ Waiting' = text[current]
  /\ Check(text[current])

LEMMA EndMessageMaps ==
  ASSUME FsmInv, ~storing, EndMessage
  PROVE  Accepted \/ Waiting' = Waiting
<1>1. CASE checksum_buffer /\ storing' = TRUE /\ swap_reset_buffer
  BY <1>1, SwapFacts DEF Accepted, Waiting, FsmInv, checksum_buffer
<1>2. CASE Quiet
  BY <1>2 DEF Waiting, Quiet
<1> QED
  BY <1>1, <1>2 DEF EndMessage

LEMMA FsmMaps ==
  ASSUME FsmInv, NEW c \in Chars, send_recv_store_fsm(c)
  PROVE  Accepted \/ Waiting' = Waiting
<1>1. CASE case_recv(c) /\ EndMessage
  BY <1>1, EndMessageMaps DEF case_recv, FsmInv, StoreHandshake
<1>2. CASE ~storing /\ EndMessage
  BY <1>2, EndMessageMaps
<1>3. CASE Quiet /\ put_buffer(c)
  BY <1>3, PutFacts DEF FsmInv, Quiet, Waiting
<1>4. CASE Quiet /\ reset_buffer
  BY <1>4, ResetFacts DEF FsmInv, Quiet, Waiting
<1>5. CASE Quiet /\ UNCHANGED text
  BY <1>5 DEF Quiet, Waiting, Other
<1> QED
  BY <1>1, <1>2, <1>3, <1>4, <1>5
     DEF send_recv_store_fsm, case_idle, case_recv, case_store,
         case_recv_store, ResumeReceive, ReceiveBehindStore

(* The queue of the message store is the queue the ring refines.           *)
LEMMA SameFifo ==
  /\ \A s : Store!Fifo!Put(s) <=> Fifo!Put(s)
  /\ \A s : Store!Fifo!Displace(s) <=> Fifo!Displace(s)
  /\ Store!Fifo!Get <=> Fifo!Get
  BY DEF Store!Fifo!Put, Fifo!Put, Store!Fifo!Displace, Fifo!Displace,
         Store!Fifo!Get, Fifo!Get, Store!Fifo!Room, Fifo!Room

(* A push and a pop of the ring are a put and a get of the queue.          *)
LEMMA PushMaps ==
  ASSUME RingInv, RingInv', NEW s \in Samples, push_sample(s)
  PROVE  Store!Fifo!Put(s) \/ Store!Fifo!Displace(s)
  BY PushFreeIsPut, PushFullIsDisplace, SameFifo DEF RingInv, push_sample

LEMMA PopMaps ==
  ASSUME RingInv, RingInv', pop_pop_buffer
  PROVE  Store!Fifo!Get
  BY PopIsGet, SameFifo DEF RingInv

LEMMA RingUnchanged == UNCHANGED ringVars => UNCHANGED Live
  BY DEF ringVars, Live, SlotAfter, buffer_end

(* The initial state holds no waiting message and no sample.               *)
LEMMA PortInitMaps == Init => Store!Init
<1> SUFFICES ASSUME Init PROVE Store!Init
  OBVIOUS
<1>1. Waiting = NoMessage
  BY DEF Init, Waiting
<1>2. Live = <<>>
  BY DEF Init, RingInit, Live
<1> QED
  BY <1>1, <1>2 DEF Store!Init, Store!Fifo!Init

(* The store task's step is the storing, or the dropping, of the message.  *)
LEMMA StoreMaps ==
  ASSUME PortInv, PortInv', store_send_message
  PROVE  Store!Next
<1>1. storing /\ storing' = FALSE /\ push_send_buffer
  BY StoreStep DEF PortInv
<1>2. text[Other] \in Texts
  BY DEF PortInv, FsmInv, BuffersInv, Buffers, Other
<1>3. /\ Waiting = text[Other]
      /\ Waiting # NoMessage
      /\ Waiting' = NoMessage
  BY <1>1, <1>2, PortAssumption DEF Waiting
<1>4. CASE Fields(text[Other]) /\ push_sample(Sample(text[Other]))
  <2>1. Sample(text[Other]) \in Samples
    BY <1>2, <1>4, PortAssumption
  <2>2. \/ Store!Fifo!Put(Sample(text[Other]))
        \/ Store!Fifo!Displace(Sample(text[Other]))
    BY <1>4, <2>1, PushMaps DEF PortInv
  <2> QED
    BY <1>3, <1>4, <2>2 DEF Store!Next, Store!Store
<1>5. CASE ~Fields(text[Other]) /\ UNCHANGED ringVars
  BY <1>3, <1>5, RingUnchanged DEF Store!Next, Store!Discard
<1> QED
  BY <1>1, <1>4, <1>5 DEF push_send_buffer

(* A character's step is the acceptance of a message, or a stutter.        *)
LEMMA CharMaps ==
  ASSUME PortInv, RecvChar
  PROVE  [Store!Next]_(Store!storeVars)
<1>1. Head(fifo) \in Chars
  BY HeadTailProperties DEF PortInv, LineInv, RecvChar
<1>2. Accepted \/ Waiting' = Waiting
  BY <1>1, FsmMaps DEF PortInv, RecvChar
<1>3. UNCHANGED Live
  BY RingUnchanged DEF RecvChar
<1>4. text[current] \in Seq(Chars)
  BY TextsFacts DEF PortInv, FsmInv, BuffersInv
<1>5. Accepted => Store!Accept
  BY <1>3, <1>4 DEF Accepted, Store!Accept
<1> QED
  BY <1>2, <1>3, <1>5 DEF Store!Next, Store!storeVars

(* The receiver implements the message store: a message that passed the    *)
(* check reaches the ring intact, exactly once and in order, whatever the  *)
(* line does while it waits.                                               *)
THEOREM PortImplementsStore == Spec => RefinesMessageStore
<1>1. PortInv /\ PortInv' /\ [Next]_vars => [Store!Next]_(Store!storeVars)
  <2> SUFFICES ASSUME PortInv, PortInv', [Next]_vars
               PROVE  [Store!Next]_(Store!storeVars)
    OBVIOUS
  <2>1. CASE RecvChar
    BY <2>1, CharMaps
  <2>2. CASE store_send_message
    BY <2>2, StoreMaps
  <2>3. CASE UplinkPop
    <3>1. Store!Fifo!Get
      BY <2>3, PopMaps DEF UplinkPop, PortInv
    <3>2. UNCHANGED Waiting
      BY <2>3 DEF UplinkPop, fsmVars, Waiting, Other
    <3> QED
      BY <3>1, <3>2 DEF Store!Next, Store!Take
  <2>4. CASE UNCHANGED fsmVars /\ UNCHANGED ringVars
    BY <2>4, RingUnchanged DEF fsmVars, Waiting, Other, Store!storeVars
  <2> QED
    BY <2>1, <2>2, <2>3, <2>4
       DEF Next, Line, Tasks, Arrive, RaiseFull, RaiseTout,
           uart0_rx_intr_handler, RecvMessage, StartRecv, LoopEnds,
           ClearFlag, RecvDone, vars
<1> QED
  BY <1>1, PortInitMaps, PortInvariant, PTL
     DEF Spec, RefinesMessageStore, Store!Spec
=============================================================================
