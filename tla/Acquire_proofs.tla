--------------------------- MODULE Acquire_proofs ---------------------------
(***************************************************************************)
(* Theorems about the acquire program, for frames, buffers and FIFOs of    *)
(* every length: types, that no read runs past the end of its buffer, and  *)
(* that blocks are whole and in order while both threads keep up.          *)
(***************************************************************************)
EXTENDS Acquire, TLAPS

(* What is on its way into the counter fits as well.                       *)
AddFits == rpc = "add" => runningTotal[current_buffer] + dwBytesRead <= BUF_SIZE

(* The bytes under way: those in the FIFO and the one that is sent next.   *)
Item(i) == IF i <= Len(fifo) THEN fifo[i] ELSE next

(* They follow one another, within a frame and from frame to frame.        *)
InSequence ==
  /\ \A i \in 1 .. Len(fifo) + 1 : Item(i) \in Bytes
  /\ \A i \in 1 .. Len(fifo) :
       Item(i).place = FrameLen => Item(i + 1) = [frame |-> Succ(Item(i).frame), place |-> 1]
  /\ \A i, j \in 1 .. Len(fifo) + 1 :
       i <= j /\ (\A k \in i .. j - 1 : Item(k).place # FrameLen) =>
         Item(j) = [frame |-> Item(i).frame, place |-> Item(i).place + (j - i)]

(* Bytes of its frame in the current buffer, counted already or not.       *)
Filled == IF rpc = "add" THEN runningTotal[current_buffer] + dwBytesRead
          ELSE IF rpc = "store" THEN sum ELSE runningTotal[current_buffer]

Full(b) == runningTotal[b] = FrameLen

(* The frame that is to be written next, and the one in the current        *)
(* buffer: the one after it, if it is complete in the other buffer.        *)
Due == IF block[1] = Blank THEN 0 ELSE Succ(block[1].frame)
Waiting == Full(Other(current_buffer)) /\ wpc # "reset"
Current == IF Waiting THEN Succ(Due) ELSE Due

CurrentBuffer ==
  /\ Filled <= FrameLen
  /\ rpc # "flip" => runningTotal[current_buffer] < FrameLen
  /\ \A k \in 1 .. Filled : tmpBuff[current_buffer][k] = [frame |-> Current, place |-> k]
  /\ Item(1) = IF Filled = FrameLen THEN [frame |-> Succ(Current), place |-> 1]
               ELSE [frame |-> Current, place |-> Filled + 1]

OtherBuffer ==
  /\ Full(Other(current_buffer)) \/ runningTotal[Other(current_buffer)] = 0
  /\ Waiting => \A k \in 1 .. FrameLen :
                  tmpBuff[Other(current_buffer)][k] = [frame |-> Due, place |-> k]
  /\ wpc \in {"current", "write", "reset"} => Full(wbuf)
  /\ wpc \in {"write", "reset"} => wbuf # current_buffer

BlockInv ==
  ~late => /\ WholeBlock
           /\ rpc # "dead" => InSequence /\ CurrentBuffer /\ OtherBuffer
           /\ rpc = "dead" => wpc = "dead"

ReadInv == TypeOK /\ ReadFits /\ AddFits

-----------------------------------------------------------------------------
(* Labels, buffers and sequences.                                          *)

LEMMA LabelFacts ==
  /\ 0 \in 0 .. Labels - 1
  /\ \A w \in 0 .. Labels - 1 : Succ(w) \in 0 .. Labels - 1
  BY AcquireAssumption DEF Succ

LEMMA BufferFacts ==
  /\ "BUFFER_A" \in Buffers
  /\ \A b \in Buffers : Other(b) \in Buffers /\ Other(b) # b
  BY DEF Buffers, Other

LEMMA BytesTyped ==
  /\ \A w \in 0 .. Labels - 1, k \in 1 .. FrameLen : [frame |-> w, place |-> k] \in Bytes
  /\ \A x \in Bytes : x.frame \in 0 .. Labels - 1 /\ x.place \in 1 .. FrameLen
  BY DEF Bytes

LEMMA EmptyTyped == Empty \in [Buffers -> [1 .. BUF_SIZE -> Bytes \cup {Blank}]]
  BY DEF Empty

(* Taking the first n of a sequence's elements away.                       *)
LEMMA RestOfSequence ==
  ASSUME NEW S, NEW s \in Seq(S), NEW n \in 0 .. Len(s)
  PROVE  /\ SubSeq(s, n + 1, Len(s)) \in Seq(S)
         /\ Len(SubSeq(s, n + 1, Len(s))) = Len(s) - n
         /\ \A i \in 1 .. Len(s) - n : SubSeq(s, n + 1, Len(s))[i] = s[n + i]
  OBVIOUS

LEMMA LongerSequence ==
  ASSUME NEW S, NEW s \in Seq(S), NEW x \in S
  PROVE  Append(s, x) \in Seq(S) /\ Len(Append(s, x)) = Len(s) + 1
  OBVIOUS

LEMMA InitReadInv == Init => ReadInv
<1> SUFFICES ASSUME Init PROVE ReadInv
  OBVIOUS
<1>1. TypeOK
  <2>1. next \in Bytes
    <3>1. 1 \in 1 .. FrameLen
      BY AcquireAssumption
    <3> QED
      BY <3>1, LabelFacts, BytesTyped DEF Init
  <2>2. fifo \in Seq(Bytes \cup {Blank}) /\ Len(fifo) <= FifoLen
    BY AcquireAssumption DEF Init
  <2>3. block \in [1 .. FrameLen -> Bytes \cup {Blank}]
    BY DEF Init
  <2>4. late \in BOOLEAN
    BY DEF Init
  <2>5. /\ runningTotal \in [Buffers -> 0 .. BUF_SIZE]
        /\ fifoRxQueueSize \in 0 .. FifoLen /\ size \in 0 .. BUF_SIZE
        /\ dwBytesRead \in 0 .. BUF_SIZE /\ sum \in 0 .. BUF_SIZE
    BY AcquireAssumption DEF Init
  <2> QED
    BY <2>1, <2>2, <2>3, <2>4, <2>5, EmptyTyped, BufferFacts DEF Init, TypeOK, Buffers
<1> QED
  BY <1>1, AcquireAssumption DEF Init, ReadInv, ReadFits, AddFits

LEMMA NextReadInv == ReadInv /\ [Next]_vars => ReadInv'
<1> SUFFICES ASSUME ReadInv, [Next]_vars PROVE ReadInv'
  OBVIOUS
<1> USE AcquireAssumption, BufferFacts DEF ReadInv, TypeOK, ReadFits, AddFits
<1>1. CASE MeterSends
  <2>1. next' \in Bytes
    <3>1. CASE next' = [next EXCEPT !.place = @ + 1] /\ next.place < FrameLen
      <4>1. next' = [frame |-> next.frame, place |-> next.place + 1]
        BY <3>1 DEF Bytes
      <4>2. next.place + 1 \in 1 .. FrameLen
        BY <3>1, BytesTyped
      <4> QED
        BY <4>1, <4>2, BytesTyped
    <3>2. CASE next' = [frame |-> Succ(next.frame), place |-> 1]
      <4>1. 1 \in 1 .. FrameLen
        OBVIOUS
      <4> QED
        BY <4>1, <3>2, LabelFacts, BytesTyped
    <3>3. CASE UNCHANGED next
      BY <3>3
    <3> QED
      BY <1>1, <3>1, <3>2, <3>3 DEF MeterSends
  <2>2. fifo' \in Seq(Bytes \cup {Blank}) /\ Len(fifo') <= FifoLen
    <3>1. next \in Bytes \cup {Blank}
      OBVIOUS
    <3>2. CASE UNCHANGED fifo
      BY <3>2
    <3>3. CASE /\ Len(fifo) < FifoLen
               /\ \/ fifo' = Append(fifo, Blank) \/ fifo' = Append(fifo, next)
      <4>1. Blank \in Bytes \cup {Blank}
        OBVIOUS
      <4>2. fifo' \in Seq(Bytes \cup {Blank}) /\ Len(fifo') = Len(fifo) + 1
        <5> DEFINE S == Bytes \cup {Blank}
        <5>1. fifo \in Seq(S) /\ next \in S /\ Blank \in S
          BY <3>1, <4>1
        <5> HIDE DEF S
        <5>2. \A x \in S : Append(fifo, x) \in Seq(S)
                            /\ Len(Append(fifo, x)) = Len(fifo) + 1
          BY <5>1, LongerSequence
        <5>3. fifo' \in Seq(S) /\ Len(fifo') = Len(fifo) + 1
          <6>1. fifo' = Append(fifo, Blank) \/ fifo' = Append(fifo, next)
            BY <3>3
          <6> HIDE DEF ReadInv
          <6> QED
            BY <5>1, <5>2, <6>1
        <5> QED
          BY <5>3 DEF S
      <4>3. Len(fifo) \in Nat
        OBVIOUS
      <4> QED
        BY <3>3, <4>2, <4>3
    <3> QED
      BY <1>1, <3>2, <3>3 DEF MeterSends
  <2>3. tmpBuff' \in [Buffers -> [1 .. BUF_SIZE -> Bytes \cup {Blank}]]
    BY <1>1, EmptyTyped DEF MeterSends, Late
  <2>4. late' \in BOOLEAN
    BY <1>1 DEF MeterSends, Late
  <2> QED
    BY <1>1, <2>1, <2>2, <2>3, <2>4 DEF MeterSends, readerVars, writerVars
<1>2. CASE GetStatus
  BY <1>2 DEF GetStatus, writerVars
<1>3. CASE Room
  BY <1>3 DEF Room, writerVars
<1>4. CASE Rest
  BY <1>4 DEF Rest, writerVars
<1>5. CASE Read
  <2> DEFINE n  == IF size <= Len(fifo) THEN size ELSE Len(fifo)
             at == runningTotal[current_buffer]
  <2>1. n \in 0 .. Len(fifo) /\ n <= size /\ n \in 0 .. BUF_SIZE /\ at + n <= BUF_SIZE
    BY <1>5 DEF Read
  <2>2. fifo' \in Seq(Bytes \cup {Blank}) /\ Len(fifo') <= FifoLen
    <3>1. fifo' = SubSeq(fifo, n + 1, Len(fifo))
      BY <1>5 DEF Read
    <3> QED
      BY <2>1, <3>1, RestOfSequence
  <2>3. tmpBuff' \in [Buffers -> [1 .. BUF_SIZE -> Bytes \cup {Blank}]]
    <3> DEFINE filled == [i \in 1 .. BUF_SIZE |->
                            IF i \in at + 1 .. at + n THEN fifo[i - at]
                            ELSE tmpBuff[current_buffer][i]]
    <3>1. filled \in [1 .. BUF_SIZE -> Bytes \cup {Blank}]
      BY <2>1
    <3>2. \/ tmpBuff' = Empty
          \/ tmpBuff' = [tmpBuff EXCEPT ![current_buffer] = filled]
      BY <1>5 DEF Read, Late
    <3> HIDE DEF filled
    <3> QED
      BY <3>1, <3>2, EmptyTyped
  <2>5. late' \in BOOLEAN
    BY <1>5 DEF Read, Late
  <2>4. dwBytesRead' = n
    BY <1>5 DEF Read
  <2> QED
    BY <1>5, <2>1, <2>2, <2>3, <2>4, <2>5 DEF Read, writerVars
<1>6. CASE Add
  BY <1>6 DEF Add, writerVars
<1>7. CASE Store
  BY <1>7 DEF Store, writerVars
<1>8. CASE Flip
  <2>1. tmpBuff' \in [Buffers -> [1 .. BUF_SIZE -> Bytes \cup {Blank}]]
    BY <1>8, EmptyTyped DEF Flip, Late
  <2>2. late' \in BOOLEAN
    BY <1>8 DEF Flip, Late
  <2>3. current_buffer' \in Buffers
    BY <1>8 DEF Flip
  <2> QED
    BY <1>8, <2>1, <2>2, <2>3 DEF Flip, writerVars
<1>9. CASE TestTotal \/ TestCurrent
  BY <1>9 DEF TestTotal, TestCurrent, NextBuffer, readerVars
<1>10. CASE Write
  BY <1>10 DEF Write, readerVars
<1>11. CASE ResetTotal
  BY <1>11 DEF ResetTotal, readerVars
<1>12. CASE file_timer
  BY <1>12 DEF file_timer
<1>13. CASE UNCHANGED vars
  BY <1>13 DEF vars, readerVars, writerVars
<1> QED
  BY <1>1, <1>2, <1>3, <1>4, <1>5, <1>6, <1>7, <1>8, <1>9, <1>10, <1>11, <1>12,
     <1>13 DEF Next, read_fifo, acquire_loop

LEMMA ReadInvHolds == Spec => []ReadInv
  BY InitReadInv, NextReadInv, PTL DEF Spec

-----------------------------------------------------------------------------
(* The blocks.                                                             *)

LEMMA InitBlockInv == Init => BlockInv
<1> SUFFICES ASSUME Init PROVE BlockInv
  OBVIOUS
<1>1. /\ Len(fifo) = 0 /\ FrameLen >= 1 /\ 1 \in 1 .. FrameLen /\ FrameLen \in Nat
      /\ next = [frame |-> 0, place |-> 1]
  BY AcquireAssumption DEF Init
<1>2. next \in Bytes
  BY <1>1, LabelFacts, BytesTyped
<1>3. \A i : i \in 1 .. Len(fifo) + 1 <=> i = 1
  BY <1>1
<1>4. Item(1) = next
  BY <1>1 DEF Item
<1>5. InSequence
  BY <1>1, <1>2, <1>3, <1>4 DEF InSequence
<1>6. block[1] = Blank /\ Due = 0 /\ Filled = 0 /\ rpc = "status" /\ wpc = "total"
  BY <1>1 DEF Init, Due, Filled, Buffers
<1>7. runningTotal[Other(current_buffer)] = 0 /\ runningTotal[current_buffer] = 0
  BY BufferFacts DEF Init
<1>8. ~Waiting /\ Current = 0
  BY <1>1, <1>6, <1>7 DEF Waiting, Current, Full
<1>9. CurrentBuffer
  BY <1>1, <1>4, <1>6, <1>7, <1>8 DEF CurrentBuffer
<1>10. OtherBuffer
  BY <1>6, <1>7, <1>8 DEF OtherBuffer
<1>11. WholeBlock
  BY DEF Init, WholeBlock
<1> QED
  BY <1>5, <1>6, <1>9, <1>10, <1>11 DEF BlockInv

(* The meter sends the next byte, and the FIFO has room for it.            *)
LEMMA SendsInSequence ==
  ASSUME TypeOK, InSequence, MeterSends, ~late, ~late'
  PROVE  InSequence' /\ Item(1)' = Item(1)
<1> DEFINE len == Len(fifo)
<1>1. len \in Nat /\ fifo \in Seq(Bytes \cup {Blank}) /\ next \in Bytes
  BY DEF TypeOK
<1>2. fifo' = Append(fifo, next)
  BY DEF MeterSends, Late
<1>3. /\ next' = IF next.place < FrameLen
                 THEN [frame |-> next.frame, place |-> next.place + 1]
                 ELSE [frame |-> Succ(next.frame), place |-> 1]
  <2>1. next = [frame |-> next.frame, place |-> next.place]
    BY <1>1 DEF Bytes
  <2> QED
    BY <2>1 DEF MeterSends
<1>4. next' \in Bytes /\ next.place \in 1 .. FrameLen
  <2>1. next.frame \in 0 .. Labels - 1 /\ next.place \in 1 .. FrameLen
    BY <1>1, BytesTyped
  <2>2. next.place < FrameLen => next.place + 1 \in 1 .. FrameLen
    BY <2>1, AcquireAssumption
  <2>3. 1 \in 1 .. FrameLen
    BY AcquireAssumption
  <2> QED
    BY <1>3, <2>1, <2>2, <2>3, LabelFacts, BytesTyped
<1>5. /\ Len(fifo') = len + 1 /\ fifo'[len + 1] = next
      /\ \A i \in 1 .. len : fifo'[i] = fifo[i]
  BY <1>1, <1>2
<1>6. /\ \A i \in 1 .. len + 1 : Item(i)' = Item(i)
      /\ \A i : i = len + 2 => Item(i)' = next'
      /\ \A i : i = len + 1 => Item(i) = next
  BY <1>1, <1>5 DEF Item
<1> HIDE DEF len
<1>7. \A i \in 1 .. len + 2 : Item(i)' \in Bytes
  <2>1. \A i \in 1 .. len + 2 : i \in 1 .. len + 1 \/ i = len + 2
    BY <1>1
  <2>2. \A i \in 1 .. len + 1 : Item(i)' \in Bytes
    BY <1>6 DEF InSequence, len
  <2> QED
    BY <1>4, <1>6, <2>1, <2>2
<1>8. ASSUME NEW i \in 1 .. len + 1, Item(i)'.place = FrameLen
      PROVE  Item(i + 1)' = [frame |-> Succ(Item(i)'.frame), place |-> 1]
  <2>1. CASE i \in 1 .. len
    BY <1>1, <1>6, <1>8, <2>1 DEF InSequence, len
  <2>2. CASE i = len + 1
    <3>1. Item(i)' = next /\ i + 1 = len + 2
      BY <1>1, <1>6, <2>2
    <3>2. ~(next.place < FrameLen)
      BY <1>8, <3>1, AcquireAssumption
    <3>3. Item(i + 1)' = next'
      BY <1>6, <3>1
    <3> QED
      BY <1>3, <3>1, <3>2, <3>3
  <2> QED
    BY <1>1, <2>1, <2>2
<1>9. ASSUME NEW i \in 1 .. len + 2, NEW j \in 1 .. len + 2, i <= j,
             \A k \in i .. j - 1 : Item(k)'.place # FrameLen
      PROVE  Item(j)' = [frame |-> Item(i)'.frame, place |-> Item(i)'.place + (j - i)]
  <2>1. CASE j <= len + 1
    <3>1. i \in 1 .. len + 1 /\ j \in 1 .. len + 1
      BY <1>1, <1>9, <2>1
    <3>2. \A k \in i .. j - 1 : Item(k).place # FrameLen
      BY <1>1, <1>6, <1>9, <3>1
    <3> QED
      BY <1>1, <1>6, <1>9, <3>1, <3>2 DEF InSequence, len
  <2>2. CASE j = len + 2 /\ i <= len + 1
    <3>1. i \in 1 .. len + 1 /\ len + 1 \in 1 .. len + 1
      BY <1>1, <1>9, <2>2
    <3>2. \A k \in i .. len : Item(k).place # FrameLen
      BY <1>1, <1>6, <1>9, <2>2, <3>1
    <3>3. next = [frame |-> Item(i).frame, place |-> Item(i).place + (len + 1 - i)]
      <4>1. \A k \in i .. (len + 1) - 1 : Item(k).place # FrameLen
        BY <1>1, <3>1, <3>2
      <4>2. PICK m \in 1 .. len + 1 : m = len + 1
        BY <3>1
      <4>3. Item(m) = [frame |-> Item(i).frame, place |-> Item(i).place + (m - i)]
        BY <1>1, <3>1, <4>1, <4>2 DEF InSequence, len
      <4>4. Item(m) = next
        BY <1>6, <4>2
      <4>5. m - i = len + 1 - i
        BY <1>1, <3>1, <4>2
      <4> QED
        BY <4>3, <4>4, <4>5
    <3>4. next.place < FrameLen
      <4>1. len + 1 \in i .. j - 1
        BY <1>1, <2>2, <3>1
      <4>2. next.place # FrameLen
        BY <1>6, <1>9, <3>1, <4>1
      <4> QED
        BY <1>4, <4>2, AcquireAssumption
    <3>5. Item(i).place \in 1 .. FrameLen /\ Item(i)' = Item(i)
      BY <1>6, <3>1, BytesTyped DEF InSequence, len
    <3>6. next' = [frame |-> Item(i).frame, place |-> Item(i).place + (len + 1 - i) + 1]
      BY <1>3, <3>3, <3>4
    <3> QED
      <4>1. Item(i).place + (len + 1 - i) + 1 = Item(i).place + (j - i)
        BY <1>1, <2>2, <3>1, <3>5, AcquireAssumption
      <4>2. Item(j)' = next'
        BY <1>6, <2>2
      <4> QED
        BY <3>5, <3>6, <4>1, <4>2
  <2>3. CASE j = len + 2 /\ i = len + 2
    <3>1. next' = [frame |-> next'.frame, place |-> next'.place] /\ next'.place \in 1 .. FrameLen
      BY <1>4 DEF Bytes
    <3>2. next'.place + (j - i) = next'.place
      BY <1>1, <2>3, <3>1, AcquireAssumption
    <3>3. Item(j)' = next' /\ Item(i)' = next'
      BY <1>6, <2>3
    <3> QED
      BY <3>1, <3>2, <3>3
  <2> QED
    BY <1>1, <1>9, <2>1, <2>2, <2>3
<1>10. Item(1)' = Item(1)
  BY <1>1, <1>6
<1>11. Len(fifo)' = len + 1 /\ Len(fifo)' + 1 = len + 2
  BY <1>1, <1>5
<1> QED
  BY <1>7, <1>8, <1>9, <1>10, <1>11 DEF InSequence

(* A chunk that ends with its frame, or before.                            *)
LEMMA ChunkInSequence ==
  ASSUME ReadInv, InSequence, CurrentBuffer, rpc = "read", NEW n \in 0 .. Len(fifo),
         \A i \in 1 .. n - 1 : fifo[i].place # FrameLen
  PROVE  LET at == runningTotal[current_buffer]
         IN  /\ at + n <= FrameLen
             /\ \A i \in 1 .. n : fifo[i] = [frame |-> Current, place |-> at + i]
             /\ \A i : i = n + 1 =>
                  Item(i) = IF at + n = FrameLen
                            THEN [frame |-> Succ(Current), place |-> 1]
                            ELSE [frame |-> Current, place |-> at + n + 1]
<1> DEFINE at == runningTotal[current_buffer]
<1>1. /\ at \in Nat /\ at < FrameLen /\ FrameLen \in Nat /\ Len(fifo) \in Nat
      /\ \A i : i = 1 => Item(i) = [frame |-> Current, place |-> at + 1]
  BY AcquireAssumption, BufferFacts DEF ReadInv, TypeOK, CurrentBuffer, Filled
<1>2. \A i \in 1 .. n : Item(i) = fifo[i] /\ i \in 1 .. Len(fifo) + 1
  BY <1>1 DEF Item
<1> HIDE DEF at
<1>3. ASSUME NEW i \in 1 .. Len(fifo) + 1, \A k \in 1 .. i - 1 : Item(k).place # FrameLen
      PROVE  Item(i) = [frame |-> Current, place |-> at + i]
  <2>1. PICK one \in 1 .. Len(fifo) + 1 : one = 1
    BY <1>1
  <2>2. \A k \in one .. i - 1 : Item(k).place # FrameLen
    BY <1>3, <2>1
  <2>3. Item(i) = [frame |-> Item(one).frame, place |-> Item(one).place + (i - one)]
    BY <1>3, <2>1, <2>2 DEF InSequence
  <2>4. Item(one) = [frame |-> Current, place |-> at + 1]
    BY <1>1, <2>1
  <2>5. at + 1 + (i - one) = at + i
    BY <1>1, <2>1
  <2> QED
    BY <2>3, <2>4, <2>5
<1>4. ASSUME NEW i \in 1 .. n PROVE fifo[i] = [frame |-> Current, place |-> at + i]
  <2>1. \A k \in 1 .. i - 1 : k \in 1 .. n /\ k \in 1 .. n - 1
    OBVIOUS
  <2>2. \A k \in 1 .. i - 1 : Item(k).place # FrameLen
    BY <1>2, <2>1
  <2> QED
    BY <1>2, <1>3, <2>2
<1>5. at + n <= FrameLen
  <2>1. CASE n = 0
    BY <1>1, <2>1
  <2>2. CASE n # 0
    <3>1. n \in 1 .. n
      BY <2>2
    <3>2. Item(n) \in Bytes /\ Item(n) = [frame |-> Current, place |-> at + n]
      BY <1>2, <1>4, <3>1 DEF InSequence
    <3> QED
      BY <1>1, <3>2, BytesTyped
  <2> QED
    BY <2>1, <2>2
<1>6. ASSUME NEW i, i = n + 1, at + n = FrameLen
      PROVE  Item(i) = [frame |-> Succ(Current), place |-> 1]
  <2>1. n # 0 /\ n \in 1 .. n /\ n \in 1 .. Len(fifo)
    BY <1>1, <1>6
  <2>2. Item(n) = [frame |-> Current, place |-> at + n]
    BY <1>2, <1>4, <2>1
  <2>3. Item(n + 1) = [frame |-> Succ(Current), place |-> 1]
    BY <1>6, <2>1, <2>2 DEF InSequence
  <2> QED
    BY <1>6, <2>3
<1>7. ASSUME NEW i, i = n + 1, at + n # FrameLen
      PROVE  Item(i) = [frame |-> Current, place |-> at + n + 1]
  <2>1. i \in 1 .. Len(fifo) + 1 /\ at + i = at + n + 1
    BY <1>1, <1>7
  <2>2. \A k \in 1 .. i - 1 : Item(k).place # FrameLen
    <3> SUFFICES ASSUME NEW k \in 1 .. i - 1 PROVE Item(k).place # FrameLen
      OBVIOUS
    <3>1. k \in 1 .. n
      BY <1>7
    <3>2. Item(k).place = at + k
      <4>1. Item(k) = [frame |-> Current, place |-> at + k]
        BY <1>2, <1>4, <3>1
      <4> QED
        BY <4>1
    <3> QED
      BY <1>1, <1>5, <1>7, <3>1, <3>2
  <2> QED
    BY <1>3, <2>1, <2>2
<1> QED
  BY <1>4, <1>5, <1>6, <1>7 DEF at

(* What is left of the bytes under way is still in sequence.               *)
LEMMA RestInSequence ==
  ASSUME TypeOK, InSequence, NEW n \in 0 .. Len(fifo),
         fifo' = SubSeq(fifo, n + 1, Len(fifo)), UNCHANGED next
  PROVE  InSequence' /\ \A i : i = n + 1 => Item(1)' = Item(i)
<1>1. Len(fifo) \in Nat /\ fifo \in Seq(Bytes \cup {Blank})
  BY DEF TypeOK
<1>2. /\ Len(fifo') = Len(fifo) - n
      /\ \A i \in 1 .. Len(fifo) - n : fifo'[i] = fifo[n + i]
  BY <1>1, RestOfSequence
<1>3. \A i \in 1 .. Len(fifo) - n + 1 : \A m : m = n + i => Item(i)' = Item(m)
  BY <1>1, <1>2 DEF Item
<1>4. \A i \in 1 .. Len(fifo) - n + 1 : n + i \in 1 .. Len(fifo) + 1
  BY <1>1
<1>5. \A i \in 1 .. Len(fifo) - n + 1 : Item(i)' \in Bytes
  BY <1>3, <1>4 DEF InSequence
<1>6. ASSUME NEW i \in 1 .. Len(fifo) - n, Item(i)'.place = FrameLen
      PROVE  Item(i + 1)' = [frame |-> Succ(Item(i)'.frame), place |-> 1]
  <2>1. PICK m \in 1 .. Len(fifo) : m = n + i
    BY <1>1
  <2>2. PICK j \in 1 .. Len(fifo) - n + 1 : j = i + 1
    BY <1>1
  <2>3. m + 1 = n + j /\ i \in 1 .. Len(fifo) - n + 1
    BY <1>1, <2>1, <2>2
  <2>4. Item(i)' = Item(m) /\ Item(j)' = Item(m + 1)
    BY <1>3, <2>1, <2>3
  <2>5. Item(m + 1) = [frame |-> Succ(Item(m).frame), place |-> 1]
    BY <1>6, <2>4 DEF InSequence
  <2>6. \A k : k = i + 1 => Item(k)' = Item(m + 1)
    BY <1>3, <2>2, <2>3
  <2> QED
    BY <2>4, <2>5, <2>6
<1>7. ASSUME NEW i \in 1 .. Len(fifo) - n + 1, NEW j \in 1 .. Len(fifo) - n + 1, i <= j,
             \A k \in i .. j - 1 : Item(k)'.place # FrameLen
      PROVE  Item(j)' = [frame |-> Item(i)'.frame, place |-> Item(i)'.place + (j - i)]
  <2>1. PICK x \in 1 .. Len(fifo) + 1, y \in 1 .. Len(fifo) + 1 : x = n + i /\ y = n + j
    BY <1>1
  <2>2. Item(i)' = Item(x) /\ Item(j)' = Item(y) /\ x <= y /\ y - x = j - i
    BY <1>1, <1>3, <1>7, <2>1
  <2>3. \A k \in x .. y - 1 : Item(k).place # FrameLen
    <3> SUFFICES ASSUME NEW k \in x .. y - 1 PROVE Item(k).place # FrameLen
      OBVIOUS
    <3>1. PICK m \in i .. j - 1 : k = n + m
      BY <1>1, <2>1
    <3>2. m \in 1 .. Len(fifo) - n + 1
      BY <1>1, <3>1
    <3>3. Item(m)' = Item(k)
      BY <1>3, <3>1, <3>2
    <3> QED
      BY <1>7, <3>1, <3>3
  <2>4. Item(y) = [frame |-> Item(x).frame, place |-> Item(x).place + (y - x)]
    BY <2>2, <2>3 DEF InSequence
  <2> QED
    BY <2>2, <2>4
<1>8. \A i : i = n + 1 => Item(1)' = Item(i)
  BY <1>1, <1>3
<1> QED
  BY <1>2, <1>5, <1>6, <1>7, <1>8 DEF InSequence

LEMMA SameStream ==
  ASSUME InSequence, UNCHANGED <<next, fifo>>
  PROVE  InSequence' /\ Item(1)' = Item(1)
  BY DEF InSequence, Item

(* A step that leaves the bytes in the buffers and what is filled.         *)
LEMMA SameCurrent ==
  ASSUME CurrentBuffer, Item(1)' = Item(1), Filled' = Filled, Current' = Current,
         UNCHANGED <<tmpBuff, current_buffer>>,
         rpc' # "flip" => runningTotal'[current_buffer] < FrameLen
  PROVE  CurrentBuffer'
  BY DEF CurrentBuffer

LEMMA SameOther ==
  ASSUME OtherBuffer, UNCHANGED <<tmpBuff, runningTotal, current_buffer, block, wpc, wbuf>>
  PROVE  OtherBuffer' /\ Current' = Current
  BY DEF OtherBuffer, Waiting, Current, Due, Full

LEMMA DueTyped == WholeBlock /\ ~late => Due \in 0 .. Labels - 1
<1> SUFFICES ASSUME WholeBlock, ~late PROVE Due \in 0 .. Labels - 1
  OBVIOUS
<1>1. 1 \in 1 .. FrameLen
  BY AcquireAssumption
<1>2. CASE block[1] = Blank
  BY <1>2, LabelFacts DEF Due
<1>3. ASSUME NEW w \in 0 .. Labels - 1, block = Frame(w) PROVE Due \in 0 .. Labels - 1
  BY <1>1, <1>3, LabelFacts DEF Due, Frame
<1>4. CASE block = [k \in 1 .. FrameLen |-> Blank]
  BY <1>1, <1>2, <1>4
<1> QED
  BY <1>3, <1>4 DEF WholeBlock

LEMMA NextBlockInv == ReadInv /\ BlockInv /\ [Next]_vars => BlockInv'
<1> SUFFICES ASSUME ReadInv, BlockInv, [Next]_vars, ~late' PROVE BlockInv'
  BY DEF BlockInv
<1>0. ~late
  BY DEF Next, vars, readerVars, writerVars, MeterSends, Late, read_fifo, GetStatus, Room,
     Rest, Read, Add, Store, Flip, acquire_loop, TestTotal, TestCurrent, Write, ResetTotal,
     file_timer
<1>a. /\ WholeBlock /\ (rpc = "dead" => wpc = "dead")
      /\ rpc # "dead" => InSequence /\ CurrentBuffer /\ OtherBuffer
  BY <1>0 DEF BlockInv
<1>b. TypeOK
  BY DEF ReadInv
<1>c. FrameLen \in Nat /\ FrameLen >= 1 /\ BUF_SIZE \in Nat /\ BUF_SIZE >= FrameLen
  BY AcquireAssumption
<1>d. /\ current_buffer \in Buffers /\ Other(current_buffer) \in Buffers
      /\ Other(current_buffer) # current_buffer
      /\ \A b \in Buffers : runningTotal[b] \in 0 .. BUF_SIZE
      /\ dwBytesRead \in 0 .. BUF_SIZE /\ sum \in 0 .. BUF_SIZE
  BY <1>b, BufferFacts DEF TypeOK
(* Once the process is dead only the meter goes on. *)
<1>1. CASE rpc = "dead"
  BY <1>0, <1>1, <1>a DEF BlockInv, WholeBlock, Next, vars, readerVars, writerVars,
     MeterSends, read_fifo, GetStatus, Room, Rest, Read, Add, Store, Flip, acquire_loop,
     TestTotal, TestCurrent, Write, ResetTotal, file_timer
<1>2. CASE file_timer
  BY <1>0, <1>2, <1>a DEF file_timer, BlockInv, WholeBlock
<1>3. ASSUME InSequence', CurrentBuffer', OtherBuffer', WholeBlock', rpc' # "dead"
      PROVE  BlockInv'
  BY <1>3 DEF BlockInv
<1>4. ASSUME UNCHANGED block PROVE WholeBlock'
  BY <1>0, <1>4, <1>a DEF WholeBlock
<1>5. ASSUME rpc # "dead", MeterSends PROVE BlockInv'
  <2>1. UNCHANGED <<tmpBuff, runningTotal, current_buffer, block, wpc, wbuf, rpc,
                    dwBytesRead, sum>>
    BY <1>5 DEF MeterSends, Late, readerVars, writerVars
  <2>2. InSequence' /\ Item(1)' = Item(1)
    BY <1>0, <1>5, <1>a, <1>b, SendsInSequence
  <2>3. OtherBuffer' /\ Current' = Current
    BY <1>5, <1>a, <2>1, SameOther
  <2>4. CurrentBuffer'
    BY <1>5, <1>a, <2>1, <2>2, <2>3 DEF CurrentBuffer, Filled
  <2> QED
    BY <1>3, <1>4, <1>5, <2>1, <2>2, <2>3, <2>4
(* The reader's steps but for Read and Flip leave what is filled. *)
<1>6. ASSUME rpc # "dead", rpc' # "dead",
             UNCHANGED <<next, fifo, tmpBuff, current_buffer, block, wpc, wbuf>>,
             OtherBuffer', Current' = Current, Filled' = Filled,
             rpc' # "flip" => runningTotal'[current_buffer] < FrameLen
      PROVE  BlockInv'
  BY <1>3, <1>4, <1>6, <1>a, SameStream, SameCurrent
<1>7. ASSUME rpc # "dead", GetStatus \/ Room \/ Rest \/ Add PROVE BlockInv'
  <2>1. /\ UNCHANGED <<next, fifo, tmpBuff, current_buffer, block, wpc, wbuf, runningTotal>>
        /\ rpc # "flip" /\ rpc' \notin {"flip", "dead"} /\ Filled' = Filled
    BY <1>7 DEF GetStatus, Room, Rest, Add, Filled, writerVars
  <2>2. OtherBuffer' /\ Current' = Current
    BY <1>7, <1>a, <2>1, SameOther
  <2> QED
    BY <1>6, <1>7, <1>a, <2>1, <2>2 DEF CurrentBuffer
<1>8. ASSUME Store PROVE BlockInv'
  <2>1. /\ rpc = "store" /\ rpc' = "flip"
        /\ UNCHANGED <<next, fifo, tmpBuff, current_buffer, block, wpc, wbuf>>
        /\ runningTotal' = [runningTotal EXCEPT ![current_buffer] = sum]
    BY <1>8 DEF Store, writerVars
  <2>2. /\ runningTotal'[current_buffer] = sum
        /\ \A b \in Buffers \ {current_buffer} : runningTotal'[b] = runningTotal[b]
    BY <1>b, <1>d, <2>1 DEF TypeOK
  <2>3. Filled' = Filled
    BY <2>1, <2>2 DEF Filled
  <2>4. Full(Other(current_buffer))' = Full(Other(current_buffer))
    BY <1>d, <2>1, <2>2 DEF Full
  <2>5. Current' = Current
    BY <2>1, <2>4 DEF Current, Waiting, Due
  <2>6. wpc \in {"current", "write", "reset"} => wbuf # current_buffer
    BY <1>a, <1>c, <2>1 DEF OtherBuffer, CurrentBuffer, Full
  <2>7. OtherBuffer'
    <3>1. runningTotal'[Other(current_buffer)] = runningTotal[Other(current_buffer)]
      BY <1>d, <2>2
    <3>2. Waiting' <=> Waiting
      BY <2>1, <2>4 DEF Waiting
    <3>3. wbuf # current_buffer => Full(wbuf)' = Full(wbuf)
      BY <1>b, <2>1, <2>2 DEF Full, TypeOK
    <3> QED
      BY <1>a, <2>1, <2>4, <2>6, <3>1, <3>2, <3>3 DEF OtherBuffer, Due
  <2> QED
    BY <1>6, <2>1, <2>3, <2>5, <2>7
<1>9. ASSUME Read PROVE BlockInv'
  <2> DEFINE n  == IF size <= Len(fifo) THEN size ELSE Len(fifo)
             at == runningTotal[current_buffer]
  <2>1. /\ rpc = "read" /\ rpc' = "add" /\ dwBytesRead' = n
        /\ UNCHANGED <<next, runningTotal, current_buffer, block, wpc, wbuf>>
        /\ fifo' = SubSeq(fifo, n + 1, Len(fifo))
    BY <1>9 DEF Read, writerVars
  <2>2. n \in 0 .. Len(fifo) /\ n <= size /\ at + n <= BUF_SIZE /\ at \in Nat
    <3>1. at + size <= BUF_SIZE /\ at \in Nat /\ size \in Nat
      BY <1>b, <1>d, <2>1 DEF TypeOK, ReadInv, ReadFits
    <3>2. Len(fifo) \in Nat
      BY <1>b DEF TypeOK
    <3> QED
      BY <1>c, <3>1, <3>2
  <2>3. /\ \A i \in 1 .. n - 1 : fifo[i].place # FrameLen
        /\ tmpBuff' = [tmpBuff EXCEPT ![current_buffer] =
                         [i \in 1 .. BUF_SIZE |->
                            IF i \in at + 1 .. at + n THEN fifo[i - at] ELSE @[i]]]
    BY <1>9 DEF Read, Late
  <2> HIDE DEF n
  <2>4. /\ at + n <= FrameLen
        /\ \A i \in 1 .. n : fifo[i] = [frame |-> Current, place |-> at + i]
        /\ \A i : i = n + 1 => Item(i) = IF at + n = FrameLen
                                         THEN [frame |-> Succ(Current), place |-> 1]
                                         ELSE [frame |-> Current, place |-> at + n + 1]
    BY <1>a, <2>1, <2>2, <2>3, ChunkInSequence
  <2>5. InSequence' /\ \A i : i = n + 1 => Item(1)' = Item(i)
    BY <1>a, <1>b, <2>1, <2>2, RestInSequence
  <2>6. /\ \A k \in 1 .. BUF_SIZE : tmpBuff'[current_buffer][k] =
             IF k \in at + 1 .. at + n THEN fifo[k - at] ELSE tmpBuff[current_buffer][k]
        /\ \A b \in Buffers \ {current_buffer} : tmpBuff'[b] = tmpBuff[b]
    BY <1>b, <1>d, <2>3 DEF TypeOK
  <2> HIDE DEF at
  <2>7. Filled' = at + n /\ Filled = at /\ at < FrameLen
    BY <1>a, <2>1 DEF Filled, CurrentBuffer, at
  <2>8. Current' = Current /\ (Waiting' <=> Waiting) /\ Due' = Due
    BY <2>1 DEF Current, Waiting, Due, Full
  <2>9. ASSUME NEW k \in 1 .. at + n
        PROVE  tmpBuff'[current_buffer][k] = [frame |-> Current, place |-> k]
    <3>1. k \in 1 .. BUF_SIZE
      BY <1>c, <2>2, <2>4
    <3>2. CASE k \in at + 1 .. at + n
      <4>1. k - at \in 1 .. n /\ at + (k - at) = k
        BY <2>2, <3>2
      <4>2. fifo[k - at] = [frame |-> Current, place |-> k]
        BY <2>4, <4>1
      <4> QED
        BY <2>6, <3>1, <3>2, <4>2
    <3>3. CASE k \in 1 .. at
      <4>1. tmpBuff[current_buffer][k] = [frame |-> Current, place |-> k]
        BY <1>a, <2>1, <2>7, <3>3 DEF CurrentBuffer
      <4>2. k \notin at + 1 .. at + n
        BY <2>2, <3>3
      <4> QED
        BY <2>6, <3>1, <4>1, <4>2
    <3> QED
      BY <2>2, <3>2, <3>3
  <2>10. CurrentBuffer'
    <3>1. Item(1)' = IF Filled' = FrameLen THEN [frame |-> Succ(Current), place |-> 1]
                     ELSE [frame |-> Current, place |-> Filled' + 1]
      BY <2>4, <2>5, <2>7
    <3>2. runningTotal'[current_buffer'] < FrameLen
      BY <2>1, <2>7 DEF at
    <3> QED
      BY <2>1, <2>4, <2>7, <2>8, <2>9, <3>1, <3>2 DEF CurrentBuffer
  <2>11. OtherBuffer'
    BY <1>a, <1>d, <2>1, <2>6, <2>8 DEF OtherBuffer, Full
  <2> QED
    BY <1>3, <1>4, <2>1, <2>5, <2>10, <2>11
<1>10. ASSUME Flip PROVE BlockInv'
  <2>1. /\ rpc = "flip" /\ rpc' = "status"
        /\ UNCHANGED <<next, fifo, tmpBuff, runningTotal, block, wpc, wbuf>>
    BY <1>10 DEF Flip, Late, writerVars
  <2>2. CASE runningTotal[current_buffer] < FrameLen
    <3>1. UNCHANGED current_buffer
      BY <1>10, <1>c, <1>d, <2>2 DEF Flip
    <3>2. Filled' = Filled
      BY <2>1, <3>1 DEF Filled
    <3>3. OtherBuffer' /\ Current' = Current
      BY <1>a, <2>1, <3>1, SameOther
    <3> QED
      BY <1>6, <2>1, <2>2, <3>1, <3>2, <3>3
  <2>3. CASE runningTotal[current_buffer] >= FrameLen
    <3>1. /\ current_buffer' = Other(current_buffer)
          /\ ~(runningTotal[Other(current_buffer)] >= FrameLen)
      BY <1>10, <1>c, <1>d, <2>3 DEF Flip, Late
    <3>2. /\ runningTotal[Other(current_buffer)] = 0 /\ ~Full(Other(current_buffer))
          /\ wpc \notin {"write", "reset"} /\ ~Waiting /\ Current = Due
      <4>1. ~Full(Other(current_buffer)) /\ runningTotal[Other(current_buffer)] = 0
        BY <1>a, <1>c, <1>d, <2>1, <3>1 DEF OtherBuffer, Full
      <4>2. wpc \notin {"write", "reset"}
        BY <1>a, <1>b, <2>1, <4>1 DEF OtherBuffer, TypeOK, Buffers, Other
      <4> QED
        BY <4>1, <4>2 DEF Waiting, Current
    <3>3. Filled = FrameLen /\ Full(current_buffer)
      BY <1>a, <1>c, <1>d, <2>1, <2>3 DEF CurrentBuffer, Filled, Full
    <3>4. Other(current_buffer)' = current_buffer
      BY <1>d, <3>1 DEF Other, Buffers
    <3>5. Full(Other(current_buffer))'
      BY <2>1, <3>3, <3>4 DEF Full
    <3>6. Waiting' /\ Due' = Due /\ Current' = Succ(Current)
      BY <2>1, <3>2, <3>5 DEF Waiting, Due, Current
    <3>7. InSequence' /\ Item(1)' = Item(1)
      BY <1>a, <2>1, SameStream
    <3>8. Filled' = 0
      BY <2>1, <3>1, <3>2 DEF Filled
    <3>9. CurrentBuffer'
      BY <1>a, <1>c, <2>1, <3>1, <3>2, <3>3, <3>6, <3>7, <3>8 DEF CurrentBuffer
    <3>10. OtherBuffer'
      <4>1. \A k \in 1 .. FrameLen : tmpBuff[current_buffer][k] = [frame |-> Due, place |-> k]
        BY <1>a, <2>1, <3>2, <3>3 DEF CurrentBuffer
      <4>2. wpc' \in {"current", "write", "reset"} => Full(wbuf)'
        BY <1>a, <2>1 DEF OtherBuffer, Full
      <4> QED
        BY <2>1, <3>2, <3>4, <3>5, <3>6, <4>1, <4>2 DEF OtherBuffer
    <3> QED
      BY <1>3, <1>4, <2>1, <3>7, <3>9, <3>10
  <2> QED
    BY <1>c, <1>d, <2>2, <2>3
(* The writer's steps leave the reader's part. *)
<1>11. ASSUME rpc # "dead", WholeBlock', OtherBuffer', Current' = Current,
              UNCHANGED <<next, fifo, tmpBuff, current_buffer, readerVars>>,
              runningTotal'[current_buffer] = runningTotal[current_buffer]
       PROVE  BlockInv'
  <2>1. Filled' = Filled /\ rpc' = rpc
    BY <1>11 DEF Filled, readerVars
  <2>2. rpc' # "flip" => runningTotal'[current_buffer] < FrameLen
    BY <1>11, <1>a, <2>1 DEF CurrentBuffer
  <2>3. InSequence' /\ CurrentBuffer'
    BY <1>11, <1>a, <2>1, <2>2, SameStream, SameCurrent
  <2> QED
    BY <1>3, <1>11, <2>1, <2>3
<1>12. wbuf \in Buffers /\ (wbuf # current_buffer => wbuf = Other(current_buffer))
  BY <1>b DEF TypeOK, Buffers, Other
<1>13. ASSUME rpc # "dead", TestTotal PROVE BlockInv'
  <2>1. /\ UNCHANGED <<next, fifo, tmpBuff, runningTotal, current_buffer, readerVars, block>>
        /\ wpc = "total" /\ wpc' \in {"current", "total"}
    BY <1>13 DEF TestTotal, NextBuffer
  <2>2. wpc' = "current" => wbuf' = wbuf /\ runningTotal[wbuf] >= FrameLen
    BY <1>13 DEF TestTotal, NextBuffer
  <2>3. runningTotal[wbuf] >= FrameLen => Full(wbuf)
    <3>1. CASE wbuf = current_buffer
      BY <1>13, <1>a, <1>c, <1>d, <3>1 DEF CurrentBuffer, Filled, Full
    <3>2. CASE wbuf = Other(current_buffer)
      BY <1>13, <1>a, <1>c, <3>2 DEF OtherBuffer, Full
    <3> QED
      BY <1>12, <3>1, <3>2
  <2>4. Due' = Due /\ (Waiting' <=> Waiting) /\ Current' = Current
    BY <2>1 DEF Due, Waiting, Current, Full
  <2>5. OtherBuffer'
    BY <1>13, <1>a, <2>1, <2>2, <2>3, <2>4 DEF OtherBuffer, Full
  <2> QED
    BY <1>4, <1>11, <1>13, <2>1, <2>4, <2>5
<1>14. ASSUME rpc # "dead", TestCurrent PROVE BlockInv'
  <2>1. /\ UNCHANGED <<next, fifo, tmpBuff, runningTotal, current_buffer, readerVars, block>>
        /\ wpc = "current" /\ wpc' \in {"write", "total"}
        /\ wpc' = "write" => wbuf' = wbuf /\ wbuf # current_buffer
    BY <1>14 DEF TestCurrent, NextBuffer
  <2>2. Due' = Due /\ (Waiting' <=> Waiting) /\ Current' = Current
    BY <2>1 DEF Due, Waiting, Current, Full
  <2>3. OtherBuffer'
    BY <1>14, <1>a, <2>1, <2>2 DEF OtherBuffer, Full
  <2> QED
    BY <1>4, <1>11, <1>14, <2>1, <2>2, <2>3
<1>15. ASSUME rpc # "dead", Write PROVE BlockInv'
  <2>1. /\ UNCHANGED <<next, fifo, tmpBuff, runningTotal, current_buffer, readerVars, wbuf>>
        /\ wpc = "write" /\ wpc' = "reset"
        /\ block' = [k \in 1 .. FrameLen |-> tmpBuff[wbuf][k]]
    BY <1>15 DEF Write
  <2>2. Full(wbuf) /\ wbuf = Other(current_buffer) /\ Waiting /\ ~Waiting'
    BY <1>12, <1>15, <1>a, <2>1 DEF OtherBuffer, Waiting
  <2>3. block' = Frame(Due)
    BY <1>15, <1>a, <2>1, <2>2 DEF OtherBuffer, Frame
  <2>4. Due \in 0 .. Labels - 1
    BY <1>a, <1>0, <1>c, DueTyped
  <2>5. Due' = Succ(Due)
    <3>1. 1 \in 1 .. FrameLen
      BY <1>c
    <3>2. block'[1] = [frame |-> Due, place |-> 1]
      BY <2>3, <3>1 DEF Frame
    <3>3. block'[1] \in Bytes
      BY <2>4, <3>1, <3>2, BytesTyped
    <3>4. block'[1] # Blank
      BY <3>3, AcquireAssumption
    <3> QED
      BY <3>2, <3>4 DEF Due
  <2>6. Current' = Current
    BY <2>2, <2>5 DEF Current
  <2>7. OtherBuffer'
    BY <1>15, <1>a, <2>1, <2>2 DEF OtherBuffer, Full
  <2>8. WholeBlock'
    BY <2>3, <2>4 DEF WholeBlock
  <2> QED
    BY <1>11, <1>15, <2>1, <2>6, <2>7, <2>8
<1>16. ASSUME rpc # "dead", ResetTotal PROVE BlockInv'
  <2>1. /\ UNCHANGED <<next, fifo, tmpBuff, current_buffer, readerVars, block>>
        /\ wpc = "reset" /\ wpc' = "total"
        /\ runningTotal' = [runningTotal EXCEPT ![wbuf] = 0]
    BY <1>16 DEF ResetTotal
  <2>2. wbuf = Other(current_buffer) /\ wbuf # current_buffer
    BY <1>12, <1>16, <1>a, <2>1 DEF OtherBuffer
  <2>3. /\ runningTotal'[Other(current_buffer)] = 0
        /\ runningTotal'[current_buffer] = runningTotal[current_buffer]
    BY <1>b, <1>d, <2>1, <2>2 DEF TypeOK
  <2>4. ~Waiting /\ ~Waiting' /\ Due' = Due /\ Current' = Current
    BY <1>c, <2>1, <2>3 DEF Waiting, Due, Current, Full
  <2>5. OtherBuffer'
    BY <2>1, <2>3, <2>4 DEF OtherBuffer
  <2> QED
    BY <1>4, <1>11, <1>16, <2>1, <2>3, <2>4, <2>5
<1>17. CASE UNCHANGED vars
  <2>1. UNCHANGED <<Due, Waiting, Current, Filled>> /\ rpc' = rpc /\ UNCHANGED readerVars
    BY <1>17 DEF Due, Waiting, Current, Filled, Full, vars, readerVars, writerVars
  <2>2. ASSUME rpc # "dead" PROVE OtherBuffer' /\ Current' = Current
    BY <1>17, <1>a, <2>2, SameOther DEF vars, writerVars
  <2> QED
    BY <1>1, <1>4, <1>11, <1>17, <2>1, <2>2 DEF vars, writerVars
<1> QED
  BY <1>1, <1>2, <1>5, <1>7, <1>8, <1>9, <1>10, <1>13, <1>14, <1>15, <1>16, <1>17
  DEF Next, read_fifo, acquire_loop, Store, Read, Flip

LEMMA BlockInvHolds == Spec => []BlockInv
  BY InitBlockInv, NextBlockInv, ReadInvHolds, PTL DEF Spec

-----------------------------------------------------------------------------
(* Every variable of the acquire program keeps its range, the counters and *)
(* sizes in particular that of the buffers.                                *)
THEOREM AcquireTypeCorrect == Spec => []TypeOK
  BY ReadInvHolds, PTL DEF ReadInv

(* Whatever the writer does to the counters between the reader's look at   *)
(* them and its read, FT_Read stays within the buffer it was given.        *)
THEOREM ReadsFit == Spec => []ReadFits
  BY ReadInvHolds, PTL DEF ReadInv

(* While both threads keep up, the block on its way to the file is a whole *)
(* frame, put together from chunks of any size.                            *)
THEOREM BlocksAreWhole == Spec => []WholeBlock
<1>1. BlockInv => WholeBlock
  BY DEF BlockInv, WholeBlock
<1> QED
  BY <1>1, BlockInvHolds, PTL

(* While both keep up, each block written is the frame after the last one. *)
THEOREM BlocksAreInOrder == Spec => BlocksInOrder
<1> DEFINE Next1 == wpc = "write" /\ wpc' = "reset" /\ ~late =>
              block'[1].frame = IF block[1] = Blank THEN 0 ELSE Succ(block[1].frame)
<1>1. ReadInv /\ BlockInv /\ [Next]_vars => [Next1]_vars
  <2> SUFFICES ASSUME ReadInv, BlockInv, [Next]_vars, wpc = "write", wpc' = "reset", ~late
               PROVE  block'[1].frame = Due
    BY DEF Due
  <2>1. Write
    BY DEF Next, vars, readerVars, writerVars, MeterSends, read_fifo, GetStatus, Room, Rest,
       Read, Add, Store, Flip, acquire_loop, TestTotal, TestCurrent, NextBuffer, ResetTotal,
       file_timer
  <2>2. rpc # "dead" /\ OtherBuffer
    BY DEF BlockInv
  <2>3. wbuf = Other(current_buffer) /\ Waiting
    BY <2>2, BufferFacts DEF OtherBuffer, Waiting, ReadInv, TypeOK, Buffers, Other
  <2>4. 1 \in 1 .. FrameLen
    BY AcquireAssumption
  <2>5. block'[1] = [frame |-> Due, place |-> 1]
    BY <2>1, <2>2, <2>3, <2>4 DEF Write, OtherBuffer
  <2> QED
    BY <2>5
<1> QED
  BY <1>1, BlockInvHolds, ReadInvHolds, PTL DEF Spec, BlocksInOrder
=============================================================================
