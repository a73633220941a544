------------------------------- MODULE Acquire -------------------------------
(***************************************************************************)
(* The acquire program of the BeagleBone: one thread reads the bytes of    *)
(* the meter's frames from the USB FIFO into one of two buffers, another   *)
(* writes full buffers to a file, a third changes the file.                *)
(*                                                                         *)
(* The threads share the counters and current_buffer without a lock.  The  *)
(* program is built without optimisation and runs on one core, so every    *)
(* access is to memory and in order; each access that another thread can   *)
(* come between is a step.  A byte is its frame's label and its place;     *)
(* which bytes the buffers hold is no longer recorded once a thread was    *)
(* late, only how many.  A scratch variable is set back to 0 when it was   *)
(* used, which the code leaves until it is set again.                      *)
(***************************************************************************)
EXTENDS Integers, Sequences

CONSTANTS
  FrameLen,    (* 26008: bytes of a frame                                   *)
  BUF_SIZE,    (* bytes of a buffer                                         *)
  FifoLen,     (* bytes the FIFO holds                                      *)
  Labels,      (* frames are told apart by a label that comes round again   *)
  Blank        (* a byte nobody has written                                 *)

Buffers == {"BUFFER_A", "BUFFER_B"}
Other(b) == IF b = "BUFFER_A" THEN "BUFFER_B" ELSE "BUFFER_A"

Succ(w) == (w + 1) % Labels
Bytes == [frame : 0 .. Labels - 1, place : 1 .. FrameLen]

ASSUME AcquireAssumption ==
  /\ FrameLen \in Nat \ {0}
  /\ BUF_SIZE \in Nat /\ BUF_SIZE >= FrameLen
  /\ FifoLen \in Nat /\ Labels \in Nat \ {0, 1}
  /\ Blank \notin Bytes

Frame(w) == [k \in 1 .. FrameLen |-> [frame |-> w, place |-> k]]

VARIABLES
  next,            (* the byte the meter sends next                         *)
  fifo,            (* bytes in the FIFO                                     *)
  tmpBuff,         (* tmpBuff and tmpBuff2                                  *)
  runningTotal,    (* runningTotalA and runningTotalB                       *)
  current_buffer,
  rpc,             (* what read_fifo does next                              *)
  fifoRxQueueSize, size, dwBytesRead,
  sum,             (* the sum that += is about to store                     *)
  wpc, wbuf,       (* what acquire_loop does next, and with which buffer    *)
  block,           (* the block last written to the file                    *)
  late             (* history: a thread did not keep up with the meter      *)

readerVars == <<rpc, fifoRxQueueSize, size, dwBytesRead, sum>>
writerVars == <<wpc, wbuf, block>>
vars == <<next, fifo, tmpBuff, runningTotal, current_buffer, readerVars,
          writerVars, late>>

TypeOK ==
  /\ next \in Bytes
  /\ fifo \in Seq(Bytes \cup {Blank}) /\ Len(fifo) <= FifoLen
  /\ tmpBuff \in [Buffers -> [1 .. BUF_SIZE -> Bytes \cup {Blank}]]
  /\ runningTotal \in [Buffers -> 0 .. BUF_SIZE]
  /\ current_buffer \in Buffers
  /\ rpc \in {"status", "room", "rest", "read", "add", "store", "flip", "dead"}
  /\ fifoRxQueueSize \in 0 .. FifoLen
  /\ size \in 0 .. BUF_SIZE /\ dwBytesRead \in 0 .. BUF_SIZE
  /\ sum \in 0 .. BUF_SIZE
  /\ wpc \in {"total", "current", "write", "reset", "dead"}
  /\ wbuf \in Buffers
  /\ block \in [1 .. FrameLen -> Bytes \cup {Blank}]
  /\ late \in BOOLEAN

(* The meter starts with its first frame when it has got its settings,     *)
(* which main sends before it starts the threads.                          *)
Empty == [b \in Buffers |-> [i \in 1 .. BUF_SIZE |-> Blank]]

Init ==
  /\ next = [frame |-> 0, place |-> 1] /\ fifo = <<>>
  /\ tmpBuff = Empty
  /\ runningTotal = [b \in Buffers |-> 0]
  /\ current_buffer = "BUFFER_A"
  /\ rpc = "status" /\ fifoRxQueueSize = 0 /\ size = 0 /\ dwBytesRead = 0 /\ sum = 0
  /\ wpc = "total" /\ wbuf = "BUFFER_A"
  /\ block = [k \in 1 .. FrameLen |-> Blank]
  /\ late = FALSE

(***************************************************************************)
(* The meter and the FIFO                                                  *)
(***************************************************************************)

(* From now on a thread is late. *)
Late == late' = TRUE /\ tmpBuff' = Empty

(* The parallel port sends frame after frame and waits for nobody: a byte  *)
(* that finds the FIFO full is lost.                                       *)
MeterSends ==
  /\ \/ ~late /\ next' = IF next.place < FrameLen
                         THEN [next EXCEPT !.place = @ + 1]
                         ELSE [frame |-> Succ(next.frame), place |-> 1]
     \/ late /\ UNCHANGED next
  /\ \/ /\ Len(fifo) < FifoLen
        /\ fifo' = Append(fifo, IF late THEN Blank ELSE next)
        /\ UNCHANGED <<late, tmpBuff>>
     \/ Len(fifo) = FifoLen /\ Late /\ UNCHANGED fifo
  /\ UNCHANGED <<runningTotal, current_buffer, readerVars, writerVars>>

(***************************************************************************)
(* read_fifo; b is current_buffer, which only this thread changes          *)
(***************************************************************************)

GetStatus ==
  /\ rpc = "status" /\ rpc' = "room"
  /\ fifoRxQueueSize' = Len(fifo)
  /\ UNCHANGED <<next, fifo, tmpBuff, runningTotal, current_buffer, size,
                 dwBytesRead, sum, writerVars, late>>

(* Mutant: the reader asks for all there is, whether or not it fits.       *)
mut_Room ==
  /\ rpc = "room" /\ rpc' = "read"
  /\ size' = fifoRxQueueSize /\ fifoRxQueueSize' = 0
  /\ UNCHANGED <<next, fifo, tmpBuff, runningTotal, current_buffer, dwBytesRead,
                 sum, writerVars, late>>

Room ==
  /\ rpc = "room"
  /\ \/ /\ runningTotal[current_buffer] + fifoRxQueueSize < BUF_SIZE
        /\ size' = fifoRxQueueSize /\ rpc' = "read"
     \/ /\ runningTotal[current_buffer] + fifoRxQueueSize >= BUF_SIZE
        /\ rpc' = "rest" /\ UNCHANGED size
  /\ fifoRxQueueSize' = 0
  /\ UNCHANGED <<next, fifo, tmpBuff, runningTotal, current_buffer, dwBytesRead,
                 sum, writerVars, late>>

(* The counter is read again. *)
Rest ==
  /\ rpc = "rest" /\ rpc' = "read"
  /\ size' = BUF_SIZE - runningTotal[current_buffer]
  /\ UNCHANGED <<next, fifo, tmpBuff, runningTotal, current_buffer,
                 fifoRxQueueSize, dwBytesRead, sum, writerVars, late>>

(* FT_Read takes size bytes, or what there is after its timeout.  The      *)
(* thread is late if what it takes goes beyond the end of a frame.         *)
Read ==
  /\ rpc = "read" /\ rpc' = "add"
  /\ LET n  == IF size <= Len(fifo) THEN size ELSE Len(fifo)
         at == runningTotal[current_buffer]
         beyond == \E i \in 1 .. n - 1 : fifo[i].place = FrameLen
     IN  /\ IF late \/ beyond THEN Late
            ELSE /\ tmpBuff' = [tmpBuff EXCEPT ![current_buffer] =
                      [i \in 1 .. BUF_SIZE |->
                         IF i \in at + 1 .. at + n THEN fifo[i - at] ELSE @[i]]]
                 /\ UNCHANGED late
         /\ fifo' = SubSeq(fifo, n + 1, Len(fifo))
         /\ dwBytesRead' = n /\ size' = 0
  /\ UNCHANGED <<next, runningTotal, current_buffer, fifoRxQueueSize, sum,
                 writerVars>>

Add ==
  /\ rpc = "add" /\ rpc' = "store"
  /\ sum' = runningTotal[current_buffer] + dwBytesRead /\ dwBytesRead' = 0
  /\ UNCHANGED <<next, fifo, tmpBuff, runningTotal, current_buffer,
                 fifoRxQueueSize, size, writerVars, late>>

Store ==
  /\ rpc = "store" /\ rpc' = "flip"
  /\ runningTotal' = [runningTotal EXCEPT ![current_buffer] = sum] /\ sum' = 0
  /\ UNCHANGED <<next, fifo, tmpBuff, current_buffer, fifoRxQueueSize, size,
                 dwBytesRead, writerVars, late>>

(* Mutant: the buffers change one byte before the frame is complete.       *)
mut_Flip ==
  /\ rpc = "flip" /\ rpc' = "status"
  /\ current_buffer' = IF runningTotal[current_buffer] >= FrameLen - 1
                       THEN Other(current_buffer) ELSE current_buffer
  /\ UNCHANGED <<next, fifo, tmpBuff, runningTotal, fifoRxQueueSize, size,
                 dwBytesRead, sum, writerVars, late>>

(* The writer is late if the buffer it is to have given back still holds a *)
(* block.                                                                  *)
Flip ==
  /\ rpc = "flip" /\ rpc' = "status"
  /\ \/ /\ runningTotal[current_buffer] >= FrameLen
        /\ current_buffer' = Other(current_buffer)
        /\ IF runningTotal[Other(current_buffer)] >= FrameLen
           THEN Late ELSE UNCHANGED <<late, tmpBuff>>
     \/ /\ runningTotal[current_buffer] < FrameLen
        /\ UNCHANGED <<current_buffer, late, tmpBuff>>
  /\ UNCHANGED <<next, fifo, runningTotal, fifoRxQueueSize, size, dwBytesRead,
                 sum, writerVars>>

(***************************************************************************)
(* acquire_loop                                                            *)
(***************************************************************************)

(* Buffer A is looked at first, then B. *)
NextBuffer == wbuf' = Other(wbuf) /\ wpc' = "total"

(* Mutant: more than a frame is expected.                                  *)
mut_TestTotal ==
  /\ wpc = "total"
  /\ IF runningTotal[wbuf] > FrameLen
     THEN wpc' = "current" /\ UNCHANGED wbuf ELSE NextBuffer
  /\ UNCHANGED <<next, fifo, tmpBuff, runningTotal, current_buffer, readerVars,
                 block, late>>

TestTotal ==
  /\ wpc = "total"
  /\ \/ /\ runningTotal[wbuf] >= FrameLen
        /\ wpc' = "current" /\ UNCHANGED wbuf
     \/ runningTotal[wbuf] < FrameLen /\ NextBuffer
  /\ UNCHANGED <<next, fifo, tmpBuff, runningTotal, current_buffer, readerVars,
                 block, late>>

TestCurrent ==
  /\ wpc = "current"
  /\ \/ current_buffer # wbuf /\ wpc' = "write" /\ UNCHANGED wbuf
     \/ current_buffer = wbuf /\ NextBuffer
  /\ UNCHANGED <<next, fifo, tmpBuff, runningTotal, current_buffer, readerVars,
                 block, late>>

(* The bytes of the block do not change while it is written: the other     *)
(* thread stores behind them as long as the counter is not reset.          *)
Write ==
  /\ wpc = "write" /\ wpc' = "reset"
  /\ block' = [k \in 1 .. FrameLen |-> tmpBuff[wbuf][k]]
  /\ UNCHANGED <<next, fifo, tmpBuff, runningTotal, current_buffer, readerVars,
                 wbuf, late>>

(* Mutant: the counter of the other buffer is reset.                       *)
mut_ResetTotal ==
  /\ wpc = "reset" /\ wpc' = "total"
  /\ runningTotal' = [runningTotal EXCEPT ![Other(wbuf)] = 0]
  /\ wbuf' = "BUFFER_A"
  /\ UNCHANGED <<next, fifo, tmpBuff, current_buffer, readerVars, block, late>>

ResetTotal ==
  /\ wpc = "reset" /\ wpc' = "total"
  /\ runningTotal' = [runningTotal EXCEPT ![wbuf] = 0]
  /\ wbuf' = "BUFFER_A"
  /\ UNCHANGED <<next, fifo, tmpBuff, current_buffer, readerVars, block, late>>

(* file_timer gives sprintf the number where it expects the name: it reads *)
(* a string at the address 1, and the process dies.                        *)
file_timer ==
  /\ rpc # "dead"
  /\ rpc' = "dead" /\ wpc' = "dead"
  /\ UNCHANGED <<next, fifo, tmpBuff, runningTotal, current_buffer,
                 fifoRxQueueSize, size, dwBytesRead, sum, wbuf, block, late>>

read_fifo == GetStatus \/ Room \/ Rest \/ Read \/ Add \/ Store \/ Flip
acquire_loop == TestTotal \/ TestCurrent \/ Write \/ ResetTotal

Next == MeterSends \/ read_fifo \/ acquire_loop \/ file_timer

Spec == Init /\ [][Next]_vars

(* Neither thread ever waits for the other, and the kernel runs both. *)
Fairness == WF_vars(read_fifo) /\ WF_vars(acquire_loop)

FairSpec == Spec /\ Fairness

(***************************************************************************)
(* Properties                                                              *)
(***************************************************************************)

(* However the counters change under the reader's hands, FT_Read never     *)
(* stores behind the end of a buffer: what it was allowed to read fits     *)
(* behind the counter it finds when it reads.                              *)
ReadFits == rpc = "read" => runningTotal[current_buffer] + size <= BUF_SIZE

(* As long as both threads keep up, what is written is one whole frame,    *)
(* although it was put together from chunks of any size.                   *)
WholeBlock ==
  ~late => block = [k \in 1 .. FrameLen |-> Blank]
           \/ \E w \in 0 .. Labels - 1 : block = Frame(w)

(* As long as both keep up, the blocks are the frames in their order, none *)
(* twice and none left out: the reset of a counter is never lost and no    *)
(* buffer is written before it is complete or after it was given back.     *)
BlocksInOrder ==
  [][wpc = "write" /\ wpc' = "reset" /\ ~late =>
       block'[1].frame = IF block[1] = Blank THEN 0 ELSE Succ(block[1].frame)]_vars

(* When both always keep up and the process lives, every frame the meter   *)
(* has sent is written.                                                    *)
FramesGetWritten ==
  [](~late /\ rpc # "dead") =>
    \A w \in 0 .. Labels - 1 :
      (next = [frame |-> Succ(w), place |-> 1] /\ fifo # <<>>) ~> (block = Frame(w))
=============================================================================
