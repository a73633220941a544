---------------------------- MODULE SendRecvPort -----------------------------
(***************************************************************************)
(* The receiving half of the Wi-Fi firmware (sead_wifi_PROJECT/user):      *)
(* meter messages arrive on UART0 one character at a time, the interrupt   *)
(* handler of uart.c wakes the receive task of send_recv_port.c, which     *)
(* drains the FIFO through a four-state machine into one of two message    *)
(* buffers (buffers.c); a message that passes the NMEA check is handed,    *)
(* in the other buffer, to the store task, which pushes its sample on the  *)
(* send ring.                                                              *)
(*                                                                         *)
(* Processes: the line (the PIC32 and the UART hardware), the interrupt    *)
(* handler, and the tasks of the ESP8266 scheduler, which do not preempt   *)
(* each other.  The receive task is the one whose run takes several steps: *)
(* characters arrive, and the UART raises its flags, between two turns of  *)
(* its loop, before it clears a flag and before it unmasks the interrupt.  *)
(***************************************************************************)
EXTENDS SendRing, Sequences

CONSTANTS
  Chars,          (* the characters on the line                            *)
  Dollar,         (* '$', which begins a message                           *)
  Newline,        (* '\n', which ends it                                   *)
  Check(_),       (* check(text, false) of nmea0183.c                      *)
  Fields(_),      (* process_message finds a sample in the text            *)
  Sample(_),      (* the sample process_message writes into the slot       *)
  NoMessage,      (* not a text                                            *)
  BufSize,        (* max_uart_buff_size                                    *)
  FifoDepth,      (* characters the UART takes before the sender is held   *)
  FullThreshold,  (* RXFIFO_FULL threshold of uart_config                  *)
  RecvQueueLen,   (* recv_messageQueueLen                                  *)
  StoreQueueLen,  (* store_send_messageQueueLen                            *)
  MaxBurst        (* characters arriving during one run of recv_message    *)

(* The texts a buffer can hold.                                            *)
Texts == UNION {[1 .. n -> Chars] : n \in 0 .. BufSize}

ASSUME PortAssumption ==
  /\ Dollar \in Chars
  /\ Newline \in Chars \ {Dollar}
  /\ BufSize \in Nat \ {0}
  /\ \A t \in Texts : Check(t) \in BOOLEAN
  /\ \A t \in Texts : Fields(t) \in BOOLEAN /\ (Fields(t) => Sample(t) \in Samples)
  /\ NoMessage \notin Texts
  /\ FullThreshold \in Nat \ {0}
  /\ FifoDepth \in Nat
  /\ FullThreshold <= FifoDepth
  /\ RecvQueueLen \in Nat \ {0}
  /\ StoreQueueLen \in Nat \ {0}
  /\ MaxBurst \in Nat

VARIABLES
  fifo,         (* the characters in the UART receive FIFO                  *)
  fullInt,      (* RXFIFO_FULL is raised                                    *)
  toutInt,      (* RXFIFO_TOUT is raised                                    *)
  timedOut,     (* it has been raised since the last character in the FIFO  *)
                (* arrived                                                  *)
  uartIntr,     (* ETS_UART_INTR is enabled                                 *)
  burst,        (* characters received during the current run, <= MaxBurst  *)
  recvQueue,    (* events in recv_messageQueue                              *)
  storeQueue,   (* events in store_send_messageQueue                        *)
  recv,         (* where recv_message is: not running, in its loop, before  *)
                (* the clearing of a flag, before the unmasking             *)
  user_state,   (* state of the message machine                             *)
  storing,      (* an accepted message waits in the other buffer            *)
  current,      (* uart_buffer: the buffer being filled                     *)
  text,         (* the write characters at the start of each buffer         *)
  buff_size     (* the buff_size field of each buffer                       *)

lineVars == <<fifo, fullInt, toutInt, timedOut, burst>>
taskVars == <<uartIntr, recvQueue, recv>>
fsmVars  == <<storeQueue, user_state, storing, current, text, buff_size>>
vars == <<lineVars, taskVars, fsmVars, ringVars>>

Buffers == {1, 2}

(* The buffer that swap_buffer switches to and push_send_buffer reads.     *)
Other == 3 - current

States == {"IDLE", "RECEIVE", "STORE", "RECEIVE_STORE"}

Places == {"out", "loop", "flags", "unmask"}

(* recv_message is running.                                                *)
Draining == recv # "out"

(* system_os_post: an event joins the queue of a task unless it is full.   *)
Post(q, len) == IF q < len THEN q + 1 ELSE q

-----------------------------------------------------------------------------
Init ==
  /\ fifo = <<>>
  /\ fullInt = FALSE
  /\ toutInt = FALSE
  /\ timedOut = FALSE
  /\ burst = 0
  /\ uartIntr = TRUE
  /\ recvQueue = 0
  /\ storeQueue = 0
  /\ recv = "out"
  /\ user_state = "IDLE"
  /\ storing = FALSE
  /\ current = 1
  /\ text = [b \in Buffers |-> <<>>]
  /\ buff_size = [b \in Buffers |-> 0]
  /\ RingInit

-----------------------------------------------------------------------------
(* The line and the UART hardware.                                         *)

(* A character arrives; hardware flow control holds the sender when the    *)
(* FIFO is full.                                                           *)
Arrive(c) ==
  /\ Len(fifo) < FifoDepth
  /\ Draining => burst < MaxBurst
  /\ fifo' = Append(fifo, c)
  /\ burst' = IF Draining THEN burst + 1 ELSE burst
  /\ timedOut' = FALSE
  /\ UNCHANGED <<fullInt, toutInt, taskVars, fsmVars, ringVars>>

(* The FIFO holds FullThreshold characters.                                *)
RaiseFull ==
  /\ Len(fifo) >= FullThreshold
  /\ ~fullInt
  /\ fullInt' = TRUE
  /\ UNCHANGED <<fifo, toutInt, timedOut, burst, taskVars, fsmVars, ringVars>>

(* The line has been quiet for a while and the FIFO is not empty.  The     *)
(* UART may raise the flag again while it stays quiet, but nothing says    *)
(* that it does: only the first time-out after a character is sure to come,*)
(* and when the flag is up already it changes nothing.                     *)
RaiseTout ==
  /\ fifo # <<>>
  /\ ~toutInt \/ ~timedOut
  /\ toutInt' = TRUE
  /\ timedOut' = TRUE
  /\ UNCHANGED <<fifo, fullInt, burst, taskVars, fsmVars, ringVars>>

(* Mutant: the handler forgets ETS_UART_INTR_DISABLE.                      *)
mut_intr_handler ==
  /\ uartIntr
  /\ fullInt \/ toutInt
  /\ recvQueue' = Post(recvQueue, RecvQueueLen)
  /\ UNCHANGED <<uartIntr, recv, lineVars, fsmVars, ringVars>>

(* uart0_rx_intr_handler: mask the interrupt and wake the receive task.    *)
(* The flag itself stays raised until recv_message clears it.              *)
uart0_rx_intr_handler ==
  /\ uartIntr
  /\ fullInt \/ toutInt
  /\ uartIntr' = FALSE
  /\ recvQueue' = Post(recvQueue, RecvQueueLen)
  /\ UNCHANGED <<recv, lineVars, fsmVars, ringVars>>

-----------------------------------------------------------------------------
(* buffers.c: the two message buffers.                                     *)

BufferFull == Len(text[current]) > BufSize - 1

(* put_buffer when it succeeds.  The terminating NUL goes to the index     *)
(* after the character: at the last index that is the byte behind the      *)
(* array, the buff_size field.                                             *)
put_buffer(c) ==
  /\ ~BufferFull
  /\ text' = [text EXCEPT ![current] = Append(@, c)]
  /\ buff_size' = [buff_size EXCEPT ![current] =
                     IF Len(text[current]) = BufSize - 1 THEN 0 ELSE @ + 1]

reset_buffer ==
  /\ text' = [text EXCEPT ![current] = <<>>]
  /\ buff_size' = [buff_size EXCEPT ![current] = 0]

(* swap_buffer followed by reset_buffer, which then clears the new one.    *)
swap_reset_buffer ==
  /\ current' = Other
  /\ text' = [text EXCEPT ![Other] = <<>>]
  /\ buff_size' = [buff_size EXCEPT ![Other] = 0]

checksum_buffer == Check(text[current])

-----------------------------------------------------------------------------
(* send_recv_port.c: the message state machine, one character at a time.   *)

Quiet == UNCHANGED <<storing, storeQueue, current>>

(* The newline of a message that may be stored: the buffers are swapped    *)
(* and the store task is posted if the check passes.                       *)
EndMessage ==
  \/ /\ checksum_buffer
     /\ storing' = TRUE
     /\ swap_reset_buffer
     /\ storeQueue' = Post(storeQueue, StoreQueueLen)
     /\ user_state' = "STORE"
  \/ /\ ~checksum_buffer
     /\ reset_buffer
     /\ user_state' = "IDLE"
     /\ Quiet

case_idle(c) ==
  /\ user_state = "IDLE"
  /\ Quiet
  /\ \/ /\ c = Dollar
        /\ put_buffer(c)
        /\ user_state' = "RECEIVE"
     \/ /\ c # Dollar
        /\ UNCHANGED <<user_state, text, buff_size>>

case_recv(c) ==
  /\ user_state = "RECEIVE"
  /\ \/ /\ c = Newline
        /\ EndMessage
     \/ /\ c # Newline
        /\ put_buffer(c)
        /\ UNCHANGED user_state
        /\ Quiet
     \/ /\ c # Newline
        /\ BufferFull
        /\ reset_buffer
        /\ user_state' = "IDLE"
        /\ Quiet

(* Mutant: a '$' always begins a message in the RECEIVE state.             *)
mut_case_store(c) ==
  /\ user_state = "STORE"
  /\ c = Dollar
  /\ put_buffer(c)
  /\ user_state' = "RECEIVE"
  /\ Quiet

case_store(c) ==
  /\ user_state = "STORE"
  /\ Quiet
  /\ \/ /\ c = Dollar
        /\ put_buffer(c)
        /\ user_state' = IF storing THEN "RECEIVE_STORE" ELSE "RECEIVE"
     \/ /\ c # Dollar
        /\ user_state' = IF storing THEN "STORE" ELSE "IDLE"
        /\ UNCHANGED <<text, buff_size>>

(* When the store task has finished meanwhile, the message goes on in the  *)
(* RECEIVE state, and the result of put_buffer is not looked at.           *)
ResumeReceive(c) ==
  /\ ~storing
  /\ c # Newline
  /\ \/ put_buffer(c)
     \/ BufferFull /\ UNCHANGED <<text, buff_size>>
  /\ user_state' = "RECEIVE"
  /\ Quiet

(* Mutant: a message that ends too early is dropped without reset_buffer.  *)
mut_ReceiveBehindStore(c) ==
  /\ storing
  /\ \/ c # Newline /\ put_buffer(c) /\ UNCHANGED user_state
     \/ c = Newline /\ user_state' = "STORE" /\ UNCHANGED <<text, buff_size>>
  /\ Quiet

(* While a message waits to be stored, another is received and dropped if  *)
(* it ends, or fills its buffer, too early.                                *)
ReceiveBehindStore(c) ==
  /\ storing
  /\ \/ /\ c # Newline
        /\ put_buffer(c)
        /\ UNCHANGED user_state
     \/ /\ c = Newline \/ BufferFull
        /\ reset_buffer
        /\ user_state' = "STORE"
  /\ Quiet

case_recv_store(c) ==
  /\ user_state = "RECEIVE_STORE"
  /\ \/ ResumeReceive(c)
     \/ ~storing /\ c = Newline /\ EndMessage
     \/ ReceiveBehindStore(c)

send_recv_store_fsm(c) ==
  case_idle(c) \/ case_recv(c) \/ case_store(c) \/ case_recv_store(c)

-----------------------------------------------------------------------------
(* The tasks.                                                              *)

(* The scheduler starts recv_message; the store task goes first: it has    *)
(* the higher priority number (send_recv_port.c:321-326), and the SDK runs *)
(* the task with the higher number, whatever the comments there say.       *)
StartRecv ==
  /\ ~Draining
  /\ recvQueue > 0
  /\ storeQueue = 0
  /\ recvQueue' = recvQueue - 1
  /\ recv' = "loop"
  /\ UNCHANGED <<uartIntr, lineVars, fsmVars, ringVars>>

(* One turn of the loop of recv_message.                                   *)
RecvChar ==
  /\ recv = "loop"
  /\ fifo # <<>>
  /\ fifo' = Tail(fifo)
  /\ timedOut' = (timedOut /\ Len(fifo) > 1)
  /\ send_recv_store_fsm(Head(fifo))
  /\ UNCHANGED <<fullInt, toutInt, burst, taskVars, ringVars>>

(* The loop finds the FIFO empty.                                          *)
LoopEnds ==
  /\ recv = "loop"
  /\ fifo = <<>>
  /\ recv' = "flags"
  /\ UNCHANGED <<uartIntr, recvQueue, lineVars, fsmVars, ringVars>>

(* One flag is cleared, FULL if it is raised, else TOUT, whatever has      *)
(* arrived since the loop ended.  A flag raised between its test and its   *)
(* clearing is the one that is cleared.                                    *)
ClearFlag ==
  /\ recv = "flags"
  /\ fullInt' = FALSE
  /\ toutInt' = (fullInt /\ toutInt)
  /\ recv' = "unmask"
  /\ UNCHANGED <<uartIntr, recvQueue, fifo, timedOut, burst, fsmVars, ringVars>>

(* Mutant: recv_message returns without ETS_UART_INTR_ENABLE.              *)
mut_RecvDone ==
  /\ recv = "unmask"
  /\ recv' = "out"
  /\ burst' = 0
  /\ UNCHANGED <<uartIntr, fifo, fullInt, toutInt, timedOut, recvQueue, fsmVars, ringVars>>

(* recv_message unmasks the interrupt and returns.                         *)
RecvDone ==
  /\ recv = "unmask"
  /\ uartIntr' = TRUE
  /\ recv' = "out"
  /\ burst' = 0
  /\ UNCHANGED <<fifo, fullInt, toutInt, timedOut, recvQueue, fsmVars, ringVars>>

(* Mutant: the message is read from the buffer being filled.               *)
mut_push_send_buffer ==
  \/ Fields(text[current]) /\ push_sample(Sample(text[current]))
  \/ ~Fields(text[current]) /\ UNCHANGED ringVars

(* push_send_buffer of buffers.c on the text of the other buffer.          *)
push_send_buffer ==
  \/ Fields(text[Other]) /\ push_sample(Sample(text[Other]))
  \/ ~Fields(text[Other]) /\ UNCHANGED ringVars

(* Mutant: a message received behind the store is forgotten about.         *)
mut_store_send_message ==
  /\ ~Draining
  /\ storeQueue > 0
  /\ storeQueue' = storeQueue - 1
  /\ IF user_state = "STORE"
       THEN push_send_buffer /\ storing' = FALSE
       ELSE UNCHANGED <<storing, ringVars>>
  /\ UNCHANGED <<user_state, current, text, buff_size, lineVars, taskVars>>

(* The store task.                                                         *)
store_send_message ==
  /\ ~Draining
  /\ storeQueue > 0
  /\ storeQueue' = storeQueue - 1
  /\ IF user_state \in {"STORE", "RECEIVE_STORE"}
       THEN push_send_buffer /\ storing' = FALSE
       ELSE UNCHANGED <<storing, ringVars>>
  /\ UNCHANGED <<user_state, current, text, buff_size, lineVars, taskVars>>

(* The uplink pops a sample it has formatted into a POST (package_send).   *)
UplinkPop ==
  /\ ~Draining
  /\ pop_pop_buffer
  /\ UNCHANGED <<lineVars, taskVars, fsmVars>>

Line == (\E c \in Chars : Arrive(c)) \/ RaiseFull \/ RaiseTout

RecvMessage == StartRecv \/ RecvChar \/ LoopEnds \/ ClearFlag \/ RecvDone

Tasks == RecvMessage \/ store_send_message \/ UplinkPop

Next == Line \/ uart0_rx_intr_handler \/ Tasks

Spec == Init /\ [][Next]_vars

(* The UART raises FULL while the FIFO holds that much, and TOUT once after*)
(* a character that no other follows; interrupts are delivered, and the    *)
(* scheduler runs every posted task to its end.  Nobody has to send        *)
(* anything, TOUT need not come twice, and the uplink need not pop.        *)
Fairness ==
  /\ WF_vars(RaiseFull)
  /\ WF_vars(RaiseTout /\ ~timedOut)
  /\ WF_vars(uart0_rx_intr_handler)
  /\ WF_vars(RecvMessage)
  /\ WF_vars(store_send_message)

FairSpec == Spec /\ Fairness

-----------------------------------------------------------------------------
TypeOK ==
  /\ fifo \in Seq(Chars)
  /\ Len(fifo) <= FifoDepth
  /\ fullInt \in BOOLEAN
  /\ toutInt \in BOOLEAN
  /\ timedOut \in BOOLEAN
  /\ burst \in 0 .. MaxBurst
  /\ uartIntr \in BOOLEAN
  /\ recvQueue \in 0 .. RecvQueueLen
  /\ storeQueue \in 0 .. StoreQueueLen
  /\ recv \in Places
  /\ user_state \in States
  /\ storing \in BOOLEAN
  /\ current \in Buffers
  /\ text \in [Buffers -> Texts]
  /\ buff_size \in [Buffers -> 0 .. BufSize]
  /\ RingTypeOK

(* The receiver's one token: the UART interrupt is unmasked, or exactly    *)
(* one wake-up of the receive task is queued, or the task is running -     *)
(* never two of them, never none.  The interrupt handler and recv_message  *)
(* hand it to each other through ETS_UART_INTR_DISABLE/ENABLE and          *)
(* system_os_post; losing it would make the firmware deaf.                 *)
OneWakeup ==
  \/ uartIntr /\ recvQueue = 0 /\ ~Draining
  \/ ~uartIntr /\ recvQueue = 1 /\ ~Draining
  \/ ~uartIntr /\ recvQueue = 0 /\ Draining

(* The flag storing, the event of the store task and the state machine     *)
(* agree: a message is marked as waiting exactly while its event is queued *)
(* (so the queue of length one never rejects a post), and the store task   *)
(* never finds a state in which it would leave the flag set for good.      *)
StoreHandshake ==
  /\ storeQueue = IF storing THEN 1 ELSE 0
  /\ storing => user_state \in {"STORE", "RECEIVE_STORE"}

(* A message as it lies in a buffer: a '$' first and no newline.           *)
Framed(t) ==
  /\ t # <<>>
  /\ t[1] = Dollar
  /\ \A i \in 1 .. Len(t) : t[i] # Newline

(* Between messages the buffer being filled is empty, and while one is     *)
(* received it holds a framed text: no character of a message that was     *)
(* dropped, rejected or already stored is left in front of the next one.   *)
FramedBuffer ==
  IF user_state \in {"IDLE", "STORE"}
    THEN text[current] = <<>>
    ELSE Framed(text[current])

(* What waits in the other buffer is a framed message that passed the      *)
(* check, whatever is received meanwhile.                                  *)
WaitingMessageIsChecked ==
  storing => Framed(text[Other]) /\ Check(text[Other])

(* The accepted message that waits for the store task, if there is one.    *)
Waiting == IF storing THEN text[Other] ELSE NoMessage

Store == INSTANCE MessageStore WITH pending <- Waiting, queue <- Live

(* The double buffer, the state machine, the tasks and the ring implement  *)
(* the message store: an accepted message reaches the ring intact, once    *)
(* and in order.                                                           *)
RefinesMessageStore == Store!Spec

(* Every accepted message is stored, or dropped for want of fields, even   *)
(* if the line never falls silent for good.                                *)
MessagesGetStored == Store!NothingWaitsForever

(* The time-out of the last character has been raised, and cleared by a    *)
(* run of recv_message whose loop had ended before the character came.     *)
TimeoutSpent == fifo # <<>> /\ timedOut /\ ~toutInt /\ ~fullInt

(* Characters in the FIFO do not stay there: it is found empty again and   *)
(* again, unless the time-out of the last character was spent in the window*)
(* between the end of the loop and the clearing of the flag and nothing    *)
(* arrives any more.  A line that goes on always gets the receiver going   *)
(* again, whatever flags are lost.                                         *)
FifoGetsDrained == []<>(fifo = <<>>) \/ <>[]TimeoutSpent

-----------------------------------------------------------------------------
(* "while loop getting characters while they are in the buffer"            *)
(* (send_recv_port.c:57): none is left behind.                             *)
NoneLeftBehind == (fifo # <<>>) ~> (fifo = <<>>)

(* "puts null plug at the end of the buffer" (buffers.c:104), inside the   *)
(* bound "max buff size minus null plug" (buffers.c:97): the buffer's size *)
(* field, which lies behind the array, keeps counting its characters.      *)
SizeFieldIntact == \A b \in Buffers : buff_size[b] = Len(text[b])

(* "if the buffer overflows, then reset the buffer" (send_recv_port.c:151):*)
(* a character of a message that does not fit ends that message.           *)
OverflowEndsMessage ==
  [][ BufferFull /\ RecvChar => text'[current] = <<>> \/ current' # current ]_vars
=============================================================================
