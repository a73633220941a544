----------------------------- MODULE Handshake ------------------------------
(***************************************************************************)
(* Meter and Wi-Fi module until the meter samples: ADCModuleBoard_Init     *)
(* with the receive channel of the power variant (DMA_Transfer.c,          *)
(* DmaHandler0), and the settings of http_request.c, which reach the meter *)
(* as one line of what the Wi-Fi module prints.                            *)
(*                                                                         *)
(* A line travels in pieces: text, the head "$SECNF," of the settings and  *)
(* their number are told apart, and the newline that ends a transfer.      *)
(* Either side may lose power and start again at any time.  The handler of *)
(* the channel is two steps, between which main stands still but the       *)
(* channel and the line do not.                                            *)
(***************************************************************************)
EXTENDS Naturals, Sequences

CONSTANTS
  Settings,     (* the sample rates the server may answer                   *)
  UartFifo,     (* pieces the meter's UART holds while no channel is armed  *)
  OsrOfAddress, (* the low three bits of the address of config              *)
  MaxGets,      (* requests for the settings under way at a time            *)
  MaxLogs,      (* lines the Wi-Fi module prints besides the settings       *)
  MaxRestarts   (* how often either side starts again                       *)

ASSUME HandshakeAssumption ==
  /\ "text" \notin Settings /\ "head" \notin Settings /\ "newline" \notin Settings
  /\ "none" \notin Settings /\ OsrOfAddress # "none"
  /\ UartFifo \in Nat /\ MaxGets \in Nat \ {0}
  /\ MaxLogs \in Nat /\ MaxRestarts \in Nat

VARIABLES
  pc,               (* how far ADCModuleBoard_Init has come                 *)
  channel,          (* uartRxChn: off or armed                              *)
  due,              (* its BLOCK_DONE event and interrupt flag are raised   *)
  clearing,         (* DmaHandler0 has seen to the line, not to its flags   *)
  lost,             (* it has cleared the flags of a line it has not seen   *)
  dmaBuff,          (* the pieces since the channel was armed               *)
  fifo,             (* pieces in the meter's UART                           *)
  deaf,             (* the UART has overrun: it receives nothing any more   *)
  wait_for_config,
  config_ready,
  number,           (* what GetConfig has read, config of ADCModuleBoard_Init *)
  OSR,              (* the field of the converter's register config0        *)
  config,           (* Wi-Fi module: the settings have come                 *)
  gets,             (* its requests for them under way                      *)
  wire,             (* the pieces it has printed, on their way              *)
  printed,          (* the numbers it has printed                           *)
  torn,             (* it has lost power in the middle of a line            *)
  logs,             (* <= MaxLogs                                           *)
  restarts          (* <= MaxRestarts                                       *)

dma   == <<channel, due, clearing, lost, dmaBuff>>
taken == <<wait_for_config, config_ready, number, OSR>>
meter == <<pc, dma, fifo, deaf, taken>>
wifi  == <<config, gets, wire, printed, torn>>
vars  == <<meter, wifi, logs, restarts>>

Pieces == Settings \cup {"text", "head", "newline"}

(* "uart": BufferToUART_Init is done; "armed": DMAStartUARTRX; "enabled":  *)
(* the interrupts are; "waiting": in the loop around GetConfig;            *)
(* "configured": out of it, the interrupts disabled; "converter":          *)
(* MCP391x_Init is done.                                                   *)
Phases == {"start", "uart", "armed", "enabled", "waiting", "configured", "converter",
           "sampling"}

SettingsLine(n) == <<"head", n, "newline">>

(* What user_init prints when the Wi-Fi module starts.                     *)
Ready == <<"newline", "text", "newline">>

TypeOK ==
  /\ pc \in Phases
  /\ channel \in {"off", "armed"}
  /\ due \in BOOLEAN /\ clearing \in BOOLEAN /\ lost \in BOOLEAN
  /\ dmaBuff \in Seq(Pieces)
  /\ fifo \in Seq(Pieces) /\ Len(fifo) <= UartFifo
  /\ deaf \in BOOLEAN /\ wait_for_config \in BOOLEAN /\ config_ready \in BOOLEAN
  /\ number \in Pieces \cup {"none"} /\ OSR \in {OsrOfAddress, "none"}
  /\ config \in BOOLEAN /\ gets \in 0 .. MaxGets
  /\ wire \in Seq(Pieces) /\ Len(wire) <= 3
  /\ printed \subseteq Settings /\ torn \in BOOLEAN
  /\ logs \in 0 .. MaxLogs /\ restarts \in 0 .. MaxRestarts

MeterStart ==
  /\ pc' = "start"
  /\ channel' = "off"
  /\ due' = FALSE
  /\ clearing' = FALSE
  /\ lost' = FALSE
  /\ dmaBuff' = <<>>
  /\ fifo' = <<>>
  /\ deaf' = FALSE
  /\ wait_for_config' = FALSE
  /\ config_ready' = FALSE
  /\ number' = "none"
  /\ OSR' = "none"

Init ==
  /\ pc = "start"
  /\ channel = "off"
  /\ due = FALSE
  /\ clearing = FALSE
  /\ lost = FALSE
  /\ dmaBuff = <<>>
  /\ fifo = <<>>
  /\ deaf = FALSE
  /\ wait_for_config = FALSE
  /\ config_ready = FALSE
  /\ number = "none"
  /\ OSR = "none"
  /\ config = FALSE
  /\ gets = 0
  /\ wire = Ready
  /\ printed = {}
  /\ torn = FALSE
  /\ logs = 0
  /\ restarts = 0

-----------------------------------------------------------------------------
(* The meter.                                                              *)

InterruptsOn == pc \in {"enabled", "waiting", "sampling"}

BufferToUART_Init ==
  /\ pc = "start"
  /\ pc' = "uart"
  /\ UNCHANGED <<dma, fifo, deaf, taken>>

(* Open the channel on an empty buffer, until a newline: the interrupt flag*)
(* is cleared, then the channel enabled.                                   *)
DMAStartUARTRX ==
  /\ channel' = "armed"
  /\ due' = FALSE
  /\ dmaBuff' = <<>>

StartReceiving ==
  /\ pc = "uart"
  /\ pc' = "armed"
  /\ DMAStartUARTRX
  /\ UNCHANGED <<clearing, lost, fifo, deaf, taken>>

INTEnableInterrupts ==
  /\ pc = "armed"
  /\ pc' = "enabled"
  /\ UNCHANGED <<dma, fifo, deaf, taken>>

SetReadyForConfigure ==
  /\ pc = "enabled"
  /\ pc' = "waiting"
  /\ wait_for_config' = (wait_for_config \/ ~config_ready)
  /\ UNCHANGED <<dma, fifo, deaf, config_ready, number, OSR>>

(* The loop ends with the number behind the head in dmaBuff (atoi).        *)
GetConfig ==
  /\ pc = "waiting"
  /\ config_ready
  /\ number' = dmaBuff[2]
  /\ pc' = "configured"
  /\ UNCHANGED <<dma, fifo, deaf, wait_for_config, config_ready, OSR>>

(* The register is given config, which is a pointer here: of its address   *)
(* the field takes the low three bits, whatever the number is.             *)
MCP391x_Init ==
  /\ pc = "configured"
  /\ OSR' = OsrOfAddress
  /\ pc' = "converter"
  /\ UNCHANGED <<dma, fifo, deaf, wait_for_config, config_ready, number>>

(* The interrupts are enabled again and the acquisition starts.            *)
StartSPIAcquisition ==
  /\ pc = "converter"
  /\ pc' = "sampling"
  /\ UNCHANGED <<dma, fifo, deaf, taken>>

(* What the handler waits for.                                             *)
Accepted == wait_for_config /\ Head(dmaBuff) = "head"

(* Mutant: the channel is armed again behind a line that is taken.         *)
mut_arm_DmaHandler0 ==
  /\ InterruptsOn /\ due /\ ~clearing
  /\ clearing' = TRUE
  /\ config_ready' = (config_ready \/ Accepted)
  /\ DMAStartUARTRX
  /\ UNCHANGED <<pc, lost, fifo, deaf, wait_for_config, number, OSR>>

(* Mutant: the channel stays off behind a line that is not taken.          *)
mut_off_DmaHandler0 ==
  /\ InterruptsOn /\ due /\ ~clearing
  /\ clearing' = TRUE
  /\ due' = FALSE
  /\ config_ready' = (config_ready \/ Accepted)
  /\ UNCHANGED <<pc, channel, dmaBuff, lost, fifo, deaf, wait_for_config, number, OSR>>

(* The handler of the receive channel takes the line, or receives again.   *)
DmaHandler0 ==
  /\ InterruptsOn /\ due /\ ~clearing
  /\ clearing' = TRUE
  /\ \/ /\ Accepted
        /\ config_ready' = TRUE
        /\ UNCHANGED <<channel, due, dmaBuff>>
     \/ /\ ~Accepted
        /\ DMAStartUARTRX
        /\ UNCHANGED config_ready
  /\ UNCHANGED <<pc, lost, fifo, deaf, wait_for_config, number, OSR>>

(* Only then it clears event and flag, those of a line that has come since *)
(* the channel was armed again included.                                   *)
ClearFlags ==
  /\ clearing
  /\ clearing' = FALSE
  /\ due' = FALSE
  /\ lost' = (lost \/ (due /\ ~config_ready))
  /\ UNCHANGED <<pc, channel, dmaBuff, fifo, deaf, taken>>

(* The channel takes a piece out of the UART; a newline ends the transfer, *)
(* which turns the channel off.                                            *)
Transfer ==
  /\ channel = "armed"
  /\ fifo # <<>>
  /\ fifo' = Tail(fifo)
  /\ dmaBuff' = Append(dmaBuff, Head(fifo))
  /\ \/ /\ Head(fifo) = "newline"
        /\ channel' = "off"
        /\ due' = TRUE
     \/ /\ Head(fifo) # "newline"
        /\ UNCHANGED <<channel, due>>
  /\ UNCHANGED <<pc, clearing, lost, deaf, taken>>

(* The channel or its handler are about to make room in the UART.          *)
MakesRoom == channel = "armed" \/ (due /\ InterruptsOn /\ ~clearing)

(* Mutant: a UART that is full goes on receiving.                          *)
mut_Receive ==
  /\ wire # <<>>
  /\ wire' = Tail(wire)
  /\ fifo' = IF pc = "start" THEN fifo ELSE Append(fifo, Head(wire))
  /\ UNCHANGED <<pc, dma, deaf, taken>>
  /\ UNCHANGED <<config, gets, printed, torn>>

(* A piece reaches the meter.  A UART that is full overruns, unless the    *)
(* channel or its handler make room: both are faster than the line.        *)
Receive ==
  /\ wire # <<>>
  /\ wire' = Tail(wire)
  /\ \/ /\ pc = "start" \/ deaf
        /\ UNCHANGED <<fifo, deaf>>
     \/ /\ pc # "start" /\ ~deaf
        /\ Len(fifo) < UartFifo
        /\ fifo' = Append(fifo, Head(wire))
        /\ UNCHANGED deaf
     \/ /\ pc # "start" /\ ~deaf
        /\ Len(fifo) = UartFifo
        /\ ~MakesRoom
        /\ deaf' = TRUE
        /\ UNCHANGED fifo
  /\ UNCHANGED <<pc, dma, taken>>
  /\ UNCHANGED <<config, gets, printed, torn>>

-----------------------------------------------------------------------------
(* The Wi-Fi module.                                                       *)

(* send_timer_cb asks for the settings until they have come.               *)
get_http_config ==
  /\ ~config
  /\ gets < MaxGets
  /\ gets' = gets + 1
  /\ UNCHANGED <<config, wire, printed, torn>>

(* networkRecvCb: every answer 200 is printed, also one that comes after   *)
(* the first.                                                              *)
networkRecvCb ==
  /\ gets > 0
  /\ wire = <<>>
  /\ \E n \in Settings : wire' = SettingsLine(n) /\ printed' = printed \cup {n}
  /\ gets' = gets - 1
  /\ config' = TRUE
  /\ UNCHANGED torn

(* os_printf of anything else.                                             *)
Log ==
  /\ logs < MaxLogs
  /\ wire = <<>>
  /\ wire' = <<"text", "newline">>
  /\ logs' = logs + 1
  /\ UNCHANGED <<config, gets, printed, torn>>

-----------------------------------------------------------------------------
MeterRestarts ==
  /\ restarts < MaxRestarts
  /\ restarts' = restarts + 1
  /\ MeterStart
  /\ UNCHANGED <<wifi, logs>>

WifiRestarts ==
  /\ restarts < MaxRestarts
  /\ restarts' = restarts + 1
  /\ config' = FALSE
  /\ gets' = 0
  /\ wire' = Ready
  /\ torn' = (torn \/ wire # <<>>)
  /\ UNCHANGED <<meter, printed, logs>>

(* ADCModuleBoard_Init runs on, unless the handler does.                   *)
MeterMain ==
  /\ ~clearing
  /\ \/ BufferToUART_Init \/ StartReceiving \/ INTEnableInterrupts
     \/ SetReadyForConfigure \/ GetConfig \/ MCP391x_Init \/ StartSPIAcquisition

Handler == DmaHandler0 \/ ClearFlags

Next ==
  \/ (MeterMain \/ Handler \/ Transfer) /\ UNCHANGED <<wifi, logs, restarts>>
  \/ Receive /\ UNCHANGED <<logs, restarts>>
  \/ (get_http_config \/ networkRecvCb) /\ UNCHANGED <<meter, logs, restarts>>
  \/ Log /\ UNCHANGED <<meter, restarts>>
  \/ MeterRestarts
  \/ WifiRestarts

Spec == Init /\ [][Next]_vars

(* The meter's program and hardware go on, and the Wi-Fi module gets an    *)
(* answer in the end.                                                      *)
FairSpec ==
  /\ Spec
  /\ WF_vars(MeterMain /\ UNCHANGED <<wifi, logs, restarts>>)
  /\ WF_vars(Handler /\ UNCHANGED <<wifi, logs, restarts>>)
  /\ WF_vars(Transfer /\ UNCHANGED <<wifi, logs, restarts>>)
  /\ WF_vars(Receive /\ UNCHANGED <<logs, restarts>>)
  /\ WF_vars(get_http_config /\ UNCHANGED <<meter, logs, restarts>>)
  /\ WF_vars(networkRecvCb /\ UNCHANGED <<meter, logs, restarts>>)

-----------------------------------------------------------------------------
(* Between the handler that accepts a line (:260-261) and the loop that    *)
(* reads it (GetConfig, :251) the buffer is not received into again: what  *)
(* the meter reads is a number the Wi-Fi module has printed as one whole   *)
(* line of its own, unless it lost power within the line.                  *)
NumberAsPrinted ==
  ~torn =>
    /\ config_ready => \E n \in printed : dmaBuff = SettingsLine(n)
    /\ number # "none" => number \in printed

(* The line that is thrown away because the meter is not waiting yet is    *)
(* the only one that is: once it waits with its UART in order and settings *)
(* still to come, no sequence of other lines, second answers and           *)
(* interrupts keeps it from sampling, unless a side starts again or the    *)
(* handler clears the interrupt of a line that came while it ran.          *)
MeterStartsSampling ==
  \A r \in 0 .. MaxRestarts :
    (pc = "waiting" /\ ~deaf /\ ~lost /\ ~config /\ restarts = r)
      ~> (pc = "sampling" \/ lost \/ restarts > r)

-----------------------------------------------------------------------------
(* "Didn't get what we want keep waiting" (DMA_Transfer.c:264): until the  *)
(* settings are taken, the channel is open or its handler due.             *)
KeepsWaiting ==
  InterruptsOn /\ ~config_ready => channel = "armed" \/ due

(* "to change the data rate" (MCP391x.c:69): the converter is given the    *)
(* number that was read.                                                   *)
RateIsSet == OSR # "none" => OSR = number
=============================================================================
