------------------------------ MODULE DaqPower -------------------------------
(***************************************************************************)
(* The power variant of the meter (SEAD_DAQ_v2.0c_Power): the main loop    *)
(* watches currentBuffer, computes the wattage of the window that is       *)
(* complete and hands a message to a DMA channel.                          *)
(***************************************************************************)
EXTENDS DaqBuffers

VARIABLES
    pc,             \* where main is
    prevBuffer,
    sumCount,       \* samples SB_RMS has read
    sum,            \* the windows they belong to
    report,         \* the windows the last message speaks of
    message,        \* the memory of the last message
    txChn,          \* the channel that is sending it
    esp             \* the windows of the last message the Wi-Fi module got

mainVars == <<pc, prevBuffer, sumCount, sum>>
txVars == <<report, message, txChn, esp>>
vars == <<bufferVars, mainVars, txVars>>

\* The buffer ComputeBuffer(prevBuffer) works on.
Computed == Other(prevBuffer)

PowerTypeOK ==
    /\ TypeOK
    /\ pc \in {"poll", "sum", "destroy"}
    /\ prevBuffer \in Buffers
    /\ sumCount \in 0 .. Cells
    /\ sum \in SUBSET (Labels \cup {Blank})
    /\ report \in SUBSET (Labels \cup {Blank})
    /\ message \in {"none", "live", "freed"}
    /\ txChn \in {"none", "uart", "pmp"}
    /\ esp \in SUBSET (Labels \cup {Blank})

PowerInit ==
    /\ Init
    /\ pc = "poll"
    /\ prevBuffer = BUFFER_A
    /\ sumCount = 0
    /\ sum = {}
    /\ report = {}
    /\ message = "none"
    /\ txChn = "none"
    /\ esp = {}

-----------------------------------------------------------------------------

\* Everything that the last complete window asked for is done.
Finished ==
    /\ crcState = "idle"
    /\ pc = "poll"
    /\ prevBuffer = currentBuffer
    /\ txChn = "none"

Sample == SampleArrives(Finished) /\ UNCHANGED <<mainVars, txVars>>

DmaHandler2 ==
    /\ BufferFull(Other(currentBuffer))
    /\ UNCHANGED <<mainVars, txVars>>

CrcStep == CrcCell /\ UNCHANGED <<mainVars, txVars>>

DmaHandler4 == ChecksumReady /\ UNCHANGED <<mainVars, txVars>>

\* The main loop notices that the buffers have changed roles.  While they
\* have not, its turns change nothing.
PollBuffer ==
    /\ pc = "poll"
    /\ currentBuffer # prevBuffer
    /\ prevBuffer' = currentBuffer
    /\ pc' = "sum"
    /\ sumCount' = 0
    /\ sum' = {}
    /\ UNCHANGED <<bufferVars, txVars>>

\* One turn of the loop of SB_RMS, which interrupts and DMA run beside.
mut_SB_RMS ==
    /\ pc = "sum"
    /\ sumCount < Cells
    /\ sum' = sum \cup {data[prevBuffer][sumCount + 1]}
    /\ sumCount' = sumCount + 1
    /\ UNCHANGED <<bufferVars, pc, prevBuffer, txVars>>

SB_RMS ==
    /\ pc = "sum"
    /\ sumCount < Cells
    /\ sum' = sum \cup {data[Computed][sumCount + 1]}
    /\ sumCount' = sumCount + 1
    /\ UNCHANGED <<bufferVars, pc, prevBuffer, txVars>>

\* ComputeBuffer creates the message and starts its transfer, which does not
\* wait: one of the two branches uses another channel.
SendMessage ==
    /\ pc = "sum"
    /\ sumCount = Cells
    /\ report' = sum
    /\ message' = "live"
    /\ txChn' = IF prevBuffer = BUFFER_A THEN "uart" ELSE "pmp"
    /\ pc' = "destroy"
    /\ UNCHANGED <<bufferVars, prevBuffer, sumCount, sum, esp>>

destroy_message ==
    /\ pc = "destroy"
    /\ message' = "freed"
    /\ pc' = "poll"
    /\ UNCHANGED <<bufferVars, prevBuffer, sumCount, sum, report, txChn, esp>>

\* The transfer ends; the handlers of the channels only clear their flags.
TransferDone ==
    /\ txChn # "none"
    /\ txChn' = "none"
    /\ esp' = IF txChn = "uart" THEN report ELSE esp
    /\ UNCHANGED <<bufferVars, mainVars, report, message>>

Next ==
    \/ Sample
    \/ DmaHandler2
    \/ CrcStep
    \/ DmaHandler4
    \/ PollBuffer
    \/ SB_RMS
    \/ SendMessage
    \/ destroy_message
    \/ TransferDone

Spec == PowerInit /\ [][Next]_vars

\* The ADC delivers samples, the DMA channels run, pending interrupts are
\* served and main goes on.
Fairness ==
    /\ WF_vars(Sample)
    /\ WF_vars(DmaHandler2)
    /\ WF_vars(CrcStep)
    /\ WF_vars(DmaHandler4)
    /\ WF_vars(PollBuffer \/ SB_RMS \/ SendMessage \/ destroy_message)
    /\ WF_vars(TransferDone)

FairSpec == Spec /\ Fairness

-----------------------------------------------------------------------------

\* While SB_RMS reads a buffer, what it has read and what it still has to
\* read are the samples of one window, the one before the open window: the
\* DMA channel does not overtake main.
WholeWindow ==
    pc = "sum" => /\ Held(Computed) = {Pred(Open)}
                  /\ sum \subseteq {Pred(Open)}

\* Nothing is due before the first window is complete, nor once the message
\* about the last complete window has been made.
Due == IF (report = {} /\ Open = 0) \/ report = {Pred(Open)}
       THEN {} ELSE {Pred(Open)}

Reports == INSTANCE WindowReports WITH open <- Open, due <- Due, last <- report

\* Every window is computed once, by itself and in order, whatever DMA,
\* interrupts and the main loop do in between.
ImplementsReports == Reports!Spec

\* A window that is complete is reported.
EveryWindowReported ==
    \A w \in Labels : (rxCount = Cells /\ window = w) ~> (report = {w})

\* A window that is complete is reported to the Wi-Fi module.
EveryWindowReachesEsp ==
    \A w \in Labels : (rxCount = Cells /\ window = w) ~> (esp = {w})

\* The channel that sends a message reads memory that is still the message.
TransferReadsMessage == txChn # "none" => message = "live"
=============================================================================
