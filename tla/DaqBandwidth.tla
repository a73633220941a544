---------------------------- MODULE DaqBandwidth -----------------------------
(***************************************************************************)
(* The bandwidth variant of the meter (SEAD_DAQ_v2_Bandwidth): every full  *)
(* buffer and its checksum go to the BeagleBone through the parallel port, *)
(* by DMA; main does nothing.                                              *)
(***************************************************************************)
EXTENDS DaqBuffers

VARIABLES
    pmpBusy,        \* pmpChn is transferring
    pmpBuffer,      \* the buffer it reads
    pmpCount,       \* samples it has sent
    pmpSent,        \* the windows they belong to
    frame           \* the windows the last frame speaks of, in its samples
                    \* or in its checksum

pmpVars == <<pmpBusy, pmpBuffer, pmpCount, pmpSent, frame>>
vars == <<bufferVars, pmpVars>>

BandwidthTypeOK ==
    /\ TypeOK
    /\ pmpBusy \in BOOLEAN
    /\ pmpBuffer \in Buffers
    /\ pmpCount \in 0 .. Cells
    /\ pmpSent \in SUBSET (Labels \cup {Blank})
    /\ frame \in SUBSET (Labels \cup {Blank})

BandwidthInit ==
    /\ Init
    /\ pmpBusy = FALSE
    /\ pmpBuffer = BUFFER_A
    /\ pmpCount = 0
    /\ pmpSent = {}
    /\ frame = {}

-----------------------------------------------------------------------------

Finished == crcState = "idle" /\ ~pmpBusy

Sample == SampleArrives(Finished) /\ UNCHANGED pmpVars

DmaHandler2 ==
    /\ BufferFull(currentBuffer)
    /\ UNCHANGED pmpVars

CrcStep == CrcCell /\ UNCHANGED pmpVars

BufferToPMP_Transfer(b) ==
    /\ pmpBusy' = TRUE
    /\ pmpBuffer' = b
    /\ pmpCount' = 0
    /\ pmpSent' = {}
    /\ UNCHANGED frame

\* The transfer starts before the buffers change roles.
mut_DmaHandler4 ==
    /\ ChecksumReady
    /\ BufferToPMP_Transfer(Other(currentBuffer))

DmaHandler4 ==
    /\ ChecksumReady
    /\ BufferToPMP_Transfer(currentBuffer)

\* One sample goes out, while others come in.
PmpCell ==
    /\ pmpBusy
    /\ pmpCount < Cells
    /\ pmpSent' = pmpSent \cup {data[pmpBuffer][pmpCount + 1]}
    /\ pmpCount' = pmpCount + 1
    /\ UNCHANGED <<bufferVars, pmpBusy, pmpBuffer, frame>>

\* The checksum goes out last; DmaHandler5 only clears the flags.
PmpTrailer ==
    /\ pmpBusy
    /\ pmpCount = Cells
    /\ frame' = pmpSent \cup trailer[pmpBuffer]
    /\ pmpBusy' = FALSE
    /\ UNCHANGED <<bufferVars, pmpBuffer, pmpCount, pmpSent>>

Next ==
    \/ Sample
    \/ DmaHandler2
    \/ CrcStep
    \/ DmaHandler4
    \/ PmpCell
    \/ PmpTrailer

Spec == BandwidthInit /\ [][Next]_vars

\* The ADC delivers samples, the DMA channels run and pending interrupts are
\* served.
Fairness ==
    /\ WF_vars(Sample)
    /\ WF_vars(DmaHandler2)
    /\ WF_vars(CrcStep)
    /\ WF_vars(DmaHandler4)
    /\ WF_vars(PmpCell)
    /\ WF_vars(PmpTrailer)

FairSpec == Spec /\ Fairness

-----------------------------------------------------------------------------

\* While a frame is sent, what has been sent, what is still to be sent and
\* the checksum are of one window, the one before the open window.
WholeFrame ==
    pmpBusy => /\ Held(pmpBuffer) = {Pred(Open)}
               /\ trailer[pmpBuffer] = {Pred(Open)}
               /\ pmpSent \subseteq {Pred(Open)}

Due == IF (frame = {} /\ Open = 0) \/ frame = {Pred(Open)}
       THEN {} ELSE {Pred(Open)}

Reports == INSTANCE WindowReports WITH open <- Open, due <- Due, last <- frame

\* Every window reaches the parallel port once, whole, with its own checksum
\* and in order.
ImplementsReports == Reports!Spec

\* A window that is complete is sent.
EveryWindowSent ==
    \A w \in Labels : (rxCount = Cells /\ window = w) ~> (frame = {w})
=============================================================================
