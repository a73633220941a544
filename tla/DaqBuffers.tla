----------------------------- MODULE DaqBuffers ------------------------------
(***************************************************************************)
(* The double buffer of the meter firmwares (DMA_Transfer.c): the samples  *)
(* of one window go to one buffer by DMA while the other holds the window  *)
(* before; a second DMA channel computes a checksum.  What follows when a  *)
(* buffer is complete differs between DaqPower and DaqBandwidth, which     *)
(* extend this module.                                                     *)
(*                                                                         *)
(* A sample is the label of the window it was taken in, so that a checksum *)
(* or a result is the set of the windows whose samples went into it.       *)
(***************************************************************************)
EXTENDS Integers

CONSTANTS
    Cells,      \* samples in a buffer: BUFFERLENGTH
    Windows     \* labels for windows, reused in turn

\* A buffer holds the window it is given and the one two before it: three
\* labels tell a window from both of its neighbours.
ASSUME DaqAssumption == /\ Cells \in Nat \ {0}
                        /\ Windows \in Nat
                        /\ Windows >= 3

VARIABLES
    window,         \* label of the samples that are being taken
    rxBuffer,       \* where spiRxChn writes
    rxCount,        \* how many it has written; at Cells it has stopped and
                    \* the interrupt of channel 2 is pending
    data,           \* BufA->BufferArray and BufB->BufferArray
    currentBuffer,
    crcBuffer,      \* what crcChn reads
    crcCount,
    crcState,       \* "done": the interrupt of channel 4 is pending
    crc,
    trailer         \* the checksum behind the samples of each buffer

rxVars == <<window, rxBuffer, rxCount, data>>
crcVars == <<crcBuffer, crcCount, crcState, crc>>
bufferVars == <<rxVars, crcVars, currentBuffer, trailer>>

BUFFER_A == "A"
BUFFER_B == "B"
Buffers == {BUFFER_A, BUFFER_B}
Other(b) == IF b = BUFFER_A THEN BUFFER_B ELSE BUFFER_A

\* In the memory of a buffer before anything was written there.
Blank == Windows
Labels == 0 .. Windows - 1
Succ(w) == IF w = Windows - 1 THEN 0 ELSE w + 1
Pred(w) == IF w = 0 THEN Windows - 1 ELSE w - 1

\* The windows whose samples are in buffer b.
Held(b) == {data[b][i] : i \in 1 .. Cells}

\* The window being taken: when its last sample has come, the one after it.
Open == IF rxCount = Cells THEN Succ(window) ELSE window

TypeOK ==
    /\ window \in Labels
    /\ rxBuffer \in Buffers
    /\ rxCount \in 0 .. Cells
    /\ data \in [Buffers -> [1 .. Cells -> Labels \cup {Blank}]]
    /\ currentBuffer \in Buffers
    /\ crcBuffer \in Buffers
    /\ crcCount \in 0 .. Cells
    /\ crcState \in {"idle", "running", "done"}
    /\ crc \in SUBSET (Labels \cup {Blank})
    /\ trailer \in [Buffers -> SUBSET (Labels \cup {Blank})]

-----------------------------------------------------------------------------

\* After ADCModuleBoard_Init, which ends with StartSPIAcquisition(BUFFER_A).
Init ==
    /\ window = 0
    /\ rxBuffer = BUFFER_A
    /\ rxCount = 0
    /\ data = [b \in Buffers |-> [i \in 1 .. Cells |-> Blank]]
    /\ currentBuffer = BUFFER_A
    /\ crcBuffer = BUFFER_A
    /\ crcCount = 0
    /\ crcState = "idle"
    /\ crc = {}
    /\ trailer = [b \in Buffers |-> {}]

(***************************************************************************)
(* One sample of the ADC reaches the buffer: the change notification has   *)
(* clocked it out, and spiRxChn stores it.  finished says that the work on *)
(* the window before is done.  Depending on the rate of the ADC a window   *)
(* lasts from some 8 ms to a second, and the work on it a few              *)
(* milliseconds: the last sample of the next window finds it finished.     *)
(***************************************************************************)
SampleArrives(finished) ==
    /\ rxCount < Cells
    /\ rxCount + 1 = Cells => finished
    /\ data' = [data EXCEPT ![rxBuffer][rxCount + 1] = window]
    /\ rxCount' = rxCount + 1
    /\ UNCHANGED <<window, rxBuffer, crcVars, currentBuffer, trailer>>

\* A new window begins with the first sample after the call.
mut_StartSPIAcquisition(b) ==
    /\ rxBuffer' = rxBuffer
    /\ rxCount' = 0
    /\ window' = Succ(window)
    /\ UNCHANGED data

StartSPIAcquisition(b) ==
    /\ rxBuffer' = b
    /\ rxCount' = 0
    /\ window' = Succ(window)
    /\ UNCHANGED data

DMA_CRC_Calc(b) ==
    /\ crcBuffer' = b
    /\ crcCount' = 0
    /\ crcState' = "running"
    /\ crc' = {}

\* The interrupt of spiRxChn: the buffer is full.  crcOf is the buffer the
\* variant computes the checksum of.
BufferFull(crcOf) ==
    /\ rxCount = Cells
    /\ StartSPIAcquisition(Other(currentBuffer))
    /\ DMA_CRC_Calc(crcOf)
    /\ UNCHANGED <<currentBuffer, trailer>>

\* crcChn reads the buffer beside everything else.
CrcCell ==
    /\ crcState = "running"
    /\ crc' = crc \cup {data[crcBuffer][crcCount + 1]}
    /\ crcCount' = crcCount + 1
    /\ crcState' = IF crcCount + 1 = Cells THEN "done" ELSE "running"
    /\ UNCHANGED <<rxVars, crcBuffer, currentBuffer, trailer>>

\* The interrupt of crcChn: the checksum goes behind the samples and the
\* buffers change roles.
mut_ChecksumReady ==
    /\ crcState = "done"
    /\ crcState' = "idle"
    /\ trailer' = [trailer EXCEPT ![currentBuffer] = crc]
    /\ UNCHANGED <<rxVars, currentBuffer, crcBuffer, crcCount, crc>>

ChecksumReady ==
    /\ crcState = "done"
    /\ crcState' = "idle"
    /\ trailer' = [trailer EXCEPT ![currentBuffer] = crc]
    /\ currentBuffer' = Other(currentBuffer)
    /\ UNCHANGED <<rxVars, crcBuffer, crcCount, crc>>

-----------------------------------------------------------------------------

\* The checksum that DmaHandler4 is going to append is that of the samples
\* it is appended to.
ChecksumCoversBuffer == crcState = "done" => crc = Held(currentBuffer)

\* currentBuffer names the buffer that is being filled, except from the
\* moment the other one starts to be filled until the checksum of the full
\* one is appended; the code between the two handlers relies on both.
RolesAgree == (rxBuffer = currentBuffer) <=> (crcState = "idle")
=============================================================================
