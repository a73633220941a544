------------------------- MODULE DaqBandwidth_proofs -------------------------
(***************************************************************************)
(* Theorems about the bandwidth variant of the meter, for buffers of every *)
(* length: a frame on the parallel port is one whole window with its own   *)
(* checksum, and every window becomes a frame once and in order.           *)
(***************************************************************************)
EXTENDS DaqBandwidth, TLAPS

-----------------------------------------------------------------------------
(* The inductive invariant.                                                *)

\* Buffer b holds the samples of window w and of no other.
Whole(b, w) == \A i \in 1 .. Cells : data[b][i] = w

\* What has been read of a whole window w, n samples so far.
ReadOf(w, n, seen) == seen = IF n = 0 THEN {} ELSE {w}

\* The last complete window has not been sent yet.
Outstanding == rxCount = Cells \/ crcState # "idle" \/ pmpBusy

\* The work on a window passes from the checksum to the parallel port and is
\* over when the next window is complete.
Stages ==
    /\ rxCount = Cells => Finished
    /\ crcState # "idle" => ~pmpBusy

\* The buffer that is not being filled holds the window before, as long as
\* somebody needs it.
Placement ==
    /\ \A i \in 1 .. rxCount : data[rxBuffer][i] = window
    /\ Outstanding /\ rxCount < Cells => Whole(Other(rxBuffer), Pred(window))

\* The checksum so far.
Checksum ==
    crcState # "idle" => /\ crcBuffer = Other(rxBuffer)
                         /\ ReadOf(Pred(window), crcCount, crc)
                         /\ (crcState = "done") <=> (crcCount = Cells)

\* The frame so far.
Transfer ==
    pmpBusy => /\ pmpBuffer = Other(rxBuffer)
               /\ trailer[pmpBuffer] = {Pred(window)}
               /\ ReadOf(Pred(window), pmpCount, pmpSent)

\* What is due is what is outstanding.
Ledger == Due = IF Outstanding THEN {Pred(Open)} ELSE {}

BandwidthInv ==
    /\ BandwidthTypeOK
    /\ RolesAgree
    /\ Stages
    /\ Placement
    /\ Checksum
    /\ Transfer
    /\ Ledger

-----------------------------------------------------------------------------
(* Labels and buffers.                                                     *)

LEMMA LabelFacts ==
  /\ 0 \in Labels
  /\ \A w \in Labels : /\ Succ(w) \in Labels /\ Pred(w) \in Labels
                       /\ Pred(Succ(w)) = w
                       /\ Succ(w) # w /\ Pred(w) # w
  BY DaqAssumption DEF Labels, Succ, Pred

LEMMA BufferFacts ==
  \A b \in Buffers : /\ Other(b) \in Buffers
                     /\ Other(b) # b
                     /\ Other(Other(b)) = b
                     /\ \A c \in Buffers : c # b => c = Other(b)
  BY DEF Buffers, Other, BUFFER_A, BUFFER_B

(* A buffer that is whole holds exactly one window.                        *)
LEMMA WholeHolds ==
  ASSUME NEW b, NEW w, Whole(b, w)
  PROVE  Held(b) = {w}
  BY DaqAssumption DEF Whole, Held

LEMMA BandwidthInitInv == BandwidthInit => BandwidthInv
<1> SUFFICES ASSUME BandwidthInit PROVE BandwidthInv
  OBVIOUS
<1> USE DaqAssumption DEF BandwidthInit, Init
<1>1. BandwidthTypeOK
  <2>1. TypeOK
    BY LabelFacts DEF TypeOK, Buffers, Blank
  <2>2. pmpBusy \in BOOLEAN
    OBVIOUS
  <2>3. pmpBuffer \in Buffers /\ pmpCount \in 0 .. Cells
    BY DEF Buffers
  <2> QED
    BY <2>1, <2>2, <2>3 DEF BandwidthTypeOK
<1>2. RolesAgree /\ Stages /\ Checksum /\ Transfer
  BY DEF RolesAgree, Stages, Checksum, Transfer
<1>3. ~Outstanding /\ Placement
  BY DEF Outstanding, Placement
<1>4. Ledger
  BY <1>3 DEF Ledger, Due, Open
<1> QED
  BY <1>1, <1>2, <1>3, <1>4 DEF BandwidthInv

-----------------------------------------------------------------------------
(* One lemma per action.                                                   *)

LEMMA SampleKeeps ==
  ASSUME BandwidthInv, Sample
  PROVE  BandwidthInv'
<1> USE DaqAssumption DEF BandwidthInv, Sample, SampleArrives, crcVars, pmpVars
<1>1. BandwidthTypeOK'
  BY DEF BandwidthTypeOK, TypeOK
<1>2. RolesAgree' /\ Checksum' /\ Transfer'
  BY DEF RolesAgree, Checksum, Transfer, ReadOf
<1>3. Stages'
  BY DEF Stages, Finished, BandwidthTypeOK, TypeOK
<1>4. Placement'
  <2>1. \A i \in 1 .. rxCount' : data'[rxBuffer'][i] = window'
    BY DEF BandwidthTypeOK, TypeOK, Placement
  <2>2. ASSUME Outstanding', rxCount' < Cells
        PROVE  Whole(Other(rxBuffer), Pred(window))'
    <3>1. Outstanding
      BY <2>2 DEF Outstanding, BandwidthTypeOK, TypeOK
    <3>2. Whole(Other(rxBuffer), Pred(window))
      BY <3>1 DEF Placement, BandwidthTypeOK, TypeOK
    <3> QED
      BY <3>2, BufferFacts DEF Whole, BandwidthTypeOK, TypeOK
  <2> QED
    BY <2>1, <2>2 DEF Placement
<1>5. Ledger'
  <2>1. CASE rxCount + 1 = Cells
    <3>1. ~Outstanding /\ Outstanding' /\ Open = window /\ Open' = Succ(window)
      BY <2>1 DEF Outstanding, Finished, BandwidthTypeOK, TypeOK, Open
    <3>2. frame = {Pred(window)} \/ (frame = {} /\ window = 0)
      BY <3>1, LabelFacts DEF Ledger, Due
    <3>3. window \in Labels
      BY DEF BandwidthTypeOK, TypeOK
    <3>4. frame # {window} /\ ~(frame = {} /\ Succ(window) = 0)
      BY <3>2, <3>3, LabelFacts DEF Succ
    <3> QED
      BY <3>1, <3>3, <3>4, LabelFacts DEF Ledger, Due
  <2>2. CASE rxCount + 1 # Cells
    <3>1. Open' = Open /\ (Outstanding' <=> Outstanding)
      BY <2>2 DEF Outstanding, Open, BandwidthTypeOK, TypeOK
    <3> QED
      BY <3>1 DEF Ledger, Due
  <2> QED
    BY <2>1, <2>2
<1> QED
  BY <1>1, <1>2, <1>3, <1>4, <1>5

LEMMA DmaHandler2Keeps ==
  ASSUME BandwidthInv, DmaHandler2
  PROVE  BandwidthInv'
<1> USE DaqAssumption DEF BandwidthInv, DmaHandler2, BufferFull,
        StartSPIAcquisition, DMA_CRC_Calc, pmpVars
<1>1. /\ Finished /\ rxBuffer = currentBuffer
      /\ Open = Succ(window) /\ Open' = Succ(window)
  BY DEF Stages, RolesAgree, Finished, Open
<1>2. window \in Labels /\ rxBuffer \in Buffers
  BY DEF BandwidthTypeOK, TypeOK
<1>3. Other(rxBuffer') = rxBuffer /\ Pred(window') = window
  BY <1>1, <1>2, BufferFacts, LabelFacts
<1>4. BandwidthTypeOK'
  BY <1>2, LabelFacts, BufferFacts DEF BandwidthTypeOK, TypeOK
<1>5. RolesAgree'
  BY <1>1, <1>2, BufferFacts DEF RolesAgree
<1>6. Stages' /\ Transfer'
  BY <1>1 DEF Stages, Finished, Transfer
<1>7. Placement'
  <2>1. Whole(Other(rxBuffer), Pred(window))'
    BY <1>3 DEF Placement, Whole
  <2> QED
    BY <2>1 DEF Placement
<1>8. Checksum'
  BY <1>1, <1>3 DEF Checksum, ReadOf
<1>9. Ledger'
  BY <1>1 DEF Ledger, Due, Outstanding
<1> QED
  BY <1>4, <1>5, <1>6, <1>7, <1>8, <1>9

(* While the checksum is computed, its buffer is whole.                    *)
LEMMA ChecksumFacts ==
  ASSUME BandwidthInv, crcState # "idle"
  PROVE  /\ crcBuffer = currentBuffer
         /\ currentBuffer = Other(rxBuffer)
         /\ rxCount < Cells /\ Open = window
         /\ Whole(crcBuffer, Pred(window))
<1>1. rxCount < Cells /\ Open = window
  BY DaqAssumption
     DEF BandwidthInv, Stages, Finished, BandwidthTypeOK, TypeOK, Open
<1>2. currentBuffer = Other(rxBuffer)
  BY BufferFacts DEF BandwidthInv, RolesAgree, BandwidthTypeOK, TypeOK
<1> QED
  BY <1>1, <1>2 DEF BandwidthInv, Checksum, Placement, Outstanding

LEMMA CrcStepKeeps ==
  ASSUME BandwidthInv, CrcStep
  PROVE  BandwidthInv'
<1> USE DaqAssumption DEF BandwidthInv, CrcStep, CrcCell, rxVars, pmpVars
<1>1. crcCount + 1 \in 1 .. Cells
  BY DEF Checksum, BandwidthTypeOK, TypeOK
<1>2. data[crcBuffer][crcCount + 1] = Pred(window)
  BY <1>1, ChecksumFacts DEF Whole
<1>3. BandwidthTypeOK'
  BY <1>1, <1>2, LabelFacts DEF BandwidthTypeOK, TypeOK
<1>4. RolesAgree' /\ Stages' /\ Transfer'
  BY DEF RolesAgree, Stages, Finished, Transfer, ReadOf
<1>5. Placement' /\ Ledger'
  BY DEF Placement, Outstanding, Whole, Ledger, Due, Open
<1>6. Checksum'
  BY <1>1, <1>2 DEF Checksum, ReadOf
<1> QED
  BY <1>3, <1>4, <1>5, <1>6

LEMMA DmaHandler4Keeps ==
  ASSUME BandwidthInv, DmaHandler4
  PROVE  BandwidthInv'
<1> USE DaqAssumption DEF BandwidthInv, DmaHandler4, ChecksumReady,
        BufferToPMP_Transfer, rxVars
<1>1. rxBuffer \in Buffers /\ currentBuffer \in Buffers
  BY DEF BandwidthTypeOK, TypeOK
<1>2. crc = {Pred(window)}
  BY DEF Checksum, ReadOf
<1>3. BandwidthTypeOK'
  BY <1>1, BufferFacts DEF BandwidthTypeOK, TypeOK
<1>4. RolesAgree'
  BY <1>1, ChecksumFacts, BufferFacts DEF RolesAgree
<1>5. Stages' /\ Checksum'
  BY ChecksumFacts DEF Stages, Checksum
<1>6. Placement' /\ Ledger'
  BY DEF Placement, Outstanding, Whole, Ledger, Due, Open
<1>7. Transfer'
  BY <1>1, <1>2, ChecksumFacts
  DEF Transfer, ReadOf, BandwidthTypeOK, TypeOK
<1> QED
  BY <1>3, <1>4, <1>5, <1>6, <1>7

(* While a frame is sent, its buffer is whole.                             *)
LEMMA TransferFacts ==
  ASSUME BandwidthInv, pmpBusy
  PROVE  /\ crcState = "idle" /\ rxCount < Cells /\ Open = window
         /\ Whole(pmpBuffer, Pred(window))
  BY DaqAssumption
  DEF BandwidthInv, Stages, Finished, Placement, Transfer, Outstanding, Open,
      BandwidthTypeOK, TypeOK

LEMMA PmpCellKeeps ==
  ASSUME BandwidthInv, PmpCell
  PROVE  BandwidthInv'
<1> USE DaqAssumption DEF BandwidthInv, PmpCell, bufferVars, rxVars, crcVars
<1>1. pmpCount + 1 \in 1 .. Cells
  BY DEF BandwidthTypeOK, TypeOK
<1>2. data[pmpBuffer][pmpCount + 1] = Pred(window)
  BY <1>1, TransferFacts DEF Whole
<1>3. BandwidthTypeOK'
  BY <1>1, <1>2, LabelFacts DEF BandwidthTypeOK, TypeOK
<1>4. RolesAgree' /\ Stages' /\ Checksum'
  BY DEF RolesAgree, Stages, Finished, Checksum, ReadOf
<1>5. Placement' /\ Ledger'
  BY DEF Placement, Outstanding, Whole, Ledger, Due, Open
<1>6. Transfer'
  BY <1>1, <1>2 DEF Transfer, ReadOf
<1> QED
  BY <1>3, <1>4, <1>5, <1>6

LEMMA PmpTrailerKeeps ==
  ASSUME BandwidthInv, PmpTrailer
  PROVE  /\ BandwidthInv'
         /\ frame' = {Pred(Open)} /\ Due = {Pred(Open)} /\ Open' = Open
<1> USE DaqAssumption DEF BandwidthInv, PmpTrailer, bufferVars, rxVars, crcVars
<1>1. frame' = {Pred(window)} /\ Open = window /\ Due = {Pred(Open)}
  BY TransferFacts DEF Transfer, ReadOf, Ledger, Outstanding
<1>2. ~Outstanding' /\ Open' = Open
  BY TransferFacts DEF Outstanding, Open
<1>3. BandwidthTypeOK'
  BY <1>1, LabelFacts DEF BandwidthTypeOK, TypeOK
<1>4. RolesAgree' /\ Stages' /\ Checksum' /\ Transfer'
  BY DEF RolesAgree, Stages, Finished, Checksum, ReadOf, Transfer
<1>5. Placement'
  BY <1>2 DEF Placement
<1>6. Ledger'
  BY <1>1, <1>2 DEF Ledger, Due
<1> QED
  BY <1>1, <1>2, <1>3, <1>4, <1>5, <1>6

LEMMA BandwidthStutters ==
  ASSUME BandwidthInv, UNCHANGED vars
  PROVE  BandwidthInv'
<1> USE DEF BandwidthInv, vars, bufferVars, rxVars, crcVars, pmpVars
<1>1. BandwidthTypeOK'
  BY DEF BandwidthTypeOK, TypeOK
<1>2. RolesAgree' /\ Stages' /\ Checksum' /\ Transfer'
  BY DEF RolesAgree, Stages, Finished, Checksum, ReadOf, Transfer
<1>3. Placement' /\ Ledger'
  BY DEF Placement, Outstanding, Whole, Ledger, Due, Open
<1> QED
  BY <1>1, <1>2, <1>3

LEMMA BandwidthInvariant == Spec => []BandwidthInv
<1>1. BandwidthInv /\ [Next]_vars => BandwidthInv'
  BY SampleKeeps, DmaHandler2Keeps, CrcStepKeeps, DmaHandler4Keeps,
     PmpCellKeeps, PmpTrailerKeeps, BandwidthStutters
  DEF Next
<1> QED
  BY <1>1, BandwidthInitInv, PTL DEF Spec

-----------------------------------------------------------------------------
(* What follows from it.                                                   *)

(* The state of the meter is well typed: no index leaves its buffer.       *)
THEOREM BandwidthTypeCorrect == Spec => []BandwidthTypeOK
  BY BandwidthInvariant, PTL DEF BandwidthInv

(* The checksum that goes behind a window is the checksum of that window.  *)
THEOREM ChecksumsCoverTheirBuffer == Spec => []ChecksumCoversBuffer
<1>1. BandwidthInv => ChecksumCoversBuffer
  <2> SUFFICES ASSUME BandwidthInv, crcState = "done"
               PROVE  crc = Held(currentBuffer)
    BY DEF ChecksumCoversBuffer
  <2>1. crc = {Pred(window)}
    BY DaqAssumption DEF BandwidthInv, Checksum, ReadOf
  <2> QED
    BY <2>1, ChecksumFacts, WholeHolds
<1> QED
  BY <1>1, BandwidthInvariant, PTL

(* Until a frame is out, its buffer is one window, with its checksum.      *)
THEOREM FramesAreWhole == Spec => []WholeFrame
<1>1. BandwidthInv => WholeFrame
  BY TransferFacts, WholeHolds DEF WholeFrame, BandwidthInv, Transfer, ReadOf
<1> QED
  BY <1>1, BandwidthInvariant, PTL

-----------------------------------------------------------------------------
(* The refinement.                                                         *)

LEMMA SameLabels ==
  \A w : Reports!Succ(w) = Succ(w) /\ Reports!Pred(w) = Pred(w)
  BY DEF Reports!Succ, Succ, Reports!Pred, Pred

(* A step that leaves the open window and the last frame alone is a        *)
(* stutter.                                                                *)
LEMMA SameDue ==
  ASSUME Open' = Open, frame' = frame
  PROVE  UNCHANGED <<Open, Due, frame>>
  BY DEF Due

(* A sample either completes the window, with nothing due before, or       *)
(* changes nothing that the promise speaks of.                             *)
LEMMA SampleMaps ==
  ASSUME BandwidthInv, BandwidthInv', Sample
  PROVE  [Reports!Next]_<<Open, Due, frame>>
<1> USE DEF Sample, SampleArrives, pmpVars
<1>1. CASE rxCount + 1 = Cells
  <2>1. ~Outstanding /\ Outstanding' /\ Open = window /\ Open' = Succ(window)
    BY <1>1, DaqAssumption
       DEF Outstanding, Finished, BandwidthInv, BandwidthTypeOK, TypeOK, Open
  <2>2. Due = {} /\ Due' = {Pred(Succ(window))}
    BY <2>1 DEF BandwidthInv, Ledger
  <2>3. Due' = {Open}
    BY <2>1, <2>2, LabelFacts DEF BandwidthInv, BandwidthTypeOK, TypeOK
  <2> QED
    BY <2>1, <2>2, <2>3, SameLabels DEF Reports!Next, Reports!Complete
<1>2. CASE rxCount + 1 # Cells
  <2>1. Open' = Open
    BY <1>2, DaqAssumption DEF Open, BandwidthInv, BandwidthTypeOK, TypeOK
  <2> QED
    BY <2>1, SameDue
<1> QED
  BY <1>1, <1>2

LEMMA PmpTrailerMaps ==
  ASSUME BandwidthInv, PmpTrailer
  PROVE  Reports!Next
<1>1. Open' = Open /\ frame' = Due /\ Due # {}
  BY PmpTrailerKeeps
<1>2. Due' = {}
  BY <1>1, PmpTrailerKeeps DEF Due
<1> QED
  BY <1>1, <1>2 DEF Reports!Next, Reports!Report

(* Every window leaves the meter once, whole, with its own checksum and in *)
(* order.                                                                  *)
THEOREM BandwidthImplementsReports == Spec => ImplementsReports
<1>1. BandwidthInit => Reports!Init
  BY DaqAssumption DEF BandwidthInit, Init, Reports!Init, Open, Due
<1>2. BandwidthInv /\ BandwidthInv' /\ [Next]_vars
        => [Reports!Next]_<<Open, Due, frame>>
  <2> SUFFICES ASSUME BandwidthInv, BandwidthInv', [Next]_vars
               PROVE  [Reports!Next]_<<Open, Due, frame>>
    OBVIOUS
  <2>1. CASE DmaHandler2
    <3>1. Open' = Open /\ frame' = frame
      BY <2>1, DaqAssumption
         DEF DmaHandler2, BufferFull, StartSPIAcquisition, Open, pmpVars
    <3> QED
      BY <3>1, SameDue
  <2>2. CASE UNCHANGED <<rxVars, frame>>
    <3>1. Open' = Open /\ frame' = frame
      BY <2>2 DEF rxVars, Open
    <3> QED
      BY <3>1, SameDue
  <2>3. CrcStep \/ DmaHandler4 \/ PmpCell \/ UNCHANGED vars
          => UNCHANGED <<rxVars, frame>>
    BY DEF CrcStep, CrcCell, DmaHandler4, ChecksumReady, PmpCell,
           BufferToPMP_Transfer, vars, bufferVars, pmpVars
  <2> QED
    BY <2>1, <2>2, <2>3, SampleMaps, PmpTrailerMaps DEF Next
<1> QED
  BY <1>1, <1>2, BandwidthInvariant, PTL
     DEF Spec, ImplementsReports, Reports!Spec
=============================================================================
