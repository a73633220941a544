--------------------------- MODULE DaqPower_proofs ---------------------------
(***************************************************************************)
(* Theorems about the power variant of the meter, for buffers of every     *)
(* length: types, the roles of the two buffers, the windows that main      *)
(* computes, and that every window is reported once and in order.          *)
(***************************************************************************)
EXTENDS DaqPower, TLAPS

-----------------------------------------------------------------------------
(* The inductive invariant.                                                *)

\* Buffer b holds the samples of window w and of no other.
Whole(b, w) == \A i \in 1 .. Cells : data[b][i] = w

\* The last complete window has not been computed yet.
Outstanding ==
    \/ rxCount = Cells
    \/ crcState # "idle"
    \/ prevBuffer # currentBuffer
    \/ pc = "sum"

\* Who is busy when: the work on a window passes from the checksum to main
\* and is over when the next window is complete.
Stages ==
    /\ rxCount = Cells => Finished
    /\ crcState = "running" => crcCount < Cells
    /\ crcState # "idle" => /\ pc = "poll"
                            /\ prevBuffer = currentBuffer
                            /\ txChn = "none"
    /\ prevBuffer # currentBuffer => pc = "poll"

\* Where the samples are: those of the open window at the front of the
\* buffer that is being filled, those of the window before in the other one,
\* as long as somebody needs them.
Placement ==
    /\ \A i \in 1 .. rxCount : data[rxBuffer][i] = window
    /\ Outstanding /\ rxCount < Cells => Whole(Other(rxBuffer), Pred(window))

\* What main has read so far.
Progress ==
    pc = "sum" => /\ sum \subseteq {Pred(window)}
                  /\ sumCount > 0 => sum = {Pred(window)}

\* What is due is what is outstanding.
Ledger == Due = IF Outstanding THEN {Pred(Open)} ELSE {}

PowerInv ==
    /\ PowerTypeOK
    /\ RolesAgree
    /\ Stages
    /\ Placement
    /\ Progress
    /\ Ledger

-----------------------------------------------------------------------------
(* Labels and buffers.                                                     *)

LEMMA LabelFacts ==
  /\ 0 \in Labels
  /\ Blank \notin Labels
  /\ \A w \in Labels : /\ Succ(w) \in Labels /\ Pred(w) \in Labels
                       /\ Pred(Succ(w)) = w
                       /\ Succ(w) # w /\ Pred(w) # w
  BY DaqAssumption DEF Labels, Blank, Succ, Pred

LEMMA BufferFacts ==
  /\ BUFFER_A \in Buffers /\ BUFFER_B \in Buffers
  /\ \A b \in Buffers : /\ Other(b) \in Buffers
                        /\ Other(b) # b
                        /\ Other(Other(b)) = b
                        /\ \A c \in Buffers : c # b => c = Other(b)
  BY DEF Buffers, Other, BUFFER_A, BUFFER_B

(* A buffer that is whole holds exactly one window.                        *)
LEMMA WholeHolds ==
  ASSUME NEW b, NEW w, Whole(b, w)
  PROVE  Held(b) = {w}
  BY DaqAssumption DEF Whole, Held

LEMMA PowerInitInv == PowerInit => PowerInv
  BY LabelFacts, BufferFacts, DaqAssumption
  DEF PowerInit, Init, PowerInv, PowerTypeOK, TypeOK, RolesAgree, Stages,
      Placement, Progress, Ledger, Outstanding, Due, Open, Whole, Blank

-----------------------------------------------------------------------------
(* One lemma per action.                                                   *)

LEMMA SampleKeeps ==
  ASSUME PowerInv, Sample
  PROVE  PowerInv'
<1> USE DaqAssumption DEF PowerInv, Sample, SampleArrives, rxVars, crcVars,
        mainVars, txVars
<1>1. PowerTypeOK'
  BY DEF PowerTypeOK, TypeOK
<1>2. RolesAgree'
  BY DEF RolesAgree
<1>3. Stages'
  BY DEF PowerTypeOK, TypeOK, Stages, Finished
<1>4. Placement'
  <2>1. \A i \in 1 .. rxCount' : data'[rxBuffer'][i] = window'
    BY DEF PowerTypeOK, TypeOK, Placement
  <2>2. ASSUME Outstanding', rxCount' < Cells
        PROVE  Whole(Other(rxBuffer), Pred(window))'
    <3>1. Outstanding
      BY <2>2 DEF Outstanding, PowerTypeOK, TypeOK
    <3>2. Whole(Other(rxBuffer), Pred(window))
      BY <3>1 DEF Placement, PowerTypeOK, TypeOK
    <3> QED
      BY <3>2, BufferFacts DEF Whole, PowerTypeOK, TypeOK
  <2> QED
    BY <2>1, <2>2 DEF Placement
<1>5. Progress'
  BY DEF Progress
<1>6. Ledger'
  <2>1. CASE rxCount + 1 = Cells
    <3>1. ~Outstanding /\ Outstanding' /\ Open = window /\ Open' = Succ(window)
      BY <2>1 DEF Outstanding, Finished, PowerTypeOK, TypeOK, Open
    <3>2. report = {Pred(window)} \/ (report = {} /\ window = 0)
      BY <3>1, LabelFacts DEF Ledger, Due
    <3>3. window \in Labels
      BY DEF PowerTypeOK, TypeOK
    <3>4. report # {window} /\ ~(report = {} /\ Succ(window) = 0)
      BY <3>2, <3>3, LabelFacts DEF Succ
    <3> QED
      BY <3>1, <3>3, <3>4, LabelFacts DEF Ledger, Due
  <2>2. CASE rxCount + 1 # Cells
    <3>1. Open' = Open /\ (Outstanding' <=> Outstanding)
      BY <2>2 DEF Outstanding, Open, PowerTypeOK, TypeOK
    <3> QED
      BY <3>1 DEF Ledger, Due
  <2> QED
    BY <2>1, <2>2
<1> QED
  BY <1>1, <1>2, <1>3, <1>4, <1>5, <1>6

LEMMA DmaHandler2Keeps ==
  ASSUME PowerInv, DmaHandler2
  PROVE  PowerInv'
<1> USE DaqAssumption DEF PowerInv, DmaHandler2, BufferFull,
        StartSPIAcquisition, DMA_CRC_Calc, mainVars, txVars
<1>1. /\ Finished /\ rxBuffer = currentBuffer
      /\ Open = Succ(window) /\ Open' = Succ(window)
  BY DEF Stages, RolesAgree, Finished, Open
<1>2. window \in Labels /\ rxBuffer \in Buffers
  BY DEF PowerTypeOK, TypeOK
<1>3. PowerTypeOK'
  BY <1>2, LabelFacts, BufferFacts DEF PowerTypeOK, TypeOK
<1>4. RolesAgree'
  BY <1>1, <1>2, BufferFacts DEF RolesAgree
<1>5. Stages'
  BY <1>1 DEF Stages, Finished
<1>6. Placement'
  <2>1. Other(rxBuffer') = rxBuffer /\ Pred(window') = window
    BY <1>1, <1>2, BufferFacts, LabelFacts
  <2>2. Whole(Other(rxBuffer), Pred(window))'
    BY <2>1 DEF Placement, Whole
  <2> QED
    BY <2>2 DEF Placement
<1>7. Progress'
  BY <1>1 DEF Progress, Finished
<1>8. Ledger'
  BY <1>1 DEF Ledger, Due, Outstanding
<1> QED
  BY <1>3, <1>4, <1>5, <1>6, <1>7, <1>8

LEMMA CrcStepKeeps ==
  ASSUME PowerInv, CrcStep
  PROVE  PowerInv'
<1> USE DaqAssumption DEF PowerInv, CrcStep, CrcCell, rxVars, mainVars, txVars
<1>1. PowerTypeOK'
  BY DEF PowerTypeOK, TypeOK, Stages
<1>2. RolesAgree'
  BY DEF RolesAgree
<1>3. Stages'
  BY DEF Stages, Finished, PowerTypeOK, TypeOK
<1>4. Placement' /\ Ledger'
  BY DEF Placement, Outstanding, Whole, Ledger, Due, Open
<1>5. Progress'
  BY DEF Progress
<1> QED
  BY <1>1, <1>2, <1>3, <1>4, <1>5

LEMMA DmaHandler4Keeps ==
  ASSUME PowerInv, DmaHandler4
  PROVE  PowerInv'
<1> USE DaqAssumption DEF PowerInv, DmaHandler4, ChecksumReady, rxVars,
        mainVars, txVars
<1>1. /\ pc = "poll" /\ prevBuffer = currentBuffer /\ rxCount # Cells
      /\ rxBuffer # currentBuffer
  BY DEF Stages, RolesAgree, Finished
<1>2. rxBuffer \in Buffers /\ currentBuffer \in Buffers
  BY DEF PowerTypeOK, TypeOK
<1>3. PowerTypeOK'
  BY BufferFacts DEF PowerTypeOK, TypeOK
<1>4. RolesAgree' /\ currentBuffer' # prevBuffer'
  BY <1>1, <1>2, BufferFacts DEF RolesAgree
<1>5. Stages'
  BY <1>1 DEF Stages
<1>6. Placement' /\ Ledger'
  BY <1>1, <1>4 DEF Placement, Outstanding, Whole, Ledger, Due, Open
<1>7. Progress'
  BY DEF Progress
<1> QED
  BY <1>3, <1>4, <1>5, <1>6, <1>7

LEMMA PollBufferKeeps ==
  ASSUME PowerInv, PollBuffer
  PROVE  PowerInv'
<1> USE DaqAssumption DEF PowerInv, PollBuffer, bufferVars, rxVars, crcVars,
        txVars
<1>1. PowerTypeOK'
  BY DEF PowerTypeOK, TypeOK
<1>2. RolesAgree'
  BY DEF RolesAgree
<1>3. Stages'
  BY DEF Stages, Finished
<1>4. Placement' /\ Ledger'
  BY DEF Placement, Outstanding, Whole, Ledger, Due, Open
<1>5. Progress'
  BY DEF Progress
<1> QED
  BY <1>1, <1>2, <1>3, <1>4, <1>5

(* The buffer that SB_RMS reads is the one that is not being filled.       *)
LEMMA SumFacts ==
  ASSUME PowerInv, pc = "sum"
  PROVE  /\ Computed = Other(rxBuffer)
         /\ Open = window /\ Outstanding /\ rxCount < Cells
         /\ Whole(Computed, Pred(window))
<1>1. crcState = "idle" /\ prevBuffer = currentBuffer /\ rxCount # Cells
  BY DEF PowerInv, Stages, Finished
<1>2. rxBuffer = currentBuffer
  BY <1>1 DEF PowerInv, RolesAgree
<1>3. Outstanding /\ rxCount < Cells
  BY <1>1, DaqAssumption DEF Outstanding, PowerInv, PowerTypeOK, TypeOK
<1> QED
  BY <1>1, <1>2, <1>3 DEF PowerInv, Placement, Computed, Open

LEMMA SumKeeps ==
  ASSUME PowerInv, SB_RMS
  PROVE  PowerInv'
<1> USE DaqAssumption DEF PowerInv, SB_RMS, bufferVars, rxVars, crcVars, txVars
<1>1. sumCount + 1 \in 1 .. Cells
  BY DEF PowerTypeOK, TypeOK
<1>2. data[Computed][sumCount + 1] = Pred(window)
  BY <1>1, SumFacts DEF Whole
<1>3. PowerTypeOK'
  BY <1>1, <1>2, LabelFacts DEF PowerTypeOK, TypeOK
<1>4. RolesAgree'
  BY DEF RolesAgree
<1>5. Stages'
  BY DEF Stages, Finished
<1>6. Placement' /\ Ledger'
  BY DEF Placement, Outstanding, Whole, Ledger, Due, Open
<1>7. Progress'
  BY <1>2 DEF Progress
<1> QED
  BY <1>3, <1>4, <1>5, <1>6, <1>7

LEMMA SendKeeps ==
  ASSUME PowerInv, SendMessage
  PROVE  PowerInv' /\ report' = {Pred(Open)} /\ Due = {Pred(Open)}
<1> USE DaqAssumption DEF PowerInv, SendMessage, bufferVars, rxVars, crcVars
<1>1. report' = {Pred(window)} /\ Due = {Pred(Open)} /\ Open = window
  BY SumFacts DEF Progress, Ledger
<1>2. ~Outstanding'
  BY SumFacts DEF Outstanding, Stages, Finished
<1>3. PowerTypeOK'
  BY DEF PowerTypeOK, TypeOK
<1>4. RolesAgree' /\ Stages' /\ Progress'
  BY SumFacts DEF RolesAgree, Stages, Finished, Progress
<1>5. Placement'
  BY <1>2 DEF Placement
<1>6. Ledger'
  BY <1>1, <1>2 DEF Ledger, Due, Open
<1> QED
  BY <1>1, <1>3, <1>4, <1>5, <1>6

LEMMA DestroyKeeps ==
  ASSUME PowerInv, destroy_message
  PROVE  PowerInv'
<1> USE DEF PowerInv, destroy_message, bufferVars, rxVars, crcVars
<1>1. PowerTypeOK'
  BY DEF PowerTypeOK, TypeOK
<1>2. RolesAgree' /\ Stages' /\ Progress'
  BY DEF RolesAgree, Stages, Finished, Progress
<1>3. Placement' /\ Ledger'
  BY DEF Placement, Outstanding, Whole, Ledger, Due, Open
<1> QED
  BY <1>1, <1>2, <1>3

LEMMA TransferDoneKeeps ==
  ASSUME PowerInv, TransferDone
  PROVE  PowerInv'
<1> USE DEF PowerInv, TransferDone, bufferVars, rxVars, crcVars, mainVars
<1>1. PowerTypeOK'
  BY DEF PowerTypeOK, TypeOK
<1>2. RolesAgree' /\ Stages' /\ Progress'
  BY DEF RolesAgree, Stages, Finished, Progress
<1>3. Placement' /\ Ledger'
  BY DEF Placement, Outstanding, Whole, Ledger, Due, Open
<1> QED
  BY <1>1, <1>2, <1>3

LEMMA PowerStutters ==
  ASSUME PowerInv, UNCHANGED vars
  PROVE  PowerInv'
<1> USE DEF PowerInv, vars, bufferVars, rxVars, crcVars, mainVars, txVars
<1>1. PowerTypeOK'
  BY DEF PowerTypeOK, TypeOK
<1>2. RolesAgree' /\ Stages' /\ Progress'
  BY DEF RolesAgree, Stages, Finished, Progress
<1>3. Placement' /\ Ledger'
  BY DEF Placement, Outstanding, Whole, Ledger, Due, Open
<1> QED
  BY <1>1, <1>2, <1>3

LEMMA PowerInvariant == Spec => []PowerInv
<1>1. PowerInv /\ [Next]_vars => PowerInv'
  BY SampleKeeps, DmaHandler2Keeps, CrcStepKeeps, DmaHandler4Keeps,
     PollBufferKeeps, SumKeeps, SendKeeps, DestroyKeeps, TransferDoneKeeps,
     PowerStutters
  DEF Next
<1> QED
  BY <1>1, PowerInitInv, PTL DEF Spec

-----------------------------------------------------------------------------
(* What follows from it.                                                   *)

(* The state of the meter is well typed: no index leaves its buffer.       *)
THEOREM PowerTypeCorrect == Spec => []PowerTypeOK
  BY PowerInvariant, PTL DEF PowerInv

(* currentBuffer and the buffer being filled differ exactly while a        *)
(* checksum is computed or waits for its handler.                          *)
THEOREM PowerRolesAgree == Spec => []RolesAgree
  BY PowerInvariant, PTL DEF PowerInv

(* The main loop only ever sums the samples of one complete window.        *)
THEOREM SumsWholeWindows == Spec => []WholeWindow
<1>1. PowerInv => WholeWindow
  <2> SUFFICES ASSUME PowerInv, pc = "sum"
               PROVE  Held(Computed) = {Pred(Open)} /\ sum \subseteq {Pred(Open)}
    BY DEF WholeWindow
  <2>1. Held(Computed) = {Pred(window)}
    BY SumFacts, WholeHolds
  <2> QED
    BY <2>1, SumFacts DEF PowerInv, Progress
<1> QED
  BY <1>1, PowerInvariant, PTL

-----------------------------------------------------------------------------
(* The refinement.                                                         *)

LEMMA SameLabels ==
  \A w : Reports!Succ(w) = Succ(w) /\ Reports!Pred(w) = Pred(w)
  BY DEF Reports!Succ, Succ, Reports!Pred, Pred

(* A step that leaves the open window and the last report alone is a       *)
(* stutter.                                                                *)
LEMMA SameDue ==
  ASSUME Open' = Open, report' = report
  PROVE  UNCHANGED <<Open, Due, report>>
  BY DEF Due

(* A sample either completes the window, with nothing due before, or       *)
(* changes nothing that the promise speaks of.                             *)
LEMMA SampleMaps ==
  ASSUME PowerInv, PowerInv', Sample
  PROVE  [Reports!Next]_<<Open, Due, report>>
<1> USE DEF Sample, SampleArrives, mainVars, txVars
<1>1. CASE rxCount + 1 = Cells
  <2>1. ~Outstanding /\ Outstanding' /\ Open = window /\ Open' = Succ(window)
    BY <1>1, DaqAssumption
       DEF Outstanding, Finished, PowerInv, PowerTypeOK, TypeOK, Open
  <2>2. Due = {} /\ Due' = {Pred(Succ(window))}
    BY <2>1 DEF PowerInv, Ledger
  <2>3. Due' = {Open}
    BY <2>1, <2>2, LabelFacts DEF PowerInv, PowerTypeOK, TypeOK
  <2> QED
    BY <2>1, <2>2, <2>3, SameLabels DEF Reports!Next, Reports!Complete
<1>2. CASE rxCount + 1 # Cells
  <2>1. Open' = Open
    BY <1>2, DaqAssumption DEF Open, PowerInv, PowerTypeOK, TypeOK
  <2> QED
    BY <2>1, SameDue
<1> QED
  BY <1>1, <1>2

LEMMA DmaHandler2Maps ==
  ASSUME PowerInv, DmaHandler2
  PROVE  UNCHANGED <<Open, Due, report>>
<1>1. Open' = Open /\ report' = report
  BY DaqAssumption
     DEF DmaHandler2, BufferFull, StartSPIAcquisition, Open, txVars
<1> QED
  BY <1>1, SameDue

LEMMA SendMaps ==
  ASSUME PowerInv, PowerInv', SendMessage
  PROVE  Reports!Next
<1>1. Open' = Open /\ report' = Due /\ Due # {}
  BY SendKeeps DEF SendMessage, bufferVars, rxVars, Open
<1>2. Due' = {}
  BY <1>1, SendKeeps DEF Due
<1> QED
  BY <1>1, <1>2 DEF Reports!Next, Reports!Report

(* Every window is reported once, by itself and in order.                  *)
THEOREM PowerImplementsReports == Spec => ImplementsReports
<1>1. PowerInit => Reports!Init
  BY DaqAssumption DEF PowerInit, Init, Reports!Init, Open, Due
<1>2. PowerInv /\ PowerInv' /\ [Next]_vars
        => [Reports!Next]_<<Open, Due, report>>
  <2> SUFFICES ASSUME PowerInv, PowerInv', [Next]_vars
               PROVE  [Reports!Next]_<<Open, Due, report>>
    OBVIOUS
  <2>1. CASE UNCHANGED <<rxVars, report>>
    <3>1. Open' = Open /\ report' = report
      BY <2>1 DEF rxVars, Open
    <3> QED
      BY <3>1, SameDue
  <2>2. CrcStep \/ DmaHandler4 \/ PollBuffer \/ SB_RMS \/ destroy_message
          \/ TransferDone \/ UNCHANGED vars
        => UNCHANGED <<rxVars, report>>
    BY DEF CrcStep, CrcCell, DmaHandler4, ChecksumReady, PollBuffer, SB_RMS,
           destroy_message, TransferDone, vars, bufferVars, txVars
  <2> QED
    BY <2>1, <2>2, SampleMaps, DmaHandler2Maps, SendMaps DEF Next
<1> QED
  BY <1>1, <1>2, PowerInvariant, PTL DEF Spec, ImplementsReports, Reports!Spec
=============================================================================
