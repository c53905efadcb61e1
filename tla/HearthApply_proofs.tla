------------------------- MODULE HearthApply_proofs -------------------------
(***************************************************************************)
(* What holds of an apply for every set of versions and bundles, and every *)
(* number of offers, power losses, failed writes and hand reflashes.       *)
(*                                                                         *)
(* An apply is a program counter over files, so each invariant says what a *)
(* place in it may count on: the retained image is rotated in the order    *)
(* that keeps its meta from naming another image, and the attempt written  *)
(* to the state file is ahead of the flash it counts.                      *)
(***************************************************************************)
EXTENDS HearthApply, TLAPS

\* The places from hearthApply() to the end of the success tail.
FwPlaces == {"apply", "resume", "attempt", "flash", "confirm fw", "drop bin", "drop meta",
             "write bin", "close bin", "write meta", "fw done", "record fw"}

Kinds ==
  /\ sketch \in Versions /\ staged \in Maybe
  /\ hostPrev \in Maybe /\ retainedMeta \in Maybe

Places ==
  /\ pc \in FwPlaces => staged \in HasFw
  /\ pc \in {"write bin", "close bin", "write meta"} => retainedMeta = None
  /\ pc = "write meta" => retainedBin = FwOf[staged]
  /\ pc = "roll back" => retainedBin \in Versions
  /\ slot = "prev" => hostPrev \in Versions

StageInv == Kinds /\ Places /\ RetainedConsistent

\* A Hearth part has a version, and a bundle is a version.
LEMMA Parts ==
  /\ First \in Versions /\ Bundles \subseteq Versions /\ HasHost \subseteq Versions
  /\ HasFw \subseteq Bundles
  /\ \A v \in HasFw : FwOf[v] \in Versions
BY ApplyAssumption DEF ApplyAssumption, HasFw, None

\* Definitions the steps below have in common.

\* The files through the steps of the Hearth part.
LEMMA StageFwStep ==
  ASSUME StageInv, FwStep
  PROVE  StageInv'
<1> USE DEF Kinds, Places, FwPlaces, StageInv, RetainedConsistent, Maybe, None, Torn, Goto, Rest,
  WriteOk, WriteFails, SaveState, SaveManifest,
  ClearState, HaveRetained, OpensFlasher, ResumeGoesOn, files, durable, memory, bounds, history
<1>1. CASE ApplyFw
  BY Parts, <1>1 DEF ApplyFw
<1>2. CASE SaveAttempt
  BY Parts, <1>2 DEF SaveAttempt
<1>3. CASE AttemptsSpent
  BY Parts, <1>3 DEF AttemptsSpent
<1>4. CASE Flash
  BY Parts, <1>4 DEF Flash, NextAttempt
<1>5. CASE ConfirmFw
  BY Parts, <1>5 DEF ConfirmFw, NextAttempt
<1>6. CASE DropBin
  BY Parts, <1>6 DEF DropBin, fwRest
<1>7. CASE DropMeta
  BY Parts, <1>7 DEF DropMeta, fwRest
<1>8. CASE OpenBin
  BY Parts, <1>8 DEF OpenBin, fwRest
<1>9. CASE CloseBin
  BY Parts, <1>9 DEF CloseBin, fwRest
<1>10. CASE WriteMeta
  BY Parts, <1>10 DEF WriteMeta, fwRest
<1>11. CASE FwDone
  BY Parts, <1>11 DEF FwDone
<1>12. CASE RecordFw
  BY Parts, <1>12 DEF RecordFw
<1>13. CASE DropStaged
  BY Parts, <1>13 DEF DropStaged
<1>14. CASE ClearAfterFw
  BY Parts, <1>14 DEF ClearAfterFw
<1>15. CASE FwFailed
  BY Parts, <1>15 DEF FwFailed
<1>16. CASE RollBack
  BY Parts, <1>16 DEF RollBack
<1>17. CASE Fail
  BY Parts, <1>17 DEF Fail
<1> QED
  BY <1>1, <1>2, <1>3, <1>4, <1>5, <1>6, <1>7, <1>8, <1>9, <1>10, <1>11, <1>12, <1>13, <1>14, <1>15, <1>16, <1>17 DEF FwStep

\* The files through the steps of the host part.
LEMMA StageHostPartStep ==
  ASSUME StageInv, HostPartStep
  PROVE  StageInv'
<1> USE DEF Kinds, Places, FwPlaces, StageInv, RetainedConsistent, Maybe, None, Torn, Goto, Rest,
  WriteOk, WriteFails, SaveState, SaveManifest,
  ClearState, HaveRetained, OpensFlasher, ResumeGoesOn, files, durable, memory, bounds, history
<1>1. CASE DeclareHost
  BY Parts, <1>1 DEF DeclareHost
<1>2. CASE SavePrev
  BY Parts, <1>2 DEF SavePrev, HostFails, hostRest
<1>3. CASE StageHost
  BY Parts, <1>3 DEF StageHost, HostFails, hostRest
<1>4. CASE SaveHost
  BY Parts, <1>4 DEF SaveHost, hostRest
<1>5. CASE Reboot
  BY Parts, <1>5 DEF Reboot, Boots
<1>6. CASE RecordHost
  BY Parts, <1>6 DEF RecordHost
<1>7. CASE ClearHost
  BY Parts, <1>7 DEF ClearHost
<1>8. CASE DropHost
  BY Parts, <1>8 DEF DropHost
<1>9. CASE PutBack
  BY Parts, <1>9 DEF PutBack
<1>10. CASE SaveConfirm
  BY Parts, <1>10 DEF SaveConfirm
<1> QED
  BY <1>1, <1>2, <1>3, <1>4, <1>5, <1>6, <1>7, <1>8, <1>9, <1>10 DEF HostPartStep

\* The files through the steps of begin().
LEMMA StageBeginStep ==
  ASSUME StageInv, BeginStep
  PROVE  StageInv'
<1> USE DEF Kinds, Places, FwPlaces, StageInv, RetainedConsistent, Maybe, None, Torn, Goto, Rest,
  WriteOk, WriteFails, SaveState, SaveManifest,
  ClearState, HaveRetained, OpensFlasher, ResumeGoesOn, files, durable, memory, bounds, history
<1>1. CASE BeginLoad
  BY Parts, <1>1 DEF BeginLoad, Resumable
<1>2. CASE ResumeFw
  BY Parts, <1>2 DEF ResumeFw
<1>3. CASE Declared
  BY Parts, <1>3 DEF Declared, beginRest
<1>4. CASE NotDeclared
  BY Parts, <1>4 DEF NotDeclared, FirstBootHostConfirm, beginRest
<1>5. CASE Probed
  BY Parts, <1>5 DEF Probed, FirstBootHostConfirm, beginRest
<1>6. CASE NotProbed
  BY Parts, <1>6 DEF NotProbed, beginRest
<1> QED
  BY <1>1, <1>2, <1>3, <1>4, <1>5, <1>6 DEF BeginStep

LEMMA StageInit == Init => StageInv
BY Parts DEF Init, StageInv, Kinds, Places, FwPlaces, RetainedConsistent, Maybe, None

LEMMA StageStep ==
  ASSUME StageInv, [Next]_vars
  PROVE  StageInv'
<1> USE DEF Kinds, Places, FwPlaces, StageInv, RetainedConsistent, Maybe, None, Torn, Goto, Rest,
  WriteOk, WriteFails, SaveState, SaveManifest,
  ClearState, HaveRetained, OpensFlasher, ResumeGoesOn, files, durable, memory, bounds, history
<1>1. CASE Offer
  BY Parts, <1>1 DEF Offer, CanOffer, SelectsFw
<1>2. CASE OfferNothing
  BY Parts, <1>2 DEF OfferNothing, CanOffer
<1>3. CASE OfferDropped
  BY Parts, <1>3 DEF OfferDropped
<1>4. CASE RequestorRetry
  BY Parts, <1>4 DEF RequestorRetry, idle
<1>5. CASE Reprobe
  BY Parts, <1>5 DEF Reprobe
<1>6. CASE PowerLoss
  BY Parts, <1>6 DEF PowerLoss, Boots
<1>7. CASE UsbReflash
  BY Parts, <1>7 DEF UsbReflash
<1>8. CASE UNCHANGED vars
  BY <1>8 DEF vars
<1> QED
  BY <1>1, <1>2, <1>3, <1>4, <1>5, <1>6, <1>7, <1>8, StageFwStep, StageHostPartStep, StageBeginStep DEF Next

\* RetainedConsistent: whatever step the power goes at, a meta never stands
\* beside a torn image or beside the image of another version, so
\* hearthFwFailed() flashes back what the meta says or nothing.
THEOREM ApplyRetainedConsistent == Spec => []RetainedConsistent
<1>1. StageInv => RetainedConsistent
  BY DEF StageInv
<1> QED
  BY <1>1, StageInit, StageStep, PTL DEF Spec

---------------------------------------------------------------------------
(* The attempts.                                                           *)

Records ==
  /\ job \in JobRecord /\ stateFile \in StateRecord
  /\ pc \in {"flash", "confirm fw"} => job.attempt <= 3

LEMMA NoRecords ==
  /\ NoJob \in JobRecord /\ NoState \in StateRecord
  /\ NoState.phase = "none" /\ NoState.attempts = 0
BY DEF NoJob, NoState, JobRecord, StateRecord, Maybe, None, Phases

\* Building the records.
LEMMA MakeState ==
  ASSUME NEW p \in Phases, NEW n \in 0 .. 3, NEW t \in Maybe, NEW h \in BOOLEAN
  PROVE  [phase |-> p, attempts |-> n, target |-> t, host |-> h] \in StateRecord
BY DEF StateRecord

LEMMA MakeJob ==
  ASSUME NEW n \in 0 .. 4, NEW t \in Maybe, NEW h \in BOOLEAN
  PROVE  [fw |-> TRUE, host |-> h, target |-> t, attempt |-> n, resumed |-> TRUE]
           \in JobRecord
BY DEF JobRecord

LEMMA FirstNumber ==
  /\ FirstAttempt(0) = 1 /\ FirstAttempt(0) \in 0 .. 4
  /\ \A n \in 0 .. 3 : FirstAttempt(n) = n + 1 /\ FirstAttempt(n) \in 0 .. 4
BY DEF FirstAttempt

LEMMA MakeHostState ==
  ASSUME NEW t \in Maybe
  PROVE  [phase |-> "HOST", attempts |-> 0, target |-> t, host |-> TRUE] \in StateRecord
BY DEF StateRecord, Phases

LEMMA JobAttempt ==
  ASSUME NEW j \in JobRecord, NEW n \in 0 .. 4
  PROVE  /\ [j EXCEPT !.attempt = n] \in JobRecord
         /\ [j EXCEPT !.attempt = n].attempt = n
BY DEF JobRecord

\* Another attempt at the same part.
LEMMA JobNext ==
  ASSUME Records, job.attempt <= 3, NextAttempt
  PROVE  job' \in JobRecord /\ job'.attempt = job.attempt + 1 /\ pc' = "attempt"
<1>1. job \in JobRecord /\ job.attempt \in 0 .. 4
  BY DEF Records, JobRecord
<1>2. job.attempt + 1 \in 0 .. 4
  BY <1>1
<1> QED
  BY <1>1, <1>2, JobAttempt DEF NextAttempt, Goto

\* The numbers the records hold.
LEMMA Numbers ==
  ASSUME Records
  PROVE  job.attempt \in 0 .. 4 /\ stateFile.attempts \in 0 .. 3
BY DEF Records, JobRecord, StateRecord

\* The records through the steps of the Hearth part.
LEMMA RecordsFwStep ==
  ASSUME StageInv, Records, FwStep
  PROVE  Records'
<1> USE DEF Records, Goto, Rest, WriteOk, WriteFails, SaveState, SaveManifest,
  ClearState, HaveRetained, OpensFlasher, ResumeGoesOn, files, durable, memory, bounds, history
<1>1. CASE ApplyFw
  <2>1. FirstAttempt(0) \in 0 .. 4
    BY FirstNumber
  <2>2. [job EXCEPT !.attempt = FirstAttempt(0)] \in JobRecord
    BY <2>1, JobAttempt
  <2> QED
    BY <1>1, <2>2 DEF ApplyFw
<1>2. CASE SaveAttempt
  <2>1. job.attempt \in 0 .. 3 /\ job' = job
    BY <1>2, Numbers DEF SaveAttempt, AttemptsLeft
  <2>2. [phase |-> "FW", attempts |-> job.attempt, target |-> job.target, host |-> job.host]
          \in StateRecord
    <3>1. job.target \in Maybe /\ job.host \in BOOLEAN
      BY DEF JobRecord
    <3> QED
      BY <2>1, <3>1, MakeState DEF Phases
  <2>3. stateFile' \in StateRecord
    BY <1>2, <2>2 DEF SaveAttempt
  <2> QED
    BY <1>2, <2>1, <2>3 DEF SaveAttempt
<1>3. CASE AttemptsSpent
  BY NoRecords, <1>3 DEF AttemptsSpent
<1>4. CASE Flash
  <2>1. job.attempt <= 3 /\ stateFile' = stateFile
    BY <1>4 DEF Flash
  <2>2. CASE NextAttempt
    BY <2>1, <2>2, JobNext
  <2>3. CASE Goto("confirm fw") /\ UNCHANGED job
    BY <2>1, <2>3
  <2> QED
    BY <1>4, <2>2, <2>3 DEF Flash
<1>5. CASE ConfirmFw
  <2>1. job.attempt <= 3 /\ stateFile' = stateFile
    BY <1>5 DEF ConfirmFw
  <2>2. CASE NextAttempt
    BY <2>1, <2>2, JobNext
  <2>3. CASE Goto("drop bin") /\ UNCHANGED job
    BY <2>1, <2>3
  <2> QED
    BY <1>5, <2>2, <2>3 DEF ConfirmFw
<1>6. CASE DropBin
  BY NoRecords, <1>6 DEF DropBin, fwRest
<1>7. CASE DropMeta
  BY NoRecords, <1>7 DEF DropMeta, fwRest
<1>8. CASE OpenBin
  BY NoRecords, <1>8 DEF OpenBin, fwRest
<1>9. CASE CloseBin
  BY NoRecords, <1>9 DEF CloseBin, fwRest
<1>10. CASE WriteMeta
  BY NoRecords, <1>10 DEF WriteMeta, fwRest
<1>11. CASE FwDone
  BY NoRecords, <1>11 DEF FwDone
<1>12. CASE RecordFw
  BY NoRecords, <1>12 DEF RecordFw
<1>13. CASE DropStaged
  BY NoRecords, <1>13 DEF DropStaged
<1>14. CASE ClearAfterFw
  BY NoRecords, <1>14 DEF ClearAfterFw
<1>15. CASE FwFailed
  BY NoRecords, <1>15 DEF FwFailed
<1>16. CASE RollBack
  BY NoRecords, <1>16 DEF RollBack
<1>17. CASE Fail
  BY NoRecords, <1>17 DEF Fail
<1> QED
  BY <1>1, <1>2, <1>3, <1>4, <1>5, <1>6, <1>7, <1>8, <1>9, <1>10, <1>11, <1>12, <1>13, <1>14, <1>15, <1>16, <1>17 DEF FwStep

\* The records through the steps of the host part.
LEMMA RecordsHostPartStep ==
  ASSUME StageInv, Records, HostPartStep
  PROVE  Records'
<1> USE DEF Records, Goto, Rest, WriteOk, WriteFails, SaveState, SaveManifest,
  ClearState, HaveRetained, OpensFlasher, ResumeGoesOn, files, durable, memory, bounds, history
<1>1. CASE DeclareHost
  BY NoRecords, <1>1 DEF DeclareHost
<1>2. CASE SavePrev
  BY NoRecords, <1>2 DEF SavePrev, HostFails, hostRest
<1>3. CASE StageHost
  BY NoRecords, <1>3 DEF StageHost, HostFails, hostRest
<1>4. CASE SaveHost
  <2>1. [phase |-> "HOST", attempts |-> 0, target |-> staged, host |-> TRUE] \in StateRecord
    BY MakeHostState DEF StageInv, Kinds
  <2>2. stateFile' \in StateRecord
    BY <1>4, <2>1 DEF SaveHost
  <2>3. job' \in JobRecord
    BY <1>4, NoRecords DEF SaveHost, hostRest
  <2> QED
    BY <1>4, <2>2, <2>3 DEF SaveHost
<1>5. CASE Reboot
  BY NoRecords, <1>5 DEF Reboot, Boots
<1>6. CASE RecordHost
  BY NoRecords, <1>6 DEF RecordHost
<1>7. CASE ClearHost
  BY NoRecords, <1>7 DEF ClearHost
<1>8. CASE DropHost
  BY NoRecords, <1>8 DEF DropHost
<1>9. CASE PutBack
  BY NoRecords, <1>9 DEF PutBack
<1>10. CASE SaveConfirm
  <2>1. [stateFile EXCEPT !.phase = "HOST_CONFIRM"] \in StateRecord
    BY DEF StateRecord, Phases
  <2> QED
    BY <1>10, <2>1 DEF SaveConfirm
<1> QED
  BY <1>1, <1>2, <1>3, <1>4, <1>5, <1>6, <1>7, <1>8, <1>9, <1>10 DEF HostPartStep

\* The records through the steps of begin().
LEMMA RecordsBeginStep ==
  ASSUME StageInv, Records, BeginStep
  PROVE  Records'
<1> USE DEF Records, Goto, Rest, WriteOk, WriteFails, SaveState, SaveManifest,
  ClearState, HaveRetained, OpensFlasher, ResumeGoesOn, files, durable, memory, bounds, history
<1>1. CASE BeginLoad
  <2>1. [fw |-> TRUE, host |-> stateFile.host, target |-> stateFile.target,
         attempt |-> FirstAttempt(stateFile.attempts), resumed |-> TRUE] \in JobRecord
    <3>1. FirstAttempt(stateFile.attempts) \in 0 .. 4
      BY Numbers, FirstNumber
    <3>2. stateFile.target \in Maybe /\ stateFile.host \in BOOLEAN
      BY DEF StateRecord
    <3> QED
      BY <3>1, <3>2, MakeJob
  <2>2. job' \in JobRecord
    BY <1>1, <2>1 DEF BeginLoad
  <2>3. stateFile' \in StateRecord
    BY <1>1, NoRecords DEF BeginLoad
  <2> QED
    BY <1>1, <2>2, <2>3 DEF BeginLoad
<1>2. CASE ResumeFw
  BY NoRecords, <1>2 DEF ResumeFw
<1>3. CASE Declared
  BY NoRecords, <1>3 DEF Declared, beginRest
<1>4. CASE NotDeclared
  BY NoRecords, <1>4 DEF NotDeclared, FirstBootHostConfirm, beginRest
<1>5. CASE Probed
  BY NoRecords, <1>5 DEF Probed, FirstBootHostConfirm, beginRest
<1>6. CASE NotProbed
  BY NoRecords, <1>6 DEF NotProbed, beginRest
<1> QED
  BY <1>1, <1>2, <1>3, <1>4, <1>5, <1>6 DEF BeginStep

LEMMA RecordsStep ==
  ASSUME StageInv, Records, [Next]_vars
  PROVE  Records'
<1> USE DEF Records, Goto, Rest, WriteOk, WriteFails, SaveState, SaveManifest,
  ClearState, HaveRetained, OpensFlasher, ResumeGoesOn, files, durable, memory, bounds, history
<1>1. CASE Offer
  <2>1. PICK v \in Bundles : /\ Goto(IF SelectsFw(v) THEN "apply" ELSE "host")
             /\ job' = [NoJob EXCEPT !.target = v, !.fw = SelectsFw(v),
                                    !.host = SelectsHost(v)]
    BY <1>1 DEF Offer
  <2>2. SelectsFw(v) \in BOOLEAN /\ SelectsHost(v) \in BOOLEAN /\ v \in Maybe
    BY Parts DEF SelectsFw, SelectsHost, Maybe
  <2>3. job' \in JobRecord
    BY <2>1, <2>2, NoRecords DEF JobRecord
  <2> QED
    BY <1>1, <2>1, <2>3 DEF Offer
<1>2. CASE OfferNothing
  BY NoRecords, <1>2 DEF OfferNothing, CanOffer
<1>3. CASE OfferDropped
  BY NoRecords, <1>3 DEF OfferDropped
<1>4. CASE RequestorRetry
  BY NoRecords, <1>4 DEF RequestorRetry, idle
<1>5. CASE Reprobe
  BY NoRecords, <1>5 DEF Reprobe
<1>6. CASE PowerLoss
  BY NoRecords, <1>6 DEF PowerLoss, Boots
<1>7. CASE UsbReflash
  BY NoRecords, <1>7 DEF UsbReflash
<1>8. CASE UNCHANGED vars
  BY <1>8 DEF vars
<1> QED
  BY <1>1, <1>2, <1>3, <1>4, <1>5, <1>6, <1>7, <1>8, RecordsFwStep, RecordsHostPartStep,
     RecordsBeginStep DEF Next

LoopPlaces == {"apply", "resume", "attempt", "flash", "confirm fw"}

Counts == flashes \in Nat /\ faults \in Nat

\* The attempt a state file records is ahead of the flash it counts, and a
\* resume goes on from the record: the count never falls behind.
Counted ==
  /\ flashes <= 3
  /\ stateFile.phase = "FW" => flashes <= stateFile.attempts
  /\ pc = "apply" => flashes = 0
  /\ pc \in {"resume", "attempt"} => flashes < job.attempt
  /\ pc = "flash" => /\ flashes < job.attempt
                     /\ stateFile.phase = "FW" /\ stateFile.attempts = job.attempt
  /\ pc = "confirm fw" => flashes <= job.attempt

Attempts == Counts /\ (faults = 0 => Counted)

\* A step that stays out of the loop of attempts.
Aside ==
  /\ flashes' = flashes \/ flashes' = 0
  /\ faults' = faults \/ faults' = faults + 1
  /\ stateFile' = stateFile \/ stateFile'.phase # "FW"
  /\ pc' \notin LoopPlaces

\* A write that fails ends the count.
LEMMA NoFaultYet ==
  ASSUME Counts, faults' = faults \/ faults' = faults + 1
  PROVE  faults' \in Nat /\ (faults' = 0 => faults = 0)
<1>1. faults \in Nat /\ faults + 1 \in Nat /\ faults + 1 # 0
  BY DEF Counts
<1>2. CASE faults' = faults
  BY <1>1, <1>2
<1>3. CASE faults' = faults + 1
  BY <1>1, <1>3
<1> QED
  BY <1>2, <1>3

LEMMA AsideAttempts ==
  ASSUME Records, Attempts, Aside
  PROVE  Attempts'
<1>1. faults' \in Nat /\ (faults' = 0 => faults = 0)
  BY NoFaultYet DEF Attempts, Aside
<1>2. flashes \in Nat /\ stateFile.attempts \in 0 .. 3
  BY Numbers DEF Attempts, Counts
<1>3. Counts'
  BY <1>1, <1>2 DEF Aside, Counts
<1>4. SUFFICES ASSUME Counted PROVE Counted'
  BY <1>1, <1>3 DEF Attempts
<1>5. flashes <= 3 /\ (stateFile.phase = "FW" => flashes <= stateFile.attempts)
  BY <1>4 DEF Counted
<1>6. CASE flashes' = flashes
  <2>1. flashes' <= 3 /\ (stateFile'.phase = "FW" => flashes' <= stateFile'.attempts)
    BY <1>5, <1>6 DEF Aside
  <2> QED
    BY <2>1 DEF Aside, LoopPlaces, Counted
<1>7. CASE flashes' = 0
  <2>1. flashes' <= 3 /\ (stateFile'.phase = "FW" => flashes' <= stateFile'.attempts)
    BY <1>2, <1>7 DEF Aside
  <2> QED
    BY <2>1 DEF Aside, LoopPlaces, Counted
<1> QED
  BY <1>6, <1>7 DEF Aside


\* The steps of the Hearth part outside the loop.
LEMMA AsideFwStep ==
  ASSUME Records, AttemptsSpent \/ DropBin \/ DropMeta \/ OpenBin \/ CloseBin \/ WriteMeta \/ FwDone \/ RecordFw \/ DropStaged \/ ClearAfterFw \/ FwFailed \/ RollBack \/ Fail
  PROVE  Aside
<1> USE DEF Aside, LoopPlaces, Goto, Rest, WriteOk, WriteFails, SaveState, SaveManifest,
  ClearState, HaveRetained, OpensFlasher, ResumeGoesOn, files, durable, memory, bounds, history
<1>1. CASE AttemptsSpent
  BY NoRecords, <1>1 DEF AttemptsSpent
<1>2. CASE DropBin
  BY NoRecords, <1>2 DEF DropBin, fwRest
<1>3. CASE DropMeta
  BY NoRecords, <1>3 DEF DropMeta, fwRest
<1>4. CASE OpenBin
  BY NoRecords, <1>4 DEF OpenBin, fwRest
<1>5. CASE CloseBin
  BY NoRecords, <1>5 DEF CloseBin, fwRest
<1>6. CASE WriteMeta
  BY NoRecords, <1>6 DEF WriteMeta, fwRest
<1>7. CASE FwDone
  BY NoRecords, <1>7 DEF FwDone
<1>8. CASE RecordFw
  BY NoRecords, <1>8 DEF RecordFw
<1>9. CASE DropStaged
  BY NoRecords, <1>9 DEF DropStaged
<1>10. CASE ClearAfterFw
  BY NoRecords, <1>10 DEF ClearAfterFw
<1>11. CASE FwFailed
  BY NoRecords, <1>11 DEF FwFailed
<1>12. CASE RollBack
  BY NoRecords, <1>12 DEF RollBack
<1>13. CASE Fail
  BY NoRecords, <1>13 DEF Fail
<1> QED
  BY <1>1, <1>2, <1>3, <1>4, <1>5, <1>6, <1>7, <1>8, <1>9, <1>10, <1>11, <1>12, <1>13

\* The steps of the host part outside the loop.
LEMMA AsideHostPartStep ==
  ASSUME Records, DeclareHost \/ SavePrev \/ StageHost \/ SaveHost \/ Reboot \/ RecordHost \/ ClearHost \/ DropHost \/ PutBack \/ SaveConfirm
  PROVE  Aside
<1> USE DEF Aside, LoopPlaces, Goto, Rest, WriteOk, WriteFails, SaveState, SaveManifest,
  ClearState, HaveRetained, OpensFlasher, ResumeGoesOn, files, durable, memory, bounds, history
<1>1. CASE DeclareHost
  BY NoRecords, <1>1 DEF DeclareHost
<1>2. CASE SavePrev
  BY NoRecords, <1>2 DEF SavePrev, HostFails, hostRest
<1>3. CASE StageHost
  BY NoRecords, <1>3 DEF StageHost, HostFails, hostRest
<1>4. CASE SaveHost
  <2>1. [phase |-> "HOST", attempts |-> 0, target |-> staged, host |-> TRUE].phase # "FW"
    OBVIOUS
  <2> QED
    BY <1>4, <2>1 DEF SaveHost, hostRest
<1>5. CASE Reboot
  BY NoRecords, <1>5 DEF Reboot, Boots
<1>6. CASE RecordHost
  BY NoRecords, <1>6 DEF RecordHost
<1>7. CASE ClearHost
  BY NoRecords, <1>7 DEF ClearHost
<1>8. CASE DropHost
  BY NoRecords, <1>8 DEF DropHost
<1>9. CASE PutBack
  BY NoRecords, <1>9 DEF PutBack
<1>10. CASE SaveConfirm
  <2>1. [stateFile EXCEPT !.phase = "HOST_CONFIRM"].phase # "FW"
    BY DEF Records, StateRecord
  <2> QED
    BY <1>10, <2>1 DEF SaveConfirm
<1> QED
  BY <1>1, <1>2, <1>3, <1>4, <1>5, <1>6, <1>7, <1>8, <1>9, <1>10

\* The steps of begin() outside the loop.
LEMMA AsideBeginStep ==
  ASSUME Records, Declared \/ NotDeclared \/ Probed \/ NotProbed
  PROVE  Aside
<1> USE DEF Aside, LoopPlaces, Goto, Rest, WriteOk, WriteFails, SaveState, SaveManifest,
  ClearState, HaveRetained, OpensFlasher, ResumeGoesOn, files, durable, memory, bounds, history
<1>1. CASE Declared
  BY NoRecords, <1>1 DEF Declared, beginRest
<1>2. CASE NotDeclared
  BY NoRecords, <1>2 DEF NotDeclared, FirstBootHostConfirm, beginRest
<1>3. CASE Probed
  BY NoRecords, <1>3 DEF Probed, FirstBootHostConfirm, beginRest
<1>4. CASE NotProbed
  BY NoRecords, <1>4 DEF NotProbed, beginRest
<1> QED
  BY <1>1, <1>2, <1>3, <1>4

\* The steps of everything else outside the loop.
LEMMA AsideOther ==
  ASSUME Records, OfferNothing \/ OfferDropped \/ RequestorRetry \/ Reprobe \/ UsbReflash
  PROVE  Aside
<1> USE DEF Aside, LoopPlaces, Goto, Rest, WriteOk, WriteFails, SaveState, SaveManifest,
  ClearState, HaveRetained, OpensFlasher, ResumeGoesOn, files, durable, memory, bounds, history
<1>1. CASE OfferNothing
  BY NoRecords, <1>1 DEF OfferNothing, CanOffer
<1>2. CASE OfferDropped
  BY NoRecords, <1>2 DEF OfferDropped, CanOffer
<1>3. CASE RequestorRetry
  BY NoRecords, <1>3 DEF RequestorRetry, idle
<1>4. CASE Reprobe
  BY NoRecords, <1>4 DEF Reprobe
<1>5. CASE UsbReflash
  BY NoRecords, <1>5 DEF UsbReflash
<1> QED
  BY <1>1, <1>2, <1>3, <1>4, <1>5

\* The steps into the loop, round it and out of it.
LEMMA LoopCounts ==
  ASSUME Counts,
         Offer \/ ApplyFw \/ SaveAttempt \/ Flash \/ ConfirmFw \/ PowerLoss \/ BeginLoad \/ ResumeFw
  PROVE  Counts' /\ (faults' = 0 => faults = 0)
<1>1. faults' = faults \/ faults' = faults + 1
  BY DEF Offer, ApplyFw, SaveAttempt, Flash, ConfirmFw, PowerLoss, BeginLoad, ResumeFw, WriteOk,
         WriteFails, SaveState, SaveManifest, ClearState, HaveRetained, OpensFlasher, ResumeGoesOn, bounds
<1>2. flashes' = flashes \/ flashes' = 0 \/ flashes' = flashes + 1
  BY DEF Offer, ApplyFw, SaveAttempt, Flash, ConfirmFw, PowerLoss, BeginLoad, ResumeFw, history
<1>3. flashes \in Nat /\ flashes + 1 \in Nat
  BY DEF Counts
<1>4. flashes' \in Nat
  BY <1>2, <1>3
<1> QED
  BY <1>1, <1>4, NoFaultYet DEF Counts

LEMMA LoopAttempts ==
  ASSUME Records, Attempts,
         Offer \/ ApplyFw \/ SaveAttempt \/ Flash \/ ConfirmFw \/ PowerLoss \/ BeginLoad \/ ResumeFw
  PROVE  Attempts'
<1> USE DEF Goto, files, durable, memory, bounds, history
<1>a. Counts' /\ (faults' = 0 => faults = 0)
  BY LoopCounts DEF Attempts
<1>b. SUFFICES ASSUME faults' = 0, Counted PROVE Counted'
  BY <1>a DEF Attempts
<1>n. /\ job.attempt \in 0 .. 4 /\ stateFile.attempts \in 0 .. 3
      /\ flashes \in Nat /\ faults = 0
  BY <1>a, <1>b, Numbers DEF Attempts, Counts
<1>c. flashes <= 3 /\ (stateFile.phase = "FW" => flashes <= stateFile.attempts)
  BY <1>b DEF Counted
<1>d. OpensFlasher => pc' = "attempt"
  <2>1. faults' # faults + 1
    BY <1>n, <1>b
  <2> QED
    BY <2>1 DEF OpensFlasher, WriteFails
<1>1. CASE Offer
  <2>1. /\ flashes' = 0 /\ stateFile' = stateFile /\ pc' \in {"apply", "host"}
    BY <1>1 DEF Offer
  <2>2. flashes' <= 3 /\ flashes' <= stateFile'.attempts
    BY <1>n, <2>1
  <2> QED
    BY <2>1, <2>2 DEF Counted
<1>2. CASE ApplyFw
  <2>1. pc = "apply" /\ pc' = "attempt" /\ flashes' = flashes /\ stateFile' = stateFile
    BY <1>2, <1>d DEF ApplyFw
  <2>2. job'.attempt = 1
    BY <1>2, FirstNumber, JobAttempt DEF ApplyFw, Records
  <2>3. flashes' = 0
    BY <1>b, <2>1 DEF Counted
  <2>4. flashes' < job'.attempt
    BY <2>2, <2>3
  <2> QED
    BY <1>c, <2>1, <2>4 DEF Counted
<1>3. CASE SaveAttempt
  <2>1. /\ pc = "attempt" /\ pc' = "flash" /\ flashes' = flashes /\ job' = job
    BY <1>3 DEF SaveAttempt
  <2>2. flashes < job.attempt
    BY <1>b, <2>1 DEF Counted
  <2>3. faults' # faults + 1
    BY <1>n, <1>b
  <2>4. stateFile' = [phase |-> "FW", attempts |-> job.attempt, target |-> job.target,
                      host |-> job.host]
    BY <1>3, <2>3 DEF SaveAttempt, SaveState, WriteFails
  <2>5. stateFile'.phase = "FW" /\ stateFile'.attempts = job.attempt
    BY <2>4
  <2>6. flashes <= job.attempt
    BY <1>n, <2>2
  <2> QED
    BY <1>c, <2>1, <2>2, <2>5, <2>6 DEF Counted
<1>4. CASE Flash
  <2>1. pc = "flash" /\ flashes' = flashes + 1 /\ stateFile' = stateFile
    BY <1>4 DEF Flash
  <2>2. job.attempt <= 3
    BY <2>1 DEF Records
  <2>3. flashes < job.attempt /\ stateFile.attempts = job.attempt
    BY <1>b, <2>1 DEF Counted
  <2>4. flashes' <= 3 /\ flashes' <= stateFile'.attempts /\ flashes' <= job.attempt
    BY <1>n, <2>1, <2>2, <2>3
  <2>5. CASE NextAttempt
    <3>1. pc' = "attempt" /\ job'.attempt = job.attempt + 1
      BY <2>2, <2>5, JobNext
    <3>2. flashes' < job'.attempt
      BY <1>n, <2>1, <2>4, <3>1
    <3> QED
      BY <2>4, <3>1, <3>2 DEF Counted
  <2>6. CASE pc' = "confirm fw" /\ job' = job
    BY <2>4, <2>6 DEF Counted
  <2> QED
    BY <1>4, <2>5, <2>6 DEF Flash
<1>5. CASE ConfirmFw
  <2>1. pc = "confirm fw" /\ flashes' = flashes /\ stateFile' = stateFile
    BY <1>5 DEF ConfirmFw
  <2>2. job.attempt <= 3
    BY <2>1 DEF Records
  <2>3. flashes <= job.attempt
    BY <1>b, <2>1 DEF Counted
  <2>4. CASE NextAttempt
    <3>1. pc' = "attempt" /\ job'.attempt = job.attempt + 1
      BY <2>2, <2>4, JobNext
    <3>2. flashes < job.attempt + 1
      BY <1>n, <2>3
    <3>3. flashes' < job'.attempt
      BY <2>1, <3>1, <3>2
    <3> QED
      BY <1>c, <2>1, <3>1, <3>3 DEF Counted
  <2>5. CASE pc' = "drop bin"
    BY <1>c, <2>1, <2>5 DEF Counted
  <2> QED
    BY <1>5, <2>4, <2>5 DEF ConfirmFw
<1>6. CASE PowerLoss
  <2>1. pc' = "begin" /\ stateFile' = stateFile
    BY <1>6 DEF PowerLoss, Boots
  <2>2. flashes' <= 3 /\ (stateFile.phase = "FW" => flashes' <= stateFile.attempts)
    <3>1. CASE pc = "flash"
      <4>1. flashes' = flashes + 1
        BY <1>6, <3>1 DEF PowerLoss
      <4>2. flashes < stateFile.attempts
        BY <1>b, <3>1 DEF Counted
      <4> QED
        BY <1>n, <4>1, <4>2
    <3>2. CASE pc # "flash"
      <4>1. flashes' = flashes
        BY <1>6, <3>2 DEF PowerLoss
      <4> QED
        BY <1>c, <4>1
    <3> QED
      BY <3>1, <3>2
  <2> QED
    BY <2>1, <2>2 DEF Counted
<1>7. CASE BeginLoad
  <2>1. flashes' = flashes
    BY <1>7 DEF BeginLoad
  <2>2. CASE pc' = "declare" /\ (stateFile' = stateFile \/ stateFile'.phase # "FW")
    BY <1>c, <2>1, <2>2 DEF Counted
  <2>3. CASE /\ stateFile.phase = "FW" /\ stateFile' = stateFile
             /\ pc' \in {"failed", "resume"}
             /\ job'.attempt = FirstAttempt(stateFile.attempts)
    <3>1. FirstAttempt(stateFile.attempts) = stateFile.attempts + 1
      BY <1>n, FirstNumber
    <3>2. flashes' < job'.attempt
      BY <1>n, <1>c, <2>1, <2>3, <3>1
    <3> QED
      BY <1>c, <2>1, <2>3, <3>2 DEF Counted
  <2> QED
    BY <1>7, <2>2, <2>3, NoRecords DEF BeginLoad, Resumable, ClearState
<1>8. CASE ResumeFw
  BY <1>b, <1>d, <1>8 DEF ResumeFw, Counted
<1> QED
  BY <1>1, <1>2, <1>3, <1>4, <1>5, <1>6, <1>7, <1>8

ApplyInv == StageInv /\ Records /\ Attempts

LEMMA ApplyInit == Init => ApplyInv
<1> SUFFICES ASSUME Init PROVE ApplyInv
  OBVIOUS
<1>1. Records
  BY NoRecords DEF Init, Records
<1>2. Attempts
  BY NoRecords DEF Init, Attempts, Counts, Counted
<1> QED
  BY <1>1, <1>2, StageInit DEF ApplyInv

LEMMA ApplyStep == ApplyInv /\ [Next]_vars => ApplyInv'
<1> SUFFICES ASSUME StageInv, Records, Attempts, [Next]_vars PROVE Attempts'
  BY StageStep, RecordsStep DEF ApplyInv
<1>1. CASE UNCHANGED vars
  BY <1>1 DEF vars, durable, memory, bounds, history, files, Attempts, Counts, Counted
<1>2. CASE Aside
  BY <1>2, AsideAttempts
<1>3. CASE Offer \/ ApplyFw \/ SaveAttempt \/ Flash \/ ConfirmFw \/ PowerLoss \/ BeginLoad
             \/ ResumeFw
  BY <1>3, LoopAttempts
<1> QED
  BY <1>1, <1>2, <1>3, AsideFwStep, AsideHostPartStep, AsideBeginStep, AsideOther
  DEF Next, FwStep, HostPartStep, BeginStep

\* AttemptsBounded: the co-processor is flashed at most three times for one
\* apply, whichever of its steps the power goes at and however often.
THEOREM ApplyAttemptsBounded == Spec => []AttemptsBounded
<1>1. ApplyInv => AttemptsBounded
  BY DEF ApplyInv, Attempts, Counted, AttemptsBounded
<1> QED
  BY <1>1, ApplyInit, ApplyStep, PTL DEF Spec

---------------------------------------------------------------------------
(* The invariants below speak of an apply whose writes did not fail.       *)

NoFault == faults = 0 /\ faults' = 0

LEMMA NoFaultStep ==
  ASSUME ApplyInv, [Next]_vars, faults' = 0
  PROVE  NoFault
<1>1. CASE UNCHANGED vars
  BY <1>1 DEF vars, bounds, NoFault
<1>2. CASE Aside
  BY <1>2, NoFaultYet DEF Aside, ApplyInv, Attempts, NoFault
<1>3. CASE Offer \/ ApplyFw \/ SaveAttempt \/ Flash \/ ConfirmFw \/ PowerLoss \/ BeginLoad
             \/ ResumeFw
  BY <1>3, LoopCounts DEF ApplyInv, Attempts, NoFault
<1> QED
  BY <1>1, <1>2, <1>3, AsideFwStep, AsideHostPartStep, AsideBeginStep, AsideOther
  DEF Next, FwStep, HostPartStep, BeginStep, ApplyInv

LEMMA NothingFails ==
  ASSUME NoFault
  PROVE  ~WriteFails
BY DEF NoFault, WriteFails

---------------------------------------------------------------------------
(* The reboots the host drives.                                            *)

\* The places an apply goes through, from the offer to the reboot.
ApplyPlaces == FwPlaces \cup {"drop staged", "clear state", "failed", "roll back", "fail",
                              "host", "save prev", "stage host", "save host"}
BootPlaces  == {"begin", "declare", "probe"}
FirstPlaces == {"record host", "clear host", "drop host", "put back", "save confirm"}

\* How many reboots may have brought the board to a boot with this state file.
Legs(phase) ==
  IF phase = "HOST" THEN {0, 1} ELSE IF phase = "HOST_CONFIRM" THEN {0, 1, 2} ELSE {0}

Driven ==
  /\ pc \in ApplyPlaces \cup BootPlaces \cup FirstPlaces \cup {"rest", "reboot"}
  /\ pc \in ApplyPlaces \cup {"rest"} => reboots = 0
  /\ pc \in BootPlaces => reboots \in Legs(stateFile.phase)
  /\ pc \in FirstPlaces => reboots \in {0, 1}
  /\ pc \in {"record host", "put back", "save confirm"} => stateFile.phase = "HOST"
  /\ pc = "reboot" => \/ stateFile.phase = "HOST" /\ reboots = 0
                      \/ stateFile.phase = "HOST_CONFIRM" /\ reboots \in {0, 1}

LapInv == faults = 0 => Driven

\* The reboots through the steps of the Hearth part.
LEMMA LapFwStep ==
  ASSUME Records, Driven, NoFault, FwStep
  PROVE  Driven'
<1> USE DEF Driven, Legs, ApplyPlaces, BootPlaces, FirstPlaces, FwPlaces, Goto, Rest, Rested, WriteOk,
  SaveState, SaveManifest, ClearState, NextAttempt, OpensFlasher, ResumeGoesOn, files, durable,
  memory, bounds, history
<1>1. CASE ApplyFw
  BY NoRecords, NothingFails, <1>1 DEF ApplyFw
<1>2. CASE SaveAttempt
  BY NoRecords, NothingFails, <1>2 DEF SaveAttempt
<1>3. CASE AttemptsSpent
  BY NoRecords, NothingFails, <1>3 DEF AttemptsSpent
<1>4. CASE Flash
  BY NoRecords, NothingFails, <1>4 DEF Flash, NextAttempt
<1>5. CASE ConfirmFw
  BY NoRecords, NothingFails, <1>5 DEF ConfirmFw, NextAttempt
<1>6. CASE DropBin
  BY NoRecords, NothingFails, <1>6 DEF DropBin, fwRest
<1>7. CASE DropMeta
  BY NoRecords, NothingFails, <1>7 DEF DropMeta, fwRest
<1>8. CASE OpenBin
  BY NoRecords, NothingFails, <1>8 DEF OpenBin, fwRest
<1>9. CASE CloseBin
  BY NoRecords, NothingFails, <1>9 DEF CloseBin, fwRest
<1>10. CASE WriteMeta
  BY NoRecords, NothingFails, <1>10 DEF WriteMeta, fwRest
<1>11. CASE FwDone
  BY NoRecords, NothingFails, <1>11 DEF FwDone
<1>12. CASE RecordFw
  BY NoRecords, NothingFails, <1>12 DEF RecordFw
<1>13. CASE DropStaged
  BY NoRecords, NothingFails, <1>13 DEF DropStaged
<1>14. CASE ClearAfterFw
  BY NoRecords, NothingFails, <1>14 DEF ClearAfterFw
<1>15. CASE FwFailed
  BY NoRecords, NothingFails, <1>15 DEF FwFailed
<1>16. CASE RollBack
  BY NoRecords, NothingFails, <1>16 DEF RollBack
<1>17. CASE Fail
  BY NoRecords, NothingFails, <1>17 DEF Fail
<1> QED
  BY <1>1, <1>2, <1>3, <1>4, <1>5, <1>6, <1>7, <1>8, <1>9, <1>10, <1>11, <1>12, <1>13, <1>14, <1>15, <1>16, <1>17 DEF FwStep

\* The reboots through the steps of the host part.
LEMMA LapHostPartStep ==
  ASSUME Records, Driven, NoFault, HostPartStep
  PROVE  Driven'
<1> USE DEF Driven, Legs, ApplyPlaces, BootPlaces, FirstPlaces, FwPlaces, Goto, Rest, Rested, WriteOk,
  SaveState, SaveManifest, ClearState, NextAttempt, OpensFlasher, ResumeGoesOn, files, durable,
  memory, bounds, history
<1>1. CASE DeclareHost
  BY NoRecords, NothingFails, <1>1 DEF DeclareHost
<1>2. CASE SavePrev
  BY NoRecords, NothingFails, <1>2 DEF SavePrev, HostFails, hostRest
<1>3. CASE StageHost
  BY NoRecords, NothingFails, <1>3 DEF StageHost, HostFails, hostRest
<1>4. CASE SaveHost
  <2>1. [phase |-> "HOST", attempts |-> 0, target |-> staged, host |-> TRUE].phase = "HOST"
    OBVIOUS
  <2> QED
    BY <1>4, <2>1, NothingFails DEF SaveHost, hostRest
<1>5. CASE Reboot
  BY NoRecords, NothingFails, <1>5 DEF Reboot, Boots
<1>6. CASE RecordHost
  BY NoRecords, NothingFails, <1>6 DEF RecordHost
<1>7. CASE ClearHost
  BY NoRecords, NothingFails, <1>7 DEF ClearHost
<1>8. CASE DropHost
  BY NoRecords, NothingFails, <1>8 DEF DropHost
<1>9. CASE PutBack
  BY NoRecords, NothingFails, <1>9 DEF PutBack
<1>10. CASE SaveConfirm
  <2>1. [stateFile EXCEPT !.phase = "HOST_CONFIRM"].phase = "HOST_CONFIRM"
    BY DEF Records, StateRecord
  <2> QED
    BY <1>10, <2>1, NothingFails DEF SaveConfirm
<1> QED
  BY <1>1, <1>2, <1>3, <1>4, <1>5, <1>6, <1>7, <1>8, <1>9, <1>10 DEF HostPartStep

\* The reboots through the steps of begin().
LEMMA LapBeginStep ==
  ASSUME Records, Driven, NoFault, BeginStep
  PROVE  Driven'
<1> USE DEF Driven, Legs, ApplyPlaces, BootPlaces, FirstPlaces, FwPlaces, Goto, Rest, Rested, WriteOk,
  SaveState, SaveManifest, ClearState, NextAttempt, OpensFlasher, ResumeGoesOn, files, durable,
  memory, bounds, history
<1>1. CASE BeginLoad
  BY NoRecords, NothingFails, <1>1, ZenonT(30) DEF BeginLoad, Resumable
<1>2. CASE ResumeFw
  BY NoRecords, NothingFails, <1>2 DEF ResumeFw
<1>3. CASE Declared
  BY NoRecords, NothingFails, <1>3 DEF Declared, beginRest
<1>4. CASE NotDeclared
  BY NoRecords, NothingFails, <1>4 DEF NotDeclared, FirstBootHostConfirm, beginRest
<1>5. CASE Probed
  BY NoRecords, NothingFails, <1>5 DEF Probed, FirstBootHostConfirm, beginRest
<1>6. CASE NotProbed
  BY NoRecords, NothingFails, <1>6 DEF NotProbed, beginRest
<1> QED
  BY <1>1, <1>2, <1>3, <1>4, <1>5, <1>6 DEF BeginStep

\* The reboots through every other step.
LEMMA LapOther ==
  ASSUME Records, Driven, NoFault, 
         Offer \/ OfferNothing \/ OfferDropped \/ RequestorRetry \/ Reprobe \/ PowerLoss \/ UsbReflash
  PROVE  Driven'
<1> USE DEF Driven, Legs, ApplyPlaces, BootPlaces, FirstPlaces, FwPlaces, Goto, Rest, Rested, WriteOk,
  SaveState, SaveManifest, ClearState, NextAttempt, OpensFlasher, ResumeGoesOn, files, durable,
  memory, bounds, history
<1>1. CASE Offer
  BY NoRecords, NothingFails, <1>1 DEF Offer, CanOffer, SelectsFw
<1>2. CASE OfferNothing
  BY NoRecords, NothingFails, <1>2 DEF OfferNothing, CanOffer
<1>3. CASE OfferDropped
  BY NoRecords, NothingFails, <1>3 DEF OfferDropped, CanOffer
<1>4. CASE RequestorRetry
  BY NoRecords, NothingFails, <1>4 DEF RequestorRetry, idle
<1>5. CASE Reprobe
  BY NoRecords, NothingFails, <1>5 DEF Reprobe
<1>6. CASE PowerLoss
  BY NoRecords, NothingFails, <1>6 DEF PowerLoss, Boots
<1>7. CASE UsbReflash
  BY NoRecords, NothingFails, <1>7 DEF UsbReflash
<1> QED
  BY <1>1, <1>2, <1>3, <1>4, <1>5, <1>6, <1>7

LEMMA LapStep ==
  ASSUME ApplyInv, LapInv, [Next]_vars
  PROVE  LapInv'
<1> SUFFICES ASSUME NoFault, Driven PROVE Driven'
  BY NoFaultStep DEF LapInv, NoFault
<1>1. CASE UNCHANGED vars
  BY <1>1 DEF vars, durable, history, files, Driven
<1> QED
  BY <1>1, LapFwStep, LapHostPartStep, LapBeginStep, LapOther DEF Next, ApplyInv

LEMMA LapInit == Init => LapInv
  BY NoRecords DEF Init, LapInv, Driven, Legs, ApplyPlaces, BootPlaces, FirstPlaces, FwPlaces

\* RebootsBounded: into the new sketch and back at most, whatever the power
\* does in between (hearthFirstBootHostFail(), HearthUpdate.cpp:2321).
THEOREM ApplyRebootsBounded == Spec => []RebootsBounded
<1>1. Init => ApplyInv /\ LapInv
  BY ApplyInit, LapInit
<1>2. ApplyInv /\ LapInv /\ [Next]_vars => (ApplyInv /\ LapInv)'
  BY ApplyStep, LapStep
<1>3. LapInv => RebootsBounded
  <2> SUFFICES ASSUME Driven PROVE reboots \in {0, 1, 2}
    BY DEF RebootsBounded, LapInv
  <2>1. Legs(stateFile.phase) \subseteq {0, 1, 2}
    BY DEF Legs
  <2> QED
    BY <2>1 DEF Driven
<1> QED
  BY <1>1, <1>2, <1>3, PTL DEF Spec

---------------------------------------------------------------------------
(* What the co-processor was last told.                                    *)

\* The places between the declaration of an apply and its end.
Told   == {"attempt", "flash", "confirm fw", "drop bin", "drop meta", "write bin", "close bin",
           "write meta", "fw done", "record fw"}
Ending == {"drop staged", "clear state"}

ClaimInv ==
  /\ pc \in {"rest", "roll back", "fail"} /\ ~deaf => declared = effective
  /\ pc \in Told \cup {"apply"} /\ ~job.resumed => staged = job.target
  /\ pc \in Ending /\ ~job.resumed => known.product = job.target
  /\ pc \in Told \cup Ending /\ ~job.resumed /\ ~deaf => declared = job.target
  /\ pc = "resume" => job.resumed
  /\ pc = "put back" => deaf
  /\ pc = "probe" => declared = effective /\ (stateFile.phase = "HOST" => effective = stateFile.target)
  /\ pc = "record host" => declared = stateFile.target
  /\ pc \in {"clear host", "drop host"} => declared = known.product

LEMMA JobKept ==
  ASSUME NEW j \in JobRecord, NEW n
  PROVE  /\ [j EXCEPT !.attempt = n].resumed = j.resumed
         /\ [j EXCEPT !.attempt = n].target = j.target
BY DEF JobRecord

LEMMA ProductSet ==
  ASSUME known \in [product : Maybe, host : Maybe], NEW v
  PROVE  [known EXCEPT !.product = v].product = v
OBVIOUS

\* The declaration through the steps of the Hearth part.
LEMMA ClaimFwStep ==
  ASSUME Records, ClaimInv, known \in [product : Maybe, host : Maybe], FwStep
  PROVE  ClaimInv'
<1> USE DEF ClaimInv, Told, Ending, Goto, Rest, Rested, WriteOk, SaveState, SaveManifest, ClearState,
  OpensFlasher, ResumeGoesOn, Declare, DeclareInForce, files, durable, memory, bounds, history
<1>1. CASE ApplyFw
  <2>1. job'.resumed = job.resumed /\ job'.target = job.target
    BY <1>1, JobKept DEF ApplyFw, Records
  <2> QED
    BY <1>1, <2>1 DEF ApplyFw
<1>2. CASE SaveAttempt
  BY NoRecords, <1>2 DEF SaveAttempt
<1>3. CASE AttemptsSpent
  BY NoRecords, <1>3 DEF AttemptsSpent
<1>4. CASE Flash
  <2>1. PICK n : job' = job \/ job' = [job EXCEPT !.attempt = n]
    BY <1>4 DEF Flash, NextAttempt
  <2>2. job'.resumed = job.resumed /\ job'.target = job.target
    <3>1. job \in JobRecord
      BY DEF Records
    <3>2. CASE job' = [job EXCEPT !.attempt = n]
      BY <3>1, <3>2, JobKept
    <3> QED
      BY <2>1, <3>2
  <2> QED
    BY <1>4, <2>2 DEF Flash, NextAttempt
<1>5. CASE ConfirmFw
  <2>1. PICK n : job' = job \/ job' = [job EXCEPT !.attempt = n]
    BY <1>5 DEF ConfirmFw, NextAttempt
  <2>2. job'.resumed = job.resumed /\ job'.target = job.target
    <3>1. job \in JobRecord
      BY DEF Records
    <3>2. CASE job' = [job EXCEPT !.attempt = n]
      BY <3>1, <3>2, JobKept
    <3> QED
      BY <2>1, <3>2
  <2> QED
    BY <1>5, <2>2 DEF ConfirmFw, NextAttempt
<1>6. CASE DropBin
  BY NoRecords, <1>6 DEF DropBin, fwRest
<1>7. CASE DropMeta
  BY NoRecords, <1>7 DEF DropMeta, fwRest
<1>8. CASE OpenBin
  BY NoRecords, <1>8 DEF OpenBin, fwRest
<1>9. CASE CloseBin
  BY NoRecords, <1>9 DEF CloseBin, fwRest
<1>10. CASE WriteMeta
  BY NoRecords, <1>10 DEF WriteMeta, fwRest
<1>11. CASE FwDone
  BY NoRecords, <1>11 DEF FwDone
<1>12. CASE RecordFw
  <2>1. known'.product = staged
    BY <1>12, ProductSet DEF RecordFw
  <2> QED
    BY <1>12, <2>1 DEF RecordFw
<1>13. CASE DropStaged
  BY NoRecords, <1>13 DEF DropStaged
<1>14. CASE ClearAfterFw
  BY NoRecords, <1>14 DEF ClearAfterFw
<1>15. CASE FwFailed
  BY NoRecords, <1>15 DEF FwFailed
<1>16. CASE RollBack
  BY NoRecords, <1>16 DEF RollBack
<1>17. CASE Fail
  BY NoRecords, <1>17 DEF Fail
<1> QED
  BY <1>1, <1>2, <1>3, <1>4, <1>5, <1>6, <1>7, <1>8, <1>9, <1>10, <1>11, <1>12, <1>13, <1>14, <1>15, <1>16, <1>17 DEF FwStep

\* The declaration through the steps of the host part.
LEMMA ClaimHostPartStep ==
  ASSUME Records, ClaimInv, known \in [product : Maybe, host : Maybe], HostPartStep
  PROVE  ClaimInv'
<1> USE DEF ClaimInv, Told, Ending, Goto, Rest, Rested, WriteOk, SaveState, SaveManifest, ClearState,
  OpensFlasher, ResumeGoesOn, Declare, DeclareInForce, files, durable, memory, bounds, history
<1>1. CASE DeclareHost
  BY NoRecords, <1>1 DEF DeclareHost
<1>2. CASE SavePrev
  BY NoRecords, <1>2 DEF SavePrev, HostFails, hostRest
<1>3. CASE StageHost
  BY NoRecords, <1>3 DEF StageHost, HostFails, hostRest
<1>4. CASE SaveHost
  BY NoRecords, <1>4 DEF SaveHost, hostRest
<1>5. CASE Reboot
  BY NoRecords, <1>5 DEF Reboot, Boots
<1>6. CASE RecordHost
  BY NoRecords, <1>6 DEF RecordHost
<1>7. CASE ClearHost
  BY NoRecords, <1>7 DEF ClearHost
<1>8. CASE DropHost
  BY NoRecords, <1>8 DEF DropHost
<1>9. CASE PutBack
  BY NoRecords, <1>9 DEF PutBack
<1>10. CASE SaveConfirm
  BY NoRecords, <1>10 DEF SaveConfirm
<1> QED
  BY <1>1, <1>2, <1>3, <1>4, <1>5, <1>6, <1>7, <1>8, <1>9, <1>10 DEF HostPartStep

\* The declaration through the steps of begin().
LEMMA ClaimBeginStep ==
  ASSUME Records, ClaimInv, known \in [product : Maybe, host : Maybe], BeginStep
  PROVE  ClaimInv'
<1> USE DEF ClaimInv, Told, Ending, Goto, Rest, Rested, WriteOk, SaveState, SaveManifest, ClearState,
  OpensFlasher, ResumeGoesOn, Declare, DeclareInForce, files, durable, memory, bounds, history
<1>1. CASE BeginLoad
  <2>1. \A h, t, n : [fw |-> TRUE, host |-> h, target |-> t, attempt |-> n, resumed |-> TRUE].resumed
    OBVIOUS
  <2>2. pc' \in {"resume", "failed"} => job'.resumed
    BY <1>1, <2>1 DEF BeginLoad
  <2>3. pc' \in {"resume", "failed", "declare"}
    BY <1>1 DEF BeginLoad
  <2> QED
    BY <2>2, <2>3
<1>2. CASE ResumeFw
  BY NoRecords, <1>2 DEF ResumeFw
<1>3. CASE Declared
  BY NoRecords, <1>3 DEF Declared, beginRest
<1>4. CASE NotDeclared
  BY NoRecords, <1>4 DEF NotDeclared, FirstBootHostConfirm, beginRest
<1>5. CASE Probed
  BY NoRecords, <1>5 DEF Probed, FirstBootHostConfirm, beginRest
<1>6. CASE NotProbed
  BY NoRecords, <1>6 DEF NotProbed, beginRest
<1> QED
  BY <1>1, <1>2, <1>3, <1>4, <1>5, <1>6 DEF BeginStep

\* The declaration through every other step.
LEMMA ClaimOther ==
  ASSUME Records, ClaimInv, known \in [product : Maybe, host : Maybe], 
         Offer \/ OfferNothing \/ OfferDropped \/ RequestorRetry \/ Reprobe \/ PowerLoss \/ UsbReflash
  PROVE  ClaimInv'
<1> USE DEF ClaimInv, Told, Ending, Goto, Rest, Rested, WriteOk, SaveState, SaveManifest, ClearState,
  OpensFlasher, ResumeGoesOn, Declare, DeclareInForce, files, durable, memory, bounds, history
<1>1. CASE Offer
  <2>1. PICK v \in Bundles :
          /\ staged' = v /\ Goto(IF SelectsFw(v) THEN "apply" ELSE "host")
          /\ job' = [NoJob EXCEPT !.target = v, !.fw = SelectsFw(v), !.host = SelectsHost(v)]
    BY <1>1 DEF Offer
  <2>2. job'.target = v
    BY <2>1 DEF NoJob
  <2> QED
    BY <1>1, <2>1, <2>2
<1>2. CASE OfferNothing
  BY NoRecords, <1>2 DEF OfferNothing, CanOffer
<1>3. CASE OfferDropped
  BY NoRecords, <1>3 DEF OfferDropped, CanOffer
<1>4. CASE RequestorRetry
  BY NoRecords, <1>4 DEF RequestorRetry, idle
<1>5. CASE Reprobe
  BY NoRecords, <1>5 DEF Reprobe
<1>6. CASE PowerLoss
  BY NoRecords, <1>6 DEF PowerLoss, Boots
<1>7. CASE UsbReflash
  BY NoRecords, <1>7 DEF UsbReflash
<1> QED
  BY <1>1, <1>2, <1>3, <1>4, <1>5, <1>6, <1>7

LEMMA KnownStep ==
  ASSUME StageInv, Records, known \in [product : Maybe, host : Maybe],
         manifest \in [product : Maybe, host : Maybe], [Next]_vars
  PROVE  (known \in [product : Maybe, host : Maybe] /\ manifest \in [product : Maybe, host : Maybe])'
<1> DEFINE M == [product : Maybe, host : Maybe]
<1>0. /\ [product |-> None, host |-> None] \in M
      /\ staged \in Maybe /\ stateFile.target \in Maybe
      /\ \A v \in Bundles : v \in Maybe
  BY Parts DEF StageInv, Kinds, Records, StateRecord, Maybe, None
<1>1. \A v \in Maybe, w \in Maybe : [known EXCEPT !.product = v] \in M /\ [product |-> v, host |-> w] \in M
  OBVIOUS
<1> USE DEF SaveManifest, files, durable, memory
<1>2. CASE UNCHANGED <<known, manifest>>
  BY <1>2
<1>3. CASE RecordFw
  BY <1>0, <1>1, <1>3 DEF RecordFw
<1>4. CASE RecordHost
  <2>1. \E v \in Maybe, w \in Maybe : known' = [product |-> v, host |-> w]
    BY <1>0, <1>4 DEF RecordHost, Maybe
  <2> QED
    BY <1>1, <1>4, <2>1 DEF RecordHost
<1>5. CASE OfferNothing
  BY <1>0, <1>1, <1>5 DEF OfferNothing
<1>6. CASE BeginLoad
  BY <1>6 DEF BeginLoad
<1>7. CASE Reboot \/ PowerLoss
  BY <1>0, <1>7 DEF Reboot, PowerLoss, Boots
<1>8. CASE ApplyFw \/ SaveAttempt \/ AttemptsSpent \/ Flash \/ ConfirmFw \/ DropBin \/
           DropMeta \/ OpenBin \/ CloseBin \/ WriteMeta \/ FwDone \/ DropStaged \/
           ClearAfterFw \/ FwFailed \/ RollBack \/ Fail \/ DeclareHost \/ SavePrev \/
           StageHost \/ SaveHost \/ ClearHost \/ DropHost \/ PutBack \/ SaveConfirm \/
           ResumeFw \/ Declared \/ NotDeclared \/ Probed \/ NotProbed \/ Offer \/
           OfferDropped \/ RequestorRetry \/ Reprobe \/ UsbReflash
  BY <1>8 DEF ApplyFw, SaveAttempt, AttemptsSpent, Flash, NextAttempt, ConfirmFw, DropBin, fwRest,
         DropMeta, OpenBin, CloseBin, WriteMeta, FwDone, DropStaged, ClearAfterFw, FwFailed,
         RollBack, Fail, DeclareHost, SavePrev, HostFails, hostRest, StageHost, SaveHost,
         ClearHost, DropHost, PutBack, SaveConfirm, ResumeFw, Declared, beginRest, NotDeclared,
         FirstBootHostConfirm, Probed, NotProbed, Offer, CanOffer, SelectsFw, OfferDropped,
         RequestorRetry, idle, Reprobe, UsbReflash
<1> QED
  BY <1>2, <1>3, <1>4, <1>5, <1>6, <1>7, <1>8
  DEF Next, FwStep, HostPartStep, BeginStep, vars

Manifests == known \in [product : Maybe, host : Maybe] /\ manifest \in [product : Maybe, host : Maybe]

LEMMA ClaimStep ==
  ASSUME ApplyInv, Manifests, ClaimInv, [Next]_vars
  PROVE  Manifests' /\ ClaimInv'
<1>1. CASE UNCHANGED vars
  BY <1>1 DEF vars, durable, memory, history, files, Manifests, ClaimInv
<1>2. CASE Next
  <2>1. Manifests'
    BY <1>2, KnownStep DEF Manifests, ApplyInv
  <2>2. ClaimInv'
    BY <1>2, ClaimFwStep, ClaimHostPartStep, ClaimBeginStep, ClaimOther DEF Next, ApplyInv, Manifests
  <2> QED
    BY <2>1, <2>2
<1> QED
  BY <1>1, <1>2

LEMMA ClaimInit == Init => Manifests /\ ClaimInv
  BY DEF Init, Manifests, ClaimInv, Told, Ending, Maybe, None

\* DeclaredInForce: at rest the co-processor claims the version in force, if
\* it heard the last declaration (hearthSetEffectiveVersion(),
\* HearthUpdate.cpp:847): whether the bundle was applied, failed or was
\* rolled back, and whether or not the board went through a reboot.
THEOREM ApplyDeclaredInForce == Spec => []DeclaredInForce
<1>1. Init => ApplyInv /\ Manifests /\ ClaimInv
  BY ApplyInit, ClaimInit
<1>2. ApplyInv /\ Manifests /\ ClaimInv /\ [Next]_vars => (ApplyInv /\ Manifests /\ ClaimInv)'
  BY ApplyStep, ClaimStep
<1>3. ClaimInv => DeclaredInForce
  BY DEF ClaimInv, DeclaredInForce
<1> QED
  BY <1>1, <1>2, <1>3, PTL DEF Spec

---------------------------------------------------------------------------
(* What is recorded runs: the Hearth part whatever the power does.         *)

Confirmed == {"drop bin", "drop meta", "write bin", "close bin", "write meta", "fw done",
              "record fw"}
HostPlaces == {"host", "save prev", "stage host", "save host"}

\* From the first flash on the state file is in its FW phase, so that one in
\* its HOST phase is of a bundle whose Hearth part was confirmed.
FwRuns ==
  /\ pc \in Confirmed => coproc = FwOf[staged]
  /\ pc \in HostPlaces /\ flashes > 0 => coproc = FwOf[staged]
  /\ stateFile.phase = "HOST" /\ flashes > 0 => coproc = FwOf[stateFile.target]
  /\ pc \in {"flash", "confirm fw", "failed", "roll back", "fail"} \cup Confirmed
       => stateFile.phase = "FW"
  /\ pc = "record host" => stateFile.phase = "HOST"
  /\ pc = "apply" => flashes = 0
  /\ pc = "resume" \/ (pc = "attempt" /\ job.attempt # 1) => stateFile.phase = "FW"

LEMMA Phased ==
  /\ \A n, t, h : [phase |-> "FW", attempts |-> n, target |-> t, host |-> h].phase = "FW"
  /\ \A n, t, h : /\ [phase |-> "HOST", attempts |-> n, target |-> t, host |-> h].phase = "HOST"
                  /\ [phase |-> "HOST", attempts |-> n, target |-> t, host |-> h].target = t
  /\ NoState.phase = "none"
BY DEF NoState

LEMMA NotFlashed == \A n : n = 0 => ~(n > 0)
OBVIOUS

LEMMA Unmarked ==
  ASSUME stateFile \in StateRecord
  PROVE  /\ [stateFile EXCEPT !.phase = "HOST_CONFIRM"].phase = "HOST_CONFIRM"
         /\ [stateFile EXCEPT !.phase = "HOST_CONFIRM"].target = stateFile.target
BY DEF StateRecord

\* The Hearth part through the steps that flash it.
LEMMA FwRunsFwStep ==
  ASSUME Records, FwRuns, NoFault, FwStep
  PROVE  FwRuns'
<1> USE DEF FwRuns, Confirmed, HostPlaces, Goto, Rest, Rested, WriteOk, SaveState, SaveManifest, ClearState,
  OpensFlasher, ResumeGoesOn, NextAttempt, files, durable, memory, bounds, history
<1>1. CASE ApplyFw
  <2>1. job'.attempt = 1
    BY <1>1, FirstNumber, JobAttempt DEF ApplyFw, Records
  <2> QED
    BY <1>1, <2>1, NothingFails DEF ApplyFw
<1>2. CASE SaveAttempt
  BY Phased, NothingFails, <1>2 DEF SaveAttempt
<1>3. CASE AttemptsSpent
  <2>1. job.attempt # 1
    BY <1>3 DEF AttemptsSpent, AttemptsLeft
  <2> QED
    BY <1>3, <2>1 DEF AttemptsSpent
<1>4. CASE Flash
  BY Phased, NothingFails, <1>4 DEF Flash, NextAttempt
<1>5. CASE ConfirmFw
  BY Phased, NothingFails, <1>5 DEF ConfirmFw, NextAttempt
<1>6. CASE DropBin
  BY Phased, NothingFails, <1>6 DEF DropBin, fwRest
<1>7. CASE DropMeta
  BY Phased, NothingFails, <1>7 DEF DropMeta, fwRest
<1>8. CASE OpenBin
  BY Phased, NothingFails, <1>8 DEF OpenBin, fwRest
<1>9. CASE CloseBin
  BY Phased, NothingFails, <1>9 DEF CloseBin, fwRest
<1>10. CASE WriteMeta
  BY Phased, NothingFails, <1>10 DEF WriteMeta, fwRest
<1>11. CASE FwDone
  BY Phased, NothingFails, <1>11 DEF FwDone
<1>12. CASE RecordFw
  BY Phased, NothingFails, <1>12 DEF RecordFw
<1>13. CASE DropStaged
  BY Phased, NothingFails, <1>13 DEF DropStaged
<1>14. CASE ClearAfterFw
  BY Phased, NothingFails, <1>14 DEF ClearAfterFw
<1>15. CASE FwFailed
  BY Phased, NothingFails, <1>15 DEF FwFailed
<1>16. CASE RollBack
  BY Phased, NothingFails, <1>16 DEF RollBack
<1>17. CASE Fail
  BY Phased, NothingFails, <1>17 DEF Fail
<1> QED
  BY <1>1, <1>2, <1>3, <1>4, <1>5, <1>6, <1>7, <1>8, <1>9, <1>10, <1>11, <1>12, <1>13, <1>14, <1>15, <1>16, <1>17 DEF FwStep

\* The Hearth part through the steps of the host part.
LEMMA FwRunsHostPartStep ==
  ASSUME Records, FwRuns, NoFault, HostPartStep
  PROVE  FwRuns'
<1> USE DEF FwRuns, Confirmed, HostPlaces, Goto, Rest, Rested, WriteOk, SaveState, SaveManifest, ClearState,
  OpensFlasher, ResumeGoesOn, NextAttempt, files, durable, memory, bounds, history
<1>1. CASE DeclareHost
  BY Phased, NothingFails, <1>1 DEF DeclareHost
<1>2. CASE SavePrev
  BY Phased, NothingFails, <1>2 DEF SavePrev, HostFails, hostRest
<1>3. CASE StageHost
  BY Phased, NothingFails, <1>3 DEF StageHost, HostFails, hostRest
<1>4. CASE SaveHost
  <2>1. stateFile' = [phase |-> "HOST", attempts |-> 0, target |-> staged, host |-> TRUE]
    BY <1>4, NothingFails DEF SaveHost
  <2>2. stateFile'.phase = "HOST" /\ stateFile'.target = staged /\ pc' = "reboot"
    BY <1>4, <2>1, Phased, NothingFails DEF SaveHost
  <2> QED
    BY <1>4, <2>2 DEF SaveHost, hostRest
<1>5. CASE Reboot
  BY Phased, NothingFails, <1>5 DEF Reboot, Boots
<1>6. CASE RecordHost
  BY Phased, NothingFails, <1>6 DEF RecordHost
<1>7. CASE ClearHost
  BY Phased, NothingFails, <1>7 DEF ClearHost
<1>8. CASE DropHost
  BY Phased, NothingFails, <1>8 DEF DropHost
<1>9. CASE PutBack
  BY Phased, NothingFails, <1>9 DEF PutBack
<1>10. CASE SaveConfirm
  BY <1>10, Unmarked, NothingFails DEF SaveConfirm, Records
<1> QED
  BY <1>1, <1>2, <1>3, <1>4, <1>5, <1>6, <1>7, <1>8, <1>9, <1>10 DEF HostPartStep

\* The Hearth part through the steps of begin().
LEMMA FwRunsBeginStep ==
  ASSUME Records, FwRuns, NoFault, BeginStep
  PROVE  FwRuns'
<1> USE DEF FwRuns, Confirmed, HostPlaces, Goto, Rest, Rested, WriteOk, SaveState, SaveManifest, ClearState,
  OpensFlasher, ResumeGoesOn, NextAttempt, files, durable, memory, bounds, history
<1>1. CASE BeginLoad
  BY Phased, NothingFails, <1>1 DEF BeginLoad, Resumable
<1>2. CASE ResumeFw
  BY Phased, NothingFails, <1>2 DEF ResumeFw
<1>3. CASE Declared
  BY Phased, NothingFails, <1>3 DEF Declared, beginRest
<1>4. CASE NotDeclared
  BY Phased, NothingFails, <1>4 DEF NotDeclared, FirstBootHostConfirm, beginRest
<1>5. CASE Probed
  BY Phased, NothingFails, <1>5 DEF Probed, FirstBootHostConfirm, beginRest
<1>6. CASE NotProbed
  BY Phased, NothingFails, <1>6 DEF NotProbed, beginRest
<1> QED
  BY <1>1, <1>2, <1>3, <1>4, <1>5, <1>6 DEF BeginStep

\* The Hearth part through every other step.
LEMMA FwRunsOther ==
  ASSUME Records, FwRuns, NoFault, 
         Offer \/ OfferNothing \/ OfferDropped \/ RequestorRetry \/ Reprobe \/ PowerLoss \/ UsbReflash
  PROVE  FwRuns'
<1> USE DEF FwRuns, Confirmed, HostPlaces, Goto, Rest, Rested, WriteOk, SaveState, SaveManifest, ClearState,
  OpensFlasher, ResumeGoesOn, NextAttempt, files, durable, memory, bounds, history
<1>1. CASE Offer
  <2>1. flashes' = 0 /\ stateFile' = stateFile /\ pc' \in {"apply", "host"}
    BY <1>1 DEF Offer
  <2>2. ~(flashes' > 0)
    BY <2>1, NotFlashed
  <2> QED
    BY <2>1, <2>2
<1>2. CASE OfferNothing
  BY Phased, NothingFails, <1>2 DEF OfferNothing, CanOffer
<1>3. CASE OfferDropped
  BY Phased, NothingFails, <1>3 DEF OfferDropped, CanOffer
<1>4. CASE RequestorRetry
  BY Phased, NothingFails, <1>4 DEF RequestorRetry, idle
<1>5. CASE Reprobe
  BY Phased, NothingFails, <1>5 DEF Reprobe
<1>6. CASE PowerLoss
  BY Phased, NothingFails, <1>6 DEF PowerLoss, Boots
<1>7. CASE UsbReflash
  BY Phased, NothingFails, <1>7 DEF UsbReflash
<1> QED
  BY <1>1, <1>2, <1>3, <1>4, <1>5, <1>6, <1>7

---------------------------------------------------------------------------
(* What is recorded runs: the sketch, as long as the power stays.          *)

Applying  == FwPlaces \cup HostPlaces
Recording == {"record host", "put back", "save confirm"}

\* Sketch s is the recorded host part, or a later version than that one's is
\* in force: a bundle whose host part is not selected is not one whose sketch
\* is missing.
Later(host, s, v)      == host = s \/ host < v
Named(product, host, s) == Later(host, s, Greater(s, product))

\* The host part staged in the boot loader's slot, and the old sketch that can
\* be put back.
BootsNew ==
  /\ stateFile.phase = "HOST" /\ slot = "staged" /\ stateFile.target = staged
  /\ staged \in HasHost /\ manifest.host < staged
BootsOld == stateFile.phase = "HOST_CONFIRM" /\ slot = "prev"
Kept     == hostPrev \in Versions /\ Named(manifest.product, manifest.host, hostPrev)

\* The new sketch runs and is not recorded yet.
Booted ==
  /\ stateFile.target = staged /\ staged = sketch /\ staged \in HasHost
  /\ manifest.host < staged

\* At any time.
SketchNow ==
  /\ Named(manifest.product, manifest.host, sketch)
  /\ ~job.resumed /\ pc # "resume"
  /\ pc # "begin" => known = manifest /\ sketch <= effective /\ Later(known.host, sketch, effective)
  /\ pc \in {"clear host", "drop host"} => sketch = known.product /\ known.host = sketch
  /\ pc \in Ending => effective <= known.product

\* From the offer to the reboot.
SketchApplied ==
  /\ pc \in Applying => effective <= staged
  /\ pc \in Applying /\ ~job.host => (staged \in HasHost => staged = sketch)
  /\ pc \in Applying /\ job.host => staged \in HasHost /\ known.host < staged
  /\ pc = "record fw" => ~job.host
  /\ pc \in HostPlaces => job.host
  /\ pc \in {"stage host", "save host"} => hostPrev = sketch
  /\ pc = "save host" => slot = "staged"

\* From the reboot to the first boot's verdict.
SketchBooted ==
  /\ pc = "reboot" => (BootsNew \/ BootsOld) /\ Kept
  /\ pc \in BootPlaces => stateFile.phase # "FW"
  /\ pc \in BootPlaces /\ stateFile.phase = "HOST" => Booted /\ Kept
  /\ pc \in Recording => stateFile.phase = "HOST" /\ Booted /\ Kept
  /\ pc = "probe" /\ stateFile.phase = "HOST" => effective = staged
  /\ pc = "save confirm" => slot = "prev"
  /\ pc = "record host" => effective = staged

SketchRuns == SketchNow /\ SketchApplied /\ SketchBooted

LEMMA Naturals == Versions \subseteq Maybe /\ Maybe \subseteq Nat /\ Bundles \subseteq Maybe
BY ApplyAssumption DEF ApplyAssumption, Maybe, None

\* The order of the versions.
LEMMA LaterUp ==
  ASSUME NEW h \in Maybe, NEW s \in Maybe, NEW v \in Maybe, NEW w \in Maybe,
         v <= w, Later(h, s, v)
  PROVE  Later(h, s, w) /\ Named(w, h, s)
BY Naturals DEF Later, Named, Greater

LEMMA NewNamed ==
  ASSUME NEW h \in Maybe, NEW s \in Maybe, NEW p \in Maybe, h < s
  PROVE  Named(p, h, s) /\ Later(h, s, s) /\ s <= s
BY Naturals DEF Later, Named, Greater

LEMMA SameNamed ==
  ASSUME NEW s \in Maybe, NEW p \in Maybe
  PROVE  Named(p, s, s) /\ Later(s, s, s) /\ s <= s
BY Naturals DEF Later, Named, Greater

LEMMA NamedAtBoot ==
  ASSUME NEW h \in Maybe, NEW s \in Maybe, NEW p \in Maybe, Named(p, h, s)
  PROVE  s <= Greater(s, p) /\ Later(h, s, Greater(s, p)) /\ Greater(s, p) \in Maybe
BY Naturals DEF Later, Named, Greater

\* A bundle that is accepted: its host part is recorded and runs, or is new.
LEMMA PartOrder ==
  ASSUME NEW h \in Maybe, NEW s \in Maybe, NEW e \in Maybe, NEW v \in Maybe,
         v >= e, s <= e, Later(h, s, e)
  PROVE  e <= v /\ s <= v /\ (v = h => v = s) /\ (v # h => h < v)
BY Naturals DEF Later

LEMMA AtMost ==
  ASSUME NEW s \in Maybe, NEW v \in Maybe, NEW w \in Maybe, s <= v, v <= w
  PROVE  s <= w
BY Naturals

LEMMA JobHostKept ==
  ASSUME NEW j \in JobRecord, NEW n
  PROVE  [j EXCEPT !.attempt = n].host = j.host /\ [j EXCEPT !.attempt = n].resumed = j.resumed
BY DEF JobRecord

LEMMA HostKept ==
  ASSUME known \in [product : Maybe, host : Maybe], NEW v
  PROVE  [known EXCEPT !.product = v].host = known.host
OBVIOUS

LEMMA NotResumed == ~NoJob.resumed
BY DEF NoJob

\* What the steps below know of the values.
LEMMA Valued ==
  ASSUME StageInv, Manifests, Records
  PROVE  /\ sketch \in Maybe /\ staged \in Maybe /\ sketch \in Versions /\ hostPrev \in Maybe
         /\ known.product \in Maybe /\ known.host \in Maybe
         /\ manifest.product \in Maybe /\ manifest.host \in Maybe
         /\ stateFile.target \in Maybe
BY Naturals DEF StageInv, Kinds, Manifests, Records, StateRecord

LEMMA AcceptedOrder ==
  ASSUME StageInv, Manifests, Records, effective \in Maybe, NEW v \in Bundles,
         v >= effective, sketch <= effective, Later(known.host, sketch, effective)
  PROVE  effective <= v /\ (v = known.host => v = sketch) /\ (v # known.host => known.host < v)
<1>1. v \in Maybe /\ sketch \in Maybe /\ known.host \in Maybe
  BY Valued, Naturals
<1> QED
  BY <1>1, PartOrder

LEMMA ForceStep ==
  ASSUME StageInv, Manifests, Records, effective \in Maybe, [Next]_vars
  PROVE  effective' \in Maybe
<1>1. CASE Reboot \/ PowerLoss
  BY <1>1 DEF Reboot, PowerLoss, Boots, Maybe
<1>2. CASE BeginLoad
  BY <1>2, Valued, Naturals DEF BeginLoad, InForce, Greater
<1>3. CASE Declared
  BY <1>3, Valued DEF Declared
<1>4. CASE ClearAfterFw
  BY <1>4, Valued, Naturals DEF ClearAfterFw, ResumeGoesOn, InForce, Greater
<1>5. CASE DropHost
  BY <1>5, Valued DEF DropHost
<1>6. CASE UNCHANGED effective
  BY <1>6
<1>7. CASE ApplyFw \/ SaveAttempt \/ AttemptsSpent \/ Flash \/ ConfirmFw \/ DropBin \/
           DropMeta \/ OpenBin \/ CloseBin \/ WriteMeta \/ FwDone \/ RecordFw \/ DropStaged \/
           FwFailed \/ RollBack \/ Fail \/ DeclareHost \/ SavePrev \/
           StageHost \/ SaveHost \/ RecordHost \/ ClearHost \/ PutBack \/ SaveConfirm \/
           ResumeFw \/ NotDeclared \/ Probed \/ NotProbed \/ Offer \/ OfferNothing \/
           OfferDropped \/ RequestorRetry \/ Reprobe \/ UsbReflash
  BY <1>7 DEF memory, ApplyFw, SaveAttempt, AttemptsSpent, Flash, NextAttempt, ConfirmFw, DropBin, fwRest,
         DropMeta, OpenBin, CloseBin, WriteMeta, FwDone, RecordFw, DropStaged, FwFailed,
         RollBack, Fail, DeclareHost, SavePrev, HostFails, hostRest, StageHost, SaveHost,
         RecordHost, ClearHost, PutBack, SaveConfirm, ResumeFw, beginRest, NotDeclared,
         FirstBootHostConfirm, Probed, NotProbed, Offer, OfferNothing, OfferDropped,
         RequestorRetry, idle, Reprobe, UsbReflash
<1> QED
  BY <1>1, <1>2, <1>3, <1>4, <1>5, <1>6, <1>7
  DEF Next, FwStep, HostPartStep, BeginStep, vars, memory

\* The sketch through the steps of the Hearth part.
LEMMA SketchFwStep ==
  ASSUME StageInv, Manifests, Records, effective \in Maybe, SketchRuns, NoFault,
         FwStep
  PROVE  SketchRuns'
<1> USE DEF SketchRuns, SketchNow, SketchApplied, SketchBooted, Applying, Recording, Ending, FwPlaces, HostPlaces, BootPlaces, BootsNew, BootsOld,
  Kept, Booted, Goto, Rest, Rested, WriteOk, SaveState, SaveManifest, ClearState, OpensFlasher,
  files, durable, memory, bounds, history
<1>1. CASE ApplyFw
  <2>1. PICK n : job' = job \/ job' = [job EXCEPT !.attempt = n]
    BY <1>1 DEF ApplyFw, NextAttempt
  <2>2. job'.resumed = job.resumed /\ job'.host = job.host
    <3>1. job \in JobRecord
      BY DEF Records
    <3>2. CASE job' = [job EXCEPT !.attempt = n]
      BY <3>1, <3>2, JobHostKept
    <3> QED
      BY <2>1, <3>2
  <2> QED
    BY <1>1, <2>2, NothingFails DEF ApplyFw, NextAttempt
<1>2. CASE SaveAttempt
  BY Phased, NotResumed, NothingFails, <1>2 DEF SaveAttempt
<1>3. CASE AttemptsSpent
  BY Phased, NotResumed, NothingFails, <1>3 DEF AttemptsSpent
<1>4. CASE Flash
  <2>1. PICK n : job' = job \/ job' = [job EXCEPT !.attempt = n]
    BY <1>4 DEF Flash, NextAttempt
  <2>2. job'.resumed = job.resumed /\ job'.host = job.host
    <3>1. job \in JobRecord
      BY DEF Records
    <3>2. CASE job' = [job EXCEPT !.attempt = n]
      BY <3>1, <3>2, JobHostKept
    <3> QED
      BY <2>1, <3>2
  <2> QED
    BY <1>4, <2>2, NothingFails DEF Flash, NextAttempt
<1>5. CASE ConfirmFw
  <2>1. PICK n : job' = job \/ job' = [job EXCEPT !.attempt = n]
    BY <1>5 DEF ConfirmFw, NextAttempt
  <2>2. job'.resumed = job.resumed /\ job'.host = job.host
    <3>1. job \in JobRecord
      BY DEF Records
    <3>2. CASE job' = [job EXCEPT !.attempt = n]
      BY <3>1, <3>2, JobHostKept
    <3> QED
      BY <2>1, <3>2
  <2> QED
    BY <1>5, <2>2, NothingFails DEF ConfirmFw, NextAttempt
<1>6. CASE DropBin
  BY Phased, NotResumed, NothingFails, <1>6 DEF DropBin, fwRest
<1>7. CASE DropMeta
  BY Phased, NotResumed, NothingFails, <1>7 DEF DropMeta, fwRest
<1>8. CASE OpenBin
  BY Phased, NotResumed, NothingFails, <1>8 DEF OpenBin, fwRest
<1>9. CASE CloseBin
  BY Phased, NotResumed, NothingFails, <1>9 DEF CloseBin, fwRest
<1>10. CASE WriteMeta
  BY Phased, NotResumed, NothingFails, <1>10 DEF WriteMeta, fwRest
<1>11. CASE FwDone
  BY Phased, NotResumed, NothingFails, <1>11 DEF FwDone
<1>12. CASE RecordFw
  <2>1. known' = [known EXCEPT !.product = staged] /\ manifest' = known'
    BY <1>12, NothingFails DEF RecordFw
  <2>2. known'.product = staged /\ known'.host = known.host
    BY <2>1, ProductSet, HostKept DEF Manifests
  <2>3. effective <= staged /\ Later(known.host, sketch, effective)
    BY <1>12 DEF RecordFw
  <2>4. Named(staged, known.host, sketch)
    BY <2>3, LaterUp, Valued
  <2> QED
    BY <1>12, <2>1, <2>2, <2>3, <2>4 DEF RecordFw
<1>13. CASE DropStaged
  BY Phased, NotResumed, NothingFails, <1>13 DEF DropStaged
<1>14. CASE ClearAfterFw
  <2>1. /\ effective <= known.product /\ Later(known.host, sketch, effective)
        /\ sketch <= effective /\ effective' = known.product
    BY <1>14 DEF ClearAfterFw
  <2>2. Later(known.host, sketch, known.product) /\ sketch <= known.product
    BY <2>1, LaterUp, AtMost, Valued
  <2> QED
    BY <1>14, <2>1, <2>2, Phased, NotResumed DEF ClearAfterFw
<1>15. CASE FwFailed
  BY Phased, NotResumed, NothingFails, <1>15 DEF FwFailed
<1>16. CASE RollBack
  BY Phased, NotResumed, NothingFails, <1>16 DEF RollBack
<1>17. CASE Fail
  BY Phased, NotResumed, NothingFails, <1>17 DEF Fail
<1> QED
  BY <1>1, <1>2, <1>3, <1>4, <1>5, <1>6, <1>7, <1>8, <1>9, <1>10, <1>11, <1>12, <1>13, <1>14, <1>15, <1>16, <1>17 DEF FwStep

\* The sketch through the steps of the host part.
LEMMA SketchHostPartStep ==
  ASSUME StageInv, Manifests, Records, effective \in Maybe, SketchRuns, NoFault,
         HostPartStep
  PROVE  SketchRuns'
<1> USE DEF SketchRuns, SketchNow, SketchApplied, SketchBooted, Applying, Recording, Ending, FwPlaces, HostPlaces, BootPlaces, BootsNew, BootsOld,
  Kept, Booted, Goto, Rest, Rested, WriteOk, SaveState, SaveManifest, ClearState, OpensFlasher,
  files, durable, memory, bounds, history
<1>1. CASE DeclareHost
  BY Phased, NotResumed, NothingFails, <1>1 DEF DeclareHost
<1>2. CASE SavePrev
  BY NotResumed, NothingFails, <1>2 DEF SavePrev, HostFails, hostRest
<1>3. CASE StageHost
  BY Phased, NotResumed, NothingFails, <1>3 DEF StageHost, HostFails, hostRest
<1>4. CASE SaveHost
  <2>1. stateFile' = [phase |-> "HOST", attempts |-> 0, target |-> staged, host |-> TRUE]
    BY <1>4, NothingFails DEF SaveHost
  <2>2. stateFile'.phase = "HOST" /\ stateFile'.target = staged /\ pc' = "reboot"
    BY <1>4, <2>1, Phased, NothingFails DEF SaveHost
  <2>3. hostPrev \in Versions
    BY <1>4, Valued DEF SaveHost
  <2> QED
    BY <1>4, <2>2, <2>3 DEF SaveHost, hostRest
<1>5. CASE Reboot
  <2>1. /\ UNCHANGED <<files, manifest, staged, stateFile, hostPrev>> /\ pc' = "begin"
        /\ job' = NoJob
        /\ slot = "staged" /\ staged \in HasHost => sketch' = staged
        /\ slot = "prev" => sketch' = hostPrev
    BY <1>5 DEF Reboot, Boots
  <2>2. ~job'.resumed
    BY <2>1, NotResumed
  <2>3. (BootsNew \/ BootsOld) /\ Kept
    BY <1>5 DEF Reboot
  <2>4. CASE BootsNew
    <3>1. sketch' = staged /\ manifest.host < staged
      BY <2>1, <2>4
    <3>2. Named(manifest.product, manifest.host, staged)
      BY <3>1, NewNamed, Valued
    <3> QED
      BY <2>1, <2>2, <2>3, <2>4, <3>1, <3>2
  <2>5. CASE BootsOld
    BY <2>1, <2>2, <2>3, <2>5
  <2> QED
    BY <2>3, <2>4, <2>5
<1>6. CASE RecordHost
  <2>1. /\ stateFile.target = staged /\ staged = sketch /\ staged \in HasHost
        /\ effective = staged
    BY <1>6 DEF RecordHost
  <2>2. known' = [product |-> staged, host |-> staged] /\ manifest' = known'
    BY <1>6, <2>1, NothingFails DEF RecordHost
  <2>3. known'.product = staged /\ known'.host = staged
    BY <2>2
  <2>4. Named(staged, staged, sketch) /\ Later(staged, sketch, effective)
    BY <2>1, SameNamed, Valued
  <2> QED
    BY <1>6, <2>1, <2>2, <2>3, <2>4 DEF RecordHost
<1>7. CASE ClearHost
  BY Phased, NotResumed, NothingFails, <1>7 DEF ClearHost
<1>8. CASE DropHost
  <2>1. effective' = sketch /\ known.host = sketch /\ sketch <= sketch
        /\ Later(sketch, sketch, sketch)
    BY <1>8, SameNamed, Valued DEF DropHost
  <2> QED
    BY <1>8, <2>1, NotResumed DEF DropHost
<1>9. CASE PutBack
  BY Phased, NotResumed, NothingFails, <1>9 DEF PutBack
<1>10. CASE SaveConfirm
  BY <1>10, Unmarked, NothingFails DEF SaveConfirm, Records
<1> QED
  BY <1>1, <1>2, <1>3, <1>4, <1>5, <1>6, <1>7, <1>8, <1>9, <1>10 DEF HostPartStep

\* The sketch through the steps of begin().
LEMMA SketchBeginStep ==
  ASSUME StageInv, Manifests, Records, effective \in Maybe, SketchRuns, NoFault,
         BeginStep
  PROVE  SketchRuns'
<1> USE DEF SketchRuns, SketchNow, SketchApplied, SketchBooted, Applying, Recording, Ending, FwPlaces, HostPlaces, BootPlaces, BootsNew, BootsOld,
  Kept, Booted, Goto, Rest, Rested, WriteOk, SaveState, SaveManifest, ClearState, OpensFlasher,
  files, durable, memory, bounds, history
<1>1. CASE BeginLoad
  <2>1. /\ known' = manifest /\ effective' = Greater(sketch, manifest.product)
        /\ pc' = "declare" /\ UNCHANGED <<job, stateFile, sketch, manifest, staged, hostPrev>>
    BY <1>1 DEF BeginLoad, InForce
  <2>2. sketch <= Greater(sketch, manifest.product)
        /\ Later(manifest.host, sketch, Greater(sketch, manifest.product))
    BY NamedAtBoot, Valued
  <2> QED
    BY <1>1, <2>1, <2>2 DEF BeginLoad
<1>2. CASE ResumeFw
  BY Phased, NotResumed, NothingFails, <1>2 DEF ResumeFw
<1>3. CASE Declared
  <2>1. CASE stateFile.phase = "HOST"
    <3>1. effective' = staged /\ staged = sketch /\ known.host < sketch
      BY <1>3, <2>1 DEF Declared
    <3>2. sketch <= sketch /\ Later(known.host, sketch, sketch)
      BY <3>1, NewNamed, Valued
    <3> QED
      BY <1>3, <2>1, <3>1, <3>2 DEF Declared, beginRest
  <2>2. CASE stateFile.phase # "HOST"
    BY <1>3, <2>2 DEF Declared, beginRest
  <2> QED
    BY <2>1, <2>2
<1>4. CASE NotDeclared
  BY Phased, NotResumed, NothingFails, <1>4 DEF NotDeclared, FirstBootHostConfirm, beginRest
<1>5. CASE Probed
  BY Phased, NotResumed, NothingFails, <1>5 DEF Probed, FirstBootHostConfirm, beginRest
<1>6. CASE NotProbed
  BY Phased, NotResumed, NothingFails, <1>6 DEF NotProbed, beginRest
<1> QED
  BY <1>1, <1>2, <1>3, <1>4, <1>5, <1>6 DEF BeginStep

\* The sketch through every other step.
LEMMA SketchOther ==
  ASSUME StageInv, Manifests, Records, effective \in Maybe, SketchRuns, NoFault,
         Offer \/ OfferNothing \/ OfferDropped \/ RequestorRetry \/ Reprobe \/ UsbReflash
  PROVE  SketchRuns'
<1> USE DEF SketchRuns, SketchNow, SketchApplied, SketchBooted, Applying, Recording, Ending, FwPlaces, HostPlaces, BootPlaces, BootsNew, BootsOld,
  Kept, Booted, Goto, Rest, Rested, WriteOk, SaveState, SaveManifest, ClearState, OpensFlasher,
  files, durable, memory, bounds, history
<1>1. CASE Offer
  <2>1. PICK v \in Bundles :
          /\ Accepts(v) /\ staged' = v /\ Goto(IF SelectsFw(v) THEN "apply" ELSE "host")
          /\ SelectsFw(v) \/ SelectsHost(v)
          /\ job' = [NoJob EXCEPT !.target = v, !.fw = SelectsFw(v), !.host = SelectsHost(v)]
    BY <1>1 DEF Offer
  <2>2. job'.host = SelectsHost(v) /\ job'.resumed = FALSE
    BY <2>1 DEF NoJob
  <2>3. effective <= v /\ (v = known.host => v = sketch) /\ (v # known.host => known.host < v)
    <3>1. v >= effective /\ sketch <= effective /\ Later(known.host, sketch, effective)
      BY <1>1, <2>1 DEF Offer, CanOffer, Accepts
    <3> QED
      BY <3>1, AcceptedOrder
  <2>4. SelectsHost(v) <=> v \in HasHost /\ v # known.host
    BY DEF SelectsHost
  <2> QED
    BY <1>1, <2>1, <2>2, <2>3, <2>4 DEF Offer, CanOffer
<1>2. CASE OfferNothing
  <2>1. PICK v \in Bundles :
          Accepts(v) /\ known' = [known EXCEPT !.product = v] /\ manifest' = known'
    BY <1>2, NothingFails DEF OfferNothing
  <2>2. known'.product = v /\ known'.host = known.host
    BY <2>1, ProductSet, HostKept DEF Manifests
  <2>3. effective <= v /\ Later(known.host, sketch, effective)
    BY <1>2, <2>1, PartOrder, Valued, Naturals DEF OfferNothing, CanOffer, Accepts
  <2>4. Named(v, known.host, sketch)
    BY <2>1, <2>3, LaterUp, Valued, Naturals
  <2> QED
    BY <1>2, <2>1, <2>2, <2>3, <2>4, NotResumed DEF OfferNothing, CanOffer
<1>3. CASE OfferDropped
  BY Phased, NotResumed, NothingFails, <1>3 DEF OfferDropped, CanOffer
<1>4. CASE RequestorRetry
  BY Phased, NotResumed, NothingFails, <1>4 DEF RequestorRetry, idle
<1>5. CASE Reprobe
  BY Phased, NotResumed, NothingFails, <1>5 DEF Reprobe
<1>6. CASE UsbReflash
  BY Phased, NotResumed, NothingFails, <1>6 DEF UsbReflash
<1> QED
  BY <1>1, <1>2, <1>3, <1>4, <1>5, <1>6

RunsInv ==
  /\ effective \in Maybe /\ losses \in Nat
  /\ faults = 0 => FwRuns /\ (losses = 0 => SketchRuns)

\* The power losses are counted, and nothing else touches the count.
LEMMA LossCounted ==
  ASSUME losses \in Nat, [Next]_vars
  PROVE  losses' \in Nat /\ (losses' = 0 => losses' = losses) /\ (PowerLoss => losses' # 0)
<1>0. losses + 1 \in Nat /\ losses + 1 # 0
  OBVIOUS
<1>9. PowerLoss => losses' # 0
  BY <1>0 DEF PowerLoss
<1> SUFFICES losses' = losses \/ losses' = losses + 1
  BY <1>0, <1>9
<1>1. CASE PowerLoss
  BY <1>1 DEF PowerLoss
<1>2. CASE UNCHANGED vars
  BY <1>2 DEF vars, bounds
<1>3. CASE FwStep
  BY <1>3 DEF FwStep, bounds, ApplyFw, SaveAttempt, AttemptsSpent, Flash, NextAttempt, ConfirmFw,
         DropBin, fwRest, DropMeta, OpenBin, CloseBin, WriteMeta, FwDone, RecordFw, DropStaged,
         ClearAfterFw, FwFailed, RollBack, Fail
<1>4. CASE HostPartStep
  BY <1>4 DEF HostPartStep, bounds, DeclareHost, SavePrev, HostFails, hostRest, StageHost,
         SaveHost, Reboot, RecordHost, ClearHost, DropHost, PutBack, SaveConfirm
<1>5. CASE BeginStep
  BY <1>5 DEF BeginStep, bounds, BeginLoad, ResumeFw, Declared, beginRest, NotDeclared,
         FirstBootHostConfirm, Probed, NotProbed
<1>6. CASE Offer \/ OfferNothing \/ OfferDropped \/ RequestorRetry \/ Reprobe \/ UsbReflash
  BY <1>6 DEF Offer, OfferNothing, OfferDropped, RequestorRetry, idle, Reprobe, UsbReflash, bounds
<1> QED
  BY <1>1, <1>2, <1>3, <1>4, <1>5, <1>6 DEF Next

LEMMA SketchStep ==
  ASSUME StageInv, Manifests, Records, effective \in Maybe, SketchRuns, NoFault, [Next]_vars,
         ~PowerLoss
  PROVE  SketchRuns'
<1>1. CASE UNCHANGED vars
  <2>1. UNCHANGED <<sketch, slot, staged, stateFile, manifest, hostPrev, pc, job, known, effective>>
    BY <1>1 DEF vars, durable, memory, files
  <2>2. UNCHANGED <<BootsNew, BootsOld, Kept, Booted>>
    BY <2>1 DEF BootsNew, BootsOld, Kept, Booted
  <2>3. SketchNow'
    BY <2>1, Zenon DEF SketchRuns, SketchNow
  <2>4. SketchApplied'
    BY <2>1, Zenon DEF SketchRuns, SketchApplied
  <2>5. SketchBooted'
    BY <2>1, <2>2, Zenon DEF SketchRuns, SketchBooted
  <2> QED
    BY <2>3, <2>4, <2>5 DEF SketchRuns
<1> QED
  BY <1>1, SketchFwStep, SketchHostPartStep, SketchBeginStep, SketchOther DEF Next

LEMMA FwRunsStep ==
  ASSUME Records, FwRuns, NoFault, [Next]_vars
  PROVE  FwRuns'
<1>1. CASE UNCHANGED vars
  BY <1>1 DEF vars, durable, memory, history, files, FwRuns
<1> QED
  BY <1>1, FwRunsFwStep, FwRunsHostPartStep, FwRunsBeginStep, FwRunsOther DEF Next

LEMMA RunsStep ==
  ASSUME ApplyInv, Manifests, RunsInv, [Next]_vars
  PROVE  RunsInv'
<1>1. StageInv /\ Records
  BY DEF ApplyInv
<1>2. effective' \in Maybe
  BY <1>1, ForceStep DEF RunsInv
<1>3. losses' \in Nat /\ (losses' = 0 => losses' = losses) /\ (PowerLoss => losses' # 0)
  BY LossCounted DEF RunsInv
<1>4. ASSUME faults' = 0 PROVE FwRuns' /\ (losses' = 0 => SketchRuns')
  <2>1. NoFault
    BY <1>4, NoFaultStep
  <2>2. FwRuns'
    BY <1>1, <2>1, FwRunsStep DEF RunsInv, NoFault
  <2>3. ASSUME losses' = 0 PROVE SketchRuns'
    <3>1. ~PowerLoss /\ losses = 0
      BY <1>3, <2>3
    <3> QED
      BY <1>1, <2>1, <3>1, SketchStep DEF RunsInv, NoFault
  <2> QED
    BY <2>2, <2>3
<1> QED
  BY <1>2, <1>3, <1>4 DEF RunsInv

LEMMA RunsInit == Init => RunsInv
<1> SUFFICES ASSUME Init PROVE RunsInv
  OBVIOUS
<1>1. effective \in Maybe /\ losses \in Nat
  BY DEF Init, Maybe, None
<1>2. FwRuns
  BY NoRecords, NotFlashed DEF Init, FwRuns, Confirmed, HostPlaces
<1>3. SketchRuns
  <2>1. manifest.product = 0 /\ manifest.host = 0 /\ sketch \in Maybe /\ sketch > 0
    BY ApplyAssumption DEF Init, ApplyAssumption, Maybe, None
  <2>2. Named(0, 0, sketch)
    <3>1. 0 \in Maybe /\ 0 < sketch
      BY <2>1, Naturals DEF Maybe, None
    <3> QED
      BY <2>1, <3>1, NewNamed
  <2> QED
    BY <2>1, <2>2, NoRecords, NotResumed DEF Init, SketchRuns, SketchNow, SketchApplied,
       SketchBooted, Applying, Recording, Ending, FwPlaces,
       HostPlaces, BootPlaces
<1> QED
  BY <1>1, <1>2, <1>3 DEF RunsInv

\* The manifest is written by RecordFw, RecordHost and OfferNothing only.
LEMMA Recorded ==
  ASSUME [Next]_vars, manifest' # manifest
  PROVE  RecordFw \/ RecordHost \/ OfferNothing
<1>1. CASE UNCHANGED vars
  BY <1>1 DEF vars, durable, files
<1>2. CASE FwStep
  BY <1>2 DEF FwStep, durable, files, ApplyFw, SaveAttempt, AttemptsSpent, Flash, NextAttempt,
         ConfirmFw, DropBin, fwRest, DropMeta, OpenBin, CloseBin, WriteMeta, FwDone, DropStaged,
         ClearAfterFw, FwFailed, RollBack, Fail
<1>3. CASE HostPartStep
  BY <1>3 DEF HostPartStep, durable, files, DeclareHost, SavePrev, HostFails, hostRest, StageHost,
         SaveHost, Reboot, Boots, ClearHost, DropHost, PutBack, SaveConfirm
<1>4. CASE BeginStep
  BY <1>4 DEF BeginStep, durable, files, BeginLoad, ResumeFw, Declared, beginRest, NotDeclared,
         FirstBootHostConfirm, Probed, NotProbed
<1>5. CASE Offer \/ OfferDropped \/ RequestorRetry \/ Reprobe \/ PowerLoss \/ UsbReflash
  BY <1>5 DEF Offer, OfferDropped, RequestorRetry, idle, Reprobe, PowerLoss, Boots, UsbReflash,
         durable, files
<1> QED
  BY <1>1, <1>2, <1>3, <1>4, <1>5 DEF Next

\* What the record of a bundle finds running.
LEMMA RecordsWhatRuns ==
  ASSUME ApplyInv, Manifests, RunsInv, [Next]_vars, faults = 0, manifest' # manifest
  PROVE  /\ flashes' > 0 => coproc = FwOf[manifest'.product]
         /\ losses = 0 /\ manifest'.product \in HasHost => sketch = manifest'.product
<1>1. FwRuns /\ (losses = 0 => SketchRuns)
  BY DEF RunsInv
<1>2. manifest' = known'
  BY Recorded DEF RecordFw, RecordHost, OfferNothing, SaveManifest
<1>3. CASE RecordFw
  <2>1. known' = [known EXCEPT !.product = staged] /\ pc = "record fw" /\ flashes' = flashes
    BY <1>3 DEF RecordFw, history
  <2>2. manifest'.product = staged
    BY <1>2, <2>1, ProductSet DEF Manifests
  <2>3. coproc = FwOf[staged]
    BY <1>1, <2>1 DEF FwRuns, Confirmed
  <2>4. losses = 0 /\ staged \in HasHost => sketch = staged
    BY <1>1, <2>1 DEF SketchRuns, SketchApplied, Applying, FwPlaces
  <2> QED
    BY <2>2, <2>3, <2>4
<1>4. CASE RecordHost
  <2>1. manifest'.product = stateFile.target /\ pc = "record host" /\ flashes' = flashes
    BY <1>2, <1>4 DEF RecordHost, history
  <2>2. flashes > 0 => coproc = FwOf[stateFile.target]
    BY <1>1, <2>1 DEF FwRuns
  <2>3. losses = 0 => sketch = stateFile.target
    BY <1>1, <2>1 DEF SketchRuns, SketchBooted, Recording, Booted
  <2> QED
    BY <2>1, <2>2, <2>3
<1>5. CASE OfferNothing
  <2>1. PICK v \in Bundles :
          Accepts(v) /\ ~SelectsHost(v) /\ known' = [known EXCEPT !.product = v]
    BY <1>5 DEF OfferNothing
  <2>2. manifest'.product = v
    BY <1>2, <2>1, ProductSet DEF Manifests
  <2>3. ~(flashes' > 0)
    BY <1>5, NotFlashed DEF OfferNothing
  <2>4. ASSUME losses = 0, v \in HasHost PROVE sketch = v
    <3>1. v = known.host
      BY <2>1, <2>4 DEF SelectsHost
    <3>2. v >= effective /\ sketch <= effective /\ Later(known.host, sketch, effective)
      BY <1>1, <1>5, <2>1, <2>4 DEF Accepts, SketchRuns, SketchNow, OfferNothing, CanOffer
    <3>3. v \in Maybe /\ effective \in Maybe
      BY Naturals DEF RunsInv
    <3> QED
      BY <3>1, <3>2, <3>3, PartOrder, Valued DEF ApplyInv
  <2> QED
    BY <2>2, <2>3, <2>4
<1> QED
  BY <1>3, <1>4, <1>5, Recorded

\* RecordedRuns: a product version is recorded only when its parts run.  The
\* Hearth part because the phases of the state file keep what was confirmed
\* apart from what was not; the sketch because the versions are ordered, so
\* that a host part that is not selected is the one that runs.
THEOREM ApplyRecordedRuns == Spec => RecordedRuns
<1> DEFINE Inv == ApplyInv /\ Manifests /\ ClaimInv /\ RunsInv
<1>1. Init => Inv
  BY ApplyInit, ClaimInit, RunsInit
<1>2. Inv /\ [Next]_vars => Inv'
  BY ApplyStep, ClaimStep, RunsStep
<1>3. Inv /\ [Next]_vars =>
        [ faults = 0 /\ manifest'.product # manifest.product =>
            /\ flashes' > 0 => coproc = FwOf[manifest'.product]
            /\ losses = 0 /\ manifest'.product \in HasHost => sketch = manifest'.product ]_vars
  BY RecordsWhatRuns
<1> QED
  BY <1>1, <1>2, <1>3, PTL DEF Spec, RecordedRuns

============================================================================
