---------------------------- MODULE HearthApply ----------------------------
(***************************************************************************)
(* Applying an update bundle (HearthUpdate.cpp, hearthApply() to           *)
(* hearthFirstBootHostConfirm(), with the files of HearthUpdateStage.cpp): *)
(* the Hearth part is flashed into the co-processor, up to three times,    *)
(* then the host part is staged for the boot loader and the board reboots  *)
(* into it; the next begin() confirms it or puts the old sketch back.      *)
(*                                                                         *)
(* The power may go at any step.  What survives is what the files, the two *)
(* flash memories and the boot loader's command hold, so every write of    *)
(* one of them is a step of its own.                                       *)
(*                                                                         *)
(* A bundle is its product version, which its host part carries too; its   *)
(* Hearth part may be an older one.  It is verified before it gets here.   *)
(* One co-processor model, whose flasher exists.                           *)
(***************************************************************************)
EXTENDS Integers

CONSTANTS
  Versions,     \* product versions
  First,        \* the version the board leaves the factory with
  Bundles,      \* product versions whose bundles the provider offers
  FwOf,         \* the version of a bundle's Hearth part, None when it has none
  HasHost,      \* bundles that carry a host part
  MaxOffers,    \* bound: bundles offered
  MaxLosses,    \* bound: power losses
  MaxFaults,    \* bound: file system writes that fail
  MaxReflashes  \* bound: co-processors reflashed by hand over USB

ASSUME ApplyAssumption ==
  /\ Versions \subseteq Nat \ {0} /\ First \in Versions
  /\ Bundles \subseteq Versions /\ HasHost \subseteq Bundles
  /\ FwOf \in [Bundles -> Versions \cup {0}]
  /\ MaxOffers \in Nat /\ MaxLosses \in Nat /\ MaxFaults \in Nat /\ MaxReflashes \in Nat

None   == 0                  \* no version: a file that is not there
Maybe  == {None} \cup Versions
HasFw  == {v \in Bundles : FwOf[v] # None}
Broken == -1                 \* a co-processor left in its boot loader
Torn   == -2                 \* a file cut off while it was written

VARIABLES
  \* What survives a power loss.
  sketch,      \* [external] the host image in flash
  slot,        \* [external] PicoOTA's command: "none", "staged", "prev"
  coproc,      \* [external] the co-processor's application
  declared,    \* [external] the version it was last told to claim
  staged,      \* staged.ota
  stateFile,   \* ota.state
  manifest,    \* manifest
  retainedBin, \* fw-retained.bin
  retainedMeta,\* fw-retained.meta
  hostPrev,    \* host-prev.bin
  \* What does not.
  pc,          \* the next step of begin() or of the apply
  job,         \* what is being applied: part selection, attempt, resume
  status,      \* _status.state
  known,       \* _manifest
  effective,   \* _effectiveVersion, with _declaredVersion
  hearthVer,   \* _hearthVersion
  preApply,    \* _preApplyHearthVersion
  complete,    \* _beginComplete
  \* Bounds and history.
  offers, losses, faults, reflashes,
  flashes,     \* attempts to flash the Hearth part of this apply
  reboots,     \* reboots the host drove since it last rested or lost power
  before,      \* the co-processor's application when this apply began
  deaf,        \* the last declaration of this boot got no answer
  downgraded   \* a healthy co-processor was flashed with the retained image

files    == <<staged, stateFile, manifest, retainedBin, retainedMeta, hostPrev>>
durable  == <<sketch, slot, coproc, declared, files>>
memory   == <<job, status, known, effective, hearthVer, preApply, complete>>
bounds   == <<offers, losses, faults, reflashes>>
history  == <<flashes, reboots, before, deaf, downgraded>>
vars     == <<durable, pc, memory, bounds, history>>

Phases   == {"none", "FW", "HOST", "HOST_CONFIRM"}
StateRecord == [phase : Phases, attempts : 0 .. 3, target : Maybe, host : BOOLEAN]
JobRecord   == [fw : BOOLEAN, host : BOOLEAN, target : Maybe, attempt : 0 .. 4,
                resumed : BOOLEAN]
NoState  == [phase |-> "none", attempts |-> 0, target |-> None, host |-> FALSE]
NoJob    == [fw |-> FALSE, host |-> FALSE, target |-> None, attempt |-> 0,
             resumed |-> FALSE]
Statuses == {"DISABLED", "UNAVAILABLE", "IDLE", "APPLYING", "FAILED"}

Greater(a, b) == IF a > b THEN a ELSE b

\* The sketch of version v declares v as its baseline, begin()'s argument.
InForce(m) == Greater(sketch, m.product)

Init ==
  /\ sketch = First /\ slot = "none" /\ coproc = First /\ declared = None
  /\ staged = None /\ stateFile = NoState
  /\ manifest = [product |-> None, host |-> None]
  /\ retainedBin = None /\ retainedMeta = None /\ hostPrev = None
  /\ pc = "begin" /\ job = NoJob /\ status = "DISABLED"
  /\ known = manifest /\ effective = None /\ hearthVer = None /\ preApply = None /\ complete = FALSE
  /\ offers = 0 /\ losses = 0 /\ faults = 0 /\ reflashes = 0
  /\ flashes = 0 /\ reboots = 0 /\ before = First
  /\ deaf = FALSE /\ downgraded = FALSE

---------------------------------------------------------------------------
(* Steps shared by the actions.                                            *)

Goto(label) == pc' = label
Rest(s)     == pc' = "rest" /\ status' = s /\ job' = NoJob
Rested      == reboots' = 0

\* A file is written (or read back), or one of the faults spoils it.
WriteOk     == UNCHANGED faults
WriteFails  == faults < MaxFaults /\ faults' = faults + 1

\* HearthUpdateStage's records: each is written whole or not at all.
SaveState(r)    == \/ WriteOk /\ stateFile' = r
                   \/ WriteFails /\ UNCHANGED stateFile
SaveManifest(m) == \/ WriteOk /\ manifest' = m
                   \/ WriteFails /\ UNCHANGED manifest
ClearState      == stateFile' = NoState
HaveRetained    == retainedMeta # None

\* AT+MTSWVER: the co-processor claims v from now on, if it hears.
CanHear     == coproc # Broken
Declare(v)  == \/ CanHear /\ declared' = v /\ deaf' = FALSE
               \/ deaf' = TRUE /\ UNCHANGED declared

\* Mutant: the version in force is not declared again.
DeclareInForceSkipped == UNCHANGED <<declared, deaf>>

\* hearthReDeclareInForce(), on every failure path.
DeclareInForce == Declare(effective)

---------------------------------------------------------------------------
(* hearthVerifyAndVerdict()'s selection, consent and +MTOTA:APPLY.         *)

\* Not a downgrade; a Hearth part needs the model, asked with the version.
Accepts(v)     == v >= effective /\ (v \in HasFw => hearthVer # None)

SelectsFw(v)   == v \in HasFw /\ FwOf[v] # hearthVer
SelectsHost(v) == v \in HasHost /\ v # known.host

\* The requestor is on and no apply is in progress.
CanOffer == pc = "rest" /\ status \in {"IDLE", "FAILED"} /\ offers < MaxOffers

\* A bundle with a part to apply reaches its APPLY.
Offer ==
  /\ CanOffer
  /\ \E v \in {x \in Bundles : Accepts(x)} :
       /\ SelectsFw(v) \/ SelectsHost(v)
       /\ staged' = v
       /\ job' = [NoJob EXCEPT !.target = v, !.fw = SelectsFw(v), !.host = SelectsHost(v)]
       /\ Goto(IF SelectsFw(v) THEN "apply" ELSE "host")
  /\ status' = "APPLYING" /\ offers' = offers + 1
  /\ preApply' = IF job'.fw THEN hearthVer ELSE preApply
  /\ before' = coproc /\ flashes' = 0 /\ Rested
  /\ UNCHANGED <<sketch, slot, coproc, declared, stateFile, manifest, retainedBin,
                 retainedMeta, hostPrev, known, effective, hearthVer, complete, losses,
                 faults, reflashes, deaf, downgraded>>

\* Nothing to do: the product version is recorded and the bundle removed.
OfferNothing ==
  /\ CanOffer
  /\ \E v \in {x \in Bundles : Accepts(x)} :
       /\ ~SelectsFw(v) /\ ~SelectsHost(v)
       /\ known' = [known EXCEPT !.product = v]
  /\ SaveManifest(known')
  /\ staged' = None /\ Rest("IDLE")
  /\ offers' = offers + 1 /\ flashes' = 0
  /\ UNCHANGED <<sketch, slot, coproc, declared, stateFile, retainedBin, retainedMeta,
                 hostPrev, effective, hearthVer, preApply, complete, losses, reflashes, reboots,
                 before, deaf, downgraded>>

\* A download that ends with no verdict to apply: aborted, refused, or its
\* consent lapsed.  The old staged bundle went when it began.
OfferDropped ==
  /\ CanOffer /\ staged' = None /\ offers' = offers + 1
  /\ \E s \in {"IDLE", "FAILED"} : Rest(s)
  /\ UNCHANGED <<sketch, slot, coproc, declared, stateFile, manifest, retainedBin,
                 retainedMeta, hostPrev, known, effective, hearthVer, preApply, complete,
                 losses, faults, reflashes, history>>

---------------------------------------------------------------------------
(* hearthApply(), hearthApplyFw(): the Hearth part.                        *)

\* Mutant: the attempt starts over whatever the state file says.
FirstAttemptAgain(attempts) == 1

\* The interrupted attempt counts.
FirstAttempt(attempts) == attempts + 1

\* hearthApplyFw()'s own start: the staged bundle is opened once more, and a
\* bundle that cannot be read is a failed flash.
OpensFlasher == \/ WriteOk /\ Goto("attempt")
                \/ WriteFails /\ Goto("failed")

\* The declaration goes out before any flash; its answer is not looked at.
ApplyFw ==
  /\ pc = "apply"
  /\ Declare(job.target)
  /\ job' = [job EXCEPT !.attempt = FirstAttempt(0)]
  /\ OpensFlasher
  /\ UNCHANGED <<sketch, slot, coproc, files, status, known, effective, hearthVer,
                 preApply, complete, offers, losses, reflashes, flashes, reboots, before,
                 downgraded>>

AttemptsLeft(n) == n <= 3

\* saveState() with the attempt's number; its result is not looked at.
SaveAttempt ==
  /\ pc = "attempt" /\ AttemptsLeft(job.attempt)
  /\ SaveState([phase |-> "FW", attempts |-> job.attempt, target |-> job.target,
                host |-> job.host])
  /\ Goto("flash")
  /\ UNCHANGED <<sketch, slot, coproc, declared, staged, manifest, retainedBin,
                 retainedMeta, hostPrev, memory, offers, losses, reflashes, history>>

AttemptsSpent ==
  /\ pc = "attempt" /\ ~AttemptsLeft(job.attempt)
  /\ Goto("failed")
  /\ UNCHANGED <<durable, memory, bounds, history>>

NextAttempt == job' = [job EXCEPT !.attempt = @ + 1] /\ Goto("attempt")

\* The flasher fails at entry, or half way, or reports success; then the
\* image runs, or does not come up, or another one does.
Flash ==
  /\ pc = "flash"
  /\ flashes' = flashes + 1
  /\ \/ coproc' \in {coproc, Broken} /\ NextAttempt
     \/ coproc' \in {coproc, Broken, FwOf[staged]} /\ Goto("confirm fw") /\ UNCHANGED job
  /\ UNCHANGED <<sketch, slot, declared, files, status, known, effective, hearthVer,
                 preApply, complete, bounds, reboots, before, deaf, downgraded>>

\* Mutant: +MTREADY is enough.
ConfirmFwUnasked ==
  /\ pc = "confirm fw"
  /\ \/ CanHear /\ Goto("drop bin") /\ UNCHANGED job
     \/ NextAttempt
  /\ UNCHANGED <<durable, status, known, effective, hearthVer, preApply, complete, bounds,
                 history>>

\* +MTREADY in 30 s, and AT+MTVER? answers the part's version; or not.
ConfirmFw ==
  /\ pc = "confirm fw"
  /\ \/ coproc = FwOf[staged] /\ Goto("drop bin") /\ UNCHANGED job
     \/ NextAttempt
  /\ UNCHANGED <<durable, status, known, effective, hearthVer, preApply, complete, bounds, history>>

---------------------------------------------------------------------------
(* hearthFwSucceeded(), with retainFwPart()'s rotation.                    *)

fwRest == <<sketch, slot, coproc, declared, staged, stateFile, manifest, hostPrev,
            memory, offers, losses, reflashes, history>>

DropBin ==
  /\ pc = "drop bin" /\ retainedBin' = None /\ Goto("drop meta")
  /\ UNCHANGED <<fwRest, retainedMeta, faults>>

\* Mutant: the old meta stays until the new one replaces it.
DropMetaLater ==
  /\ pc = "drop meta" /\ Goto("write bin")
  /\ UNCHANGED <<fwRest, retainedBin, retainedMeta, faults>>

DropMeta ==
  /\ pc = "drop meta" /\ retainedMeta' = None /\ Goto("write bin")
  /\ UNCHANGED <<fwRest, retainedBin, faults>>

\* The image is written in place; a failed write removes it.
OpenBin ==
  /\ pc = "write bin" /\ retainedBin' = Torn /\ Goto("close bin")
  /\ UNCHANGED <<fwRest, retainedMeta, faults>>

CloseBin ==
  /\ pc = "close bin"
  /\ \/ WriteOk /\ retainedBin' = FwOf[staged] /\ Goto("write meta")
     \/ WriteFails /\ retainedBin' = None /\ Goto("fw done")
  /\ UNCHANGED <<fwRest, retainedMeta>>

WriteMeta ==
  /\ pc = "write meta" /\ Goto("fw done")
  /\ \/ WriteOk /\ retainedMeta' = FwOf[staged]
     \/ WriteFails /\ UNCHANGED retainedMeta
  /\ UNCHANGED <<fwRest, retainedBin>>

\* AT+MTOTA=1 and the cached version; the host part applies second.
FwDone ==
  /\ pc = "fw done"
  /\ hearthVer' = FwOf[staged]
  /\ Goto(IF job.host THEN "host" ELSE "record fw")
  /\ UNCHANGED <<durable, job, status, known, effective, preApply, complete, bounds, history>>

\* The fw-only finish: the manifest, the staged bundle, the state file.
RecordFw ==
  /\ pc = "record fw"
  /\ known' = [known EXCEPT !.product = staged]
  /\ SaveManifest(known')
  /\ Goto("drop staged")
  /\ UNCHANGED <<sketch, slot, coproc, declared, staged, stateFile, retainedBin,
                 retainedMeta, hostPrev, job, status, effective, hearthVer, preApply, complete,
                 offers, losses, reflashes, history>>

DropStaged ==
  /\ pc = "drop staged" /\ staged' = None /\ Goto("clear state")
  /\ UNCHANGED <<sketch, slot, coproc, declared, stateFile, manifest, retainedBin,
                 retainedMeta, hostPrev, memory, bounds, history>>

\* A resumed apply goes on with begin()'s normal sequence, with the new
\* effective version.
ResumeGoesOn ==
  /\ effective' = InForce(known)
  /\ Goto("declare") /\ status' = "IDLE" /\ job' = NoJob
  /\ UNCHANGED reboots

ClearAfterFw ==
  /\ pc = "clear state" /\ ClearState
  /\ IF job.resumed
       THEN ResumeGoesOn
       ELSE effective' = known.product /\ Rest("IDLE") /\ Rested
  /\ UNCHANGED <<sketch, slot, coproc, declared, staged, manifest, retainedBin,
                 retainedMeta, hostPrev, known, hearthVer, preApply, complete, bounds,
                 flashes, before, deaf, downgraded>>

---------------------------------------------------------------------------
(* hearthFwFailed(): the retained image, if there is one and it is needed. *)

\* AT+MTVER? answers the version that ran before the apply.
StillRuns == coproc = preApply

FwFailed ==
  /\ pc = "failed"
  /\ \E heard \in BOOLEAN :
       /\ heard => CanHear
       /\ IF HaveRetained /\ ~(heard /\ StillRuns) /\ retainedBin # None
            THEN /\ Goto("roll back")
                 /\ downgraded' = (downgraded \/ (heard /\ coproc = before /\ retainedBin < before))
                 /\ UNCHANGED hearthVer
            ELSE /\ Goto("fail")
                 /\ hearthVer' = IF HaveRetained /\ heard /\ StillRuns
                                   THEN coproc ELSE hearthVer
                 /\ UNCHANGED downgraded
  /\ DeclareInForce
  /\ UNCHANGED <<sketch, slot, coproc, files, job, status, known, effective, preApply, complete,
                 bounds, flashes, reboots, before>>

RollBack ==
  /\ pc = "roll back"
  /\ \/ coproc' \in {coproc, Broken} /\ UNCHANGED hearthVer
     \/ coproc' = retainedBin /\ hearthVer' \in {hearthVer, retainedBin}
  /\ Goto("fail")
  /\ UNCHANGED <<sketch, slot, declared, files, job, status, known, effective, preApply, complete,
                 bounds, history>>

\* The state file goes, the staged bundle is kept.  A resumed apply lets
\* begin() finish without losing its FAILED.
Fail ==
  /\ pc = "fail" /\ ClearState /\ status' = "FAILED"
  /\ IF job.resumed THEN Goto("declare") /\ UNCHANGED <<job, reboots>>
                    ELSE Goto("rest") /\ job' = NoJob /\ Rested
  /\ UNCHANGED <<sketch, slot, coproc, declared, staged, manifest, retainedBin,
                 retainedMeta, hostPrev, known, effective, hearthVer, preApply, complete, bounds,
                 flashes, before, deaf, downgraded>>

---------------------------------------------------------------------------
(* hearthApplyHost(): the host part.                                       *)

\* Alone, the host part declares its version itself.
DeclareHost ==
  /\ pc = "host"
  /\ IF job.fw THEN UNCHANGED <<declared, deaf>> ELSE Declare(job.target)
  /\ Goto("save prev")
  /\ UNCHANGED <<sketch, slot, coproc, files, memory, bounds, flashes, reboots, before,
                 downgraded>>

\* A failure before the state record: the version in force is declared
\* again, the state file goes, the staged bundle is kept.
HostFails ==
  /\ WriteFails /\ DeclareInForce
  /\ ClearState /\ Rest("FAILED") /\ Rested

hostRest == <<sketch, coproc, staged, manifest, retainedBin, retainedMeta, known, effective,
              hearthVer, preApply, complete, offers, losses, reflashes, flashes, before,
              downgraded>>

SavePrev ==
  /\ pc = "save prev"
  /\ \/ /\ WriteOk /\ hostPrev' = sketch /\ Goto("stage host")
        /\ UNCHANGED <<declared, deaf, stateFile, status, job, reboots>>
     \/ HostFails /\ UNCHANGED hostPrev
  /\ UNCHANGED <<hostRest, slot>>

StageHost ==
  /\ pc = "stage host"
  /\ \/ /\ WriteOk /\ slot' = "staged" /\ Goto("save host")
        /\ UNCHANGED <<declared, deaf, stateFile, status, job, reboots>>
     \/ HostFails /\ UNCHANGED slot
  /\ UNCHANGED <<hostRest, hostPrev>>

SaveHost ==
  /\ pc = "save host"
  /\ \/ /\ WriteOk /\ Goto("reboot")
        /\ stateFile' = [phase |-> "HOST", attempts |-> 0, target |-> staged, host |-> TRUE]
        /\ UNCHANGED <<declared, deaf, status, job, reboots>>
     \/ /\ WriteFails /\ DeclareInForce /\ Rest("FAILED") /\ Rested
        /\ UNCHANGED stateFile
  /\ UNCHANGED <<hostRest, hostPrev, slot>>

---------------------------------------------------------------------------
(* A boot, driven or not.  [external] The boot loader carries out PicoOTA's*)
(* command, if the file it names is still there.                           *)

Boots ==
  /\ sketch' = IF slot = "staged" /\ staged \in HasHost THEN staged
               ELSE IF slot = "prev" THEN hostPrev ELSE sketch
  /\ slot' = "none"
  /\ pc' = "begin" /\ job' = NoJob /\ status' = "DISABLED"
  /\ known' = [product |-> None, host |-> None]
  /\ effective' = None /\ hearthVer' = None /\ preApply' = None
  /\ complete' = FALSE /\ deaf' = FALSE

Reboot ==
  /\ pc = "reboot" /\ Boots /\ reboots' = reboots + 1
  /\ UNCHANGED <<coproc, declared, files, bounds, flashes, before, downgraded>>

\* A flash that is cut off leaves the old application or none.
PowerLoss ==
  /\ losses < MaxLosses /\ losses' = losses + 1
  /\ Boots /\ Rested
  /\ coproc' \in IF pc \in {"flash", "roll back"} THEN {coproc, Broken} ELSE {coproc}
  /\ flashes' = IF pc = "flash" THEN flashes + 1 ELSE flashes
  /\ UNCHANGED <<declared, files, offers, faults, reflashes, before, downgraded>>

\* [external] fw/flash.py, while the host is off.
UsbReflash ==
  /\ reflashes < MaxReflashes /\ pc = "begin" /\ stateFile = NoState
  /\ reflashes' = reflashes + 1
  /\ coproc' \in Versions
  /\ UNCHANGED <<sketch, slot, declared, files, pc, memory, offers, losses, faults, history>>

---------------------------------------------------------------------------
(* hearthBeginImpl(): the state file first, then the declaration.          *)

Resumable == stateFile.phase = "FW" /\ staged \in HasFw

BeginLoad ==
  /\ pc = "begin"
  /\ known' = manifest /\ effective' = InForce(manifest)
  /\ IF stateFile.phase # "FW" THEN Goto("declare") /\ UNCHANGED <<job, stateFile>>
     ELSE IF ~Resumable THEN Goto("declare") /\ ClearState /\ UNCHANGED job
     ELSE /\ job' = [fw |-> TRUE, host |-> stateFile.host, target |-> stateFile.target,
                     attempt |-> FirstAttempt(stateFile.attempts), resumed |-> TRUE]
          /\ Goto(IF stateFile.attempts >= 3 THEN "failed" ELSE "resume")
          /\ UNCHANGED stateFile
  /\ UNCHANGED <<sketch, slot, coproc, declared, staged, manifest, retainedBin,
                 retainedMeta, hostPrev, status, hearthVer, preApply, complete, bounds, history>>

ResumeFw ==
  /\ pc = "resume" /\ Declare(job.target) /\ OpensFlasher
  /\ UNCHANGED <<sketch, slot, coproc, files, memory, offers, losses, reflashes, flashes,
                 reboots, before, downgraded>>

beginRest == <<sketch, slot, coproc, staged, manifest, retainedBin, retainedMeta, hostPrev,
               known, bounds, flashes, before, downgraded>>

\* One of the tries is answered.
Declared ==
  /\ pc = "declare" /\ CanHear
  /\ LET v == IF stateFile.phase = "HOST" THEN stateFile.target ELSE effective
     IN declared' = v /\ effective' = v /\ deaf' = FALSE
  /\ Goto("probe")
  /\ UNCHANGED <<beginRest, stateFile, job, status, hearthVer, preApply, complete, reboots>>

\* Mutant: the tries are not counted.
NotDeclaredRetried ==
  /\ pc = "declare" /\ deaf' = TRUE
  /\ UNCHANGED <<beginRest, declared, effective, hearthVer, preApply, pc, stateFile,
                 status, job, reboots, complete>>

\* The old sketch runs again: the host part did not take, and that is all.
FirstBootHostConfirm == ClearState /\ Rest("FAILED") /\ Rested

\* None is.
NotDeclared ==
  /\ pc = "declare" /\ deaf' = TRUE
  /\ CASE stateFile.phase = "HOST" ->
            /\ Goto("put back") /\ UNCHANGED <<stateFile, status, job, reboots>>
       [] stateFile.phase = "HOST_CONFIRM" -> FirstBootHostConfirm
       [] OTHER ->
            /\ \E s \in {"DISABLED", "UNAVAILABLE"} : Rest(s)
            /\ Rested /\ UNCHANGED stateFile
  /\ complete' = (status' = "UNAVAILABLE")
  /\ UNCHANGED <<beginRest, declared, effective, hearthVer, preApply>>

\* AT+CGMM, AT+MTVER?, AT+MTOTA? and AT+MTOTA=1.
Probed ==
  /\ pc = "probe" /\ CanHear
  /\ hearthVer' = coproc /\ preApply' = coproc /\ complete' = TRUE
  /\ CASE stateFile.phase = "HOST" ->
            /\ Goto("record host") /\ status' = "IDLE" /\ UNCHANGED <<stateFile, job, reboots>>
       [] stateFile.phase = "HOST_CONFIRM" -> FirstBootHostConfirm
       [] OTHER ->
            /\ Rest(IF job.resumed THEN "FAILED" ELSE "IDLE") /\ Rested
            /\ UNCHANGED stateFile
  /\ UNCHANGED <<beginRest, declared, effective, deaf>>

\* A query unanswered, or a requestor that is not wired yet.
NotProbed ==
  /\ pc = "probe" /\ \E s \in {"DISABLED", "UNAVAILABLE"} : Rest(s)
  /\ Rested
  /\ complete' = (status' = "UNAVAILABLE")
  /\ IF complete' THEN CanHear /\ hearthVer' = coproc
                  ELSE hearthVer' \in {hearthVer, coproc} \ {Broken}
  /\ UNCHANGED <<beginRest, declared, effective, stateFile, preApply, deaf>>

---------------------------------------------------------------------------
(* hearthDrainImpl(): a requestor that comes up later.                     *)

idle == <<durable, pc, job, known, effective, hearthVer, preApply, complete, bounds>>

\* B667: AT+MTOTA=1 again, on the commissioning and every 30 s.
RequestorRetry ==
  /\ pc = "rest" /\ status = "UNAVAILABLE" /\ ~deaf /\ CanHear
  /\ status' = "IDLE"
  /\ UNCHANGED <<idle, history>>

\* B671: the co-processor rebooted: hearthDeclareAndRequestor().  The
\* version it runs is not asked again.
Reprobe ==
  /\ pc = "rest" /\ complete /\ CanHear
  /\ \/ deaf' = TRUE /\ status' \in {status, "UNAVAILABLE"} /\ UNCHANGED declared
     \/ /\ declared' = effective /\ deaf' = FALSE
        /\ status' \in {status, "UNAVAILABLE", "IDLE"}
  /\ UNCHANGED <<sketch, slot, coproc, files, pc, job, known, effective, hearthVer,
                 preApply, complete, bounds, flashes, reboots, before, downgraded>>

---------------------------------------------------------------------------
(* The first boot of a host part: hearthFirstBootHost(), or                *)
(* hearthFirstBootHostFail().                                              *)

RecordHost ==
  /\ pc = "record host"
  /\ known' = [product |-> stateFile.target,
               host    |-> IF staged \in HasHost THEN staged ELSE None]
  /\ SaveManifest(known')
  /\ Goto("clear host")
  /\ UNCHANGED <<sketch, slot, coproc, declared, staged, stateFile, retainedBin,
                 retainedMeta, hostPrev, job, status, effective, hearthVer, preApply, complete,
                 offers, losses, reflashes, history>>

ClearHost ==
  /\ pc = "clear host" /\ ClearState /\ Goto("drop host")
  /\ UNCHANGED <<sketch, slot, coproc, declared, staged, manifest, retainedBin,
                 retainedMeta, hostPrev, memory, bounds, history>>

\* Then the co-processor is reset so that its requestor starts over.
DropHost ==
  /\ pc = "drop host" /\ staged' = None
  /\ effective' = known.product /\ Rest("IDLE") /\ Rested
  /\ UNCHANGED <<sketch, slot, coproc, declared, stateFile, manifest, retainedBin,
                 retainedMeta, hostPrev, known, hearthVer, preApply, complete, bounds, flashes,
                 before, deaf, downgraded>>

PutBack ==
  /\ pc = "put back"
  /\ \/ /\ hostPrev # None /\ WriteOk /\ slot' = "prev" /\ Goto("save confirm")
        /\ UNCHANGED <<stateFile, status, job, reboots>>
     \/ /\ IF hostPrev = None THEN WriteOk ELSE WriteFails
        /\ ClearState /\ Rest("FAILED") /\ Rested /\ UNCHANGED slot
  /\ UNCHANGED <<sketch, coproc, declared, staged, manifest, retainedBin, retainedMeta,
                 hostPrev, known, effective, hearthVer, preApply, complete, offers, losses,
                 reflashes, flashes, before, deaf, downgraded>>

\* Mutant: the phase stays HOST.
SaveConfirmUnmarked ==
  /\ pc = "save confirm" /\ Goto("reboot")
  /\ UNCHANGED <<durable, memory, bounds, history>>

\* saveState(); its result is not looked at.
SaveConfirm ==
  /\ pc = "save confirm" /\ Goto("reboot")
  /\ SaveState([stateFile EXCEPT !.phase = "HOST_CONFIRM"])
  /\ UNCHANGED <<sketch, slot, coproc, declared, staged, manifest, retainedBin,
                 retainedMeta, hostPrev, memory, offers, losses, reflashes, history>>

---------------------------------------------------------------------------
FwStep ==
  \/ ApplyFw \/ SaveAttempt \/ AttemptsSpent \/ Flash \/ ConfirmFw
  \/ DropBin \/ DropMeta \/ OpenBin \/ CloseBin \/ WriteMeta
  \/ FwDone \/ RecordFw \/ DropStaged \/ ClearAfterFw
  \/ FwFailed \/ RollBack \/ Fail
HostPartStep ==
  \/ DeclareHost \/ SavePrev \/ StageHost \/ SaveHost \/ Reboot
  \/ RecordHost \/ ClearHost \/ DropHost \/ PutBack \/ SaveConfirm
BeginStep ==
  \/ BeginLoad \/ ResumeFw \/ Declared \/ NotDeclared \/ Probed \/ NotProbed

Next == FwStep \/ HostPartStep \/ BeginStep
          \/ Offer \/ OfferNothing \/ OfferDropped \/ RequestorRetry \/ Reprobe
          \/ PowerLoss \/ UsbReflash

Spec == Init /\ [][Next]_vars

\* The host runs on; nobody has to offer anything.
Fairness == WF_vars(FwStep \/ HostPartStep \/ BeginStep)
FairSpec == Spec /\ Fairness

---------------------------------------------------------------------------
TypeOK ==
  /\ sketch \in Versions /\ slot \in {"none", "staged", "prev"}
  /\ coproc \in Versions \cup {Broken} /\ declared \in Maybe
  /\ staged \in Maybe
  /\ stateFile \in StateRecord
  /\ manifest \in [product : Maybe, host : Maybe] /\ known \in [product : Maybe, host : Maybe]
  /\ retainedBin \in Maybe \cup {Torn} /\ retainedMeta \in Maybe /\ hostPrev \in Maybe
  /\ job \in JobRecord /\ status \in Statuses
  /\ effective \in Maybe /\ hearthVer \in Maybe /\ preApply \in Maybe
  /\ complete \in BOOLEAN /\ deaf \in BOOLEAN /\ downgraded \in BOOLEAN

\* The Hearth part is flashed at most three times, across any number of power
\* cycles (hearthApplyFw(), HearthUpdate.cpp:1382).
AttemptsBounded == faults = 0 => flashes <= 3

\* The retained image is the one its meta names, or is not there: a rollback
\* never flashes a torn file or one version's image under another's name.
RetainedConsistent == retainedMeta # None => retainedBin \in {None, retainedMeta}

\* The host reboots itself at most twice between two rests: into the new
\* sketch and back, never in a loop (hearthFirstBootHostFail(), HearthUpdate.cpp:2321).
RebootsBounded == faults = 0 => reboots <= 2

\* At rest the co-processor claims the version in force, after a success and
\* after every kind of failure, if the last declaration was heard (spec 7.5;
\* hearthSetEffectiveVersion(), :847).
DeclaredInForce == pc = "rest" /\ ~deaf => declared = effective

\* A product version is recorded only when its parts run, however many resumes
\* and reboots it took to get there, unless a state record of the way could not
\* be written: the Hearth part whatever the power did, the sketch if it stayed
\* (the power may go between staging the old sketch and recording that it was
\* staged, HearthUpdate.cpp:2343: the old sketch then records the new version).
RecordedRuns ==
  [][ faults = 0 /\ manifest'.product # manifest.product =>
        /\ flashes' > 0 => coproc = FwOf[manifest'.product]
        /\ losses = 0 /\ manifest'.product \in HasHost => sketch = manifest'.product ]_vars

\* Every boot and every apply comes to rest.
Settles == pc # "rest" ~> pc = "rest"

---------------------------------------------------------------------------
(* Claims of the documentation that the code does not keep.                *)

\* "flashing it would downgrade a healthy co-processor" is why the tail asks
\* AT+MTVER? first (HearthUpdate.cpp:1237).
HealthyNotDowngraded == ~downgraded
============================================================================
