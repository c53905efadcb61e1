--------------------------- MODULE HearthDownload ---------------------------
(***************************************************************************)
(* Downloading an update bundle, to its verdict and its APPLY              *)
(* (HearthUpdate.cpp, hearthOnOtaLine() to hearthVerifyAndVerdict()).      *)
(*                                                                         *)
(* The co-processor announces; a +MTOTA: line only sets fields, wherever   *)
(* it is read: in poll(), inside the exchange of any command, or in the    *)
(* command's tail.  The work those fields ask for is hearthDrain(), which  *)
(* sends commands of its own and never runs inside itself.  So a line can  *)
(* change the fields between any two commands of the drain, and the drain  *)
(* goes on with what it had read before.                                   *)
(*                                                                         *)
(* A bundle is the sequence of the blocks of one transfer, each named by   *)
(* its transfer and its number.  The link gives an answer to its own       *)
(* command (HearthLink); an answer that is lost is lost for good.          *)
(***************************************************************************)
EXTENDS Integers, Sequences

CONSTANTS
  Transfers,    \* bound: transfers the provider starts
  Blocks,       \* blocks of a bundle
  ResetPin,     \* the host can reset the co-processor
  Lossy,        \* commands whose exchange may be lost
  RebootPhases, \* phases in which the co-processor may reboot by itself
  MaxLosses,    \* bound: exchanges lost
  MaxReboots,   \* bound: reboots of the co-processor's own
  MaxGarbles,   \* bound: answers whose line is damaged
  MaxFaults,    \* bound: writes of the staged file that fail
  MaxRefusals,  \* bound: refusals of the consent hook
  MaxEnds,      \* bound: calls of end() by the sketch
  MaxLines      \* bound: lines on their way to the host

Ops    == {"SWVER", "QUERY", "OTA", "BAUD", "GET", "ACK", "STAGED"}
Phases == {"idle", "down", "block", "held", "accepted", "apply"}
Default  == "default"     \* HEARTH_LINK_BAUD
Download == "download"    \* HearthUpdateConfig::downloadBaud

ASSUME DownloadAssumption ==
  /\ Transfers \in Nat /\ Blocks \in Nat \ {0} /\ ResetPin \in BOOLEAN
  /\ Lossy \subseteq Ops /\ RebootPhases \subseteq Phases
  /\ {MaxLosses, MaxReboots, MaxGarbles, MaxFaults, MaxRefusals, MaxEnds,
      MaxLines} \subseteq Nat

VARIABLES
  cp,        \* [external] the co-processor: requestor, transfer, next block, rate
  rx,        \* lines on their way to the host
  upd,       \* the fields of HearthUpdate
  baud,      \* _baud, and the rate of the host's port
  tmp,       \* staged.ota.tmp
  staged,    \* staged.ota
  pc,        \* what the drain waits for, or does next
  cmd,       \* the command of that exchange, with the pull's local seq and attempt
  net,       \* the exchange: "none", "sent", "served", "lost", "tail"
  answer,    \* what it was answered
  spent,     \* bounds: faults of each kind so far
  accepted,  \* history: the bundle of the last AT+MTOTASTAGED=1
  asked,     \* history: transfers whose +MTOTA:APPLY was sent
  blind      \* history: the co-processor rebooted where no re-probe follows

host == <<upd, baud, tmp, staged, pc, cmd, net, answer>>
hist == <<accepted, asked, blind>>
vars == <<cp, rx, host, spent, hist>>

NoFile == <<>>
\* What a command is answered; with a block, when it is a pull.
Ok          == [a |-> "OK", tr |-> 0, seq |-> 0]
MtErr       == [Ok EXCEPT !.a = "MTERR"]
Garbled     == [Ok EXCEPT !.a = "garbled"]
NoAnswer    == [Ok EXCEPT !.a = "none"]
Block(t, b) == [a |-> "block", tr |-> t, seq |-> b]
NoCmd  == [op |-> "SWVER", arg |-> 0, try |-> 0]

\* hearthBeginImpl() on a board with no update in progress.
Fresh(wired) ==
  [status |-> IF wired THEN "IDLE" ELSE "UNAVAILABLE", pending |-> FALSE, seq |-> 0,
   complete |-> FALSE, ended |-> FALSE, writeOpen |-> FALSE, wanted |-> FALSE,
   verdict |-> FALSE, apply |-> FALSE, consent |-> FALSE, ready |-> FALSE, retry |-> ~wired]

Init ==
  /\ \E wired \in BOOLEAN :
       /\ cp = [on |-> wired, wired |-> wired, tr |-> 0, phase |-> "idle", blk |-> 0,
                deferred |-> FALSE, baud |-> Default]
       /\ upd = Fresh(wired)
  /\ rx = <<>> /\ baud = Default /\ tmp = NoFile /\ staged = NoFile
  /\ pc = "idle" /\ cmd = NoCmd /\ net = "none" /\ answer = NoAnswer
  /\ spent = [losses |-> 0, reboots |-> 0, garbles |-> 0, faults |-> 0, refusals |-> 0,
              ends |-> 0]
  /\ accepted = NoFile /\ asked = {} /\ blind = FALSE

---------------------------------------------------------------------------
(* The wire.                                                               *)

\* A line sent at another rate than the host's is noise to it.
Emit(lines) == rx' = IF cp.baud = baud THEN rx \o lines ELSE rx
State(kind) == [k |-> kind]
Answer(a)   == [k |-> "answer", answer |-> a]
Room(n)     == Len(rx) + n <= MaxLines

\* hearthCmd(): the exchange of one command of the drain.
Send(label, op, arg) ==
  /\ pc' = label /\ cmd' = [op |-> op, arg |-> arg, try |-> 1]
  /\ net' = "sent" /\ answer' = NoAnswer
Return(label) ==
  /\ pc' = label /\ net' = "none" /\ cmd' = NoCmd /\ answer' = NoAnswer

Spend(kind, max) == spent[kind] < max /\ spent' = [spent EXCEPT ![kind] = @ + 1]
Answered(label)  == pc = label /\ net = "tail"

---------------------------------------------------------------------------
(* hearthOnOtaLine(): the fields a line sets.                              *)

OnBlock(u, seq) ==
  [u EXCEPT !.seq = seq, !.pending = TRUE, !.complete = FALSE, !.status = "DOWNLOADING",
            !.ended = @ \/ (u.writeOpen /\ seq = 0)]

OnApply(u) == IF u.verdict THEN [u EXCEPT !.status = "APPLYING", !.apply = TRUE] ELSE u

\* After end() no line but the +MTREADY is listened to.
OnLine(u, line) ==
  IF line.k = "READY" THEN [u EXCEPT !.ready = TRUE]
  ELSE IF u.status = "DISABLED" THEN u
  ELSE
  CASE line.k = "BLOCK"       -> OnBlock(u, line.seq)
    [] line.k = "IDLE"        -> [u EXCEPT !.status = "IDLE", !.pending = FALSE,
                                           !.wanted = FALSE, !.ended = TRUE]
    [] line.k = "AVAILABLE"   -> [u EXCEPT !.status = "IDLE", !.wanted = TRUE]
    [] line.k = "DOWNLOADING" -> [u EXCEPT !.status = "DOWNLOADING"]
    [] line.k = "DOWNLOADED"  -> [u EXCEPT !.status = "VERIFYING", !.pending = FALSE]
    [] line.k = "APPLY"       -> OnApply(u)
    [] line.k \in {"DEFERRED", "DISCONTINUED"} ->
                                 [u EXCEPT !.status = "IDLE", !.wanted = FALSE]
    [] line.k = "ERROR"       -> [u EXCEPT !.status = "FAILED", !.wanted = FALSE,
                                           !.ended = TRUE]

\* poll(), the read loop of a command, its tail, or the consent hook.
Dispatch ==
  /\ net # "none" \/ pc \in {"idle", "ask", "ask again"}
  /\ rx # <<>> /\ Head(rx).k # "answer"
  /\ upd' = OnLine(upd, Head(rx)) /\ rx' = Tail(rx)
  /\ UNCHANGED <<cp, baud, tmp, staged, pc, cmd, net, answer, spent, hist>>

ReadAnswer ==
  /\ net = "served" /\ rx # <<>> /\ Head(rx).k = "answer"
  /\ answer' = Head(rx).answer /\ rx' = Tail(rx) /\ net' = "tail"
  /\ UNCHANGED <<cp, upd, baud, tmp, staged, pc, cmd, spent, hist>>

\* The command's timeout.
Unanswered ==
  /\ net = "lost" /\ answer' = NoAnswer /\ net' = "tail"
  /\ UNCHANGED <<cp, rx, upd, baud, tmp, staged, pc, cmd, spent, hist>>

---------------------------------------------------------------------------
(* end(), and the begin() that brings the update back.  Until that begin() *)
(* has its last answer the drain only takes the re-probe flag.             *)

\* The rate, and what the co-processor was asked for, are left as they are.
End ==
  /\ pc = "idle" /\ net = "none" /\ upd.status # "DISABLED" /\ Spend("ends", MaxEnds)
  /\ upd' = [upd EXCEPT !.status = "DISABLED", !.pending = FALSE, !.complete = FALSE,
                        !.writeOpen = FALSE, !.apply = FALSE, !.verdict = FALSE,
                        !.retry = FALSE, !.ready = FALSE]
  /\ UNCHANGED <<cp, rx, baud, tmp, staged, pc, cmd, net, answer, hist>>

Begin ==
  /\ pc = "idle" /\ net = "none" /\ upd.status = "DISABLED"
  /\ upd' = [upd EXCEPT !.ready = FALSE]
  /\ Send("begin declare", "SWVER", 0)
  /\ UNCHANGED <<cp, rx, baud, tmp, staged, spent, hist>>

BeginDeclared ==
  /\ Answered("begin declare")
  /\ upd' = [upd EXCEPT !.ready = FALSE]
  /\ IF answer.a = "OK" THEN Send("begin query", "QUERY", 0) ELSE Return("idle")
  /\ UNCHANGED <<cp, rx, baud, tmp, staged, spent, hist>>

\* The model, the version and the requestor's state: an OK without a line that
\* can be read is no answer.
Queried(a) == a = "OK"

\* AT+CGMM, AT+MTVER? and AT+MTOTA?: one of them unanswered leaves it DISABLED.
BeginQueried ==
  /\ Answered("begin query")
  /\ upd' = [upd EXCEPT !.ready = FALSE]
  /\ IF Queried(answer.a) THEN Send("begin requestor", "OTA", 1) ELSE Return("idle")
  /\ UNCHANGED <<cp, rx, baud, tmp, staged, spent, hist>>

BeginDone ==
  /\ Answered("begin requestor")
  /\ upd' = [upd EXCEPT !.ready = FALSE, !.retry = (answer.a = "MTERR"),
                        !.status = CASE answer.a = "OK"    -> "IDLE"
                                     [] answer.a = "MTERR" -> "UNAVAILABLE"
                                     [] OTHER              -> @]
  /\ Return("idle")
  /\ UNCHANGED <<cp, rx, baud, tmp, staged, spent, hist>>

---------------------------------------------------------------------------
(* hearthDrainImpl().  It runs in the tail of every library call; a drain  *)
(* with nothing to do is no step.                                          *)

Resting(s) == s \in {"IDLE", "UNAVAILABLE", "FAILED"}
WantBaud   == IF upd.wanted THEN Download ELSE Default
Deaf       == upd.status \in {"DISABLED", "UNAVAILABLE"}

DrainWork ==
  \/ upd.ready
  \/ IF Deaf THEN upd.retry
     ELSE \/ WantBaud # baud \/ upd.ended \/ upd.pending \/ upd.apply
          \/ upd.status = "VERIFYING" /\ (~upd.complete \/ upd.consent)

\* Mutant: FAILED is not a state to re-probe from.
ReprobesNotFailed(s) == s \in {"IDLE", "UNAVAILABLE"}

Reprobes(s) == Resting(s)

\* The re-probe flag is taken whether or not the state lets it be used.
DrainBegins ==
  /\ pc = "idle" /\ net = "none" /\ DrainWork
  /\ upd' = [upd EXCEPT !.ready = FALSE]
  /\ IF upd.ready /\ Reprobes(upd.status)
       THEN Send("declare", "SWVER", 0)
       ELSE Return("mode")
  /\ UNCHANGED <<cp, rx, baud, tmp, staged, spent, hist>>

\* hearthDeclareAndRequestor().
DeclareDone ==
  /\ Answered("declare")
  /\ IF answer.a = "OK" THEN Send("requestor", "OTA", 1) ELSE Return("mode")
  /\ UNCHANGED <<cp, rx, upd, baud, tmp, staged, spent, hist>>

RequestorDone ==
  /\ Answered("requestor")
  /\ upd' = CASE answer.a = "OK"    -> [upd EXCEPT !.status = "IDLE", !.retry = FALSE]
              [] answer.a = "MTERR" -> [upd EXCEPT !.status = "UNAVAILABLE", !.retry = TRUE]
              [] OTHER            -> upd
  /\ Return("mode")
  /\ UNCHANGED <<cp, rx, baud, tmp, staged, spent, hist>>

\* The requestor's retry, on the commissioning or after 30 s; else the rate.
DrainMode ==
  /\ pc = "mode" /\ net = "none"
  /\ IF Deaf THEN IF upd.retry THEN Send("retry", "OTA", 1) ELSE Return("idle")
     ELSE IF WantBaud # baud THEN Send("rate", "BAUD", WantBaud) ELSE Return("ended")
  /\ UNCHANGED <<cp, rx, upd, baud, tmp, staged, spent, hist>>

RetryDone ==
  /\ Answered("retry")
  /\ upd' = IF answer.a = "OK" THEN [upd EXCEPT !.status = "IDLE", !.retry = FALSE] ELSE upd
  /\ Return("idle")
  /\ UNCHANGED <<cp, rx, baud, tmp, staged, spent, hist>>

\* A reboot the co-processor comes back from at its default rate.
Rebooted(c) == [c EXCEPT !.on = FALSE, !.phase = "idle", !.deferred = FALSE, !.baud = Default]

\* Mutant: the host follows the switch up only.
RateTailUpOnly ==
  /\ IF answer.a = "OK" /\ cmd.arg = Download
       THEN baud' = cmd.arg /\ UNCHANGED upd
       ELSE upd' = [upd EXCEPT !.wanted = FALSE] /\ UNCHANGED baud
  /\ UNCHANGED <<rx, cp>>

\* hearthSetBaud() after its answer.  A port that is clocked anew may drop
\* the lines it holds.  A switch back is made whatever was answered, and the
\* co-processor is reset when it can be.
RateTail ==
  IF answer.a = "OK"
    THEN baud' = cmd.arg /\ rx' \in {rx, <<>>} /\ UNCHANGED <<upd, cp>>
    ELSE IF cmd.arg = Default
           THEN /\ baud' = Default
                /\ IF ResetPin
                     THEN /\ cp' = Rebooted(cp) /\ rx' = <<>>
                          /\ upd' = [upd EXCEPT !.wanted = FALSE, !.ready = TRUE]
                     ELSE /\ rx' \in {rx, <<>>} /\ UNCHANGED cp
                          /\ upd' = [upd EXCEPT !.wanted = FALSE]
           ELSE upd' = [upd EXCEPT !.wanted = FALSE] /\ UNCHANGED <<baud, rx, cp>>

RateDone ==
  /\ Answered("rate") /\ RateTail /\ Return("ended")
  /\ UNCHANGED <<tmp, staged, spent, hist>>

\* Mutant: the partial file stays open for the next transfer.
DrainEndedKept ==
  /\ pc = "ended" /\ upd' = [upd EXCEPT !.ended = FALSE] /\ Return("work")
  /\ UNCHANGED <<cp, rx, baud, tmp, staged, spent, hist>>

\* The co-processor ended the transfer: the partial file goes.
DrainEnded ==
  /\ pc = "ended"
  /\ IF upd.ended /\ upd.writeOpen
       THEN /\ upd' = [upd EXCEPT !.ended = FALSE, !.writeOpen = FALSE]
            /\ tmp' = NoFile /\ staged' = NoFile
       ELSE upd' = [upd EXCEPT !.ended = FALSE] /\ UNCHANGED <<tmp, staged>>
  /\ Return("work")
  /\ UNCHANGED <<cp, rx, baud, spent, hist>>

---------------------------------------------------------------------------
(* hearthPullBlock() and hearthAbortPull().                                *)

\* The abort's first lines, then its switch back.
AbortFields(u) == [u EXCEPT !.pending = FALSE, !.complete = FALSE, !.writeOpen = FALSE,
                            !.wanted = FALSE]
Abort(u) == upd' = AbortFields(u) /\ Send("abort rate", "BAUD", Default)

\* stagedBeginWrite(): the last bundle goes first, and its verdict with it.
OpenStaged ==
  /\ tmp' = NoFile /\ staged' = NoFile
  /\ upd' = [upd EXCEPT !.writeOpen = TRUE, !.verdict = FALSE]

Pull ==
  /\ pc = "work" /\ upd.pending
  /\ \/ /\ IF upd.writeOpen THEN UNCHANGED <<upd, tmp, staged>> ELSE OpenStaged
        /\ Send("get", "GET", upd.seq) /\ UNCHANGED spent
     \/ /\ ~upd.writeOpen /\ Spend("faults", MaxFaults)
        /\ staged' = NoFile /\ tmp' = NoFile /\ Abort(upd)
  /\ UNCHANGED <<cp, rx, baud, hist>>

\* The whole block: appended, then acknowledged.
PullGood ==
  /\ Answered("get") /\ answer.a = "block"
  /\ \/ /\ tmp' = Append(tmp, [tr |-> answer.tr, seq |-> answer.seq]) /\ upd' = [upd EXCEPT !.pending = FALSE]
        /\ Send("ack", "ACK", cmd.arg) /\ UNCHANGED spent
     \/ Spend("faults", MaxFaults) /\ Abort(upd) /\ UNCHANGED tmp
  /\ UNCHANGED <<cp, rx, baud, staged, hist>>

\* A damaged line: pulled once more.
PullGarbled ==
  /\ Answered("get") /\ answer.a = "garbled"
  /\ IF cmd.try = 1
       THEN /\ cmd' = [cmd EXCEPT !.try = 2] /\ net' = "sent" /\ answer' = NoAnswer /\ UNCHANGED <<pc, upd>>
       ELSE Abort(upd)
  /\ UNCHANGED <<cp, rx, baud, tmp, staged, spent, hist>>

\* +MTERR:12: the co-processor dropped the transfer.
PullDropped ==
  /\ Answered("get") /\ answer.a = "MTERR"
  /\ upd' = [upd EXCEPT !.pending = FALSE, !.writeOpen = FALSE]
  /\ tmp' = NoFile /\ staged' = NoFile /\ Return("idle")
  /\ UNCHANGED <<cp, rx, baud, spent, hist>>

PullTimedOut ==
  /\ Answered("get") /\ answer.a = "none" /\ Abort(upd)
  /\ UNCHANGED <<cp, rx, baud, tmp, staged, spent, hist>>

AckDone ==
  /\ Answered("ack")
  /\ IF answer.a = "OK" THEN Return("idle") /\ UNCHANGED upd ELSE Abort(upd)
  /\ UNCHANGED <<cp, rx, baud, tmp, staged, spent, hist>>

AbortRate ==
  /\ Answered("abort rate") /\ RateTail /\ Send("abort off", "OTA", 0)
  /\ UNCHANGED <<tmp, staged, spent, hist>>

AbortOff ==
  /\ Answered("abort off") /\ Send("abort on", "OTA", 1)
  /\ UNCHANGED <<cp, rx, upd, baud, tmp, staged, spent, hist>>

AbortOn ==
  /\ Answered("abort on")
  /\ tmp' = NoFile /\ staged' = NoFile
  /\ upd' = [upd EXCEPT !.status = "FAILED"] /\ Return("idle")
  /\ UNCHANGED <<cp, rx, baud, spent, hist>>

---------------------------------------------------------------------------
(* The end of the download, the verdict and the consent.                   *)

\* [external] What a signature check can tell: the blocks of one transfer,
\* all of them, in order.
Whole(file) ==
  \E t \in 1 .. Transfers : file = [n \in 1 .. Blocks |-> [tr |-> t, seq |-> n - 1]]

\* stagedEndWrite() renames a file that is open.
EndWrite ==
  /\ pc = "work" /\ ~upd.pending /\ upd.status = "VERIFYING" /\ ~upd.complete
  /\ IF upd.writeOpen THEN staged' = tmp /\ tmp' = NoFile ELSE UNCHANGED <<staged, tmp>>
  /\ upd' = [upd EXCEPT !.writeOpen = FALSE, !.complete = TRUE, !.wanted = FALSE]
  /\ Send("verify rate", "BAUD", Default)
  /\ UNCHANGED <<cp, rx, baud, spent, hist>>

VerifyRate ==
  /\ Answered("verify rate") /\ RateTail /\ Return("verify")
  /\ UNCHANGED <<tmp, staged, spent, hist>>

\* Refused for its signature, target, digest or version; nothing to apply;
\* or a part to apply, which the consent hook is asked about.
Verify ==
  /\ pc = "verify"
  /\ \/ /\ Send("refused", "STAGED", 0) /\ UNCHANGED <<upd, staged>>
     \/ /\ Whole(staged)
        /\ upd' = [upd EXCEPT !.status = "IDLE"] /\ staged' = NoFile
        /\ Send("nothing", "STAGED", 0)
     \/ Whole(staged) /\ Return("ask") /\ UNCHANGED <<upd, staged>>
  /\ UNCHANGED <<cp, rx, baud, tmp, spent, hist>>

\* Mutant: a refused bundle is kept.
RefuseDoneKept ==
  /\ Answered("refused")
  /\ upd' = [upd EXCEPT !.status = "FAILED", !.verdict = FALSE] /\ Return("idle")
  /\ UNCHANGED <<cp, rx, baud, tmp, staged, spent, hist>>

\* hearthRefuse().
RefuseDone ==
  /\ Answered("refused") /\ staged' = NoFile
  /\ upd' = [upd EXCEPT !.status = "FAILED", !.verdict = FALSE] /\ Return("idle")
  /\ UNCHANGED <<cp, rx, baud, tmp, spent, hist>>

NothingDone ==
  /\ Answered("nothing") /\ Return("idle")
  /\ UNCHANGED <<cp, rx, upd, baud, tmp, staged, spent, hist>>

\* onApplyRequest(), from the verdict or from a later drain.
Consents ==
  /\ pc \in {"ask", "ask again"}
  /\ upd' = [upd EXCEPT !.consent = FALSE]
  /\ accepted' = staged
  /\ Send("accept", "STAGED", 1)
  /\ UNCHANGED <<cp, rx, baud, tmp, staged, spent, asked, blind>>

Refuses ==
  /\ pc \in {"ask", "ask again"} /\ Spend("refusals", MaxRefusals)
  /\ upd' = [upd EXCEPT !.consent = TRUE] /\ Return("idle")
  /\ UNCHANGED <<cp, rx, baud, tmp, staged, hist>>

AcceptDone ==
  /\ Answered("accept")
  /\ upd' = [upd EXCEPT !.verdict = TRUE, !.status = "WAIT_APPLY"] /\ Return("apply")
  /\ UNCHANGED <<cp, rx, baud, tmp, staged, spent, hist>>

AskAgain ==
  /\ pc = "work" /\ ~upd.pending /\ upd.status = "VERIFYING" /\ upd.complete /\ upd.consent
  /\ Return("ask again")
  /\ UNCHANGED <<cp, rx, upd, baud, tmp, staged, spent, hist>>

\* hearthAbandon(), past the consent window.
Abandon ==
  /\ pc = "work" /\ ~upd.pending /\ upd.status = "VERIFYING" /\ upd.complete /\ upd.consent
  /\ upd' = [upd EXCEPT !.complete = FALSE, !.writeOpen = FALSE, !.consent = FALSE,
                        !.verdict = FALSE]
  /\ staged' = NoFile /\ Send("abandon off", "OTA", 0)
  /\ UNCHANGED <<cp, rx, baud, tmp, spent, hist>>

AbandonOff ==
  /\ Answered("abandon off") /\ Send("abandon on", "OTA", 1)
  /\ UNCHANGED <<cp, rx, upd, baud, tmp, staged, spent, hist>>

AbandonOn ==
  /\ Answered("abandon on") /\ upd' = [upd EXCEPT !.status = "IDLE"] /\ Return("idle")
  /\ UNCHANGED <<cp, rx, baud, tmp, staged, spent, hist>>

DrainRest ==
  /\ pc = "work" /\ ~upd.pending
  /\ ~(upd.status = "VERIFYING" /\ (~upd.complete \/ upd.consent))
  /\ Return("apply")
  /\ UNCHANGED <<cp, rx, upd, baud, tmp, staged, spent, hist>>

---------------------------------------------------------------------------
(* hearthApply(), of which HearthApply is the detail: here it succeeds or  *)
(* fails, and leaves the requestor on.                                     *)

Applies == pc = "apply" /\ upd.apply

NoApply ==
  /\ pc = "apply" /\ ~upd.apply /\ Return("idle")
  /\ UNCHANGED <<cp, rx, upd, baud, tmp, staged, spent, hist>>

Apply ==
  /\ Applies /\ Whole(staged)
  /\ \/ upd' = [upd EXCEPT !.apply = FALSE, !.verdict = FALSE, !.status = "IDLE", !.ready = FALSE]
        /\ staged' = NoFile
     \/ upd' = [upd EXCEPT !.apply = FALSE, !.verdict = FALSE, !.status = "FAILED", !.ready = FALSE]
        /\ UNCHANGED staged
  /\ cp' = [Rebooted(cp) EXCEPT !.on = TRUE] /\ baud' = Default /\ rx' = <<>>
  /\ Return("idle")
  /\ UNCHANGED <<tmp, spent, hist>>

\* No staged bundle, or not a good one.
ApplyNothing ==
  /\ Applies /\ ~Whole(staged)
  /\ upd' = [upd EXCEPT !.apply = FALSE, !.verdict = FALSE]
  /\ Send("apply on", "OTA", 1)
  /\ UNCHANGED <<cp, rx, baud, tmp, staged, spent, hist>>

ApplyOn ==
  /\ Answered("apply on") /\ upd' = [upd EXCEPT !.status = "FAILED"] /\ Return("idle")
  /\ UNCHANGED <<cp, rx, baud, tmp, staged, spent, hist>>

---------------------------------------------------------------------------
(* [external] The co-processor, and the provider behind it.                *)

cpRest == <<host, spent, accepted, blind>>

Offer ==
  /\ cp.on /\ cp.phase = "idle" /\ cp.tr < Transfers /\ Room(2)
  /\ cp' = [cp EXCEPT !.tr = @ + 1, !.phase = "down", !.blk = 0, !.deferred = FALSE]
  /\ Emit(<<State("AVAILABLE"), State("DOWNLOADING")>>)
  /\ UNCHANGED <<cpRest, asked>>

Announce ==
  /\ cp.phase = "down" /\ Room(1)
  /\ IF cp.blk < Blocks
       THEN cp' = [cp EXCEPT !.phase = "block"] /\ Emit(<<[k |-> "BLOCK", seq |-> cp.blk]>>)
       ELSE cp' = [cp EXCEPT !.phase = "held"] /\ Emit(<<State("DOWNLOADED")>>)
  /\ UNCHANGED <<cpRest, asked>>

\* What a command does, and how it is answered.
Serves(c) ==
  CASE cmd.op = "GET"    -> IF c.phase = "block" /\ c.blk = cmd.arg
                              THEN <<c, Block(c.tr, c.blk)>> ELSE <<c, MtErr>>
    [] cmd.op = "ACK"    -> IF c.phase = "block" /\ c.blk = cmd.arg
                              THEN <<[c EXCEPT !.phase = "down", !.blk = @ + 1], Ok>>
                              ELSE <<c, MtErr>>
    [] cmd.op = "STAGED" -> IF c.phase # "held" THEN <<c, MtErr>>
                            ELSE IF cmd.arg = 1 THEN <<[c EXCEPT !.phase = "accepted"], Ok>>
                            ELSE <<[c EXCEPT !.phase = "idle"], Ok>>
    [] cmd.op = "OTA"    -> IF cmd.arg = 0 THEN <<[c EXCEPT !.on = FALSE, !.phase = "idle"], Ok>>
                            ELSE IF c.wired THEN <<[c EXCEPT !.on = TRUE], Ok>>
                            ELSE <<c, MtErr>>
    [] cmd.op = "BAUD"   -> <<[c EXCEPT !.baud = cmd.arg], Ok>>
    [] cmd.op \in {"SWVER", "QUERY"} -> <<c, Ok>>

\* The answer goes out before a switch of the rate.
Serve ==
  /\ net = "sent" /\ cp.baud = baud /\ net' = "served" /\ Room(1)
  /\ cp' = Serves(cp)[1]
  /\ \/ rx' = Append(rx, Answer(Serves(cp)[2])) /\ UNCHANGED spent
     \/ /\ Serves(cp)[2].a = "block" \/ cmd.op = "QUERY"
        /\ Spend("garbles", MaxGarbles)
        /\ rx' = Append(rx, Answer(Garbled))
  /\ UNCHANGED <<upd, baud, tmp, staged, pc, cmd, answer, hist>>

\* The exchange is lost: at the wrong rate, or for a while; the command may
\* have been carried out.
Lose ==
  /\ net = "sent" /\ net' = "lost"
  /\ \/ cp.baud # baud /\ UNCHANGED <<cp, spent>>
     \/ /\ cp.baud = baud /\ cmd.op \in Lossy /\ Spend("losses", MaxLosses)
        /\ cp' \in {cp, Serves(cp)[1]}
  /\ UNCHANGED <<rx, upd, baud, tmp, staged, pc, cmd, answer, hist>>

\* The provider answers the apply request at once, later, or with no.
Request ==
  /\ cp.phase = "accepted" /\ Room(1)
  /\ \/ /\ cp' = [cp EXCEPT !.phase = "apply"] /\ Emit(<<State("APPLY")>>)
        /\ asked' = asked \cup {cp.tr}
     \/ /\ ~cp.deferred /\ cp' = [cp EXCEPT !.deferred = TRUE]
        /\ Emit(<<State("DEFERRED")>>) /\ UNCHANGED asked
     \/ /\ cp' = [cp EXCEPT !.phase = "idle"] /\ Emit(<<State("DISCONTINUED")>>)
        /\ UNCHANGED asked
  /\ UNCHANGED cpRest

\* A transfer that fails, or that its watchdog ends.
Drop ==
  /\ cp.phase # "idle" /\ Room(2)
  /\ cp' = [cp EXCEPT !.phase = "idle"]
  /\ Emit(<<State("ERROR"), State("IDLE")>>)
  /\ UNCHANGED <<cpRest, asked>>

Commission ==
  /\ ~cp.wired /\ cp' = [cp EXCEPT !.wired = TRUE]
  /\ UNCHANGED <<rx, cpRest, asked>>

\* The +MTREADY goes out at the default rate.
Reboot ==
  /\ cp.phase \in RebootPhases /\ Room(1) /\ Spend("reboots", MaxReboots)
  /\ cp' = Rebooted(cp)
  /\ rx' = IF baud = Default THEN Append(rx, State("READY")) ELSE rx
  /\ net' = IF net = "sent" THEN "lost" ELSE net
  /\ blind' = (blind \/ ~Resting(upd.status) \/ baud # Default \/ pc # "idle" \/ rx # <<>>)
  /\ UNCHANGED <<upd, baud, tmp, staged, pc, cmd, answer, accepted, asked>>

---------------------------------------------------------------------------
Drain ==
  \/ DrainBegins \/ DeclareDone \/ RequestorDone \/ DrainMode \/ RetryDone \/ RateDone
  \/ DrainEnded \/ DrainRest \/ BeginDeclared \/ BeginQueried \/ BeginDone
PullStep ==
  \/ Pull \/ PullGood \/ PullGarbled \/ PullDropped \/ PullTimedOut \/ AckDone
  \/ AbortRate \/ AbortOff \/ AbortOn
VerdictStep ==
  \/ EndWrite \/ VerifyRate \/ Verify \/ RefuseDone \/ NothingDone \/ Consents \/ Refuses
  \/ AcceptDone \/ AskAgain \/ Abandon \/ AbandonOff \/ AbandonOn
  \/ NoApply \/ Apply \/ ApplyNothing \/ ApplyOn
SketchStep == End \/ Begin
HostStep == Dispatch \/ ReadAnswer \/ Unanswered \/ Drain \/ PullStep \/ VerdictStep
CoprocStep == Offer \/ Announce \/ Serve \/ Lose \/ Request \/ Drop \/ Commission \/ Reboot

Next == SketchStep \/ HostStep \/ CoprocStep
Spec == Init /\ [][Next]_vars

\* The sketch calls the library; the co-processor answers, is commissioned,
\* and its watchdog ends what nobody else does.
Fairness ==
  /\ WF_vars(HostStep) /\ WF_vars(Serve \/ Lose) /\ WF_vars(Drop) /\ WF_vars(Commission)
FairSpec == Spec /\ Fairness

---------------------------------------------------------------------------
Files  == Seq([tr : 1 .. Transfers, seq : 0 .. Blocks - 1])

TypeOK ==
  /\ cp \in [on : BOOLEAN, wired : BOOLEAN, tr : 0 .. Transfers, phase : Phases,
             blk : 0 .. Blocks, deferred : BOOLEAN, baud : {Default, Download}]
  /\ upd \in [status : {"DISABLED", "UNAVAILABLE", "IDLE", "DOWNLOADING", "VERIFYING", "WAIT_APPLY",
                        "APPLYING", "FAILED"},
              pending : BOOLEAN, seq : 0 .. Blocks - 1, complete : BOOLEAN, ended : BOOLEAN,
              writeOpen : BOOLEAN, wanted : BOOLEAN, verdict : BOOLEAN, apply : BOOLEAN,
              consent : BOOLEAN, ready : BOOLEAN, retry : BOOLEAN]
  /\ baud \in {Default, Download}
  /\ answer.a \in {"OK", "MTERR", "garbled", "none", "block"}
  /\ net \in {"none", "sent", "served", "lost", "tail"}
  /\ tmp \in Files /\ staged \in Files
  /\ asked \subseteq 1 .. Transfers /\ blind \in BOOLEAN

\* A staged file holds the blocks of one transfer, however the end of one and
\* the start of the next fall between two commands of a pull (I2, HearthUpdate.cpp:438).
OneTransfer == \A i, j \in DOMAIN tmp : tmp[i].tr = tmp[j].tr

\* Between two drains, staged.ota is a whole bundle or is not there: an apply,
\* or the resume after a power loss, never finds what no check has passed.
StagedWhole == pc = "idle" => staged = NoFile \/ Whole(staged)

\* Between two drains both ends of the link run at one rate, whatever was
\* aborted (B666, HearthUpdate.cpp:738), if no exchange of AT+MTBAUD is lost.
RatesAgree == pc = "idle" /\ ~blind => cp.baud = baud

\* The requestor is on again and again, through every way a transfer ends
\* (I1, I6, B667), unless the co-processor rebooted where no re-probe follows or
\* the sketch has ended the update.
RequestorOn == []<>(cp.on \/ upd.status = "DISABLED") \/ <>blind

---------------------------------------------------------------------------
(* A claim of the documentation that the code does not keep.               *)

\* The hook is asked "the verdict is in, the bundle is staged, flash it?"
\* (HearthUpdate.h:194), so what is applied is the last bundle it consented to.
AppliedConsented == Applies /\ Whole(staged) => staged = accepted
=============================================================================
