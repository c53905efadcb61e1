----------------------- MODULE HearthDownload_proofs -----------------------
(***************************************************************************)
(* What holds of a download for any number of transfers, of blocks and of  *)
(* faults.                                                                 *)
(*                                                                         *)
(* Most steps of the drain are plain: the end of one command and the start *)
(* of the next, which leave the wire alone and open nothing.  The others   *)
(* are the pull, the switch of the rate and the co-processor's own steps.  *)
(* A staged file holds one transfer because a block of another can only be *)
(* reached through its first, and the line that announces the first is     *)
(* read before the answer that lets the co-processor go on from it.        *)
(***************************************************************************)
EXTENDS HearthDownload, SequenceTheorems, TLAPS

Rests == {"idle", "mode", "ended", "work", "verify", "ask", "ask again", "apply"}
RateWaits == {"rate", "abort rate", "verify rate"}
OtherWaits == {"begin declare", "begin query", "begin requestor", "declare", "requestor", "retry",
               "abort off", "abort on", "refused", "nothing", "accept", "abandon off", "abandon on",
               "apply on"}

\* The state of each variable.
Blk     == [tr : Int, seq : Int]
Results == [a : {"OK", "MTERR", "garbled", "none", "block"}, tr : Int, seq : Int]
States  == {"READY", "IDLE", "AVAILABLE", "DOWNLOADING", "DOWNLOADED", "APPLY", "DEFERRED",
            "DISCONTINUED", "ERROR"}
Heard   == [k : States] \cup [k : {"BLOCK"}, seq : Int] \cup [k : {"answer"}, answer : Results]
Coproc  == [on : BOOLEAN, wired : BOOLEAN, tr : Int, phase : Phases, blk : Nat, deferred : BOOLEAN,
            baud : {Default, Download}]
Fields  == [status : {"DISABLED", "UNAVAILABLE", "IDLE", "DOWNLOADING", "VERIFYING", "WAIT_APPLY",
                      "APPLYING", "FAILED"},
            pending : BOOLEAN, seq : Int, complete : BOOLEAN, ended : BOOLEAN, writeOpen : BOOLEAN,
            wanted : BOOLEAN, verdict : BOOLEAN, apply : BOOLEAN, consent : BOOLEAN, ready : BOOLEAN,
            retry : BOOLEAN]
Command == [op : Ops, arg : {Default, Download} \cup Int, try : Int]

Types ==
  /\ cp \in Coproc /\ upd \in Fields /\ cmd \in Command /\ answer \in Results
  /\ rx \in Seq(Heard) /\ tmp \in Seq(Blk) /\ baud \in {Default, Download}

\* Where the drain waits, and for the answer to which command.
Places ==
  /\ pc \in Rests \cup RateWaits \cup OtherWaits \cup {"get", "ack"}
  /\ net \in {"none", "sent", "served", "lost", "tail"}
  /\ pc \in Rests <=> net = "none"
  /\ pc \in RateWaits => cmd.op = "BAUD" /\ cmd.arg \in {Default, Download}
  /\ pc = "get" => cmd.op = "GET" /\ cmd.arg \in Int
  /\ pc = "ack" => cmd.op = "ACK" /\ cmd.arg \in Int
  /\ pc \in OtherWaits => cmd.op \notin {"BAUD", "GET", "ACK"}

\* The one answer is on its way while the command waits for it.
IsAnswer(i) == rx[i].k = "answer"
OneAnswer ==
  /\ net # "served" => \A i \in DOMAIN rx : ~IsAnswer(i)
  /\ \A i, j \in DOMAIN rx : IsAnswer(i) /\ IsAnswer(j) => i = j

\* A staged file no check has passed lives from the end of the download to the verdict.
Unchecked == {"verify rate", "verify", "refused"}
StagedInv == pc \notin Unchecked => staged = NoFile \/ Whole(staged)

\* While the switch is answered the co-processor runs at the new rate, else at the host's.
Switched == pc \in RateWaits /\ net \in {"served", "tail"}
RatesInv ==
  "BAUD" \notin Lossy /\ ~blind =>
    /\ ~Switched => cp.baud = baud
    /\ Switched => /\ cp.baud = cmd.arg
                   /\ net = "tail" => answer.a = "OK"
                   /\ \A i \in DOMAIN rx : IsAnswer(i) => rx[i].answer.a = "OK"
    /\ ~(pc \in RateWaits /\ net = "lost")

\* The first block of another transfer is on its way, or has been read.
First(i) == rx[i].k = "BLOCK" /\ rx[i].seq = 0
Told     == upd.ended \/ \E i \in DOMAIN rx : First(i)
ToldFirst == upd.ended \/ \E i \in DOMAIN rx : First(i) /\ \A j \in DOMAIN rx : IsAnswer(j) => i < j
Alien    == \E i \in DOMAIN tmp : tmp[i].tr # cp.tr
\* The co-processor has gone on to a transfer t does not name, and says so.
Moved(t) == t # cp.tr => cp.blk = 0 /\ (cp.phase = "block" /\ cp.baud = baud => Told)

TransferInv ==
  /\ OneTransfer
  /\ pc \in {"get", "ack"} => upd.writeOpen
  /\ pc \in {"ended", "work", "get", "ack", "rate"} => upd.status # "DISABLED"
  /\ pc = "work" => ~upd.ended
  /\ upd.writeOpen /\ upd.pending /\ upd.seq = 0 /\ tmp # <<>> => upd.ended
  /\ pc = "get" => /\ cmd.arg = 0 => tmp = <<>>
                   /\ Alien => cp.blk = 0
                   /\ net = "tail" /\ answer.a = "block" =>
                        Moved(answer.tr) /\ \A j \in DOMAIN tmp : tmp[j].tr = answer.tr
                   /\ \A i \in DOMAIN rx : IsAnswer(i) /\ rx[i].answer.a = "block" =>
                        Moved(rx[i].answer.tr) /\ \A j \in DOMAIN tmp : tmp[j].tr = rx[i].answer.tr
  /\ pc = "ack" /\ net = "sent" => \A i \in DOMAIN tmp : Moved(tmp[i].tr)
  /\ upd.writeOpen /\ Alien /\ cp.blk > 0 =>
       \/ upd.ended
       \/ /\ pc = "ack"
          /\ \/ net = "served" /\ ToldFirst
             \/ net = "lost"
             \/ net = "tail" /\ answer.a # "OK"

DownloadInv == Types /\ Places /\ OneAnswer /\ StagedInv /\ RatesInv /\ TransferInv

LEMMA DownloadInit == Init => DownloadInv
<1> SUFFICES ASSUME Init  PROVE DownloadInv
  OBVIOUS
<1> USE DEF Init
<1>1. PICK wired \in BOOLEAN :
        /\ cp = [on |-> wired, wired |-> wired, tr |-> 0, phase |-> "idle", blk |-> 0,
                 deferred |-> FALSE, baud |-> Default]
        /\ upd = Fresh(wired)
  OBVIOUS
<1>2. cp \in Coproc /\ cp.tr = 0 /\ cp.blk = 0 /\ cp.baud = Default
  BY <1>1 DEF Coproc, Phases, Default, Download
<1>3. upd \in Fields /\ upd.writeOpen = FALSE
  BY <1>1 DEF Fields, Fresh
<1>4. cmd \in Command /\ answer \in Results
  BY DEF Command, NoCmd, Ops, Results, NoAnswer, Ok
<1>5. Types
  BY <1>2, <1>3, <1>4, EmptySeq DEF Types, NoFile, Default, Download
<1>6. Places /\ OneAnswer
  BY DEF Places, OneAnswer, Rests, RateWaits, OtherWaits, IsAnswer
<1>7. StagedInv /\ RatesInv
  BY <1>2 DEF StagedInv, RatesInv, Switched, RateWaits
<1>8. TransferInv
  BY <1>3 DEF TransferInv, OneTransfer, NoFile
<1> QED
  BY <1>5, <1>6, <1>7, <1>8 DEF DownloadInv

---------------------------------------------------------------------------
\* A step of the drain that leaves the wire alone and opens nothing.
Plain ==
  /\ UNCHANGED <<cp, baud, blind, rx>> /\ net # "served" /\ net' \in {"none", "sent"}
  /\ pc \notin RateWaits /\ pc' \notin {"get", "ack", "work"}
  /\ upd' \in Fields /\ cmd' \in Command /\ answer' \in Results /\ tmp' \in {tmp, <<>>}
  /\ Places' /\ StagedInv'
  /\ upd'.writeOpen => upd.writeOpen /\ pc # "ack"
  /\ upd'.pending => upd.pending
  /\ upd'.seq = upd.seq /\ upd'.ended = upd.ended
  /\ pc' \in {"ended", "rate"} => upd'.status # "DISABLED"

LEMMA PlainStep == DownloadInv /\ Plain => DownloadInv'
<1> SUFFICES ASSUME DownloadInv, Plain  PROVE DownloadInv'
  OBVIOUS
<1> USE DEF DownloadInv, Plain
<1>1. Types'
  BY EmptySeq DEF Types
<1>2. OneAnswer' /\ Places' /\ StagedInv'
  BY DEF OneAnswer, IsAnswer
<1>3. RatesInv'
  BY DEF RatesInv, Switched
<1>4. TransferInv'
  <2>1. OneTransfer' /\ (Alien' => Alien)
    BY DEF TransferInv, OneTransfer, Alien
  <2>2. upd'.writeOpen /\ upd'.pending /\ upd'.seq = 0 /\ tmp' # <<>> => upd'.ended
    BY DEF TransferInv
  <2>3. upd'.writeOpen /\ Alien' /\ cp'.blk > 0 => upd'.ended
    BY <2>1 DEF TransferInv
  <2> QED
    BY <2>1, <2>2, <2>3 DEF TransferInv
<1> QED
  BY <1>1, <1>2, <1>3, <1>4

\* The facts the plain steps share.
LEMMA Turns ==
  ASSUME DownloadInv, net \in {"none", "tail"}
  PROVE  /\ upd \in Fields /\ cmd \in Command /\ answer \in Results
         /\ NoCmd \in Command /\ NoAnswer \in Results
         /\ pc \in Rests <=> net = "none"
<1>1. NoCmd \in Command /\ NoAnswer \in Results
  BY DEF NoCmd, Command, Ops, NoAnswer, Ok, Results
<1> QED
  BY <1>1 DEF DownloadInv, Types, Places

\* The end of an exchange of the drain, and the start of the next.
Turned ==
  \/ \E l \in Rests : Return(l)
  \/ \E l \in RateWaits, rate \in {Default, Download} : Send(l, "BAUD", rate)
  \/ \E l \in OtherWaits, op \in {"SWVER", "QUERY", "OTA", "STAGED"}, arg \in {0, 1} : Send(l, op, arg)

LEMMA Placed ==
  ASSUME Turned
  PROVE  Places' /\ cmd' \in Command /\ answer' \in Results /\ net' \in {"none", "sent"}
<1>1. NoCmd \in Command /\ NoAnswer \in Results
  BY DEF NoCmd, Command, Ops, NoAnswer, Ok, Results
<1>2. CASE \E l \in Rests : Return(l)
  BY <1>1, <1>2 DEF Return, Places, Rests, RateWaits, OtherWaits
<1>3. CASE \E l \in RateWaits, rate \in {Default, Download} : Send(l, "BAUD", rate)
  <2>1. PICK l \in RateWaits, rate \in {Default, Download} : Send(l, "BAUD", rate)
    BY <1>3
  <2>2. /\ cmd' = [op |-> "BAUD", arg |-> rate, try |-> 1] /\ net' = "sent" /\ pc' = l
        /\ answer' = NoAnswer
    BY <2>1 DEF Send
  <2>3. cmd' \in Command /\ cmd'.op = "BAUD" /\ cmd'.arg = rate
    BY <2>2 DEF Command, Ops
  <2>4. Places'
    BY <2>1, <2>2, <2>3 DEF Places, Rests, RateWaits, OtherWaits
  <2> QED
    BY <1>1, <2>2, <2>3, <2>4
<1>4. CASE \E l \in OtherWaits, op \in {"SWVER", "QUERY", "OTA", "STAGED"}, arg \in {0, 1} : Send(l, op, arg)
  <2>1. PICK l \in OtherWaits, op \in {"SWVER", "QUERY", "OTA", "STAGED"}, arg \in {0, 1} : Send(l, op, arg)
    BY <1>4
  <2>2. /\ cmd' = [op |-> op, arg |-> arg, try |-> 1] /\ net' = "sent" /\ pc' = l
        /\ answer' = NoAnswer
    BY <2>1 DEF Send
  <2>3. cmd' \in Command /\ cmd'.op = op
    <3>1. op \in Ops /\ arg \in Int
      BY <2>1 DEF Ops
    <3> QED
      BY <2>2, <3>1 DEF Command
  <2>4. op \notin {"BAUD", "GET", "ACK"}
    BY <2>1
  <2>5. Places'
    BY <2>1, <2>2, <2>3, <2>4 DEF Places, Rests, RateWaits, OtherWaits
  <2> QED
    BY <1>1, <2>2, <2>3, <2>5
<1> QED
  BY <1>2, <1>3, <1>4 DEF Turned

\* end(), begin() and the re-probe.
LEMMA BeginSteps ==
  ASSUME DownloadInv, End \/ Begin \/ BeginDeclared \/ BeginQueried \/ BeginDone
  PROVE  Plain
<1> USE DEF Send, Return, Answered
<1>1. net \in {"none", "tail"} /\ UNCHANGED <<cp, baud, blind, rx, tmp, staged>>
      /\ net' \in {"none", "sent"} /\ (net = "none" => pc = "idle")
      /\ pc \in {"idle", "begin declare", "begin query", "begin requestor"}
      /\ pc' \in {"idle", "begin declare", "begin query", "begin requestor"}
  BY DEF End, Begin, BeginDeclared, BeginQueried, BeginDone, hist
<1>2. /\ upd \in Fields /\ cmd \in Command /\ answer \in Results
      /\ NoCmd \in Command /\ NoAnswer \in Results
  BY <1>1, Turns
<1>3. /\ upd' \in Fields
      /\ upd'.writeOpen => upd.writeOpen
      /\ upd'.pending => upd.pending
      /\ upd'.seq = upd.seq /\ upd'.ended = upd.ended
  <2>1. CASE End
    BY <1>2, <2>1, ZenonT(30) DEF End, Fields
  <2>2. CASE Begin \/ BeginDeclared \/ BeginQueried
    BY <1>2, <2>2 DEF Begin, BeginDeclared, BeginQueried, Fields
  <2>3. CASE BeginDone
    BY <1>2, <2>3 DEF BeginDone, Fields
  <2> QED
    BY <2>1, <2>2, <2>3
<1>4. CASE End
  <2>1. Places' /\ cmd' \in Command /\ answer' \in Results
    BY <1>2, <1>4 DEF End, DownloadInv, Places
  <2>2. StagedInv'
    BY <1>1 DEF DownloadInv, StagedInv, Unchecked, Whole
  <2> QED
    BY <1>1, <1>3, <2>1, <2>2 DEF Plain, RateWaits
<1>5. CASE Begin \/ BeginDeclared \/ BeginQueried \/ BeginDone
  <2>1. Turned
    <3> HIDE DEF Send, Return
    <3>1. \/ Return("idle") \/ Send("begin declare", "SWVER", 0) \/ Send("begin query", "QUERY", 0)
          \/ Send("begin requestor", "OTA", 1)
      BY <1>5 DEF Begin, BeginDeclared, BeginQueried, BeginDone
    <3> QED
      BY <3>1 DEF Turned, Rests, OtherWaits
  <2>2. Places' /\ cmd' \in Command /\ answer' \in Results
    BY <2>1, Placed
  <2>3. StagedInv'
    BY <1>1 DEF DownloadInv, StagedInv, Unchecked, Whole
  <2> QED
    BY <1>1, <1>3, <2>2, <2>3 DEF Plain, RateWaits
<1> QED
  BY <1>4, <1>5

LEMMA DrainSteps ==
  ASSUME DownloadInv, DrainBegins \/ DeclareDone \/ RequestorDone \/ DrainMode \/ RetryDone
  PROVE  Plain
<1> USE DEF Send, Return, Answered
<1>1. net \in {"none", "tail"} /\ UNCHANGED <<cp, baud, blind, rx, tmp, staged>>
      /\ net' \in {"none", "sent"}
      /\ pc \in {"idle", "declare", "requestor", "mode", "retry"}
      /\ pc' \in {"idle", "declare", "requestor", "mode", "retry", "rate", "ended"}
  BY DEF DrainBegins, DeclareDone, RequestorDone, DrainMode, RetryDone, hist
<1>2. /\ upd \in Fields /\ cmd \in Command /\ answer \in Results
      /\ NoCmd \in Command /\ NoAnswer \in Results
  BY <1>1, Turns
<1>3. /\ upd' \in Fields
      /\ upd'.writeOpen => upd.writeOpen
      /\ upd'.pending => upd.pending
      /\ upd'.seq = upd.seq /\ upd'.ended = upd.ended
  <2>1. CASE DrainBegins
    BY <1>2, <2>1 DEF DrainBegins, Fields
  <2>2. CASE DeclareDone \/ DrainMode
    BY <1>2, <2>2 DEF DeclareDone, DrainMode, Fields
  <2>3. CASE RequestorDone \/ RetryDone
    BY <1>2, <2>3, ZenonT(30) DEF RequestorDone, RetryDone, Fields
  <2> QED
    BY <2>1, <2>2, <2>3
<1>4. Turned
  <2> HIDE DEF Send, Return
  <2>1. \/ Return("idle") \/ Return("mode") \/ Return("ended") \/ Send("declare", "SWVER", 0)
        \/ Send("requestor", "OTA", 1) \/ Send("retry", "OTA", 1)
        \/ \E rate \in {Default, Download} : Send("rate", "BAUD", rate)
    BY DEF DrainBegins, DeclareDone, RequestorDone, DrainMode, RetryDone, WantBaud
  <2> QED
    BY <2>1 DEF Turned, Rests, OtherWaits, RateWaits
<1>5. Places' /\ cmd' \in Command /\ answer' \in Results
  BY <1>4, Placed
<1>7. StagedInv'
  BY <1>1 DEF DownloadInv, StagedInv, Unchecked, Whole
<1>8. pc' \in {"ended", "rate"} => upd'.status # "DISABLED"
  BY <1>1 DEF DrainBegins, DeclareDone, RequestorDone, DrainMode, RetryDone, Deaf
<1> QED
  BY <1>1, <1>3, <1>5, <1>7, <1>8 DEF Plain, RateWaits

\* The ways a pull is left.
LEMMA AbortSteps ==
  ASSUME DownloadInv,
         \/ (Pull /\ pc' = "abort rate") \/ (PullGood /\ pc' = "abort rate")
         \/ (PullGarbled /\ pc' = "abort rate") \/ PullDropped \/ PullTimedOut
         \/ (AckDone /\ pc' = "abort rate") \/ AbortOff \/ AbortOn
  PROVE  Plain
<1> USE DEF Send, Return, Answered, Abort, AbortFields
<1>1. UNCHANGED <<cp, baud, blind, rx>> /\ tmp' \in {tmp, NoFile} /\ staged' \in {staged, NoFile}
      /\ net' \in {"none", "sent"}
      /\ pc \in {"work", "get", "ack", "abort off", "abort on"} /\ (pc = "work" \/ net = "tail")
      /\ pc' \in {"idle", "abort rate", "abort on"}
  BY DEF Pull, PullGood, PullGarbled, PullDropped, PullTimedOut, AckDone, AbortOff, AbortOn, hist
<1>2. /\ upd \in Fields /\ cmd \in Command /\ answer \in Results
      /\ NoCmd \in Command /\ NoAnswer \in Results /\ net # "served"
  BY <1>1, Turns DEF DownloadInv, Places, Rests
<1>3. /\ upd' \in Fields
      /\ upd'.writeOpen => upd.writeOpen /\ pc # "ack"
      /\ upd'.pending => upd.pending
      /\ upd'.seq = upd.seq /\ upd'.ended = upd.ended
  <2>1. CASE pc' = "abort rate"
    <3>1. upd' = AbortFields(upd)
      BY <2>1 DEF Pull, PullGood, PullGarbled, PullDropped, PullTimedOut, AckDone, AbortOff, AbortOn
    <3> QED
      BY <1>2, <3>1 DEF Fields
  <2>2. CASE PullDropped
    BY <1>2, <2>2 DEF PullDropped, Fields
  <2>3. CASE AbortOff \/ AbortOn
    BY <1>2, <2>3 DEF AbortOff, AbortOn, Fields
  <2> QED
    BY <2>1, <2>2, <2>3 DEF PullTimedOut
<1>4. Turned
  <2> HIDE DEF Send, Return
  <2>1. Return("idle") \/ Send("abort rate", "BAUD", Default) \/ Send("abort on", "OTA", 1)
    <3>1. CASE pc' = "abort rate"
      BY <3>1 DEF Send, Return, Pull, PullGood, PullGarbled, PullDropped, PullTimedOut, AckDone, AbortOff, AbortOn
    <3>2. CASE pc' # "abort rate"
      BY <3>2 DEF PullDropped, PullTimedOut, AbortOff, AbortOn, Send
    <3> QED
      BY <3>1, <3>2
  <2> QED
    BY <2>1 DEF Turned, Rests, OtherWaits, RateWaits
<1>5. Places' /\ cmd' \in Command /\ answer' \in Results
  BY <1>4, Placed
<1>7. StagedInv'
  BY <1>1 DEF DownloadInv, StagedInv, Unchecked, Whole, NoFile
<1> QED
  BY <1>1, <1>2, <1>3, <1>5, <1>7 DEF Plain, RateWaits, NoFile

\* The verdict, the consent and the apply that finds nothing.
LEMMA VerdictSteps ==
  ASSUME DownloadInv,
         \/ EndWrite \/ Verify \/ RefuseDone \/ NothingDone \/ Consents \/ Refuses \/ AcceptDone
         \/ AskAgain \/ Abandon \/ AbandonOff \/ AbandonOn \/ DrainRest \/ NoApply
         \/ ApplyNothing \/ ApplyOn
  PROVE  Plain
<1> USE DEF Send, Return, Answered
<1> DEFINE Froms == {"work", "verify", "refused", "nothing", "ask", "ask again", "accept", "abandon off",
                     "abandon on", "apply", "apply on"}
           Tos == {"verify rate", "refused", "nothing", "ask", "idle", "accept", "apply", "ask again",
                   "abandon off", "abandon on", "apply on"}
<1>1. UNCHANGED <<cp, baud, blind, rx>> /\ tmp' \in {tmp, NoFile} /\ net' \in {"none", "sent"}
      /\ pc \in Froms /\ pc' \in Tos
  <2>1. CASE EndWrite \/ Verify \/ RefuseDone \/ NothingDone \/ Consents \/ Refuses
    BY <2>1 DEF EndWrite, Verify, RefuseDone, NothingDone, Consents, Refuses, hist
  <2>2. CASE AcceptDone \/ AskAgain \/ Abandon \/ AbandonOff \/ AbandonOn
    BY <2>2 DEF AcceptDone, AskAgain, Abandon, AbandonOff, AbandonOn, hist
  <2>3. CASE DrainRest \/ NoApply \/ ApplyNothing \/ ApplyOn
    BY <2>3 DEF DrainRest, NoApply, ApplyNothing, ApplyOn, Applies, hist
  <2> QED
    BY <2>1, <2>2, <2>3
<1>2. net \in {"none", "tail"}
  <2>1. pc \in Rests \/ net = "tail"
    BY DEF EndWrite, Verify, RefuseDone, NothingDone, Consents, Refuses, AcceptDone, AskAgain, Abandon,
           AbandonOff, AbandonOn, DrainRest, NoApply, ApplyNothing, ApplyOn, Applies, Rests
  <2> QED
    BY <2>1 DEF DownloadInv, Places
<1>3. /\ upd \in Fields /\ cmd \in Command /\ answer \in Results
      /\ NoCmd \in Command /\ NoAnswer \in Results
  BY <1>2, Turns
<1>4. /\ upd' \in Fields
      /\ upd'.writeOpen => upd.writeOpen
      /\ upd'.pending => upd.pending
      /\ upd'.seq = upd.seq /\ upd'.ended = upd.ended
  <2>1. CASE EndWrite
    BY <1>3, <2>1 DEF EndWrite, Fields
  <2>2. CASE Verify
    BY <1>3, <2>2 DEF Verify, Fields
  <2>3. CASE RefuseDone \/ Consents \/ Refuses
    BY <1>3, <2>3 DEF RefuseDone, Consents, Refuses, Fields
  <2>4. CASE AcceptDone \/ Abandon \/ AbandonOn
    <3>1. CASE AcceptDone
      BY <1>3, <3>1 DEF AcceptDone, Fields
    <3>2. CASE Abandon
      BY <1>3, <3>2 DEF Abandon, Fields
    <3>3. CASE AbandonOn
      BY <1>3, <3>3 DEF AbandonOn, Fields
    <3> QED
      BY <2>4, <3>1, <3>2, <3>3
  <2>5. CASE ApplyNothing \/ ApplyOn
    BY <1>3, <2>5 DEF ApplyNothing, ApplyOn, Fields
  <2>6. CASE NothingDone \/ AskAgain \/ AbandonOff \/ DrainRest \/ NoApply
    BY <1>3, <2>6 DEF NothingDone, AskAgain, AbandonOff, DrainRest, NoApply
  <2> QED
    BY <2>1, <2>2, <2>3, <2>4, <2>5, <2>6
<1>5. Turned
  <2> HIDE DEF Send, Return
  <2>1. \/ \E l \in {"idle", "ask", "ask again", "apply"} : Return(l)
        \/ \E l \in {"refused", "nothing", "accept"}, arg \in {0, 1} : Send(l, "STAGED", arg)
        \/ \E l \in {"abandon off", "abandon on", "apply on"}, arg \in {0, 1} : Send(l, "OTA", arg)
        \/ Send("verify rate", "BAUD", Default)
    <3>1. CASE EndWrite \/ Verify \/ RefuseDone \/ NothingDone \/ Consents \/ Refuses
      BY <3>1 DEF EndWrite, Verify, RefuseDone, NothingDone, Consents, Refuses
    <3>2. CASE AcceptDone \/ AskAgain \/ Abandon \/ AbandonOff \/ AbandonOn
      BY <3>2 DEF AcceptDone, AskAgain, Abandon, AbandonOff, AbandonOn
    <3>3. CASE DrainRest \/ NoApply \/ ApplyNothing \/ ApplyOn
      BY <3>3 DEF DrainRest, NoApply, ApplyNothing, ApplyOn
    <3> QED
      BY <3>1, <3>2, <3>3
  <2> QED
    BY <2>1 DEF Turned, Rests, OtherWaits, RateWaits
<1>6. Places' /\ cmd' \in Command /\ answer' \in Results
  BY <1>5, Placed
<1>8. StagedInv'
  <2>1. CASE pc' \in Unchecked
    BY <2>1 DEF StagedInv
  <2>2. CASE Verify /\ pc' \notin Unchecked
    BY <2>2 DEF Verify, StagedInv, Unchecked, Whole
  <2>3. CASE RefuseDone
    BY <2>3 DEF RefuseDone, StagedInv
  <2>4. CASE pc \notin Unchecked /\ pc' \notin Unchecked
    <3>1. staged' \in {staged, NoFile}
      BY <2>4 DEF EndWrite, Verify, RefuseDone, NothingDone, Consents, Refuses, AcceptDone, AskAgain,
                  Abandon, AbandonOff, AbandonOn, DrainRest, NoApply, ApplyNothing, ApplyOn, Unchecked
    <3> QED
      BY <2>4, <3>1 DEF DownloadInv, StagedInv, Whole
  <2> QED
    BY <1>1, <2>1, <2>2, <2>3, <2>4 DEF Unchecked, Verify, RefuseDone, EndWrite, NothingDone, Consents,
       Refuses, AcceptDone, AskAgain, Abandon, AbandonOff, AbandonOn, DrainRest, NoApply, ApplyNothing,
       ApplyOn, Applies
<1> QED
  BY <1>1, <1>2, <1>4, <1>6, <1>8 DEF Plain, RateWaits, NoFile

---------------------------------------------------------------------------
(* The switch of the rate, the end of a transfer and the pull.             *)

LEMMA RateSteps ==
  ASSUME DownloadInv, RateDone \/ AbortRate \/ VerifyRate
  PROVE  DownloadInv'
<1> USE DEF DownloadInv, Answered
<1>1. /\ pc \in RateWaits /\ net = "tail" /\ RateTail /\ UNCHANGED <<tmp, staged, blind>>
      /\ \/ pc = "rate" /\ Return("ended")
         \/ pc = "abort rate" /\ Send("abort off", "OTA", 0)
         \/ pc = "verify rate" /\ Return("verify")
  BY DEF RateDone, AbortRate, VerifyRate, RateWaits, hist
<1>2. Turned
  BY <1>1 DEF Turned, Rests, OtherWaits
<1>3. Places' /\ cmd' \in Command /\ answer' \in Results /\ net' \in {"none", "sent"}
  BY <1>2, Placed
<1>4. /\ rx' \in {rx, <<>>} /\ cp' \in {cp, Rebooted(cp)} /\ baud' \in {baud, cmd.arg, Default}
      /\ upd' \in {upd, [upd EXCEPT !.wanted = FALSE], [upd EXCEPT !.wanted = FALSE, !.ready = TRUE]}
      /\ answer.a = "OK" => baud' = cmd.arg /\ cp' = cp
  BY <1>1 DEF RateTail
<1>5. cmd.arg \in {Default, Download} /\ cp \in Coproc /\ upd \in Fields /\ baud \in {Default, Download}
  BY <1>1 DEF Places, Types
<1>6. cp' \in Coproc /\ cp'.tr = cp.tr /\ cp'.blk = cp.blk
  <2>1. Rebooted(cp) \in Coproc /\ Rebooted(cp).tr = cp.tr /\ Rebooted(cp).blk = cp.blk
    BY <1>5 DEF Rebooted, Coproc, Phases
  <2> QED
    BY <1>4, <1>5, <2>1
<1>7. /\ upd' \in Fields /\ upd'.writeOpen = upd.writeOpen /\ upd'.pending = upd.pending
      /\ upd'.seq = upd.seq /\ upd'.ended = upd.ended /\ upd'.status = upd.status
  BY <1>4, <1>5 DEF Fields
<1>8. Types'
  BY <1>1, <1>3, <1>4, <1>5, <1>6, <1>7, EmptySeq DEF Types
<1>9. OneAnswer'
  <2>1. \A i \in DOMAIN rx : ~IsAnswer(i)
    BY <1>1 DEF OneAnswer
  <2>2. \A i \in DOMAIN rx' : ~IsAnswer(i)'
    <3>1. CASE rx' = rx
      BY <2>1, <3>1 DEF IsAnswer
    <3>2. CASE rx' = <<>>
      BY <3>2
    <3> QED
      BY <1>4, <3>1, <3>2
  <2> QED
    BY <2>2 DEF OneAnswer
<1>10. StagedInv'
  BY <1>1 DEF StagedInv, Unchecked, Whole, Send, Return
<1>11. RatesInv'
  BY <1>1, <1>3, <1>4 DEF RatesInv, Switched
<1>12. TransferInv'
  <2>1. pc' \in {"ended", "abort off", "verify"} /\ (pc' = "ended" => pc = "rate")
    BY <1>1 DEF Send, Return
  <2>2. OneTransfer' /\ (Alien' <=> Alien)
    BY <1>1, <1>6 DEF TransferInv, OneTransfer, Alien
  <2>3. upd'.writeOpen /\ upd'.pending /\ upd'.seq = 0 /\ tmp' # <<>> => upd'.ended
    BY <1>1, <1>7 DEF TransferInv
  <2>4. upd'.writeOpen /\ Alien' /\ cp'.blk > 0 => upd'.ended
    BY <1>1, <1>6, <1>7, <2>2 DEF TransferInv, RateWaits
  <2>5. pc' = "ended" => upd'.status # "DISABLED"
    BY <1>7, <2>1 DEF TransferInv
  <2> QED
    BY <2>1, <2>2, <2>3, <2>4, <2>5 DEF TransferInv
<1> QED
  BY <1>3, <1>8, <1>9, <1>10, <1>11, <1>12

\* What a step of the pull leaves alone.
LEMMA PullRest ==
  ASSUME DownloadInv, UNCHANGED <<cp, baud, blind, rx>>, net \in {"none", "tail"}, net' \in {"none", "sent"},
         pc \notin RateWaits, upd' \in Fields, cmd' \in Command, answer' \in Results, tmp' \in Seq(Blk)
  PROVE  Types' /\ OneAnswer' /\ RatesInv'
<1> USE DEF DownloadInv
<1>1. Types'
  BY DEF Types
<1>2. OneAnswer'
  BY DEF OneAnswer, IsAnswer
<1>3. RatesInv'
  BY DEF RatesInv, Switched
<1> QED
  BY <1>1, <1>2, <1>3

LEMMA EndedStep ==
  ASSUME DownloadInv, DrainEnded
  PROVE  DownloadInv'
<1> USE DEF DownloadInv, Return
<1>1. /\ UNCHANGED <<cp, baud, blind, rx>> /\ pc = "ended" /\ pc' = "work" /\ net' = "none"
      /\ staged' \in {staged, NoFile}
      /\ \/ ~(upd.ended /\ upd.writeOpen) /\ tmp' = tmp /\ upd' = [upd EXCEPT !.ended = FALSE]
         \/ tmp' = <<>> /\ upd' = [upd EXCEPT !.ended = FALSE, !.writeOpen = FALSE]
  BY DEF DrainEnded, hist, NoFile
<1>2. net = "none" /\ upd \in Fields
  BY <1>1 DEF Places, Rests, Types
<1>3. Return("work")
  BY DEF DrainEnded
<1>4. Places' /\ cmd' \in Command /\ answer' \in Results
  <2>1. Turned
    BY <1>3 DEF Turned, Rests
  <2> QED
    BY <2>1, Placed
<1>5. /\ upd' \in Fields /\ ~upd'.ended /\ upd'.pending = upd.pending /\ upd'.seq = upd.seq
      /\ upd'.status = upd.status
      /\ upd'.writeOpen => upd.writeOpen /\ ~upd.ended /\ tmp' = tmp
  BY <1>1, <1>2 DEF Fields
<1>6. tmp' \in Seq(Blk)
  BY <1>1, EmptySeq DEF Types
<1>7. Types' /\ OneAnswer' /\ RatesInv'
  BY <1>1, <1>2, <1>4, <1>5, <1>6, PullRest DEF RateWaits
<1>8. StagedInv'
  BY <1>1 DEF StagedInv, Unchecked, Whole, NoFile
<1>9. TransferInv'
  <2>1. OneTransfer'
    BY <1>1 DEF TransferInv, OneTransfer
  <2>2. ~(upd'.writeOpen /\ Alien' /\ cp'.blk > 0)
    BY <1>1, <1>5 DEF TransferInv, Alien
  <2>3. ~(upd'.writeOpen /\ upd'.pending /\ upd'.seq = 0 /\ tmp' # <<>>)
    BY <1>5 DEF TransferInv
  <2>4. upd'.status # "DISABLED"
    BY <1>1, <1>5 DEF TransferInv
  <2> QED
    BY <1>1, <1>5, <2>1, <2>2, <2>3, <2>4 DEF TransferInv
<1> QED
  BY <1>4, <1>7, <1>8, <1>9

\* The pull of the block announced, and its acknowledgement.
LEMMA PullSteps ==
  ASSUME DownloadInv, Pull /\ pc' = "get"
  PROVE  DownloadInv'
<1> USE DEF DownloadInv
<1>1. /\ UNCHANGED <<cp, baud, blind, rx>> /\ pc = "work" /\ Send("get", "GET", upd.seq) /\ upd.pending
      /\ \/ upd.writeOpen /\ UNCHANGED <<upd, tmp, staged>>
         \/ /\ ~upd.writeOpen /\ tmp' = <<>> /\ staged' = NoFile
            /\ upd' = [upd EXCEPT !.writeOpen = TRUE, !.verdict = FALSE]
  <2>1. ~Abort(upd)
    BY DEF Abort, Send
  <2> QED
    BY <2>1 DEF Pull, OpenStaged, hist, NoFile
<1>2. net = "none" /\ upd \in Fields /\ upd.seq \in Int /\ ~upd.ended /\ upd.status # "DISABLED"
  BY <1>1 DEF Places, Rests, Types, Fields, TransferInv
<1>3. /\ pc' = "get" /\ cmd' = [op |-> "GET", arg |-> upd.seq, try |-> 1] /\ net' = "sent" /\ answer' = NoAnswer
  BY <1>1 DEF Send
<1>4. cmd' \in Command /\ answer' \in Results /\ cmd'.op = "GET" /\ cmd'.arg = upd.seq /\ answer'.a = "none"
  BY <1>2, <1>3 DEF Command, Ops, NoAnswer, Ok, Results
<1>5. Places'
  BY <1>2, <1>3, <1>4 DEF Places, Rests, RateWaits, OtherWaits
<1>6. /\ upd' \in Fields /\ upd'.ended = upd.ended /\ upd'.pending = upd.pending /\ upd'.seq = upd.seq
      /\ upd'.status = upd.status /\ upd'.writeOpen
  BY <1>1, <1>2 DEF Fields
<1>7. tmp' \in Seq(Blk) /\ tmp' \in {tmp, <<>>}
  BY <1>1, EmptySeq DEF Types
<1>8. Types' /\ OneAnswer' /\ RatesInv'
  BY <1>1, <1>2, <1>3, <1>4, <1>6, <1>7, PullRest DEF RateWaits
<1>9. StagedInv'
  BY <1>1 DEF StagedInv, Unchecked, Whole, NoFile
<1>10. TransferInv'
  <2>1. OneTransfer' /\ \A i \in DOMAIN rx' : ~IsAnswer(i)'
    BY <1>1, <1>2, <1>7 DEF TransferInv, OneTransfer, OneAnswer, IsAnswer
  <2>2. cp.blk \in Nat
    BY DEF Types, Coproc
  <2>3. Alien' => ~(cp.blk > 0)
    BY <1>1, <1>2 DEF TransferInv, Alien
  <2>4. upd'.seq = 0 => tmp' = <<>>
    BY <1>1, <1>2, <1>6 DEF TransferInv
  <2> QED
    BY <1>1, <1>2, <1>3, <1>4, <1>6, <2>1, <2>2, <2>3, <2>4 DEF TransferInv
<1> QED
  BY <1>5, <1>8, <1>9, <1>10

LEMMA GarbledStep ==
  ASSUME DownloadInv, PullGarbled /\ pc' = "get"
  PROVE  DownloadInv'
<1> USE DEF DownloadInv
<1>1. /\ UNCHANGED <<cp, baud, blind, rx, upd, tmp, staged, pc>> /\ pc = "get" /\ net = "tail"
      /\ cmd' = [cmd EXCEPT !.try = 2] /\ net' = "sent" /\ answer' = NoAnswer
  <2>1. ~Abort(upd)
    BY DEF Abort, Send
  <2> QED
    BY <2>1 DEF PullGarbled, Answered, hist
<1>2. cmd' \in Command /\ answer' \in Results /\ cmd'.op = cmd.op /\ cmd'.arg = cmd.arg /\ answer'.a = "none"
  <2>1. cmd \in Command
    BY DEF Types
  <2>2. cmd' \in Command /\ cmd'.op = cmd.op /\ cmd'.arg = cmd.arg
    BY <1>1, <2>1 DEF Command
  <2>3. NoAnswer \in Results /\ NoAnswer.a = "none"
    BY DEF NoAnswer, Ok, Results
  <2> QED
    BY <1>1, <2>2, <2>3
<1>3. Places'
  BY <1>1, <1>2 DEF Places, Rests, RateWaits, OtherWaits
<1>4. Types' /\ OneAnswer' /\ RatesInv'
  BY <1>1, <1>2, PullRest DEF RateWaits, Types
<1>5. StagedInv'
  BY <1>1 DEF StagedInv, Whole
<1>6. TransferInv'
  <2>1. OneTransfer' /\ (Alien' <=> Alien) /\ \A i \in DOMAIN rx' : ~IsAnswer(i)'
    BY <1>1 DEF TransferInv, OneTransfer, OneAnswer, IsAnswer, Alien
  <2> QED
    BY <1>1, <1>2, <2>1 DEF TransferInv
<1> QED
  BY <1>3, <1>4, <1>5, <1>6

LEMMA GoodStep ==
  ASSUME DownloadInv, PullGood /\ pc' = "ack"
  PROVE  DownloadInv'
<1> USE DEF DownloadInv
<1> DEFINE b == [tr |-> answer.tr, seq |-> answer.seq]
<1>1. /\ UNCHANGED <<cp, baud, blind, rx, staged>> /\ pc = "get" /\ net = "tail" /\ answer.a = "block"
      /\ tmp' = Append(tmp, b) /\ upd' = [upd EXCEPT !.pending = FALSE] /\ Send("ack", "ACK", cmd.arg)
  <2>1. ~Abort(upd)
    BY DEF Abort, Send
  <2> QED
    BY <2>1 DEF PullGood, Answered, hist
<1>2. /\ pc' = "ack" /\ cmd' = [op |-> "ACK", arg |-> cmd.arg, try |-> 1] /\ net' = "sent" /\ answer' = NoAnswer
  BY <1>1 DEF Send
<1>3. cmd' \in Command /\ answer' \in Results /\ cmd'.op = "ACK" /\ cmd'.arg = cmd.arg /\ cmd.arg \in Int
  BY <1>1, <1>2 DEF Types, Places, Command, Ops, NoAnswer, Ok, Results
<1>4. Places'
  BY <1>2, <1>3 DEF Places, Rests, RateWaits, OtherWaits
<1>5. /\ upd' \in Fields /\ ~upd'.pending /\ upd'.ended = upd.ended /\ upd'.seq = upd.seq
      /\ upd'.status = upd.status /\ upd'.writeOpen = upd.writeOpen
  BY <1>1 DEF Types, Fields
<1>6. b \in Blk /\ b.tr = answer.tr
  BY DEF Types, Results, Blk
<1> HIDE DEF b
<1>7. tmp' \in Seq(Blk) /\ \A i \in DOMAIN tmp' : (i \in DOMAIN tmp /\ tmp'[i] = tmp[i]) \/ tmp'[i] = b
  <2>1. tmp \in Seq(Blk)
    BY DEF Types
  <2>2. /\ Append(tmp, b) \in Seq(Blk) /\ Len(Append(tmp, b)) = Len(tmp) + 1 /\ Len(tmp) \in Nat
        /\ \A i \in 1 .. Len(tmp) : Append(tmp, b)[i] = tmp[i]
        /\ Append(tmp, b)[Len(tmp) + 1] = b
    BY <1>6, <2>1, AppendProperties, LenProperties
  <2>3. DOMAIN Append(tmp, b) = 1 .. Len(tmp) + 1 /\ DOMAIN tmp = 1 .. Len(tmp)
    BY <2>1, <2>2, LenProperties
  <2> QED
    BY <1>1, <2>2, <2>3
<1>8. Types' /\ OneAnswer' /\ RatesInv'
  BY <1>1, <1>2, <1>3, <1>5, <1>7, PullRest DEF RateWaits
<1>9. StagedInv'
  BY <1>1, <1>2 DEF StagedInv, Unchecked, Whole
<1>10. TransferInv'
  <2>1. /\ upd.writeOpen /\ upd.status # "DISABLED" /\ Moved(answer.tr)
        /\ \A j \in DOMAIN tmp : tmp[j].tr = answer.tr
    BY <1>1 DEF TransferInv
  <2>2. \A i \in DOMAIN tmp' : tmp'[i].tr = answer.tr
    BY <1>6, <1>7, <2>1
  <2>3. OneTransfer'
    BY <2>2 DEF OneTransfer
  <2>4. Told' <=> Told
    BY <1>1, <1>5 DEF Told, First
  <2>5. (\A i \in DOMAIN tmp : Moved(tmp[i].tr))'
    BY <1>1, <2>1, <2>2, <2>4 DEF Moved
  <2>6. Alien' => ~(cp'.blk > 0)
    BY <1>1, <2>1, <2>2 DEF Alien, Moved
  <2> QED
    BY <1>2, <1>5, <2>1, <2>3, <2>5, <2>6 DEF TransferInv
<1> QED
  BY <1>4, <1>8, <1>9, <1>10

LEMMA AckStep ==
  ASSUME DownloadInv, AckDone /\ pc' = "idle"
  PROVE  DownloadInv'
<1> USE DEF DownloadInv
<1>1. /\ UNCHANGED <<cp, baud, blind, rx, staged, tmp, upd>> /\ pc = "ack" /\ net = "tail" /\ answer.a = "OK"
      /\ Return("idle")
  <2>1. ~Abort(upd)
    BY DEF Abort, Send
  <2> QED
    BY <2>1 DEF AckDone, Answered, hist
<1>2. pc' = "idle" /\ net' = "none"
  BY <1>1 DEF Return
<1>3. Places' /\ cmd' \in Command /\ answer' \in Results
  <2>1. Turned
    BY <1>1 DEF Turned, Rests
  <2> QED
    BY <2>1, Placed
<1>4. Types' /\ OneAnswer' /\ RatesInv'
  BY <1>1, <1>2, <1>3, PullRest DEF RateWaits, Types
<1>5. StagedInv'
  BY <1>1, <1>2 DEF StagedInv, Unchecked, Whole
<1>6. TransferInv'
  <2>1. OneTransfer' /\ (Alien' <=> Alien)
    BY <1>1 DEF TransferInv, OneTransfer, Alien
  <2>2. upd'.writeOpen /\ Alien' /\ cp'.blk > 0 => upd'.ended
    BY <1>1, <2>1 DEF TransferInv
  <2> QED
    BY <1>1, <1>2, <2>1, <2>2 DEF TransferInv
<1> QED
  BY <1>3, <1>4, <1>5, <1>6

\* hearthApply() with the bundle that is staged.
LEMMA ApplyStep ==
  ASSUME DownloadInv, Apply
  PROVE  DownloadInv'
<1> USE DEF DownloadInv
<1>1. /\ pc = "apply" /\ UNCHANGED <<tmp, blind>> /\ rx' = <<>> /\ baud' = Default /\ Return("idle")
      /\ cp' = [Rebooted(cp) EXCEPT !.on = TRUE] /\ staged' \in {staged, NoFile}
      /\ \E s \in {"IDLE", "FAILED"} :
           upd' = [upd EXCEPT !.apply = FALSE, !.verdict = FALSE, !.status = s, !.ready = FALSE]
  BY DEF Apply, Applies, hist
<1>2. pc' = "idle" /\ net' = "none" /\ net = "none"
  BY <1>1 DEF Return, Places, Rests
<1>3. Places' /\ cmd' \in Command /\ answer' \in Results
  <2>1. Turned
    BY <1>1 DEF Turned, Rests
  <2> QED
    BY <2>1, Placed
<1>4. cp' \in Coproc /\ cp'.tr = cp.tr /\ cp'.blk = cp.blk /\ cp'.baud = Default
  BY <1>1 DEF Types, Rebooted, Coproc, Phases
<1>5. /\ upd' \in Fields /\ upd'.pending = upd.pending /\ upd'.ended = upd.ended /\ upd'.seq = upd.seq
      /\ upd'.writeOpen = upd.writeOpen
  BY <1>1 DEF Types, Fields
<1>6. Types' /\ OneAnswer'
  BY <1>1, <1>3, <1>4, <1>5, EmptySeq DEF Types, OneAnswer
<1>7. RatesInv'
  BY <1>1, <1>2, <1>4 DEF RatesInv, Switched, RateWaits
<1>8. StagedInv'
  BY <1>1, <1>2 DEF StagedInv, Unchecked, Whole, NoFile
<1>9. TransferInv'
  <2>1. OneTransfer' /\ (Alien' <=> Alien)
    BY <1>1, <1>4 DEF TransferInv, OneTransfer, Alien
  <2>2. upd'.writeOpen /\ Alien' /\ cp'.blk > 0 => upd'.ended
    BY <1>1, <1>4, <1>5, <2>1 DEF TransferInv
  <2> QED
    BY <1>1, <1>2, <1>5, <2>1, <2>2 DEF TransferInv
<1> QED
  BY <1>3, <1>6, <1>7, <1>8, <1>9

---------------------------------------------------------------------------
(* The lines that arrive, and the co-processor's own steps.                *)

LEMMA Taken ==
  ASSUME rx \in Seq(Heard), rx # <<>>, rx' = Tail(rx)
  PROVE  /\ rx' \in Seq(Heard) /\ Head(rx) \in Heard /\ 1 \in DOMAIN rx /\ Head(rx) = rx[1]
         /\ \A i \in DOMAIN rx' : i \in Int /\ i >= 1 /\ i + 1 \in DOMAIN rx /\ rx'[i] = rx[i + 1]
         /\ \A i \in DOMAIN rx : i \in Int /\ i >= 1
         /\ \A i \in DOMAIN rx : i # 1 => i - 1 \in DOMAIN rx' /\ rx'[i - 1] = rx[i]
<1>1. Len(rx) \in Nat /\ Len(rx) >= 1 /\ DOMAIN rx = 1 .. Len(rx)
  BY EmptySeq, LenProperties
<1>2. Tail(rx) \in Seq(Heard) /\ Len(Tail(rx)) = Len(rx) - 1 /\ Head(rx) = rx[1]
  BY HeadTailProperties
<1>3. \A i \in 1 .. Len(rx) - 1 : Tail(rx)[i] = rx[i + 1]
  BY HeadTailProperties
<1>4. DOMAIN Tail(rx) = 1 .. Len(rx) - 1
  BY <1>2, LenProperties
<1>5. rx[1] \in Heard
  BY <1>1, ElementOfSeq
<1>6. \A i \in 1 .. Len(rx) : i # 1 => i - 1 \in 1 .. Len(rx) - 1 /\ rx[(i - 1) + 1] = rx[i]
  BY <1>1
<1>7. \A i \in DOMAIN rx : i # 1 => i - 1 \in DOMAIN rx' /\ rx'[i - 1] = rx[i]
  BY <1>1, <1>3, <1>4, <1>6
<1> QED
  BY <1>1, <1>2, <1>3, <1>4, <1>5, <1>7

LEMMA Joins ==
  ASSUME NEW s \in Seq(Heard), NEW t \in Seq(Heard)
  PROVE  /\ s \o t \in Seq(Heard)
         /\ \A i \in DOMAIN s : i \in DOMAIN (s \o t) /\ (s \o t)[i] = s[i]
         /\ \A i \in DOMAIN (s \o t) : \/ i \in DOMAIN s /\ (s \o t)[i] = s[i]
                                       \/ \E j \in DOMAIN t : (s \o t)[i] = t[j]
<1>1. Len(s) \in Nat /\ Len(t) \in Nat /\ DOMAIN s = 1 .. Len(s) /\ DOMAIN t = 1 .. Len(t)
  BY LenProperties
<1>2. /\ s \o t \in Seq(Heard) /\ Len(s \o t) = Len(s) + Len(t)
      /\ \A i \in 1 .. Len(s) + Len(t) : (s \o t)[i] = IF i <= Len(s) THEN s[i] ELSE t[i - Len(s)]
  BY ConcatProperties
<1>3. DOMAIN (s \o t) = 1 .. Len(s) + Len(t)
  BY <1>2, LenProperties
<1>4. \A i \in DOMAIN (s \o t) : IF i <= Len(s) THEN i \in DOMAIN s ELSE i - Len(s) \in DOMAIN t
  BY <1>1, <1>3
<1>5. \A i \in DOMAIN s : i \in DOMAIN (s \o t) /\ i <= Len(s)
  BY <1>1, <1>3
<1> QED
  BY <1>2, <1>3, <1>4, <1>5

LEMMA Grows ==
  ASSUME NEW s \in Seq(Heard), NEW m \in Heard
  PROVE  /\ Append(s, m) \in Seq(Heard)
         /\ \A i \in DOMAIN s : i \in DOMAIN Append(s, m) /\ Append(s, m)[i] = s[i]
         /\ \A i \in DOMAIN Append(s, m) :
              \/ i \in DOMAIN s /\ Append(s, m)[i] = s[i]
              \/ Append(s, m)[i] = m /\ \A j \in DOMAIN s : j < i
         /\ \A i, j \in DOMAIN Append(s, m) : i \notin DOMAIN s /\ j \notin DOMAIN s => i = j
<1>1. Len(s) \in Nat /\ DOMAIN s = 1 .. Len(s)
  BY LenProperties
<1>2. /\ Append(s, m) \in Seq(Heard) /\ Len(Append(s, m)) = Len(s) + 1
      /\ \A i \in 1 .. Len(s) : Append(s, m)[i] = s[i]
      /\ Append(s, m)[Len(s) + 1] = m
  BY AppendProperties
<1>3. DOMAIN Append(s, m) = 1 .. Len(s) + 1
  BY <1>2, LenProperties
<1> QED
  BY <1>1, <1>2, <1>3

\* The fields a line sets.
LEMMA Lines ==
  ASSUME NEW u \in Fields, NEW l \in Heard, l.k # "answer"
  PROVE  /\ OnLine(u, l) \in Fields
         /\ OnLine(u, l).writeOpen = u.writeOpen
         /\ OnLine(u, l).status = "DISABLED" => u.status = "DISABLED"
         /\ u.ended => OnLine(u, l).ended
         /\ u.status # "DISABLED" /\ u.writeOpen /\ l.k = "BLOCK" /\ l.seq = 0 => OnLine(u, l).ended
         /\ OnLine(u, l).pending /\ OnLine(u, l).seq = 0 =>
              (u.pending /\ u.seq = 0) \/ (u.writeOpen => OnLine(u, l).ended)
<1>1. CASE l.k = "READY"
  BY <1>1 DEF OnLine, Fields
<1>2. CASE l.k # "READY" /\ u.status = "DISABLED"
  <2>1. OnLine(u, l) = u
    BY <1>2 DEF OnLine
  <2> QED
    BY <1>2, <2>1
<1>3. CASE l.k = "BLOCK" /\ u.status # "DISABLED"
  <2>1. OnLine(u, l) = OnBlock(u, l.seq) /\ l.seq \in Int
    BY <1>3 DEF OnLine, Heard, States
  <2> QED
    BY <1>3, <2>1 DEF OnBlock, Fields
<1>4. CASE l.k \in {"IDLE", "AVAILABLE", "DOWNLOADING", "DOWNLOADED"} /\ u.status # "DISABLED"
  BY <1>4, ZenonT(30) DEF OnLine, Fields
<1>5. CASE l.k \in {"DEFERRED", "DISCONTINUED", "ERROR"} /\ u.status # "DISABLED"
  BY <1>5, ZenonT(30) DEF OnLine, Fields
<1>6. CASE l.k = "APPLY" /\ u.status # "DISABLED"
  <2>1. OnLine(u, l) \in {u, [u EXCEPT !.status = "APPLYING", !.apply = TRUE]}
    BY <1>6 DEF OnLine, OnApply
  <2> QED
    BY <1>6, <2>1 DEF Fields
<1> QED
  BY <1>1, <1>2, <1>3, <1>4, <1>5, <1>6 DEF Heard, States

LEMMA DispatchStep ==
  ASSUME DownloadInv, Dispatch
  PROVE  DownloadInv'
<1> USE DEF DownloadInv
<1>1. /\ rx # <<>> /\ rx' = Tail(rx) /\ Head(rx).k # "answer" /\ upd' = OnLine(upd, Head(rx))
      /\ UNCHANGED <<cp, baud, tmp, staged, pc, cmd, net, answer, blind>> /\ pc # "work"
  BY DEF Dispatch, hist, Places, Rests
<1>2. /\ rx' \in Seq(Heard) /\ Head(rx) \in Heard /\ 1 \in DOMAIN rx /\ Head(rx) = rx[1]
      /\ \A i \in DOMAIN rx' : i \in Int /\ i >= 1 /\ i + 1 \in DOMAIN rx /\ rx'[i] = rx[i + 1]
      /\ \A i \in DOMAIN rx : i \in Int /\ i >= 1
      /\ \A i \in DOMAIN rx : i # 1 => i - 1 \in DOMAIN rx' /\ rx'[i - 1] = rx[i]
  BY <1>1, Taken DEF Types
<1>3. /\ upd' \in Fields /\ upd'.writeOpen = upd.writeOpen
      /\ upd'.status = "DISABLED" => upd.status = "DISABLED"
      /\ upd.ended => upd'.ended
      /\ upd.status # "DISABLED" /\ upd.writeOpen /\ First(1) => upd'.ended
      /\ upd'.pending /\ upd'.seq = 0 => (upd.pending /\ upd.seq = 0) \/ (upd.writeOpen => upd'.ended)
  BY <1>1, <1>2, Lines DEF Types, First
<1>4. \A i \in DOMAIN rx' : IsAnswer(i)' => IsAnswer(i + 1)
  BY <1>2 DEF IsAnswer
<1>5. Types' /\ Places' /\ StagedInv'
  BY <1>1, <1>2, <1>3 DEF Types, Places, StagedInv, Whole
<1>6. OneAnswer'
  BY <1>1, <1>2, <1>4 DEF OneAnswer
<1>7. RatesInv'
  BY <1>1, <1>2, <1>4 DEF RatesInv, Switched
<1>8. TransferInv'
  <2>1. OneTransfer' /\ (Alien' <=> Alien) /\ (upd'.status # "DISABLED" \/ upd.status = "DISABLED")
    BY <1>1, <1>3 DEF TransferInv, OneTransfer, Alien
  <2>2. upd.writeOpen /\ upd.status # "DISABLED" /\ Told => Told'
    <3>1. SUFFICES ASSUME upd.writeOpen, upd.status # "DISABLED", NEW i \in DOMAIN rx, First(i), ~upd'.ended
                   PROVE  \E j \in DOMAIN rx' : First(j)'
      BY <1>3 DEF Told
    <3>2. i # 1
      BY <1>3, <3>1
    <3> QED
      BY <1>2, <3>1, <3>2 DEF First
  <2>3. upd.writeOpen /\ upd.status # "DISABLED" /\ ToldFirst => ToldFirst'
    <3>1. SUFFICES ASSUME upd.writeOpen, upd.status # "DISABLED", ~upd'.ended,
                          NEW i \in DOMAIN rx, First(i), \A j \in DOMAIN rx : IsAnswer(j) => i < j
                   PROVE  \E k \in DOMAIN rx' : First(k)' /\ \A j \in DOMAIN rx' : IsAnswer(j)' => k < j
      BY <1>3 DEF ToldFirst
    <3>2. i # 1
      BY <1>3, <3>1
    <3>3. i - 1 \in DOMAIN rx' /\ First(i - 1)'
      BY <1>2, <3>2, <3>1 DEF First
    <3>4. \A j \in DOMAIN rx' : IsAnswer(j)' => i - 1 < j
      <4>1. SUFFICES ASSUME NEW j \in DOMAIN rx', IsAnswer(j)'  PROVE i - 1 < j
        OBVIOUS
      <4>2. i < j + 1
        BY <1>2, <1>4, <3>1, <4>1
      <4> QED
        BY <1>2, <3>3, <4>1, <4>2
    <3> QED
      BY <3>3, <3>4
  <2>4. \A t : upd.writeOpen /\ upd.status # "DISABLED" /\ Moved(t) =>
                 (t # cp'.tr => cp'.blk = 0 /\ (cp'.phase = "block" /\ cp'.baud = baud' => Told'))
    BY <1>1, <2>2 DEF Moved
  <2>5. pc \in {"get", "ack"} => upd.writeOpen /\ upd.status # "DISABLED"
    BY DEF TransferInv
  <2>6. upd'.writeOpen /\ upd'.pending /\ upd'.seq = 0 /\ tmp' # <<>> => upd'.ended
    BY <1>1, <1>3 DEF TransferInv
  <2>7. pc' = "get" => /\ cmd'.arg = 0 => tmp' = <<>>
                       /\ Alien' => cp'.blk = 0
    BY <1>1, <2>1 DEF TransferInv
  <2>8. (pc = "get" /\ net = "tail" /\ answer.a = "block" =>
           Moved(answer.tr) /\ \A j \in DOMAIN tmp : tmp[j].tr = answer.tr)'
    BY <1>1, <2>4, <2>5 DEF TransferInv, Moved
  <2>9. (pc = "get" => \A i \in DOMAIN rx : IsAnswer(i) /\ rx[i].answer.a = "block" =>
           Moved(rx[i].answer.tr) /\ \A j \in DOMAIN tmp : tmp[j].tr = rx[i].answer.tr)'
    <3>1. SUFFICES ASSUME pc = "get", NEW i \in DOMAIN rx', IsAnswer(i)', rx'[i].answer.a = "block"
                   PROVE  /\ (Moved(rx[i].answer.tr))'
                          /\ \A j \in DOMAIN tmp : tmp[j].tr = rx'[i].answer.tr
      BY <1>1
    <3>2. i + 1 \in DOMAIN rx /\ IsAnswer(i + 1) /\ rx'[i] = rx[i + 1]
      BY <1>2, <1>4, <3>1
    <3>3. Moved(rx[i + 1].answer.tr) /\ \A j \in DOMAIN tmp : tmp[j].tr = rx[i + 1].answer.tr
      BY <3>1, <3>2 DEF TransferInv
    <3> QED
      BY <2>4, <2>5, <3>1, <3>2, <3>3 DEF Moved
  <2>10. (pc = "ack" /\ net = "sent" => \A i \in DOMAIN tmp : Moved(tmp[i].tr))'
    BY <1>1, <2>4, <2>5 DEF TransferInv, Moved
  <2>11. upd'.writeOpen /\ Alien' /\ cp'.blk > 0 =>
           \/ upd'.ended
           \/ /\ pc' = "ack"
              /\ \/ net' = "served" /\ ToldFirst'
                 \/ net' = "lost"
                 \/ net' = "tail" /\ answer'.a # "OK"
    BY <1>1, <1>3, <2>1, <2>3, <2>5 DEF TransferInv
  <2>12. /\ pc' \in {"get", "ack"} => upd'.writeOpen
         /\ pc' \in {"ended", "work", "get", "ack", "rate"} => upd'.status # "DISABLED"
         /\ pc' # "work"
    BY <1>1, <1>3 DEF TransferInv
  <2> QED
    BY <2>1, <2>6, <2>7, <2>8, <2>9, <2>10, <2>11, <2>12 DEF TransferInv
<1> QED
  BY <1>5, <1>6, <1>7, <1>8

LEMMA AnswerRead ==
  ASSUME DownloadInv, ReadAnswer
  PROVE  DownloadInv'
<1> USE DEF DownloadInv
<1>1. /\ rx # <<>> /\ rx' = Tail(rx) /\ Head(rx).k = "answer" /\ answer' = Head(rx).answer
      /\ net = "served" /\ net' = "tail"
      /\ UNCHANGED <<cp, upd, baud, tmp, staged, pc, cmd, blind>>
  BY DEF ReadAnswer, hist
<1>2. /\ rx' \in Seq(Heard) /\ Head(rx) \in Heard /\ 1 \in DOMAIN rx /\ Head(rx) = rx[1]
      /\ \A i \in DOMAIN rx' : i \in Int /\ i >= 1 /\ i + 1 \in DOMAIN rx /\ rx'[i] = rx[i + 1]
      /\ \A i \in DOMAIN rx : i \in Int /\ i >= 1
      /\ \A i \in DOMAIN rx : i # 1 => i - 1 \in DOMAIN rx' /\ rx'[i - 1] = rx[i]
  BY <1>1, Taken DEF Types
<1>3. answer' \in Results /\ IsAnswer(1) /\ answer' = rx[1].answer
  BY <1>1, <1>2 DEF Heard, States, IsAnswer
<1>4. \A i \in DOMAIN rx' : ~IsAnswer(i)'
  <2>1. SUFFICES ASSUME NEW i \in DOMAIN rx', IsAnswer(i)'  PROVE FALSE
    OBVIOUS
  <2>2. IsAnswer(i + 1) /\ i + 1 \in DOMAIN rx /\ i + 1 # 1
    BY <1>2, <2>1 DEF IsAnswer
  <2> QED
    BY <1>2, <1>3, <2>2 DEF OneAnswer
<1>5. Types' /\ Places' /\ StagedInv'
  BY <1>1, <1>2, <1>3 DEF Types, Places, Rests, StagedInv, Whole
<1>6. OneAnswer'
  BY <1>4 DEF OneAnswer
<1>7. RatesInv'
  BY <1>1, <1>2, <1>3, <1>4 DEF RatesInv, Switched
<1>8. TransferInv'
  <2>1. OneTransfer' /\ (Alien' <=> Alien)
    BY <1>1 DEF TransferInv, OneTransfer, Alien
  <2>2. Told => Told'
    <3>1. SUFFICES ASSUME NEW i \in DOMAIN rx, First(i)  PROVE \E j \in DOMAIN rx' : First(j)'
      BY <1>1 DEF Told
    <3>2. i # 1
      BY <1>3, <3>1 DEF First, IsAnswer
    <3> QED
      BY <1>2, <3>1, <3>2 DEF First
  <2>3. ToldFirst => upd.ended
    BY <1>2, <1>3 DEF ToldFirst
  <2>4. (pc = "get" /\ net = "tail" /\ answer.a = "block" =>
           Moved(answer.tr) /\ \A j \in DOMAIN tmp : tmp[j].tr = answer.tr)'
    <3>1. SUFFICES ASSUME pc = "get", rx[1].answer.a = "block"
                   PROVE  (Moved(answer.tr) /\ \A j \in DOMAIN tmp : tmp[j].tr = answer.tr)'
      BY <1>1, <1>3
    <3>2. Moved(rx[1].answer.tr) /\ \A j \in DOMAIN tmp : tmp[j].tr = rx[1].answer.tr
      BY <1>2, <1>3, <3>1 DEF TransferInv
    <3> QED
      BY <1>1, <1>3, <2>2, <3>2 DEF Moved
  <2>5. upd'.writeOpen /\ Alien' /\ cp'.blk > 0 => upd'.ended
    BY <1>1, <2>1, <2>3 DEF TransferInv
  <2>6. /\ pc' \in {"get", "ack"} => upd'.writeOpen
        /\ pc' \in {"ended", "work", "get", "ack", "rate"} => upd'.status # "DISABLED"
        /\ pc' = "work" => ~upd'.ended
        /\ upd'.writeOpen /\ upd'.pending /\ upd'.seq = 0 /\ tmp' # <<>> => upd'.ended
        /\ pc' = "get" => /\ cmd'.arg = 0 => tmp' = <<>>
                          /\ Alien' => cp'.blk = 0
    BY <1>1, <2>1 DEF TransferInv
  <2> QED
    BY <1>1, <1>4, <2>1, <2>4, <2>5, <2>6 DEF TransferInv
<1> QED
  BY <1>5, <1>6, <1>7, <1>8

LEMMA TimedOut ==
  ASSUME DownloadInv, Unanswered
  PROVE  DownloadInv'
<1> USE DEF DownloadInv
<1>1. /\ net = "lost" /\ net' = "tail" /\ answer' = NoAnswer
      /\ UNCHANGED <<cp, rx, upd, baud, tmp, staged, pc, cmd, blind>>
  BY DEF Unanswered, hist
<1>2. answer' \in Results /\ answer'.a = "none"
  BY <1>1 DEF NoAnswer, Ok, Results
<1>3. Types' /\ Places' /\ StagedInv'
  BY <1>1, <1>2 DEF Types, Places, Rests, StagedInv, Whole
<1>4. OneAnswer' /\ \A i \in DOMAIN rx' : ~IsAnswer(i)'
  BY <1>1 DEF OneAnswer, IsAnswer
<1>5. RatesInv'
  BY <1>1, <1>4 DEF RatesInv, Switched
<1>6. TransferInv'
  <2>1. OneTransfer' /\ (Alien' <=> Alien)
    BY <1>1 DEF TransferInv, OneTransfer, Alien
  <2> QED
    BY <1>1, <1>2, <1>4, <2>1 DEF TransferInv
<1> QED
  BY <1>3, <1>4, <1>5, <1>6

\* A co-processor that goes on, with lines of its own.
Emits ==
  /\ UNCHANGED <<host, blind>> /\ cp' \in Coproc /\ cp'.baud = cp.baud
  /\ \/ rx' = rx
     \/ \E t \in Seq(Heard) : rx' = rx \o t /\ \A i \in DOMAIN t : t[i].k # "answer"
  /\ \/ cp'.tr = cp.tr /\ cp'.blk = cp.blk
     \/ cp'.blk = 0
  /\ cp'.phase = "block" => /\ cp'.tr = cp.tr /\ cp'.blk = cp.blk
                            /\ \/ cp.phase = "block"
                               \/ cp.baud = baud => rx' = rx \o <<[k |-> "BLOCK", seq |-> cp.blk]>>

LEMMA EmitsStep == DownloadInv /\ Emits => DownloadInv'
<1> SUFFICES ASSUME DownloadInv, Emits  PROVE DownloadInv'
  OBVIOUS
<1> USE DEF DownloadInv
<1>1. UNCHANGED <<upd, baud, tmp, staged, pc, cmd, net, answer, blind>> /\ cp' \in Coproc /\ cp'.baud = cp.baud
  BY DEF Emits, host
<1>2. /\ rx' \in Seq(Heard)
      /\ \A i \in DOMAIN rx : i \in DOMAIN rx' /\ rx'[i] = rx[i]
      /\ \A i \in DOMAIN rx' : (i \in DOMAIN rx /\ rx'[i] = rx[i]) \/ rx'[i].k # "answer"
  <2>1. CASE rx' = rx
    BY <2>1 DEF Types
  <2>2. CASE \E t \in Seq(Heard) : rx' = rx \o t /\ \A i \in DOMAIN t : t[i].k # "answer"
    <3>1. PICK t \in Seq(Heard) : rx' = rx \o t /\ \A i \in DOMAIN t : t[i].k # "answer"
      BY <2>2
    <3>2. rx \in Seq(Heard)
      BY DEF Types
    <3> QED
      BY <3>1, <3>2, Joins
  <2> QED
    BY <2>1, <2>2 DEF Emits
<1>3. \A i \in DOMAIN rx' : IsAnswer(i)' => i \in DOMAIN rx /\ IsAnswer(i) /\ rx'[i] = rx[i]
  BY <1>2 DEF IsAnswer
<1>4. Types' /\ Places' /\ StagedInv'
  BY <1>1, <1>2 DEF Types, Places, StagedInv, Whole
<1>5. OneAnswer'
  BY <1>1, <1>3 DEF OneAnswer
<1>6. RatesInv'
  BY <1>1, <1>3 DEF RatesInv, Switched
<1>7. TransferInv'
  <2>1. Told => Told'
    BY <1>1, <1>2 DEF Told, First
  <2>2. ToldFirst => ToldFirst'
    BY <1>1, <1>2, <1>3 DEF ToldFirst, First
  <2>3. cp.blk \in Nat /\ cp'.blk \in Nat
    BY <1>1 DEF Types, Coproc
  <2>4. cp'.blk > 0 => cp'.tr = cp.tr /\ cp'.blk = cp.blk
    BY <2>3 DEF Emits
  <2>5. Alien' /\ cp'.blk > 0 => Alien /\ cp.blk > 0
    BY <1>1, <2>4 DEF Alien
  <2>6. cp'.phase = "block" /\ cp'.blk = 0 /\ cp'.baud = baud' => Told' \/ cp.phase = "block"
    <3>1. SUFFICES ASSUME cp'.phase = "block", cp'.blk = 0, cp.baud = baud, cp.phase # "block"  PROVE Told'
      BY <1>1
    <3>2. rx' = rx \o <<[k |-> "BLOCK", seq |-> 0]>>
      BY <3>1 DEF Emits
    <3>3. /\ rx \in Seq(Heard) /\ <<[k |-> "BLOCK", seq |-> 0]>> \in Seq(Heard)
          /\ Len(<<[k |-> "BLOCK", seq |-> 0]>>) = 1
          /\ <<[k |-> "BLOCK", seq |-> 0]>>[1] = [k |-> "BLOCK", seq |-> 0]
      BY DEF Types, Heard
    <3>4. Len(rx) + 1 \in DOMAIN rx' /\ rx'[Len(rx) + 1] = [k |-> "BLOCK", seq |-> 0]
      <4> DEFINE m == <<[k |-> "BLOCK", seq |-> 0]>>
      <4>1. m \in Seq(Heard) /\ Len(m) = 1 /\ m[1] = [k |-> "BLOCK", seq |-> 0] /\ rx' = rx \o m /\ rx \in Seq(Heard)
        BY <3>2, <3>3
      <4> HIDE DEF m
      <4>2. /\ rx \o m \in Seq(Heard) /\ Len(rx \o m) = Len(rx) + 1 /\ Len(rx) \in Nat
            /\ \A i \in 1 .. Len(rx) + 1 : (rx \o m)[i] = IF i <= Len(rx) THEN rx[i] ELSE m[i - Len(rx)]
        BY <4>1, ConcatProperties, LenProperties
      <4>3. DOMAIN (rx \o m) = 1 .. Len(rx) + 1
        BY <4>2, LenProperties
      <4>4. Len(rx) + 1 \in 1 .. Len(rx) + 1 /\ ~(Len(rx) + 1 <= Len(rx)) /\ (Len(rx) + 1) - Len(rx) = 1
        BY <4>2
      <4> QED
        BY <4>1, <4>2, <4>3, <4>4
    <3> QED
      BY <3>4 DEF Told, First
  <2>7. \A t : Moved(t) => (t # cp'.tr => cp'.blk = 0 /\ (cp'.phase = "block" /\ cp'.baud = baud' => Told'))
    <3>1. SUFFICES ASSUME NEW t, Moved(t), t # cp'.tr
                   PROVE  cp'.blk = 0 /\ (cp'.phase = "block" /\ cp'.baud = baud' => Told')
      OBVIOUS
    <3>2. cp'.blk = 0
      BY <2>3, <2>4, <3>1 DEF Moved
    <3>3. cp'.phase = "block" => cp'.tr = cp.tr
      BY DEF Emits
    <3> QED
      BY <1>1, <2>1, <2>6, <3>1, <3>2, <3>3 DEF Moved
  <2>8. OneTransfer'
    BY <1>1 DEF TransferInv, OneTransfer
  <2>9. /\ pc' \in {"get", "ack"} => upd'.writeOpen
        /\ pc' \in {"ended", "work", "get", "ack", "rate"} => upd'.status # "DISABLED"
        /\ pc' = "work" => ~upd'.ended
        /\ upd'.writeOpen /\ upd'.pending /\ upd'.seq = 0 /\ tmp' # <<>> => upd'.ended
        /\ pc' = "get" => (cmd'.arg = 0 => tmp' = <<>>)
    BY <1>1 DEF TransferInv
  <2>10. pc' = "get" => (Alien' => cp'.blk = 0)
    BY <1>1, <2>3, <2>5 DEF TransferInv
  <2>11. (pc = "get" /\ net = "tail" /\ answer.a = "block" =>
           Moved(answer.tr) /\ \A j \in DOMAIN tmp : tmp[j].tr = answer.tr)'
    BY <1>1, <2>7 DEF TransferInv, Moved
  <2>12. (pc = "get" => \A i \in DOMAIN rx : IsAnswer(i) /\ rx[i].answer.a = "block" =>
           Moved(rx[i].answer.tr) /\ \A j \in DOMAIN tmp : tmp[j].tr = rx[i].answer.tr)'
    <3>1. SUFFICES ASSUME pc = "get", NEW i \in DOMAIN rx', IsAnswer(i)', rx'[i].answer.a = "block"
                   PROVE  /\ (Moved(rx[i].answer.tr))'
                          /\ \A j \in DOMAIN tmp : tmp[j].tr = rx'[i].answer.tr
      BY <1>1
    <3>2. i \in DOMAIN rx /\ IsAnswer(i) /\ rx'[i] = rx[i]
      BY <1>3, <3>1
    <3>3. Moved(rx[i].answer.tr) /\ \A j \in DOMAIN tmp : tmp[j].tr = rx[i].answer.tr
      BY <3>1, <3>2 DEF TransferInv
    <3> QED
      BY <2>7, <3>1, <3>2, <3>3 DEF Moved
  <2>13. (pc = "ack" /\ net = "sent" => \A i \in DOMAIN tmp : Moved(tmp[i].tr))'
    BY <1>1, <2>7 DEF TransferInv, Moved
  <2>14. upd'.writeOpen /\ Alien' /\ cp'.blk > 0 =>
           \/ upd'.ended
           \/ /\ pc' = "ack"
              /\ \/ net' = "served" /\ ToldFirst'
                 \/ net' = "lost"
                 \/ net' = "tail" /\ answer'.a # "OK"
    BY <1>1, <2>2, <2>5 DEF TransferInv
  <2> QED
    BY <2>8, <2>9, <2>10, <2>11, <2>12, <2>13, <2>14 DEF TransferInv
<1> QED
  BY <1>4, <1>5, <1>6, <1>7

LEMMA CoprocEmits ==
  ASSUME DownloadInv, Offer \/ Announce \/ Request \/ Drop \/ Commission
  PROVE  Emits
<1> USE DEF Emit, State
<1>1. UNCHANGED <<host, blind>>
  BY DEF Offer, Announce, Request, Drop, Commission, cpRest
<1>2. cp \in Coproc /\ cp.blk \in Nat /\ Blocks \in Nat
  BY DownloadAssumption DEF DownloadInv, Types, Coproc, DownloadAssumption
<1>3. \A s \in States : <<[k |-> s]>> \in Seq(Heard) /\ \A i \in DOMAIN <<[k |-> s]>> : <<[k |-> s]>>[i].k # "answer"
  BY DEF Heard, States
<1>4. \A r, s \in States : <<[k |-> r], [k |-> s]>> \in Seq(Heard)
                           /\ \A i \in DOMAIN <<[k |-> r], [k |-> s]>> : <<[k |-> r], [k |-> s]>>[i].k # "answer"
  BY DEF Heard, States
<1>5. \A n \in Nat : /\ <<[k |-> "BLOCK", seq |-> n]>> \in Seq(Heard)
                     /\ \A i \in DOMAIN <<[k |-> "BLOCK", seq |-> n]>> : <<[k |-> "BLOCK", seq |-> n]>>[i].k # "answer"
  BY DEF Heard
<1>6. "AVAILABLE" \in States /\ "DOWNLOADING" \in States /\ "DOWNLOADED" \in States /\ "APPLY" \in States
      /\ "DEFERRED" \in States /\ "DISCONTINUED" \in States /\ "ERROR" \in States /\ "IDLE" \in States
  BY DEF States
<1>7. CASE Offer
  <2>1. cp' \in Coproc /\ cp'.baud = cp.baud /\ cp'.blk = 0 /\ cp'.phase = "down"
    <3>1. cp' = [cp EXCEPT !.tr = cp.tr + 1, !.phase = "down", !.blk = 0, !.deferred = FALSE]
      BY <1>7 DEF Offer
    <3>2. cp.tr + 1 \in Int
      BY <1>2 DEF Coproc
    <3> QED
      BY <1>2, <3>1, <3>2 DEF Coproc, Phases
  <2>2. \/ rx' = rx
        \/ \E t \in Seq(Heard) : rx' = rx \o t /\ \A i \in DOMAIN t : t[i].k # "answer"
    BY <1>4, <1>6, <1>7 DEF Offer
  <2> QED
    BY <1>1, <2>1, <2>2 DEF Emits
<1>8. CASE Announce
  <2>1. cp' \in Coproc /\ cp'.baud = cp.baud /\ cp'.blk = cp.blk /\ cp'.tr = cp.tr
    BY <1>2, <1>8 DEF Announce, Coproc, Phases
  <2>2. cp'.phase = "block" /\ cp.baud = baud => rx' = rx \o <<[k |-> "BLOCK", seq |-> cp.blk]>>
    BY <1>2, <1>8 DEF Announce, Coproc
  <2>3. \/ rx' = rx
        \/ \E t \in Seq(Heard) : rx' = rx \o t /\ \A i \in DOMAIN t : t[i].k # "answer"
    BY <1>2, <1>3, <1>5, <1>6, <1>8 DEF Announce
  <2> QED
    BY <1>1, <2>1, <2>2, <2>3 DEF Emits
<1>9. CASE Request \/ Drop
  <2>1. cp' \in Coproc /\ cp'.baud = cp.baud /\ cp'.blk = cp.blk /\ cp'.tr = cp.tr /\ cp'.phase # "block"
    BY <1>2, <1>9 DEF Request, Drop, Coproc, Phases
  <2>2. \/ rx' = rx
        \/ \E t \in Seq(Heard) : rx' = rx \o t /\ \A i \in DOMAIN t : t[i].k # "answer"
    BY <1>3, <1>4, <1>6, <1>9 DEF Request, Drop
  <2> QED
    BY <1>1, <2>1, <2>2 DEF Emits
<1>10. CASE Commission
  <2>1. cp' \in Coproc /\ cp'.baud = cp.baud /\ cp'.blk = cp.blk /\ cp'.tr = cp.tr /\ cp'.phase = cp.phase /\ rx' = rx
    BY <1>2, <1>10 DEF Commission, Coproc
  <2> QED
    BY <1>1, <2>1 DEF Emits
<1> QED
  BY <1>7, <1>8, <1>9, <1>10

\* What a command does to the co-processor, and what is answered.
LEMMA Served ==
  ASSUME DownloadInv, NEW c, NEW x, c = Serves(cp)[1], x = Serves(cp)[2], net = "sent"
  PROVE  /\ c \in Coproc /\ x \in Results /\ c.tr = cp.tr
         /\ cmd.op = "BAUD" => c.baud = cmd.arg /\ x.a = "OK"
         /\ cmd.op # "BAUD" => c.baud = cp.baud
         /\ cmd.op = "GET" => c = cp /\ (x.a = "block" => x.tr = cp.tr /\ cp.blk = cmd.arg)
         /\ cmd.op = "ACK" => c = cp \/ (cp.phase = "block" /\ cp.blk = cmd.arg)
         /\ cmd.op # "ACK" => c.blk = cp.blk
<1>1. cp \in Coproc /\ cp.blk \in Nat /\ cp.tr \in Int /\ cmd \in Command
  BY DEF DownloadInv, Types, Coproc
<1>2. /\ Ok \in Results /\ MtErr \in Results /\ \A t, b \in Int : Block(t, b) \in Results
      /\ Ok.a = "OK" /\ MtErr.a = "MTERR" /\ \A t, b \in Int : Block(t, b).a = "block" /\ Block(t, b).tr = t
  BY DEF Ok, MtErr, Block, Results
<1>3. \A a, b : <<a, b>>[1] = a /\ <<a, b>>[2] = b
  OBVIOUS
<1>4. CASE cmd.op = "GET"
  <2>1. \/ cp.blk = cmd.arg /\ c = cp /\ x = Block(cp.tr, cp.blk)
        \/ c = cp /\ x = MtErr
    BY <1>3, <1>4 DEF Serves
  <2> QED
    BY <1>1, <1>2, <1>4, <2>1
<1>5. CASE cmd.op = "ACK"
  <2>1. \/ cp.phase = "block" /\ cp.blk = cmd.arg /\ c = [cp EXCEPT !.phase = "down", !.blk = cp.blk + 1] /\ x = Ok
        \/ c = cp /\ x = MtErr
    BY <1>3, <1>5 DEF Serves
  <2>2. cp.blk + 1 \in Nat
    BY <1>1
  <2>3. "down" \in Phases
    BY DEF Phases
  <2>4. c \in Coproc /\ c.tr = cp.tr /\ c.baud = cp.baud
    BY <1>1, <2>1, <2>2, <2>3, ZenonT(30) DEF Coproc
  <2> QED
    BY <1>2, <1>5, <2>1, <2>4
<1>6. CASE cmd.op = "STAGED"
  <2>1. /\ c \in {cp, [cp EXCEPT !.phase = "accepted"], [cp EXCEPT !.phase = "idle"]}
        /\ x \in {Ok, MtErr}
    BY <1>3, <1>6 DEF Serves
  <2> QED
    BY <1>1, <1>2, <1>6, <2>1 DEF Coproc, Phases
<1>7. CASE cmd.op = "OTA"
  <2>1. /\ c \in {cp, [cp EXCEPT !.on = FALSE, !.phase = "idle"], [cp EXCEPT !.on = TRUE]}
        /\ x \in {Ok, MtErr}
    BY <1>3, <1>7 DEF Serves
  <2> QED
    BY <1>1, <1>2, <1>7, <2>1, ZenonT(30) DEF Coproc, Phases
<1>8. CASE cmd.op = "BAUD"
  <2>1. c = [cp EXCEPT !.baud = cmd.arg] /\ x = Ok
    BY <1>3, <1>8 DEF Serves
  <2>2. cmd.arg \in {Default, Download}
    BY <1>8 DEF DownloadInv, Places, Rests
  <2> QED
    BY <1>1, <1>2, <1>8, <2>1, <2>2 DEF Coproc
<1>9. CASE cmd.op \in {"SWVER", "QUERY"}
  <2>1. c = cp /\ x = Ok
    BY <1>3, <1>9 DEF Serves
  <2> QED
    BY <1>1, <1>2, <1>9, <2>1
<1> QED
  BY <1>1, <1>4, <1>5, <1>6, <1>7, <1>8, <1>9 DEF Command, Ops

LEMMA ServeStep ==
  ASSUME DownloadInv, Serve
  PROVE  DownloadInv'
<1> USE DEF DownloadInv
<1>1. PICK x : /\ x = Serves(cp)[2] \/ (x = Garbled /\ (Serves(cp)[2].a = "block" \/ cmd.op = "QUERY"))
               /\ rx' = Append(rx, Answer(x))
  BY DEF Serve
<1>2. /\ net = "sent" /\ net' = "served" /\ cp.baud = baud /\ cp' = Serves(cp)[1]
      /\ UNCHANGED <<upd, baud, tmp, staged, pc, cmd, answer, blind>>
  BY DEF Serve, hist
<1>3. /\ cp' \in Coproc /\ cp'.tr = cp.tr
      /\ cmd.op = "BAUD" => cp'.baud = cmd.arg /\ Serves(cp)[2].a = "OK"
      /\ cmd.op # "BAUD" => cp'.baud = cp.baud
      /\ cmd.op = "GET" => cp' = cp
      /\ cmd.op = "ACK" => cp' = cp \/ (cp.phase = "block" /\ cp.blk = cmd.arg)
      /\ cmd.op # "ACK" => cp'.blk = cp.blk
      /\ Serves(cp)[2] \in Results
      /\ cmd.op = "GET" /\ Serves(cp)[2].a = "block" => Serves(cp)[2].tr = cp.tr /\ cp.blk = cmd.arg
  BY <1>2, Served
<1>4. /\ x \in Results
      /\ cmd.op = "BAUD" => x.a = "OK"
      /\ cmd.op = "GET" /\ x.a = "block" => x.tr = cp.tr /\ cp.blk = cmd.arg
  <2>1. Garbled \in Results /\ Garbled.a = "garbled"
    BY DEF Garbled, Ok, Results
  <2> QED
    BY <1>1, <1>3, <2>1
<1>5. Answer(x) \in Heard /\ Answer(x).k = "answer" /\ Answer(x).answer = x
  BY <1>4 DEF Answer, Heard
<1>6. /\ rx' \in Seq(Heard)
      /\ \A i \in DOMAIN rx : i \in DOMAIN rx' /\ rx'[i] = rx[i]
      /\ \A i \in DOMAIN rx' : \/ i \in DOMAIN rx /\ rx'[i] = rx[i]
                               \/ rx'[i] = Answer(x) /\ \A j \in DOMAIN rx : j < i
      /\ \A i, j \in DOMAIN rx' : i \notin DOMAIN rx /\ j \notin DOMAIN rx => i = j
  BY <1>1, <1>5, Grows DEF Types
<1>7. \A i \in DOMAIN rx' : IsAnswer(i)' => rx'[i] = Answer(x) /\ i \notin DOMAIN rx /\ \A j \in DOMAIN rx : j < i
  <2>1. \A i \in DOMAIN rx : rx[i].k # "answer"
    BY <1>2 DEF OneAnswer, IsAnswer
  <2>2. \A i \in DOMAIN rx : i \in DOMAIN rx' /\ rx'[i].k # "answer"
    BY <1>6, <2>1
  <2> QED
    BY <1>6, <2>2 DEF IsAnswer
<1>8. Types' /\ Places' /\ StagedInv'
  BY <1>2, <1>3, <1>6 DEF Types, Places, Rests, StagedInv, Whole
<1>9. OneAnswer'
  BY <1>2, <1>6, <1>7 DEF OneAnswer
<1>10. RatesInv'
  <2>1. pc \in RateWaits <=> cmd.op = "BAUD"
    BY <1>2 DEF Places, Rests
  <2>2. pc \in RateWaits => \A i \in DOMAIN rx' : IsAnswer(i)' => rx'[i].answer.a = "OK"
    BY <1>4, <1>5, <1>7, <2>1
  <2> QED
    BY <1>2, <1>3, <2>1, <2>2 DEF RatesInv, Switched
<1>11. TransferInv'
  <2>1. OneTransfer' /\ (Alien' <=> Alien)
    BY <1>2, <1>3 DEF TransferInv, OneTransfer, Alien
  <2>2. pc = "get" <=> cmd.op = "GET"
    BY <1>2 DEF Places, Rests, RateWaits
  <2>3. pc = "ack" <=> cmd.op = "ACK"
    BY <1>2 DEF Places, Rests, RateWaits
  <2>4. cp.blk \in Nat
    BY DEF Types, Coproc
  <2>5. (pc = "get" => \A i \in DOMAIN rx : IsAnswer(i) /\ rx[i].answer.a = "block" =>
           Moved(rx[i].answer.tr) /\ \A j \in DOMAIN tmp : tmp[j].tr = rx[i].answer.tr)'
    <3>1. SUFFICES ASSUME pc = "get", NEW i \in DOMAIN rx', IsAnswer(i)', rx'[i].answer.a = "block"
                   PROVE  /\ (Moved(rx[i].answer.tr))'
                          /\ \A j \in DOMAIN tmp : tmp[j].tr = rx'[i].answer.tr
      BY <1>2
    <3>2. rx'[i].answer = x /\ x.tr = cp.tr /\ cp.blk = cmd.arg /\ cp' = cp
      BY <1>3, <1>4, <1>5, <1>7, <2>2, <3>1
    <3>3. \A j \in DOMAIN tmp : tmp[j].tr = cp.tr
      <4>1. CASE cp.blk = 0
        <5>1. tmp = <<>>
          BY <3>1, <3>2, <4>1 DEF TransferInv
        <5> QED
          BY <5>1
      <4>2. CASE cp.blk # 0
        BY <3>1, <4>2 DEF TransferInv, Alien
      <4> QED
        BY <4>1, <4>2
    <3> QED
      BY <3>2, <3>3 DEF Moved
  <2>6. upd.writeOpen /\ Alien /\ cp'.blk > 0 => upd.ended \/ (pc = "ack" /\ ToldFirst')
    <3>1. SUFFICES ASSUME upd.writeOpen, Alien, cp'.blk > 0, ~upd.ended  PROVE pc = "ack" /\ ToldFirst'
      OBVIOUS
    <3>2. ~(cp.blk > 0)
      BY <1>2, <3>1 DEF TransferInv
    <3>3. pc = "ack" /\ cp.phase = "block"
      BY <1>3, <2>3, <3>1, <3>2
    <3>4. Told
      BY <1>2, <3>1, <3>3 DEF TransferInv, Alien, Moved
    <3>5. PICK i \in DOMAIN rx : First(i)
      BY <3>1, <3>4 DEF Told
    <3> QED
      BY <1>6, <1>7, <3>3, <3>5 DEF ToldFirst, First
  <2>7. /\ pc' \in {"get", "ack"} => upd'.writeOpen
        /\ pc' \in {"ended", "work", "get", "ack", "rate"} => upd'.status # "DISABLED"
        /\ pc' = "work" => ~upd'.ended
        /\ upd'.writeOpen /\ upd'.pending /\ upd'.seq = 0 /\ tmp' # <<>> => upd'.ended
        /\ pc' = "get" => /\ cmd'.arg = 0 => tmp' = <<>>
                          /\ Alien' => cp'.blk = 0
    BY <1>2, <1>3, <2>1, <2>2 DEF TransferInv
  <2> QED
    BY <1>2, <2>1, <2>5, <2>6, <2>7 DEF TransferInv
<1> QED
  BY <1>8, <1>9, <1>10, <1>11

LEMMA LoseStep ==
  ASSUME DownloadInv, Lose
  PROVE  DownloadInv'
<1> USE DEF DownloadInv
<1>1. /\ net = "sent" /\ net' = "lost" /\ UNCHANGED <<rx, upd, baud, tmp, staged, pc, cmd, answer, blind>>
      /\ \/ cp.baud # baud /\ cp' = cp
         \/ cp.baud = baud /\ cmd.op \in Lossy /\ cp' \in {cp, Serves(cp)[1]}
  BY DEF Lose, hist
<1>2. /\ cp' \in Coproc /\ cp'.tr = cp.tr
      /\ cmd.op # "BAUD" => cp'.baud = cp.baud
      /\ cmd.op = "GET" => cp' = cp
      /\ cmd.op # "ACK" => cp'.blk = cp.blk
  BY <1>1, Served DEF Types
<1>3. Types' /\ Places' /\ StagedInv' /\ OneAnswer'
  BY <1>1, <1>2 DEF Types, Places, Rests, StagedInv, Whole, OneAnswer, IsAnswer
<1>4. RatesInv'
  <2>1. pc \in RateWaits <=> cmd.op = "BAUD"
    BY <1>1 DEF Places, Rests
  <2> QED
    BY <1>1, <1>2, <2>1 DEF RatesInv, Switched
<1>5. TransferInv'
  <2>1. OneTransfer' /\ (Alien' <=> Alien) /\ \A i \in DOMAIN rx' : ~IsAnswer(i)'
    BY <1>1, <1>2 DEF TransferInv, OneTransfer, Alien, OneAnswer, IsAnswer
  <2>2. (pc = "get" <=> cmd.op = "GET") /\ (pc = "ack" <=> cmd.op = "ACK")
    BY <1>1 DEF Places, Rests, RateWaits
  <2>3. upd.writeOpen /\ Alien /\ cp'.blk > 0 => upd.ended \/ pc = "ack"
    BY <1>1, <1>2, <2>2 DEF TransferInv
  <2> QED
    BY <1>1, <1>2, <2>1, <2>2, <2>3 DEF TransferInv
<1> QED
  BY <1>3, <1>4, <1>5

LEMMA RebootStep ==
  ASSUME DownloadInv, Reboot
  PROVE  DownloadInv'
<1> USE DEF DownloadInv
<1>1. /\ cp' = Rebooted(cp) /\ rx' \in {rx, Append(rx, State("READY"))}
      /\ net' = (IF net = "sent" THEN "lost" ELSE net)
      /\ UNCHANGED <<upd, baud, tmp, staged, pc, cmd, answer>>
      /\ blind => blind' 
      /\ ~blind' => baud = Default /\ pc = "idle"
  BY DEF Reboot
<1>2. cp' \in Coproc /\ cp'.tr = cp.tr /\ cp'.blk = cp.blk /\ cp'.phase = "idle" /\ cp'.baud = Default
  BY <1>1 DEF Types, Rebooted, Coproc, Phases
<1>3. /\ rx' \in Seq(Heard)
      /\ \A i \in DOMAIN rx : i \in DOMAIN rx' /\ rx'[i] = rx[i]
      /\ \A i \in DOMAIN rx' : (i \in DOMAIN rx /\ rx'[i] = rx[i]) \/ rx'[i].k = "READY"
  <2>1. State("READY") \in Heard /\ State("READY").k = "READY"
    BY DEF State, Heard, States
  <2>2. rx \in Seq(Heard)
    BY DEF Types
  <2>3. /\ Append(rx, State("READY")) \in Seq(Heard)
        /\ \A i \in DOMAIN rx : i \in DOMAIN Append(rx, State("READY")) /\ Append(rx, State("READY"))[i] = rx[i]
        /\ \A i \in DOMAIN Append(rx, State("READY")) :
             \/ i \in DOMAIN rx /\ Append(rx, State("READY"))[i] = rx[i]
             \/ Append(rx, State("READY"))[i] = State("READY")
    BY <2>1, <2>2, Grows
  <2>4. CASE rx' = rx
    BY <2>2, <2>4
  <2>5. CASE rx' = Append(rx, State("READY"))
    BY <2>1, <2>3, <2>5
  <2> QED
    BY <1>1, <2>4, <2>5
<1>4. \A i \in DOMAIN rx' : IsAnswer(i)' => i \in DOMAIN rx /\ IsAnswer(i) /\ rx'[i] = rx[i]
  BY <1>3 DEF IsAnswer
<1>5. Types' /\ Places' /\ StagedInv'
  BY <1>1, <1>2, <1>3 DEF Types, Places, Rests, StagedInv, Whole
<1>6. OneAnswer'
  BY <1>1, <1>4 DEF OneAnswer
<1>7. RatesInv'
  BY <1>1, <1>2 DEF RatesInv, Switched, RateWaits
<1>8. TransferInv'
  <2>1. OneTransfer' /\ (Alien' <=> Alien)
    BY <1>1, <1>2 DEF TransferInv, OneTransfer, Alien
  <2>2. ToldFirst => ToldFirst'
    BY <1>1, <1>3, <1>4 DEF ToldFirst, First
  <2>3. \A t : Moved(t) => (t # cp'.tr => cp'.blk = 0 /\ cp'.phase # "block")
    BY <1>2 DEF Moved
  <2>4. /\ pc' \in {"get", "ack"} => upd'.writeOpen
        /\ pc' \in {"ended", "work", "get", "ack", "rate"} => upd'.status # "DISABLED"
        /\ pc' = "work" => ~upd'.ended
        /\ upd'.writeOpen /\ upd'.pending /\ upd'.seq = 0 /\ tmp' # <<>> => upd'.ended
        /\ pc' = "get" => /\ cmd'.arg = 0 => tmp' = <<>>
                          /\ Alien' => cp'.blk = 0
    BY <1>1, <1>2, <2>1 DEF TransferInv
  <2>5. (pc = "get" /\ net = "tail" /\ answer.a = "block" =>
           Moved(answer.tr) /\ \A j \in DOMAIN tmp : tmp[j].tr = answer.tr)'
    BY <1>1, <2>3 DEF TransferInv, Moved
  <2>6. (pc = "get" => \A i \in DOMAIN rx : IsAnswer(i) /\ rx[i].answer.a = "block" =>
           Moved(rx[i].answer.tr) /\ \A j \in DOMAIN tmp : tmp[j].tr = rx[i].answer.tr)'
    <3>1. SUFFICES ASSUME pc = "get", NEW i \in DOMAIN rx', IsAnswer(i)', rx'[i].answer.a = "block"
                   PROVE  /\ (Moved(rx[i].answer.tr))'
                          /\ \A j \in DOMAIN tmp : tmp[j].tr = rx'[i].answer.tr
      BY <1>1
    <3>2. i \in DOMAIN rx /\ IsAnswer(i) /\ rx'[i] = rx[i]
      BY <1>4, <3>1
    <3>3. Moved(rx[i].answer.tr) /\ \A j \in DOMAIN tmp : tmp[j].tr = rx[i].answer.tr
      BY <3>1, <3>2 DEF TransferInv
    <3> QED
      BY <2>3, <3>2, <3>3 DEF Moved
  <2>7. upd'.writeOpen /\ Alien' /\ cp'.blk > 0 =>
           \/ upd'.ended
           \/ /\ pc' = "ack"
              /\ \/ net' = "served" /\ ToldFirst'
                 \/ net' = "lost"
                 \/ net' = "tail" /\ answer'.a # "OK"
    BY <1>1, <1>2, <2>1, <2>2 DEF TransferInv
  <2>8. ~(pc' = "ack" /\ net' = "sent")
    BY <1>1
  <2> QED
    BY <2>1, <2>4, <2>5, <2>6, <2>7, <2>8 DEF TransferInv
<1> QED
  BY <1>5, <1>6, <1>7, <1>8

---------------------------------------------------------------------------
LEMMA PullSplits ==
  ASSUME PullStep
  PROVE  \/ AbortRate \/ (Pull /\ pc' = "get") \/ (PullGood /\ pc' = "ack")
         \/ (PullGarbled /\ pc' = "get") \/ (AckDone /\ pc' = "idle")
         \/ (Pull /\ pc' = "abort rate") \/ (PullGood /\ pc' = "abort rate")
         \/ (PullGarbled /\ pc' = "abort rate") \/ PullDropped \/ PullTimedOut
         \/ (AckDone /\ pc' = "abort rate") \/ AbortOff \/ AbortOn
<1>1. Pull => pc' \in {"get", "abort rate"}
  BY DEF Pull, Send, Abort
<1>2. PullGood => pc' \in {"ack", "abort rate"}
  BY DEF PullGood, Send, Abort
<1>3. PullGarbled => pc' \in {"get", "abort rate"}
  BY DEF PullGarbled, Send, Abort, Answered
<1>4. AckDone => pc' \in {"idle", "abort rate"}
  BY DEF AckDone, Send, Return, Abort
<1> QED
  BY <1>1, <1>2, <1>3, <1>4 DEF PullStep

LEMMA DownloadStep == DownloadInv /\ [Next]_vars => DownloadInv'
<1> SUFFICES ASSUME DownloadInv, [Next]_vars  PROVE DownloadInv'
  OBVIOUS
<1>1. CASE SketchStep
  BY <1>1, BeginSteps, PlainStep DEF SketchStep
<1>2. CASE Dispatch \/ ReadAnswer \/ Unanswered
  BY <1>2, DispatchStep, AnswerRead, TimedOut
<1>3. CASE Drain
  <2>1. CASE DrainBegins \/ DeclareDone \/ RequestorDone \/ DrainMode \/ RetryDone
    BY <2>1, DrainSteps, PlainStep
  <2>2. CASE RateDone \/ DrainEnded
    BY <2>2, RateSteps, EndedStep
  <2>3. CASE DrainRest
    BY <2>3, VerdictSteps, PlainStep
  <2>4. CASE BeginDeclared \/ BeginQueried \/ BeginDone
    BY <2>4, BeginSteps, PlainStep
  <2> QED
    BY <1>3, <2>1, <2>2, <2>3, <2>4 DEF Drain
<1>4. CASE PullStep
  <2>1. CASE AbortRate
    BY <2>1, RateSteps
  <2>2. CASE \/ (Pull /\ pc' = "get") \/ (PullGood /\ pc' = "ack")
             \/ (PullGarbled /\ pc' = "get") \/ (AckDone /\ pc' = "idle")
    BY <2>2, PullSteps, GoodStep, GarbledStep, AckStep
  <2>3. CASE \/ (Pull /\ pc' = "abort rate") \/ (PullGood /\ pc' = "abort rate")
             \/ (PullGarbled /\ pc' = "abort rate") \/ PullDropped \/ PullTimedOut
             \/ (AckDone /\ pc' = "abort rate") \/ AbortOff \/ AbortOn
    BY <2>3, AbortSteps, PlainStep
  <2> QED
    BY <1>4, <2>1, <2>2, <2>3, PullSplits
<1>5. CASE VerdictStep
  <2>1. CASE VerifyRate \/ Apply
    BY <2>1, RateSteps, ApplyStep
  <2>2. CASE \/ EndWrite \/ Verify \/ RefuseDone \/ NothingDone \/ Consents \/ Refuses \/ AcceptDone
             \/ AskAgain \/ Abandon \/ AbandonOff \/ AbandonOn \/ DrainRest \/ NoApply
             \/ ApplyNothing \/ ApplyOn
    BY <2>2, VerdictSteps, PlainStep
  <2> QED
    BY <1>5, <2>1, <2>2 DEF VerdictStep
<1>6. CASE CoprocStep
  <2>1. CASE Offer \/ Announce \/ Request \/ Drop \/ Commission
    BY <2>1, CoprocEmits, EmitsStep
  <2>2. CASE Serve \/ Lose \/ Reboot
    BY <2>2, ServeStep, LoseStep, RebootStep
  <2> QED
    BY <1>6, <2>1, <2>2 DEF CoprocStep
<1>7. CASE UNCHANGED vars
  <2>1. UNCHANGED <<cp, rx, upd, baud, tmp, staged, pc, cmd, net, answer, blind>>
    BY <1>7 DEF vars, host, hist
  <2>2. Types' /\ Places' /\ OneAnswer' /\ StagedInv' /\ RatesInv'
    BY <2>1 DEF DownloadInv, Types, Places, OneAnswer, IsAnswer, StagedInv, Whole, RatesInv, Switched
  <2>3. TransferInv'
    BY <2>1 DEF DownloadInv, TransferInv, OneTransfer, Alien, Moved, Told, ToldFirst, First, IsAnswer
  <2> QED
    BY <2>2, <2>3 DEF DownloadInv
<1> QED
  BY <1>1, <1>2, <1>3, <1>4, <1>5, <1>6, <1>7 DEF Next, HostStep

LEMMA DownloadAlways == Spec => []DownloadInv
<1>1. Init => DownloadInv
  BY DownloadInit
<1>2. DownloadInv /\ [Next]_vars => DownloadInv'
  BY DownloadStep
<1> QED
  BY <1>1, <1>2, PTL DEF Spec

\* A staged file never holds blocks of two transfers (I2, hearthOnOtaLine() and
\* hearthPullBlock()), for any number of blocks, of transfers and of faults.
THEOREM DownloadOneTransfer == Spec => []OneTransfer
<1>1. DownloadInv => OneTransfer
  BY DEF DownloadInv, TransferInv
<1> QED
  BY DownloadAlways, <1>1, PTL

\* Between two drains staged.ota is a bundle that passed its checks, or is not
\* there (stagedEndWrite(), hearthVerifyAndVerdict() and hearthRefuse()).
THEOREM DownloadStagedWhole == Spec => []StagedWhole
<1>1. DownloadInv => StagedWhole
  BY DEF DownloadInv, StagedInv, StagedWhole, Unchecked
<1> QED
  BY DownloadAlways, <1>1, PTL

\* Where no exchange of AT+MTBAUD is lost, both ends of the link run at one
\* rate between two drains (B666, hearthSetBaud() and hearthAbortPull()).
THEOREM DownloadRatesAgree == "BAUD" \notin Lossy => (Spec => []RatesAgree)
<1>1. "BAUD" \notin Lossy /\ DownloadInv => RatesAgree
  BY DEF DownloadInv, RatesInv, RatesAgree, Switched, RateWaits
<1>2. "BAUD" \notin Lossy => (DownloadInv => RatesAgree)
  BY <1>1
<1> SUFFICES ASSUME "BAUD" \notin Lossy  PROVE Spec => []RatesAgree
  OBVIOUS
<1>3. DownloadInv => RatesAgree
  BY <1>2
<1> QED
  BY DownloadAlways, <1>3, PTL
=============================================================================
