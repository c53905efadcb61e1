----------------------- MODULE HearthReconcile_proofs -----------------------
(***************************************************************************)
(* What holds of the reconcile for any endpoints, any stored composition,  *)
(* and any number of begin() calls and reboots.                            *)
(*                                                                         *)
(* The question is which reboot a +MTREADY speaks of, and the stream       *)
(* answers it: an apply needs a session, a session does not outlive a      *)
(* reboot, and the answer to the command that opened it comes after the    *)
(* +MTREADY of any reboot before.  So by the time the apply can be         *)
(* accepted every older +MTREADY has been read.                            *)
(*                                                                         *)
(* The second half is about HearthEndpoints, for any endpoint class: the   *)
(* reconcile ends in the hearthOnReconciled() of every endpoint.  The two  *)
(* modules share no variable.                                              *)
(***************************************************************************)
EXTENDS HearthReconcile, HearthEndpointInv, SequenceTheorems, FiniteSetTheorems, TLAPS

StreamLines == [line : {"+MTREADY", "answer"},
                answer : [rc : {"none", "ok", "error", "timeout"}, list : Seq(Types)]]

Places == {"loop", "query", "fabrics", "clear", "write", "apply", "wait", "resend"}

Kinds ==
  /\ declared \in Seq(Endpoints)
  /\ index \in Nat
  /\ stored \in Seq(Types)
  /\ session \subseteq Seq(Types)
  /\ rx \in Seq(StreamLines)
  /\ pc \in Places

IsAnswer(i) == rx[i].line = "answer"
IsReady(i)  == rx[i].line = "+MTREADY"

\* One command is in flight, the one the library is at, and its answer is the
\* only answer in the stream.
Asking ==
  /\ at = "sent" => drain = "none" /\ ~Polling
  /\ drain = "none" /\ at # "sent" => request = NoRequest /\ \A i \in DOMAIN rx : ~IsAnswer(i)
  /\ at = "sent" => request = NoRequest \/ request = [op |-> OpAt, arg |-> index]
  /\ drain # "none" => DrainAt /\ request.op \in {"none", "AT+MTEVT?", "AT+MTEVT="}
  /\ request # NoRequest => \A i \in DOMAIN rx : ~IsAnswer(i)
  /\ \A i, j \in DOMAIN rx : IsAnswer(i) /\ IsAnswer(j) => i = j
  /\ pc = "write" => index \in DOMAIN declared

\* While a session is open, a +MTREADY still to be read is followed by the
\* answer of the command that opened the session.
ReadyFirst ==
  session # {} /\ (\E i \in DOMAIN rx : IsReady(i))
    => pc \in {"clear", "write"} /\ at = "sent" /\ IsAnswer(Len(rx))

\* An accepted apply and the arm.
Applied ==
  /\ expecting => ~seen
  /\ failed => pc = "loop"
  /\ applying => /\ session # {} /\ power # "up"
                 /\ pc \in {"apply", "wait"} \/ failed
                 /\ pc = "wait" => ~seen
  /\ pc = "apply" /\ session # {} => ~seen

ReadyInv == Kinds /\ Asking /\ ReadyFirst /\ Applied /\ ArmScoped

\* Reading a line and adding one.
LEMMA Shorter ==
  ASSUME NEW s \in Seq(StreamLines), s # <<>>
  PROVE  /\ Tail(s) \in Seq(StreamLines) /\ Len(s) \in Nat /\ Len(s) >= 1
         /\ Len(Tail(s)) = Len(s) - 1
         /\ DOMAIN s = 1 .. Len(s) /\ DOMAIN Tail(s) = 1 .. Len(s) - 1
         /\ Head(s) = s[1] /\ \A i \in 1 .. Len(s) - 1 : Tail(s)[i] = s[i + 1]
         /\ \A i \in DOMAIN Tail(s) : i \in Int /\ i + 1 \in DOMAIN s /\ Tail(s)[i] = s[i + 1]
         /\ Len(s) > 1 => Tail(s) # <<>> /\ Tail(s)[Len(Tail(s))] = s[Len(s)]
<1>1. Len(s) \in Nat /\ Len(s) >= 1 /\ DOMAIN s = 1 .. Len(s)
  BY EmptySeq, LenProperties
<1>2. Tail(s) \in Seq(StreamLines) /\ Len(Tail(s)) = Len(s) - 1 /\ Head(s) = s[1]
  BY HeadTailProperties
<1>3. \A i \in 1 .. Len(s) - 1 : Tail(s)[i] = s[i + 1]
  BY HeadTailProperties
<1>4. ASSUME Len(s) > 1  PROVE Tail(s) # <<>> /\ Tail(s)[Len(Tail(s))] = s[Len(s)]
  <2>1. Len(s) - 1 \in 1 .. Len(s) - 1 /\ (Len(s) - 1) + 1 = Len(s)
    BY <1>1, <1>4
  <2>2. Tail(s)[Len(s) - 1] = s[Len(s)]
    BY <1>3, <2>1
  <2>3. ASSUME Tail(s) = <<>>  PROVE FALSE
    <3>1. Len(Tail(s)) = 0
      BY <2>3, EmptySeq
    <3>2. PICK n \in Nat : n = Len(s)
      BY <1>1
    <3>3. n - 1 = 0 /\ n > 1
      BY <1>2, <1>4, <3>1, <3>2
    <3> QED
      BY <3>3
  <2> QED
    BY <1>2, <2>2, <2>3
<1> QED
  BY <1>1, <1>2, <1>3, <1>4, LenProperties

LEMMA Longer ==
  ASSUME NEW s \in Seq(StreamLines), NEW l \in StreamLines
  PROVE  /\ Append(s, l) \in Seq(StreamLines) /\ Len(s) \in Nat
         /\ Len(Append(s, l)) = Len(s) + 1
         /\ DOMAIN s = 1 .. Len(s) /\ DOMAIN Append(s, l) = 1 .. Len(s) + 1
         /\ Append(s, l)[Len(s) + 1] = l
         /\ \A i \in 1 .. Len(s) : Append(s, l)[i] = s[i]
<1>1. Len(s) \in Nat /\ DOMAIN s = 1 .. Len(s)
  BY LenProperties
<1>2. Append(s, l) \in Seq(StreamLines) /\ Len(Append(s, l)) = Len(s) + 1
  BY AppendProperties
<1>3. Append(s, l)[Len(s) + 1] = l /\ \A i \in 1 .. Len(s) : Append(s, l)[i] = s[i]
  BY AppendProperties
<1> QED
  BY <1>1, <1>2, <1>3, LenProperties

NoReadyIn  == \A i \in DOMAIN rx : ~IsReady(i)
NoAnswerIn == \A i \in DOMAIN rx : ~IsAnswer(i)

\* The answer in flight is read: no line of a reboot was left before it, if a
\* session is open.
LEMMA TakesAnswer ==
  ASSUME ReadyInv, Hears("answer")
  PROVE  /\ rx' \in Seq(StreamLines) /\ NoAnswerIn' /\ request = NoRequest
         /\ session # {} => NoReadyIn'
<1> USE DEF Hears, ReadyInv, Kinds, Asking, ReadyFirst, IsAnswer, IsReady
<1>1. rx \in Seq(StreamLines) /\ rx # <<>> /\ Head(rx).line = "answer" /\ rx' = Tail(rx)
  OBVIOUS
<1>2. /\ DOMAIN rx = 1 .. Len(rx) /\ Len(rx) \in Nat /\ Len(rx) >= 1
      /\ rx[1].line = "answer" /\ rx' \in Seq(StreamLines)
      /\ DOMAIN rx' = 1 .. Len(rx) - 1 /\ \A i \in 1 .. Len(rx) - 1 : rx'[i] = rx[i + 1]
  BY <1>1, Shorter
<1>3. request = NoRequest
  BY <1>2
<1>4. \A i \in DOMAIN rx : IsAnswer(i) => i = 1
  BY <1>2
<1>5. NoAnswerIn'
  BY <1>2, <1>4 DEF NoAnswerIn
<1>6. ASSUME session # {}, NEW i \in DOMAIN rx, IsReady(i)  PROVE FALSE
  <2>1. rx[Len(rx)].line = "answer" /\ Len(rx) \in DOMAIN rx
    BY <1>2, <1>6
  <2>2. Len(rx) = 1
    BY <1>4, <2>1
  <2> QED
    BY <1>2, <1>6, <2>2
<1>7. session # {} => NoReadyIn'
  BY <1>2, <1>6 DEF NoReadyIn
<1> QED
  BY <1>2, <1>3, <1>5, <1>7

\* A +MTREADY is read: with a session open, the answer that opened it follows.
LEMMA TakesReady ==
  ASSUME ReadyInv, Hears("+MTREADY")
  PROVE  /\ rx' \in Seq(StreamLines) /\ Len(rx) \in Nat
         /\ \A i \in DOMAIN rx' : i \in Int /\ i + 1 \in DOMAIN rx /\ rx'[i] = rx[i + 1]
         /\ session # {} => /\ pc \in {"clear", "write"} /\ at = "sent"
                            /\ rx' # <<>> /\ rx'[Len(rx')].line = "answer"
<1> USE DEF Hears, ReadyInv, Kinds, ReadyFirst, IsAnswer, IsReady
<1>1. rx \in Seq(StreamLines) /\ rx # <<>> /\ Head(rx).line = "+MTREADY" /\ rx' = Tail(rx)
  OBVIOUS
<1>2. /\ DOMAIN rx = 1 .. Len(rx) /\ Len(rx) \in Nat /\ Len(rx) >= 1
      /\ rx[1].line = "+MTREADY" /\ rx' \in Seq(StreamLines) /\ Len(rx') = Len(rx) - 1
      /\ DOMAIN rx' = 1 .. Len(rx) - 1 /\ \A i \in 1 .. Len(rx) - 1 : rx'[i] = rx[i + 1]
  BY <1>1, Shorter
<1>3. 1 \in DOMAIN rx /\ IsReady(1)
  BY <1>2
<1>4. session # {} => pc \in {"clear", "write"} /\ at = "sent" /\ rx[Len(rx)].line = "answer"
  BY <1>3
<1>5. session # {} => Len(rx) > 1
  BY <1>2, <1>4
<1>6. \A i \in DOMAIN rx' : i \in Int /\ i + 1 \in DOMAIN rx /\ rx'[i] = rx[i + 1]
  BY <1>1, Shorter
<1>7. session # {} => rx'[Len(rx')] = rx[Len(rx)] /\ rx' # <<>>
  BY <1>1, <1>5, Shorter
<1> QED
  BY <1>2, <1>4, <1>6, <1>7

\* A command is served: it was the one in flight, and with a session open
\* there was no +MTREADY to be read.
LEMMA Serves ==
  ASSUME ReadyInv, NEW op \in Ops,
         NEW a \in [rc : {"none", "ok", "error", "timeout"}, list : Seq(Types)],
         Serve(op, a)
  PROVE  /\ power # "down" /\ request' = NoRequest /\ request.op = op
         /\ op \notin {"AT+MTEVT?", "AT+MTEVT="} =>
              drain = "none" /\ at = "sent" /\ op = OpAt /\ request.arg = index
         /\ drain = "none" => at = "sent"
         /\ session # {} => NoReadyIn
         /\ rx' \in Seq(StreamLines) /\ Len(rx') \in DOMAIN rx'
         /\ \A i \in DOMAIN rx' : rx'[i].line = "answer" <=> i = Len(rx')
         /\ NoReadyIn => NoReadyIn'
<1> USE DEF Serve, ReadyInv, Kinds, Asking, ReadyFirst, IsAnswer, IsReady, NoReadyIn
<1>1. request.op = op /\ request # NoRequest /\ request' = NoRequest /\ power # "down"
  BY DEF NoRequest, Ops, Queries
<1>2. NoAnswerIn
  BY <1>1 DEF NoAnswerIn
<1>3. Line(a) \in StreamLines /\ Line(a).line = "answer" /\ rx' = Append(rx, Line(a))
  BY DEF Line, StreamLines
<1>4. /\ rx' \in Seq(StreamLines) /\ Len(rx) \in Nat /\ Len(rx') = Len(rx) + 1
      /\ DOMAIN rx = 1 .. Len(rx) /\ DOMAIN rx' = 1 .. Len(rx) + 1
      /\ rx'[Len(rx) + 1] = Line(a) /\ \A i \in 1 .. Len(rx) : rx'[i] = rx[i]
  BY <1>3, Longer
<1>5. Len(rx') \in DOMAIN rx' /\ \A i \in DOMAIN rx' : rx'[i].line = "answer" <=> i = Len(rx')
  BY <1>2, <1>3, <1>4 DEF NoAnswerIn
<1>6. NoReadyIn => NoReadyIn'
  BY <1>3, <1>4
<1>7. session # {} => NoReadyIn
  <2> SUFFICES ASSUME session # {}, NEW i \in DOMAIN rx, IsReady(i)  PROVE FALSE
    OBVIOUS
  <2>1. IsAnswer(Len(rx)) /\ Len(rx) \in DOMAIN rx
    BY <1>4
  <2> QED
    BY <1>2, <2>1 DEF NoAnswerIn
<1>8. drain = "none" => at = "sent" /\ request = [op |-> OpAt, arg |-> index]
  BY <1>1
<1>9. op \notin {"AT+MTEVT?", "AT+MTEVT="} => drain = "none"
  BY <1>1 DEF Ops, Queries
<1> QED
  BY <1>1, <1>4, <1>5, <1>6, <1>7, <1>8, <1>9

LEMMA ReadyInit == Init => ReadyInv
<1> SUFFICES ASSUME Init  PROVE ReadyInv
  OBVIOUS
<1> USE DEF Init
<1>1. Kinds
  BY ReconcileAssumption DEF Kinds, ReconcileAssumption, Types, Places
<1>2. Asking /\ ReadyFirst
  BY DEF Asking, ReadyFirst
<1>3. Applied /\ ArmScoped
  BY DEF Applied, ArmScoped
<1> QED
  BY <1>1, <1>2, <1>3 DEF ReadyInv

\* The sketch's own steps leave the stream alone, and no call is in flight.
LEMMA ReadySketch ==
  ASSUME ReadyInv, SketchStep \/ SketchPolls
  PROVE  ReadyInv'
<1> USE DEF ReadyInv, Idle
<1> USE DEF registry, link, device, history
<1>1. CASE DeclareEndpoint
  <2>1. declared' \in Seq(Endpoints)
    BY <1>1 DEF DeclareEndpoint, Kinds
  <2> QED
    BY <1>1, <2>1 DEF DeclareEndpoint, Kinds, Asking, ReadyFirst, Applied, ArmScoped, IsAnswer,
       IsReady, Polling, OpAt, DrainAt
<1>2. CASE DestroyEndpoint
  <2>1. PICK k \in DOMAIN declared :
          declared' = [i \in 1 .. Len(declared) - 1 |->
                         IF i < k THEN declared[i] ELSE declared[i + 1]]
    BY <1>2 DEF DestroyEndpoint
  <2>2. Len(declared) \in Nat /\ DOMAIN declared = 1 .. Len(declared)
    BY LenProperties DEF Kinds
  <2>3. \A i \in 1 .. Len(declared) : declared[i] \in Endpoints
    BY <2>2, ElementOfSeq DEF Kinds
  <2>4. declared' \in [1 .. Len(declared) - 1 -> Endpoints] /\ Len(declared) - 1 \in Nat
    BY <2>1, <2>2, <2>3
  <2>5. declared' \in Seq(Endpoints)
    BY <2>4, SeqDef
  <2> QED
    BY <1>2, <2>5 DEF DestroyEndpoint, Kinds, Asking, ReadyFirst, Applied, ArmScoped, IsAnswer,
       IsReady, Polling, OpAt, DrainAt
<1>3. CASE RegisterCallback
  BY <1>3 DEF RegisterCallback, Kinds, Asking, ReadyFirst, Applied, ArmScoped, IsAnswer,
     IsReady, Polling, OpAt, DrainAt
<1>4. CASE Begin
  BY <1>4 DEF Begin, beginRest, Calls, Kinds, Places, Asking, ReadyFirst, Applied, ArmScoped, IsAnswer,
     IsReady, Polling, OpAt, DrainAt
<1>5. CASE SketchPolls
  BY <1>5 DEF SketchPolls, Kinds, Asking, ReadyFirst, Applied, ArmScoped, IsAnswer,
     IsReady, Polling, OpAt, DrainAt
<1> QED
  BY <1>1, <1>2, <1>3, <1>4, <1>5 DEF SketchStep

\* The steps of hearthCommand() and poll().
LEMMA ReadyStream ==
  ASSUME ReadyInv, DispatchReady \/ PollEnds \/ PollDone \/ CommandAnswered
  PROVE  ReadyInv'
<1> USE DEF registry, link, device, history
<1>1. CASE DispatchReady
  <2> USE <1>1 DEF DispatchReady
  <2>1. Hears("+MTREADY")
    OBVIOUS
  <2>2. /\ rx' \in Seq(StreamLines)
        /\ \A i \in DOMAIN rx' : i \in Int /\ i + 1 \in DOMAIN rx /\ rx'[i] = rx[i + 1]
        /\ session # {} => /\ pc \in {"clear", "write"} /\ at = "sent"
                           /\ rx' # <<>> /\ rx'[Len(rx')].line = "answer"
    BY <2>1, TakesReady
  <2>3. Kinds'
    BY <2>2 DEF Kinds, ReadyInv
  <2>4. Asking'
    <3>1. NoAnswerIn => NoAnswerIn'
      BY <2>2 DEF NoAnswerIn, IsAnswer
    <3>2. ASSUME NEW i \in DOMAIN rx', NEW j \in DOMAIN rx',
                 rx'[i].line = "answer", rx'[j].line = "answer"
          PROVE  i = j
      <4>1. i + 1 = j + 1
        BY <2>2, <3>2 DEF ReadyInv, Asking, IsAnswer
      <4> QED
        BY <2>2, <4>1
    <3>3. /\ at' = "sent" => drain' = "none" /\ ~Polling'
          /\ at' = "sent" => request' = NoRequest \/ request' = [op |-> OpAt', arg |-> index']
          /\ drain' # "none" => DrainAt' /\ request'.op \in {"none", "AT+MTEVT?", "AT+MTEVT="}
          /\ pc' = "write" => index' \in DOMAIN declared'
          /\ request' = request /\ drain' = drain /\ at' = at
      BY DEF Asking, ReadyInv, OpAt, Polling, DrainAt
    <3>4. /\ request # NoRequest => NoAnswerIn
          /\ drain = "none" /\ at # "sent" => request = NoRequest /\ NoAnswerIn
      BY DEF Asking, ReadyInv, NoAnswerIn
    <3> QED
      BY <3>1, <3>2, <3>3, <3>4 DEF Asking, NoAnswerIn, IsAnswer
  <2>5. ReadyFirst'
    BY <2>2 DEF ReadyFirst, IsAnswer
  <2>6. Applied' /\ ArmScoped'
    BY <2>2 DEF Applied, ArmScoped, ReadyInv
  <2> QED
    BY <2>3, <2>4, <2>5, <2>6 DEF ReadyInv
<1>2. CASE PollEnds
  BY <1>2 DEF PollEnds, ReadyInv, Kinds, Asking, ReadyFirst, Applied, ArmScoped, IsAnswer, IsReady,
     Polling, OpAt, DrainAt
<1>3. CASE PollDone
  <2> USE <1>3 DEF PollDone, ReadyInv
  <2>1. Kinds' /\ Applied' /\ ArmScoped'
    BY DEF Kinds, Applied, ArmScoped
  <2>2. drain = "none" /\ drain' = "none" /\ request = NoRequest /\ NoAnswerIn /\ NoAnswerIn'
    BY DEF Asking, DrainAt, NoAnswerIn, IsAnswer
  <2>3. at' = "sent" => ~Polling /\ (request' = NoRequest \/ request' = [op |-> OpAt, arg |-> index])
    BY DEF Send
  <2>4. at' # "sent" => request' = NoRequest
    BY <2>2
  <2>5. Asking'
    <3>1. /\ at' = "sent" => ~Polling'
          /\ at' = "sent" => request' = NoRequest \/ request' = [op |-> OpAt', arg |-> index']
      BY <2>3 DEF Polling, OpAt
    <3>2. /\ pc' = "write" => index' \in DOMAIN declared'
          /\ \A i \in DOMAIN rx' : rx'[i].line # "answer"
      BY <2>2 DEF Asking, NoAnswerIn, IsAnswer
    <3>3. drain' = "none" /\ (at' # "sent" => request' = NoRequest)
      BY <2>2, <2>4
    <3> HIDE DEF PollDone
    <3> QED
      BY <3>1, <3>2, <3>3 DEF Asking, IsAnswer
  <2>6. ReadyFirst'
    <3>1. ~(session # {} /\ \E i \in DOMAIN rx : IsReady(i))
      BY DEF ReadyFirst
    <3>2. session' = session /\ rx' = rx
      OBVIOUS
    <3> QED
      BY <3>1, <3>2 DEF ReadyFirst, IsReady
  <2> QED
    BY <2>1, <2>5, <2>6
<1>4. CASE CommandAnswered
  <2>1. PICK a \in Incoming : Taken(a)
    BY <1>4 DEF CommandAnswered
  <2>2. rx' \in Seq(StreamLines) /\ NoAnswerIn' /\ request = NoRequest /\ (session # {} => NoReadyIn')
    <3>1. CASE Hears("answer")
      BY <3>1, TakesAnswer
    <3>2. CASE Lost /\ UNCHANGED rx
      BY <3>2 DEF Lost, NoAnswerIn, NoReadyIn
    <3> QED
      BY <2>1, <3>1, <3>2 DEF Taken
  <2> USE <1>4 DEF CommandAnswered, ReadyInv
  <2>3. Kinds' /\ Applied' /\ ArmScoped'
    BY <2>2 DEF Kinds, Applied, ArmScoped
  <2>4. Asking'
    BY <2>2 DEF Asking, NoAnswerIn, IsAnswer, Polling, OpAt, DrainAt
  <2>5. ReadyFirst'
    BY <2>2 DEF ReadyFirst, NoReadyIn
  <2> QED
    BY <2>3, <2>4, <2>5
<1> QED
  BY <1>1, <1>2, <1>3, <1>4

\* The drain's exchanges are over before the next command is sent.
LEMMA ReadyDrain ==
  ASSUME ReadyInv, DrainNothing \/ DrainReads \/ DrainWrites \/ DrainWritten
  PROVE  ReadyInv'
<1> USE DEF registry, device, history, drainRest
<1> DEFINE Clean == /\ rx' \in Seq(StreamLines) /\ NoAnswerIn' /\ request = NoRequest
                    /\ session # {} => NoReadyIn'
<1>a. ASSUME NEW a \in Incoming, Taken(a)  PROVE Clean
  <2>1. CASE Hears("answer")
    BY <2>1, TakesAnswer
  <2>2. CASE Lost /\ UNCHANGED rx
    BY <2>2 DEF Lost, NoAnswerIn, NoReadyIn
  <2> QED
    BY <1>a, <2>1, <2>2 DEF Taken
<1>1. CASE DrainNothing
  BY <1>1 DEF DrainNothing, DrainAt, TailDone, ReadyInv, Kinds, Asking, ReadyFirst, Applied,
     ArmScoped, IsAnswer, IsReady, Polling, OpAt, DrainAt
<1>2. CASE DrainReads
  BY <1>2 DEF DrainReads, DrainAt, Send, NoRequest, ReadyInv, Kinds, Asking, ReadyFirst, Applied,
     ArmScoped, IsAnswer, IsReady, Polling, OpAt, DrainAt
<1>3. CASE DrainWrites
  <2>1. Clean
    BY <1>3, <1>a DEF DrainWrites
  <2> USE <1>3 DEF DrainWrites, ReadyInv, TailDone, Send, NoRequest
  <2>2. Kinds' /\ Applied' /\ ArmScoped'
    BY <2>1 DEF Kinds, Applied, ArmScoped
  <2>3. at # "sent" /\ at' # "sent"
    BY DEF Asking
  <2>4. Asking'
    <3>1. /\ \A i \in DOMAIN rx' : rx'[i].line # "answer"
          /\ pc' = "write" => index' \in DOMAIN declared'
      BY <2>1 DEF Asking, NoAnswerIn, IsAnswer
    <3>2. /\ drain' = "none" => request' = NoRequest
          /\ drain' # "none" => DrainAt' /\ request'.op \in {"none", "AT+MTEVT?", "AT+MTEVT="}
      BY <2>1, <2>3 DEF Asking, DrainAt
    <3> HIDE DEF DrainWrites
    <3> QED
      BY <2>3, <3>1, <3>2 DEF Asking, IsAnswer
  <2>5. ReadyFirst'
    BY <2>1 DEF ReadyFirst, NoReadyIn
  <2> QED
    BY <2>2, <2>4, <2>5
<1>4. CASE DrainWritten
  <2>1. Clean
    BY <1>4, <1>a DEF DrainWritten
  <2> USE <1>4 DEF DrainWritten, ReadyInv, TailDone
  <2>2. Kinds' /\ Applied' /\ ArmScoped'
    BY <2>1 DEF Kinds, Applied, ArmScoped
  <2>4. Asking'
    BY <2>1 DEF Asking, NoAnswerIn, IsAnswer
  <2>5. ReadyFirst'
    BY <2>1 DEF ReadyFirst, NoReadyIn
  <2> QED
    BY <2>2, <2>4, <2>5
<1> QED
  BY <1>1, <1>2, <1>3, <1>4

\* begin() moves on when its command has returned: no answer is on its way.
LEMMA ReadyBegin ==
  ASSUME ReadyInv,
         \/ QueryReturned \/ ResendReturned \/ FabricsReturned \/ ClearReturned
         \/ WriteReturned \/ ApplyReturned \/ WaitPolls \/ WaitSeen \/ WaitTimeout
  PROVE  ReadyInv'
<1> DEFINE Stops(p) == pc = p /\ at \in {"out", "drained"}
<1> USE DEF ReadyInv
<1>1. ASSUME NEW p \in Places \ {"loop"}, Stops(p), UNCHANGED beginRest, at' \in {"out", "poll"},
             index' \in Nat, pc' \in Places, pc' = "write" => index' \in DOMAIN declared
      PROVE  Kinds' /\ Asking' /\ ReadyFirst' /\ ~failed
  <2> USE <1>1 DEF beginRest, device
  <2>1. drain = "none" /\ request = NoRequest /\ NoAnswerIn
    BY DEF Asking, DrainAt, NoAnswerIn
  <2>2. Kinds' /\ ~failed
    BY DEF Kinds, Applied, Places
  <2>3. Asking'
    BY <2>1 DEF Asking, NoAnswerIn, IsAnswer
  <2>4. ReadyFirst'
    BY DEF ReadyFirst, IsReady
  <2> QED
    BY <2>2, <2>3, <2>4
<1>2. CASE QueryReturned
  <2> USE <1>2 DEF QueryReturned, Returned, Abort, Adopts, Calls, BeginReturns
  <2>1. Kinds' /\ Asking' /\ ReadyFirst' /\ ~failed
    <3>1. index \in Nat
      BY DEF Kinds
    <3>2. index' \in Nat /\ pc' \in Places \ {"write"} /\ at' \in {"out", "poll"}
      BY <3>1 DEF Places
    <3> QED
      BY <1>1, <3>2 DEF Places
  <2>2. Applied' /\ ArmScoped'
    BY <2>1 DEF Applied, ArmScoped, beginRest, device
  <2> QED
    BY <2>1, <2>2
<1>3. CASE ResendReturned
  <2> USE <1>3 DEF ResendReturned, Returned, Adopts, Calls, BeginReturns
  <2>1. Kinds' /\ Asking' /\ ReadyFirst' /\ ~failed
    <3>1. index \in Nat
      BY DEF Kinds
    <3>2. index' \in Nat /\ pc' \in Places \ {"write"} /\ at' \in {"out", "poll"}
      BY <3>1 DEF Places
    <3> QED
      BY <1>1, <3>2 DEF Places
  <2>2. Applied' /\ ArmScoped'
    BY <2>1 DEF Applied, ArmScoped, beginRest, device
  <2> QED
    BY <2>1, <2>2
<1>4. CASE FabricsReturned
  <2> USE <1>4 DEF FabricsReturned, Returned, Calls
  <2>1. Kinds' /\ Asking' /\ ReadyFirst' /\ ~failed
    BY <1>1 DEF Places, Kinds
  <2>2. Applied' /\ ArmScoped'
    BY <2>1 DEF Applied, ArmScoped, beginRest, device
  <2> QED
    BY <2>1, <2>2
<1>5. CASE ClearReturned \/ WriteReturned
  <2> USE <1>5 DEF ClearReturned, WriteReturned, Returned, Abort, WritesFrom, Calls, BeginReturns
  <2>0. index \in Nat /\ DOMAIN declared = 1 .. Len(declared) /\ Len(declared) \in Nat
    BY LenProperties DEF Kinds
  <2>1. Kinds' /\ Asking' /\ ReadyFirst' /\ ~failed
    <3>1. index' \in Nat
      BY <2>0
    <3>2. pc' \in Places /\ at' \in {"out", "poll"}
      BY DEF Places
    <3>3. pc' = "write" => index' \in DOMAIN declared
      BY <2>0
    <3>4. UNCHANGED beginRest /\ (Stops("clear") \/ Stops("write"))
      OBVIOUS
    <3> HIDE DEF ClearReturned, WriteReturned
    <3> QED
      BY <1>1, <3>1, <3>2, <3>3, <3>4 DEF Places
  <2>2. Applied' /\ ArmScoped'
    BY <2>1 DEF Applied, ArmScoped, beginRest, device
  <2> QED
    BY <2>1, <2>2
<1>6. CASE ApplyReturned
  <2> USE <1>6 DEF ApplyReturned, Returned, Abort, BeginReturns
  <2>1. Kinds' /\ Asking' /\ ReadyFirst' /\ ~failed
    BY <1>1 DEF Places, Kinds
  <2>2. Applied' /\ ArmScoped'
    BY <2>1 DEF Applied, ArmScoped, beginRest, device
  <2> QED
    BY <2>1, <2>2
<1>7. CASE WaitPolls
  <2> USE <1>7 DEF WaitPolls, Returned, Calls
  <2>1. Kinds' /\ Asking' /\ ReadyFirst' /\ ~failed
    BY <1>1 DEF Places, Kinds
  <2>2. Applied' /\ ArmScoped'
    BY <2>1 DEF Applied, ArmScoped, beginRest, device
  <2> QED
    BY <2>1, <2>2
<1>8. CASE WaitSeen
  <2> USE <1>8 DEF WaitSeen, Returned, Calls
  <2>1. Kinds' /\ Asking' /\ ReadyFirst' /\ ~failed
    BY <1>1 DEF Places, Kinds
  <2>2. Applied' /\ ArmScoped'
    BY <2>1 DEF Applied, ArmScoped, beginRest, device
  <2> QED
    BY <2>1, <2>2
<1>9. CASE WaitTimeout
  <2> USE <1>9 DEF WaitTimeout
  <2>1. Kinds' /\ Asking' /\ ReadyFirst' /\ ~failed
    BY <1>1 DEF Places, Kinds
  <2>2. Applied' /\ ArmScoped'
    BY <2>1 DEF Applied, ArmScoped, beginRest, device
  <2> QED
    BY <2>1, <2>2
<1> QED
  BY <1>2, <1>3, <1>4, <1>5, <1>6, <1>7, <1>8, <1>9

\* The answers of the co-processor are all of the form it sends.
LEMMA Answers == \A list \in Seq(Types) :
  /\ Ok \in [rc : {"none", "ok", "error", "timeout"}, list : Seq(Types)]
  /\ Refused \in [rc : {"none", "ok", "error", "timeout"}, list : Seq(Types)]
  /\ Answer("ok", list) \in [rc : {"none", "ok", "error", "timeout"}, list : Seq(Types)]
<1>1. <<>> \in Seq(Types)
  BY EmptySeq
<1> QED
  BY <1>1 DEF Ok, Refused, Answer

\* An answer takes its place at the end of the stream; with a session open no
\* +MTREADY is before it.
LEMMA ServesAsking ==
  ASSUME ReadyInv, NEW op \in Ops,
         NEW a \in [rc : {"none", "ok", "error", "timeout"}, list : Seq(Types)],
         Serve(op, a), UNCHANGED <<pc, at, index, drain, declared>>
  PROVE  Asking' /\ (session # {} => NoReadyIn') /\ rx' \in Seq(StreamLines)
<1>1. /\ request' = NoRequest /\ rx' \in Seq(StreamLines) /\ Len(rx') \in DOMAIN rx'
      /\ session # {} => NoReadyIn
      /\ drain = "none" => at = "sent"
      /\ \A i \in DOMAIN rx' : rx'[i].line = "answer" <=> i = Len(rx')
      /\ NoReadyIn => NoReadyIn'
  BY Serves
<1>2. /\ at' = "sent" => drain' = "none" /\ ~Polling'
      /\ drain' # "none" => DrainAt'
      /\ pc' = "write" => index' \in DOMAIN declared'
  BY DEF ReadyInv, Asking, Polling, DrainAt
<1>3. request'.op = "none"
  BY <1>1 DEF NoRequest
<1>4. Asking'
  BY <1>1, <1>2, <1>3 DEF Asking, IsAnswer
<1> QED
  BY <1>1, <1>4

LEMMA ReadyServes ==
  ASSUME ReadyInv, ServeStep
  PROVE  ReadyInv'
<1> USE DEF deviceRest, registry, link, device
<1>a. Ops = {"AT+MTEP?", "AT+MTFABRICS?", "AT+MTEVT?", "AT+MTEPCLEAR", "AT+MTEP=",
             "AT+MTEPAPPLY", "resend", "AT+MTEVT="}
  BY DEF Ops, Queries
<1>b. stored \in Seq(Types)
  BY DEF ReadyInv, Kinds
<1>1. ASSUME NEW op \in Ops,
             NEW a \in [rc : {"none", "ok", "error", "timeout"}, list : Seq(Types)],
             Serve(op, a), UNCHANGED <<deviceRest, stored, session, applying, power>>
      PROVE  ReadyInv'
  <2>1. Asking' /\ (session # {} => NoReadyIn') /\ rx' \in Seq(StreamLines)
    BY <1>1, ServesAsking
  <2>2. Kinds'
    BY <1>1, <2>1 DEF ReadyInv, Kinds
  <2>3. ReadyFirst'
    BY <1>1, <2>1 DEF ReadyFirst, NoReadyIn
  <2>4. Applied' /\ ArmScoped'
    BY <1>1 DEF ReadyInv, Applied, ArmScoped
  <2> QED
    BY <2>1, <2>2, <2>3, <2>4 DEF ReadyInv
<1>2. CASE ServeQuery
  <2>1. PICK op \in Ops, a \in [rc : {"none", "ok", "error", "timeout"}, list : Seq(Types)] :
          Serve(op, a)
    BY <1>2, <1>a, <1>b, Answers DEF ServeQuery
  <2> QED
    BY <1>1, <1>2, <2>1 DEF ServeQuery
<1>3. CASE TakeMask
  BY <1>1, <1>3, <1>a, <1>b, Answers DEF TakeMask
<1>4. CASE RefuseMask
  BY <1>1, <1>4, <1>a, <1>b, Answers DEF RefuseMask
<1>5. CASE ServeResend
  BY <1>1, <1>5, <1>a, <1>b, Answers DEF ServeResend
<1>6. ASSUME NEW op \in {"AT+MTEPCLEAR", "AT+MTEP="}, Serve(op, Ok),
             UNCHANGED <<deviceRest, stored, applying, power>>,
             session' \subseteq Seq(Types)
      PROVE  ReadyInv'
  <2>1. op \in Ops /\ Ok \in [rc : {"none", "ok", "error", "timeout"}, list : Seq(Types)]
    BY <1>a, <1>b, Answers
  <2>2. Asking' /\ rx' \in Seq(StreamLines)
    BY <1>6, <2>1, ServesAsking
  <2>3. /\ at = "sent" /\ op = OpAt
        /\ Len(rx') \in DOMAIN rx'
        /\ \A i \in DOMAIN rx' : rx'[i].line = "answer" <=> i = Len(rx')
    BY <1>6, <2>1, Serves
  <2>4. pc \in {"clear", "write"}
    <3>1. pc \in {"query", "fabrics", "clear", "write", "apply", "resend"}
      BY <2>3 DEF ReadyInv, Kinds, Asking, Polling, Places
    <3> QED
      BY <2>3, <3>1 DEF OpAt
  <2>5. Kinds'
    BY <1>6, <2>2 DEF ReadyInv, Kinds
  <2>6. ReadyFirst'
    BY <1>6, <2>3, <2>4 DEF ReadyFirst, IsAnswer
  <2>7. Applied' /\ ArmScoped'
    BY <1>6, <2>4 DEF ReadyInv, Applied, ArmScoped
  <2> QED
    BY <2>2, <2>5, <2>6, <2>7 DEF ReadyInv
<1>7. CASE ServeClear
  <2>1. session' \subseteq Seq(Types)
    BY <1>7, EmptySeq DEF ServeClear
  <2> QED
    BY <1>6, <1>7, <2>1 DEF ServeClear
<1>8. CASE ServeWrite
  <2>1. CASE Serve("AT+MTEP=", Refused) /\ UNCHANGED session
    BY <1>1, <1>8, <2>1, <1>a, <1>b, Answers DEF ServeWrite
  <2>2. CASE /\ Serve("AT+MTEP=", Ok)
             /\ session' = {Append(s, TypeOf[declared[request.arg]]) :
                              s \in IF session = {} THEN {<<>>} ELSE session}
    <3>1. Ok \in [rc : {"none", "ok", "error", "timeout"}, list : Seq(Types)]
      BY <1>b, Answers
    <3>2. at = "sent" /\ "AT+MTEP=" = OpAt /\ request.arg = index
      BY <2>2, <1>a, <3>1, Serves
    <3>3. pc = "write"
      <4>1. pc \in {"query", "fabrics", "clear", "write", "apply", "resend"}
        BY <3>2 DEF ReadyInv, Kinds, Asking, Polling, Places
      <4> QED
        BY <3>2, <4>1 DEF OpAt
    <3>4. TypeOf[declared[request.arg]] \in Types
      <4>1. declared \in Seq(Endpoints) /\ index \in DOMAIN declared
        BY <3>3 DEF ReadyInv, Kinds, Asking
      <4>2. declared[index] \in Endpoints
        BY <4>1, ElementOfSeq, LenProperties
      <4> QED
        BY <3>2, <4>2 DEF Types
    <3>5. session' \subseteq Seq(Types)
      <4>1. \A s \in IF session = {} THEN {<<>>} ELSE session : s \in Seq(Types)
        BY EmptySeq DEF ReadyInv, Kinds
      <4>2. \A s \in Seq(Types) : Append(s, TypeOf[declared[request.arg]]) \in Seq(Types)
        BY <3>4, AppendProperties
      <4> QED
        BY <2>2, <4>1, <4>2
    <3> QED
      BY <1>6, <1>8, <2>2, <3>5 DEF ServeWrite
  <2> QED
    BY <1>8, <2>1, <2>2 DEF ServeWrite
<1>9. CASE ServeApply
  <2>1. CASE Serve("AT+MTEPAPPLY", Refused) /\ UNCHANGED <<power, applying>>
    BY <1>1, <1>9, <2>1, <1>a, <1>b, Answers DEF ServeApply
  <2>2. CASE Serve("AT+MTEPAPPLY", Ok) /\ session # {} /\ power' = "leaving" /\ applying' = TRUE
    <3>1. Ok \in [rc : {"none", "ok", "error", "timeout"}, list : Seq(Types)]
      BY <1>b, Answers
    <3>2. at = "sent" /\ "AT+MTEPAPPLY" = OpAt
      BY <2>2, <1>a, <3>1, Serves
    <3>3. pc = "apply"
      <4>1. pc \in {"query", "fabrics", "clear", "write", "apply", "resend"}
        BY <3>2 DEF ReadyInv, Kinds, Asking, Polling, Places
      <4> QED
        BY <3>2, <4>1 DEF OpAt
    <3> USE <1>9 DEF ServeApply
    <3>4. Asking' /\ NoReadyIn' /\ rx' \in Seq(StreamLines)
      BY <2>2, <1>a, <3>1, ServesAsking
    <3>5. Kinds'
      BY <3>4 DEF ReadyInv, Kinds
    <3>6. ReadyFirst'
      BY <3>4 DEF ReadyFirst, NoReadyIn
    <3>7. Applied' /\ ArmScoped'
      BY <2>2, <3>3 DEF ReadyInv, Applied, ArmScoped
    <3> QED
      BY <3>4, <3>5, <3>6, <3>7 DEF ReadyInv
  <2> QED
    BY <1>9, <2>1, <2>2 DEF ServeApply
<1> QED
  BY <1>2, <1>3, <1>4, <1>5, <1>7, <1>8, <1>9 DEF ServeStep

\* A reboot ends the session, so no +MTREADY it sends is read with one open
\* that began before it.
LEMMA ReadyPower ==
  ASSUME ReadyInv, GoesDown \/ Reboots \/ ComesUp
  PROVE  ReadyInv'
<1> USE DEF deviceRest, registry, link
<1>1. CASE GoesDown \/ Reboots
  <2> USE <1>1 DEF GoesDown, Reboots, Down
  <2>1. Kinds'
    BY DEF ReadyInv, Kinds
  <2>2. Asking'
    BY DEF ReadyInv, Asking, NoRequest, IsAnswer, Polling, DrainAt
  <2>3. ReadyFirst'
    BY DEF ReadyInv, ReadyFirst, IsAnswer, IsReady
  <2>4. Applied' /\ ArmScoped'
    BY DEF ReadyInv, Applied, ArmScoped
  <2> QED
    BY <2>1, <2>2, <2>3, <2>4 DEF ReadyInv
<1>2. CASE ComesUp
  <2> USE <1>2 DEF ComesUp
  <2>1. Ready \in StreamLines /\ Ready.line = "+MTREADY"
    <3>1. <<>> \in Seq(Types)
      BY EmptySeq
    <3> QED
      BY <3>1 DEF Ready, NoAnswer, StreamLines
  <2>2. /\ rx' \in Seq(StreamLines)
        /\ \A i \in DOMAIN rx' : rx'[i].line = "answer" => i \in DOMAIN rx /\ IsAnswer(i)
    <3>1. rx \in Seq(StreamLines) /\ rx' = Append(rx, Ready)
      BY DEF ReadyInv, Kinds
    <3> QED
      BY <2>1, <3>1, Longer DEF IsAnswer
  <2>3. Kinds'
    BY <2>2 DEF ReadyInv, Kinds
  <2>4. Asking'
    <3>1. /\ at' = "sent" => drain' = "none" /\ ~Polling'
          /\ drain' # "none" => DrainAt' /\ request'.op \in {"none", "AT+MTEVT?", "AT+MTEVT="}
          /\ pc' = "write" => index' \in DOMAIN declared'
          /\ at' = "sent" => request' = NoRequest \/ request' = [op |-> OpAt', arg |-> index']
      BY DEF ReadyInv, Asking, Polling, DrainAt, OpAt
    <3>2. /\ drain = "none" /\ at # "sent" => request = NoRequest /\ \A i \in DOMAIN rx : ~IsAnswer(i)
          /\ request # NoRequest => \A i \in DOMAIN rx : ~IsAnswer(i)
          /\ \A i, j \in DOMAIN rx : IsAnswer(i) /\ IsAnswer(j) => i = j
          /\ request' = request /\ drain' = drain /\ at' = at
      BY DEF ReadyInv, Asking
    <3> HIDE DEF ComesUp
    <3>3. /\ drain' = "none" /\ at' # "sent" =>
               request' = NoRequest /\ \A i \in DOMAIN rx' : rx'[i].line # "answer"
          /\ request' # NoRequest => \A i \in DOMAIN rx' : rx'[i].line # "answer"
          /\ \A i, j \in DOMAIN rx' : rx'[i].line = "answer" /\ rx'[j].line = "answer" => i = j
      BY <2>2, <3>2
    <3> QED
      BY <3>1, <3>3 DEF Asking, IsAnswer
  <2>5. ReadyFirst'
    BY DEF ReadyFirst
  <2>6. Applied' /\ ArmScoped'
    BY DEF ReadyInv, Applied, ArmScoped
  <2> QED
    BY <2>3, <2>4, <2>5, <2>6 DEF ReadyInv
<1> QED
  BY <1>1, <1>2

LEMMA ReadyStep == ReadyInv /\ [Next]_vars => ReadyInv'
<1> SUFFICES ASSUME ReadyInv, [Next]_vars
             PROVE  ReadyInv'
  OBVIOUS
<1>1. CASE DispatchReady \/ PollEnds \/ PollDone \/ CommandAnswered
  BY <1>1, ReadyStream
<1>2. CASE DrainNothing \/ DrainReads \/ DrainWrites \/ DrainWritten
  BY <1>2, ReadyDrain
<1>3. CASE \/ QueryReturned \/ ResendReturned \/ FabricsReturned \/ ClearReturned
           \/ WriteReturned \/ ApplyReturned \/ WaitPolls \/ WaitSeen \/ WaitTimeout
  BY <1>3, ReadyBegin
<1>4. CASE SketchStep \/ SketchPolls
  BY <1>4, ReadySketch
<1>5. CASE ArmExpires
  BY <1>5 DEF ArmExpires, ReadyInv, Kinds, Asking, ReadyFirst, Applied, ArmScoped, IsAnswer,
     IsReady, Polling, OpAt, DrainAt, registry, device, history
<1>6. CASE ServeStep
  BY <1>6, ReadyServes
<1>7. CASE GoesDown \/ Reboots \/ ComesUp
  BY <1>7, ReadyPower
<1>8. CASE UNCHANGED vars
  <2> USE <1>8 DEF vars, registry, link, device
  <2>1. Kinds' /\ Applied' /\ ArmScoped'
    BY DEF ReadyInv, Kinds, Applied, ArmScoped
  <2>2. Asking'
    BY DEF ReadyInv, Asking, IsAnswer, Polling, OpAt, DrainAt
  <2>3. ReadyFirst'
    BY DEF ReadyInv, ReadyFirst, IsAnswer, IsReady
  <2> QED
    BY <2>1, <2>2, <2>3 DEF ReadyInv
<1> QED
  BY <1>1, <1>2, <1>3, <1>4, <1>5, <1>6, <1>7, <1>8 DEF Next, LibraryStep, CoprocStep

\* A reboot the host takes for the apply's is the apply's, for any composition
\* and any number of reboots of the co-processor's own (Hearth.cpp:1545).
THEOREM ReconcileSeenMeansApplied == Spec => []SeenMeansApplied
<1>1. ReadyInv => SeenMeansApplied
  BY DEF ReadyInv, Kinds, Applied, SeenMeansApplied
<1> QED
  BY ReadyInit, ReadyStep, <1>1, PTL DEF Spec

\* The arm never outlives the apply it was taken for (Hearth.cpp:1674).
THEOREM ReconcileArmScoped == Spec => []ArmScoped
<1>1. ReadyInv => ArmScoped
  BY DEF ReadyInv
<1> QED
  BY ReadyInit, ReadyStep, <1>1, PTL DEF Spec
---------------------------------------------------------------------------
(* The composition a reconcile ends with.  What is stored changes only when *)
(* the co-processor comes up from an apply, and an apply is out only while  *)
(* begin() is at its apply or its wait, or has failed for good.  So what a  *)
(* query was answered is what is stored, until begin() returns and after.   *)

Steps == {"out", "poll", "polled", "drained", "sent", "answered"}

\* No object is declared twice, or again once it is gone.
Objects ==
  /\ gone \subseteq Endpoints /\ gone \cap DeclaredSet = {}
  /\ id \in [Endpoints -> Nat]
  /\ at \in Steps /\ attempt \in Nat /\ applies \in Nat
  /\ \A i, j \in DOMAIN declared : declared[i] = declared[j] => i = j

\* A query is answered with the composition that is still stored.
Queried ==
  pc = "query" =>
    /\ at = "sent" => \A i \in DOMAIN rx :
         IsAnswer(i) /\ rx[i].answer.rc = "ok" => rx[i].answer.list = stored
    /\ at \in {"answered", "out"} /\ answer.rc = "ok" => answer.list = stored

\* The endpoints before this one have their ids and, unless a reboot came
\* between, their state.
Resending ==
  /\ fresh => power # "down"
  /\ pc = "resend" =>
       /\ index \in DOMAIN declared /\ stored = DeclaredTypes
       /\ \A j \in 1 .. index : id[declared[j]] = j
       /\ fresh => \A j \in 1 .. index - 1 : j \in held
       /\ fresh /\ (at \in {"answered", "out"} \/ (at = "sent" /\ request = NoRequest))
            => index \in held

Settled ==
  settled => pc = "loop" /\ reconciled /\ ~failed

\* An apply is owed to an object destroyed since, or is the first one.
Budget ==
  /\ pc \in {"fabrics", "clear", "write"} \/ (pc = "apply" /\ at \in {"poll", "polled", "drained"})
       => attempt = 0 /\ applies <= Cardinality(gone)
  /\ pc \in {"apply", "wait"} => attempt = 0
  /\ pc = "query" /\ attempt = 0 => applies <= Cardinality(gone) \/ stored = DeclaredTypes
  /\ pc = "loop" /\ ~failed
       => applies <= Cardinality(gone) \/ (reconciled /\ stored = DeclaredTypes)

AdoptInv == Objects /\ Queried /\ Resending /\ Settled /\ Budget
              /\ AdoptedIds /\ AppliesBounded /\ StateResent

\* What the transport and the co-processor leave alone.
Composition == <<declared, gone, reconciled, id, pc, attempt, index, failed, settled>>

\* Where the resend of this endpoint is done with.
ResentSoFar(a, r) == a \in {"answered", "out"} \/ (a = "sent" /\ r = NoRequest)

LEMMA AdoptInit == Init => AdoptInv
<1> SUFFICES ASSUME Init  PROVE AdoptInv
  OBVIOUS
<1> USE DEF Init
<1>1. Objects
  BY DEF Objects, DeclaredSet, Steps
<1>2. Cardinality(gone) = 0
  BY FS_EmptySet
<1>3. Queried /\ Resending /\ Settled /\ Budget /\ AdoptedIds /\ AppliesBounded /\ StateResent
  BY <1>2 DEF Queried, Resending, Settled, Budget, AdoptedIds, AppliesBounded, StateResent
<1> QED
  BY <1>1, <1>3 DEF AdoptInv

\* A step of the transport: what is stored stays, and no resend is forgotten.
LEMMA AdoptTransport ==
  ASSUME AdoptInv, UNCHANGED Composition, UNCHANGED stored, applies' = applies, at' \in Steps,
         held \subseteq held', fresh' => fresh, fresh' => power' # "down",
         Queried',
         pc = "resend" /\ fresh' /\ ResentSoFar(at', request') => ResentSoFar(at, request) \/ index \in held',
         pc = "apply" /\ at' \in {"poll", "polled", "drained"} => at \in {"poll", "polled", "drained"}
  PROVE  AdoptInv'
<1> USE DEF AdoptInv, Composition
<1>1. Objects'
  BY DEF Objects, DeclaredSet
<1>2. Resending'
  BY DEF Resending, ResentSoFar, DeclaredTypes
<1>3. Settled' /\ AppliesBounded'
  BY DEF Settled, AppliesBounded
<1>4. Budget'
  BY DEF Budget, DeclaredTypes
<1>5. AdoptedIds' /\ StateResent'
  BY DEF AdoptedIds, StateResent, DeclaredSet
<1> QED
  BY <1>1, <1>2, <1>3, <1>4, <1>5

\* The transport's own steps.
LEMMA AdoptLink ==
  ASSUME ReadyInv, AdoptInv,
         \/ DispatchReady \/ PollEnds \/ PollDone \/ CommandAnswered
         \/ DrainNothing \/ DrainReads \/ DrainWrites \/ DrainWritten
         \/ SketchPolls \/ ArmExpires \/ RegisterCallback
  PROVE  AdoptInv'
<1> USE DEF registry, link, device, history, drainRest, Composition
<1>a. /\ at \in Steps /\ (fresh => power # "down") /\ Queried
      /\ at = "sent" => drain = "none"
      /\ drain # "none" => at \in {"polled", "answered"}
      /\ rx \in Seq(StreamLines)
  BY DEF AdoptInv, Objects, Resending, ReadyInv, Asking, Kinds, DrainAt
<1>1. CASE DispatchReady
  <2> USE <1>1 DEF DispatchReady
  <2>1. \A i \in DOMAIN rx' : i \in Int /\ i + 1 \in DOMAIN rx /\ rx'[i] = rx[i + 1]
    BY TakesReady
  <2>2. Queried'
    BY <1>a, <2>1 DEF Queried, IsAnswer
  <2> QED
    BY <1>a, <2>2, AdoptTransport DEF ResentSoFar
<1>2. CASE PollEnds \/ DrainReads \/ SketchPolls \/ ArmExpires \/ RegisterCallback
  <2> USE <1>2 DEF PollEnds, DrainReads, SketchPolls, ArmExpires, RegisterCallback, Idle, DrainAt
  <2>1. at' \in Steps /\ Queried'
    BY <1>a DEF Steps, Queried, IsAnswer
  <2>2. /\ pc = "resend" /\ ResentSoFar(at', request') => ResentSoFar(at, request)
        /\ pc = "apply" /\ at' \in {"poll", "polled", "drained"} => at \in {"poll", "polled", "drained"}
    BY <1>a DEF ResentSoFar, Steps
  <2>3. UNCHANGED Composition /\ UNCHANGED <<stored, held, fresh, power, applies>>
    OBVIOUS
  <2> HIDE <1>2
  <2> QED
    BY <1>a, <2>1, <2>2, <2>3, AdoptTransport
<1>4. CASE CommandAnswered
  <2> USE <1>4 DEF CommandAnswered
  <2>1. PICK a \in Incoming : Taken(a) /\ answer' = a
    OBVIOUS
  <2>2. Queried'
    <3>1. CASE Hears("answer") /\ a = Head(rx).answer
      <4>1. 1 \in DOMAIN rx /\ rx[1].line = "answer" /\ a = rx[1].answer
        BY <1>a, <3>1, Shorter DEF Hears
      <4> QED
        BY <1>a, <2>1, <4>1 DEF Queried, IsAnswer
    <3>2. CASE a = TimedOut
      BY <2>1, <3>2 DEF Queried, TimedOut, Answer
    <3> QED
      BY <2>1, <3>1, <3>2 DEF Taken
  <2>3. request = NoRequest
    BY <2>1, TakesAnswer DEF Taken, Lost
  <2> QED
    BY <1>a, <2>2, <2>3, AdoptTransport DEF ResentSoFar, Steps
<1>5. CASE DrainNothing \/ DrainWrites \/ DrainWritten
  <2> USE <1>5 DEF DrainNothing, DrainWrites, DrainWritten, TailDone, DrainAt
  <2>1. at' \in {"out", "drained", at} /\ (at = "answered" => at' # "drained") /\ at \in {"polled", "answered"}
    BY <1>a
  <2>2. UNCHANGED Composition /\ UNCHANGED <<stored, held, fresh, power, applies, answer>>
    OBVIOUS
  <2>3. at = "polled" => at' # "out"
    BY <1>a
  <2> HIDE <1>5
  <2>4. Queried' /\ at' \in Steps
    BY <1>a, <2>1, <2>2, <2>3 DEF Queried, Steps
  <2> QED
    BY <1>a, <2>1, <2>2, <2>3, <2>4, AdoptTransport DEF ResentSoFar
<1>3. CASE PollDone
  <2> USE <1>3 DEF PollDone, Send, Polling
  <2>1. \A i \in DOMAIN rx : ~IsAnswer(i)
    BY DEF ReadyInv, Asking, DrainAt
  <2>2. Queried' /\ at' \in Steps
    BY <2>1 DEF Queried, IsAnswer, Steps
  <2>3. CASE pc # "apply"
    <3>1. pc = "resend" => OpAt = "resend"
      BY DEF OpAt
    <3>2. ASSUME pc = "resend", fresh  PROVE ~ResentSoFar(at', request')
      <4>1. at' = "sent" /\ request' = [op |-> OpAt, arg |-> index]
        BY <1>a, <3>2
      <4>2. request'.op = "resend"
        BY <3>1, <3>2, <4>1
      <4> QED
        BY <4>1, <4>2 DEF ResentSoFar, NoRequest
    <3> QED
      BY <1>a, <2>2, <2>3, <3>2, AdoptTransport
  <2>4. CASE pc = "apply"
    <3> USE <2>4 DEF AdoptInv
    <3>1. Objects' /\ Resending' /\ Settled'
      BY <2>2 DEF Objects, Resending, Settled, DeclaredSet
    <3>2. applies <= Cardinality(gone) /\ applies \in Nat
      BY DEF Budget, Objects
    <3>3. Cardinality(gone) \in Nat
      BY FS_Subset, FS_CardinalityType, ReconcileAssumption DEF Objects, ReconcileAssumption
    <3>4. AppliesBounded' /\ Budget'
      BY <3>2, <3>3 DEF AppliesBounded, Budget, DeclaredTypes
    <3>5. Settled => ~settled
      BY DEF Settled
    <3> QED
      BY <2>2, <3>1, <3>4, <3>5 DEF Objects, AdoptedIds, StateResent
  <2> QED
    BY <2>3, <2>4
<1> QED
  BY <1>1, <1>2, <1>3, <1>4, <1>5

\* The co-processor: what it answers a query with is what it stores, and it
\* stores another composition only after an apply.
LEMMA AdoptCoproc ==
  ASSUME ReadyInv, AdoptInv, CoprocStep \/ Reboots
  PROVE  AdoptInv'
<1> USE DEF deviceRest, registry, link, device, Composition
<1>a. /\ at \in Steps /\ (fresh => power # "down") /\ Queried
      /\ rx \in Seq(StreamLines) /\ stored \in Seq(Types)
  BY DEF AdoptInv, Objects, Resending, ReadyInv, Kinds
<1>b. Ops = {"AT+MTEP?", "AT+MTFABRICS?", "AT+MTEVT?", "AT+MTEPCLEAR", "AT+MTEP=",
             "AT+MTEPAPPLY", "resend", "AT+MTEVT="}
  BY DEF Ops, Queries
<1>1. ASSUME NEW op \in Ops,
             NEW a \in [rc : {"none", "ok", "error", "timeout"}, list : Seq(Types)],
             Serve(op, a), op = "AT+MTEP?" => a.list = stored,
             UNCHANGED <<deviceRest, stored>>, fresh' => power' # "down",
             fresh' => fresh \/ op = "AT+MTEP?",
             held' = IF op = "resend" THEN held \cup {request.arg} ELSE held
      PROVE  AdoptInv'
  <2>1. /\ op \notin {"AT+MTEVT?", "AT+MTEVT="} =>
             drain = "none" /\ at = "sent" /\ op = OpAt /\ request.arg = index
        /\ rx' \in Seq(StreamLines) /\ Len(rx') \in DOMAIN rx' /\ request' = NoRequest
        /\ \A i \in DOMAIN rx' : rx'[i].line = "answer" <=> i = Len(rx')
        /\ drain = "none" => at = "sent"
    BY <1>1, Serves
  <2>2. rx' = Append(rx, Line(a)) /\ request # NoRequest
    BY <1>1, <1>b DEF Serve, NoRequest
  <2>3. at = "sent" => op = OpAt /\ request.arg = index
    BY <1>1, <2>2 DEF ReadyInv, Asking, Serve
  <2>4. Queried'
    <3>1. ASSUME pc = "query", at = "sent"  PROVE a.list = stored
      BY <1>1, <2>3, <3>1 DEF OpAt
    <3>2. rx'[Len(rx')] = Line(a) /\ Line(a).answer = a
      <4>1. Line(a) \in StreamLines /\ Line(a).answer = a
        BY <1>1 DEF Line, StreamLines
      <4> QED
        BY <1>a, <2>2, <4>1, Longer
    <3> QED
      BY <1>1, <1>a, <2>1, <3>1, <3>2 DEF Queried, IsAnswer
  <2>5. pc = "resend" /\ ResentSoFar(at', request') => ResentSoFar(at, request) \/ index \in held'
    <3>1. ASSUME pc = "resend", at = "sent"  PROVE op = "resend"
      BY <2>3, <3>1 DEF OpAt
    <3> QED
      BY <1>1, <2>3, <3>1 DEF ResentSoFar
  <2>6. CASE pc = "query" /\ at = "sent"
    <3> USE <1>1, <2>6 DEF AdoptInv
    <3>1. Objects' /\ Resending' /\ Settled' /\ Budget'
      BY DEF Objects, Resending, Settled, Budget, DeclaredSet, DeclaredTypes
    <3>2. ~settled
      BY DEF Settled
    <3> QED
      BY <2>4, <3>1, <3>2 DEF AdoptedIds, StateResent, AppliesBounded
  <2>7. CASE ~(pc = "query" /\ at = "sent")
    <3>1. ASSUME op = "AT+MTEP?"  PROVE FALSE
      <4>1. at = "sent" /\ OpAt = "AT+MTEP?" /\ pc # "query" /\ pc \in Places /\ ~Polling
        BY <2>1, <2>7, <3>1 DEF ReadyInv, Kinds, Asking
      <4> QED
        BY <4>1 DEF OpAt, Places, Polling
    <3>2. held \subseteq held' /\ (fresh' => fresh)
      BY <1>1, <3>1
    <3> QED
      BY <1>1, <1>a, <2>4, <2>5, <3>2, AdoptTransport
  <2> QED
    BY <2>6, <2>7
<1>2. CASE ServeStep
  <2>1. CASE ServeQuery
    BY <1>1, <1>a, <1>b, <2>1, Answers DEF ServeQuery, Answer, Serve
  <2>2. CASE TakeMask \/ RefuseMask \/ ServeResend
    BY <1>1, <1>a, <1>b, <2>2, Answers DEF TakeMask, RefuseMask, ServeResend, Serve
  <2>3. CASE ServeClear
    BY <1>1, <1>a, <1>b, <2>3, Answers DEF ServeClear, Serve
  <2>4. CASE ServeWrite
    <3>1. \E a \in {Ok, Refused} : Serve("AT+MTEP=", a)
      BY <2>4 DEF ServeWrite
    <3>2. /\ UNCHANGED <<deviceRest, fresh, stored, power, held>>
          /\ {Ok, Refused} \subseteq [rc : {"none", "ok", "error", "timeout"}, list : Seq(Types)]
      BY <1>a, <2>4, Answers DEF ServeWrite
    <3> QED
      BY <1>1, <1>a, <1>b, <3>1, <3>2
  <2>5. CASE ServeApply
    BY <1>1, <1>a, <1>b, <2>5, Answers DEF ServeApply, Serve
  <2> QED
    BY <1>2, <2>1, <2>2, <2>3, <2>4, <2>5 DEF ServeStep
<1>3. CASE GoesDown \/ Reboots
  <2> USE <1>3 DEF GoesDown, Reboots, Down, AdoptInv
  <2>1. Objects' /\ Queried' /\ Settled' /\ Budget' /\ Resending'
    BY DEF Objects, Queried, Settled, Budget, Resending, DeclaredSet, DeclaredTypes, IsAnswer
  <2> QED
    BY <2>1 DEF AdoptedIds, StateResent, AppliesBounded, DeclaredSet
<1>4. CASE ComesUp
  <2> USE <1>4 DEF ComesUp
  <2>1. CASE stored' = stored
    <3>1. rx' = Append(rx, Ready) /\ Ready.line = "+MTREADY" /\ Ready \in StreamLines
      BY <1>a, EmptySeq DEF Ready, StreamLines, NoAnswer
    <3>2. Queried'
      BY <1>a, <2>1, <3>1, Longer DEF Queried, IsAnswer
    <3>3. pc = "resend" /\ ResentSoFar(at', request') => ResentSoFar(at, request)
      BY DEF ResentSoFar
    <3> QED
      BY <1>a, <2>1, <3>2, <3>3, AdoptTransport
  <2>2. CASE stored' # stored
    <3>1. applying
      BY <2>2
    <3>2. pc \in {"apply", "wait"} \/ failed
      BY <3>1 DEF ReadyInv, Applied
    <3>3. pc \in {"apply", "wait"} \/ pc = "loop"
      BY <3>2 DEF ReadyInv, Applied
    <3> USE <3>2, <3>3 DEF AdoptInv
    <3>4. ~settled
      BY DEF Settled
    <3>5. Objects' /\ Queried' /\ Settled' /\ Budget' /\ Resending'
      BY <1>a DEF Objects, Queried, Settled, Budget, Resending, DeclaredSet, DeclaredTypes
    <3> QED
      BY <3>4, <3>5 DEF AdoptedIds, StateResent, AppliesBounded
  <2> QED
    BY <2>1, <2>2
<1> QED
  BY <1>2, <1>3, <1>4 DEF CoprocStep

\* The sketch declares and destroys objects between its calls.
LEMMA AdoptSketch ==
  ASSUME ReadyInv, AdoptInv, SketchStep
  PROVE  AdoptInv'
<1> USE DEF registry, link, device, history, Idle
<1>a. /\ declared \in Seq(Endpoints) /\ Len(declared) \in Nat /\ DOMAIN declared = 1 .. Len(declared)
      /\ \A i \in DOMAIN declared : declared[i] \in Endpoints
  BY LenProperties, ElementOfSeq DEF ReadyInv, Kinds
<1>b. IsFiniteSet(gone) /\ Cardinality(gone) \in Nat
  BY FS_Subset, FS_CardinalityType, ReconcileAssumption DEF AdoptInv, Objects, ReconcileAssumption
<1>1. CASE DeclareEndpoint
  <2> USE DEF AdoptInv
  <2>1. PICK e \in Endpoints \ (DeclaredSet \cup gone) : declared' = Append(declared, e)
    BY <1>1 DEF DeclareEndpoint
  <2>2. /\ DOMAIN declared' = 1 .. Len(declared) + 1 /\ declared'[Len(declared) + 1] = e
        /\ \A i \in 1 .. Len(declared) : declared'[i] = declared[i]
    BY <1>a, <2>1, AppendProperties
  <2> USE <1>1 DEF DeclareEndpoint
  <2>3. Objects'
    <3>1. DeclaredSet' \subseteq DeclaredSet \cup {e}
      BY <1>a, <2>2 DEF DeclaredSet
    <3>2. \A i \in DOMAIN declared : declared[i] # e
      BY <2>1 DEF DeclaredSet
    <3>3. \A i, j \in DOMAIN declared' : declared'[i] = declared'[j] => i = j
      BY <1>a, <2>2, <3>2 DEF Objects
    <3> QED
      BY <2>1, <3>1, <3>3 DEF Objects
  <2>4. ~settled /\ ~reconciled
    BY DEF Settled
  <2>5. Settled' /\ AppliesBounded' /\ AdoptedIds' /\ StateResent'
    BY <2>4 DEF Settled, AppliesBounded, AdoptedIds, StateResent
  <2>6. Queried' /\ Resending' /\ Budget'
    BY <2>4 DEF Queried, Resending, Budget
  <2> QED
    BY <2>3, <2>5, <2>6
<1>2. CASE DestroyEndpoint
  <2> USE DEF AdoptInv
  <2>1. PICK k \in DOMAIN declared :
          /\ declared' = [i \in 1 .. Len(declared) - 1 |->
                            IF i < k THEN declared[i] ELSE declared[i + 1]]
          /\ gone' = gone \cup {declared[k]}
    BY <1>2 DEF DestroyEndpoint
  <2> USE <1>2 DEF DestroyEndpoint
  <2>2. /\ k \in 1 .. Len(declared) /\ DOMAIN declared' = 1 .. Len(declared) - 1
        /\ \A i \in 1 .. Len(declared) - 1 :
             declared'[i] = IF i < k THEN declared[i] ELSE declared[i + 1]
    BY <1>a, <2>1
  <2>3. \A i \in DOMAIN declared' :
          \E j \in DOMAIN declared : j # k /\ declared'[i] = declared[j] /\ j = IF i < k THEN i ELSE i + 1
    BY <1>a, <2>2
  <2>4. DeclaredSet' \subseteq DeclaredSet \ {declared[k]} /\ declared[k] \in DeclaredSet
    BY <1>a, <2>1, <2>3 DEF DeclaredSet, Objects
  <2>5. Objects'
    <3> DEFINE From(i) == IF i < k THEN i ELSE i + 1
    <3>1. \A i \in DOMAIN declared' : From(i) \in DOMAIN declared /\ declared'[i] = declared[From(i)]
      BY <1>a, <2>2
    <3>2. \A i, j \in DOMAIN declared' : From(i) = From(j) => i = j
      BY <1>a, <2>2
    <3>3. \A i, j \in DOMAIN declared : declared[i] = declared[j] => i = j
      BY DEF Objects
    <3> HIDE DEF From
    <3>4. \A i, j \in DOMAIN declared' : declared'[i] = declared'[j] => i = j
      BY <3>1, <3>2, <3>3
    <3> QED
      BY <1>a, <2>1, <2>4, <3>4 DEF Objects
  <2>6. Cardinality(gone') = Cardinality(gone) + 1
    BY <1>b, <2>1, <2>4, FS_AddElement DEF Objects
  <2>7. applies \in Nat /\ applies <= Cardinality(gone')
    BY <1>b, <2>6 DEF Objects, AppliesBounded
  <2>8. Settled' /\ AppliesBounded' /\ AdoptedIds' /\ StateResent'
    BY <1>b, <2>4, <2>6, <2>7 DEF Settled, AppliesBounded, AdoptedIds, StateResent
  <2>9. Queried' /\ Resending' /\ Budget'
    BY <2>7 DEF Queried, Resending, Budget
  <2> QED
    BY <2>5, <2>8, <2>9
<1>3. CASE RegisterCallback
  BY <1>3, AdoptLink
<1>4. CASE Begin
  <2> USE <1>4 DEF Begin, Calls, beginRest, AdoptInv
  <2>1. Objects' /\ Settled' /\ AppliesBounded' /\ AdoptedIds' /\ StateResent'
    BY DEF Objects, Settled, AppliesBounded, AdoptedIds, StateResent, DeclaredSet, Steps
  <2>2. Queried' /\ Resending' /\ Budget'
    BY DEF Queried, Resending, Budget, DeclaredTypes
  <2> QED
    BY <2>1, <2>2
<1> QED
  BY <1>1, <1>2, <1>3, <1>4 DEF SketchStep

\* The end of a reconcile, and the step to its next endpoint.
LEMMA AdoptsNext ==
  ASSUME ReadyInv, AdoptInv, NEW i \in Nat, Adopts(i), UNCHANGED beginRest,
         UNCHANGED <<begins, attempt, failed, expecting, seen, fresh>>,
         pc \in {"query", "resend"}, at = "out", i >= 1, ~failed, stored = DeclaredTypes,
         i <= Len(declared) + 1,
         \A j \in 1 .. i - 1 : id[declared[j]] = j,
         fresh => \A j \in 1 .. i - 1 : j \in held
  PROVE  AdoptInv'
<1> USE DEF AdoptInv, beginRest, device
<1>a. /\ declared \in Seq(Endpoints) /\ Len(declared) \in Nat /\ DOMAIN declared = 1 .. Len(declared)
      /\ \A k \in DOMAIN declared : declared[k] \in Endpoints
      /\ id \in [Endpoints -> Nat] /\ \A k, j \in DOMAIN declared : declared[k] = declared[j] => k = j
  BY LenProperties, ElementOfSeq DEF ReadyInv, Kinds, Objects
<1>b. ~settled
  BY DEF Settled
<1>1. CASE i <= Len(declared)
  <2> USE <1>1 DEF Adopts, Calls
  <2>1. i \in DOMAIN declared /\ \A j \in 1 .. i : id'[declared[j]] = j
    BY <1>a
  <2>2. Objects'
    BY <1>a, <2>1 DEF Objects, DeclaredSet, Steps
  <2>3. Resending'
    BY <2>1 DEF Resending, DeclaredTypes
  <2>4. Queried' /\ Settled' /\ Budget'
    BY <1>b DEF Queried, Settled, Budget, DeclaredTypes
  <2> QED
    BY <1>b, <2>2, <2>3, <2>4 DEF AdoptedIds, StateResent, AppliesBounded
<1>2. CASE ~(i <= Len(declared))
  <2> USE <1>2 DEF Adopts, BeginReturns
  <2>1. \A j \in DOMAIN declared : id[declared[j]] = j /\ (fresh => j \in held)
    BY <1>a
  <2>2. Objects' /\ Resending' /\ Queried' /\ Settled' /\ AppliesBounded'
    BY DEF Objects, DeclaredSet, Resending, Queried, Settled, AppliesBounded
  <2>3. Budget'
    BY DEF Budget, DeclaredTypes
  <2>4. AdoptedIds' /\ StateResent'
    <3>1. \A e \in DeclaredSet : \E j \in DOMAIN declared : e = declared[j] /\ id[e] = j
      BY <2>1 DEF DeclaredSet
    <3>2. DOMAIN stored = DOMAIN declared /\ \A j \in DOMAIN declared : stored[j] = TypeOf[declared[j]]
      BY DEF DeclaredTypes
    <3> QED
      BY <2>1, <3>1, <3>2 DEF AdoptedIds, StateResent, DeclaredSet
  <2> QED
    BY <2>2, <2>3, <2>4
<1> QED
  BY <1>1, <1>2

\* The steps of begin().
LEMMA AdoptBegin ==
  ASSUME ReadyInv, AdoptInv,
         \/ QueryReturned \/ ResendReturned \/ FabricsReturned \/ ClearReturned
         \/ WriteReturned \/ ApplyReturned \/ WaitPolls \/ WaitSeen \/ WaitTimeout
  PROVE  AdoptInv'
<1> USE DEF AdoptInv
<1>a. /\ ~settled \/ pc = "loop"
      /\ failed => pc = "loop"
      /\ attempt \in Nat /\ applies \in Nat /\ index \in Nat /\ at \in Steps
      /\ declared \in Seq(Endpoints) /\ Len(declared) \in Nat /\ DOMAIN declared = 1 .. Len(declared)
  BY LenProperties DEF Settled, ReadyInv, Applied, Objects, Kinds
\* A step that returns, or goes on to a command that is not the resend.
<1>0. ASSUME pc # "loop", UNCHANGED <<declared, gone, id, stored, held, fresh, power, rx, applies,
                                      answer, request, settled, reconciled>>,
             at' \in {at, "poll", "out"}, pc' # "resend", pc' = "query" => at' = "poll",
             attempt' \in Nat, Budget'
      PROVE  AdoptInv'
  <2>1. Objects' /\ Settled' /\ Queried' /\ Resending'
    BY <1>0, <1>a DEF Objects, Settled, Queried, Resending, DeclaredSet, Steps
  <2> QED
    BY <1>0, <1>a, <2>1 DEF AdoptedIds, StateResent, AppliesBounded
<1>1. CASE QueryReturned
  <2> USE <1>1 DEF QueryReturned, Returned
  <2>1. CASE answer.rc = "ok" /\ Identical(answer.list)
    <3>1. stored = DeclaredTypes
      BY <2>1 DEF Queried, Identical
    <3>2. Adopts(1) /\ UNCHANGED failed
      BY <2>1
    <3>3. \A j \in 1 .. 1 - 1 : FALSE
      OBVIOUS
    <3> QED
      BY <1>a, <3>1, <3>2, <3>3, AdoptsNext
  <2>2. CASE ~(answer.rc = "ok" /\ Identical(answer.list))
    <3>1. Abort \/ (Calls("fabrics") /\ MayApply /\ UNCHANGED failed /\ answer.rc = "ok")
      BY <2>2
    <3>2. ASSUME Calls("fabrics"), MayApply, answer.rc = "ok"
          PROVE  attempt = 0 /\ applies <= Cardinality(gone)
      <4>1. stored # DeclaredTypes
        BY <2>2, <3>2 DEF Queried, Identical
      <4>2. attempt = 0
        BY <1>a, <3>2 DEF MayApply, Rounds
      <4> QED
        BY <4>1, <4>2 DEF Budget
    <3>3. Budget'
      BY <3>1, <3>2 DEF Budget, Abort, BeginReturns, Calls, beginRest
    <3> QED
      BY <1>0, <1>a, <2>2, <3>1, <3>3 DEF Abort, BeginReturns, Calls, beginRest, device
  <2> QED
    BY <2>1, <2>2
<1>2. CASE ResendReturned
  <2> USE <1>2 DEF ResendReturned, Returned
  <2>1. /\ index \in DOMAIN declared /\ stored = DeclaredTypes
        /\ \A j \in 1 .. index : id[declared[j]] = j
        /\ fresh => \A j \in 1 .. index : j \in held
    BY <1>a DEF Resending
  <2>2. (index + 1) - 1 = index /\ index + 1 \in Nat /\ index + 1 >= 1 /\ index + 1 <= Len(declared) + 1
    BY <1>a, <2>1
  <2> QED
    BY <1>a, <2>1, <2>2, AdoptsNext
<1>3. CASE FabricsReturned
  <2> USE <1>3 DEF FabricsReturned, Returned, Calls, beginRest, device
  <2>1. Budget'
    BY DEF Budget
  <2> QED
    BY <1>0, <1>a, <2>1
<1>4. CASE ClearReturned \/ WriteReturned
  <2> USE <1>4 DEF ClearReturned, WriteReturned, Returned, WritesFrom, Abort, BeginReturns, Calls,
                   beginRest, device
  <2>1. pc' \in {"loop", "write", "apply"} /\ (pc' = "loop" => failed') /\ at' \in {at, "poll", "out"}
    OBVIOUS
  <2>2. pc \in {"clear", "write"} /\ attempt' = attempt
        /\ UNCHANGED <<declared, gone, id, stored, held, fresh, power, rx, applies,
                       answer, request, settled, reconciled>>
    OBVIOUS
  <2> HIDE <1>4
  <2>3. Budget'
    BY <2>1, <2>2 DEF Budget
  <2> QED
    BY <1>0, <1>a, <2>1, <2>2, <2>3
<1>5. CASE ApplyReturned
  <2> USE <1>5 DEF ApplyReturned, Returned, Abort, BeginReturns, beginRest, device
  <2>1. Budget'
    BY DEF Budget
  <2> QED
    BY <1>0, <1>a, <2>1
<1>6. CASE WaitPolls
  <2> USE <1>6 DEF WaitPolls, Returned, Calls, beginRest, device
  <2>1. Budget'
    BY DEF Budget
  <2> QED
    BY <1>0, <1>a, <2>1
<1>7. CASE WaitSeen
  <2> USE <1>7 DEF WaitSeen, Returned, Calls, beginRest, device
  <2>1. Budget'
    BY <1>a DEF Budget
  <2> QED
    BY <1>0, <1>a, <2>1
<1>8. CASE WaitTimeout
  <2> USE <1>8 DEF WaitTimeout, beginRest, device
  <2>1. Budget'
    BY DEF Budget
  <2> QED
    BY <1>0, <1>a, <2>1
<1> QED
  BY <1>1, <1>2, <1>3, <1>4, <1>5, <1>6, <1>7, <1>8

LEMMA AdoptStep == ReadyInv /\ AdoptInv /\ [Next]_vars => AdoptInv'
<1> SUFFICES ASSUME ReadyInv, AdoptInv, [Next]_vars
             PROVE  AdoptInv'
  OBVIOUS
<1>1. CASE LibraryStep \/ SketchPolls \/ WaitTimeout \/ ArmExpires
  BY <1>1, AdoptLink, AdoptBegin DEF LibraryStep
<1>2. CASE SketchStep
  BY <1>2, AdoptSketch
<1>3. CASE CoprocStep \/ Reboots
  BY <1>3, AdoptCoproc
<1>4. CASE UNCHANGED vars
  <2> USE <1>4 DEF vars, registry, link, device, history, AdoptInv
  <2>1. Objects' /\ Queried' /\ Resending' /\ Settled' /\ Budget'
    BY DEF Objects, Queried, Resending, Settled, Budget, DeclaredSet, DeclaredTypes, IsAnswer
  <2> QED
    BY <2>1 DEF AdoptedIds, AppliesBounded, StateResent, DeclaredSet
<1> QED
  BY <1>1, <1>2, <1>3, <1>4 DEF Next

\* After a reconcile that ended well every object still declared holds an id of
\* its own, under which the co-processor serves its type, whatever was destroyed
\* and whenever the co-processor rebooted (MatterEndPoint.cpp:27).
THEOREM ReconcileAdoptedIds == Spec => []AdoptedIds
<1>1. AdoptInv => AdoptedIds
  BY DEF AdoptInv
<1> QED
  BY ReadyInit, ReadyStep, AdoptInit, AdoptStep, <1>1, PTL DEF Spec

\* The host applies one composition, and one more for each object destroyed: no
\* number of begin() calls or reboots makes it apply more (Hearth.cpp:1549).
THEOREM ReconcileAppliesBounded == Spec => []AppliesBounded
<1>1. AdoptInv => AppliesBounded
  BY DEF AdoptInv
<1> QED
  BY ReadyInit, ReadyStep, AdoptInit, AdoptStep, <1>1, PTL DEF Spec

\* After a reconcile that ended well the co-processor holds what every endpoint
\* resends, unless it rebooted since (MatterEndPoint.h, hearthOnReconciled()).
THEOREM ReconcileStateResent == Spec => []StateResent
<1>1. AdoptInv => StateResent
  BY DEF AdoptInv
<1> QED
  BY ReadyInit, ReadyStep, AdoptInit, AdoptStep, <1>1, PTL DEF Spec
-----------------------------------------------------------------------------
(* One endpoint, of any class, for any number of setter calls, reports,     *)
(* forwarded commands, refusals, lost lines and reboots.  HearthEndpointInv *)
(* has the invariant and what its parts say.                                *)
(*                                                                          *)
(* The argument: what is under way between a field and its attribute is on  *)
(* the wire in order, the reports first and the OK of the command behind    *)
(* them.  Read to its end it leaves the field as the attribute is (Tracks), *)
(* unless a step left a reason in the field's history; so a field without a *)
(* reason agrees once nothing is under way.  A flagged field needs more: a  *)
(* report of it must bring it up to date whatever happened before.          *)

-----------------------------------------------------------------------------
(* Lines.                                                                   *)

\* What a sequence is that lists a finite set.
LEMMA Listed ==
  ASSUME NEW S, IsFiniteSet(S)
  PROVE  /\ SetToSeq(S) \in Seq(S)
         /\ {SetToSeq(S)[i] : i \in 1 .. Len(SetToSeq(S))} = S
<1> DEFINE n == Cardinality(S)
           Listings == {f \in [1 .. n -> S] : IsInjective(f)}
<1>1. n \in Nat
  BY FS_CardinalityType
<1>2. PICK b : b \in Bijection(1 .. n, S)
  BY FS_CardinalityType DEF ExistsBijection
<1>3. b \in Listings
  BY <1>2 DEF Bijection, Injection, IsInjective
<1>4. SetToSeq(S) = CHOOSE f \in [1 .. n -> S] : IsInjective(f)
  BY DEF SetToSeq
<1>5. SetToSeq(S) \in [1 .. n -> S] /\ IsInjective(SetToSeq(S))
  BY <1>3, <1>4
<1>6. SetToSeq(S) \in Injection(1 .. n, S)
  BY <1>5 DEF Injection, IsInjective
<1>7. IsFiniteSet(1 .. n) /\ Cardinality(1 .. n) = n
  BY <1>1, FS_Interval
<1>8. SetToSeq(S) \in Surjection(1 .. n, S)
  BY <1>6, <1>7, FS_Injection
<1> HIDE DEF n
<1>9. SetToSeq(S) \in Seq(S) /\ Len(SetToSeq(S)) = n
  BY <1>1, <1>5
<1> QED
  BY <1>5, <1>8, <1>9 DEF Surjection

\* What the wire says of a field when its first line is read, and when lines
\* are added.
LEMMA LeadsRead ==
  ASSUME NEW S, NEW w \in Seq(S), w # <<>>, NEW f, NEW old, NEW v,
         Leads(w, f, old, v)
  PROVE  /\ Reaches(Head(w), f) => Leads(Tail(w), f, Head(w).v, v)
         /\ ~Reaches(Head(w), f) => Leads(Tail(w), f, old, v)
<1> DEFINE t == Tail(w)
<1>0. /\ Len(w) \in Nat \ {0} /\ t \in Seq(S) /\ Len(t) = Len(w) - 1
      /\ Head(w) = w[1]
      /\ \A i \in 1 .. Len(t) : t[i] = w[i + 1]
  OBVIOUS
<1>1. /\ DOMAIN t = 1 .. Len(t) /\ DOMAIN w = 1 .. Len(w)
  BY <1>0
<1> HIDE DEF t
<1>2. CASE old = v /\ \A i \in DOMAIN w : ~Reaches(w[i], f)
  <2>1. \A i \in DOMAIN t : i + 1 \in DOMAIN w /\ ~Reaches(t[i], f)
    BY <1>0, <1>1, <1>2
  <2>2. ~Reaches(Head(w), f)
    BY <1>0, <1>1, <1>2
  <2> QED
    BY <1>2, <2>1, <2>2 DEF Leads, t
<1>3. ASSUME NEW i \in DOMAIN w, Reaches(w[i], f),
             \A j \in i .. Len(w) : Reaches(w[j], f) => w[j].v = v
      PROVE  /\ Reaches(Head(w), f) => Leads(t, f, Head(w).v, v)
             /\ ~Reaches(Head(w), f) => Leads(t, f, old, v)
  <2>1. CASE i = 1
    <3>1. Reaches(Head(w), f) /\ Head(w).v = v
      BY <1>0, <1>1, <1>3, <2>1
    <3>2. \A j \in DOMAIN t : Reaches(t[j], f) => t[j].v = v
      BY <1>0, <1>1, <1>3, <2>1
    <3>3. CASE \A j \in DOMAIN t : ~Reaches(t[j], f)
      BY <3>1, <3>3 DEF Leads
    <3>4. CASE \E j \in DOMAIN t : Reaches(t[j], f)
      <4>1. PICK j \in DOMAIN t : Reaches(t[j], f)
        BY <3>4
      <4>2. \A k \in j .. Len(t) : k \in DOMAIN t
        BY <1>0, <1>1, <4>1
      <4> QED
        BY <3>1, <3>2, <4>1, <4>2 DEF Leads
    <3> QED
      BY <3>3, <3>4
  <2>2. CASE i # 1
    <3>1. i - 1 \in DOMAIN t /\ t[i - 1] = w[i]
      BY <1>0, <1>1, <2>2
    <3>2. \A j \in (i - 1) .. Len(t) : j + 1 \in i .. Len(w) /\ t[j] = w[j + 1]
      BY <1>0, <1>1, <2>2
    <3>3. \A j \in (i - 1) .. Len(t) : Reaches(t[j], f) => t[j].v = v
      BY <1>3, <3>2
    <3> QED
      BY <1>3, <3>1, <3>3 DEF Leads
  <2> QED
    BY <2>1, <2>2
<1> QED
  BY <1>2, <1>3 DEF Leads, t

\* Lines that say nothing of the field.
LEMMA LeadsOther ==
  ASSUME NEW S, NEW w \in Seq(S), NEW e \in Seq(S), NEW f, NEW old, NEW v,
         Leads(w, f, old, v), \A i \in DOMAIN e : ~Reaches(e[i], f)
  PROVE  Leads(w \o e, f, old, v)
<1> DEFINE u == w \o e
<1>0. /\ Len(w) \in Nat /\ Len(e) \in Nat /\ Len(u) = Len(w) + Len(e)
      /\ DOMAIN u = 1 .. Len(u) /\ DOMAIN w = 1 .. Len(w) /\ DOMAIN e = 1 .. Len(e)
      /\ \A i \in 1 .. Len(w) : u[i] = w[i]
      /\ \A i \in 1 .. Len(u) : i > Len(w) => i - Len(w) \in 1 .. Len(e) /\ u[i] = e[i - Len(w)]
  OBVIOUS
<1> HIDE DEF u
<1>1. \A i \in 1 .. Len(u) : Reaches(u[i], f) => i \in DOMAIN w /\ u[i] = w[i]
  BY <1>0
<1>2. CASE old = v /\ \A i \in DOMAIN w : ~Reaches(w[i], f)
  <2>1. \A i \in DOMAIN u : ~Reaches(u[i], f)
    BY <1>0, <1>1, <1>2
  <2> QED
    BY <1>2, <2>1 DEF Leads, u
<1>3. ASSUME NEW i \in DOMAIN w, Reaches(w[i], f),
             \A j \in i .. Len(w) : Reaches(w[j], f) => w[j].v = v
      PROVE  Leads(u, f, old, v)
  <2>1. i \in DOMAIN u /\ u[i] = w[i]
    BY <1>0
  <2>2. \A j \in i .. Len(u) : Reaches(u[j], f) => j \in i .. Len(w) /\ u[j] = w[j]
    BY <1>0, <1>1
  <2> QED
    BY <1>3, <2>1, <2>2 DEF Leads
<1> QED
  BY <1>2, <1>3 DEF Leads, u

\* Lines that say what the attribute now holds.
LEMMA LeadsAdded ==
  ASSUME NEW S, NEW w \in Seq(S), NEW e \in Seq(S), NEW f, NEW old, NEW v,
         \E i \in DOMAIN e : Reaches(e[i], f),
         \A i \in DOMAIN e : Reaches(e[i], f) => e[i].v = v
  PROVE  Leads(w \o e, f, old, v)
<1> DEFINE u == w \o e
<1>0. /\ Len(w) \in Nat /\ Len(e) \in Nat /\ Len(u) = Len(w) + Len(e)
      /\ DOMAIN u = 1 .. Len(u) /\ DOMAIN w = 1 .. Len(w) /\ DOMAIN e = 1 .. Len(e)
      /\ \A i \in 1 .. Len(e) : u[Len(w) + i] = e[i]
      /\ \A i \in 1 .. Len(u) : i > Len(w) => i - Len(w) \in 1 .. Len(e) /\ u[i] = e[i - Len(w)]
  OBVIOUS
<1> HIDE DEF u
<1>1. PICK i \in DOMAIN e : Reaches(e[i], f)
  OBVIOUS
<1>2. Len(w) + i \in DOMAIN u /\ u[Len(w) + i] = e[i]
  BY <1>0, <1>1
<1>3. \A j \in (Len(w) + i) .. Len(u) : j \in 1 .. Len(u) /\ j > Len(w)
  BY <1>0, <1>1
<1>4. \A j \in (Len(w) + i) .. Len(u) : Reaches(u[j], f) => u[j].v = v
  <2> TAKE j \in (Len(w) + i) .. Len(u)
  <2>1. j - Len(w) \in DOMAIN e /\ u[j] = e[j - Len(w)]
    BY <1>0, <1>3
  <2> QED
    BY <2>1
<1> QED
  BY <1>1, <1>2, <1>4 DEF Leads, u

\* Nothing is left to be read.
LEMMA LeadsEnd ==
  ASSUME NEW f, NEW old, NEW v
  PROVE  Leads(<<>>, f, old, v) <=> old = v
  BY DEF Leads

\* A wire whose last report of a field has the value v still does when its first
\* line is lost.
LEMMA LeadsLost ==
  ASSUME NEW S, NEW w \in Seq(S), w # <<>>, NEW f, NEW old, NEW v,
         Leads(w, f, old, v), \E i \in DOMAIN Tail(w) : Reaches(Tail(w)[i], f)
  PROVE  Leads(Tail(w), f, old, v)
<1>1. CASE ~Reaches(Head(w), f)
  BY <1>1, LeadsRead
<1>2. CASE Reaches(Head(w), f)
  <2>1. Leads(Tail(w), f, Head(w).v, v)
    BY <1>2, LeadsRead
  <2> QED
    BY <2>1 DEF Leads
<1> QED
  BY <1>1, <1>2

\* The lines that report w, one for each attribute the class listens to.
LEMMA EchoLines ==
  ASSUME WellMade, NEW w, \A a \in DOMAIN w \cap DOMAIN C.hears : w[a] \in Bit
  PROVE  /\ Echo(w) \in Seq(Lines)
         /\ \A i \in DOMAIN Echo(w) : \E a \in DOMAIN w \cap DOMAIN C.hears :
              Echo(w)[i] = Urc(a, w[a])
         /\ \A a \in DOMAIN w \cap DOMAIN C.hears : \E i \in DOMAIN Echo(w) :
              Echo(w)[i] = Urc(a, w[a])
<1> DEFINE D == DOMAIN w \cap DOMAIN C.hears
           T == {Urc(a, w[a]) : a \in D}
           e == SetToSeq(T)
<1>1. IsFiniteSet(DOMAIN C.hears)
  BY DEF WellMade, WellTyped
<1>2. IsFiniteSet(D)
  BY <1>1, FS_Subset
<1>3. [a \in D |-> Urc(a, w[a])] \in Surjection(D, T)
  BY DEF Surjection
<1>4. IsFiniteSet(T)
  BY <1>2, <1>3, FS_Surjection
<1> HIDE DEF T
<1>5. /\ e \in Seq(T) /\ {e[i] : i \in 1 .. Len(e)} = T
  BY <1>4, Listed
<1>6. DOMAIN e = 1 .. Len(e)
  BY <1>5
<1>7. \A x \in T : \E a \in D : x = Urc(a, w[a])
  BY DEF T
<1>8. \A a \in D : Urc(a, w[a]) \in T
  BY DEF T
<1>9. T \subseteq Lines
  <2>1. \A a \in D : Urc(a, w[a]) \in [t : {"urc"}, a : DOMAIN C.hears, v : Bit]
    BY DEF Urc
  <2> QED
    BY <1>7, <2>1 DEF Lines
<1>10. Echo(w) = e
  BY DEF Echo, T
<1> HIDE DEF e
<1> QED
  BY <1>5, <1>6, <1>7, <1>8, <1>9, <1>10

\* The lines that report w say of a field what w has for the attributes that
\* reach it.
LEMMA EchoSays ==
  ASSUME WellMade, NEW w, \A a \in DOMAIN w \cap DOMAIN C.hears : w[a] \in Bit
  PROVE  /\ \A i \in DOMAIN Echo(w) : Echo(w)[i].t = "urc"
         /\ \A f, i : i \in DOMAIN Echo(w) /\ Reaches(Echo(w)[i], f) =>
              \E a \in DOMAIN w \cap DOMAIN C.hears :
                C.hears[a] = f /\ Echo(w)[i].a = a /\ Echo(w)[i].v = w[a]
         /\ \A a \in DOMAIN w \cap DOMAIN C.hears : \E i \in DOMAIN Echo(w) :
              Reaches(Echo(w)[i], C.hears[a]) /\ Echo(w)[i].v = w[a]
  BY EchoLines DEF Reaches, Urc

\* Attributes the class does not listen to are not reported.
LEMMA EchoNothing ==
  ASSUME WellMade, NEW w, DOMAIN w \cap DOMAIN C.hears = {}
  PROVE  Echo(w) = <<>>
<1> DEFINE e == Echo(w)
<1>1. e \in Seq(Lines) /\ \A i \in DOMAIN e : FALSE
  BY EchoLines
<1> HIDE DEF e
<1>2. ~(1 \in DOMAIN e) /\ Len(e) \in Nat /\ DOMAIN e = 1 .. Len(e)
  BY <1>1
<1>3. e = <<>>
  BY <1>1, <1>2
<1> QED
  BY <1>3 DEF e

\* What Blame leaves in a field.
LEMMA NotBlamed ==
  ASSUME NEW base, NEW touched, NEW reason, Blame(base, touched, reason),
         NEW f \in Fields
  PROVE  /\ why'[f] = {} =>
              \/ base[f] = {} /\ f \notin touched
              \/ AtRest' /\ cache'[f] = dev'[C.shows[f]]
         /\ why'[f] \subseteq base[f] \cup (IF f \in touched THEN {reason} ELSE {})
         /\ \/ why'[f] = base[f] \cup (IF f \in touched THEN {reason} ELSE {})
            \/ why'[f] = {} /\ AtRest' /\ cache'[f] = dev'[C.shows[f]]
<1>1. why'[f] = IF AtRest' /\ cache'[f] = dev'[C.shows[f]] THEN {}
                ELSE base[f] \cup (IF f \in touched THEN {reason} ELSE {})
  BY DEF Blame
<1> QED
  BY <1>1, Zenon

LEMMA BlameTyped ==
  ASSUME NEW base \in [Fields -> SUBSET Reasons], NEW touched, NEW reason \in Reasons,
         Blame(base, touched, reason)
  PROVE  why' \in [Fields -> SUBSET Reasons]
  BY DEF Blame

\* HostReads is one of its steps.
LEMMA HostReading ==
  ASSUME HostReads
  PROVE  ReadStep
<1>1. /\ wire # <<>> /\ wire' = Tail(wire)
      /\ UNCHANGED <<kind, used, dev, known, synced, owed, left>>
  BY DEF HostReads
<1>2. CASE Head(wire).t = "urc" /\ UNCHANGED <<callVars, verdict>> /\ Hear(Head(wire))
  BY <1>1, <1>2 DEF Hear, ReadStep, Reads, ReadTaken, ReadKept
<1>3. CASE Head(wire).t = "cmd" /\ UNCHANGED callVars /\ Judge(Head(wire).v)
  BY <1>1, <1>3 DEF Judge, ReadStep, Reads, ReadAllowed, ReadDenied
<1>4. CASE /\ Head(wire).t = "end" /\ UNCHANGED verdict
           /\ IF Head(wire).v THEN Commit ELSE Fails
           /\ Settle
  BY <1>1, <1>4 DEF ReadStep, Reads, ReadOk, ReadError
<1> QED
  BY <1>2, <1>3, <1>4 DEF HostReads

\* The class is a function of the kind.
LEMMA SameClass ==
  ASSUME kind' = kind
  PROVE  C' = C
  BY DEF C

-----------------------------------------------------------------------------
(* Types, and the command in flight.                                        *)

\* What the proofs use of the class, in the terms of its fields.
LEMMA Made ==
  ASSUME WellMade
  PROVE  /\ C.push \in Seq(Writes(C)) /\ \A s \in C.calls : s \in Seq(Writes(C))
         /\ ToSet(C.push) \subseteq Writes(C)
         /\ \A p \in Writes(C) \cup C.forwards :
              /\ DOMAIN p.to \subseteq Fields /\ \A f \in DOMAIN p.to : p.to[f] \in Bit
              /\ DOMAIN p.w \subseteq DOMAIN C.fresh
              /\ \A a \in DOMAIN p.w : p.w[a] \in Bit
         /\ \A p \in Writes(C) : p.also \subseteq Fields
         /\ C.hears \in [DOMAIN C.hears -> Fields]
         /\ C.shows \in [Fields -> DOMAIN C.fresh]
         /\ Fields = DOMAIN C.shows
<1>1. WellTyped(C) /\ WritesWell(C)
  BY DEF WellMade
<1>2. C.push \in Seq(Writes(C)) /\ \A s \in C.calls : s \in Seq(Writes(C))
  BY <1>1 DEF WellTyped
<1>3. ToSet(C.push) \subseteq Writes(C)
  BY DEF Writes
<1> QED
  BY <1>1, <1>2, <1>3 DEF WellTyped, WritesWell, Fields

\* A cache after an OK or a verdict.
LEMMA UpdatedTyped ==
  ASSUME WellMade, Typed, NEW to, DOMAIN to \subseteq Fields,
         \A f \in DOMAIN to : to[f] \in Bit
  PROVE  /\ Updated(cache, to) \in [Fields -> Value]
         /\ \A f \in Fields : cache[f] # Null => Updated(cache, to)[f] # Null
         /\ \A f \in DOMAIN to : Updated(cache, to)[f] = to[f]
         /\ \A f \in Fields \ DOMAIN to : Updated(cache, to)[f] = cache[f]
  BY DEF Updated, Typed, Value, Bit, Null

\* The attributes after a command or a verdict.
LEMMA UpdatedDevice ==
  ASSUME WellMade, Typed, NEW w, DOMAIN w \subseteq DOMAIN C.fresh,
         \A a \in DOMAIN w : w[a] \in Value
  PROVE  /\ Updated(dev, w) \in [DOMAIN C.fresh -> Value]
         /\ \A a \in DOMAIN w : Updated(dev, w)[a] = w[a]
         /\ \A a \in DOMAIN C.fresh \ DOMAIN w : Updated(dev, w)[a] = dev[a]
  BY DEF Updated, Typed

\* What a call or a push leaves, and a line less.
LEMMA TailTyped ==
  ASSUME NEW S, NEW s \in Seq(S), s # <<>>
  PROVE  /\ Tail(s) \in Seq(S) /\ Head(s) \in S /\ Len(s) \in Nat \ {0}
         /\ Head(s) = s[1] /\ 1 \in DOMAIN s /\ DOMAIN s = 1 .. Len(s)
         /\ Len(Tail(s)) = Len(s) - 1 /\ DOMAIN Tail(s) = 1 .. (Len(s) - 1)
         /\ \A i \in DOMAIN Tail(s) : i + 1 \in DOMAIN s /\ Tail(s)[i] = s[i + 1]
         /\ Tail(s) = <<>> <=> Len(s) = 1
<1>1. /\ Tail(s) \in Seq(S) /\ Head(s) \in S /\ Len(s) \in Nat \ {0}
      /\ Head(s) = s[1] /\ 1 \in DOMAIN s /\ DOMAIN s = 1 .. Len(s)
      /\ Len(Tail(s)) = Len(s) - 1
  OBVIOUS
<1>2. \A i \in 1 .. (Len(s) - 1) : i + 1 \in DOMAIN s /\ Tail(s)[i] = s[i + 1]
  BY <1>1
<1>3. DOMAIN Tail(s) = 1 .. (Len(s) - 1)
  BY <1>1
<1>4. Tail(s) = <<>> <=> Len(Tail(s)) = 0
  BY <1>1, EmptySeq
<1> QED
  BY <1>1, <1>2, <1>3, <1>4

\* The elements of a sequence, and of one with lines added.
LEMMA ElementTyped ==
  ASSUME NEW S, NEW s \in Seq(S)
  PROVE  /\ \A i \in DOMAIN s : s[i] \in S
         /\ Len(s) # 0 => s # <<>>
  OBVIOUS

LEMMA AddedTyped ==
  ASSUME NEW S, NEW s \in Seq(S), NEW e \in Seq(S)
  PROVE  /\ s \o e \in Seq(S) /\ Len(s) \in Nat /\ Len(e) \in Nat
         /\ DOMAIN s = 1 .. Len(s) /\ DOMAIN e = 1 .. Len(e)
         /\ DOMAIN (s \o e) = 1 .. (Len(s) + Len(e)) /\ Len(s \o e) = Len(s) + Len(e)
         /\ \A i \in DOMAIN s : (s \o e)[i] = s[i]
         /\ \A i \in DOMAIN (s \o e) : i \notin DOMAIN s =>
              i - Len(s) \in DOMAIN e /\ (s \o e)[i] = e[i - Len(s)]
         /\ \A i \in DOMAIN e : Len(s) + i \in DOMAIN (s \o e) /\ (s \o e)[Len(s) + i] = e[i]
  OBVIOUS

LEMMA AppendIs ==
  ASSUME NEW S, NEW s \in Seq(S), NEW x \in S
  PROVE  Append(s, x) = s \o <<x>> /\ <<x>> \in Seq(S)
  OBVIOUS

LEMMA AppendedAt ==
  ASSUME NEW S, NEW s \in Seq(S), NEW x \in S
  PROVE  /\ Len(s) \in Nat /\ DOMAIN Append(s, x) = 1 .. (Len(s) + 1)
         /\ \A i \in DOMAIN Append(s, x) :
              \/ i \in DOMAIN s /\ Append(s, x)[i] = s[i]
              \/ i = Len(s) + 1 /\ Append(s, x)[i] = x
<1>1. /\ Len(s) \in Nat /\ DOMAIN s = 1 .. Len(s)
      /\ Append(s, x) \in Seq(S) /\ Len(Append(s, x)) = Len(s) + 1
      /\ \A i \in 1 .. Len(s) : Append(s, x)[i] = s[i]
      /\ Append(s, x)[Len(s) + 1] = x
  BY AppendProperties
<1>2. DOMAIN Append(s, x) = 1 .. (Len(s) + 1)
  BY <1>1
<1>3. \A i \in 1 .. (Len(s) + 1) : i \in 1 .. Len(s) \/ i = Len(s) + 1
  BY <1>1
<1> QED
  BY <1>1, <1>2, <1>3

\* Only flags the class has go up.
LEMMA FlagsTyped ==
  ASSUME WellMade, Typed, NEW more, more \subseteq C.flagged, Flags(more)
  PROVE  wrote' \subseteq C.flagged
  BY DEF Typed, Flags

\* The steps that only move on with the call, the push, or a line.
LEMMA StepTyped ==
  ASSUME WellMade, Typed, InFlight, EPNext, kind' = kind, C' = C
  PROVE  Typed'
<1>0. /\ kind \in Classes
      /\ cache \in [Fields -> Value]
      /\ wrote \subseteq C.flagged
      /\ dev \in [DOMAIN C.fresh -> Value]
      /\ known \in BOOLEAN /\ synced \in BOOLEAN /\ pushing \in BOOLEAN
      /\ todo \in Seq(Writes(C))
      /\ phase \in {"idle", "ready", "applied", "answered"}
      /\ wire \in Seq(Lines)
      /\ verdict \in C.forwards \cup {None}
      /\ why \in [Fields -> SUBSET Reasons]
      /\ owed \subseteq Fields
      /\ \A f \in Seeded(C) : cache[f] # Null
  BY DEF Typed
<1>00. Fields' = Fields /\ Lines' = Lines
  BY DEF Fields, Lines
<1> DEFINE T(k, c, wr, d, kn, sy, pu, td, ph, wi, ve, wh, ow) ==
      /\ k \in Classes
      /\ c \in [Fields -> Value]
      /\ wr \subseteq C.flagged
      /\ d \in [DOMAIN C.fresh -> Value]
      /\ kn \in BOOLEAN /\ sy \in BOOLEAN /\ pu \in BOOLEAN
      /\ td \in Seq(Writes(C))
      /\ ph \in {"idle", "ready", "applied", "answered"}
      /\ wi \in Seq(Lines)
      /\ ve \in C.forwards \cup {None}
      /\ wh \in [Fields -> SUBSET Reasons]
      /\ ow \subseteq Fields
      /\ \A f \in Seeded(C) : c[f] # Null
<1> SUFFICES T(kind', cache', wrote', dev', known', synced', pushing', todo', phase', wire',
               verdict', why', owed')
  BY <1>00 DEF Typed
<1>a. \A r \in {"lost", "veto", "unheard", "crossed", "refused", "late", "reboot"} : r \in Reasons
  BY DEF Reasons
<1>b. todo # <<>> => Tail(todo) \in Seq(Writes(C)) /\ Head(todo) \in Writes(C)
  BY <1>0, TailTyped
<1>c. wire # <<>> => Tail(wire) \in Seq(Lines) /\ Head(wire) \in Lines
  BY <1>0, TailTyped
<1>d. MoveOn /\ todo # <<>> => todo' \in Seq(Writes(C)) /\ pushing' \in BOOLEAN
  BY <1>b DEF MoveOn
<1>e. Settle => why' \in [Fields -> SUBSET Reasons]
  BY <1>0, <1>a, BlameTyped DEF Settle
<1>f. \A t : \A r \in {"lost", "veto", "unheard", "crossed", "refused", "late", "reboot"} :
        Blame(why, t, r) => why' \in [Fields -> SUBSET Reasons]
  BY <1>0, <1>a, BlameTyped
<1>g. phase # "idle" => todo # <<>>
  BY DEF InFlight, Commanded
<1>h. \A i \in DOMAIN wire : wire[i].t = "end" => phase # "idle"
  BY DEF InFlight, OneEnd
<1>i. wire # <<>> /\ Head(wire).t = "end" => todo # <<>>
  BY <1>0, <1>g, <1>h, TailTyped
<1>1. CASE Call
  BY <1>0, <1>1, Made DEF Call, hostVars
<1>2. CASE Reconcile
  <2>1. owed' \subseteq Fields
    BY <1>2, Made DEF Reconcile
  <2>2. wrote' \subseteq C.flagged /\ pushing' \in BOOLEAN /\ todo' = C.push
    BY <1>0, <1>2 DEF Reconcile
  <2> QED
    BY <1>0, <1>2, <2>1, <2>2, Made DEF Reconcile
<1>3. CASE Skip
  <2>1. wrote' \subseteq C.flagged
    <3>1. C.noted \subseteq C.flagged
      BY DEF WellMade, WellTyped
    <3> DEFINE more == IF pushing THEN {} ELSE C.noted \cap DOMAIN Head(todo).to
    <3>2. more \subseteq C.flagged /\ Flags(more)
      BY <1>3, <3>1 DEF Skip
    <3> QED
      BY <3>2, FlagsTyped
  <2> QED
    BY <1>0, <1>3, <1>d, <1>e, <2>1 DEF Skip
<1>4. CASE RefuseCall
  BY <1>0, <1>4, <1>d, <1>e DEF RefuseCall, hostVars
<1>5. CASE Compose
  BY <1>0, <1>5 DEF Compose, hostVars
<1>6. CASE HostReads
  <2>1. CASE ReadTaken
    <3>1. Head(wire).t = "urc" /\ Head(wire) \in Lines /\ wire # <<>>
      BY <1>c, <2>1 DEF ReadTaken, Reads
    <3>2. Head(wire).v \in Bit /\ Head(wire).a \in DOMAIN C.hears
      BY <3>1 DEF Lines
    <3>3. C.hears[Head(wire).a] \in Fields /\ C.marks \subseteq C.flagged
      BY <3>2, Made DEF WellMade, WellTyped
    <3>4. cache' \in [Fields -> Value] /\ \A f \in Seeded(C) : cache'[f] # Null
      BY <1>0, <2>1, <3>2, <3>3 DEF ReadTaken, Value, Bit, Null, Seeded, Fields
    <3>5. wrote' \subseteq C.flagged
      BY <1>0, <2>1, <3>3 DEF ReadTaken
    <3> QED
      BY <1>0, <1>c, <1>e, <2>1, <3>4, <3>5 DEF ReadTaken, Reads, callVars
  <2>2. CASE ReadKept
    BY <1>0, <1>c, <1>f, <2>2 DEF ReadKept, Reads, callVars
  <2>3. CASE ReadAllowed
    <3>1. Head(wire).t = "cmd" /\ Head(wire) \in Lines /\ wire # <<>>
      BY <1>c, <2>3 DEF ReadAllowed, Reads
    <3>2. Head(wire).v \in C.forwards
      BY <3>1 DEF Lines
    <3>3. cache' \in [Fields -> Value] /\ \A f \in Seeded(C) : cache'[f] # Null
      BY <1>0, <2>3, <3>2, Made, UpdatedTyped DEF ReadAllowed, Seeded, Fields
    <3>4. wrote' \subseteq C.flagged /\ verdict' \in C.forwards
      BY <1>0, <2>3, <3>2 DEF ReadAllowed
    <3> QED
      BY <1>0, <1>c, <1>f, <2>3, <3>3, <3>4 DEF ReadAllowed, Reads, callVars
  <2>4. CASE ReadDenied
    BY <1>0, <1>c, <1>e, <2>4 DEF ReadDenied, Reads, callVars
  <2>5. CASE ReadOk
    <3>1. todo # <<>> /\ Head(todo) \in Writes(C)
      BY <1>b, <1>i, <2>5 DEF ReadOk, Reads
    <3>2. cache' \in [Fields -> Value] /\ \A f \in Seeded(C) : cache'[f] # Null
      BY <1>0, <2>5, <3>1, Made, UpdatedTyped DEF ReadOk, Commit, Seeded, Fields
    <3> DEFINE more == C.flagged \cap DOMAIN Head(todo).to
    <3>3. Flags(more)
      BY <2>5 DEF ReadOk, Commit
    <3>4. wrote' \subseteq C.flagged
      BY <3>3, FlagsTyped
    <3> QED
      BY <1>0, <1>c, <1>d, <1>e, <2>5, <3>1, <3>2, <3>4 DEF ReadOk, Reads, Commit
  <2>6. CASE ReadError
    <3>1. todo # <<>>
      BY <1>b, <1>i, <2>6 DEF ReadError, Reads
    <3>2. Flags({})
      BY <2>6 DEF ReadError, Fails
    <3>3. wrote' \subseteq C.flagged
      BY <3>2, FlagsTyped
    <3> QED
      BY <1>0, <1>c, <1>d, <1>e, <2>6, <3>1, <3>3 DEF ReadError, Reads, Fails
  <2> QED
    BY <1>6, <2>1, <2>2, <2>3, <2>4, <2>5, <2>6, HostReading DEF ReadStep
<1>7. CASE Timeout
  <2>1. todo # <<>> /\ Flags({})
    BY <1>7, <1>g DEF Timeout, Fails
  <2>2. wrote' \subseteq C.flagged
    BY <2>1, FlagsTyped
  <2> QED
    BY <1>0, <1>7, <1>d, <1>e, <2>1, <2>2 DEF Timeout, Fails
<1>8. CASE Apply
  <2>1. /\ todo # <<>> /\ cmd \in [Carries(C, Head(todo)) -> Value]
        /\ \A a \in DOMAIN cmd \cap DOMAIN C.hears : cmd[a] \in Bit
    BY <1>8 DEF Apply, InFlight, Commanded
  <2>2. DOMAIN cmd \subseteq DOMAIN C.fresh
    BY <1>b, <2>1, Made DEF Carries
  <2>3. dev' \in [DOMAIN C.fresh -> Value]
    BY <1>8, <2>1, <2>2, UpdatedDevice DEF Apply
  <2>4. wire' \in Seq(Lines)
    BY <1>0, <1>8, <2>1, EchoLines DEF Apply
  <2> DEFINE base == [f \in Fields |-> IF f \in Mirrors(DOMAIN cmd) THEN {} ELSE why[f]]
             touched == Mirrors(DOMAIN cmd) \ (DOMAIN Head(todo).to \cup Head(todo).also
                                    \cup HeardIn(DOMAIN cmd))
  <2>5. Blame(base, touched, "unheard")
    BY <1>8 DEF Apply
  <2>6. base \in [Fields -> SUBSET Reasons]
    BY <1>0
  <2> HIDE DEF base, touched
  <2>7. why' \in [Fields -> SUBSET Reasons]
    BY <1>a, <2>5, <2>6, BlameTyped
  <2> QED
    BY <1>0, <1>8, <2>3, <2>4, <2>7 DEF Apply, hostVars
<1>9. CASE AnswerOk
  <2>1. End(TRUE) \in Lines
    BY DEF End, Lines
  <2>2. Append(wire, End(TRUE)) \in Seq(Lines)
    BY <1>0, <2>1, AppendProperties
  <2> QED
    BY <1>0, <1>9, <2>2 DEF AnswerOk, hostVars
<1>10. CASE Refuse
  <2>1. End(FALSE) \in Lines
    BY DEF End, Lines
  <2>2. Append(wire, End(FALSE)) \in Seq(Lines)
    BY <1>0, <2>1, AppendProperties
  <2>3. why' \in [Fields -> SUBSET Reasons]
    BY <1>10, <1>f DEF Refuse
  <2> QED
    BY <1>0, <1>10, <2>2, <2>3 DEF Refuse, hostVars
<1>11. CASE Change
  <2>1. PICK a \in C.changes, v \in Bit :
          /\ dev' = [dev EXCEPT ![a] = v]
          /\ wire' = wire \o Echo([x \in {a} |-> v])
          /\ IF Mirrors({a}) \cap Sets(todo) # {}
               THEN Blame(why, Mirrors({a}), "crossed")
               ELSE Blame(why, Mirrors({a}) \ HeardIn({a}), "unheard")
    BY <1>11 DEF Change
  <2>2. wire' \in Seq(Lines)
    BY <1>0, <2>1, EchoLines
  <2>3. dev' \in [DOMAIN C.fresh -> Value]
    BY <1>0, <2>1 DEF Value
  <2>4. why' \in [Fields -> SUBSET Reasons]
    BY <1>f, <2>1
  <2> QED
    BY <1>0, <1>11, <2>2, <2>3, <2>4 DEF Change, hostVars, callVars
<1>12. CASE Forward
  <2>1. PICK f \in C.forwards : wire' = Append(wire, Asks(f))
    BY <1>12 DEF Forward
  <2>2. Asks(f) \in [t : {"cmd"}, a : {""}, v : C.forwards]
    BY DEF Asks
  <2>3. Asks(f) \in Lines
    BY <2>2 DEF Lines
  <2>4. wire' \in Seq(Lines)
    BY <1>0, <2>1, <2>3, AppendProperties
  <2> QED
    BY <1>0, <1>12, <2>4 DEF Forward, hostVars, callVars
<1>13. CASE VerdictTaken
  <2>1. verdict \in C.forwards
    BY <1>0, <1>13 DEF VerdictTaken
  <2>2. dev' \in [DOMAIN C.fresh -> Value]
    BY <1>13, <2>1, Made, UpdatedDevice DEF VerdictTaken, Value
  <2>3. wire' \in Seq(Lines)
    BY <1>0, <1>13, <2>1, Made, EchoLines DEF VerdictTaken
  <2> QED
    BY <1>0, <1>13, <1>f, <2>2, <2>3 DEF VerdictTaken, hostVars, callVars
<1>14. CASE VerdictLate
  BY <1>0, <1>14, <1>f DEF VerdictLate, hostVars, callVars
<1>15. CASE Lose
  BY <1>0, <1>15, <1>c, <1>f DEF Lose, hostVars, callVars
<1>16. CASE Reboot
  <2>1. dev' \in [DOMAIN C.fresh -> Value]
    <3>1. C.fresh \in [DOMAIN C.fresh -> Value] /\ DOMAIN dev = DOMAIN C.fresh
      BY <1>0 DEF WellMade, WellTyped
    <3> QED
      BY <1>0, <1>16, <3>1 DEF Reboot
  <2> DEFINE base == [f \in Fields |->
                        why[f] \cup (IF f \in Mirrors(DOMAIN cmd) THEN {"lost"} ELSE {})]
             touched == Mirrors(DOMAIN dev \ C.keeps)
  <2>2. Blame(base, touched, "reboot")
    BY <1>16 DEF Reboot
  <2>3. base \in [Fields -> SUBSET Reasons]
    BY <1>0, <1>a
  <2> HIDE DEF base, touched
  <2>4. why' \in [Fields -> SUBSET Reasons]
    BY <1>a, <2>2, <2>3, BlameTyped
  <2>5. wire' \in Seq(Lines)
    BY <1>16 DEF Reboot
  <2>6. verdict' \in C.forwards \cup {None} /\ synced' \in BOOLEAN
    BY <1>16 DEF Reboot
  <2>7. phase' \in {"idle", "ready", "applied", "answered"}
    BY <1>0, <1>16 DEF Reboot
  <2>8. UNCHANGED <<kind, cache, wrote, known, owed, todo, pushing>>
    BY <1>16 DEF Reboot
  <2> QED
    BY <1>0, <2>1, <2>4, <2>5, <2>6, <2>7, <2>8
<1> QED
  BY <1>1, <1>2, <1>3, <1>4, <1>5, <1>6, <1>7, <1>8, <1>9, <1>10, <1>11, <1>12, <1>13,
     <1>14, <1>15, <1>16 DEF EPNext

\* No step changes the class.
LEMMA StepKind ==
  ASSUME EPNext
  PROVE  kind' = kind /\ C' = C /\ Fields' = Fields
<1>1. kind' = kind
  <2>1. Call \/ RefuseCall \/ Compose \/ Apply \/ AnswerOk \/ Refuse => kind' = kind
    BY DEF Call, RefuseCall, Compose, Apply, AnswerOk, Refuse, hostVars
  <2>2. Change \/ Forward \/ VerdictTaken \/ VerdictLate \/ Lose => kind' = kind
    BY DEF Change, Forward, VerdictTaken, VerdictLate, Lose, hostVars
  <2>3. Reconcile \/ Skip \/ HostReads \/ Timeout \/ Reboot => kind' = kind
    BY DEF Reconcile, Skip, HostReads, Timeout, Reboot
  <2> QED
    BY <2>1, <2>2, <2>3 DEF EPNext
<1> QED
  BY <1>1, SameClass DEF Fields

\* The call or the push moves on to its next write.
LEMMA MovedOn ==
  ASSUME WellMade, Typed, Pushes, Shaped, todo # <<>>, MoveOn,
         known' = known, C' = C
  PROVE  Pushes' /\ Shaped'
<1>0. todo \in Seq(Writes(C)) /\ pushing \in BOOLEAN
  BY DEF Typed
<1>1. /\ todo' = Tail(todo) /\ pushing' = (pushing /\ Len(todo) > 1)
  BY DEF MoveOn
<1>2. /\ Len(todo) \in Nat \ {0} /\ Head(todo) = todo[1] /\ DOMAIN todo = 1 .. Len(todo)
      /\ Len(todo') = Len(todo) - 1 /\ DOMAIN todo' = 1 .. (Len(todo) - 1)
      /\ \A i \in DOMAIN todo' : i + 1 \in DOMAIN todo /\ todo'[i] = todo[i + 1]
      /\ todo' = <<>> <=> Len(todo) = 1
  BY <1>0, <1>1, TailTyped
<1>3. Pushes'
  <2> SUFFICES ASSUME pushing'
               PROVE  /\ todo' # <<>> /\ known'
                      /\ \A i \in DOMAIN todo' : todo'[i] \in ToSet(C.push)
    BY DEF Pushes
  <2>1. pushing /\ Len(todo) > 1
    BY <1>1
  <2>2. known /\ \A i \in DOMAIN todo : todo[i] \in ToSet(C.push)
    BY <2>1 DEF Pushes
  <2>3. todo' # <<>>
    BY <1>2, <2>1
  <2> QED
    BY <1>2, <2>2, <2>3
<1>4. Shaped'
  <2> SUFFICES ASSUME ~pushing', todo' # <<>>
               PROVE  \/ \A i \in DOMAIN todo' : Plain(C, todo'[i])
                      \/ Len(todo') = 2 /\ Follows(C, todo'[1], todo'[2])
                      \/ Following'
    BY DEF Shaped
  <2>0. Len(todo) > 1
    BY <1>2
  <2>1. Len(todo) # 1 /\ Len(todo) > 1 /\ ~pushing
    BY <1>1, <1>2, <2>0, Zenon
  <2>2. CASE \A i \in DOMAIN todo : Plain(C, todo[i])
    BY <1>2, <2>2
  <2>3. CASE Len(todo) = 2 /\ Follows(C, todo[1], todo[2])
    <3>1. Len(todo') = 1 /\ 1 \in DOMAIN todo' /\ Head(todo') = todo[2]
      BY <1>2, <2>3
    <3>2. todo[1] \in Writes(C)
      BY <1>0, <1>2
    <3> QED
      BY <2>1, <2>3, <3>1, <3>2 DEF Following
  <2>4. CASE Following
    BY <2>1, <2>4 DEF Following
  <2> QED
    BY <2>1, <2>2, <2>3, <2>4 DEF Shaped
<1> QED
  BY <1>3, <1>4

\* The answer on its way, as lines are read and added.
LEMMA EndRead ==
  ASSUME wire \in Seq(Lines), OneEnd, wire # <<>>, wire' = Tail(wire),
         phase' = phase \/ Head(wire).t = "end"
  PROVE  /\ OneEnd'
         /\ Head(wire).t = "end" => \A i \in DOMAIN wire' : wire'[i].t # "end"
<1>1. /\ Head(wire) = wire[1] /\ 1 \in DOMAIN wire /\ DOMAIN wire = 1 .. Len(wire)
      /\ Len(wire) \in Nat \ {0} /\ DOMAIN wire' = 1 .. (Len(wire) - 1)
      /\ \A i \in DOMAIN wire' : i + 1 \in DOMAIN wire /\ wire'[i] = wire[i + 1]
  BY TailTyped
<1>2. Head(wire).t = "end" => \A i \in DOMAIN wire' : wire'[i].t # "end"
  <2> SUFFICES ASSUME wire[1].t = "end", NEW i \in DOMAIN wire', wire'[i].t = "end"
               PROVE  FALSE
    BY <1>1
  <2>1. i + 1 = 1
    BY <1>1 DEF OneEnd
  <2> QED
    BY <1>1, <2>1
<1>3. ASSUME phase' = phase
      PROVE  OneEnd'
  <2> SUFFICES ASSUME NEW i \in DOMAIN wire', wire'[i].t = "end"
               PROVE  /\ phase' = "answered"
                      /\ \A j \in DOMAIN wire' : wire'[j].t = "end" => i = j
    BY DEF OneEnd
  <2>1. phase = "answered"
    BY <1>1 DEF OneEnd
  <2>2. ASSUME NEW j \in DOMAIN wire', wire'[j].t = "end" PROVE i = j
    <3>1. i + 1 = j + 1
      BY <1>1, <2>2 DEF OneEnd
    <3> QED
      BY <1>1, <3>1
  <2> QED
    BY <1>3, <2>1, <2>2
<1> QED
  BY <1>2, <1>3 DEF OneEnd

\* Lines that are not answers, and the answer itself.
LEMMA EndAdded ==
  ASSUME wire \in Seq(Lines), OneEnd, NEW e \in Seq(Lines), wire' = wire \o e,
         \A i \in DOMAIN e : e[i].t # "end", phase' = phase \/ phase # "answered"
  PROVE  OneEnd'
<1>1. \A i \in DOMAIN wire' : wire'[i].t = "end" => i \in DOMAIN wire /\ wire'[i] = wire[i]
  BY AddedTyped
<1> QED
  BY <1>1 DEF OneEnd

LEMMA EndAnswered ==
  ASSUME wire \in Seq(Lines), OneEnd, NEW ok \in BOOLEAN, wire' = Append(wire, End(ok)),
         phase # "answered", phase' = "answered"
  PROVE  OneEnd'
<1>1. End(ok) \in Lines
  BY DEF End, Lines
<1>2. \A i \in DOMAIN wire : wire[i].t # "end"
  BY DEF OneEnd
<1>3. \A i \in DOMAIN wire' : \/ i \in DOMAIN wire /\ wire'[i] = wire[i]
                              \/ i = Len(wire) + 1
  BY <1>1
<1> QED
  BY <1>2, <1>3 DEF OneEnd

\* The same of the forwarded command.
LEMMA AskRead ==
  ASSUME wire \in Seq(Lines), OneAsk, wire # <<>>, wire' = Tail(wire),
         verdict' = verdict \/ Head(wire).t = "cmd"
  PROVE  OneAsk'
<1>1. /\ Head(wire) = wire[1] /\ 1 \in DOMAIN wire /\ DOMAIN wire = 1 .. Len(wire)
      /\ Len(wire) \in Nat \ {0} /\ DOMAIN wire' = 1 .. (Len(wire) - 1)
      /\ \A i \in DOMAIN wire' : i + 1 \in DOMAIN wire /\ wire'[i] = wire[i + 1]
  BY TailTyped
<1>2. ASSUME Head(wire).t = "cmd", NEW i \in DOMAIN wire', wire'[i].t = "cmd"
      PROVE  FALSE
  <2>1. i + 1 = 1
    BY <1>1, <1>2 DEF OneAsk
  <2> QED
    BY <1>1, <2>1
<1>3. ASSUME verdict' = verdict
      PROVE  OneAsk'
  <2> SUFFICES ASSUME NEW i \in DOMAIN wire', wire'[i].t = "cmd"
               PROVE  /\ verdict' = None
                      /\ \A j \in DOMAIN wire' : wire'[j].t = "cmd" => i = j
    BY DEF OneAsk, None
  <2>1. verdict = None
    BY <1>1 DEF OneAsk
  <2>2. ASSUME NEW j \in DOMAIN wire', wire'[j].t = "cmd" PROVE i = j
    <3>1. i + 1 = j + 1
      BY <1>1, <2>2 DEF OneAsk
    <3> QED
      BY <1>1, <3>1
  <2> QED
    BY <1>3, <2>1, <2>2
<1> QED
  BY <1>2, <1>3 DEF OneAsk

\* Lines that are not forwarded commands.
LEMMA AskAdded ==
  ASSUME wire \in Seq(Lines), OneAsk, NEW e \in Seq(Lines), wire' = wire \o e,
         \A i \in DOMAIN e : e[i].t # "cmd", verdict' = verdict \/ verdict' = None
  PROVE  OneAsk'
<1>1. \A i \in DOMAIN wire' : wire'[i].t = "cmd" => i \in DOMAIN wire /\ wire'[i] = wire[i]
  BY AddedTyped
<1> QED
  BY <1>1 DEF OneAsk, None

\* The command of a write.
LEMMA CarriedTyped ==
  ASSUME WellMade, Typed, NEW p \in Writes(C)
  PROVE  /\ Carried(p) \in [Carries(C, p) -> Value]
         /\ \A a \in DOMAIN p.w : Carried(p)[a] = p.w[a]
         /\ \A g \in p.also : Carried(p)[C.shows[g]] = cache[g]
         /\ \A a \in DOMAIN Carried(p) \cap DOMAIN C.hears : Carried(p)[a] \in Bit
<1>1. p.also \subseteq Fields /\ \A a \in DOMAIN p.w : p.w[a] \in Bit
  BY Made
<1>2. /\ Fields = DOMAIN C.shows
      /\ \A g \in p.also : /\ C.shows[g] \notin DOMAIN p.w
                           /\ Showing(C, {C.shows[g]}) = {g}
      /\ Heard(C) \cup Showing(C, DOMAIN C.hears) \subseteq Seeded(C)
  BY DEF WellMade, WritesWell, ReportsWell, Fields
<1>3. ASSUME NEW g \in p.also
      PROVE  (CHOOSE f \in p.also : C.shows[f] = C.shows[g]) = g
  <2>1. \A f \in p.also : C.shows[f] = C.shows[g] => f \in Showing(C, {C.shows[g]})
    BY <1>1, <1>2 DEF Showing
  <2> QED
    BY <1>2, <2>1
<1>4. \A g \in p.also : Carried(p)[C.shows[g]] = cache[g]
  <2> TAKE g \in p.also
  <2>1. C.shows[g] \in Carries(C, p) /\ C.shows[g] \notin DOMAIN p.w
    BY <1>2 DEF Carries
  <2>2. (CHOOSE f \in p.also : C.shows[f] = C.shows[g]) = g
    BY <1>3
  <2> QED
    BY <2>1, <2>2 DEF Carried
<1>5. \A a \in DOMAIN p.w : Carried(p)[a] = p.w[a]
  BY DEF Carried, Carries
<1>6. cache \in [Fields -> Value] /\ \A f \in Seeded(C) : cache[f] # Null
  BY DEF Typed
<1>7. ASSUME NEW a \in Carries(C, p)
      PROVE  /\ Carried(p)[a] \in Value
             /\ a \in DOMAIN C.hears => Carried(p)[a] \in Bit
  <2>1. CASE a \in DOMAIN p.w
    BY <1>1, <1>5, <2>1 DEF Value
  <2>2. CASE a \notin DOMAIN p.w
    <3>1. PICK g \in p.also : a = C.shows[g]
      BY <2>2 DEF Carries
    <3>2. Carried(p)[a] = cache[g] /\ cache[g] \in Value
      BY <1>1, <1>4, <1>6, <3>1
    <3>3. a \in DOMAIN C.hears => g \in Seeded(C)
      BY <1>1, <1>2, <3>1 DEF Showing
    <3> QED
      BY <1>6, <3>2, <3>3 DEF Value, Bit, Null
  <2> QED
    BY <2>1, <2>2
<1>8. DOMAIN Carried(p) = Carries(C, p)
  BY DEF Carried
<1>9. Carried(p) \in [Carries(C, p) -> Value]
  BY <1>7 DEF Carried
<1> QED
  BY <1>4, <1>5, <1>7, <1>8, <1>9

\* What a step leaves alone.
LEMMA FlightKept ==
  ASSUME C' = C
  PROVE  /\ Pushes /\ Shaped /\ UNCHANGED <<pushing, todo, known>> => Pushes' /\ Shaped'
         /\ Commanded /\ UNCHANGED <<phase, cmd, todo, known>> => Commanded'
         /\ OneEnd /\ UNCHANGED <<phase, wire>> => OneEnd'
         /\ OneAsk /\ UNCHANGED <<verdict, wire>> => OneAsk'
<1>1. Pushes /\ Shaped /\ UNCHANGED <<pushing, todo, known>> => Pushes' /\ Shaped'
  BY DEF Pushes, Shaped, Following
<1>2. Commanded /\ UNCHANGED <<phase, cmd, todo, known>> => Commanded'
  BY DEF Commanded
<1>3. OneEnd /\ UNCHANGED <<phase, wire>> => OneEnd'
  BY DEF OneEnd
<1>4. OneAsk /\ UNCHANGED <<verdict, wire>> => OneAsk'
  BY DEF OneAsk, None
<1> QED
  BY <1>1, <1>2, <1>3, <1>4

\* Every step keeps what is known of the call and the wire.
LEMMA StepFlight ==
  ASSUME WellMade, Typed, InFlight, EPNext, C' = C
  PROVE  InFlight'
<1>0. /\ todo \in Seq(Writes(C)) /\ wire \in Seq(Lines) /\ verdict \in C.forwards \cup {None}
      /\ Pushes /\ Shaped /\ Commanded /\ OneEnd /\ OneAsk
  BY DEF Typed, InFlight
<1>a. phase # "idle" => todo # <<>> /\ known
  BY <1>0 DEF Commanded
<1>b. wire # <<>> /\ Head(wire).t = "end" => phase = "answered"
  BY <1>0, TailTyped DEF OneEnd
<1>c. phase' = "idle" /\ cmd' = Nothing => Commanded'
  BY DEF Commanded, Nothing
<1> SUFFICES Pushes' /\ Shaped' /\ Commanded' /\ OneEnd' /\ OneAsk'
  BY DEF InFlight
<1>1. CASE Call
  <2>1. PICK s \in C.calls : todo' = s
    BY <1>1 DEF Call
  <2>2. /\ UNCHANGED <<pushing, known, phase, cmd, wire, verdict>>
        /\ todo = <<>>
    BY <1>1 DEF Call, hostVars
  <2>3. ~pushing /\ phase = "idle"
    BY <1>0, <1>a, <2>2 DEF Pushes
  <2>4. \/ \A i \in DOMAIN s : Plain(C, s[i])
        \/ Len(s) = 2 /\ Follows(C, s[1], s[2])
    BY DEF WellMade, WritesWell
  <2>5. Pushes' /\ Shaped'
    BY <2>1, <2>2, <2>3, <2>4 DEF Pushes, Shaped
  <2>6. Commanded'
    BY <1>0, <2>2, <2>3 DEF Commanded, Nothing
  <2> QED
    BY <1>0, <2>2, <2>5, <2>6, FlightKept
<1>2. CASE Reconcile
  <2>1. /\ UNCHANGED <<phase, cmd, wire, verdict>>
        /\ todo = <<>> /\ todo' = C.push /\ known' = TRUE /\ pushing' = (C.push # <<>>)
    BY <1>2 DEF Reconcile
  <2>2. phase = "idle"
    BY <1>a, <2>1
  <2>3. \A i \in DOMAIN C.push : C.push[i] \in ToSet(C.push)
    BY DEF ToSet
  <2>4. Pushes' /\ Shaped'
    BY <2>1, <2>3 DEF Pushes, Shaped
  <2>5. Commanded'
    BY <1>0, <2>1, <2>2 DEF Commanded, Nothing
  <2> QED
    BY <1>0, <2>1, <2>4, <2>5, FlightKept
<1>3. CASE Skip \/ RefuseCall
  <2>1. /\ UNCHANGED <<known, phase, cmd, wire, verdict>>
        /\ todo # <<>> /\ phase = "idle" /\ MoveOn
    BY <1>3 DEF Skip, RefuseCall, hostVars
  <2>2. Pushes' /\ Shaped'
    BY <1>0, <2>1, MovedOn
  <2>3. Commanded'
    BY <1>0, <2>1 DEF Commanded, Nothing
  <2> QED
    BY <1>0, <2>1, <2>2, <2>3, FlightKept
<1>4. CASE Compose
  <2>1. /\ UNCHANGED <<pushing, todo, known, wire, verdict>>
        /\ todo # <<>> /\ phase = "idle" /\ phase' = "ready" /\ cmd' = Carried(Head(todo))
        /\ pushing \/ known
    BY <1>4 DEF Compose, hostVars
  <2>2. known /\ Head(todo) \in Writes(C)
    BY <1>0, <2>1, TailTyped DEF Pushes
  <2>3. Commanded'
    BY <2>1, <2>2, CarriedTyped DEF Commanded
  <2>4. OneEnd'
    BY <1>0, <2>1 DEF OneEnd
  <2> QED
    BY <1>0, <2>1, <2>3, <2>4, FlightKept
<1>5. CASE HostReads
  <2>0. /\ wire # <<>> /\ wire' = Tail(wire) /\ UNCHANGED known
    BY <1>5 DEF HostReads
  <2>1. CASE ReadTaken \/ ReadKept \/ ReadDenied
    <3>1. UNCHANGED <<todo, pushing, phase, cmd, verdict>>
      BY <2>1 DEF ReadTaken, ReadKept, ReadDenied, callVars
    <3> QED
      BY <1>0, <2>0, <3>1, FlightKept, EndRead, AskRead
  <2>2. CASE ReadAllowed
    <3>1. UNCHANGED <<todo, pushing, phase, cmd>> /\ Head(wire).t = "cmd"
      BY <2>2 DEF ReadAllowed, Reads, callVars
    <3> QED
      BY <1>0, <2>0, <3>1, FlightKept, EndRead, AskRead
  <2>3. CASE ReadOk \/ ReadError
    <3>1. /\ UNCHANGED verdict /\ Head(wire).t = "end"
          /\ phase' = "idle" /\ cmd' = Nothing /\ MoveOn
      BY <2>3 DEF ReadOk, ReadError, Reads, Commit, Fails
    <3>2. todo # <<>>
      BY <1>a, <1>b, <2>0, <3>1
    <3>3. Pushes' /\ Shaped'
      BY <1>0, <2>0, <3>1, <3>2, MovedOn
    <3> QED
      BY <1>0, <1>c, <2>0, <3>1, <3>3, EndRead, AskRead
  <2> QED
    BY <1>5, <2>1, <2>2, <2>3, HostReading DEF ReadStep
<1>6. CASE Timeout
  <2>1. /\ UNCHANGED <<known, wire, verdict>>
        /\ phase = "answered" /\ \A i \in DOMAIN wire : wire[i].t # "end"
        /\ phase' = "idle" /\ cmd' = Nothing /\ MoveOn
    BY <1>6 DEF Timeout, Fails
  <2>2. todo # <<>>
    BY <1>a, <2>1
  <2>3. Pushes' /\ Shaped'
    BY <1>0, <2>1, <2>2, MovedOn
  <2>4. OneEnd'
    BY <2>1 DEF OneEnd
  <2> QED
    BY <1>0, <1>c, <2>1, <2>3, <2>4, FlightKept
<1>7. CASE Apply
  <2>1. /\ UNCHANGED <<known, todo, pushing, cmd, verdict>>
        /\ phase = "ready" /\ phase' = "applied" /\ wire' = wire \o Echo(cmd)
    BY <1>7 DEF Apply, hostVars
  <2>2. \A a \in DOMAIN cmd \cap DOMAIN C.hears : cmd[a] \in Bit
    BY <1>0, <2>1 DEF Commanded
  <2>3. Echo(cmd) \in Seq(Lines) /\ \A i \in DOMAIN Echo(cmd) : Echo(cmd)[i].t = "urc"
    BY <2>2, EchoLines, EchoSays
  <2>4. Commanded'
    BY <1>0, <2>1 DEF Commanded
  <2> QED
    BY <1>0, <2>1, <2>3, <2>4, FlightKept, EndAdded, AskAdded
<1>8. CASE AnswerOk \/ Refuse
  <2>1. /\ UNCHANGED <<known, todo, pushing, cmd, verdict>>
        /\ phase \in {"ready", "applied"} /\ phase' = "answered"
        /\ \E ok \in BOOLEAN : wire' = Append(wire, End(ok))
    BY <1>8 DEF AnswerOk, Refuse, hostVars
  <2>2. PICK ok \in BOOLEAN : wire' = Append(wire, End(ok))
    BY <2>1
  <2>3. End(ok) \in Lines /\ End(ok).t = "end"
    BY DEF End, Lines
  <2>4. OneEnd'
    BY <1>0, <2>1, <2>2, EndAnswered
  <2>5. /\ wire' = wire \o <<End(ok)>> /\ <<End(ok)>> \in Seq(Lines)
        /\ \A i \in DOMAIN <<End(ok)>> : <<End(ok)>>[i].t # "cmd"
    BY <1>0, <2>2, <2>3, AppendIs
  <2>6. OneAsk'
    BY <1>0, <2>1, <2>5, AskAdded
  <2>7. Commanded'
    BY <1>0, <2>1 DEF Commanded
  <2> QED
    BY <1>0, <2>1, <2>4, <2>6, <2>7, FlightKept
<1>9. CASE Change
  <2>1. PICK a \in C.changes, v \in Bit : wire' = wire \o Echo([x \in {a} |-> v])
    BY <1>9 DEF Change
  <2>2. /\ UNCHANGED <<known, todo, pushing, phase, cmd, verdict>>
    BY <1>9 DEF Change, hostVars, callVars
  <2> DEFINE e == Echo([x \in {a} |-> v])
  <2>3. e \in Seq(Lines) /\ \A i \in DOMAIN e : e[i].t = "urc"
    BY EchoLines, EchoSays
  <2> HIDE DEF e
  <2>4. wire' = wire \o e
    BY <2>1 DEF e
  <2> QED
    BY <1>0, <2>2, <2>3, <2>4, FlightKept, EndAdded, AskAdded
<1>10. CASE Forward
  <2>1. PICK f \in C.forwards : wire' = Append(wire, Asks(f))
    BY <1>10 DEF Forward
  <2>2. /\ UNCHANGED <<known, todo, pushing, phase, cmd, verdict>>
        /\ verdict = None /\ \A i \in DOMAIN wire : wire[i].t # "cmd"
    BY <1>10 DEF Forward, hostVars, callVars
  <2>3. Asks(f) \in Lines /\ Asks(f).t = "cmd"
    BY DEF Asks, Lines
  <2>4. /\ wire' = wire \o <<Asks(f)>> /\ <<Asks(f)>> \in Seq(Lines)
        /\ \A i \in DOMAIN <<Asks(f)>> : <<Asks(f)>>[i].t # "end"
    BY <1>0, <2>1, <2>3, AppendIs
  <2>5. OneEnd'
    BY <1>0, <2>2, <2>4, EndAdded
  <2>6. \A i \in DOMAIN wire' : \/ i \in DOMAIN wire /\ wire'[i] = wire[i]
                                \/ i = Len(wire) + 1
    BY <1>0, <2>1, <2>3
  <2>7. OneAsk'
    BY <2>2, <2>6 DEF OneAsk, None
  <2> QED
    BY <1>0, <2>2, <2>5, <2>7, FlightKept
<1>11. CASE VerdictTaken
  <2>1. /\ UNCHANGED <<known, todo, pushing, phase, cmd>> /\ verdict' = None
        /\ verdict \in C.forwards /\ wire' = wire \o Echo(verdict.w)
    BY <1>0, <1>11 DEF VerdictTaken, hostVars, callVars
  <2> DEFINE e == Echo(verdict.w)
  <2>2. e \in Seq(Lines) /\ \A i \in DOMAIN e : e[i].t = "urc"
    BY <2>1, Made, EchoLines, EchoSays
  <2> HIDE DEF e
  <2>3. wire' = wire \o e
    BY <2>1 DEF e
  <2> QED
    BY <1>0, <2>1, <2>2, <2>3, FlightKept, EndAdded, AskAdded
<1>12. CASE VerdictLate
  <2>1. UNCHANGED <<known, todo, pushing, phase, cmd, wire>> /\ verdict' = None
    BY <1>12 DEF VerdictLate, hostVars, callVars
  <2>2. OneAsk'
    BY <1>0, <2>1 DEF OneAsk, None
  <2> QED
    BY <1>0, <2>1, <2>2, FlightKept
<1>13. CASE Lose
  <2>1. /\ UNCHANGED <<known, todo, pushing, phase, cmd, verdict>>
        /\ wire # <<>> /\ wire' = Tail(wire)
    BY <1>13 DEF Lose, hostVars, callVars
  <2> QED
    BY <1>0, <2>1, FlightKept, EndRead, AskRead
<1>14. CASE Reboot
  <2>1. /\ UNCHANGED <<known, todo, pushing, cmd>> /\ wire' = <<>>
        /\ phase' = IF phase = "applied" THEN "answered" ELSE phase
    BY <1>14 DEF Reboot
  <2>2. OneEnd' /\ OneAsk'
    BY <2>1 DEF OneEnd, OneAsk
  <2>3. Commanded'
    BY <1>0, <2>1 DEF Commanded, Nothing
  <2> QED
    BY <1>0, <2>1, <2>2, <2>3, FlightKept
<1> QED
  BY <1>1, <1>2, <1>3, <1>4, <1>5, <1>6, <1>7, <1>8, <1>9, <1>10, <1>11, <1>12, <1>13,
     <1>14 DEF EPNext

-----------------------------------------------------------------------------
(* What one step does.                                                      *)

\* What keeps a field tracked.
LEMMA TracksNext ==
  ASSUME C' = C, NEW f
  PROVE  Tracks(f)' <=> Leads(wire', f, cache'[f], dev'[C.shows[f]])
  BY DEF Tracks, Leads, Reaches

LEMMA TracksKept ==
  ASSUME C' = C, NEW f, Tracks(f), wire' = wire, cache'[f] = cache[f],
         dev'[C.shows[f]] = dev[C.shows[f]]
  PROVE  Tracks(f)'
  BY TracksNext DEF Tracks

LEMMA TracksRead ==
  ASSUME C' = C, NEW f, Tracks(f), wire \in Seq(Lines), wire # <<>>, wire' = Tail(wire),
         dev'[C.shows[f]] = dev[C.shows[f]],
         cache'[f] = IF Reaches(Head(wire), f) THEN Head(wire).v ELSE cache[f]
  PROVE  Tracks(f)'
<1>1. Leads(wire, f, cache[f], dev[C.shows[f]])
  BY DEF Tracks
<1>2. /\ Reaches(Head(wire), f) =>
           Leads(Tail(wire), f, Head(wire).v, dev[C.shows[f]])
      /\ ~Reaches(Head(wire), f) =>
           Leads(Tail(wire), f, cache[f], dev[C.shows[f]])
  BY <1>1, LeadsRead
<1> QED
  BY <1>2, TracksNext

LEMMA TracksAdded ==
  ASSUME C' = C, NEW f, Tracks(f), wire \in Seq(Lines), NEW e \in Seq(Lines),
         wire' = wire \o e, \A i \in DOMAIN e : ~Reaches(e[i], f),
         dev'[C.shows[f]] = dev[C.shows[f]], cache'[f] = cache[f]
  PROVE  Tracks(f)'
<1>1. Leads(wire \o e, f, cache[f], dev[C.shows[f]])
  BY LeadsOther DEF Tracks
<1> QED
  BY <1>1, TracksNext

LEMMA TracksAppended ==
  ASSUME C' = C, NEW f, Tracks(f), wire \in Seq(Lines), NEW x \in Lines,
         wire' = Append(wire, x), x.t # "urc",
         dev'[C.shows[f]] = dev[C.shows[f]], cache'[f] = cache[f]
  PROVE  Tracks(f)'
<1>1. wire' = wire \o <<x>> /\ <<x>> \in Seq(Lines)
  BY AppendIs
<1>2. \A i \in DOMAIN <<x>> : ~Reaches(<<x>>[i], f)
  BY DEF Reaches
<1> QED
  BY <1>1, <1>2, TracksAdded

\* Lines that all say what the field holds.
LEMMA LeadsSame ==
  ASSUME NEW S, NEW w \in Seq(S), NEW f, NEW v,
         \A i \in DOMAIN w : Reaches(w[i], f) => w[i].v = v
  PROVE  Leads(w, f, v, v)
<1>1. CASE \A i \in DOMAIN w : ~Reaches(w[i], f)
  BY <1>1 DEF Leads
<1>2. CASE \E i \in DOMAIN w : Reaches(w[i], f)
  <2>1. PICK i \in DOMAIN w : Reaches(w[i], f)
    BY <1>2
  <2>2. \A j \in i .. Len(w) : j \in DOMAIN w
    BY <2>1
  <2> QED
    BY <2>1, <2>2 DEF Leads
<1> QED
  BY <1>1, <1>2

\* A reason is never taken from a field, but when it agrees at rest.
LEMMA WhyKept ==
  ASSUME Typed, EPNext, ~Apply, NEW f \in Fields
  PROVE  \/ why[f] \subseteq why'[f]
         \/ why'[f] = {} /\ AtRest' /\ cache'[f] = dev'[C.shows[f]]
<1> DEFINE Goal == \/ why[f] \subseteq why'[f]
                   \/ why'[f] = {} /\ AtRest' /\ cache'[f] = dev'[C.shows[f]]
<1>1. why' = why => Goal
  OBVIOUS
<1>2. \A t, r : Blame(why, t, r) => Goal
  <2> SUFFICES ASSUME NEW t, NEW r, Blame(why, t, r) PROVE Goal
    OBVIOUS
  <2>1. \/ why'[f] = why[f] \cup (IF f \in t THEN {r} ELSE {})
        \/ why'[f] = {} /\ AtRest' /\ cache'[f] = dev'[C.shows[f]]
    BY NotBlamed
  <2> QED
    BY <2>1, Zenon
<1>3. Settle => Goal
  BY <1>2 DEF Settle
<1> HIDE DEF Goal
<1>4. Call \/ Reconcile \/ Compose \/ AnswerOk \/ Forward => Goal
  BY <1>1 DEF Call, Reconcile, Compose, AnswerOk, Forward
<1>5. Skip \/ RefuseCall \/ Timeout => Goal
  BY <1>3 DEF Skip, RefuseCall, Timeout
<1>6. HostReads => Goal
  <2>1. HostReads => ReadStep
    BY HostReading
  <2>2. ReadTaken \/ ReadDenied \/ ReadOk \/ ReadError => Goal
    BY <1>3 DEF ReadTaken, ReadDenied, ReadOk, ReadError
  <2>3. ReadKept \/ ReadAllowed => Goal
    BY <1>2 DEF ReadKept, ReadAllowed
  <2> QED
    BY <2>1, <2>2, <2>3 DEF ReadStep
<1>7. Refuse \/ VerdictTaken \/ VerdictLate \/ Lose => Goal
  BY <1>2 DEF Refuse, VerdictTaken, VerdictLate, Lose
<1>8. Change => Goal
  BY <1>2 DEF Change
<1>9. Reboot => Goal
  <2> SUFFICES ASSUME Reboot PROVE Goal
    OBVIOUS
  <2> DEFINE base == [g \in Fields |->
                        why[g] \cup (IF g \in Mirrors(DOMAIN cmd) THEN {"lost"} ELSE {})]
             touched == Mirrors(DOMAIN dev \ C.keeps)
  <2>1. Blame(base, touched, "reboot")
    BY DEF Reboot
  <2>2. why[f] \subseteq base[f]
    OBVIOUS
  <2> HIDE DEF base, touched
  <2>3. \/ why'[f] = base[f] \cup (IF f \in touched THEN {"reboot"} ELSE {})
        \/ why'[f] = {} /\ AtRest' /\ cache'[f] = dev'[C.shows[f]]
    BY <2>1, NotBlamed
  <2> QED
    BY <2>2, <2>3 DEF Goal
<1> QED
  BY <1>4, <1>5, <1>6, <1>7, <1>8, <1>9 DEF EPNext, Goal

\* Until a command is over, the call it is part of stays where it is.
LEMMA Pending ==
  ASSUME Typed, InFlight, EPNext, phase # "idle", phase' # "idle"
  PROVE  UNCHANGED <<todo, pushing, cmd, known>> /\ todo # <<>> /\ known
<1>1. todo # <<>> /\ known
  BY DEF InFlight, Commanded
<1>2. ~Call /\ ~Reconcile /\ ~Skip /\ ~RefuseCall /\ ~Compose /\ ~Timeout
  BY <1>1 DEF Call, Reconcile, Skip, RefuseCall, Compose, Timeout, Fails
<1>3. HostReads => UNCHANGED <<todo, pushing, cmd, known>>
  <2>1. HostReads => ReadStep /\ UNCHANGED known
    BY HostReading DEF HostReads
  <2>2. ~ReadOk /\ ~ReadError
    BY DEF ReadOk, ReadError, Commit, Fails
  <2> QED
    BY <2>1, <2>2 DEF ReadStep, ReadTaken, ReadKept, ReadAllowed, ReadDenied, callVars
<1>4. Apply \/ AnswerOk \/ Refuse => UNCHANGED <<todo, pushing, cmd, known>>
  BY DEF Apply, AnswerOk, Refuse, hostVars
<1>5. Change \/ Forward \/ VerdictTaken \/ VerdictLate \/ Lose
        => UNCHANGED <<todo, pushing, cmd, known>>
  BY DEF Change, Forward, VerdictTaken, VerdictLate, Lose, hostVars, callVars
<1>6. Reboot => UNCHANGED <<todo, pushing, cmd, known>>
  BY DEF Reboot
<1> QED
  BY <1>1, <1>2, <1>3, <1>4, <1>5, <1>6 DEF EPNext

\* What a step does to the wire.
LEMMA WireStep ==
  ASSUME WellMade, Typed, InFlight, EPNext
  PROVE  \/ wire' = wire
         \/ (HostReads \/ Lose) /\ wire # <<>> /\ wire' = Tail(wire)
         \/ \E e \in Seq(Lines) : wire' = wire \o e /\ \A i \in DOMAIN e : e[i].t # "end"
         \/ AnswerOk /\ wire' = Append(wire, End(TRUE))
         \/ Refuse /\ wire' = Append(wire, End(FALSE))
         \/ Reboot /\ wire' = <<>>
<1>0. wire \in Seq(Lines) /\ verdict \in C.forwards \cup {None} /\ Commanded
  BY DEF Typed, InFlight
<1> DEFINE More == \E e \in Seq(Lines) :
                     wire' = wire \o e /\ \A i \in DOMAIN e : e[i].t # "end"
<1>1. \A w : (\A a \in DOMAIN w \cap DOMAIN C.hears : w[a] \in Bit) /\ wire' = wire \o Echo(w)
               => More
  BY EchoLines, EchoSays
<1> HIDE DEF More
<1>2. Call \/ Reconcile \/ Skip \/ RefuseCall \/ Compose \/ Timeout \/ VerdictLate
        => wire' = wire
  BY DEF Call, Reconcile, Skip, RefuseCall, Compose, Timeout, VerdictLate
<1>3. HostReads \/ Lose => wire # <<>> /\ wire' = Tail(wire)
  BY DEF HostReads, Lose
<1>4. Apply => More
  <2>1. Apply => \A a \in DOMAIN cmd \cap DOMAIN C.hears : cmd[a] \in Bit
    BY <1>0 DEF Apply, Commanded
  <2> QED
    BY <1>1, <2>1 DEF Apply
<1>5. Change => More
  BY <1>1 DEF Change
<1>6. VerdictTaken => More
  <2>1. VerdictTaken => verdict \in C.forwards
    BY <1>0 DEF VerdictTaken
  <2>2. VerdictTaken => \A a \in DOMAIN verdict.w \cap DOMAIN C.hears : verdict.w[a] \in Bit
    BY <2>1, Made
  <2> QED
    BY <1>1, <2>2 DEF VerdictTaken
<1>7. Forward => More
  <2> SUFFICES ASSUME Forward PROVE More
    OBVIOUS
  <2>1. PICK f \in C.forwards : wire' = Append(wire, Asks(f))
    BY DEF Forward
  <2>2. Asks(f) \in Lines /\ Asks(f).t = "cmd"
    BY DEF Asks, Lines
  <2> DEFINE e == <<Asks(f)>>
  <2>3. wire' = wire \o e /\ e \in Seq(Lines)
    BY <1>0, <2>1, <2>2, AppendIs
  <2>4. \A i \in DOMAIN e : e[i].t # "end"
    BY <2>2
  <2> HIDE DEF e
  <2> QED
    BY <2>3, <2>4 DEF More
<1>8. /\ AnswerOk => wire' = Append(wire, End(TRUE))
      /\ Refuse => wire' = Append(wire, End(FALSE))
      /\ Reboot => wire' = <<>>
  BY DEF AnswerOk, Refuse, Reboot
<1> QED
  BY <1>2, <1>3, <1>4, <1>5, <1>6, <1>7, <1>8 DEF EPNext, More

\* Where an answer on the wire comes from.
LEMMA EndedStep ==
  ASSUME WellMade, Typed, InFlight, EPNext, C' = C, NEW ok, Ended(ok)'
  PROVE  /\ phase' = "answered" /\ phase # "idle"
         /\ \/ Ended(ok)
            \/ AnswerOk /\ ok = TRUE
            \/ Refuse /\ ok = FALSE
<1>0. wire \in Seq(Lines) /\ OneEnd
  BY DEF Typed, InFlight
<1>1. PICK k \in DOMAIN wire' : wire'[k].t = "end" /\ wire'[k].v = ok
  BY DEF Ended
<1>2. phase' = "answered"
  BY <1>1, StepFlight DEF InFlight, OneEnd
<1>3. Ended(ok) => phase # "idle"
  BY <1>0 DEF Ended, OneEnd
<1>4. AnswerOk \/ Refuse => phase # "idle"
  BY DEF AnswerOk, Refuse
<1>5. CASE wire' = wire
  BY <1>1, <1>2, <1>3, <1>5 DEF Ended
<1>6. CASE wire # <<>> /\ wire' = Tail(wire)
  <2>1. k + 1 \in DOMAIN wire /\ wire'[k] = wire[k + 1]
    BY <1>0, <1>1, <1>6, TailTyped
  <2> QED
    BY <1>1, <1>2, <1>3, <2>1 DEF Ended
<1>7. ASSUME NEW e \in Seq(Lines), wire' = wire \o e, \A i \in DOMAIN e : e[i].t # "end"
      PROVE  Ended(ok)
  <2>1. k \in DOMAIN wire /\ wire'[k] = wire[k]
    BY <1>0, <1>1, <1>7, AddedTyped
  <2> QED
    BY <1>1, <2>1 DEF Ended
<1>8. ASSUME NEW b \in BOOLEAN, wire' = Append(wire, End(b)), ~Ended(ok)
      PROVE  b = ok
  <2>1. \/ k \in DOMAIN wire /\ wire'[k] = wire[k]
        \/ wire'[k] = End(b)
    BY <1>0, <1>1, <1>8
  <2>2. wire'[k] = End(b)
    BY <1>1, <1>8, <2>1 DEF Ended
  <2>3. End(b).v = b
    BY DEF End
  <2> QED
    BY <1>1, <2>2, <2>3
<1>9. wire' # <<>>
  BY <1>1
<1> QED
  BY <1>2, <1>3, <1>4, <1>5, <1>6, <1>7, <1>8, <1>9, WireStep

\* An answer stays on the wire until it is read or lost.
LEMMA EndedKept ==
  ASSUME WellMade, Typed, InFlight, EPNext, C' = C, NEW ok, Ended(ok),
         ~Reboot \/ HostReads, phase' # "idle", ~(Lose /\ Head(wire).t = "end")
  PROVE  Ended(ok)'
<1>0. wire \in Seq(Lines) /\ OneEnd
  BY DEF Typed, InFlight
<1>1. PICK k \in DOMAIN wire : wire[k].t = "end" /\ wire[k].v = ok
  BY DEF Ended
<1>2. ASSUME NEW e, wire' = wire \o e, e \in Seq(Lines)
      PROVE  Ended(ok)'
  <2>1. k \in DOMAIN wire' /\ wire'[k] = wire[k]
    BY <1>0, <1>1, <1>2, AddedTyped
  <2> QED
    BY <1>1, <2>1 DEF Ended
<1>3. CASE wire' = wire
  BY <1>1, <1>3 DEF Ended
<1>4. CASE (HostReads \/ Lose) /\ wire # <<>> /\ wire' = Tail(wire)
  <2>1. Head(wire).t # "end"
    <3>1. HostReads => Head(wire).t # "end"
      BY DEF HostReads, Commit, Fails
    <3> QED
      BY <1>4, <3>1
  <2>2. k # 1 /\ k - 1 \in DOMAIN wire' /\ wire'[k - 1] = wire[k]
    BY <1>0, <1>1, <1>4, <2>1, TailTyped
  <2> QED
    BY <1>1, <2>2 DEF Ended
<1>5. ASSUME NEW b \in BOOLEAN, wire' = Append(wire, End(b))
      PROVE  Ended(ok)'
  <2>1. End(b) \in Lines
    BY DEF End, Lines
  <2> QED
    BY <1>0, <1>2, <1>5, <2>1, AppendIs
<1>6. HostReads => wire # <<>> /\ wire' = Tail(wire)
  BY DEF HostReads
<1> QED
  BY <1>2, <1>3, <1>4, <1>5, <1>6, WireStep

\* Where an applied command comes from.
LEMMA DoneStep ==
  ASSUME WellMade, Typed, InFlight, EPNext, C' = C, Done'
  PROVE  /\ phase # "idle" /\ phase' # "idle"
         /\ UNCHANGED <<todo, pushing, cmd, known>> /\ known /\ todo # <<>>
         /\ Done \/ Apply
         /\ Done => phase # "ready" /\ ~Apply
         /\ ~Reboot /\ ~Refuse
<1>1. CASE Ended(TRUE)'
  <2>1. phase' = "answered" /\ phase # "idle" /\ (Ended(TRUE) \/ AnswerOk)
    BY <1>1, EndedStep
  <2>2. Done
    BY <2>1 DEF Done, AnswerOk
  <2>3. ~Reboot
    BY <1>1 DEF Reboot, Ended
  <2>4. phase # "ready" /\ ~Apply /\ ~Refuse
    <3>1. Ended(TRUE) => phase = "answered"
      BY DEF Ended, InFlight, OneEnd
    <3> QED
      BY <2>1, <3>1 DEF Apply, AnswerOk, Refuse
  <2> QED
    BY <2>1, <2>2, <2>3, <2>4, Pending
<1>2. CASE phase' = "applied"
  <2>1. phase = "applied" \/ Apply
    <3>1. ~Reconcile \/ phase = "applied"
      BY <1>2 DEF Reconcile
    <3>2. ~Compose /\ ~Timeout /\ ~AnswerOk /\ ~Refuse /\ ~Reboot
      BY <1>2 DEF Compose, Timeout, Fails, AnswerOk, Refuse, Reboot
    <3>3. Call \/ Skip \/ RefuseCall => phase = "applied"
      BY <1>2 DEF Call, Skip, RefuseCall
    <3>4. HostReads => phase = "applied"
      BY <1>2 DEF HostReads, Commit, Fails, callVars
    <3>5. Change \/ Forward \/ VerdictTaken \/ VerdictLate \/ Lose => phase = "applied"
      BY <1>2 DEF Change, Forward, VerdictTaken, VerdictLate, Lose, callVars
    <3> QED
      BY <3>1, <3>2, <3>3, <3>4, <3>5 DEF EPNext
  <2>2. phase # "idle" /\ (Done \/ Apply)
    BY <2>1 DEF Done, Apply
  <2>3. Done => phase = "applied" /\ ~Apply
    <3>1. Apply => phase = "ready"
      BY DEF Apply
    <3>2. Ended(TRUE) => phase = "answered"
      BY DEF Ended, InFlight, OneEnd
    <3> QED
      BY <2>1, <3>1, <3>2 DEF Done
  <2>4. ~Reboot /\ ~Refuse
    BY <1>2 DEF Reboot, Refuse
  <2> QED
    BY <1>2, <2>2, <2>3, <2>4, Pending
<1> QED
  BY <1>1, <1>2 DEF Done

\* Once applied a command stays so until its OK is read or lost.
LEMMA DoneKept ==
  ASSUME WellMade, Typed, InFlight, EPNext, C' = C, Done,
         ~Reboot \/ HostReads, phase' # "idle", ~(Lose /\ Head(wire).t = "end")
  PROVE  Done' /\ todo' = todo
<1>1. CASE Ended(TRUE)
  <2>1. phase = "answered"
    BY <1>1 DEF Ended, InFlight, OneEnd
  <2> QED
    BY <1>1, <2>1, EndedKept, Pending DEF Done
<1>2. CASE phase = "applied"
  <2>1. UNCHANGED <<todo, pushing, cmd, known>> /\ todo # <<>>
    BY <1>2, Pending
  <2>2. ~Call /\ ~Reconcile /\ ~Skip /\ ~RefuseCall /\ ~Compose /\ ~Timeout
        /\ ~Apply /\ ~Refuse
    BY <1>2, <2>1 DEF Call, Reconcile, Skip, RefuseCall, Compose, Timeout, Apply,
                      Refuse
  <2>3. HostReads => phase' = phase
    BY DEF HostReads, Commit, Fails, callVars
  <2>4. Change \/ Forward \/ VerdictTaken \/ VerdictLate \/ Lose => phase' = phase
    BY DEF Change, Forward, VerdictTaken, VerdictLate, Lose, callVars
  <2>5. AnswerOk => Ended(TRUE)'
    <3> SUFFICES ASSUME AnswerOk PROVE Ended(TRUE)'
      OBVIOUS
    <3>1. wire \in Seq(Lines) /\ wire' = Append(wire, End(TRUE))
      BY DEF Typed, AnswerOk
    <3>2. End(TRUE) \in Lines /\ End(TRUE).t = "end" /\ End(TRUE).v = TRUE
      BY DEF End, Lines
    <3>3. \A x \in Lines : /\ Len(wire) + 1 \in DOMAIN Append(wire, x)
                             /\ Append(wire, x)[Len(wire) + 1] = x
      BY <3>1, AppendProperties
    <3>4. Len(wire) + 1 \in DOMAIN wire' /\ wire'[Len(wire) + 1] = End(TRUE)
      BY <3>1, <3>2, <3>3
    <3> QED
      BY <3>2, <3>4 DEF Ended
  <2> QED
    BY <1>2, <2>1, <2>2, <2>3, <2>4, <2>5 DEF EPNext, Done
<1> QED
  BY <1>1, <1>2 DEF Done

-----------------------------------------------------------------------------
(* What the class tells of the command in flight.                           *)

\* The value a write puts into a field is in its command, or that of the write
\* before.
LEMMA Sent ==
  ASSUME WellMade, Typed, InFlight, phase # "idle", NEW f \in DOMAIN Head(todo).to
  PROVE  /\ ~pushing /\ f \in Fields /\ f \in Sets(todo)
         /\ Head(todo).to[f] \in Bit
         /\ \/ Following
            \/ /\ f \in Mirrors(DOMAIN cmd) /\ cmd[C.shows[f]] = Head(todo).to[f]
               /\ Plain(C, Head(todo))
<1>0. /\ todo \in Seq(Writes(C)) /\ todo # <<>> /\ Pushes /\ Shaped
      /\ DOMAIN cmd = Carries(C, Head(todo))
      /\ \A a \in DOMAIN Head(todo).w : cmd[a] = Head(todo).w[a]
  BY DEF Typed, InFlight, Commanded
<1>1. /\ 1 \in DOMAIN todo /\ Head(todo) = todo[1] /\ Head(todo) \in Writes(C)
  BY <1>0, TailTyped
<1>2. ~pushing
  <2> SUFFICES ASSUME pushing PROVE FALSE
    OBVIOUS
  <2>1. Head(todo) \in ToSet(C.push)
    BY <1>0, <1>1 DEF Pushes
  <2>2. Head(todo).to = Nothing
    BY <2>1 DEF WellMade, WritesWell
  <2> QED
    BY <2>2 DEF Nothing
<1>3. f \in Fields /\ Head(todo).to[f] \in Bit
  BY <1>1, Made
<1>4. f \in Sets(todo)
  BY <1>1 DEF Sets, ToSet
<1>5. CASE Plain(C, Head(todo))
  BY <1>0, <1>2, <1>3, <1>4, <1>5 DEF Plain, Mirrors, Carries
<1>6. CASE Len(todo) = 2 /\ Follows(C, todo[1], todo[2])
  BY <1>1, <1>5, <1>6 DEF Follows
<1> QED
  BY <1>0, <1>1, <1>2, <1>3, <1>4, <1>5, <1>6 DEF Shaped

\* What Following says.
LEMMA Followers ==
  ASSUME WellMade, Typed, Following
  PROVE  /\ ~pushing /\ Len(todo) = 1 /\ todo # <<>> /\ Head(todo) \in Writes(C)
         /\ Head(todo).also = {} /\ Head(todo).skip = "never"
         /\ Showing(C, DOMAIN Head(todo).w) = {}
         /\ \A a \in DOMAIN Head(todo).w \cap DOMAIN C.hears :
              C.hears[a] \in DOMAIN Head(todo).to /\ Head(todo).w[a] = Head(todo).to[C.hears[a]]
         /\ \A f \in DOMAIN Head(todo).to :
              /\ f \in Fields /\ f \in Sets(todo)
              /\ f \notin C.flagged /\ C.shows[f] \notin C.keeps
              /\ \A g \in C.forwards : f \notin DOMAIN g.to
<1>1. todo \in Seq(Writes(C)) /\ ~pushing /\ Len(todo) = 1
  BY DEF Typed, Following
<1>2. PICK q \in Writes(C) : Follows(C, q, Head(todo))
  BY DEF Following
<1>a. todo # <<>>
  BY <1>1, EmptySeq
<1>3. todo # <<>> /\ 1 \in DOMAIN todo /\ Head(todo) = todo[1] /\ Head(todo) \in Writes(C)
  BY <1>1, <1>a, TailTyped
<1>4. \A f \in DOMAIN Head(todo).to : f \in Fields /\ f \in Sets(todo)
  BY <1>3, Made DEF Sets, ToSet
<1> QED
  BY <1>1, <1>2, <1>3, <1>4 DEF Follows

\* The attributes of a command that report into the field of another are those
\* of the second of two writes.
LEMMA Echoed ==
  ASSUME WellMade, Typed, InFlight, phase # "idle",
         NEW a \in DOMAIN cmd \cap DOMAIN C.hears
  PROVE  /\ C.hears[a] \in Fields
         /\ \/ Straight(C, a)
            \/ Following /\ C.hears[a] \in DOMAIN Head(todo).to
         /\ Following => /\ C.hears[a] \in DOMAIN Head(todo).to
                           /\ cmd[a] = Head(todo).to[C.hears[a]]
<1>0. /\ todo \in Seq(Writes(C)) /\ todo # <<>> /\ Pushes /\ Shaped
      /\ DOMAIN cmd = Carries(C, Head(todo))
      /\ \A b \in DOMAIN Head(todo).w : cmd[b] = Head(todo).w[b]
      /\ phase # "idle"
  BY DEF Typed, InFlight, Commanded
<1>1. /\ 1 \in DOMAIN todo /\ Head(todo) = todo[1] /\ Head(todo) \in Writes(C)
  BY <1>0, TailTyped
<1>2. C.hears[a] \in Fields
  BY Made
<1>3. CASE a \notin DOMAIN Head(todo).w
  <2>1. PICK g \in Head(todo).also : a = C.shows[g]
    BY <1>0, <1>3 DEF Carries
  <2>2. g \in Showing(C, {a})
    BY <1>1, <2>1, Made DEF Showing
  <2>3. Straight(C, a)
    BY <2>2 DEF WellMade, ReportsWell
  <2>4. ~Following
    BY <2>1, Followers
  <2> QED
    BY <1>2, <2>3, <2>4
<1>4. CASE a \in DOMAIN Head(todo).w
  <2>1. Following => /\ C.hears[a] \in DOMAIN Head(todo).to
                       /\ cmd[a] = Head(todo).to[C.hears[a]]
    BY <1>0, <1>4, Followers
  <2>2. Plain(C, Head(todo)) => Straight(C, a)
    BY <1>4 DEF Plain
  <2>3. pushing => FALSE
    <3>1. pushing => Head(todo) \in ToSet(C.push)
      BY <1>0, <1>1 DEF Pushes
    <3>2. pushing => Head(todo).w = Nothing
      BY <3>1 DEF WellMade, WritesWell
    <3> QED
      BY <1>4, <3>2 DEF Nothing
  <2>4. Plain(C, Head(todo)) \/ Following
    <3>1. Len(todo) = 2 /\ Follows(C, todo[1], todo[2]) => Plain(C, Head(todo))
      BY <1>1 DEF Follows
    <3> QED
      BY <1>0, <1>1, <2>3, <3>1 DEF Shaped
  <2> QED
    BY <1>2, <2>1, <2>2, <2>4
<1> QED
  BY <1>3, <1>4

\* With no command applied no report is one of another attribute.
LEMMA NoStrays ==
  ASSUME WellMade, Typed, InFlight, Strays,
         NEW i \in DOMAIN wire, wire[i].t = "urc", ~Straight(C, wire[i].a)
  PROVE  /\ Done /\ C.hears[wire[i].a] \in DOMAIN Head(todo).to /\ Following
         /\ phase \in {"applied", "answered"}
<1>1. /\ Following /\ C.hears[wire[i].a] \in DOMAIN Head(todo).to
      /\ \/ phase = "applied"
         \/ \E k \in i .. Len(wire) : wire[k].t = "end" /\ wire[k].v = TRUE
  BY DEF Strays
<1>2. wire \in Seq(Lines) /\ OneEnd
  BY DEF Typed, InFlight
<1>3. ASSUME NEW k \in i .. Len(wire), wire[k].t = "end", wire[k].v = TRUE
      PROVE  Done /\ phase = "answered"
  <2>1. k \in DOMAIN wire
    BY <1>2
  <2> QED
    BY <1>2, <1>3, <2>1 DEF Done, Ended, OneEnd
<1> QED
  BY <1>1, <1>3 DEF Done

\* A line that reaches a field reports the attribute it mirrors, or is one of those.
LEMMA Reaching ==
  ASSUME WellMade, Typed, InFlight, Strays, NEW i \in DOMAIN wire, NEW f,
         Reaches(wire[i], f)
  PROVE  /\ f \in Fields /\ wire[i].a \in DOMAIN C.hears /\ wire[i].v \in Bit
         /\ wire[i].t = "urc" /\ C.hears[wire[i].a] = f
         /\ \/ wire[i].a = C.shows[f] /\ Straight(C, wire[i].a)
            \/ Done /\ f \in DOMAIN Head(todo).to /\ Following
<1>1. wire \in Seq(Lines) /\ wire[i] \in Lines
  BY DEF Typed
<1>2. wire[i].t = "urc" /\ C.hears[wire[i].a] = f
  BY DEF Reaches
<1>3. wire[i].a \in DOMAIN C.hears /\ wire[i].v \in Bit
  BY <1>1, <1>2 DEF Lines
<1> QED
  BY <1>2, <1>3, Made, NoStrays DEF Straight

-----------------------------------------------------------------------------
(* The fields that may differ.                                              *)

\* While something is left of a call, a reason stays.
LEMMA WhyGrows ==
  ASSUME Typed, EPNext, ~Apply, todo' # <<>>, NEW f \in Fields
  PROVE  why[f] \subseteq why'[f]
  BY WhyKept DEF AtRest

\* A step that blames fields, with something left of the call.
LEMMA Blamed ==
  ASSUME NEW t, NEW r, Blame(why, t, r), todo' # <<>>, NEW f \in Fields \cap t
  PROVE  why'[f] # {}
  BY NotBlamed DEF AtRest

\* A command that will not be answered OK leaves a reason.
LEMMA UnansweredStep ==
  ASSUME WellMade, Typed, InFlight, EPNext, C' = C, Unanswered
  PROVE  Unanswered'
<1>0. wire \in Seq(Lines) /\ OneEnd /\ Commanded
  BY DEF Typed, InFlight
<1>00. Fields' = Fields
  BY DEF Fields
<1>1. \A ok : Ended(ok)' => phase' = "answered" /\ phase # "idle"
  BY EndedStep
<1> SUFFICES ASSUME phase' = "answered", NEW f \in Mirrors(DOMAIN cmd'),
                    \/ ~Ended(TRUE)' /\ ~Ended(FALSE)'
                    \/ Ended(FALSE)' /\ f \notin DOMAIN Head(todo').to
             PROVE  why'[f] # {}
  <2>1. \A g : g \in Mirrors(DOMAIN cmd)' <=> g \in Mirrors(DOMAIN cmd')
    BY <1>00 DEF Mirrors
  <2> QED
    BY <1>1, <2>1 DEF Unanswered
<1>2. phase # "idle"
  <2>1. Call \/ Reconcile \/ Skip \/ RefuseCall \/ Compose \/ Apply => phase # "idle"
    BY DEF Call, Reconcile, Skip, RefuseCall, Compose, Apply
  <2>2. HostReads => phase = phase'
    BY DEF HostReads, Commit, Fails, callVars
  <2>3. Timeout \/ AnswerOk \/ Refuse => phase # "idle"
    BY DEF Timeout, AnswerOk, Refuse
  <2>4. Change \/ Forward \/ VerdictTaken \/ VerdictLate \/ Lose => phase = phase'
    BY DEF Change, Forward, VerdictTaken, VerdictLate, Lose, callVars
  <2>5. Reboot => phase # "idle"
    BY DEF Reboot
  <2> QED
    BY <2>1, <2>2, <2>3, <2>4, <2>5 DEF EPNext
<1>3. UNCHANGED <<todo, pushing, cmd, known>> /\ todo # <<>>
  BY <1>2, Pending
<1>4. f \in Fields /\ f \in Mirrors(DOMAIN cmd)
  BY <1>3 DEF Mirrors
<1>5. CASE Refuse
  <2>1. Blame(why, Mirrors(DOMAIN cmd) \ DOMAIN Head(todo).to, "refused")
    BY <1>5 DEF Refuse
  <2>2. Ended(FALSE)'
    <3>1. End(FALSE) \in Lines /\ End(FALSE).t = "end" /\ End(FALSE).v = FALSE
      BY DEF End, Lines
    <3>2. \A x \in Lines : /\ Len(wire) + 1 \in DOMAIN Append(wire, x)
                             /\ Append(wire, x)[Len(wire) + 1] = x
      BY <1>0, AppendProperties
    <3>3. Len(wire) + 1 \in DOMAIN wire' /\ wire'[Len(wire) + 1] = End(FALSE)
      BY <1>5, <3>1, <3>2 DEF Refuse
    <3> QED
      BY <3>1, <3>3 DEF Ended
  <2>3. f \notin DOMAIN Head(todo).to
    BY <1>3, <2>2
  <2> QED
    BY <1>3, <1>4, <2>1, <2>3, Blamed
<1>6. CASE Reboot
  <2> DEFINE base == [g \in Fields |->
                        why[g] \cup (IF g \in Mirrors(DOMAIN cmd) THEN {"lost"} ELSE {})]
             touched == Mirrors(DOMAIN dev \ C.keeps)
  <2>1. Blame(base, touched, "reboot")
    BY <1>6 DEF Reboot
  <2>2. "lost" \in base[f]
    BY <1>4
  <2>3. ~AtRest'
    BY <1>3 DEF AtRest
  <2> HIDE DEF base, touched
  <2> QED
    BY <1>4, <2>1, <2>2, <2>3, NotBlamed
<1>7. CASE Lose /\ Head(wire).t = "end"
  <2>1. Blame(why, Mirrors(DOMAIN cmd), "lost")
    BY <1>7 DEF Lose
  <2> QED
    BY <1>3, <1>4, <2>1, Blamed
<1>8. CASE AnswerOk /\ ~Reboot
  <2>1. phase = "applied" /\ Done /\ ~Reboot /\ ~Lose
    BY <1>8 DEF AnswerOk, Done, Lose, callVars
  <2>2. Done'
    BY <2>1, DoneKept
  <2>3. Ended(TRUE)'
    BY <2>2 DEF Done
  <2>4. ~Ended(FALSE)'
    <3>1. ~Ended(FALSE)
      BY <1>0, <2>1 DEF Ended, OneEnd
    <3> QED
      BY <1>8, <3>1, EndedStep DEF AnswerOk, Refuse
  <2> QED
    BY <2>3, <2>4
<1>9. CASE ~Refuse /\ ~Reboot /\ ~(Lose /\ Head(wire).t = "end") /\ ~AnswerOk
  <2>1. ~Apply
    BY DEF Apply
  <2>2. phase = "answered"
    <3>1. ~Call /\ ~Reconcile /\ ~Skip /\ ~RefuseCall /\ ~Compose /\ ~Timeout
      BY <1>2, <1>3 DEF Call, Reconcile, Skip, RefuseCall, Compose, Timeout, Fails
    <3>2. HostReads => phase = phase'
      BY DEF HostReads, Commit, Fails, callVars
    <3>3. Change \/ Forward \/ VerdictTaken \/ VerdictLate \/ Lose => phase = phase'
      BY DEF Change, Forward, VerdictTaken, VerdictLate, Lose, callVars
    <3> QED
      BY <1>9, <2>1, <3>1, <3>2, <3>3 DEF EPNext
  <2>3. \A ok : Ended(ok) => Ended(ok)'
    BY <1>9, EndedKept
  <2>4. Ended(FALSE)' => Ended(FALSE)
    BY <1>9, EndedStep
  <2>5. why[f] # {}
    BY <1>3, <1>4, <2>2, <2>3, <2>4 DEF Unanswered
  <2>6. why[f] \subseteq why'[f]
    BY <1>3, <1>4, <2>1, WhyGrows
  <2> QED
    BY <2>5, <2>6
<1> QED
  BY <1>5, <1>6, <1>7, <1>8, <1>9

\* The steps that change the cache, and the attributes.
LEMMA CacheStep ==
  ASSUME EPNext
  PROVE  cache' = cache \/ ReadTaken \/ ReadAllowed \/ ReadOk
<1>1. Call \/ RefuseCall \/ Compose \/ Apply \/ AnswerOk \/ Refuse => cache' = cache
  BY DEF Call, RefuseCall, Compose, Apply, AnswerOk, Refuse, hostVars
<1>2. Change \/ Forward \/ VerdictTaken \/ VerdictLate \/ Lose => cache' = cache
  BY DEF Change, Forward, VerdictTaken, VerdictLate, Lose, hostVars
<1>3. Reconcile \/ Skip \/ Timeout \/ Reboot => cache' = cache
  BY DEF Reconcile, Skip, Timeout, Fails, Reboot
<1>4. HostReads => cache' = cache \/ ReadTaken \/ ReadAllowed \/ ReadOk
  <2>1. HostReads => ReadStep
    BY HostReading
  <2>2. ReadKept \/ ReadDenied \/ ReadError => cache' = cache
    BY DEF ReadKept, ReadDenied, ReadError, Fails
  <2> QED
    BY <2>1, <2>2 DEF ReadStep
<1> QED
  BY <1>1, <1>2, <1>3, <1>4 DEF EPNext

LEMMA DevStep ==
  ASSUME EPNext
  PROVE  dev' = dev \/ Apply \/ Change \/ VerdictTaken \/ Reboot
<1>1. Call \/ RefuseCall \/ Compose \/ AnswerOk \/ Refuse => dev' = dev
  BY DEF Call, RefuseCall, Compose, AnswerOk, Refuse
<1>2. Forward \/ VerdictLate \/ Lose => dev' = dev
  BY DEF Forward, VerdictLate, Lose
<1>3. Reconcile \/ Skip \/ Timeout \/ HostReads => dev' = dev
  BY DEF Reconcile, Skip, Timeout, HostReads
<1> QED
  BY <1>1, <1>2, <1>3 DEF EPNext

\* A change of an attribute is reported, or blamed.
LEMMA Changed ==
  ASSUME WellMade, Typed, Change
  PROVE  \E a \in C.changes, v \in Bit, e \in Seq(Lines) :
           /\ a \in DOMAIN C.fresh /\ dev' = [dev EXCEPT ![a] = v] /\ wire' = wire \o e
           /\ \A i \in DOMAIN e : e[i].t = "urc" /\ e[i].a = a /\ a \in DOMAIN C.hears /\ e[i].v = v
           /\ a \in DOMAIN C.hears =>
                /\ Straight(C, a)
                /\ \E i \in DOMAIN e : Reaches(e[i], C.hears[a])
           /\ IF Mirrors({a}) \cap Sets(todo) # {}
                THEN Blame(why, Mirrors({a}), "crossed")
                ELSE Blame(why, Mirrors({a}) \ HeardIn({a}), "unheard")
<1>1. PICK a \in C.changes, v \in Bit :
        /\ v # dev[a]
        /\ dev' = [dev EXCEPT ![a] = v]
        /\ wire' = wire \o Echo([x \in {a} |-> v])
        /\ IF Mirrors({a}) \cap Sets(todo) # {}
             THEN Blame(why, Mirrors({a}), "crossed")
             ELSE Blame(why, Mirrors({a}) \ HeardIn({a}), "unheard")
  BY DEF Change
<1> DEFINE w == [x \in {a} |-> v]
           e == Echo(w)
<1>2. \A b \in DOMAIN w \cap DOMAIN C.hears : w[b] \in Bit
  OBVIOUS
<1>3. DOMAIN w = {a} /\ w[a] = v
  OBVIOUS
<1> HIDE DEF w
<1>4. /\ e \in Seq(Lines)
      /\ \A i \in DOMAIN e : \E b \in DOMAIN w \cap DOMAIN C.hears : e[i] = Urc(b, w[b])
      /\ \A b \in DOMAIN w \cap DOMAIN C.hears : \E i \in DOMAIN e : e[i] = Urc(b, w[b])
  BY <1>2, EchoLines
<1> HIDE DEF e
<1>5. \A i \in DOMAIN e : e[i].t = "urc" /\ e[i].a = a /\ a \in DOMAIN C.hears /\ e[i].v = v
  BY <1>3, <1>4 DEF Urc
<1>6. a \in DOMAIN C.hears => \E i \in DOMAIN e : Reaches(e[i], C.hears[a])
  BY <1>3, <1>4 DEF Urc, Reaches
<1>7. a \in DOMAIN C.hears => Straight(C, a)
  BY DEF WellMade, ReportsWell
<1>8. a \in DOMAIN C.fresh
  BY DEF WellMade, WellTyped
<1>9. wire' = wire \o e
  BY <1>1 DEF e, w
<1> QED
  BY <1>1, <1>4, <1>5, <1>6, <1>7, <1>8, <1>9

\* A change of what a call is about leaves a reason.
LEMMA UndisturbedStep ==
  ASSUME WellMade, Typed, InFlight, EPNext, C' = C, Undisturbed
  PROVE  Undisturbed'
<1>0. /\ wire \in Seq(Lines) /\ OneEnd /\ Commanded /\ todo \in Seq(Writes(C))
      /\ dev \in [DOMAIN C.fresh -> Value]
  BY DEF Typed, InFlight
<1>00. Fields' = Fields
  BY DEF Fields
<1>1. ASSUME Done', NEW f \in Sets(todo') \cap Mirrors(DOMAIN cmd'), why'[f] = {}
      PROVE  dev'[C.shows[f]] = cmd'[C.shows[f]]
  <2>1. /\ phase # "idle" /\ phase' # "idle" /\ UNCHANGED <<todo, pushing, cmd, known>>
        /\ todo # <<>> /\ (Done \/ Apply) /\ (Done => ~Apply) /\ ~Reboot
    BY <1>1, DoneStep
  <2>2. f \in Sets(todo) /\ f \in Mirrors(DOMAIN cmd) /\ f \in Fields
        /\ C.shows[f] \in DOMAIN cmd
    BY <1>1, <2>1 DEF Mirrors
  <2>3. CASE Apply
    <3>1. cmd \in [Carries(C, Head(todo)) -> Value] /\ Head(todo) \in Writes(C)
      BY <1>0, <2>1, TailTyped DEF Commanded
    <3>2. DOMAIN cmd \subseteq DOMAIN C.fresh
      BY <3>1, Made DEF Carries
    <3> QED
      BY <2>1, <2>2, <2>3, <3>1, <3>2, UpdatedDevice DEF Apply
  <2>4. CASE Done
    <3>1. why[f] = {}
      BY <1>1, <2>1, <2>2, <2>4, WhyGrows
    <3>2. dev[C.shows[f]] = cmd[C.shows[f]]
      BY <2>2, <2>4, <3>1 DEF Undisturbed
    <3>3. ~VerdictTaken
      BY <2>1 DEF VerdictTaken
    <3>4. CASE Change
      <4>1. PICK a \in C.changes, v \in Bit :
              /\ dev' = [dev EXCEPT ![a] = v]
              /\ IF Mirrors({a}) \cap Sets(todo) # {}
                   THEN Blame(why, Mirrors({a}), "crossed")
                   ELSE Blame(why, Mirrors({a}) \ HeardIn({a}), "unheard")
        BY <3>4, Changed
      <4>2. C.shows[f] # a
        <5> SUFFICES ASSUME C.shows[f] = a PROVE FALSE
          OBVIOUS
        <5>1. f \in Mirrors({a}) \cap Sets(todo)
          BY <2>2 DEF Mirrors
        <5>2. Blame(why, Mirrors({a}), "crossed")
          BY <4>1, <5>1
        <5> QED
          BY <1>1, <2>1, <2>2, <5>1, <5>2, Blamed
      <4> QED
        BY <1>0, <2>1, <3>2, <4>1, <4>2
    <3> QED
      BY <2>1, <2>4, <3>2, <3>3, <3>4, DevStep
  <2> QED
    BY <2>1, <2>3, <2>4
<1>2. ASSUME NEW f \in Sets(todo'), why'[f] = {}, NEW k \in DOMAIN wire', wire'[k].t = "end",
             NEW j \in k .. Len(wire'), Reaches(wire'[j], f)
      PROVE  FALSE
  <2>1. \E ok : Ended(ok)'
    BY <1>2 DEF Ended
  <2>2. phase' = "answered" /\ phase # "idle"
    BY <2>1, EndedStep
  <2>3. UNCHANGED <<todo, pushing, cmd, known>> /\ todo # <<>>
    BY <2>2, Pending
  <2>4. ~Apply
    BY <2>2 DEF Apply
  <2>5. f \in Sets(todo) /\ f \in Fields
    <3>1. \A p \in ToSet(todo) : p \in Writes(C)
      BY <1>0 DEF ToSet
    <3> QED
      BY <1>2, <2>3, <3>1, Made DEF Sets
  <2>6. why[f] = {}
    BY <1>2, <2>3, <2>4, <2>5, WhyGrows
  <2>7. \A n \in DOMAIN wire : wire[n].t = "end" =>
          \A m \in n .. Len(wire) : ~Reaches(wire[m], f)
    BY <2>5, <2>6 DEF Undisturbed
  <2>8. wire'[j].t = "urc" /\ C.hears[wire'[j].a] = f
    BY <1>2 DEF Reaches
  <2>9. wire' \in Seq(Lines)
    BY StepTyped, StepKind DEF Typed, Lines
  <2>10. j \in DOMAIN wire' /\ k <= j /\ k \in Nat /\ j \in Nat
    BY <1>2, <2>9
  <2>11. CASE wire' = wire
    BY <1>2, <2>7, <2>11
  <2>12. CASE wire # <<>> /\ wire' = Tail(wire)
    <3>1. k + 1 \in DOMAIN wire /\ wire[k + 1] = wire'[k] /\ j + 1 \in DOMAIN wire /\ wire[j + 1] = wire'[j]
      BY <1>0, <1>2, <2>10, <2>12, TailTyped
    <3>2. j + 1 \in (k + 1) .. Len(wire)
      BY <1>0, <2>10, <3>1
    <3> QED
      BY <1>2, <2>7, <3>1, <3>2
  <2>13. ASSUME NEW e \in Seq(Lines), wire' = wire \o e, \A i \in DOMAIN e : e[i].t # "end"
        PROVE  j \notin DOMAIN wire
    <3> SUFFICES ASSUME j \in DOMAIN wire PROVE FALSE
      OBVIOUS
    <3>1. k \in DOMAIN wire /\ wire'[k] = wire[k] /\ wire'[j] = wire[j] /\ j \in k .. Len(wire)
      BY <1>0, <1>2, <2>10, <2>13, AddedTyped
    <3> QED
      BY <1>2, <2>7, <3>1
  <2>14. CASE Change
    <3>1. PICK a \in C.changes, v \in Bit, e \in Seq(Lines) :
           /\ wire' = wire \o e
           /\ \A i \in DOMAIN e : e[i].t = "urc" /\ e[i].a = a /\ a \in DOMAIN C.hears /\ e[i].v = v
           /\ a \in DOMAIN C.hears => Straight(C, a)
           /\ IF Mirrors({a}) \cap Sets(todo) # {}
                THEN Blame(why, Mirrors({a}), "crossed")
                ELSE Blame(why, Mirrors({a}) \ HeardIn({a}), "unheard")
      BY <2>14, Changed
    <3>2. j \notin DOMAIN wire
      BY <2>13, <3>1
    <3>3. wire'[j].a = a /\ a \in DOMAIN C.hears
      BY <1>0, <2>10, <3>1, <3>2, AddedTyped
    <3>4. f \in Mirrors({a}) \cap Sets(todo)
      BY <2>5, <2>8, <3>1, <3>3 DEF Mirrors, Straight
    <3>5. Blame(why, Mirrors({a}), "crossed")
      BY <3>1, <3>4
    <3> QED
      BY <1>2, <2>3, <2>5, <3>4, <3>5, Blamed
  <2>15. CASE Forward
    <3>1. PICK g \in C.forwards : wire' = Append(wire, Asks(g))
      BY <2>15 DEF Forward
    <3>2. Asks(g) \in Lines /\ Asks(g).t = "cmd"
      BY DEF Asks, Lines
    <3>3. wire' = wire \o <<Asks(g)>> /\ <<Asks(g)>> \in Seq(Lines)
          /\ \A i \in DOMAIN <<Asks(g)>> : <<Asks(g)>>[i].t # "end"
      BY <1>0, <3>1, <3>2, AppendIs
    <3>4. j \notin DOMAIN wire
      BY <2>13, <3>3
    <3>5. wire'[j] = Asks(g)
      BY <1>0, <2>10, <3>1, <3>2, <3>4
    <3> QED
      BY <2>8, <3>2, <3>5
  <2>16. ASSUME NEW ok \in BOOLEAN, phase \in {"ready", "applied"}, wire' = Append(wire, End(ok))
        PROVE  FALSE
    <3>1. End(ok) \in Lines /\ End(ok).t = "end"
      BY DEF End, Lines
    <3>2. \A i \in DOMAIN wire : wire[i].t # "end"
      BY <1>0, <2>16 DEF OneEnd
    <3>3. \A i \in DOMAIN wire' : \/ i \in DOMAIN wire /\ wire'[i] = wire[i]
                                  \/ i = Len(wire) + 1 /\ wire'[i] = End(ok)
      BY <1>0, <2>16, <3>1, AppendedAt
    <3>4. k = Len(wire) + 1 /\ DOMAIN wire' = 1 .. (Len(wire) + 1)
      BY <1>0, <1>2, <2>16, <3>1, <3>2, <3>3
    <3>5. j = k
      BY <1>0, <2>10, <3>4
    <3> QED
      BY <1>2, <2>8, <3>5
  <2>17. Call \/ Reconcile \/ Skip \/ RefuseCall \/ Compose \/ Timeout \/ VerdictLate
        => wire' = wire
    BY DEF Call, Reconcile, Skip, RefuseCall, Compose, Timeout, VerdictLate
  <2>18. HostReads \/ Lose => wire # <<>> /\ wire' = Tail(wire)
    BY DEF HostReads, Lose
  <2>19. ~AnswerOk /\ ~Refuse
    BY <2>16 DEF AnswerOk, Refuse
  <2>20. ~VerdictTaken /\ ~Reboot
    BY <1>2, <2>2 DEF VerdictTaken, Reboot
  <2> QED
    BY <2>4, <2>11, <2>12, <2>14, <2>15, <2>17, <2>18, <2>19, <2>20 DEF EPNext
<1>3. \A f : f \in (Sets(todo) \cap Mirrors(DOMAIN cmd))' <=>
             f \in Sets(todo') \cap Mirrors(DOMAIN cmd')
  BY <1>00 DEF Mirrors, Sets, ToSet
<1>4. \A f : f \in Sets(todo)' <=> f \in Sets(todo')
  BY DEF Sets, ToSet
<1> DEFINE R(x, f) == Reaches(x, f)
<1>5. \A k, f : Reaches(wire[k], f)' <=> Reaches(wire'[k], f)
  BY DEF Reaches
<1> QED
  BY <1>1, <1>2, <1>3, <1>4, <1>5 DEF Undisturbed

\* The cached values a command carries.
LEMMA BesideStep ==
  ASSUME WellMade, Typed, InFlight, EPNext, C' = C, Strays, Beside
  PROVE  Beside'
<1>0. /\ wire \in Seq(Lines) /\ Commanded /\ todo \in Seq(Writes(C))
      /\ cache \in [Fields -> Value]
  BY DEF Typed, InFlight
<1>1. HeardIn(DOMAIN cmd)' = HeardIn(DOMAIN cmd')
  BY DEF HeardIn
<1> SUFFICES ASSUME phase' = "ready", NEW g \in Head(todo').also \ HeardIn(DOMAIN cmd')
             PROVE  cmd'[C.shows[g]] = cache'[g]
  BY <1>1 DEF Beside
<1>2. CASE phase = "idle"
  <2>1. Compose
    <3>1. ~Timeout /\ ~Apply /\ ~AnswerOk /\ ~Refuse
      BY <1>2 DEF Timeout, Apply, AnswerOk, Refuse
    <3>2. ~Call /\ ~Reconcile /\ ~Skip /\ ~RefuseCall /\ ~Reboot
      BY <1>2 DEF Call, Reconcile, Skip, RefuseCall, Reboot
    <3>3. ~Change /\ ~Forward /\ ~VerdictTaken /\ ~VerdictLate /\ ~Lose
      BY <1>2 DEF Change, Forward, VerdictTaken, VerdictLate, Lose, callVars
    <3>4. ~HostReads
      BY <1>2 DEF HostReads, Commit, Fails, callVars
    <3> QED
      BY <3>1, <3>2, <3>3, <3>4 DEF EPNext
  <2>2. todo # <<>> /\ UNCHANGED <<todo, cache>> /\ cmd' = Carried(Head(todo))
    BY <2>1 DEF Compose, hostVars
  <2>3. Head(todo) \in Writes(C)
    BY <1>0, <2>2, TailTyped
  <2> QED
    BY <2>2, <2>3, CarriedTyped
<1>3. CASE phase # "idle"
  <2>1. UNCHANGED <<todo, pushing, cmd, known>> /\ todo # <<>>
    BY <1>3, Pending
  <2>2. phase = "ready"
    <3>1. ~Compose /\ ~Timeout /\ ~Apply /\ ~AnswerOk /\ ~Refuse
      BY <1>3 DEF Compose, Timeout, Fails, Apply, AnswerOk, Refuse
    <3>2. Call \/ Reconcile \/ Skip \/ RefuseCall \/ Reboot => phase = "ready"
      BY DEF Call, Reconcile, Skip, RefuseCall, Reboot
    <3>3. Change \/ Forward \/ VerdictTaken \/ VerdictLate \/ Lose => phase = "ready"
      BY DEF Change, Forward, VerdictTaken, VerdictLate, Lose, callVars
    <3>4. HostReads => phase = "ready"
      BY DEF HostReads, Commit, Fails, callVars
    <3> QED
      BY <3>1, <3>2, <3>3, <3>4 DEF EPNext
  <2>3. cmd[C.shows[g]] = cache[g]
    BY <2>1, <2>2 DEF Beside
  <2>4. Head(todo) \in Writes(C)
    BY <1>0, <2>1, TailTyped
  <2>5. g \in Fields /\ C.shows[g] \in DOMAIN cmd
    BY <1>0, <1>3, <2>1, <2>4, Made DEF Commanded, Carries
  <2>6. CASE ReadTaken
    <3>1. wire # <<>> /\ Head(wire).t = "urc" /\ cache' = [cache EXCEPT ![C.hears[Head(wire).a]] = Head(wire).v]
      BY <2>6 DEF ReadTaken, Reads
    <3>2. 1 \in DOMAIN wire /\ Head(wire) = wire[1] /\ Head(wire) \in Lines
      BY <1>0, <3>1, TailTyped
    <3>3. C.hears[Head(wire).a] # g
      <4> SUFFICES ASSUME C.hears[Head(wire).a] = g PROVE FALSE
        OBVIOUS
      <4>1. Reaches(wire[1], g)
        BY <3>1, <3>2 DEF Reaches
      <4>2. ~Done
        BY <2>2, <1>0 DEF Done, Ended, InFlight, OneEnd
      <4>3. wire[1].a = C.shows[g] /\ wire[1].a \in DOMAIN C.hears /\ C.hears[wire[1].a] = g
        BY <3>2, <4>1, <4>2, Reaching
      <4>4. g \in HeardIn(DOMAIN cmd)
        BY <2>5, <4>3 DEF HeardIn
      <4> QED
        BY <2>1, <4>4
    <3> QED
      BY <1>0, <2>1, <2>3, <2>5, <3>1, <3>3
  <2>7. CASE ReadAllowed
    <3>1. wire # <<>> /\ Head(wire).t = "cmd" /\ cache' = Updated(cache, Head(wire).v.to)
      BY <2>7 DEF ReadAllowed, Reads
    <3>2. Head(wire) \in Lines
      BY <1>0, <3>1, TailTyped
    <3>3. Head(wire).v \in C.forwards
      BY <3>1, <3>2 DEF Lines
    <3>4. g \notin DOMAIN Head(wire).v.to
      BY <2>1, <2>4, <3>3 DEF WellMade, ForwardsWell
    <3> QED
      BY <1>0, <2>1, <2>3, <2>5, <3>1, <3>3, <3>4, Made, UpdatedTyped
  <2>8. ~ReadOk
    BY <1>3 DEF ReadOk, Commit
  <2> QED
    BY <2>1, <2>3, <2>6, <2>7, <2>8, CacheStep
<1> QED
  BY <1>2, <1>3

\* A line of the next wire is one of this one, or what the step added to it.
LEMMA LineStep ==
  ASSUME WellMade, Typed, InFlight, EPNext, NEW i \in DOMAIN wire'
  PROVE  \/ /\ HostReads \/ Lose
            /\ wire # <<>> /\ wire' = Tail(wire)
            /\ i \in Nat /\ i + 1 \in DOMAIN wire /\ wire'[i] = wire[i + 1]
         \/ /\ ~HostReads /\ ~Lose /\ ~Reboot
            /\ i \in DOMAIN wire /\ wire'[i] = wire[i]
            /\ \A k \in DOMAIN wire : k \in DOMAIN wire' /\ wire'[k] = wire[k]
         \/ wire'[i].t # "urc"
         \/ Apply /\ \E a \in DOMAIN cmd \cap DOMAIN C.hears : wire'[i] = Urc(a, cmd[a])
         \/ /\ Change
            /\ \E a \in C.changes \cap DOMAIN C.hears :
                 /\ wire'[i].t = "urc" /\ wire'[i].a = a /\ Straight(C, a)
                 /\ dev' = [dev EXCEPT ![a] = wire'[i].v] /\ a \in DOMAIN C.fresh
<1>0. wire \in Seq(Lines) /\ verdict \in C.forwards \cup {None} /\ Commanded
  BY DEF Typed, InFlight
<1> DEFINE Old == /\ i \in DOMAIN wire /\ wire'[i] = wire[i]
                  /\ \A k \in DOMAIN wire : k \in DOMAIN wire' /\ wire'[k] = wire[k]
           Was == /\ wire # <<>> /\ wire' = Tail(wire)
                  /\ i \in Nat /\ i + 1 \in DOMAIN wire /\ wire'[i] = wire[i + 1]
           New == wire'[i].t # "urc"
<1>1. ASSUME NEW e \in Seq(Lines), wire' = wire \o e
      PROVE  Old \/ (i - Len(wire) \in DOMAIN e /\ wire'[i] = e[i - Len(wire)])
  <2>1. \A k \in DOMAIN wire : k \in DOMAIN wire' /\ wire'[k] = wire[k]
    BY <1>0, <1>1, AddedTyped
  <2>2. i \notin DOMAIN wire => i - Len(wire) \in DOMAIN e /\ wire'[i] = e[i - Len(wire)]
    BY <1>0, <1>1, AddedTyped
  <2> QED
    BY <2>1, <2>2
<1>2. ASSUME NEW x \in Lines, wire' = Append(wire, x), x.t # "urc"
      PROVE  Old \/ New
  <2>1. \A k \in DOMAIN <<x>> : <<x>>[k].t # "urc"
    BY <1>2
  <2> QED
    BY <1>0, <1>1, <1>2, <2>1, AppendIs
<1>3. wire' = wire => Old
  OBVIOUS
<1>4. wire # <<>> /\ wire' = Tail(wire) => Was
  BY <1>0, TailTyped
<1> HIDE DEF Old, Was, New
<1>5. Call \/ Reconcile \/ Skip \/ RefuseCall \/ Compose \/ Timeout \/ VerdictLate
        => Old
  BY <1>3 DEF Call, Reconcile, Skip, RefuseCall, Compose, Timeout, VerdictLate
<1>6. HostReads \/ Lose => Was
  BY <1>4 DEF HostReads, Lose
<1>7. ASSUME Apply
      PROVE  \/ Old
             \/ \E a \in DOMAIN cmd \cap DOMAIN C.hears : wire'[i] = Urc(a, cmd[a])
  <2>1. \A a \in DOMAIN cmd \cap DOMAIN C.hears : cmd[a] \in Bit
    BY <1>0, <1>7 DEF Apply, Commanded
  <2> DEFINE e == Echo(cmd)
  <2>2. /\ e \in Seq(Lines)
        /\ \A k \in DOMAIN e : \E a \in DOMAIN cmd \cap DOMAIN C.hears : e[k] = Urc(a, cmd[a])
    BY <2>1, EchoLines
  <2>3. wire' = wire \o e
    BY <1>7 DEF Apply
  <2> HIDE DEF e
  <2> QED
    BY <1>1, <2>2, <2>3
<1>8. ASSUME Change
      PROVE  \/ Old
             \/ \E a \in C.changes \cap DOMAIN C.hears :
                 /\ wire'[i].t = "urc" /\ wire'[i].a = a /\ Straight(C, a)
                 /\ dev' = [dev EXCEPT ![a] = wire'[i].v] /\ a \in DOMAIN C.fresh
  <2>1. PICK a \in C.changes, v \in Bit, e \in Seq(Lines) :
           /\ a \in DOMAIN C.fresh /\ dev' = [dev EXCEPT ![a] = v] /\ wire' = wire \o e
           /\ \A k \in DOMAIN e : e[k].t = "urc" /\ e[k].a = a /\ a \in DOMAIN C.hears /\ e[k].v = v
           /\ a \in DOMAIN C.hears => Straight(C, a)
    BY <1>8, Changed
  <2>2. Old \/ (i - Len(wire) \in DOMAIN e /\ wire'[i] = e[i - Len(wire)])
    BY <1>1, <2>1
  <2>3. ASSUME i - Len(wire) \in DOMAIN e, wire'[i] = e[i - Len(wire)]
        PROVE  /\ a \in C.changes \cap DOMAIN C.hears
               /\ wire'[i].t = "urc" /\ wire'[i].a = a /\ Straight(C, a)
               /\ dev' = [dev EXCEPT ![a] = wire'[i].v]
    BY <2>1, <2>3
  <2> QED
    BY <2>1, <2>2, <2>3
<1>9. VerdictTaken => Old
  <2> SUFFICES ASSUME VerdictTaken PROVE Old
    OBVIOUS
  <2>1. verdict \in C.forwards /\ wire' = wire \o Echo(verdict.w)
    BY <1>0 DEF VerdictTaken
  <2>2. DOMAIN verdict.w \cap DOMAIN C.hears = {}
    BY <2>1 DEF WellMade, ForwardsWell
  <2>3. Echo(verdict.w) = <<>>
    BY <2>2, EchoNothing
  <2> QED
    BY <1>0, <1>3, <2>1, <2>3
<1>10. Forward => Old \/ New
  <2>1. \A f \in C.forwards : Asks(f) \in Lines /\ Asks(f).t # "urc"
    BY DEF Asks, Lines
  <2> QED
    BY <1>2, <2>1 DEF Forward
<1>11. AnswerOk \/ Refuse => Old \/ New
  <2>1. \A ok \in BOOLEAN : End(ok) \in Lines /\ End(ok).t # "urc"
    BY DEF End, Lines
  <2> QED
    BY <1>2, <2>1 DEF AnswerOk, Refuse
<1>12. ~Reboot
  BY DEF Reboot
<1> QED
  BY <1>5, <1>6, <1>7, <1>8, <1>9, <1>10, <1>11, <1>12 DEF EPNext, Old, Was, New

\* The steps that begin a call or a push, or move on with it.
LEMMA TodoStep ==
  ASSUME EPNext
  PROVE  \/ UNCHANGED <<todo, pushing>>
         \/ Call \/ Reconcile
         \/ MoveOn /\ (Skip \/ RefuseCall \/ ReadOk \/ ReadError \/ Timeout)
<1>1. Compose \/ Apply \/ AnswerOk \/ Refuse \/ Reboot => UNCHANGED <<todo, pushing>>
  BY DEF Compose, Apply, AnswerOk, Refuse, Reboot
<1>2. Change \/ Forward \/ VerdictTaken \/ VerdictLate \/ Lose => UNCHANGED <<todo, pushing>>
  BY DEF Change, Forward, VerdictTaken, VerdictLate, Lose, callVars
<1>3. Skip \/ RefuseCall \/ Timeout => MoveOn
  BY DEF Skip, RefuseCall, Timeout, Fails
<1>4. HostReads => UNCHANGED <<todo, pushing>> \/ (MoveOn /\ (ReadOk \/ ReadError))
  <2>1. HostReads => ReadStep
    BY HostReading
  <2>2. ReadTaken \/ ReadKept \/ ReadAllowed \/ ReadDenied => UNCHANGED <<todo, pushing>>
    BY DEF ReadTaken, ReadKept, ReadAllowed, ReadDenied, callVars
  <2>3. ReadOk \/ ReadError => MoveOn
    BY DEF ReadOk, ReadError, Commit, Fails
  <2> QED
    BY <2>1, <2>2, <2>3 DEF ReadStep
<1> QED
  BY <1>1, <1>2, <1>3, <1>4 DEF EPNext

\* Reports into the field of another attribute.
LEMMA StraysStep ==
  ASSUME WellMade, Typed, InFlight, EPNext, C' = C, Strays
  PROVE  Strays'
<1>0. wire \in Seq(Lines) /\ OneEnd /\ phase \in {"idle", "ready", "applied", "answered"}
  BY DEF Typed, InFlight
<1> SUFFICES ASSUME NEW i \in DOMAIN wire', wire'[i].t = "urc", ~Straight(C, wire'[i].a)
             PROVE  /\ Following' /\ C.hears[wire'[i].a] \in DOMAIN Head(todo').to
                    /\ \/ phase' = "applied"
                       \/ \E k \in i .. Len(wire') : wire'[k].t = "end" /\ wire'[k].v = TRUE
  BY DEF Strays, Straight
<1>1. wire' \in Seq(Lines) /\ DOMAIN wire' = 1 .. Len(wire') /\ Len(wire') \in Nat
  <2>1. wire' \in Seq(Lines)
    BY StepTyped, StepKind DEF Typed, Lines
  <2> QED
    BY <2>1
<1>2. UNCHANGED <<todo, pushing>> /\ Following => Following'
  BY DEF Following
<1>3. CASE /\ HostReads \/ Lose
           /\ wire # <<>> /\ wire' = Tail(wire)
           /\ i \in Nat /\ i + 1 \in DOMAIN wire /\ wire'[i] = wire[i + 1]
  <2>1. /\ Done /\ C.hears[wire[i + 1].a] \in DOMAIN Head(todo).to /\ Following
        /\ phase \in {"applied", "answered"}
    BY <1>3, NoStrays
  <2>2. \/ phase = "applied"
        \/ \E k \in (i + 1) .. Len(wire) : wire[k].t = "end" /\ wire[k].v = TRUE
    BY <1>3 DEF Strays
  <2>3. 1 \in DOMAIN wire /\ Head(wire) = wire[1] /\ DOMAIN wire = 1 .. Len(wire)
        /\ Len(wire) \in Nat /\ Len(wire') = Len(wire) - 1
        /\ \A k \in DOMAIN wire' : k + 1 \in DOMAIN wire /\ wire'[k] = wire[k + 1]
    BY <1>0, <1>3, TailTyped
  <2>4. Head(wire).t # "end"
    <3> SUFFICES ASSUME Head(wire).t = "end" PROVE FALSE
      OBVIOUS
    <3>1. phase = "answered"
      BY <1>0, <2>3 DEF OneEnd
    <3>2. PICK k \in (i + 1) .. Len(wire) : wire[k].t = "end"
      BY <2>2, <3>1
    <3>3. k \in DOMAIN wire /\ k # 1
      BY <1>3, <2>3, <3>2
    <3> QED
      BY <1>0, <2>3, <3>2, <3>3 DEF OneEnd
  <2>5. phase' = phase
    BY <1>3, <2>4 DEF HostReads, Lose, callVars
  <2>6. UNCHANGED <<todo, pushing, cmd, known>>
    BY <2>1, <2>5, Pending
  <2>7. ASSUME NEW k \in (i + 1) .. Len(wire), wire[k].t = "end", wire[k].v = TRUE
        PROVE  \E m \in i .. Len(wire') : wire'[m].t = "end" /\ wire'[m].v = TRUE
    <3>1. k - 1 \in i .. Len(wire') /\ k - 1 \in DOMAIN wire'
      BY <1>1, <1>3, <2>3, <2>7
    <3>2. wire'[k - 1] = wire[k]
      BY <1>3, <2>3, <2>7, <3>1
    <3> QED
      BY <2>7, <3>1, <3>2
  <2> QED
    BY <1>2, <1>3, <2>1, <2>2, <2>5, <2>6, <2>7
<1>4. CASE /\ ~HostReads /\ ~Lose /\ ~Reboot
           /\ i \in DOMAIN wire /\ wire'[i] = wire[i]
           /\ \A k \in DOMAIN wire : k \in DOMAIN wire' /\ wire'[k] = wire[k]
  <2>1. /\ Done /\ C.hears[wire[i].a] \in DOMAIN Head(todo).to /\ Following
        /\ phase \in {"applied", "answered"}
    BY <1>4, NoStrays
  <2>2. \/ phase = "applied"
        \/ \E k \in i .. Len(wire) : wire[k].t = "end" /\ wire[k].v = TRUE
    BY <1>4 DEF Strays
  <2>3. DOMAIN wire = 1 .. Len(wire) /\ Len(wire) \in Nat
    BY <1>0
  <2>4. ~Timeout
    <3> SUFFICES ASSUME Timeout PROVE FALSE
      OBVIOUS
    <3>1. phase = "answered" /\ \A k \in DOMAIN wire : wire[k].t # "end"
      BY DEF Timeout
    <3> QED
      BY <2>1, <3>1 DEF Done, Ended
  <2>5. phase' # "idle"
    <3>1. Call \/ Reconcile \/ Skip \/ RefuseCall => phase' = phase
      BY DEF Call, Reconcile, Skip, RefuseCall
    <3>2. Compose \/ Apply \/ AnswerOk \/ Refuse => phase' # "idle"
      BY DEF Compose, Apply, AnswerOk, Refuse
    <3>3. Change \/ Forward \/ VerdictTaken \/ VerdictLate => phase' = phase
      BY DEF Change, Forward, VerdictTaken, VerdictLate, callVars
    <3> QED
      BY <1>4, <2>1, <2>4, <3>1, <3>2, <3>3 DEF EPNext
  <2>6. UNCHANGED <<todo, pushing, cmd, known>>
    BY <2>1, <2>5, Pending
  <2>7. \/ phase' = "applied"
        \/ \E k \in i .. Len(wire') : wire'[k].t = "end" /\ wire'[k].v = TRUE
    <3>1. ASSUME NEW k \in i .. Len(wire), wire[k].t = "end", wire[k].v = TRUE
          PROVE  \E m \in i .. Len(wire') : wire'[m].t = "end" /\ wire'[m].v = TRUE
      <4>1. k \in DOMAIN wire
        BY <1>4, <2>3
      <4>2. k \in DOMAIN wire' /\ wire'[k] = wire[k]
        BY <1>4, <4>1
      <4>3. k \in i .. Len(wire')
        BY <1>1, <1>4, <4>2
      <4> QED
        BY <3>1, <4>2, <4>3
    <3>2. CASE phase = "applied"
      <4>1. Done'
        BY <1>4, <2>1, <2>5, DoneKept
      <4>2. ASSUME NEW k \in DOMAIN wire', wire'[k].t = "end", wire'[k].v = TRUE
            PROVE  k \in i .. Len(wire')
        <5>1. k \notin DOMAIN wire
          BY <1>0, <1>4, <3>2, <4>2 DEF OneEnd
        <5> QED
          BY <1>1, <1>4, <2>3, <5>1
      <4>3. Ended(TRUE)' => \E k \in DOMAIN wire' : wire'[k].t = "end" /\ wire'[k].v = TRUE
        BY DEF Ended
      <4> QED
        BY <4>1, <4>2, <4>3 DEF Done
    <3> QED
      BY <2>2, <3>1, <3>2
  <2> QED
    BY <1>2, <1>4, <2>1, <2>6, <2>7
<1>5. CASE Apply /\ \E a \in DOMAIN cmd \cap DOMAIN C.hears : wire'[i] = Urc(a, cmd[a])
  <2>1. PICK a \in DOMAIN cmd \cap DOMAIN C.hears : wire'[i] = Urc(a, cmd[a])
    BY <1>5
  <2>2. wire'[i].a = a /\ phase = "ready" /\ phase' = "applied" /\ UNCHANGED <<todo, pushing>>
    BY <1>5, <2>1 DEF Apply, Urc
  <2>3. Following /\ C.hears[a] \in DOMAIN Head(todo).to
    BY <2>2, Echoed
  <2> QED
    BY <1>2, <2>2, <2>3
<1>6. CASE Change /\ \E a \in C.changes \cap DOMAIN C.hears :
                         wire'[i].a = a /\ Straight(C, a)
  BY <1>6
<1> QED
  BY <1>3, <1>4, <1>5, <1>6, LineStep

\* A line that reaches a field in the next wire.
LEMMA ReachStep ==
  ASSUME WellMade, Typed, InFlight, EPNext, NEW f, NEW i \in DOMAIN wire',
         Reaches(wire'[i], f)
  PROVE  \/ \E j \in DOMAIN wire : wire'[i] = wire[j] /\ Reaches(wire[j], f)
         \/ Apply /\ \E a \in DOMAIN cmd \cap DOMAIN C.hears :
                         C.hears[a] = f /\ wire'[i].v = cmd[a]
         \/ Change /\ C.shows[f] \in C.changes /\ f \in Heard(C)
              /\ dev' = [dev EXCEPT ![C.shows[f]] = wire'[i].v] /\ C.shows[f] \in DOMAIN C.fresh
<1>1. wire'[i].t = "urc" /\ C.hears[wire'[i].a] = f
  BY DEF Reaches
<1>2. CASE \E j \in DOMAIN wire : wire'[i] = wire[j]
  BY <1>2
<1>3. CASE Apply /\ \E a \in DOMAIN cmd \cap DOMAIN C.hears : wire'[i] = Urc(a, cmd[a])
  BY <1>1, <1>3 DEF Urc
<1>4. CASE /\ Change
           /\ \E a \in C.changes \cap DOMAIN C.hears :
                 /\ wire'[i].t = "urc" /\ wire'[i].a = a /\ Straight(C, a)
                 /\ dev' = [dev EXCEPT ![a] = wire'[i].v] /\ a \in DOMAIN C.fresh
  <2>1. PICK a \in C.changes \cap DOMAIN C.hears :
                 /\ wire'[i].t = "urc" /\ wire'[i].a = a /\ Straight(C, a)
                 /\ dev' = [dev EXCEPT ![a] = wire'[i].v] /\ a \in DOMAIN C.fresh
    BY <1>4
  <2>2. C.shows[f] = a /\ f \in Heard(C)
    BY <1>1, <2>1 DEF Straight, Heard
  <2> QED
    BY <1>4, <2>1, <2>2
<1> QED
  BY <1>1, <1>2, <1>3, <1>4, LineStep

\* A field of the second of two writes, as the first one ends.
LEMMA FollowedNext ==
  ASSUME WellMade, Typed, InFlight, EPNext, C' = C, Unanswered, Undisturbed,
         Tracking, MoveOn, ReadOk \/ ReadError \/ Timeout,
         Len(todo) = 2, ~pushing, Follows(C, todo[1], todo[2]),
         NEW f \in DOMAIN todo[2].to, why[f] = {}
  PROVE  /\ cache'[f] = todo[2].to[f] /\ dev'[C.shows[f]] = todo[2].to[f]
         /\ \A i \in DOMAIN wire : ~Reaches(wire[i], f)
<1>0. /\ wire \in Seq(Lines) /\ OneEnd /\ Commanded /\ todo \in Seq(Writes(C))
      /\ verdict \in C.forwards \cup {None}
  BY DEF Typed, InFlight
<1>a. todo # <<>>
  BY <1>0, EmptySeq
<1>b. 1 \in DOMAIN todo /\ 2 \in DOMAIN todo
  BY <1>0
<1>1. Head(todo) = todo[1] /\ 1 \in DOMAIN todo /\ 2 \in DOMAIN todo /\ todo[1] \in Writes(C)
      /\ todo[2] \in Writes(C)
  <2>1. Head(todo) = todo[1]
    BY <1>0, <1>a, TailTyped
  <2>2. \A i \in DOMAIN todo : todo[i] \in Writes(C)
    BY <1>0, ElementTyped
  <2> QED
    BY <1>b, <2>1, <2>2
<1>2. f \in Fields /\ f \in Sets(todo)
  BY <1>1, Made DEF Sets, ToSet
<1>3. /\ todo[1].to = Nothing /\ C.shows[f] \in DOMAIN todo[1].w
      /\ todo[1].w[C.shows[f]] = todo[2].to[f]
      /\ \A g \in C.forwards : f \notin DOMAIN g.to
  BY DEF Follows
<1>4. phase = "answered"
  <2>1. ReadOk \/ ReadError => wire # <<>> /\ Head(wire).t = "end"
    BY DEF ReadOk, ReadError, Reads
  <2>2. ReadOk \/ ReadError => phase = "answered"
    BY <1>0, <2>1, TailTyped DEF OneEnd
  <2> QED
    BY <2>2 DEF Timeout
<1>5. f \in Mirrors(DOMAIN cmd) /\ cmd[C.shows[f]] = todo[2].to[f]
  BY <1>0, <1>1, <1>2, <1>3, <1>4 DEF Commanded, Carries, Mirrors
<1>6. f \notin DOMAIN Head(todo).to
  BY <1>1, <1>3 DEF Nothing
<1>7. CASE Timeout
  <2>1. \A ok : ~Ended(ok)
    BY <1>7 DEF Timeout, Ended
  <2> QED
    BY <1>4, <1>5, <2>1 DEF Unanswered
<1>8. ASSUME wire # <<>>, Head(wire).t = "end"
      PROVE  Head(wire) = wire[1] /\ 1 \in DOMAIN wire /\ wire[1].t = "end" /\ Ended(wire[1].v)
  BY <1>0, <1>8, TailTyped DEF Ended
<1>9. CASE ReadError
  <2>1. wire # <<>> /\ Head(wire).t = "end" /\ Head(wire).v \in BOOLEAN /\ ~Head(wire).v
    <3>1. wire # <<>> /\ Head(wire).t = "end" /\ ~Head(wire).v
      BY <1>9 DEF ReadError, Reads
    <3>2. Head(wire) \in Lines
      BY <1>0, <3>1, TailTyped
    <3> QED
      BY <3>1, <3>2 DEF Lines
  <2>2. Ended(FALSE)
    BY <1>8, <2>1
  <2> QED
    BY <1>5, <1>6, <2>2 DEF Unanswered
<1>10. CASE ReadOk
  <2>1. /\ wire # <<>> /\ Head(wire).t = "end" /\ Head(wire).v \in BOOLEAN /\ Head(wire).v
        /\ cache' = Updated(cache, Head(todo).to) /\ dev' = dev
    <3>1. wire # <<>> /\ Head(wire).t = "end" /\ Head(wire).v
      BY <1>10 DEF ReadOk, Reads
    <3>2. Head(wire) \in Lines
      BY <1>0, <3>1, TailTyped
    <3> QED
      BY <1>10, <3>1, <3>2 DEF Lines, ReadOk, Reads, Commit
  <2>2. Ended(TRUE) /\ 1 \in DOMAIN wire /\ wire[1].t = "end"
    BY <1>8, <2>1
  <2>3. dev[C.shows[f]] = todo[2].to[f]
    BY <1>2, <1>5, <2>2 DEF Undisturbed, Done
  <2>4. \A i \in DOMAIN wire : ~Reaches(wire[i], f)
    <3>1. \A j \in 1 .. Len(wire) : ~Reaches(wire[j], f)
      BY <1>2, <2>2 DEF Undisturbed
    <3> QED
      BY <1>0, <3>1
  <2>5. Tracks(f)
    <3>1. f \notin DOMAIN verdict.to
      BY <1>0, <1>3 DEF None, Nothing
    <3>2. ~Lands(f)
      BY <1>6 DEF Lands
    <3> QED
      BY <1>2, <3>1, <3>2 DEF Tracking
  <2>6. cache[f] = dev[C.shows[f]]
    BY <2>4, <2>5 DEF Tracks, Leads
  <2>7. cache'[f] = cache[f]
    BY <1>1, <1>2, <1>6, <2>1, Made, UpdatedTyped
  <2> QED
    BY <2>1, <2>3, <2>4, <2>6, <2>7
<1> QED
  BY <1>7, <1>9, <1>10

\* The second of two writes finds its value in the field.
LEMMA FollowedStep ==
  ASSUME WellMade, Typed, InFlight, EPNext, C' = C, Unanswered, Undisturbed,
         Tracking, Followed
  PROVE  Followed'
<1>0. /\ wire \in Seq(Lines) /\ OneEnd /\ Commanded /\ todo \in Seq(Writes(C))
      /\ verdict \in C.forwards \cup {None} /\ Shaped /\ pushing \in BOOLEAN
      /\ dev \in [DOMAIN C.fresh -> Value] /\ cache \in [Fields -> Value]
      /\ known \in BOOLEAN
  BY DEF Typed, InFlight
<1>1. \A k, f : Reaches(wire[k], f)' <=> Reaches(wire'[k], f)
  BY DEF Reaches
<1> SUFFICES ASSUME known', Following', NEW f \in DOMAIN Head(todo').to, why'[f] = {}
             PROVE  /\ cache'[f] = Head(todo').to[f] /\ dev'[C.shows[f]] = Head(todo').to[f]
                    /\ \A i \in DOMAIN wire' : Reaches(wire'[i], f) => wire'[i].v = Head(todo').to[f]
  BY <1>1 DEF Followed
<1>2. PICK q \in Writes(C) : Follows(C, q, Head(todo'))
  BY DEF Following
<1>3. ~pushing' /\ Len(todo') = 1 /\ todo' # <<>>
  <2>1. todo' \in Seq(Writes(C))
    BY StepTyped, StepKind DEF Typed
  <2>2. ~pushing' /\ Len(todo') = 1
    BY DEF Following
  <2>3. todo' # <<>>
    BY <2>1, <2>2, ElementTyped
  <2> QED
    BY <2>2, <2>3
<1>4. /\ C.shows[f] \in DOMAIN q.w /\ C.shows[f] \notin C.keeps
      /\ \A g \in C.forwards : f \notin DOMAIN g.to
      /\ Showing(C, DOMAIN Head(todo').w) = {}
  BY <1>2 DEF Follows
<1>5. f \in Fields
  <2>1. todo' \in Seq(Writes(C))
    BY StepTyped, StepKind DEF Typed
  <2>2. Head(todo') \in Writes(C)
    BY <1>3, <2>1, TailTyped
  <2> QED
    BY <2>2, Made
<1>6. ~Plain(C, Head(todo'))
  <2> SUFFICES ASSUME Plain(C, Head(todo')) PROVE FALSE
    OBVIOUS
  <2>1. f \in Showing(C, DOMAIN Head(todo').w)
    BY <1>5, Made DEF Plain, Showing
  <2> QED
    BY <1>4, <2>1
<1>7. CASE Call
  <2>1. PICK s \in C.calls : todo' = s
    BY <1>7 DEF Call
  <2>2. \A i \in DOMAIN s : Plain(C, s[i])
    BY <1>3, <2>1 DEF WellMade, WritesWell
  <2>3. s \in Seq(Writes(C))
    BY Made
  <2>4. 1 \in DOMAIN s /\ Head(s) = s[1]
    BY <1>3, <2>1, <2>3, TailTyped
  <2> QED
    BY <1>6, <2>1, <2>2, <2>4
<1>8. ~Reconcile
  BY <1>3 DEF Reconcile
<1>9. CASE MoveOn /\ (Skip \/ RefuseCall \/ ReadOk \/ ReadError \/ Timeout)
  <2>1. todo # <<>>
    <3>1. Skip \/ RefuseCall => todo # <<>>
      BY DEF Skip, RefuseCall
    <3>2. Timeout => todo # <<>>
      BY <1>0 DEF Timeout, Commanded
    <3>3. ReadOk \/ ReadError => wire # <<>> /\ Head(wire).t = "end"
      BY DEF ReadOk, ReadError, Reads
    <3>4. ReadOk \/ ReadError => phase = "answered"
      BY <1>0, <3>3, TailTyped DEF OneEnd
    <3> QED
      BY <1>0, <1>9, <3>1, <3>2, <3>4 DEF Commanded
  <2>2. todo' = Tail(todo) /\ pushing' = (pushing /\ Len(todo) > 1)
    BY <1>9 DEF MoveOn
  <2>3. Len(todo) = 2 /\ Head(todo') = todo[2] /\ 2 \in DOMAIN todo /\ Head(todo) = todo[1]
    <3>1. Len(todo) = 2 /\ DOMAIN todo = 1 .. 2 /\ Head(todo) = todo[1]
          /\ DOMAIN todo' = 1 .. 1 /\ \A i \in DOMAIN todo' : todo'[i] = todo[i + 1]
      BY <1>0, <1>3, <2>1, <2>2, TailTyped
    <3>2. todo' \in Seq(Writes(C)) /\ Head(todo') = todo'[1]
      BY <1>0, <1>3, <2>1, <2>2, TailTyped
    <3> QED
      BY <3>1, <3>2
  <2>4. Len(todo) > 1
    BY <2>3
  <2>5. ~pushing
    BY <1>3, <2>2, <2>4, Zenon
  <2>6. Follows(C, todo[1], todo[2])
    <3>1. ~\A i \in DOMAIN todo : Plain(C, todo[i])
      BY <1>6, <2>3
    <3>2. ~Following
      BY <2>3 DEF Following
    <3> QED
      BY <1>0, <2>1, <2>5, <3>1, <3>2 DEF Shaped
  <2>7. ~Skip
    <3>1. todo[1].skip = "never"
      BY <2>6 DEF Follows
    <3> QED
      BY <2>3, <2>5, <3>1 DEF Skip, Skips, Held
  <2>8. ~RefuseCall
    BY DEF RefuseCall, hostVars
  <2>9. ReadOk \/ ReadError \/ Timeout
    BY <1>9, <2>7, <2>8
  <2>10. ~Apply
    <3>1. phase' = "idle"
      BY <2>9 DEF ReadOk, ReadError, Timeout, Commit, Fails
    <3> QED
      BY <3>1 DEF Apply
  <2>11. why[f] = {}
    BY <1>3, <1>5, <2>10, WhyGrows
  <2>12. f \in DOMAIN todo[2].to
    BY <2>3
  <2>13. /\ cache'[f] = todo[2].to[f] /\ dev'[C.shows[f]] = todo[2].to[f]
         /\ \A i \in DOMAIN wire : ~Reaches(wire[i], f)
    BY <1>9, <2>3, <2>5, <2>6, <2>9, <2>11, <2>12, FollowedNext
  <2>14. \A i \in DOMAIN wire' : ~Reaches(wire'[i], f)
    <3>1. ~Change
      <4>1. Change => todo' = todo
        BY DEF Change, callVars
      <4> QED
        BY <1>3, <2>3, <4>1
    <3> QED
      BY <2>10, <2>13, <3>1, ReachStep
  <2> QED
    BY <2>3, <2>13, <2>14
<1>10. CASE UNCHANGED <<todo, pushing>>
  <2>1. Following /\ todo # <<>> /\ f \in DOMAIN Head(todo).to
    BY <1>3, <1>10 DEF Following
  <2>2. /\ Head(todo) \in Writes(C) /\ Head(todo).also = {}
        /\ f \in Sets(todo) /\ ~pushing
        /\ Showing(C, DOMAIN Head(todo).w) = {}
        /\ \A a \in DOMAIN Head(todo).w \cap DOMAIN C.hears :
              C.hears[a] \in DOMAIN Head(todo).to /\ Head(todo).w[a] = Head(todo).to[C.hears[a]]
    BY <2>1, Followers
  <2>3. known
    <3>1. known' = known
      <4>1. Call \/ RefuseCall \/ Compose \/ Apply \/ AnswerOk \/ Refuse => known' = known
        BY DEF Call, RefuseCall, Compose, Apply, AnswerOk, Refuse, hostVars
      <4>2. Change \/ Forward \/ VerdictTaken \/ VerdictLate \/ Lose => known' = known
        BY DEF Change, Forward, VerdictTaken, VerdictLate, Lose, hostVars
      <4>3. Skip \/ HostReads \/ Timeout \/ Reboot => known' = known
        BY DEF Skip, HostReads, Timeout, Reboot
      <4> QED
        BY <1>8, <4>1, <4>2, <4>3 DEF EPNext
    <3> QED
      BY <3>1
  <2>4. phase # "idle" =>
          /\ f \notin Mirrors(DOMAIN cmd) /\ C.shows[f] \notin DOMAIN cmd
    <3>1. phase # "idle" => DOMAIN cmd = DOMAIN Head(todo).w
      BY <1>0, <2>2 DEF Commanded, Carries
    <3>2. f \in Showing(C, DOMAIN Head(todo).w) <=> C.shows[f] \in DOMAIN Head(todo).w
      BY <1>5, Made DEF Showing
    <3> QED
      BY <2>2, <3>1, <3>2 DEF Mirrors
  <2>5. why[f] = {}
    <3>1. CASE Apply
      <4> DEFINE base == [g \in Fields |-> IF g \in Mirrors(DOMAIN cmd) THEN {} ELSE why[g]]
                 touched == Mirrors(DOMAIN cmd) \ (DOMAIN Head(todo).to \cup Head(todo).also
                                    \cup HeardIn(DOMAIN cmd))
      <4>1. Blame(base, touched, "unheard") /\ phase = "ready"
        BY <3>1 DEF Apply
      <4>2. base[f] = why[f]
        BY <1>5, <2>4, <4>1
      <4>3. ~AtRest'
        BY <1>3 DEF AtRest
      <4> HIDE DEF base, touched
      <4> QED
        BY <1>5, <4>1, <4>2, <4>3, NotBlamed
    <3>2. CASE ~Apply
      BY <1>3, <1>5, <3>2, WhyGrows
    <3> QED
      BY <3>1, <3>2
  <2>6. /\ cache[f] = Head(todo).to[f] /\ dev[C.shows[f]] = Head(todo).to[f]
        /\ \A i \in DOMAIN wire : Reaches(wire[i], f) => wire[i].v = Head(todo).to[f]
    BY <2>1, <2>3, <2>5 DEF Followed
  <2>7. cache'[f] = Head(todo).to[f]
    <3>1. CASE ReadTaken
      <4>1. /\ wire # <<>> /\ Head(wire).t = "urc"
            /\ cache' = [cache EXCEPT ![C.hears[Head(wire).a]] = Head(wire).v]
        BY <3>1 DEF ReadTaken, Reads
      <4>2. Head(wire) = wire[1] /\ 1 \in DOMAIN wire
        BY <1>0, <4>1, TailTyped
      <4>3. Reaches(Head(wire), f) <=> C.hears[Head(wire).a] = f
        BY <4>1 DEF Reaches
      <4> QED
        BY <1>0, <1>5, <2>6, <4>1, <4>2, <4>3
    <3>2. CASE ReadAllowed
      <4>1. wire # <<>> /\ Head(wire).t = "cmd" /\ cache' = Updated(cache, Head(wire).v.to)
        BY <3>2 DEF ReadAllowed, Reads
      <4>2. Head(wire) \in Lines
        BY <1>0, <4>1, TailTyped
      <4>3. Head(wire).v \in C.forwards
        BY <4>1, <4>2 DEF Lines
      <4> QED
        BY <1>4, <1>5, <2>6, <4>1, <4>3, Made, UpdatedTyped
    <3>3. CASE ReadOk
      <4>1. MoveOn /\ (ReadOk \/ ReadError \/ Timeout)
        BY <3>3 DEF ReadOk, Commit
      <4>2. todo' = Tail(todo)
        BY <4>1 DEF MoveOn
      <4> QED
        BY <1>0, <1>10, <2>1, <4>2, TailTyped
    <3> QED
      BY <2>6, <3>1, <3>2, <3>3, CacheStep
  <2>8. dev'[C.shows[f]] = Head(todo).to[f]
    <3>1. CASE Apply
      <4>1. phase # "idle" /\ dev' = Updated(dev, cmd)
        BY <3>1 DEF Apply
      <4>2. C.shows[f] \in DOMAIN dev
        BY <1>0, <1>5, Made
      <4> QED
        BY <2>4, <2>6, <4>1, <4>2 DEF Updated
    <3>2. CASE Change
      <4>1. PICK a \in C.changes, v \in Bit :
              /\ dev' = [dev EXCEPT ![a] = v]
              /\ IF Mirrors({a}) \cap Sets(todo) # {}
                   THEN Blame(why, Mirrors({a}), "crossed")
                   ELSE Blame(why, Mirrors({a}) \ HeardIn({a}), "unheard")
        BY <3>2, Changed
      <4>2. C.shows[f] # a
        <5> SUFFICES ASSUME C.shows[f] = a PROVE FALSE
          OBVIOUS
        <5>1. f \in Mirrors({a}) \cap Sets(todo)
          BY <1>5, <2>2 DEF Mirrors
        <5>2. Blame(why, Mirrors({a}), "crossed")
          BY <4>1, <5>1
        <5> QED
          BY <1>3, <1>5, <5>1, <5>2, Blamed
      <4>3. C.shows[f] \in DOMAIN dev
        BY <1>0, <1>5, Made
      <4> QED
        BY <1>0, <2>6, <4>1, <4>2, <4>3
    <3>3. CASE VerdictTaken
      <4>1. verdict \in C.forwards /\ dev' = Updated(dev, verdict.w)
        BY <1>0, <3>3 DEF VerdictTaken
      <4>2. Showing(C, DOMAIN verdict.w) = DOMAIN verdict.to
        BY <4>1 DEF WellMade, ForwardsWell
      <4>3. C.shows[f] \notin DOMAIN verdict.w
        BY <1>4, <1>5, <4>1, <4>2, Made DEF Showing
      <4>4. C.shows[f] \in DOMAIN dev
        BY <1>0, <1>5, Made
      <4> QED
        BY <2>6, <4>1, <4>3, <4>4 DEF Updated
    <3>4. CASE Reboot
      <4> DEFINE base == [g \in Fields |->
                            why[g] \cup (IF g \in Mirrors(DOMAIN cmd) THEN {"lost"} ELSE {})]
                 touched == Mirrors(DOMAIN dev \ C.keeps)
      <4>1. Blame(base, touched, "reboot")
        BY <3>4 DEF Reboot
      <4>2. f \in touched
        BY <1>0, <1>4, <1>5, Made DEF Mirrors
      <4>3. ~AtRest'
        BY <1>3 DEF AtRest
      <4> HIDE DEF base, touched
      <4> QED
        BY <1>5, <4>1, <4>2, <4>3, NotBlamed
    <3> QED
      BY <2>6, <3>1, <3>2, <3>3, <3>4, DevStep
  <2>9. ASSUME NEW i \in DOMAIN wire', Reaches(wire'[i], f)
        PROVE  wire'[i].v = Head(todo).to[f]
    <3>1. CASE \E j \in DOMAIN wire : wire'[i] = wire[j] /\ Reaches(wire[j], f)
      BY <2>6, <3>1
    <3>2. CASE Apply /\ \E a \in DOMAIN cmd \cap DOMAIN C.hears :
                         C.hears[a] = f /\ wire'[i].v = cmd[a]
      <4>1. PICK a \in DOMAIN cmd \cap DOMAIN C.hears : C.hears[a] = f /\ wire'[i].v = cmd[a]
        BY <3>2
      <4>2. phase # "idle"
        BY <3>2 DEF Apply
      <4> QED
        BY <2>1, <4>1, <4>2, Echoed
    <3>3. CASE dev' = [dev EXCEPT ![C.shows[f]] = wire'[i].v] /\ C.shows[f] \in DOMAIN C.fresh
      <4>1. dev'[C.shows[f]] = wire'[i].v
        BY <1>0, <3>3
      <4> QED
        BY <2>8, <4>1
    <3> QED
      BY <2>9, <3>1, <3>2, <3>3, ReachStep
  <2> QED
    BY <1>10, <2>7, <2>8, <2>9
<1> QED
  BY <1>7, <1>8, <1>9, <1>10, TodoStep

\* At rest, what agrees is cleared of its reasons.
LEMMA ClearedStep ==
  ASSUME WellMade, Typed, EPNext, C' = C, Cleared
  PROVE  Cleared'
<1> SUFFICES ASSUME AtRest', NEW f \in Fields, cache'[f] = dev'[C.shows[f]]
             PROVE  why'[f] = {}
  BY StepKind DEF Cleared
<1>1. \A b, t, r : Blame(b, t, r) => why'[f] = {}
  BY DEF Blame
<1>2. Settle => why'[f] = {}
  BY <1>1 DEF Settle
<1>3. todo' = <<>> /\ phase' = "idle" /\ wire' = <<>> /\ verdict' = None
  BY DEF AtRest, None
<1>4. ~Call
  <2>1. Call => \E s \in C.calls : todo' = s
    BY DEF Call
  <2>2. \A s \in C.calls : s # <<>>
    BY DEF WellMade, WritesWell
  <2> QED
    BY <1>3, <2>1, <2>2
<1>5. CASE Reconcile
  <2>1. UNCHANGED <<phase, wire, verdict, cache, dev, why>> /\ todo = <<>>
    BY <1>5 DEF Reconcile
  <2> QED
    BY <1>3, <2>1 DEF Cleared, AtRest
<1>6. ~Compose /\ ~AnswerOk
  BY <1>3 DEF Compose, AnswerOk
<1>7. ~Forward
  <2>1. \A f1 \in C.forwards : Append(wire, Asks(f1)) # <<>>
    <3>1. \A g \in C.forwards : Asks(g) \in Lines
      BY DEF Asks, Lines
    <3>2. wire \in Seq(Lines)
      BY DEF Typed
    <3>3. \A x \in Lines : Append(wire, x) # <<>>
      BY <3>2, AppendProperties
    <3> QED
      BY <3>1, <3>3
  <2> QED
    BY <1>3, <2>1 DEF Forward
<1>8. Skip \/ RefuseCall \/ Timeout => why'[f] = {}
  BY <1>2 DEF Skip, RefuseCall, Timeout
<1>9. HostReads => why'[f] = {}
  <2>1. HostReads => ReadStep
    BY HostReading
  <2>2. ReadTaken \/ ReadDenied \/ ReadOk \/ ReadError => why'[f] = {}
    BY <1>2 DEF ReadTaken, ReadDenied, ReadOk, ReadError
  <2>3. ReadKept \/ ReadAllowed => why'[f] = {}
    BY <1>1 DEF ReadKept, ReadAllowed
  <2> QED
    BY <2>1, <2>2, <2>3 DEF ReadStep
<1>10. Apply \/ Refuse \/ VerdictTaken \/ VerdictLate \/ Lose \/ Reboot => why'[f] = {}
  BY <1>1 DEF Apply, Refuse, VerdictTaken, VerdictLate, Lose, Reboot
<1>11. Change => why'[f] = {}
  BY <1>1 DEF Change
<1> QED
  BY <1>4, <1>5, <1>6, <1>7, <1>8, <1>9, <1>10, <1>11 DEF EPNext

-----------------------------------------------------------------------------
(* A field without a reason to differ is tracked.                           *)

\* What agrees at rest is tracked.
LEMMA TracksAtRest ==
  ASSUME C' = C, NEW f, AtRest', cache'[f] = dev'[C.shows[f]]
  PROVE  Tracks(f)'
<1>1. wire' = <<>>
  BY DEF AtRest
<1> QED
  BY <1>1, LeadsEnd, TracksNext

\* No verdict, no fields.
LEMMA NoVerdict == DOMAIN None.to = {}
  BY DEF None, Nothing

\* What no line reaches and no step touches agrees already.
LEMMA TracksUnreached ==
  ASSUME NEW f, Tracks(f), \A i \in DOMAIN wire : ~Reaches(wire[i], f)
  PROVE  cache[f] = dev[C.shows[f]]
  BY DEF Tracks, Leads

\* What is tracked agrees when nothing is under way.
LEMMA TrackedAtRest ==
  ASSUME AtRest, NEW f, Tracks(f)
  PROVE  cache[f] = dev[C.shows[f]]
<1>1. wire = <<>>
  BY DEF AtRest
<1> QED
  BY <1>1, LeadsEnd DEF Tracks

\* When the host reads a line.
LEMMA TrackingReads ==
  ASSUME WellMade, Typed, InFlight, AgreeInv, EPNext, C' = C,
         HostReads, NEW f \in Fields, why[f] = {},
         why'[f] = {}, f \notin DOMAIN verdict'.to, ~Lands(f)'
  PROVE  Tracks(f)' \/ (AtRest' /\ cache'[f] = dev'[C.shows[f]])
<1>0. /\ wire \in Seq(Lines) /\ OneEnd /\ OneAsk /\ Commanded /\ todo \in Seq(Writes(C))
      /\ verdict \in C.forwards \cup {None} /\ cache \in [Fields -> Value]
      /\ Unanswered /\ Undisturbed /\ Tracking /\ Beside /\ Strays /\ Followed
  BY DEF Typed, InFlight, AgreeInv
<1>1. /\ wire # <<>> /\ wire' = Tail(wire) /\ dev' = dev
  BY DEF HostReads
<1>2. /\ Head(wire) = wire[1] /\ 1 \in DOMAIN wire /\ Head(wire) \in Lines
      /\ DOMAIN wire = 1 .. Len(wire)
      /\ \A i \in DOMAIN wire' : i + 1 \in DOMAIN wire /\ wire'[i] = wire[i + 1]
  BY <1>0, <1>1, TailTyped
<1>3. ASSUME Head(wire).t # "end"
      PROVE  ~Lands(f)
  <2> SUFFICES ASSUME Lands(f) PROVE FALSE
    OBVIOUS
  <2>1. Done /\ f \in DOMAIN Head(todo).to
    BY DEF Lands
  <2>2. phase # "idle"
    BY <1>0, <2>1 DEF Done, Ended, OneEnd
  <2>3. phase' = phase
    BY <1>3 DEF HostReads, callVars
  <2>4. Done' /\ todo' = todo
    BY <1>3, <2>1, <2>2, <2>3, DoneKept
  <2> QED
    BY <2>1, <2>4 DEF Lands
<1>4. ASSUME Head(wire).t # "end", f \notin DOMAIN verdict.to
      PROVE  Tracks(f)
  BY <1>0, <1>3, <1>4 DEF Tracking
<1>5. CASE ReadTaken
  <2>1. /\ Head(wire).t = "urc" /\ verdict' = verdict
        /\ cache' = [cache EXCEPT ![C.hears[Head(wire).a]] = Head(wire).v]
    BY <1>5 DEF ReadTaken, Reads
  <2>2. Tracks(f)
    BY <1>4, <2>1
  <2>3. Reaches(Head(wire), f) <=> C.hears[Head(wire).a] = f
    BY <2>1 DEF Reaches
  <2> QED
    BY <1>0, <1>1, <2>1, <2>2, <2>3, TracksRead
<1>6. CASE ReadKept
  <2>1. /\ Head(wire).t = "urc" /\ verdict' = verdict /\ cache' = cache
        /\ \E r : Blame(why, Mirrors({Head(wire).a}), r)
    BY <1>6 DEF ReadKept, Reads
  <2>2. Tracks(f)
    BY <1>4, <2>1
  <2>3. PICK r : Blame(why, Mirrors({Head(wire).a}), r)
    BY <2>1
  <2>4. CASE Reaches(Head(wire), f)
    <3>1. wire[1].a = C.shows[f]
      <4>1. \/ wire[1].a = C.shows[f]
            \/ Done /\ f \in DOMAIN Head(todo).to
        BY <1>0, <1>2, <2>4, Reaching
      <4>2. ~Lands(f)
        BY <1>3, <2>1
      <4> QED
        BY <4>1, <4>2 DEF Lands
    <3>2. f \in Mirrors({Head(wire).a})
      BY <1>2, <3>1 DEF Mirrors
    <3>3. \/ why'[f] = why[f] \cup (IF f \in Mirrors({Head(wire).a}) THEN {r} ELSE {})
          \/ why'[f] = {} /\ AtRest' /\ cache'[f] = dev'[C.shows[f]]
      BY <2>3, NotBlamed
    <3> QED
      BY <3>2, <3>3
  <2>5. CASE ~Reaches(Head(wire), f)
    BY <1>0, <1>1, <2>1, <2>2, <2>5, TracksRead
  <2> QED
    BY <2>4, <2>5
<1>7. CASE ReadAllowed
  <2>1. /\ Head(wire).t = "cmd" /\ verdict' = Head(wire).v
        /\ cache' = Updated(cache, Head(wire).v.to)
    BY <1>7 DEF ReadAllowed, Reads
  <2>2. verdict = None /\ Head(wire).v \in C.forwards
    BY <1>0, <1>2, <2>1 DEF OneAsk, Lines
  <2>3. Tracks(f)
    BY <1>4, <2>1, <2>2, NoVerdict
  <2>4. cache'[f] = cache[f]
    BY <2>1, <2>2, Made, UpdatedTyped
  <2>5. ~Reaches(Head(wire), f)
    BY <2>1 DEF Reaches
  <2> QED
    BY <1>0, <1>1, <2>3, <2>4, <2>5, TracksRead
<1>8. CASE ReadDenied
  <2>1. Head(wire).t = "cmd" /\ verdict' = verdict /\ cache' = cache
    BY <1>8 DEF ReadDenied, Reads
  <2>2. Tracks(f) /\ ~Reaches(Head(wire), f)
    BY <1>4, <2>1 DEF Reaches
  <2> QED
    BY <1>0, <1>1, <2>1, <2>2, TracksRead
<1>9. ASSUME Head(wire).t = "end"
      PROVE  /\ phase = "answered" /\ todo # <<>> /\ known /\ ~Reaches(Head(wire), f)
             /\ Ended(Head(wire).v)
             /\ \A ok : Ended(ok) => ok = Head(wire).v
  <2>1. phase = "answered" /\ \A j \in DOMAIN wire : wire[j].t = "end" => j = 1
    BY <1>0, <1>2, <1>9 DEF OneEnd
  <2>2. \A ok : Ended(ok) => ok = Head(wire).v
    BY <1>2, <2>1 DEF Ended
  <2>3. Ended(Head(wire).v)
    BY <1>2, <1>9 DEF Ended
  <2> QED
    BY <1>0, <1>9, <2>1, <2>2, <2>3 DEF Commanded, Reaches
<1>10. CASE ReadError
  <2>1. Head(wire).t = "end" /\ verdict' = verdict /\ cache' = cache /\ ~Head(wire).v
    BY <1>10 DEF ReadError, Reads, Fails
  <2>2. ~Lands(f)
    BY <1>9, <2>1 DEF Lands, Done
  <2>3. Tracks(f)
    BY <1>0, <2>1, <2>2 DEF Tracking
  <2> QED
    BY <1>0, <1>1, <1>9, <2>1, <2>3, TracksRead
<1>11. CASE ReadOk
  <2>1. /\ Head(wire).t = "end" /\ verdict' = verdict /\ Head(wire).v
        /\ cache' = Updated(cache, Head(todo).to)
    BY <1>11 DEF ReadOk, Reads, Commit
  <2>2. Head(wire).v = TRUE
    BY <1>2, <2>1 DEF Lines
  <2>3. Done
    BY <1>9, <2>1, <2>2 DEF Done
  <2>4. Head(todo) \in Writes(C)
    BY <1>0, <1>9, <2>1, TailTyped
  <2>5. CASE f \notin DOMAIN Head(todo).to
    <3>1. Tracks(f)
      BY <1>0, <2>1, <2>5 DEF Tracking, Lands
    <3>2. cache'[f] = cache[f]
      BY <2>1, <2>4, <2>5, Made, UpdatedTyped
    <3> QED
      BY <1>0, <1>1, <1>9, <2>1, <3>1, <3>2, TracksRead
  <2>6. CASE f \in DOMAIN Head(todo).to
    <3>1. cache'[f] = Head(todo).to[f]
      BY <2>1, <2>4, <2>6, Made, UpdatedTyped
    <3>2. /\ f \in Sets(todo)
          /\ \/ Following
             \/ f \in Mirrors(DOMAIN cmd) /\ cmd[C.shows[f]] = Head(todo).to[f]
      BY <1>9, <2>1, <2>6, Sent
    <3>3. /\ dev[C.shows[f]] = Head(todo).to[f]
          /\ \A i \in DOMAIN wire : Reaches(wire[i], f) => wire[i].v = Head(todo).to[f]
      <4>1. CASE Following
        BY <1>0, <1>9, <2>1, <2>6, <4>1 DEF Followed
      <4>2. CASE f \in Mirrors(DOMAIN cmd) /\ cmd[C.shows[f]] = Head(todo).to[f]
        <5>1. dev[C.shows[f]] = Head(todo).to[f]
          BY <1>0, <2>3, <3>2, <4>2 DEF Undisturbed
        <5>2. \A j \in 1 .. Len(wire) : ~Reaches(wire[j], f)
          BY <1>0, <1>2, <2>1, <3>2 DEF Undisturbed
        <5> QED
          BY <1>2, <5>1, <5>2
      <4> QED
        BY <3>2, <4>1, <4>2
    <3>4. \A i \in DOMAIN wire' : Reaches(wire'[i], f) => wire'[i].v = Head(todo).to[f]
      BY <1>2, <3>3
    <3>5. wire' \in Seq(Lines)
      BY <1>0, <1>1, TailTyped
    <3>6. Leads(wire', f, Head(todo).to[f], Head(todo).to[f])
      BY <3>4, <3>5, LeadsSame
    <3> QED
      BY <1>1, <3>1, <3>3, <3>6, TracksNext
  <2> QED
    BY <2>5, <2>6
<1> QED
  BY <1>5, <1>6, <1>7, <1>8, <1>10, <1>11, HostReading DEF ReadStep

\* When the co-processor applies a command.
LEMMA TrackingApply ==
  ASSUME WellMade, Typed, InFlight, AgreeInv, EPNext, C' = C,
         Apply, NEW f \in Fields,
         why'[f] = {}, f \notin DOMAIN verdict'.to, ~Lands(f)'
  PROVE  Tracks(f)'
<1>0. /\ wire \in Seq(Lines) /\ OneEnd /\ Commanded /\ todo \in Seq(Writes(C))
      /\ cache \in [Fields -> Value] /\ Tracking /\ Beside /\ Strays
      /\ dev \in [DOMAIN C.fresh -> Value]
  BY DEF Typed, InFlight, AgreeInv
<1> DEFINE e == Echo(cmd)
           base == [g \in Fields |-> IF g \in Mirrors(DOMAIN cmd) THEN {} ELSE why[g]]
           touched == Mirrors(DOMAIN cmd) \ (DOMAIN Head(todo).to \cup Head(todo).also
                                    \cup HeardIn(DOMAIN cmd))
<1>1. /\ phase = "ready" /\ phase' = "applied" /\ dev' = Updated(dev, cmd) /\ wire' = wire \o e
      /\ UNCHANGED <<cache, todo, cmd, verdict>>
      /\ Blame(base, touched, "unheard")
  BY DEF Apply, hostVars
<1>2. /\ todo # <<>> /\ cmd \in [Carries(C, Head(todo)) -> Value]
      /\ \A a \in DOMAIN cmd \cap DOMAIN C.hears : cmd[a] \in Bit
  BY <1>0, <1>1 DEF Commanded
<1>3. Head(todo) \in Writes(C)
  BY <1>0, <1>2, TailTyped
<1>4. /\ e \in Seq(Lines)
      /\ \A i \in DOMAIN e : Reaches(e[i], f) =>
              \E a \in DOMAIN cmd \cap DOMAIN C.hears : C.hears[a] = f /\ e[i].v = cmd[a]
      /\ \A a \in DOMAIN cmd \cap DOMAIN C.hears : \E i \in DOMAIN e : Reaches(e[i], C.hears[a])
  BY <1>2, EchoLines, EchoSays
<1> HIDE DEF e
<1>5. f \notin DOMAIN Head(todo).to
  BY <1>1 DEF Lands, Done
<1>6. \A a \in DOMAIN cmd \cap DOMAIN C.hears : C.hears[a] = f => a = C.shows[f]
  <2>1. \A a \in DOMAIN cmd \cap DOMAIN C.hears : C.hears[a] = f => Straight(C, a)
    BY <1>1, <1>5, Echoed
  <2> QED
    BY <2>1 DEF Straight
<1>7. \A a \in DOMAIN cmd : dev'[a] = cmd[a]
  <2>1. DOMAIN cmd \subseteq DOMAIN C.fresh
    BY <1>2, <1>3, Made DEF Carries
  <2> QED
    BY <1>1, <1>2, <2>1, UpdatedDevice
<1>8. C.shows[f] \in DOMAIN C.fresh
  BY Made
<1>9. f \in Mirrors(DOMAIN cmd) <=> C.shows[f] \in DOMAIN cmd
  BY DEF Mirrors
<1>10. ~AtRest'
  BY <1>1, <1>2 DEF AtRest
<1>11. base[f] = {} /\ f \notin touched
  BY <1>1, <1>10, NotBlamed
<1>12. CASE C.shows[f] \notin DOMAIN cmd
  <2>1. why[f] = {}
    BY <1>9, <1>11, <1>12
  <2>2. ~Lands(f)
    BY <1>5 DEF Lands
  <2>3. Tracks(f)
    BY <1>0, <1>1, <2>1, <2>2 DEF Tracking
  <2>4. \A i \in DOMAIN e : ~Reaches(e[i], f)
    BY <1>4, <1>6, <1>12
  <2>5. dev'[C.shows[f]] = dev[C.shows[f]]
    BY <1>0, <1>1, <1>8, <1>12 DEF Updated
  <2> QED
    BY <1>0, <1>1, <1>4, <2>3, <2>4, <2>5, TracksAdded
<1>13. CASE C.shows[f] \in DOMAIN cmd /\ f \in HeardIn(DOMAIN cmd)
  <2>1. PICK a \in DOMAIN cmd \cap DOMAIN C.hears : C.hears[a] = f
    BY <1>13 DEF HeardIn
  <2>2. \E i \in DOMAIN e : Reaches(e[i], f)
    BY <1>4, <2>1
  <2>3. \A i \in DOMAIN e : Reaches(e[i], f) => e[i].v = dev'[C.shows[f]]
    BY <1>4, <1>6, <1>7
  <2>4. Leads(wire', f, cache'[f], dev'[C.shows[f]])
    BY <1>0, <1>1, <1>4, <2>2, <2>3, LeadsAdded
  <2> QED
    BY <2>4, TracksNext
<1>14. CASE C.shows[f] \in DOMAIN cmd /\ f \notin HeardIn(DOMAIN cmd)
  <2>1. f \in Head(todo).also
    BY <1>5, <1>9, <1>11, <1>14
  <2>2. dev'[C.shows[f]] = cache'[f]
    BY <1>0, <1>1, <1>7, <1>14, <2>1 DEF Beside
  <2>3. \A a \in DOMAIN cmd \cap DOMAIN C.hears : C.hears[a] # f
    BY <1>14 DEF HeardIn
  <2>4. \A i \in DOMAIN e : ~Reaches(e[i], f)
    BY <1>4, <2>3
  <2>5. \A i \in DOMAIN wire : ~Reaches(wire[i], f)
    <3> SUFFICES ASSUME NEW i \in DOMAIN wire, Reaches(wire[i], f) PROVE FALSE
      OBVIOUS
    <3>1. wire[i].a = C.shows[f] /\ wire[i].a \in DOMAIN C.hears /\ C.hears[wire[i].a] = f
      BY <1>0, <1>5, Reaching
    <3> QED
      BY <1>14, <2>3, <3>1
  <2>6. \A i \in DOMAIN wire' : ~Reaches(wire'[i], f)
    BY <1>0, <1>1, <1>4, <2>4, <2>5, AddedTyped
  <2> QED
    BY <2>2, <2>6, TracksNext DEF Leads
<1> QED
  BY <1>12, <1>13, <1>14

\* When anything but a read, an application, a loss or a reboot happens.
LEMMA TrackingOthers ==
  ASSUME WellMade, Typed, InFlight, AgreeInv, EPNext, C' = C,
         ~HostReads, ~Apply, ~Lose, ~Reboot, NEW f \in Fields, why[f] = {},
         why'[f] = {}, f \notin DOMAIN verdict'.to, ~Lands(f)'
  PROVE  Tracks(f)' \/ (AtRest' /\ cache'[f] = dev'[C.shows[f]])
<1>0. /\ wire \in Seq(Lines) /\ OneEnd /\ Commanded /\ todo \in Seq(Writes(C))
      /\ verdict \in C.forwards \cup {None} /\ cache \in [Fields -> Value]
      /\ Tracking /\ dev \in [DOMAIN C.fresh -> Value] /\ Strays
  BY DEF Typed, InFlight, AgreeInv
<1>1. phase \in {"idle", "ready"} => ~Done
  BY <1>0 DEF Done, Ended, OneEnd
<1>2. phase # "idle" /\ phase' # "idle" => ~Lands(f)
  BY DoneKept DEF Lands
<1>3. phase = "idle" => ~Lands(f)
  BY <1>1 DEF Lands
<1>4. ASSUME f \notin DOMAIN verdict.to, ~Lands(f)
      PROVE  Tracks(f)
  BY <1>0, <1>4 DEF Tracking
<1>5. CASE Call \/ Reconcile \/ Skip \/ RefuseCall \/ Compose
  <2>1. UNCHANGED <<cache, wire, dev, verdict>>
    BY <1>5 DEF Call, Reconcile, Skip, RefuseCall, Compose, hostVars
  <2>2. phase = "idle"
    <3>1. Call \/ Reconcile => todo = <<>>
      BY DEF Call, Reconcile
    <3>2. Skip \/ RefuseCall \/ Compose => phase = "idle"
      BY DEF Skip, RefuseCall, Compose
    <3> QED
      BY <1>0, <1>5, <3>1, <3>2 DEF Commanded
  <2> QED
    BY <1>3, <1>4, <2>1, <2>2, TracksKept
<1>6. CASE Timeout
  <2>1. UNCHANGED <<cache, wire, dev, verdict>>
    BY <1>6 DEF Timeout, Fails
  <2>2. ~Lands(f)
    BY <1>6 DEF Timeout, Lands, Done, Ended
  <2> QED
    BY <1>4, <2>1, <2>2, TracksKept
<1>7. CASE AnswerOk \/ Refuse
  <2>1. UNCHANGED <<cache, dev, verdict>> /\ phase # "idle" /\ phase' # "idle"
    BY <1>7 DEF AnswerOk, Refuse, hostVars
  <2>2. Tracks(f)
    BY <1>2, <1>4, <2>1
  <2>3. \A ok \in BOOLEAN : End(ok) \in Lines /\ End(ok).t # "urc"
    BY DEF End, Lines
  <2>4. \E ok \in BOOLEAN : wire' = Append(wire, End(ok))
    BY <1>7 DEF AnswerOk, Refuse
  <2>5. PICK x \in Lines : x.t # "urc" /\ wire' = Append(wire, x)
    BY <2>3, <2>4
  <2> QED
    BY <1>0, <2>1, <2>2, <2>5, TracksAppended
<1>8. CASE Forward
  <2>1. UNCHANGED <<cache, dev, verdict, phase>>
    BY <1>8 DEF Forward, hostVars, callVars
  <2>2. Tracks(f)
    BY <1>2, <1>3, <1>4, <2>1
  <2>3. \A g \in C.forwards : Asks(g) \in Lines /\ Asks(g).t # "urc"
    BY DEF Asks, Lines
  <2>4. PICK x \in Lines : x.t # "urc" /\ wire' = Append(wire, x)
    BY <1>8, <2>3 DEF Forward
  <2> QED
    BY <1>0, <2>1, <2>2, <2>4, TracksAppended
<1>9. CASE VerdictLate
  <2>1. UNCHANGED <<cache, wire, dev, phase>> /\ Blame(why, DOMAIN verdict.to, "late")
    BY <1>9 DEF VerdictLate, hostVars, callVars
  <2>2. CASE f \in DOMAIN verdict.to
    BY <2>1, <2>2, NotBlamed
  <2>3. CASE f \notin DOMAIN verdict.to
    <3>1. Tracks(f)
      BY <1>2, <1>3, <1>4, <2>1, <2>3
    <3> QED
      BY <2>1, <3>1, TracksKept
  <2> QED
    BY <2>2, <2>3
<1>10. CASE VerdictTaken
  <2>1. /\ UNCHANGED <<cache>> /\ phase = "idle" /\ verdict \in C.forwards
        /\ dev' = Updated(dev, verdict.w) /\ wire' = wire \o Echo(verdict.w)
        /\ Blame(why, {g \in DOMAIN verdict.to : cache[g] # verdict.to[g]}, "crossed")
    BY <1>0, <1>10 DEF VerdictTaken, hostVars, callVars
  <2>2. /\ DOMAIN verdict.w \cap DOMAIN C.hears = {}
        /\ Showing(C, DOMAIN verdict.w) = DOMAIN verdict.to
        /\ DOMAIN verdict.to \cap Heard(C) = {}
        /\ \A g \in DOMAIN verdict.to : verdict.w[C.shows[g]] = verdict.to[g]
    BY <2>1 DEF WellMade, ForwardsWell
  <2>3. wire' = wire
    BY <1>0, <2>1, <2>2, EchoNothing
  <2>4. C.shows[f] \in DOMAIN dev /\ (C.shows[f] \in DOMAIN verdict.w <=> f \in DOMAIN verdict.to)
    BY <1>0, <2>2, Made DEF Showing
  <2>5. CASE f \notin DOMAIN verdict.to
    <3>1. Tracks(f)
      BY <1>3, <1>4, <2>1, <2>5
    <3>2. dev'[C.shows[f]] = dev[C.shows[f]]
      BY <2>1, <2>4, <2>5 DEF Updated
    <3> QED
      BY <2>1, <2>3, <3>1, <3>2, TracksKept
  <2>6. CASE f \in DOMAIN verdict.to
    <3>1. dev'[C.shows[f]] = verdict.to[f]
      BY <2>1, <2>2, <2>4, <2>6 DEF Updated
    <3>2. CASE cache[f] # verdict.to[f]
      BY <2>1, <2>6, <3>2, NotBlamed
    <3>3. CASE cache[f] = verdict.to[f]
      <4>1. \A i \in DOMAIN wire : ~Reaches(wire[i], f)
        <5> SUFFICES ASSUME NEW i \in DOMAIN wire, Reaches(wire[i], f) PROVE FALSE
          OBVIOUS
        <5>1. wire[i].a \in DOMAIN C.hears /\ C.hears[wire[i].a] = f
          BY <1>0, Reaching
        <5> QED
          BY <2>2, <2>6, <5>1 DEF Heard
      <4> QED
        BY <2>1, <2>3, <3>1, <3>3, <4>1, TracksNext DEF Leads
    <3> QED
      BY <3>2, <3>3
  <2> QED
    BY <2>5, <2>6
<1>11. CASE Change
  <2>1. PICK a \in C.changes, v \in Bit, e \in Seq(Lines) :
           /\ a \in DOMAIN C.fresh /\ dev' = [dev EXCEPT ![a] = v] /\ wire' = wire \o e
           /\ \A i \in DOMAIN e : e[i].t = "urc" /\ e[i].a = a /\ a \in DOMAIN C.hears /\ e[i].v = v
           /\ a \in DOMAIN C.hears =>
                /\ Straight(C, a)
                /\ \E i \in DOMAIN e : Reaches(e[i], C.hears[a])
           /\ IF Mirrors({a}) \cap Sets(todo) # {}
                THEN Blame(why, Mirrors({a}), "crossed")
                ELSE Blame(why, Mirrors({a}) \ HeardIn({a}), "unheard")
    BY <1>11, Changed
  <2>2. UNCHANGED <<cache, verdict, phase>>
    BY <1>11 DEF Change, hostVars, callVars
  <2>3. Tracks(f)
    BY <1>2, <1>3, <1>4, <2>2
  <2>4. \A i \in DOMAIN e : Reaches(e[i], f) => C.shows[f] = a /\ e[i].v = v
    BY <2>1 DEF Reaches, Straight
  <2>5. CASE C.shows[f] # a
    <3>1. \A i \in DOMAIN e : ~Reaches(e[i], f)
      BY <2>4, <2>5
    <3>2. dev'[C.shows[f]] = dev[C.shows[f]]
      BY <1>0, <2>1, <2>5
    <3> QED
      BY <1>0, <2>1, <2>2, <2>3, <3>1, <3>2, TracksAdded
  <2>6. CASE C.shows[f] = a
    <3>1. dev'[C.shows[f]] = v
      BY <1>0, <2>1, <2>6
    <3>2. CASE f \in HeardIn({a})
      <4>1. a \in DOMAIN C.hears /\ C.hears[a] = f
        BY <3>2 DEF HeardIn
      <4>2. Leads(wire', f, cache'[f], v)
        BY <1>0, <2>1, <2>4, <4>1, LeadsAdded
      <4> QED
        BY <3>1, <4>2, TracksNext
    <3>3. CASE f \notin HeardIn({a})
      <4>1. f \in Mirrors({a}) /\ f \in Mirrors({a}) \ HeardIn({a})
        BY <2>6, <3>3 DEF Mirrors
      <4>2. Blame(why, Mirrors({a}), "crossed")
              \/ Blame(why, Mirrors({a}) \ HeardIn({a}), "unheard")
        BY <2>1
      <4>3. CASE Blame(why, Mirrors({a}), "crossed")
        BY <4>1, <4>3, NotBlamed
      <4>4. CASE Blame(why, Mirrors({a}) \ HeardIn({a}), "unheard")
        <5> DEFINE t == Mirrors({a}) \ HeardIn({a})
        <5>1. Blame(why, t, "unheard") /\ f \in t
          BY <4>1, <4>4
        <5> HIDE DEF t
        <5> QED
          BY <5>1, NotBlamed
      <4> QED
        BY <4>2, <4>3, <4>4
    <3> QED
      BY <3>2, <3>3
  <2> QED
    BY <2>5, <2>6
<1> QED
  BY <1>5, <1>6, <1>7, <1>8, <1>9, <1>10, <1>11 DEF EPNext

\* A field a command puts a value into, when its answer or the co-processor is lost.
LEMMA TrackingLose ==
  ASSUME WellMade, Typed, InFlight, AgreeInv, EPNext, C' = C,
         Lose, NEW f \in Fields, why[f] = {},
         why'[f] = {}, f \notin DOMAIN verdict'.to, ~Lands(f)'
  PROVE  Tracks(f)' \/ (AtRest' /\ cache'[f] = dev'[C.shows[f]])
<1>0. /\ wire \in Seq(Lines) /\ OneEnd /\ Commanded /\ todo \in Seq(Writes(C))
      /\ Tracking /\ Strays /\ Followed
  BY DEF Typed, InFlight, AgreeInv
<1> DEFINE A == IF Head(wire).t = "urc" THEN {Head(wire).a} ELSE DOMAIN cmd
<1>1. /\ wire # <<>> /\ wire' = Tail(wire) /\ Head(wire).t # "cmd"
      /\ UNCHANGED <<cache, dev, verdict, phase, todo>>
      /\ Blame(why, Mirrors(A), "lost")
  BY DEF Lose, hostVars, callVars
<1>2. /\ Head(wire) = wire[1] /\ 1 \in DOMAIN wire /\ Head(wire) \in Lines
      /\ wire' \in Seq(Lines)
      /\ \A i \in DOMAIN wire' : i + 1 \in DOMAIN wire /\ wire'[i] = wire[i + 1]
  BY <1>0, <1>1, TailTyped
<1> SUFFICES ASSUME f \notin Mirrors(A) PROVE Tracks(f)'
  <2> HIDE DEF A
  <2> QED
    BY <1>1, NotBlamed
<1>3. CASE Head(wire).t = "urc"
  <2>1. ~Lands(f)
    <3> SUFFICES ASSUME Lands(f) PROVE FALSE
      OBVIOUS
    <3>1. Done /\ f \in DOMAIN Head(todo).to
      BY DEF Lands
    <3>2. phase # "idle"
      BY <1>0, <3>1 DEF Done, Ended, OneEnd
    <3>3. Done'
      <4>1. ~Reboot \/ wire' = <<>>
        BY DEF Reboot
      <4>2. CASE phase = "applied"
        BY <1>1, <4>2 DEF Done
      <4>3. CASE Ended(TRUE)
        <5>1. PICK k \in DOMAIN wire : wire[k].t = "end" /\ wire[k].v = TRUE
          BY <4>3 DEF Ended
        <5>2. k # 1
          BY <1>2, <1>3, <5>1
        <5>3. k - 1 \in DOMAIN wire' /\ wire'[k - 1] = wire[k]
          BY <1>0, <1>1, <5>1, <5>2, TailTyped
        <5> QED
          BY <5>1, <5>3 DEF Done, Ended
      <4> QED
        BY <3>1, <4>2, <4>3 DEF Done
    <3> QED
      BY <1>1, <3>1, <3>3 DEF Lands
  <2>2. Tracks(f)
    BY <1>0, <1>1, <2>1 DEF Tracking
  <2>3. ~Reaches(Head(wire), f)
    <3> SUFFICES ASSUME Reaches(Head(wire), f) PROVE FALSE
      OBVIOUS
    <3>1. wire[1].a = C.shows[f]
      BY <1>0, <1>2, <2>1, Reaching DEF Lands
    <3> QED
      BY <1>2, <1>3, <3>1 DEF Mirrors
  <2> QED
    BY <1>0, <1>1, <2>2, <2>3, TracksRead
<1>4. CASE Head(wire).t = "end"
  <2>1. phase = "answered" /\ f \notin Mirrors(DOMAIN cmd) /\ known
    BY <1>0, <1>2, <1>4 DEF OneEnd, Commanded
  <2>2. ~Reaches(Head(wire), f)
    BY <1>4 DEF Reaches
  <2>3. CASE ~Lands(f)
    <3>1. Tracks(f)
      BY <1>0, <1>1, <2>3 DEF Tracking
    <3> QED
      BY <1>0, <1>1, <2>2, <3>1, TracksRead
  <2>4. CASE Lands(f)
    <3>1. f \in DOMAIN Head(todo).to
      BY <2>4 DEF Lands
    <3>2. Following
      BY <2>1, <3>1, Sent
    <3>3. /\ cache[f] = dev[C.shows[f]]
          /\ \A i \in DOMAIN wire : Reaches(wire[i], f) => wire[i].v = cache[f]
      BY <1>0, <2>1, <3>1, <3>2 DEF Followed
    <3>4. \A i \in DOMAIN wire' : Reaches(wire'[i], f) => wire'[i].v = cache[f]
      BY <1>2, <3>3
    <3>5. Leads(wire', f, cache[f], cache[f])
      BY <1>2, <3>4, LeadsSame
    <3> QED
      BY <1>1, <3>3, <3>5, TracksNext
  <2> QED
    BY <2>3, <2>4
<1>5. Head(wire).t \in {"urc", "end", "cmd"}
  BY <1>2 DEF Lines
<1> QED
  BY <1>1, <1>3, <1>4, <1>5

\* When the co-processor restarts.
LEMMA TrackingReboot ==
  ASSUME WellMade, Typed, InFlight, AgreeInv, EPNext, C' = C,
         Reboot, NEW f \in Fields, why[f] = {}, why'[f] = {}
  PROVE  Tracks(f)' \/ (AtRest' /\ cache'[f] = dev'[C.shows[f]])
<1>0. /\ wire \in Seq(Lines) /\ OneEnd /\ Commanded /\ todo \in Seq(Writes(C))
      /\ Tracking /\ Strays /\ dev \in [DOMAIN C.fresh -> Value]
      /\ verdict \in C.forwards \cup {None}
  BY DEF Typed, InFlight, AgreeInv
<1> DEFINE base == [g \in Fields |->
                      why[g] \cup (IF g \in Mirrors(DOMAIN cmd) THEN {"lost"} ELSE {})]
           touched == Mirrors(DOMAIN dev \ C.keeps)
<1>1. /\ Blame(base, touched, "reboot") /\ cache' = cache /\ wire' = <<>>
      /\ dev' = [a \in DOMAIN dev |-> IF a \in C.keeps THEN dev[a] ELSE C.fresh[a]]
  BY DEF Reboot
<1>2. C.shows[f] \in DOMAIN dev
  BY <1>0, Made
<1> SUFFICES ASSUME base[f] = {}, f \notin touched PROVE Tracks(f)'
  <2> HIDE DEF base, touched
  <2> QED
    BY <1>1, NotBlamed
<1>3. C.shows[f] \in C.keeps /\ f \notin Mirrors(DOMAIN cmd)
  BY <1>2 DEF Mirrors
<1>4. f \notin DOMAIN verdict.to
  BY <1>0, <1>3, NoVerdict DEF WellMade, ForwardsWell
<1>5. ~Lands(f)
  <2> SUFFICES ASSUME Done, f \in DOMAIN Head(todo).to PROVE FALSE
    BY DEF Lands
  <2>1. phase # "idle"
    BY <1>0 DEF Done, Ended, OneEnd
  <2>2. Following
    BY <1>3, <2>1, Sent
  <2> QED
    BY <1>3, <2>2, Followers
<1>6. Tracks(f)
  BY <1>0, <1>4, <1>5 DEF Tracking
<1>7. \A i \in DOMAIN wire : ~Reaches(wire[i], f)
  <2> SUFFICES ASSUME NEW i \in DOMAIN wire, Reaches(wire[i], f) PROVE FALSE
    OBVIOUS
  <2>1. wire[i].a \in DOMAIN C.hears /\ C.hears[wire[i].a] = f
    BY <1>0, Reaching
  <2>2. f \in Heard(C)
    BY <2>1 DEF Heard
  <2>3. f \in Showing(C, C.keeps)
    BY <1>3, Made DEF Showing
  <2> QED
    BY <2>2, <2>3 DEF WellMade, ReportsWell
<1>8. cache[f] = dev[C.shows[f]]
  BY <1>6, <1>7, TracksUnreached
<1> QED
  BY <1>1, <1>2, <1>3, <1>8, LeadsEnd, TracksNext

\* Every step keeps fields tracked.
LEMMA TrackingStep ==
  ASSUME WellMade, Typed, InFlight, AgreeInv, EPNext, C' = C
  PROVE  Tracking'
<1>1. Fields' = Fields
  BY DEF Fields
<1> SUFFICES ASSUME NEW f \in Fields, why'[f] = {}, f \notin DOMAIN verdict'.to, ~Lands(f)'
             PROVE  Tracks(f)'
  BY <1>1 DEF Tracking
<1>2. AtRest' /\ cache'[f] = dev'[C.shows[f]] => Tracks(f)'
  BY TracksAtRest
<1>3. CASE Apply
  BY <1>3, TrackingApply
<1>4. CASE ~Apply /\ why[f] = {}
  BY <1>2, <1>4, TrackingReads, TrackingOthers, TrackingLose, TrackingReboot
<1>5. CASE ~Apply /\ why[f] # {}
  BY <1>2, <1>5, WhyKept
<1> QED
  BY <1>3, <1>4, <1>5

-----------------------------------------------------------------------------
(* What is sent again.                                                      *)

\* A value in the cache is not taken out of it.
LEMMA CacheHolds ==
  ASSUME WellMade, Typed, InFlight, EPNext, NEW g \in Fields, cache[g] # Null
  PROVE  cache'[g] # Null
<1>0. /\ wire \in Seq(Lines) /\ todo \in Seq(Writes(C)) /\ cache \in [Fields -> Value]
      /\ Commanded /\ OneEnd
  BY DEF Typed, InFlight
<1>1. wire # <<>> => 1 \in DOMAIN wire /\ Head(wire) = wire[1] /\ Head(wire) \in Lines
  BY <1>0, TailTyped
<1>2. CASE ReadTaken
  <2>1. /\ wire # <<>> /\ Head(wire).t = "urc"
        /\ cache' = [cache EXCEPT ![C.hears[Head(wire).a]] = Head(wire).v]
    BY <1>2 DEF ReadTaken, Reads
  <2>2. Head(wire).v \in Bit
    BY <1>1, <2>1 DEF Lines
  <2>3. Head(wire).v # Null
    BY <2>2 DEF Bit, Null
  <2> QED
    BY <1>0, <2>1, <2>3
<1>3. CASE ReadAllowed
  <2>1. /\ wire # <<>> /\ Head(wire).t = "cmd" /\ cache' = Updated(cache, Head(wire).v.to)
    BY <1>3 DEF ReadAllowed, Reads
  <2>2. Head(wire).v \in C.forwards
    BY <1>1, <2>1 DEF Lines
  <2> QED
    BY <2>1, <2>2, Made, UpdatedTyped
<1>4. CASE ReadOk
  <2>1. /\ wire # <<>> /\ Head(wire).t = "end" /\ cache' = Updated(cache, Head(todo).to)
    BY <1>4 DEF ReadOk, Reads, Commit
  <2>2. todo # <<>>
    BY <1>0, <1>1, <2>1 DEF OneEnd, Commanded
  <2>3. Head(todo) \in Writes(C)
    BY <1>0, <2>2, TailTyped
  <2> QED
    BY <2>1, <2>3, Made, UpdatedTyped
<1> QED
  BY <1>2, <1>3, <1>4, CacheStep

\* Where a flag goes up.
LEMMA Raised ==
  ASSUME EPNext, NEW f \in wrote', f \notin wrote
  PROVE  \/ Skip /\ ~pushing /\ f \in C.noted /\ f \in DOMAIN Head(todo).to
         \/ ReadOk /\ f \in C.flagged /\ f \in DOMAIN Head(todo).to
         \/ ReadTaken /\ f \in C.marks /\ f = C.hears[Head(wire).a]
         \/ ReadAllowed /\ f \in C.flagged /\ f \in DOMAIN Head(wire).v.to
<1>1. ~(Call \/ RefuseCall \/ Compose \/ Apply \/ AnswerOk \/ Refuse)
  BY DEF Call, RefuseCall, Compose, Apply, AnswerOk, Refuse, hostVars
<1>2. ~(Change \/ Forward \/ VerdictTaken \/ VerdictLate \/ Lose)
  BY DEF Change, Forward, VerdictTaken, VerdictLate, Lose, hostVars
<1>3. ~(Reconcile \/ Timeout \/ Reboot)
  BY DEF Reconcile, Timeout, Fails, Flags, Reboot
<1>4. CASE Skip
  BY <1>4 DEF Skip, Flags
<1>5. CASE HostReads
  <2>1. ReadStep
    BY <1>5, HostReading
  <2>2. ~ReadKept /\ ~ReadDenied /\ ~ReadError
    BY DEF ReadKept, ReadDenied, ReadError, Fails, Flags
  <2>3. CASE ReadTaken
    BY <2>3 DEF ReadTaken
  <2>4. CASE ReadAllowed
    BY <2>4 DEF ReadAllowed
  <2>5. CASE ReadOk
    BY <2>5 DEF ReadOk, Commit, Flags
  <2> QED
    BY <2>1, <2>2, <2>3, <2>4, <2>5 DEF ReadStep
<1> QED
  BY <1>1, <1>2, <1>3, <1>4, <1>5 DEF EPNext

\* Where a flag goes down.
LEMMA Lowered ==
  ASSUME EPNext, NEW f \in wrote, f \notin wrote'
  PROVE  /\ f \in C.forgets
         /\ \/ Reconcile /\ C.push = <<>>
            \/ pushing /\ ~pushing'
<1>1. ~(Call \/ RefuseCall \/ Compose \/ Apply \/ AnswerOk \/ Refuse)
  BY DEF Call, RefuseCall, Compose, Apply, AnswerOk, Refuse, hostVars
<1>2. ~(Change \/ Forward \/ VerdictTaken \/ VerdictLate \/ Lose \/ Reboot)
  BY DEF Change, Forward, VerdictTaken, VerdictLate, Lose, hostVars, Reboot
<1>3. CASE Reconcile
  BY <1>3 DEF Reconcile
<1>4. \A more : Flags(more) => f \in C.forgets /\ pushing /\ ~pushing'
  BY DEF Flags
<1>5. CASE Skip \/ Timeout
  BY <1>4, <1>5 DEF Skip, Timeout, Fails
<1>6. CASE HostReads
  <2>1. ReadStep
    BY <1>6, HostReading
  <2>2. ~ReadTaken /\ ~ReadKept /\ ~ReadAllowed /\ ~ReadDenied
    BY DEF ReadTaken, ReadKept, ReadAllowed, ReadDenied
  <2>3. CASE ReadOk \/ ReadError
    BY <1>4, <2>3 DEF ReadOk, ReadError, Commit, Fails
  <2> QED
    BY <2>1, <2>2, <2>3 DEF ReadStep
<1> QED
  BY <1>1, <1>2, <1>3, <1>5, <1>6 DEF EPNext

\* What can be sent again still can while the push goes on.
LEMMA DueKept ==
  ASSUME WellMade, Typed, InFlight, EPNext, C' = C, pushing, pushing',
         NEW p \in Writes(C), Due(p)
  PROVE  Due(p)'
<1>1. Pushes /\ ~Reconcile
  BY DEF InFlight, Pushes, Reconcile
<1>2. p.also \subseteq Fields
  BY Made
<1>3. \A f \in p.also : cache'[f] # Null
  BY <1>2, CacheHolds DEF Due
<1>4. \A f \in p.also : f \in C.ifWritten => f \in wrote'
  BY <1>1, Lowered DEF Due
<1> QED
  BY <1>3, <1>4 DEF Due

\* A command is applied or refused when it is no longer to be sent.
LEMMA SendStep ==
  ASSUME InFlight, EPNext, phase \in {"idle", "ready"}, Typed,
         UNCHANGED todo \/ MoveOn
  PROVE  phase' \in {"idle", "ready"} \/ Apply \/ Refuse
<1>1. Call \/ Reconcile \/ Skip \/ RefuseCall => phase' = phase
  BY DEF Call, Reconcile, Skip, RefuseCall
<1>2. Compose \/ Timeout => phase' \in {"idle", "ready"}
  BY DEF Compose, Timeout, Fails
<1>3. HostReads => phase' \in {phase, "idle"}
  BY DEF HostReads, callVars, Commit, Fails
<1>4. Change \/ Forward \/ VerdictTaken \/ VerdictLate \/ Lose => phase' = phase
  BY DEF Change, Forward, VerdictTaken, VerdictLate, Lose, callVars
<1>5. Reboot \/ AnswerOk => phase' = phase
  BY DEF Reboot, AnswerOk
<1> QED
  BY <1>1, <1>2, <1>3, <1>4, <1>5 DEF EPNext

\* A write that is still to be sent, in the next state.
LEMMA ComingNext ==
  ASSUME C' = C, NEW f, pushing', NEW k \in DOMAIN todo', f \in todo'[k].also,
         \A g \in todo'[k].also : cache'[g] # Null /\ (g \in C.ifWritten => g \in wrote'),
         phase' \in {"idle", "ready"}
  PROVE  Coming(f)'
  BY DEF Coming, Due

\* A field that is to be sent again still is, or its command was judged.
LEMMA ComingStep ==
  ASSUME WellMade, Typed, InFlight, EPNext, C' = C, NEW f, Coming(f)
  PROVE  \/ Coming(f)'
         \/ (Apply \/ Refuse) /\ f \in Head(todo).also
<1>0. /\ todo \in Seq(Writes(C)) /\ Pushes /\ pushing /\ todo # <<>> /\ Commanded /\ OneEnd
  BY DEF Typed, InFlight, Pushes, Coming
<1>1. PICK i \in DOMAIN todo : /\ f \in todo[i].also /\ Due(todo[i])
                               /\ i = 1 => phase \in {"idle", "ready"}
  BY DEF Coming
<1>2. todo[i] \in Writes(C) /\ Head(todo) = todo[1] /\ i \in 1 .. Len(todo) /\ Len(todo) \in Nat
  BY <1>0, ElementTyped, TailTyped
<1>3. CASE UNCHANGED <<todo, pushing>>
  <2>1. Due(todo[i])'
    <3>1. Due(todo[i]) /\ pushing' /\ todo'[i] = todo[i]
      BY <1>0, <1>1, <1>3
    <3> DEFINE p == todo[i]
    <3>2. Due(p) /\ p \in Writes(C)
      BY <1>2, <3>1
    <3> HIDE DEF p
    <3>3. \A f1 \in p.also : cache'[f1] # Null /\ (f1 \in C.ifWritten => f1 \in wrote')
      BY <1>0, <3>1, <3>2, DueKept DEF Due
    <3> QED
      BY <3>1, <3>3 DEF Due, p
  <2>2. i = 1 => phase' \in {"idle", "ready"} \/ Apply \/ Refuse
    BY <1>1, <1>3, SendStep
  <2>3. CASE i = 1 => phase' \in {"idle", "ready"}
    <3>1. i \in DOMAIN todo' /\ f \in todo'[i].also /\ pushing'
      BY <1>0, <1>1, <1>3
    <3> QED
      BY <2>1, <2>3, <3>1 DEF Coming
  <2>4. CASE i = 1 /\ (Apply \/ Refuse)
    BY <1>1, <1>2, <2>4
  <2> QED
    BY <2>2, <2>3, <2>4
<1>4. CASE MoveOn /\ (Skip \/ RefuseCall \/ ReadOk \/ ReadError \/ Timeout)
  <2>1. todo' = Tail(todo) /\ pushing' = (pushing /\ Len(todo) > 1)
    BY <1>4 DEF MoveOn
  <2>2. i # 1
    <3> SUFFICES ASSUME i = 1 PROVE FALSE
      OBVIOUS
    <3>1. phase \in {"idle", "ready"} /\ Due(Head(todo))
      BY <1>1, <1>2
    <3>2. Skip => ~Due(Head(todo))
      BY <1>0 DEF Skip, Skips
    <3>3. ~RefuseCall
      BY <1>0 DEF RefuseCall
    <3>4. ReadOk \/ ReadError => phase = "answered"
      <4>1. ReadOk \/ ReadError => wire # <<>> /\ Head(wire).t = "end"
        BY DEF ReadOk, ReadError, Reads
      <4>2. wire # <<>> => 1 \in DOMAIN wire /\ Head(wire) = wire[1]
        BY TailTyped DEF Typed
      <4> QED
        BY <1>0, <4>1, <4>2 DEF OneEnd
    <3>5. Timeout => phase = "answered"
      BY DEF Timeout
    <3> QED
      BY <1>4, <3>1, <3>2, <3>3, <3>4, <3>5
  <2>3. Len(todo) > 1 /\ i - 1 \in DOMAIN Tail(todo) /\ Tail(todo)[i - 1] = todo[i]
    BY <1>0, <1>2, <2>2, TailTyped
  <2>4. pushing' /\ i - 1 \in DOMAIN todo' /\ todo'[i - 1] = todo[i]
    BY <1>0, <2>1, <2>3
  <2>5. \A f1 \in todo[i].also : cache'[f1] # Null /\ (f1 \in C.ifWritten => f1 \in wrote')
    <3> DEFINE p == todo[i]
    <3>1. Due(p) /\ p \in Writes(C)
      BY <1>1, <1>2
    <3> HIDE DEF p
    <3>2. \A f1 \in p.also : cache'[f1] # Null /\ (f1 \in C.ifWritten => f1 \in wrote')
      BY <1>0, <2>4, <3>1, DueKept DEF Due
    <3> QED
      BY <3>2 DEF p
  <2>6. phase' = "idle"
    BY <1>4 DEF Skip, RefuseCall, ReadOk, ReadError, Timeout, Commit, Fails
  <2>7. /\ i - 1 \in DOMAIN todo' /\ f \in todo'[i - 1].also
        /\ \A f1 \in todo'[i - 1].also : cache'[f1] # Null /\ (f1 \in C.ifWritten => f1 \in wrote')
    BY <1>1, <2>4, <2>5
  <2> QED
    BY <2>4, <2>6, <2>7, ComingNext
<1>5. ~Call /\ ~Reconcile
  BY <1>0 DEF Call, Reconcile
<1> QED
  BY <1>3, <1>4, <1>5, TodoStep

\* What the application of a command leaves of the history.
LEMMA AppliedWhy ==
  ASSUME Typed, InFlight, Apply, NEW f \in Fields
  PROVE  /\ f \notin Mirrors(DOMAIN cmd) => why'[f] = why[f]
         /\ f \in Mirrors(DOMAIN cmd) => why'[f] \subseteq {"unheard"}
         /\ f \in DOMAIN Head(todo).to \cup Head(todo).also \cup HeardIn(DOMAIN cmd)
              /\ f \in Mirrors(DOMAIN cmd) => why'[f] = {}
<1> DEFINE base == [g \in Fields |-> IF g \in Mirrors(DOMAIN cmd) THEN {} ELSE why[g]]
           touched == Mirrors(DOMAIN cmd) \ (DOMAIN Head(todo).to \cup Head(todo).also
                                    \cup HeardIn(DOMAIN cmd))
<1>1. Blame(base, touched, "unheard") /\ phase' = "applied"
  BY DEF Apply
<1>2. ~AtRest'
  BY <1>1 DEF AtRest
<1>3. why'[f] = base[f] \cup (IF f \in touched THEN {"unheard"} ELSE {})
  <2> HIDE DEF base, touched
  <2> QED
    BY <1>1, <1>2, NotBlamed
<1>4. f \notin Mirrors(DOMAIN cmd) => base[f] = why[f] /\ f \notin touched
  OBVIOUS
<1>5. f \in Mirrors(DOMAIN cmd) => base[f] = {}
  OBVIOUS
<1>6. f \in DOMAIN Head(todo).to \cup Head(todo).also \cup HeardIn(DOMAIN cmd) => f \notin touched
  OBVIOUS
<1> HIDE DEF base, touched
<1> QED
  BY <1>3, <1>4, <1>5, <1>6

\* Only a reboot leaves a field as it was created.
LEMMA NotStale ==
  ASSUME Typed, InFlight, EPNext, ~Reboot, NEW f \in Fields,
         NEW r \in {"begin", "reboot"}, r \in why'[f]
  PROVE  r \in why[f]
<1> DEFINE Goal == r \in why[f]
<1>1. why' = why => Goal
  OBVIOUS
<1>2. ASSUME NEW t, NEW s, s # r, Blame(why, t, s) PROVE Goal
  BY <1>2, NotBlamed
<1> HIDE DEF Goal
<1>3. Settle => Goal
  BY <1>2 DEF Settle
<1>4. Call \/ Reconcile \/ Compose \/ AnswerOk \/ Forward => Goal
  BY <1>1 DEF Call, Reconcile, Compose, AnswerOk, Forward
<1>5. Skip \/ RefuseCall \/ Timeout => Goal
  BY <1>3 DEF Skip, RefuseCall, Timeout
<1>6. HostReads => Goal
  <2>1. HostReads => ReadStep
    BY HostReading
  <2>2. ReadTaken \/ ReadDenied \/ ReadOk \/ ReadError => Goal
    BY <1>3 DEF ReadTaken, ReadDenied, ReadOk, ReadError
  <2>3. ReadKept => Goal
    BY <1>2 DEF ReadKept
  <2>4. ReadAllowed => Goal
    BY <1>2 DEF ReadAllowed
  <2> QED
    BY <2>1, <2>2, <2>3, <2>4 DEF ReadStep
<1>7. Refuse \/ VerdictTaken \/ VerdictLate \/ Lose => Goal
  BY <1>2 DEF Refuse, VerdictTaken, VerdictLate, Lose
<1>8. Change => Goal
  BY <1>2 DEF Change
<1>9. Apply => Goal
  <2> SUFFICES ASSUME Apply PROVE Goal
    OBVIOUS
  <2>1. f \notin Mirrors(DOMAIN cmd) => Goal
    BY AppliedWhy DEF Goal
  <2>2. f \in Mirrors(DOMAIN cmd) => FALSE
    BY AppliedWhy
  <2> QED
    BY <2>1, <2>2
<1> QED
  BY <1>4, <1>5, <1>6, <1>7, <1>8, <1>9 DEF EPNext, Goal

\* What a command sends beside its own value is in it.
LEMMA InCommand ==
  ASSUME InFlight, Typed, WellMade, phase # "idle", NEW f \in Head(todo).also
  PROVE  f \in Mirrors(DOMAIN cmd)
<1>0. /\ todo \in Seq(Writes(C)) /\ todo # <<>> /\ DOMAIN cmd = Carries(C, Head(todo))
  BY DEF Typed, InFlight, Commanded
<1>1. Head(todo) \in Writes(C)
  BY <1>0, TailTyped
<1>2. f \in Fields
  BY <1>1, Made
<1> QED
  BY <1>0, <1>2 DEF Carries, Mirrors

\* A write of the push that is refused is blamed.
LEMMA RefusedPush ==
  ASSUME WellMade, Typed, InFlight, Refuse, pushing, NEW f \in Head(todo).also
  PROVE  \E t : Blame(why, t, "refused") /\ f \in t
<1>1. phase = "ready"
  BY DEF Refuse
<1>2. todo \in Seq(Writes(C)) /\ todo # <<>> /\ Pushes
  BY <1>1 DEF Typed, InFlight, Commanded
<1>3. Head(todo) \in ToSet(C.push)
  BY <1>2, TailTyped DEF Pushes
<1>4. Head(todo).to = Nothing
  BY <1>3 DEF WellMade, WritesWell
<1>5. f \in Mirrors(DOMAIN cmd) /\ f \notin DOMAIN Head(todo).to
  BY <1>1, <1>4, InCommand DEF Nothing
<1>6. Blame(why, Mirrors(DOMAIN cmd) \ DOMAIN Head(todo).to, "refused")
  BY DEF Refuse
<1> QED
  BY <1>5, <1>6

\* What a reconcile is to send is all still to be sent when it begins.
LEMMA PushBegins ==
  ASSUME WellMade, Typed, InFlight, C' = C, Reconcile, NEW f \in owed'
  PROVE  Coming(f)'
<1>1. /\ todo = <<>> /\ todo' = C.push /\ pushing' = (C.push # <<>>) /\ phase' = phase
      /\ wrote' = (IF C.push = <<>> THEN wrote \ C.forgets ELSE wrote) /\ cache' = cache
      /\ owed' = UNION {p.also : p \in {q \in ToSet(C.push) : Due(q)}}
  BY DEF Reconcile
<1>2. PICK p \in ToSet(C.push) : Due(p) /\ f \in p.also
  BY <1>1
<1>3. PICK k \in DOMAIN C.push : C.push[k] = p
  BY <1>2 DEF ToSet
<1>4. C.push # <<>>
  BY <1>3
<1>5. phase' = "idle"
  BY <1>1 DEF InFlight, Commanded, Typed
<1>6. \A g \in p.also : cache'[g] # Null /\ (g \in C.ifWritten => g \in wrote')
  BY <1>1, <1>2, <1>4 DEF Due
<1> QED
  BY <1>1, <1>2, <1>3, <1>4, <1>5, <1>6, ComingNext

\* Every step keeps what a reconcile is to send.
LEMMA PushedStep ==
  ASSUME WellMade, Typed, InFlight, EPNext, C' = C, Fields' = Fields, Pushed
  PROVE  Pushed'
<1> SUFFICES ASSUME synced', NEW f \in owed'
             PROVE  \/ why'[f] \cap {"refused", "lost"} # {}
                    \/ why'[f] \cap {"begin", "reboot"} = {}
                    \/ Coming(f)'
  BY DEF Pushed
<1>1. CASE Reconcile
  BY <1>1, PushBegins
<1>2. CASE ~Reconcile
  <2>1. ~Reboot /\ synced /\ owed' = owed
    <3>1. Call \/ RefuseCall \/ Compose \/ Apply \/ AnswerOk \/ Refuse
            => UNCHANGED <<synced, owed>>
      BY DEF Call, RefuseCall, Compose, Apply, AnswerOk, Refuse, hostVars
    <3>2. Change \/ Forward \/ VerdictTaken \/ VerdictLate \/ Lose
            => UNCHANGED <<synced, owed>>
      BY DEF Change, Forward, VerdictTaken, VerdictLate, Lose, hostVars
    <3>3. Skip \/ Timeout \/ HostReads => UNCHANGED <<synced, owed>>
      BY DEF Skip, Timeout, HostReads
    <3>4. ~Reboot
      BY DEF Reboot
    <3> QED
      BY <1>2, <3>1, <3>2, <3>3, <3>4 DEF EPNext
  <2>2. f \in Fields
    BY <2>1 DEF Typed
  <2>3. \A r \in {"begin", "reboot"} : r \in why'[f] => r \in why[f]
    BY <2>1, <2>2, NotStale
  <2>4. CASE why[f] \cap {"begin", "reboot"} = {}
    BY <2>3, <2>4
  <2>5. CASE why[f] \cap {"refused", "lost"} # {}
    <3>1. CASE ~Apply
      BY <2>2, <2>5, <3>1, WhyKept
    <3>2. CASE Apply
      BY <2>2, <2>5, <3>2, AppliedWhy
    <3> QED
      BY <3>1, <3>2
  <2>6. CASE Coming(f)
    <3>1. CASE Coming(f)'
      BY <3>1
    <3>2. CASE (Apply \/ Refuse) /\ f \in Head(todo).also
      <4>1. phase = "ready" /\ f \in Mirrors(DOMAIN cmd)
        BY <3>2, InCommand DEF Apply, Refuse
      <4>2. CASE Apply
        BY <2>2, <4>1, <4>2, AppliedWhy
      <4>3. CASE Refuse
        <5>1. pushing
          BY <2>6 DEF Coming
        <5>2. PICK t : Blame(why, t, "refused") /\ f \in t
          BY <3>2, <4>3, <5>1, RefusedPush
        <5>3. \/ why'[f] = why[f] \cup (IF f \in t THEN {"refused"} ELSE {})
              \/ why'[f] = {}
          BY <2>2, <5>2, NotBlamed
        <5> QED
          BY <5>2, <5>3
      <4> QED
        BY <3>2, <4>2, <4>3
    <3> QED
      BY <2>6, <3>1, <3>2, ComingStep
  <2> QED
    BY <2>1, <2>4, <2>5, <2>6 DEF Pushed
<1> QED
  BY <1>1, <1>2

\* With nothing under way nothing is still to be sent.
LEMMA PushedFollows ==
  ASSUME Pushed
  PROVE  PushedHolds
<1> SUFFICES ASSUME AtRest, synced, NEW f \in owed, why[f] \cap {"refused", "lost"} = {}
             PROVE  why[f] \cap {"begin", "reboot"} = {}
  BY DEF PushedHolds
<1>1. ~Coming(f)
  BY DEF AtRest, Coming
<1> QED
  BY <1>1 DEF Pushed

-----------------------------------------------------------------------------
(* What is reported of a flagged field.                                     *)

\* A report of a flagged field is that of its own attribute, and no handler
\* keeps it out.
LEMMA VouchedReach ==
  ASSUME WellMade, NEW f \in Vouched(C), NEW line \in Lines, Reaches(line, f)
  PROVE  /\ line.t = "urc" /\ line.a = C.shows[f] /\ line.a \in DOMAIN C.hears
         /\ C.hears[line.a] = f /\ line.a \notin C.vetoes /\ f \in Heard(C)
         /\ Straight(C, line.a)
<1>1. line.t = "urc" /\ line.a \in DOMAIN C.hears /\ C.hears[line.a] = f
  BY DEF Reaches, Lines
<1>2. line.a \notin C.vetoes /\ Straight(C, line.a)
  BY <1>1 DEF WellMade, FlagsWell
<1> QED
  BY <1>1, <1>2 DEF Straight, Heard

\* A flagged field is one of the class.
LEMMA VouchedField ==
  ASSUME WellMade, NEW f \in Vouched(C)
  PROVE  /\ f \in Fields /\ f \in C.flagged /\ f \notin C.noted /\ f \notin C.sticks
         /\ C.shows[f] \in DOMAIN C.fresh
<1>1. f \in C.flagged /\ f \notin C.noted /\ f \notin C.sticks
  BY DEF Vouched
<1>2. f \in Fields
  BY <1>1 DEF WellMade, WellTyped, Fields
<1> QED
  BY <1>1, <1>2, Made

\* Whatever the field holds, the reports still to be read count.
LEMMA LeadsAnyway ==
  ASSUME NEW w, NEW f, NEW old, NEW now, NEW v, Leads(w, f, old, v),
         \E i \in DOMAIN w : Reaches(w[i], f)
  PROVE  Leads(w, f, now, v)
  BY DEF Leads

\* What a verdict or a report changes for a field that is reported.
LEMMA VerdictSilent ==
  ASSUME WellMade, Typed, verdict \in C.forwards, NEW f \in Fields,
         dev' = Updated(dev, verdict.w), wire' = wire \o Echo(verdict.w)
  PROVE  /\ wire' = wire
         /\ f \notin DOMAIN verdict.to => dev'[C.shows[f]] = dev[C.shows[f]]
         /\ f \in DOMAIN verdict.to => dev'[C.shows[f]] = verdict.to[f]
         /\ f \in Heard(C) => f \notin DOMAIN verdict.to
<1>0. wire \in Seq(Lines) /\ dev \in [DOMAIN C.fresh -> Value]
  BY DEF Typed
<1>1. /\ DOMAIN verdict.w \cap DOMAIN C.hears = {}
      /\ Showing(C, DOMAIN verdict.w) = DOMAIN verdict.to
      /\ DOMAIN verdict.to \cap Heard(C) = {}
      /\ \A g \in DOMAIN verdict.to : verdict.w[C.shows[g]] = verdict.to[g]
  BY DEF WellMade, ForwardsWell
<1>2. wire' = wire
  BY <1>0, <1>1, EchoNothing
<1>3. C.shows[f] \in DOMAIN dev /\ (C.shows[f] \in DOMAIN verdict.w <=> f \in DOMAIN verdict.to)
  BY <1>0, <1>1, Made DEF Showing
<1> QED
  BY <1>1, <1>2, <1>3 DEF Updated

\* Every step keeps the reports of a flagged field up to date.
LEMMA ReportedStep ==
  ASSUME WellMade, Typed, InFlight, EPNext, C' = C, Typed', Reported
  PROVE  Reported'
<1> SUFFICES ASSUME NEW f \in Vouched(C), NEW i \in DOMAIN wire', Reaches(wire'[i], f)
             PROVE  Tracks(f)'
  <2>1. Vouched(C)' = Vouched(C)
    BY DEF Vouched
  <2>2. \A g, k : Reaches(wire[k], g)' <=> Reaches(wire'[k], g)
    BY DEF Reaches
  <2> QED
    BY <2>1, <2>2 DEF Reported
<1>0. /\ wire \in Seq(Lines) /\ cache \in [Fields -> Value] /\ todo \in Seq(Writes(C))
      /\ dev \in [DOMAIN C.fresh -> Value] /\ verdict \in C.forwards \cup {None}
      /\ Commanded /\ f \in Fields /\ C.shows[f] \in DOMAIN C.fresh
  BY VouchedField DEF Typed, InFlight
<1>1. wire' \in Seq(Lines)
  BY DEF Typed, Lines
<1>2. wire'[i] \in Lines
  BY <1>1, ElementTyped
<1>3. C.shows[f] \in DOMAIN C.hears /\ C.hears[C.shows[f]] = f /\ f \in Heard(C)
  BY <1>2, VouchedReach
<1>4. ASSUME \E k \in DOMAIN wire : Reaches(wire[k], f) PROVE Tracks(f)
  BY <1>4 DEF Reported
<1>5. CASE wire' = wire /\ dev'[C.shows[f]] = dev[C.shows[f]]
  <2>1. Leads(wire, f, cache[f], dev[C.shows[f]])
    BY <1>4, <1>5 DEF Tracks
  <2>2. Leads(wire, f, cache'[f], dev[C.shows[f]])
    BY <1>5, <2>1, LeadsAnyway
  <2> QED
    BY <1>5, <2>2, TracksNext
<1>6. CASE HostReads \/ Lose
  <2>1. wire # <<>> /\ wire' = Tail(wire) /\ dev' = dev
    BY <1>6 DEF HostReads, Lose
  <2>2. i + 1 \in DOMAIN wire /\ wire'[i] = wire[i + 1]
    BY <1>0, <2>1, TailTyped
  <2>3. Leads(wire, f, cache[f], dev[C.shows[f]])
    BY <1>4, <2>2 DEF Tracks
  <2>4. Leads(wire', f, cache[f], dev[C.shows[f]])
    BY <1>0, <2>1, <2>3, LeadsLost
  <2>5. Leads(wire', f, cache'[f], dev[C.shows[f]])
    BY <2>4, LeadsAnyway
  <2> QED
    BY <2>1, <2>5, TracksNext
<1>7. ASSUME NEW x \in Lines, x.t # "urc", wire' = Append(wire, x), UNCHANGED <<cache, dev>>
      PROVE  Tracks(f)'
  <2>1. i \in DOMAIN wire /\ wire'[i] = wire[i]
    BY <1>0, <1>7, AppendedAt DEF Reaches
  <2>2. Tracks(f)
    BY <1>4, <2>1
  <2> QED
    BY <1>0, <1>7, <2>2, TracksAppended
<1>8. CASE AnswerOk \/ Refuse
  <2>1. \A ok \in BOOLEAN : End(ok) \in Lines /\ End(ok).t # "urc"
    BY DEF End, Lines
  <2>2. \E ok \in BOOLEAN : wire' = Append(wire, End(ok))
    BY <1>8 DEF AnswerOk, Refuse
  <2>3. UNCHANGED <<cache, dev>>
    BY <1>8 DEF AnswerOk, Refuse, hostVars
  <2> QED
    BY <1>7, <2>1, <2>2, <2>3
<1>9. CASE Forward
  <2>1. \A g \in C.forwards : Asks(g) \in Lines /\ Asks(g).t # "urc"
    BY DEF Asks, Lines
  <2>2. \E g \in C.forwards : wire' = Append(wire, Asks(g))
    BY <1>9 DEF Forward
  <2>3. UNCHANGED <<cache, dev>>
    BY <1>9 DEF Forward, hostVars
  <2> QED
    BY <1>7, <2>1, <2>2, <2>3
<1>10. CASE VerdictTaken
  <2>1. /\ verdict \in C.forwards /\ dev' = Updated(dev, verdict.w)
        /\ wire' = wire \o Echo(verdict.w)
    BY <1>0, <1>10 DEF VerdictTaken
  <2>2. wire' = wire /\ dev'[C.shows[f]] = dev[C.shows[f]]
    BY <1>0, <1>3, <2>1, VerdictSilent
  <2> QED
    BY <1>5, <2>2
<1>11. ASSUME NEW e \in Seq(Lines), wire' = wire \o e, cache' = cache,
              \A k \in DOMAIN e : Reaches(e[k], f) => e[k].v = dev'[C.shows[f]],
              \/ dev'[C.shows[f]] = dev[C.shows[f]] /\ \A k \in DOMAIN e : ~Reaches(e[k], f)
              \/ \E k \in DOMAIN e : Reaches(e[k], f)
       PROVE  Tracks(f)'
  <2>1. CASE \E k \in DOMAIN e : Reaches(e[k], f)
    <3>1. Leads(wire', f, cache'[f], dev'[C.shows[f]])
      BY <1>0, <1>11, <2>1, LeadsAdded
    <3> QED
      BY <3>1, TracksNext
  <2>2. CASE /\ dev'[C.shows[f]] = dev[C.shows[f]]
             /\ \A k \in DOMAIN e : ~Reaches(e[k], f)
    <3>1. i \in DOMAIN wire /\ wire'[i] = wire[i]
      BY <1>0, <1>11, <2>2, AddedTyped
    <3>2. Tracks(f)
      BY <1>4, <3>1
    <3> QED
      BY <1>0, <1>11, <2>2, <3>2, TracksAdded
  <2> QED
    BY <1>11, <2>1, <2>2
<1>12. CASE Apply
  <2> DEFINE e == Echo(cmd)
  <2>1. phase = "ready" /\ dev' = Updated(dev, cmd) /\ wire' = wire \o e /\ cache' = cache
    BY <1>12 DEF Apply, hostVars
  <2>2. /\ todo # <<>> /\ cmd \in [Carries(C, Head(todo)) -> Value]
        /\ \A a \in DOMAIN cmd \cap DOMAIN C.hears : cmd[a] \in Bit
    BY <1>0, <2>1 DEF Commanded
  <2>3. e \in Seq(Lines)
    BY <2>2, EchoLines
  <2>4. /\ \A k \in DOMAIN e : Reaches(e[k], f) =>
                \E a \in DOMAIN cmd \cap DOMAIN C.hears : C.hears[a] = f /\ e[k].v = cmd[a]
        /\ \A a \in DOMAIN cmd \cap DOMAIN C.hears : \E k \in DOMAIN e : Reaches(e[k], C.hears[a])
    BY <2>2, EchoSays
  <2> HIDE DEF e
  <2>5. \A a \in DOMAIN C.hears : C.hears[a] = f => a = C.shows[f]
    BY DEF WellMade, FlagsWell, Straight
  <2>6. CASE C.shows[f] \in DOMAIN cmd
    <3>1. dev'[C.shows[f]] = cmd[C.shows[f]]
      BY <1>0, <2>1, <2>6 DEF Updated
    <3>2. \E k \in DOMAIN e : Reaches(e[k], f)
      BY <1>3, <2>4, <2>6
    <3>3. \A k \in DOMAIN e : Reaches(e[k], f) => e[k].v = dev'[C.shows[f]]
      BY <2>4, <2>5, <3>1
    <3> QED
      BY <1>11, <2>1, <2>3, <3>2, <3>3
  <2>7. CASE C.shows[f] \notin DOMAIN cmd
    <3>1. dev'[C.shows[f]] = dev[C.shows[f]]
      BY <1>0, <2>1, <2>7 DEF Updated
    <3>2. \A k \in DOMAIN e : ~Reaches(e[k], f)
      BY <2>4, <2>5, <2>7
    <3> QED
      BY <1>11, <2>1, <2>3, <3>1, <3>2
  <2> QED
    BY <2>6, <2>7
<1>13. CASE Change
  <2>1. PICK a \in C.changes, v \in Bit, e \in Seq(Lines) :
           /\ a \in DOMAIN C.fresh /\ dev' = [dev EXCEPT ![a] = v] /\ wire' = wire \o e
           /\ \A k \in DOMAIN e : e[k].t = "urc" /\ e[k].a = a /\ a \in DOMAIN C.hears /\ e[k].v = v
           /\ a \in DOMAIN C.hears =>
                /\ Straight(C, a)
                /\ \E k \in DOMAIN e : Reaches(e[k], C.hears[a])
    BY <1>13, Changed
  <2>2. cache' = cache
    BY <1>13 DEF Change, hostVars
  <2>3. CASE C.shows[f] = a
    <3>1. dev'[C.shows[f]] = v
      BY <1>0, <2>1, <2>3
    <3>2. \E k \in DOMAIN e : Reaches(e[k], f)
      BY <1>3, <2>1, <2>3
    <3> QED
      BY <1>11, <2>1, <2>2, <3>1, <3>2
  <2>4. CASE C.shows[f] # a
    <3>1. dev'[C.shows[f]] = dev[C.shows[f]]
      BY <1>0, <2>1, <2>4
    <3>2. \A k \in DOMAIN e : ~Reaches(e[k], f)
      BY <2>1, <2>4 DEF Reaches, Straight
    <3> QED
      BY <1>11, <2>1, <2>2, <3>1, <3>2
  <2> QED
    BY <2>3, <2>4
<1>14. CASE Call \/ Reconcile \/ Skip \/ RefuseCall \/ Compose
  BY <1>5, <1>14 DEF Call, Reconcile, Skip, RefuseCall, Compose
<1>15. CASE Timeout \/ VerdictLate
  BY <1>5, <1>15 DEF Timeout, VerdictLate
<1>16. ~Reboot
  <2> SUFFICES ASSUME wire' = <<>> PROVE FALSE
    BY DEF Reboot
  <2> QED
    OBVIOUS
<1> QED
  BY <1>6, <1>8, <1>9, <1>10, <1>12, <1>13, <1>14, <1>15, <1>16 DEF EPNext

-----------------------------------------------------------------------------
(* What was written can be sent again.                                      *)

\* A field that is sent again is neither heard of nor forgotten.
LEMMA ResentField ==
  ASSUME WellMade, NEW f \in Resent(C)
  PROVE  /\ f \in Vouched(C) /\ f \in Fields
         /\ f \notin C.noted /\ f \notin C.forgets
         /\ f \notin C.marks
         /\ \A g \in C.forwards : f \notin DOMAIN g.to
<1>1. f \in Vouched(C) /\ f \notin C.forgets /\ C.shows[f] \notin C.keeps
  BY DEF Resent
<1>2. f \in C.flagged /\ f \notin C.noted /\ f \notin C.sticks /\ f \in Fields
  BY <1>1, VouchedField
<1>3. f \notin C.marks
  BY <1>1, <1>2 DEF WellMade, FlagsWell
<1>4. \A g \in C.forwards : f \notin DOMAIN g.to
  BY <1>1, <1>2 DEF WellMade, ForwardsWell
<1> QED
  BY <1>1, <1>2, <1>3, <1>4

\* A field that is sent again is flagged when its own write is answered.
LEMMA ResentRaised ==
  ASSUME WellMade, Typed, InFlight, EPNext, NEW f \in Resent(C), f \in wrote', f \notin wrote
  PROVE  ReadOk /\ f \in DOMAIN Head(todo).to /\ todo # <<>> /\ ~pushing
<1>1. wire \in Seq(Lines) /\ OneEnd /\ Commanded
  BY DEF Typed, InFlight
<1>2. ~ReadAllowed \/ f \notin DOMAIN Head(wire).v.to
  <2>1. ReadAllowed => wire # <<>> /\ Head(wire).t = "cmd"
    BY DEF ReadAllowed, Reads
  <2>2. wire # <<>> => Head(wire) \in Lines
    BY <1>1, TailTyped
  <2>3. ReadAllowed => Head(wire).v \in C.forwards
    BY <2>1, <2>2 DEF Lines
  <2> QED
    BY <2>3, ResentField
<1>3. ReadOk /\ f \in DOMAIN Head(todo).to
  BY <1>2, Raised, ResentField
<1>4. wire # <<>> /\ Head(wire).t = "end"
  BY <1>3 DEF ReadOk, Reads
<1>5. phase = "answered" /\ todo # <<>>
  BY <1>1, <1>4, TailTyped DEF OneEnd, Commanded
<1>6. ~pushing
  BY <1>3, <1>5, Sent
<1> QED
  BY <1>3, <1>5, <1>6

\* What hearthOnReconciled() sends of a flagged field has its values.
LEMMA FlaggedDue ==
  ASSUME WellMade, Typed, InFlight, EPNext, C' = C, Sendable,
         NEW f \in wrote' \cap Resent(C), NEW p \in ToSet(C.push), f \in p.also
  PROVE  Due(p)'
<1>0. /\ \A h \in wrote \cap Resent(C), q \in ToSet(C.push) : h \in q.also => Due(q)
      /\ ~pushing => \A i \in DOMAIN todo : \A h \in DOMAIN todo[i].to \cap Resent(C) :
           \A q \in ToSet(C.push) : h \in q.also => \A g \in q.also : cache[g] # Null
  BY DEF Sendable
<1>1. p \in Writes(C) /\ p.also \subseteq Fields
  BY Made
<1>2. \A g \in p.also : g \in C.ifWritten => g = f
  BY DEF WellMade, BesideWell
<1>3. \A g \in p.also : cache[g] # Null
  <2>1. CASE f \in wrote
    BY <1>0, <2>1 DEF Due
  <2>2. CASE f \notin wrote
    <3>1. f \in DOMAIN Head(todo).to /\ todo # <<>> /\ ~pushing
      BY <2>2, ResentRaised
    <3>2. 1 \in DOMAIN todo /\ Head(todo) = todo[1]
      BY <3>1, TailTyped DEF Typed
    <3> QED
      BY <1>0, <3>1, <3>2
  <2> QED
    BY <2>1, <2>2
<1>4. \A g \in p.also : cache'[g] # Null
  BY <1>1, <1>3, CacheHolds
<1> QED
  BY <1>2, <1>4 DEF Due

\* A setter of the utility meter makes sure of its threshold first.
LEMMA CallHolds ==
  ASSUME WellMade, Typed, Call, NEW i \in DOMAIN todo',
         NEW f \in DOMAIN todo'[i].to \cap Resent(C), NEW p \in ToSet(C.push), f \in p.also,
         NEW g \in p.also
  PROVE  cache[g] # Null
<1>1. PICK s \in C.calls : Permits(kind, Merged(s), cache, wrote) /\ todo' = s
  BY DEF Call
<1>2. g \in Seeded(C) \/ (kind = "ElectricalUtilityMeter" /\ g = "threshold")
  BY DEF WellMade, BesideWell
<1>3. CASE g \in Seeded(C)
  BY <1>3 DEF Typed
<1>4. CASE kind = "ElectricalUtilityMeter" /\ g = "threshold"
  <2>1. todo'[i] \in ToSet(s)
    BY <1>1 DEF ToSet
  <2>2. \A q \in ToSet(s) : "threshold" \notin DOMAIN q.to
    BY <1>1, <1>4, <2>1 DEF WellMade, BesideWell
  <2>3. "threshold" \notin DOMAIN Merged(s)
    BY <2>2 DEF Merged, Sets
  <2>4. cache.threshold # Null
    BY <1>1, <1>4, <2>3 DEF Permits
  <2> QED
    BY <1>4, <2>4
<1> QED
  BY <1>2, <1>3, <1>4

\* Every step keeps what was written fit to be sent again.
LEMMA SendableStep ==
  ASSUME WellMade, Typed, InFlight, EPNext, C' = C, Sendable
  PROVE  Sendable'
<1>0. /\ todo \in Seq(Writes(C)) /\ Pushes
      /\ ~pushing => \A i \in DOMAIN todo : \A h \in DOMAIN todo[i].to \cap Resent(C) :
           \A q \in ToSet(C.push) : h \in q.also => \A g \in q.also : cache[g] # Null
  BY DEF Sendable, Typed, InFlight
<1>1. \A p \in ToSet(C.push) : p.also \subseteq Fields
  BY Made
<1>2. ASSUME ~pushing', NEW i \in DOMAIN todo', NEW f \in DOMAIN todo'[i].to \cap Resent(C),
             NEW p \in ToSet(C.push), f \in p.also, NEW g \in p.also
      PROVE  cache'[g] # Null
  <2>1. cache[g] # Null => cache'[g] # Null
    BY <1>1, CacheHolds
  <2>2. CASE UNCHANGED <<todo, pushing>>
    BY <1>0, <1>2, <2>1, <2>2
  <2>3. CASE Call
    BY <1>2, <2>1, <2>3, CallHolds
  <2>4. CASE Reconcile
    <3>1. todo' = C.push /\ (pushing' <=> C.push # <<>>)
      BY <2>4, Zenon DEF Reconcile
    <3>2. todo' = <<>>
      BY <1>2, <3>1
    <3> QED
      BY <1>2, <3>2
  <2>5. CASE MoveOn /\ (Skip \/ RefuseCall \/ ReadOk \/ ReadError \/ Timeout)
    <3>1. todo' = Tail(todo) /\ pushing' = (pushing /\ Len(todo) > 1)
      BY <2>5 DEF MoveOn
    <3>2. todo # <<>>
      <4>1. Skip \/ RefuseCall => todo # <<>>
        BY DEF Skip, RefuseCall
      <4>2. Timeout => phase # "idle"
        BY DEF Timeout
      <4>3. ReadOk \/ ReadError => phase # "idle"
        <5>1. ReadOk \/ ReadError => wire # <<>> /\ Head(wire).t = "end"
          BY DEF ReadOk, ReadError, Reads
        <5>2. wire # <<>> => 1 \in DOMAIN wire /\ Head(wire) = wire[1]
          BY TailTyped DEF Typed
        <5> QED
          BY <5>1, <5>2 DEF InFlight, OneEnd
      <4>4. phase # "idle" => todo # <<>>
        BY DEF InFlight, Commanded
      <4> QED
        BY <2>5, <4>1, <4>2, <4>3, <4>4
    <3>3. i + 1 \in DOMAIN todo /\ todo'[i] = todo[i + 1] /\ Len(todo) > 1
      BY <1>0, <1>2, <3>1, <3>2, TailTyped
    <3>4. ~pushing
      BY <1>2, <3>1, <3>3
    <3> QED
      BY <1>0, <1>2, <2>1, <3>3, <3>4
  <2> QED
    BY <2>2, <2>3, <2>4, <2>5, TodoStep
<1>3. \A f \in wrote' \cap Resent(C), p \in ToSet(C.push) : f \in p.also =>
        \A g \in p.also : cache'[g] # Null /\ (g \in C.ifWritten => g \in wrote')
  BY FlaggedDue DEF Due
<1>4. Resent(C)' = Resent(C) /\ ToSet(C.push)' = ToSet(C.push)
  BY DEF Resent, Vouched
<1> QED
  BY <1>2, <1>3, <1>4 DEF Sendable, Due

-----------------------------------------------------------------------------
(* The flags.                                                               *)

\* An id is not given back.
LEMMA KnownKept ==
  ASSUME EPNext, known
  PROVE  known'
<1>1. Call \/ RefuseCall \/ Compose \/ Apply \/ AnswerOk \/ Refuse => known' = known
  BY DEF Call, RefuseCall, Compose, Apply, AnswerOk, Refuse, hostVars
<1>2. Change \/ Forward \/ VerdictTaken \/ VerdictLate \/ Lose => known' = known
  BY DEF Change, Forward, VerdictTaken, VerdictLate, Lose, hostVars
<1>3. Skip \/ Timeout \/ Reboot \/ HostReads => known' = known
  BY DEF Skip, Timeout, Reboot, HostReads
<1>4. Reconcile => known'
  BY DEF Reconcile
<1> QED
  BY <1>1, <1>2, <1>3, <1>4 DEF EPNext

\* The answer that is read is that of the command in flight.
LEMMA AnswerRead ==
  ASSUME WellMade, Typed, InFlight, ReadOk \/ ReadError
  PROVE  /\ phase = "answered" /\ todo # <<>> /\ known /\ Head(todo) \in Writes(C)
         /\ ReadOk => Done
<1>0. wire \in Seq(Lines) /\ todo \in Seq(Writes(C)) /\ OneEnd /\ Commanded
  BY DEF Typed, InFlight
<1>1. wire # <<>> /\ Head(wire).t = "end" /\ (ReadOk => Head(wire).v)
  BY DEF ReadOk, ReadError, Reads
<1>2. 1 \in DOMAIN wire /\ Head(wire) = wire[1] /\ Head(wire) \in Lines
  BY <1>0, <1>1, TailTyped
<1>3. phase = "answered"
  BY <1>0, <1>1, <1>2 DEF OneEnd
<1>4. todo # <<>> /\ known
  BY <1>0, <1>3 DEF Commanded
<1>5. ReadOk => Head(wire).v = TRUE
  BY <1>1, <1>2 DEF Lines
<1>6. ReadOk => Done
  BY <1>1, <1>2, <1>5 DEF Done, Ended
<1> QED
  BY <1>0, <1>3, <1>4, <1>6, TailTyped

\* No flag before the endpoint has its id.
LEMMA AdoptedStep ==
  ASSUME WellMade, Typed, InFlight, EPNext, C' = C, Adopted
  PROVE  Adopted'
<1> SUFFICES ASSUME NEW f \in wrote', f \notin C.noted PROVE known'
  BY DEF Adopted
<1>1. CASE f \in wrote
  BY <1>1, KnownKept DEF Adopted
<1>2. CASE f \notin wrote
  <2>1. ReadOk \/ ReadTaken \/ ReadAllowed
    BY <1>2, Raised
  <2>2. known
    BY <2>1, AnswerRead DEF ReadTaken, ReadAllowed
  <2> QED
    BY <2>2, KnownKept
<1> QED
  BY <1>1, <1>2

\* Where a field comes to differ unheard.
LEMMA Unheard ==
  ASSUME Typed, InFlight, EPNext, ~Apply, NEW f \in Fields,
         "unheard" \in why'[f], "unheard" \notin why[f]
  PROVE  \/ ReadKept /\ ~known
         \/ Change /\ \E a \in C.changes :
              f \in Mirrors({a}) /\ f \notin HeardIn({a}) /\ f \notin Sets(todo)
<1> DEFINE Goal == "unheard" \notin why'[f]
<1>1. why' = why => Goal
  OBVIOUS
<1>2. ASSUME NEW t, NEW s, s # "unheard" \/ f \notin t, Blame(why, t, s) PROVE Goal
  BY <1>2, NotBlamed
<1> HIDE DEF Goal
<1>3. Settle => Goal
  BY <1>2 DEF Settle
<1>4. Call \/ Reconcile \/ Compose \/ AnswerOk \/ Forward => Goal
  BY <1>1 DEF Call, Reconcile, Compose, AnswerOk, Forward
<1>5. Skip \/ RefuseCall \/ Timeout => Goal
  BY <1>3 DEF Skip, RefuseCall, Timeout
<1>6. HostReads => Goal \/ (ReadKept /\ ~known)
  <2>1. HostReads => ReadStep
    BY HostReading
  <2>2. ReadTaken \/ ReadDenied \/ ReadOk \/ ReadError => Goal
    BY <1>3 DEF ReadTaken, ReadDenied, ReadOk, ReadError
  <2>3. ReadKept /\ known => Goal
    BY <1>2 DEF ReadKept
  <2>4. ReadAllowed => Goal
    BY <1>2 DEF ReadAllowed
  <2> QED
    BY <2>1, <2>2, <2>3, <2>4 DEF ReadStep
<1>7. Refuse \/ VerdictTaken \/ VerdictLate \/ Lose => Goal
  BY <1>2 DEF Refuse, VerdictTaken, VerdictLate, Lose
<1>8. CASE Change
  <2>1. PICK a \in C.changes :
           IF Mirrors({a}) \cap Sets(todo) # {}
             THEN Blame(why, Mirrors({a}), "crossed")
             ELSE Blame(why, Mirrors({a}) \ HeardIn({a}), "unheard")
    BY <1>8 DEF Change
  <2>2. CASE Mirrors({a}) \cap Sets(todo) # {}
    BY <1>2, <2>1, <2>2 DEF Goal
  <2>3. CASE Mirrors({a}) \cap Sets(todo) = {}
    <3> DEFINE t == Mirrors({a}) \ HeardIn({a})
    <3>1. Blame(why, t, "unheard")
      BY <2>1, <2>3
    <3>2. f \in t
      <4> HIDE DEF t
      <4> QED
        BY <1>2, <3>1 DEF Goal
    <3> QED
      BY <1>8, <2>3, <3>2
  <2> QED
    BY <2>2, <2>3
<1>9. Reboot => Goal
  <2> SUFFICES ASSUME Reboot PROVE Goal
    OBVIOUS
  <2> DEFINE base == [g \in Fields |->
                        why[g] \cup (IF g \in Mirrors(DOMAIN cmd) THEN {"lost"} ELSE {})]
             touched == Mirrors(DOMAIN dev \ C.keeps)
  <2>1. Blame(base, touched, "reboot")
    BY DEF Reboot
  <2>2. "unheard" \notin base[f]
    OBVIOUS
  <2> HIDE DEF base, touched
  <2> QED
    BY <2>1, <2>2, NotBlamed DEF Goal
<1> QED
  BY <1>4, <1>5, <1>6, <1>7, <1>8, <1>9 DEF EPNext, Goal

\* What a command put into a flagged field is not stale.
LEMMA LandingStep ==
  ASSUME WellMade, Typed, InFlight, EPNext, C' = C, Landing
  PROVE  Landing'
<1> SUFFICES ASSUME Done', NEW f \in Vouched(C), f \in DOMAIN Head(todo').to,
                    Stale(f)'
             PROVE  Spoilt(f)'
  <2>1. Vouched(C)' = Vouched(C)
    BY DEF Vouched
  <2> QED
    BY <2>1 DEF Landing
<1>1. /\ phase # "idle" /\ phase' # "idle" /\ todo' = todo /\ known
      /\ Done \/ Apply
      /\ Done => ~Apply
      /\ ~Reboot
  BY DoneStep
<1>2. f \in Fields /\ f \in C.flagged
  BY VouchedField
<1>3. /\ f \in Sets(todo)
      /\ Following \/ f \in Mirrors(DOMAIN cmd)
  BY <1>1, Sent
<1>4. ~Following
  BY <1>1, <1>2, Followers
<1>5. CASE Apply
  <2>1. why'[f] = {}
    BY <1>1, <1>2, <1>3, <1>4, <1>5, AppliedWhy
  <2> QED
    BY <2>1 DEF Stale
<1>6. CASE ~Apply
  <2>1. Spoilt(f) \/ ~Stale(f)
    BY <1>1, <1>6 DEF Landing
  <2>2. CASE Spoilt(f)
    <3>1. why[f] \subseteq why'[f]
      BY <1>1, <1>2, <1>6, WhyKept DEF AtRest
    <3> QED
      BY <2>2, <3>1 DEF Spoilt
  <2>3. CASE ~Stale(f)
    <3>1. \A r \in {"begin", "reboot"} : r \notin why'[f]
      BY <1>1, <1>2, <2>3, NotStale DEF Stale
    <3>2. "unheard" \notin why'[f]
      BY <1>1, <1>2, <1>3, <1>6, <2>3, Unheard DEF Stale
    <3> QED
      BY <3>1, <3>2 DEF Stale
  <2> QED
    BY <2>1, <2>2, <2>3
<1> QED
  BY <1>5, <1>6

\* A command that carries a flagged field settles it.
LEMMA AppliedVouched ==
  ASSUME WellMade, Typed, InFlight, Apply, NEW f \in Vouched(C),
         f \in Mirrors(DOMAIN cmd)
  PROVE  why'[f] = {}
<1>1. /\ todo \in Seq(Writes(C)) /\ todo # <<>> /\ DOMAIN cmd = Carries(C, Head(todo))
  BY DEF Apply, Typed, InFlight, Commanded
<1>2. Head(todo) \in Writes(C)
  BY <1>1, TailTyped
<1>3. f \in DOMAIN Head(todo).to \cup Head(todo).also
  BY <1>1, <1>2 DEF WellMade, FlagsWell, Mirrors
<1> QED
  BY <1>3, AppliedWhy, VouchedField

\* A spoilt field stays spoilt, or is settled.
LEMMA SpoiltStep ==
  ASSUME WellMade, Typed, InFlight, EPNext, NEW f \in Vouched(C), Spoilt(f)
  PROVE  Spoilt(f)' \/ ~Stale(f)'
<1>0. f \in Fields
  BY VouchedField
<1>1. why[f] \subseteq why'[f] => Spoilt(f)'
  BY DEF Spoilt
<1>2. why'[f] = {} => ~Stale(f)'
  BY DEF Stale
<1>3. CASE ~Apply
  BY <1>0, <1>1, <1>2, <1>3, WhyKept
<1>4. CASE Apply /\ f \in Mirrors(DOMAIN cmd)
  BY <1>2, <1>4, AppliedVouched
<1>5. CASE Apply /\ f \notin Mirrors(DOMAIN cmd)
  BY <1>0, <1>1, <1>5, AppliedWhy
<1> QED
  BY <1>3, <1>4, <1>5

\* A field the co-processor holds is not lost sight of.
LEMMA FreshStep ==
  ASSUME WellMade, Typed, InFlight, EPNext, ~Reboot, NEW f \in Vouched(C), known,
         ~Stale(f)
  PROVE  ~Stale(f)'
<1>0. f \in Fields
  BY VouchedField
<1>1. \A r \in {"begin", "reboot"} : r \notin why'[f]
  BY <1>0, NotStale DEF Stale
<1>2. CASE Apply /\ f \in Mirrors(DOMAIN cmd)
  BY <1>2, AppliedVouched DEF Stale
<1>3. CASE Apply /\ f \notin Mirrors(DOMAIN cmd)
  BY <1>0, <1>3, AppliedWhy DEF Stale
<1>4. CASE ~Apply
  <2>1. \A a \in C.changes : f \in Mirrors({a}) => f \in HeardIn({a})
    <3> SUFFICES ASSUME NEW a \in C.changes, f \in Mirrors({a}) PROVE f \in HeardIn({a})
      OBVIOUS
    <3>1. C.shows[f] = a
      BY DEF Mirrors
    <3>2. f \in Heard(C) /\ \A b \in DOMAIN C.hears : C.hears[b] = f => b = a
      BY <3>1 DEF WellMade, FlagsWell, Straight
    <3>3. a \in DOMAIN C.hears /\ C.hears[a] = f
      BY <3>2 DEF Heard
    <3> QED
      BY <3>3 DEF HeardIn
  <2>2. "unheard" \notin why'[f]
    BY <1>0, <1>4, <2>1, Unheard DEF Stale
  <2> QED
    BY <1>1, <2>2 DEF Stale
<1> QED
  BY <1>2, <1>3, <1>4

\* A blamed field is spoilt from then on, or agrees.
LEMMA Spoils ==
  ASSUME NEW t, NEW r \in {"refused", "lost", "late", "crossed"}, Blame(why, t, r),
         NEW f \in Fields, f \in t
  PROVE  Spoilt(f)' \/ ~Stale(f)'
<1>1. r \in why'[f] \/ why'[f] = {}
  BY NotBlamed
<1> QED
  BY <1>1 DEF Spoilt, Stale

\* The OK of a write leaves its fields as the co-processor holds them.
LEMMA LandedBacked ==
  ASSUME WellMade, Typed, InFlight, ReadOk, Landing,
         NEW f \in Vouched(C), f \in DOMAIN Head(todo).to
  PROVE  Backed(f)'
<1>0. f \in Fields /\ Done
  BY VouchedField, AnswerRead
<1>1. Spoilt(f) \/ ~Stale(f)
  BY <1>0 DEF Landing
<1>2. Blame(why, {}, "lost")
  BY DEF ReadOk, Settle
<1>3. why'[f] = why[f] \/ why'[f] = {}
  <2> DEFINE t == {}
  <2>1. Blame(why, t, "lost") /\ f \notin t
    BY <1>2
  <2> HIDE DEF t
  <2>2. \/ why'[f] = why[f] \cup (IF f \in t THEN {"lost"} ELSE {})
        \/ why'[f] = {}
    BY <1>0, <2>1, NotBlamed
  <2>3. why[f] \cup {} = why[f]
    OBVIOUS
  <2> QED
    BY <2>1, <2>2, <2>3
<1>4. Spoilt(f)' \/ ~Stale(f)'
  BY <1>1, <1>3 DEF Spoilt, Stale
<1> QED
  BY <1>4 DEF Backed

\* A flag goes up with the value it speaks of.
LEMMA RaisedBacked ==
  ASSUME WellMade, Typed, InFlight, EPNext, C' = C, Reported, Landing,
         NEW f \in Vouched(C), f \in wrote', f \notin wrote
  PROVE  Backed(f)'
<1>0. wire \in Seq(Lines) /\ f \in Fields /\ f \notin C.noted
  BY VouchedField DEF Typed
<1>1. CASE ReadTaken /\ f = C.hears[Head(wire).a]
  <2>1. /\ wire # <<>> /\ Head(wire).t = "urc" /\ wire' = Tail(wire) /\ dev' = dev
        /\ cache' = [cache EXCEPT ![C.hears[Head(wire).a]] = Head(wire).v]
    BY <1>1 DEF ReadTaken, Reads
  <2>2. 1 \in DOMAIN wire /\ Head(wire) = wire[1] /\ Reaches(Head(wire), f)
    BY <1>0, <1>1, <2>1, TailTyped DEF Reaches
  <2>3. Tracks(f)
    BY <2>2 DEF Reported
  <2>4. cache'[f] = Head(wire).v
    BY <1>0, <1>1, <2>1 DEF Typed
  <2>5. Tracks(f)'
    BY <1>0, <2>1, <2>2, <2>3, <2>4, TracksRead
  <2> QED
    BY <2>5 DEF Backed
<1>2. CASE ReadAllowed /\ f \in DOMAIN Head(wire).v.to
  BY <1>2 DEF ReadAllowed, Backed
<1>3. CASE ReadOk /\ f \in DOMAIN Head(todo).to
  BY <1>3, LandedBacked
<1> QED
  BY <1>0, <1>1, <1>2, <1>3, Raised

\* At the end of a reconcile a flag is down, or its field is sent again.
LEMMA ReconcileBacked ==
  ASSUME WellMade, Typed, InFlight, EPNext, C' = C, Flagging, Sendable,
         NEW f \in Vouched(C), f \in wrote', f \in wrote, Reconcile
  PROVE  Backed(f)'
<1>0. /\ todo = <<>> /\ (pushing' <=> C.push # <<>>)
      /\ wrote' = (IF C.push = <<>> THEN wrote \ C.forgets ELSE wrote)
      /\ UNCHANGED <<cache, dev, wire, verdict, why>>
      /\ owed' = UNION {p.also : p \in {q \in ToSet(C.push) : Due(q)}}
  BY Zenon DEF Reconcile
<1>1. CASE f \in C.forgets
  <2>1. pushing'
    BY <1>0, <1>1
  <2> QED
    BY <1>1, <2>1 DEF Backed
<1>2. CASE f \in Resent(C)
  <2>1. PICK p \in ToSet(C.push) : f \in p.also
    BY <1>2 DEF WellMade, FlagsWell
  <2>2. Due(p)
    BY <1>2, <2>1 DEF Sendable
  <2>3. f \in owed'
    BY <1>0, <2>1, <2>2
  <2>4. Coming(f)'
    BY <2>3, PushBegins
  <2> QED
    BY <2>4 DEF Backed
<1>3. CASE f \notin C.forgets /\ C.shows[f] \in C.keeps
  <2>1. ~Coming(f)
    BY <1>0 DEF Coming
  <2>2. Spoilt(f) \/ ~Stale(f) \/ f \in DOMAIN verdict.to \/ Tracks(f)
    BY <1>3, <2>1 DEF Flagging, Backed
  <2>3. Spoilt(f) \/ ~Stale(f) => Spoilt(f)' \/ ~Stale(f)'
    BY <1>0 DEF Spoilt, Stale
  <2>4. Tracks(f) => Tracks(f)'
    BY <1>0, TracksKept
  <2> QED
    BY <1>0, <2>2, <2>3, <2>4 DEF Backed
<1> QED
  BY <1>1, <1>2, <1>3 DEF Resent

\* A flag that outlives the endpoint speaks of an attribute that does too.
LEMMA RebootBacked ==
  ASSUME WellMade, Typed, InFlight, EPNext, C' = C, Flagging,
         NEW f \in Vouched(C), f \in wrote, C.shows[f] \in C.keeps, Reboot
  PROVE  Backed(f)'
<1>0. /\ wire \in Seq(Lines) /\ f \in Fields /\ verdict \in C.forwards \cup {None}
      /\ C.shows[f] \in DOMAIN dev /\ dev \in [DOMAIN C.fresh -> Value]
  BY VouchedField DEF Typed
<1>1. /\ cache' = cache /\ wire' = <<>> /\ pushing' = pushing
      /\ dev' = [a \in DOMAIN dev |-> IF a \in C.keeps THEN dev[a] ELSE C.fresh[a]]
      /\ phase' = IF phase = "applied" THEN "answered" ELSE phase
  BY DEF Reboot
<1>2. CASE Spoilt(f)
  BY <1>2, SpoiltStep DEF Backed
<1>3. CASE ~Stale(f)
  <2> DEFINE base == [g \in Fields |->
                        why[g] \cup (IF g \in Mirrors(DOMAIN cmd) THEN {"lost"} ELSE {})]
             touched == Mirrors(DOMAIN dev \ C.keeps)
  <2>1. Blame(base, touched, "reboot") /\ base[f] \subseteq why[f] \cup {"lost"}
    BY <1>0 DEF Reboot
  <2>2. f \notin touched
    BY DEF Mirrors
  <2> HIDE DEF base, touched
  <2>3. why'[f] \subseteq why[f] \cup {"lost"}
    BY <1>0, <2>1, <2>2, NotBlamed
  <2> QED
    BY <1>3, <2>3 DEF Backed, Stale
<1>4. CASE Coming(f)
  <2>1. ~Apply /\ ~Refuse
    BY <1>1 DEF Apply, Refuse
  <2> QED
    BY <1>4, <2>1, ComingStep DEF Backed
<1>5. CASE f \in C.forgets /\ pushing
  BY <1>1, <1>5 DEF Backed
<1>6. f \notin DOMAIN verdict.to
  BY <1>0, NoVerdict DEF WellMade, ForwardsWell
<1>7. CASE Tracks(f)
  <2>1. f \notin Heard(C)
    BY <1>0, Made DEF WellMade, ReportsWell, Showing
  <2>2. \A i \in DOMAIN wire : ~Reaches(wire[i], f)
    BY <1>0, <2>1, ElementTyped, VouchedReach
  <2>3. cache[f] = dev[C.shows[f]]
    BY <1>7, <2>2, TracksUnreached
  <2>4. cache'[f] = dev'[C.shows[f]]
    BY <1>0, <1>1, <2>3
  <2>5. Tracks(f)'
    BY <1>1, <2>4, LeadsEnd, TracksNext
  <2> QED
    BY <2>5 DEF Backed
<1> QED
  BY <1>2, <1>3, <1>4, <1>5, <1>6, <1>7 DEF Flagging, Backed

\* The flags a push leaves behind go down with its last write.
LEMMA ForgetsStep ==
  ASSUME Typed, InFlight, EPNext, NEW f \in wrote', f \in C.forgets, pushing
  PROVE  pushing'
<1> SUFFICES ASSUME ~pushing' PROVE FALSE
  OBVIOUS
<1>1. ~Call /\ ~Reconcile /\ ~RefuseCall
  BY DEF InFlight, Pushes, Call, Reconcile, RefuseCall
<1>2. MoveOn /\ (Skip \/ ReadOk \/ ReadError \/ Timeout)
  BY <1>1, TodoStep
<1>3. \A more : ~Flags(more)
  BY DEF Flags
<1> QED
  BY <1>2, <1>3 DEF Skip, ReadOk, ReadError, Timeout, Commit, Fails

\* A verdict under way reaches both sides, or spoils its fields.
LEMMA VerdictBacked ==
  ASSUME WellMade, Typed, InFlight, EPNext, C' = C, ~Reboot,
         NEW f \in Vouched(C), f \in DOMAIN verdict.to
  PROVE  Backed(f)'
<1>0. /\ wire \in Seq(Lines) /\ f \in Fields /\ verdict \in C.forwards /\ OneAsk
      /\ cache \in [Fields -> Value]
  BY VouchedField, NoVerdict DEF Typed, InFlight
<1>1. CASE verdict' = verdict
  BY <1>1 DEF Backed
<1>2. CASE VerdictLate
  <2>1. Blame(why, DOMAIN verdict.to, "late")
    BY <1>2 DEF VerdictLate
  <2>2. Spoilt(f)' \/ ~Stale(f)'
    BY <1>0, <2>1, Spoils
  <2> QED
    BY <2>2 DEF Backed
<1>3. CASE VerdictTaken
  <2>1. /\ cache' = cache /\ dev' = Updated(dev, verdict.w) /\ wire' = wire \o Echo(verdict.w)
        /\ Blame(why, {g \in DOMAIN verdict.to : cache[g] # verdict.to[g]}, "crossed")
    BY <1>3 DEF VerdictTaken, hostVars
  <2>2. CASE cache[f] # verdict.to[f]
    <3> DEFINE t == {g \in DOMAIN verdict.to : cache[g] # verdict.to[g]}
    <3>1. Blame(why, t, "crossed") /\ f \in t
      BY <2>1, <2>2
    <3> HIDE DEF t
    <3>2. Spoilt(f)' \/ ~Stale(f)'
      BY <1>0, <3>1, Spoils
    <3> QED
      BY <3>2 DEF Backed
  <2>3. CASE cache[f] = verdict.to[f]
    <3>1. wire' = wire /\ dev'[C.shows[f]] = verdict.to[f] /\ f \notin Heard(C)
      BY <1>0, <2>1, VerdictSilent
    <3>2. \A i \in DOMAIN wire' : ~Reaches(wire'[i], f)
      BY <1>0, <3>1, ElementTyped, VouchedReach
    <3>3. Tracks(f)'
      BY <2>1, <2>3, <3>1, <3>2, TracksNext DEF Leads
    <3> QED
      BY <3>3 DEF Backed
  <2> QED
    BY <2>2, <2>3
<1>4. ~ReadAllowed
  <2>1. ReadAllowed => wire # <<>> /\ Head(wire).t = "cmd"
    BY DEF ReadAllowed, Reads
  <2>2. wire # <<>> => 1 \in DOMAIN wire /\ Head(wire) = wire[1]
    BY <1>0, TailTyped
  <2>3. ReadAllowed => verdict = None
    BY <1>0, <2>1, <2>2 DEF OneAsk
  <2> QED
    BY <2>3, NoVerdict
<1>5. Call \/ Reconcile \/ Skip \/ RefuseCall \/ Compose => verdict' = verdict
  BY DEF Call, Reconcile, Skip, RefuseCall, Compose
<1>6. Timeout \/ Apply \/ AnswerOk \/ Refuse \/ Change \/ Forward \/ Lose => verdict' = verdict
  BY DEF Timeout, Apply, AnswerOk, Refuse, Change, Forward, Lose
<1>7. HostReads => verdict' = verdict
  <2>1. HostReads => ReadStep
    BY HostReading
  <2> QED
    BY <1>4, <2>1 DEF ReadStep, ReadTaken, ReadKept, ReadDenied, ReadOk, ReadError
<1> QED
  BY <1>1, <1>2, <1>3, <1>5, <1>6, <1>7 DEF EPNext

\* A tracked field stays tracked when the host reads a line, or has a reason.
LEMMA ReadBacked ==
  ASSUME WellMade, Typed, InFlight, EPNext, C' = C, HostReads, Landing, known,
         NEW f \in Vouched(C), Tracks(f)
  PROVE  Backed(f)'
<1>0. /\ wire \in Seq(Lines) /\ f \in Fields /\ cache \in [Fields -> Value]
  BY VouchedField DEF Typed
<1>1. /\ wire # <<>> /\ wire' = Tail(wire) /\ dev' = dev
  BY DEF HostReads
<1>2. Head(wire) \in Lines
  BY <1>0, <1>1, TailTyped
<1>3. ASSUME cache'[f] = IF Reaches(Head(wire), f) THEN Head(wire).v ELSE cache[f]
      PROVE  Backed(f)'
  <2>1. Tracks(f)'
    BY <1>0, <1>1, <1>3, TracksRead
  <2> QED
    BY <2>1 DEF Backed
<1>4. CASE ReadTaken
  <2>1. /\ Head(wire).t = "urc"
        /\ cache' = [cache EXCEPT ![C.hears[Head(wire).a]] = Head(wire).v]
    BY <1>4 DEF ReadTaken, Reads
  <2> QED
    BY <1>0, <1>3, <2>1 DEF Reaches
<1>5. CASE ReadKept
  <2>1. cache' = cache /\ Head(wire).a \in C.vetoes
    BY <1>5 DEF ReadKept
  <2>2. ~Reaches(Head(wire), f)
    BY <1>2, <2>1, VouchedReach
  <2> QED
    BY <1>3, <2>1, <2>2
<1>6. CASE ReadAllowed
  <2>1. /\ Head(wire).t = "cmd" /\ verdict' = Head(wire).v
        /\ cache' = Updated(cache, Head(wire).v.to)
    BY <1>6 DEF ReadAllowed, Reads
  <2>2. Head(wire).v \in C.forwards
    BY <1>2, <2>1 DEF Lines
  <2>3. CASE f \in DOMAIN Head(wire).v.to
    BY <2>1, <2>3 DEF Backed
  <2>4. CASE f \notin DOMAIN Head(wire).v.to
    <3>1. cache'[f] = cache[f]
      BY <1>0, <2>1, <2>2, <2>4, Made, UpdatedTyped
    <3>2. ~Reaches(Head(wire), f)
      BY <2>1 DEF Reaches
    <3> QED
      BY <1>3, <3>1, <3>2
  <2> QED
    BY <2>3, <2>4
<1>7. CASE ReadDenied
  BY <1>3, <1>7 DEF ReadDenied, Reads, Reaches
<1>8. CASE ReadError
  BY <1>3, <1>8 DEF ReadError, Reads, Fails, Reaches
<1>9. CASE ReadOk
  <2>1. CASE f \in DOMAIN Head(todo).to
    BY <1>9, <2>1, LandedBacked
  <2>2. CASE f \notin DOMAIN Head(todo).to
    <3>1. Head(wire).t = "end" /\ cache' = Updated(cache, Head(todo).to)
      BY <1>9 DEF ReadOk, Reads, Commit
    <3>2. Head(todo) \in Writes(C)
      BY <1>9, AnswerRead
    <3>3. cache'[f] = cache[f]
      BY <1>0, <2>2, <3>1, <3>2, Made, UpdatedTyped
    <3>4. ~Reaches(Head(wire), f)
      BY <3>1 DEF Reaches
    <3> QED
      BY <1>3, <3>3, <3>4
  <2> QED
    BY <2>1, <2>2
<1> QED
  BY <1>4, <1>5, <1>6, <1>7, <1>8, <1>9, HostReading DEF ReadStep

\* A tracked field stays tracked in every other step, or has a reason.
LEMMA TracksBacked ==
  ASSUME WellMade, Typed, InFlight, EPNext, C' = C, ~HostReads, ~Reboot,
         NEW f \in Vouched(C), Tracks(f)
  PROVE  Backed(f)'
<1>0. /\ wire \in Seq(Lines) /\ f \in Fields /\ dev \in [DOMAIN C.fresh -> Value]
      /\ verdict \in C.forwards \cup {None} /\ todo \in Seq(Writes(C))
      /\ C.shows[f] \in DOMAIN C.fresh /\ Commanded
  BY VouchedField DEF Typed, InFlight
<1>1. Tracks(f)' => Backed(f)'
  BY DEF Backed
<1>2. \A a \in DOMAIN C.hears : C.hears[a] = f => a = C.shows[f]
  BY DEF WellMade, FlagsWell, Straight
<1>3. CASE Call \/ Reconcile \/ Skip \/ RefuseCall \/ Compose
  <2>1. UNCHANGED <<wire, cache, dev>>
    BY <1>3 DEF Call, Reconcile, Skip, RefuseCall, Compose, hostVars
  <2> QED
    BY <1>1, <2>1, TracksKept
<1>4. CASE Timeout \/ VerdictLate
  <2>1. UNCHANGED <<wire, cache, dev>>
    BY <1>4 DEF Timeout, Fails, VerdictLate, hostVars
  <2> QED
    BY <1>1, <2>1, TracksKept
<1>5. CASE AnswerOk \/ Refuse
  <2>1. \A ok \in BOOLEAN : End(ok) \in Lines /\ End(ok).t # "urc"
    BY DEF End, Lines
  <2>2. \E ok \in BOOLEAN : wire' = Append(wire, End(ok))
    BY <1>5 DEF AnswerOk, Refuse
  <2>3. UNCHANGED <<cache, dev>>
    BY <1>5 DEF AnswerOk, Refuse, hostVars
  <2>4. PICK x \in Lines : x.t # "urc" /\ wire' = Append(wire, x)
    BY <2>1, <2>2
  <2> QED
    BY <1>0, <1>1, <2>3, <2>4, TracksAppended
<1>6. CASE Forward
  <2>1. \A g \in C.forwards : Asks(g) \in Lines /\ Asks(g).t # "urc"
    BY DEF Asks, Lines
  <2>2. PICK x \in Lines : x.t # "urc" /\ wire' = Append(wire, x)
    BY <1>6, <2>1 DEF Forward
  <2>3. UNCHANGED <<cache, dev>>
    BY <1>6 DEF Forward, hostVars
  <2> QED
    BY <1>0, <1>1, <2>2, <2>3, TracksAppended
<1>7. CASE VerdictTaken
  <2>1. CASE f \in DOMAIN verdict.to
    BY <2>1, VerdictBacked
  <2>2. CASE f \notin DOMAIN verdict.to
    <3>1. /\ verdict \in C.forwards /\ cache' = cache /\ dev' = Updated(dev, verdict.w)
          /\ wire' = wire \o Echo(verdict.w)
      BY <1>0, <1>7 DEF VerdictTaken, hostVars
    <3>2. wire' = wire /\ dev'[C.shows[f]] = dev[C.shows[f]]
      BY <1>0, <2>2, <3>1, VerdictSilent
    <3> QED
      BY <1>1, <3>1, <3>2, TracksKept
  <2> QED
    BY <2>1, <2>2
<1>8. CASE Lose
  <2>1. /\ wire # <<>> /\ wire' = Tail(wire) /\ UNCHANGED <<cache, dev>>
    BY <1>8 DEF Lose, hostVars
  <2>2. CASE ~Reaches(Head(wire), f)
    BY <1>0, <1>1, <2>1, <2>2, TracksRead
  <2>3. CASE Reaches(Head(wire), f)
    <3> DEFINE A == IF Head(wire).t = "urc" THEN {Head(wire).a} ELSE DOMAIN cmd
    <3>1. Head(wire).t = "urc" /\ Head(wire).a = C.shows[f]
      BY <1>0, <2>1, <2>3, TailTyped, VouchedReach
    <3>2. Blame(why, Mirrors(A), "lost") /\ f \in Mirrors(A)
      BY <1>0, <1>8, <3>1 DEF Lose, Mirrors
    <3> HIDE DEF A
    <3>3. Spoilt(f)' \/ ~Stale(f)'
      BY <1>0, <3>2, Spoils
    <3> QED
      BY <3>3 DEF Backed
  <2> QED
    BY <2>2, <2>3
<1>9. CASE Apply
  <2>1. phase = "ready" /\ dev' = Updated(dev, cmd) /\ wire' = wire \o Echo(cmd) /\ cache' = cache
    BY <1>9 DEF Apply, hostVars
  <2>2. \A a \in DOMAIN cmd \cap DOMAIN C.hears : cmd[a] \in Bit
    BY <1>0, <2>1 DEF Commanded
  <2>3. CASE C.shows[f] \in DOMAIN cmd
    <3>1. why'[f] = {}
      BY <1>0, <1>9, <2>3, AppliedVouched DEF Mirrors
    <3> QED
      BY <3>1 DEF Backed, Stale
  <2>4. CASE C.shows[f] \notin DOMAIN cmd
    <3> DEFINE e == Echo(cmd)
    <3>1. e \in Seq(Lines)
      BY <2>2, EchoLines
    <3>2. \A k \in DOMAIN e : Reaches(e[k], f) =>
            \E a \in DOMAIN cmd \cap DOMAIN C.hears : C.hears[a] = f
      BY <2>2, EchoSays
    <3> HIDE DEF e
    <3>3. \A k \in DOMAIN e : ~Reaches(e[k], f)
      BY <1>2, <2>4, <3>2
    <3>4. dev'[C.shows[f]] = dev[C.shows[f]]
      BY <1>0, <2>1, <2>4 DEF Updated
    <3>5. wire' = wire \o e
      BY <2>1 DEF e
    <3> QED
      BY <1>0, <1>1, <2>1, <3>1, <3>3, <3>4, <3>5, TracksAdded
  <2> QED
    BY <2>3, <2>4
<1>10. CASE Change
  <2>1. PICK a \in C.changes, v \in Bit, e \in Seq(Lines) :
           /\ a \in DOMAIN C.fresh /\ dev' = [dev EXCEPT ![a] = v] /\ wire' = wire \o e
           /\ \A k \in DOMAIN e : e[k].t = "urc" /\ e[k].a = a /\ a \in DOMAIN C.hears /\ e[k].v = v
           /\ a \in DOMAIN C.hears =>
                /\ Straight(C, a)
                /\ \E k \in DOMAIN e : Reaches(e[k], C.hears[a])
    BY <1>10, Changed
  <2>2. cache' = cache
    BY <1>10 DEF Change, hostVars
  <2>3. CASE C.shows[f] # a
    <3>1. dev'[C.shows[f]] = dev[C.shows[f]]
      BY <1>0, <2>1, <2>3
    <3>2. \A k \in DOMAIN e : ~Reaches(e[k], f)
      BY <2>1, <2>3 DEF Reaches, Straight
    <3> QED
      BY <1>0, <1>1, <2>1, <2>2, <3>1, <3>2, TracksAdded
  <2>4. CASE C.shows[f] = a
    <3>1. f \in Heard(C)
      BY <2>4 DEF WellMade, FlagsWell
    <3>2. a \in DOMAIN C.hears /\ C.hears[a] = f
      BY <1>2, <2>4, <3>1 DEF Heard
    <3>3. \E k \in DOMAIN e : Reaches(e[k], f)
      BY <2>1, <3>2
    <3>4. dev'[C.shows[f]] = v
      BY <1>0, <2>1, <2>4
    <3>5. Leads(wire', f, cache'[f], dev'[C.shows[f]])
      BY <1>0, <2>1, <3>3, <3>4, LeadsAdded
    <3> QED
      BY <1>1, <3>5, TracksNext
  <2> QED
    BY <2>3, <2>4
<1> QED
  BY <1>3, <1>4, <1>5, <1>6, <1>7, <1>8, <1>9, <1>10 DEF EPNext

\* Every step keeps the flagged fields backed.
LEMMA FlaggingStep ==
  ASSUME WellMade, Typed, InFlight, EPNext, C' = C, Reported, Adopted, Landing,
         Flagging, Sendable
  PROVE  Flagging'
<1> SUFFICES ASSUME NEW f \in Vouched(C), f \in wrote', synced' \/ C.shows[f] \in C.keeps
             PROVE  Backed(f)'
  <2>1. Vouched(C)' = Vouched(C)
    BY DEF Vouched
  <2> QED
    BY <2>1 DEF Flagging
<1>1. CASE f \notin wrote
  BY <1>1, RaisedBacked
<1>2. CASE f \in wrote /\ Reconcile
  BY <1>2, ReconcileBacked
<1>3. CASE f \in wrote /\ Reboot
  BY <1>3, RebootBacked DEF Reboot
<1>4. CASE f \in wrote /\ ~Reconcile /\ ~Reboot
  <2>1. known /\ f \in Fields
    BY <1>4, VouchedField DEF Adopted
  <2>2. synced' = synced
    <3>1. Call \/ RefuseCall \/ Compose \/ Apply \/ AnswerOk \/ Refuse => synced' = synced
      BY DEF Call, RefuseCall, Compose, Apply, AnswerOk, Refuse, hostVars
    <3>2. Change \/ Forward \/ VerdictTaken \/ VerdictLate \/ Lose => synced' = synced
      BY DEF Change, Forward, VerdictTaken, VerdictLate, Lose, hostVars
    <3>3. Skip \/ Timeout \/ HostReads => synced' = synced
      BY DEF Skip, Timeout, HostReads
    <3> QED
      BY <1>4, <3>1, <3>2, <3>3 DEF EPNext
  <2>3. Backed(f)
    BY <1>4, <2>2 DEF Flagging
  <2>4. CASE Spoilt(f)
    BY <2>4, SpoiltStep DEF Backed
  <2>5. CASE ~Stale(f)
    BY <1>4, <2>1, <2>5, FreshStep DEF Backed
  <2>6. CASE Coming(f)
    <3>1. CASE Apply /\ f \in Head(todo).also
      <4>1. f \in Mirrors(DOMAIN cmd)
        BY <3>1, InCommand DEF Apply
      <4>2. why'[f] = {}
        BY <3>1, <4>1, AppliedVouched
      <4> QED
        BY <4>2 DEF Backed, Stale
    <3>2. CASE Refuse /\ f \in Head(todo).also
      <4>1. Spoilt(f)' \/ ~Stale(f)'
        <5>1. pushing
          BY <2>6 DEF Coming
        <5>2. PICK t : Blame(why, t, "refused") /\ f \in t
          BY <3>2, <5>1, RefusedPush
        <5> QED
          BY <2>1, <5>2, Spoils
      <4> QED
        BY <4>1 DEF Backed
    <3>3. CASE Coming(f)'
      BY <3>3 DEF Backed
    <3> QED
      BY <2>6, <3>1, <3>2, <3>3, ComingStep
  <2>7. CASE f \in C.forgets /\ pushing
    <3>1. pushing'
      BY <2>7, ForgetsStep
    <3> QED
      BY <2>7, <3>1 DEF Backed
  <2>8. CASE f \in DOMAIN verdict.to
    BY <1>4, <2>8, VerdictBacked
  <2>9. CASE Tracks(f)
    BY <1>4, <2>1, <2>9, ReadBacked, TracksBacked
  <2> QED
    BY <2>3, <2>4, <2>5, <2>6, <2>7, <2>8, <2>9 DEF Backed
<1> QED
  BY <1>1, <1>2, <1>3, <1>4

\* With nothing under way a flag speaks of what the co-processor holds.
LEMMA FlagsFollow ==
  ASSUME WellMade, Typed, InFlight, Flagging, Cleared
  PROVE  WrittenMeansHeld
<1> SUFFICES ASSUME AtRest, synced, NEW f \in wrote \ (C.noted \cup C.sticks),
                    why[f] \cap {"refused", "lost", "late", "crossed"} = {}
             PROVE  why[f] \cap {"begin", "reboot", "unheard"} = {}
  BY DEF WrittenMeansHeld
<1>1. f \in Vouched(C) /\ ~Spoilt(f)
  BY DEF Typed, Vouched, Spoilt
<1>2. verdict = None /\ todo = <<>>
  BY DEF AtRest
<1>3. f \notin DOMAIN verdict.to
  BY <1>2, NoVerdict
<1>4. ~Coming(f)
  BY <1>2 DEF Coming
<1>5. ASSUME ~pushing PROVE ~Stale(f)
  <2>1. ~Stale(f) \/ Tracks(f)
    BY <1>1, <1>3, <1>4, <1>5 DEF Flagging, Backed
  <2>2. Tracks(f) => why[f] = {}
    BY <1>1, TrackedAtRest, VouchedField DEF Cleared
  <2> QED
    BY <2>1, <2>2 DEF Stale
<1>6. ~pushing
  BY <1>2 DEF InFlight, Pushes
<1> QED
  BY <1>5, <1>6 DEF Stale

-----------------------------------------------------------------------------
(* The invariant from the first state on.                                   *)

\* The class is one of the catalogue.
LEMMA MadeFromCatalogue ==
  ASSUME kind \in Classes
  PROVE  WellMade
  BY CatalogueAssumption, EndpointAssumption
  DEF WellFormedCatalogue, WellFormed, WellMade, C

\* The first state.
LEMMA StartEndpoint ==
  ASSUME WellMade, EPInit
  PROVE  EndpointInv
<1>0. /\ kind \in Classes /\ cache \in C.begin /\ wrote = {} /\ dev = C.fresh
      /\ known = FALSE /\ synced = FALSE /\ todo = <<>> /\ pushing = FALSE
      /\ phase = "idle" /\ cmd = Nothing /\ wire = <<>> /\ verdict = None /\ owed = {}
      /\ why = [f \in Fields |-> IF cache[f] = dev[C.shows[f]] THEN {} ELSE {"begin"}]
  BY DEF EPInit
<1>1. DOMAIN wire = {} /\ DOMAIN todo = {}
  BY <1>0
<1>2. \A f \in Fields : why[f] = {} => cache[f] = dev[C.shows[f]]
  BY <1>0
<1>3. \A f \in Fields : cache[f] = dev[C.shows[f]] => why[f] = {}
  BY <1>0
<1>4. ~Ended(TRUE) /\ ~Ended(FALSE) /\ ~Done
  BY <1>0, <1>1 DEF Ended, Done
<1>5. Typed
  <2>1. cache \in [Fields -> Value] /\ dev \in [DOMAIN C.fresh -> Value]
    BY <1>0 DEF WellMade, WellTyped, Fields
  <2>2. why \in [Fields -> SUBSET Reasons]
    BY <1>0 DEF Reasons
  <2>3. \A f \in Seeded(C) : cache[f] # Null
    BY <1>0 DEF Seeded
  <2>4. todo \in Seq(Writes(C)) /\ wire \in Seq(Lines)
    BY <1>0
  <2>5. wrote \subseteq C.flagged /\ owed \subseteq Fields
    BY <1>0
  <2> QED
    BY <1>0, <2>1, <2>2, <2>3, <2>4, <2>5 DEF Typed
<1>6. InFlight
  BY <1>0, <1>1 DEF InFlight, Pushes, Shaped, Commanded, OneEnd, OneAsk
<1>7. Unanswered /\ Undisturbed
  <2>1. Sets(todo) = {}
    BY <1>0 DEF Sets, ToSet
  <2> QED
    BY <1>0, <1>4, <2>1 DEF Unanswered, Undisturbed
<1>8. Tracking
  BY <1>0, <1>2, LeadsEnd DEF Tracking, Tracks
<1>9. Beside /\ Strays /\ Followed /\ Cleared
  BY <1>0, <1>1, <1>3 DEF Beside, Strays, Followed, Cleared
<1>10. Pushed /\ Reported /\ Adopted /\ Landing /\ Flagging /\ Sendable
  BY <1>0, <1>1, <1>4 DEF Pushed, Reported, Adopted, Landing, Flagging, Sendable
<1> QED
  BY <1>5, <1>6, <1>7, <1>8, <1>9, <1>10 DEF EndpointInv, AgreeInv, FlagInv

\* Every step keeps the two parts of the invariant.
LEMMA AgreeStep ==
  ASSUME WellMade, Typed, InFlight, AgreeInv, EPNext, C' = C
  PROVE  AgreeInv'
<1>1. Unanswered /\ Undisturbed /\ Tracking /\ Beside /\ Strays /\ Followed /\ Cleared
  BY DEF AgreeInv
<1>2. Unanswered'
  BY <1>1, UnansweredStep
<1>3. Undisturbed'
  BY <1>1, UndisturbedStep
<1>4. Tracking'
  BY TrackingStep
<1>5. Beside'
  BY <1>1, BesideStep
<1>6. Strays'
  BY <1>1, StraysStep
<1>7. Followed'
  BY <1>1, FollowedStep
<1>8. Cleared'
  BY <1>1, ClearedStep
<1> QED
  BY <1>2, <1>3, <1>4, <1>5, <1>6, <1>7, <1>8 DEF AgreeInv

\* With nothing under way what is tracked agrees.
LEMMA AgreeFollows ==
  ASSUME Tracking
  PROVE  Agree
<1> SUFFICES ASSUME AtRest, NEW f \in Fields, why[f] = {}
             PROVE  cache[f] = dev[C.shows[f]]
  BY DEF Agree
<1>1. verdict = None /\ wire = <<>> /\ phase = "idle"
  BY DEF AtRest
<1>2. f \notin DOMAIN verdict.to
  BY <1>1, NoVerdict
<1>3. ~Lands(f)
  BY <1>1 DEF Lands, Done, Ended
<1>4. Tracks(f)
  BY <1>2, <1>3 DEF Tracking
<1> QED
  BY <1>4, TrackedAtRest

LEMMA FlagStep ==
  ASSUME WellMade, Typed, InFlight, FlagInv, EPNext, C' = C, Fields' = Fields,
         Typed'
  PROVE  FlagInv'
<1>1. Pushed /\ Reported /\ Adopted /\ Landing /\ Flagging /\ Sendable
  BY DEF FlagInv
<1>2. Pushed'
  BY <1>1, PushedStep
<1>3. Reported'
  BY <1>1, ReportedStep
<1>4. Adopted'
  BY <1>1, AdoptedStep
<1>5. Landing'
  BY <1>1, LandingStep
<1>6. Flagging'
  BY <1>1, FlaggingStep
<1>7. Sendable'
  BY <1>1, SendableStep
<1> QED
  BY <1>2, <1>3, <1>4, <1>5, <1>6, <1>7 DEF FlagInv

\* A step of nothing.
LEMMA EndpointStutters ==
  ASSUME EndpointInv, UNCHANGED epVars
  PROVE  EndpointInv'
<1>0. /\ UNCHANGED <<kind, used, cache, wrote, dev, known, synced, todo>>
      /\ UNCHANGED <<pushing, phase, cmd, wire, verdict, why, owed, left>>
  BY DEF epVars
<1>1. C' = C /\ Fields' = Fields
  BY <1>0 DEF C, Fields
<1>2. Typed'
  BY <1>0, <1>1 DEF EndpointInv, Typed, Lines
<1>3. InFlight'
  <2>1. Pushes' /\ Shaped' /\ Commanded' /\ OneEnd' /\ OneAsk'
    BY <1>0, <1>1, FlightKept DEF EndpointInv, InFlight
  <2> QED
    BY <2>1 DEF InFlight
<1>4. /\ \A f, k : Reaches(wire[k], f)' <=> Reaches(wire[k], f)
      /\ \A f : Tracks(f)' <=> Tracks(f)
      /\ Done' <=> Done
      /\ \A f : Lands(f)' <=> Lands(f)
      /\ Following' <=> Following
      /\ \A A : Mirrors(A)' = Mirrors(A) /\ HeardIn(A)' = HeardIn(A)
      /\ Ended(TRUE)' <=> Ended(TRUE)
      /\ Ended(FALSE)' <=> Ended(FALSE)
  <2>1. \A f, k : Reaches(wire[k], f)' <=> Reaches(wire[k], f)
    BY <1>0, <1>1 DEF Reaches
  <2>2. \A f : Tracks(f)' <=> Tracks(f)
    BY <1>0, <1>1, TracksNext DEF Tracks
  <2>3. /\ Ended(TRUE)' <=> Ended(TRUE)
        /\ Ended(FALSE)' <=> Ended(FALSE)
    BY <1>0 DEF Ended
  <2>4. Done' <=> Done
    BY <1>0, <2>3 DEF Done
  <2>5. \A f : Lands(f)' <=> Lands(f)
    BY <1>0, <2>4 DEF Lands
  <2>6. Following' <=> Following
    BY <1>0, <1>1 DEF Following
  <2>7. \A A : Mirrors(A)' = Mirrors(A) /\ HeardIn(A)' = HeardIn(A)
    BY <1>1 DEF Mirrors, HeardIn
  <2> QED
    BY <2>1, <2>2, <2>3, <2>4, <2>5, <2>6, <2>7
<1>5. AgreeInv'
  <2>0. AgreeInv
    BY DEF EndpointInv
  <2>1. Unanswered'
    BY <1>0, <1>1, <1>4, <2>0 DEF AgreeInv, Unanswered
  <2>2. Undisturbed'
    BY <1>0, <1>1, <1>4, <2>0 DEF AgreeInv, Undisturbed
  <2>3. Tracking'
    BY <1>0, <1>1, <1>4, <2>0 DEF AgreeInv, Tracking
  <2>4. Beside' /\ Strays'
    BY <1>0, <1>1, <1>4, <2>0 DEF AgreeInv, Beside, Strays
  <2>5. Followed'
    BY <1>0, <1>1, <1>4, <2>0 DEF AgreeInv, Followed
  <2>6. Cleared'
    BY <1>0, <1>1, <2>0 DEF AgreeInv, Cleared, AtRest
  <2> QED
    BY <2>1, <2>2, <2>3, <2>4, <2>5, <2>6 DEF AgreeInv
<1>6. FlagInv'
  <2>0. FlagInv
    BY DEF EndpointInv
  <2>1. \A f : Coming(f)' <=> Coming(f)
    BY <1>0, <1>1 DEF Coming, Due
  <2>2. Vouched(C)' = Vouched(C) /\ Resent(C)' = Resent(C)
    BY <1>1 DEF Vouched, Resent
  <2>3. Pushed'
    BY <1>0, <2>0, <2>1 DEF FlagInv, Pushed
  <2>4. Reported'
    BY <1>0, <1>1, <1>4, <2>0, <2>2 DEF FlagInv, Reported
  <2>5. Adopted'
    BY <1>0, <1>1, <2>0 DEF FlagInv, Adopted
  <2>6. \A f : (Spoilt(f)' <=> Spoilt(f)) /\ (Stale(f)' <=> Stale(f))
    BY <1>0 DEF Spoilt, Stale
  <2>7. Landing'
    BY <1>0, <1>1, <1>4, <2>0, <2>2, <2>6 DEF FlagInv, Landing
  <2>8. \A f : Backed(f)' <=> Backed(f)
    BY <1>0, <1>1, <1>4, <2>1, <2>6 DEF Backed
  <2>9. Flagging'
    BY <1>0, <1>1, <2>0, <2>2, <2>8 DEF FlagInv, Flagging
  <2>10. Sendable'
    BY <1>0, <1>1, <2>0, <2>2 DEF FlagInv, Sendable, Due
  <2> QED
    BY <2>3, <2>4, <2>5, <2>7, <2>9, <2>10 DEF FlagInv
<1> QED
  BY <1>2, <1>3, <1>5, <1>6 DEF EndpointInv

\* Every step keeps the invariant.
LEMMA EndpointStep ==
  ASSUME EndpointInv, [EPNext]_epVars
  PROVE  EndpointInv'
<1>1. CASE EPNext
  <2>1. Typed /\ InFlight /\ AgreeInv /\ FlagInv
    BY DEF EndpointInv
  <2>2. WellMade
    BY <2>1, MadeFromCatalogue DEF Typed
  <2>3. kind' = kind /\ C' = C /\ Fields' = Fields
    BY <1>1, StepKind
  <2>4. Typed'
    BY <1>1, <2>1, <2>2, <2>3, StepTyped
  <2>5. InFlight'
    BY <1>1, <2>1, <2>2, <2>3, StepFlight
  <2>6. AgreeInv'
    BY <1>1, <2>1, <2>2, <2>3, AgreeStep
  <2>7. FlagInv'
    BY <1>1, <2>1, <2>2, <2>3, <2>4, FlagStep
  <2> QED
    BY <2>4, <2>5, <2>6, <2>7 DEF EndpointInv
<1>2. CASE UNCHANGED epVars
  BY <1>2, EndpointStutters
<1> QED
  BY <1>1, <1>2

\* Every class of the catalogue, whatever the sketch, a controller and the
\* firmware do and whatever is lost, keeps the invariant of HearthEndpointInv.
LEMMA EndpointInvariant == EPSpec => []EndpointInv
<1>1. EPInit => EndpointInv
  <2> SUFFICES ASSUME EPInit PROVE EndpointInv
    OBVIOUS
  <2>1. kind \in Classes
    BY DEF EPInit
  <2> QED
    BY <2>1, MadeFromCatalogue, StartEndpoint
<1>2. EndpointInv /\ [EPNext]_epVars => EndpointInv'
  BY EndpointStep
<1> QED
  BY <1>1, <1>2, PTL DEF EPSpec

\* For every endpoint class of the catalogue, and any number of setter calls,
\* reports, forwarded commands, refusals, losses and reboots: when nothing is
\* under way, a field the sketch reads differs from the attribute it mirrors
\* only if something is on record that may have set them apart
\* (hearthWriteAttr(), attributeChangeCB() and the classes' setters).
THEOREM EndpointAgree == EPSpec => []Agree
<1>1. EndpointInv => Agree
  BY AgreeFollows DEF EndpointInv, AgreeInv
<1> QED
  BY <1>1, EndpointInvariant, PTL

\* For every endpoint class of the catalogue: a "has been set" flag that is up
\* when nothing is under way, and that no fault spoilt, belongs to a field the
\* co-processor was given or reported since its endpoint was last created, so
\* that the equal write the flag lets a setter leave out is not needed.
THEOREM EndpointWrittenMeansHeld == EPSpec => []WrittenMeansHeld
<1>1. EndpointInv => WrittenMeansHeld
  <2> SUFFICES ASSUME EndpointInv PROVE WrittenMeansHeld
    OBVIOUS
  <2>1. WellMade
    BY MadeFromCatalogue DEF EndpointInv, Typed
  <2> QED
    BY <2>1, FlagsFollow DEF EndpointInv, AgreeInv, FlagInv
<1> QED
  BY <1>1, EndpointInvariant, PTL

\* For every endpoint class of the catalogue: what hearthOnReconciled() sends
\* again is on the co-processor when it is over, unless a write of it was
\* refused or lost.
THEOREM EndpointPushedHolds == EPSpec => []PushedHolds
<1>1. EndpointInv => PushedHolds
  BY PushedFollows DEF EndpointInv, FlagInv
<1> QED
  BY <1>1, EndpointInvariant, PTL
=============================================================================
