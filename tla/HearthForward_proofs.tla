-------------------------- MODULE HearthForward_proofs --------------------------
(***************************************************************************)
(* What holds of the command forwarding for any number of forwarded        *)
(* commands, any depth of nested calls and any queue.                      *)
(*                                                                         *)
(* The call stack is what makes it hard: a drain may run in any frame, and *)
(* a callback may call the library again.  The steps change the stack in   *)
(* a few ways, described index by index first; the invariants then say     *)
(* what a frame's label tells of the frames around it.                     *)
(***************************************************************************)
EXTENDS HearthForward, SequenceTheorems, TLAPS

MaybeSeq == {0} \cup Seqs
Lines    == [line : {"+MTCMD", "+MTCMDTO", "terminal"}, seq : MaybeSeq]
Verdicts == [seq : MaybeSeq, allow : BOOLEAN]
Sendings == [op : {"resp", "push"}, seq : MaybeSeq]
Codes    == [op : Ops \cup {"none"}, rc : {0, 1}]
Pushes   == [seq : MaybeSeq, value : {"active", "inactive"}]

\* hearthCommand() and poll(), the link's readers, and the registry walk.
CallAt == {"poll", "cmd", "link", "resp", "deferred", "tail", "update", "ret"}
LinkAt == {"read", "await", "acted", "served"}
WalkAt == {"heater", "evse", "fetched", "merge"}

Typed ==
  /\ forwards \in Seq(Forward) /\ Len(forwards) \in 0 .. MaxEvents
  /\ rx \in Seq(Lines) /\ stack \in Seq(Frame) /\ respQueue \in Seq(Verdicts)
  /\ wire \in Seq(Sendings) /\ lastError \in Codes /\ heaterPush \in Pushes
  /\ evsePending \in MaybeSeq /\ blocks \in Nat

---------------------------------------------------------------------------
(* The stack, index by index.                                              *)

Kept(n) == \A i \in 1 .. n : stack'[i] = stack[i]

\* The innermost frame goes on at label l, for command s.
On(l, s) ==
  /\ Len(stack) \in Nat \ {0} /\ Kept(Len(stack) - 1)
  /\ stack'[Len(stack)].at = l /\ stack'[Len(stack)].seq = s
  /\ stack'[Len(stack)].op = Top.op /\ stack'[Len(stack)].rc = Top.rc
  /\ stack'[Len(stack)].callback => l \in LinkAt

Going(l) == On(l, Top.seq) /\ Len(stack') = Len(stack)

\* The frame just called, at label l with op o for command s and code c.
Fresh(l, o, s, c) ==
  /\ stack'[Len(stack')].at = l /\ stack'[Len(stack')].op = o
  /\ stack'[Len(stack')].seq = s /\ stack'[Len(stack')].rc = c
  /\ ~stack'[Len(stack')].callback

\* It goes on at l for s once the call it makes now returns.
GoingCalling(l, s) == On(l, s) /\ Len(stack') = Len(stack) + 1

\* It calls, where it stands.
Calling == Len(stack) \in Nat /\ Len(stack') = Len(stack) + 1 /\ Kept(Len(stack))

\* It returns.
Returning ==
  Len(stack) \in Nat \ {0} /\ Len(stack') = Len(stack) - 1 /\ Kept(Len(stack) - 1)

\* It returns, and its caller may learn what came of the call.
Answering ==
  /\ Len(stack) \in Nat \ {0} /\ Len(stack') = Len(stack) - 1 /\ Kept(Len(stack) - 2)
  /\ Len(stack) > 1 =>
       /\ stack'[Len(stack) - 1].at = stack[Len(stack) - 1].at
       /\ stack'[Len(stack) - 1].op = stack[Len(stack) - 1].op
       /\ stack'[Len(stack) - 1].seq = stack[Len(stack) - 1].seq
       /\ stack'[Len(stack) - 1].callback = stack[Len(stack) - 1].callback

\* A command in flight goes on at label l with code c.
InFlightTo(i, l, c) ==
  /\ Len(stack) \in Nat /\ i \in 1 .. Len(stack) /\ Len(stack') = Len(stack)
  /\ \A j \in 1 .. Len(stack) : j # i => stack'[j] = stack[j]
  /\ stack'[i].at = l /\ stack'[i].rc = c /\ stack'[i].op = stack[i].op
  /\ stack'[i].seq = stack[i].seq /\ stack'[i].callback = stack[i].callback

LEMMA Frames ==
  ASSUME NEW f \in Frame, NEW l \in Labels
  PROVE  /\ [f EXCEPT !.at = l] \in Frame /\ [f EXCEPT !.at = l].at = l
         /\ [f EXCEPT !.at = l].seq = f.seq /\ [f EXCEPT !.at = l].op = f.op
         /\ [f EXCEPT !.at = l].rc = f.rc /\ [f EXCEPT !.at = l].callback = f.callback
BY DEF Frame

LEMMA AllowedFrames ==
  ASSUME NEW f \in Frame, NEW b \in BOOLEAN
  PROVE  /\ [f EXCEPT !.allow = b] \in Frame
         /\ [f EXCEPT !.allow = b].allow = b
         /\ [f EXCEPT !.allow = b].at = f.at
         /\ [f EXCEPT !.allow = b].seq = f.seq
         /\ [f EXCEPT !.allow = b].op = f.op
         /\ [f EXCEPT !.allow = b].rc = f.rc
         /\ [f EXCEPT !.allow = b].callback = f.callback
BY DEF Frame

LEMMA CodeFrames ==
  ASSUME NEW f \in Frame, NEW c \in {0, 1}
  PROVE  /\ [f EXCEPT !.rc = c] \in Frame
         /\ [f EXCEPT !.rc = c].rc = c
         /\ [f EXCEPT !.rc = c].at = f.at
         /\ [f EXCEPT !.rc = c].seq = f.seq
         /\ [f EXCEPT !.rc = c].op = f.op
         /\ [f EXCEPT !.rc = c].callback = f.callback
BY DEF Frame

LEMMA BackFrames ==
  ASSUME NEW f \in Frame, NEW b \in BOOLEAN
  PROVE  /\ [f EXCEPT !.callback = b] \in Frame
         /\ [f EXCEPT !.callback = b].callback = b
         /\ [f EXCEPT !.callback = b].at = f.at
         /\ [f EXCEPT !.callback = b].seq = f.seq
         /\ [f EXCEPT !.callback = b].op = f.op
         /\ [f EXCEPT !.callback = b].rc = f.rc
BY DEF Frame

LEMMA Called ==
  ASSUME NEW l \in Labels, NEW o \in Ops \cup {"none"}, NEW s \in MaybeSeq, NEW b \in BOOLEAN
  PROVE  /\ Call(l, o, s, b) \in Frame /\ Call(l, o, s, b).at = l /\ Call(l, o, s, b).op = o
         /\ Call(l, o, s, b).seq = s /\ Call(l, o, s, b).rc = 0
         /\ Call(l, o, s, b).callback = FALSE
BY DEF Call, Frame, MaybeSeq

LEMMA Fields ==
  ASSUME NEW f \in Frame
  PROVE  /\ f.at \in Labels /\ f.op \in Ops \cup {"none"} /\ f.seq \in MaybeSeq
         /\ f.allow \in BOOLEAN /\ f.callback \in BOOLEAN /\ f.rc \in {0, 1}
BY DEF Frame, MaybeSeq

LEMMA Names ==
  /\ CallAt \subseteq Labels /\ LinkAt \subseteq Labels /\ WalkAt \subseteq Labels
  /\ "sync" \in Labels /\ "synced" \in Labels
  /\ "poll" \in Labels /\ "cmd" \in Labels /\ "link" \in Labels /\ "resp" \in Labels
  /\ "update" \in Labels /\ "update" \in Ops \cup {"none"}
  /\ "deferred" \in Labels /\ "tail" \in Labels /\ "ret" \in Labels /\ "read" \in Labels
  /\ "await" \in Labels /\ "acted" \in Labels /\ "served" \in Labels /\ "heater" \in Labels
  /\ "evse" \in Labels /\ "fetched" \in Labels /\ "merge" \in Labels
  /\ "none" \in Ops \cup {"none"} /\ "app" \in Ops \cup {"none"}
  /\ "callback" \in Ops \cup {"none"} /\ "resp" \in Ops \cup {"none"}
  /\ "push" \in Ops \cup {"none"} /\ "fetch" \in Ops \cup {"none"}
  /\ "getall" \in Ops \cup {"none"} /\ 0 \in MaybeSeq /\ FALSE \in BOOLEAN
BY DEF Labels, CallAt, LinkAt, WalkAt, Ops, MaybeSeq

LEMMA BelowIs ==
  ASSUME stack \in Seq(Frame), stack # <<>>
  PROVE  /\ Len(stack) \in Nat \ {0} /\ Top \in Frame /\ Below \in Seq(Frame)
         /\ Len(Below) = Len(stack) - 1 /\ \A i \in 1 .. Len(stack) - 1 : Below[i] = stack[i]
<1>1. Len(stack) \in Nat /\ Len(stack) # 0
  OBVIOUS
<1>2. Len(stack) \in 1 .. Len(stack)
  BY <1>1
<1>3. Top \in Frame
  BY <1>2 DEF Top
<1>4. Below = [i \in 1 .. Len(stack) - 1 |-> stack[i]]
  BY <1>1 DEF Below
<1>5. Below \in Seq(Frame) /\ Len(Below) = Len(stack) - 1
  BY <1>1, <1>4
<1> QED
  BY <1>1, <1>3, <1>4, <1>5

LEMMA AppendIs ==
  ASSUME stack \in Seq(Frame), stack # <<>>, NEW f \in Frame, stack' = Append(Below, f)
  PROVE  /\ stack' \in Seq(Frame) /\ Len(stack) \in Nat \ {0} /\ Len(stack') = Len(stack)
         /\ Kept(Len(stack) - 1) /\ stack'[Len(stack)] = f
BY BelowIs DEF Kept

LEMMA GotoIs ==
  ASSUME stack \in Seq(Frame), stack # <<>>, NEW l \in Labels, Goto(l), ~Top.callback
  PROVE  stack' \in Seq(Frame) /\ Going(l)
<1>1. Top \in Frame
  BY BelowIs
<1> DEFINE f == [Top EXCEPT !.at = l]
<1>2. f \in Frame /\ f.at = l /\ f.seq = Top.seq /\ f.op = Top.op /\ f.rc = Top.rc /\ f.callback = Top.callback
  BY <1>1, Frames
<1>3. stack' = Append(Below, f)
  BY DEF Goto
<1> HIDE DEF f
<1>4. /\ stack' \in Seq(Frame) /\ Len(stack) \in Nat \ {0} /\ Len(stack') = Len(stack)
      /\ Kept(Len(stack) - 1) /\ stack'[Len(stack)] = f
  BY <1>2, <1>3, AppendIs
<1> QED
  BY <1>2, <1>4 DEF Going, On

LEMMA PushIs ==
  ASSUME stack \in Seq(Frame), stack # <<>>, NEW f \in Frame, NEW g \in Frame,
         stack' = Append(Append(Below, f), g)
  PROVE  /\ stack' \in Seq(Frame) /\ Len(stack) \in Nat \ {0} /\ Len(stack') = Len(stack) + 1
         /\ Kept(Len(stack) - 1) /\ stack'[Len(stack)] = f /\ stack'[Len(stack')] = g
<1>1. Len(stack) \in Nat \ {0} /\ Below \in Seq(Frame)
      /\ Len(Below) = Len(stack) - 1 /\ \A i \in 1 .. Len(stack) - 1 : Below[i] = stack[i]
  BY BelowIs
<1>2. Append(Below, f) \in Seq(Frame) /\ Len(Append(Below, f)) = Len(stack)
      /\ Append(Below, f)[Len(stack)] = f
      /\ \A i \in 1 .. Len(stack) - 1 : Append(Below, f)[i] = stack[i]
  BY <1>1
<1> QED
  BY <1>1, <1>2 DEF Kept

LEMMA GotoCallingIs ==
  ASSUME stack \in Seq(Frame), stack # <<>>, NEW l \in Labels, NEW g \in Frame,
         GotoCalling(l, g), ~Top.callback
  PROVE  stack' \in Seq(Frame) /\ GoingCalling(l, Top.seq) /\ stack'[Len(stack')] = g
<1>1. Top \in Frame
  BY BelowIs
<1> DEFINE f == [Top EXCEPT !.at = l]
<1>2. f \in Frame /\ f.at = l /\ f.seq = Top.seq /\ f.op = Top.op /\ f.rc = Top.rc /\ f.callback = Top.callback
  BY <1>1, Frames
<1>3. stack' = Append(Append(Below, f), g)
  BY DEF GotoCalling
<1> HIDE DEF f
<1>4. /\ stack' \in Seq(Frame) /\ Len(stack) \in Nat \ {0} /\ Len(stack') = Len(stack) + 1
      /\ Kept(Len(stack) - 1) /\ stack'[Len(stack)] = f /\ stack'[Len(stack')] = g
  BY <1>2, <1>3, PushIs
<1> QED
  BY <1>2, <1>4 DEF GoingCalling, On

LEMMA CallIs ==
  ASSUME stack \in Seq(Frame), NEW g \in Frame, stack' = Append(stack, g)
  PROVE  stack' \in Seq(Frame) /\ Calling /\ stack'[Len(stack')] = g
BY DEF Calling, Kept

LEMMA ReturnIs ==
  ASSUME stack \in Seq(Frame), stack # <<>>, stack' = Below
  PROVE  stack' \in Seq(Frame) /\ Returning
BY BelowIs DEF Returning, Kept

LEMMA ReturningAnswers == ASSUME Returning PROVE Answering
BY DEF Returning, Answering, Kept

LEMMA SetAt ==
  ASSUME NEW s \in Seq(Frame), NEW i \in Int, NEW f \in Frame
  PROVE  /\ [s EXCEPT ![i] = f] \in Seq(Frame) /\ Len([s EXCEPT ![i] = f]) = Len(s)
         /\ \A j \in 1 .. Len(s) : j # i => [s EXCEPT ![i] = f][j] = s[j]
         /\ i \in 1 .. Len(s) => [s EXCEPT ![i] = f][i] = f
<1>1. s \in [1 .. Len(s) -> Frame] /\ DOMAIN s = 1 .. Len(s) /\ Len(s) \in Nat
  OBVIOUS
<1>2. CASE i \in 1 .. Len(s)
  BY <1>2, ExceptSeq
<1>3. CASE i \notin 1 .. Len(s)
  <2>1. [s EXCEPT ![i] = f] = s
    BY <1>1, <1>3
  <2> QED
    BY <1>3, <2>1
<1> QED
  BY <1>2, <1>3

---------------------------------------------------------------------------
(* What each step does to the stack.                                       *)

LEMMA FreshIs ==
  ASSUME NEW l \in Labels, NEW o \in Ops \cup {"none"}, NEW s \in MaybeSeq, NEW b \in BOOLEAN,
         stack'[Len(stack')] = Call(l, o, s, b)
  PROVE  Fresh(l, o, s, 0)
<1>1. /\ Call(l, o, s, b).at = l /\ Call(l, o, s, b).op = o /\ Call(l, o, s, b).seq = s
      /\ Call(l, o, s, b).rc = 0 /\ Call(l, o, s, b).callback = FALSE
  BY DEF Call
<1> QED
  BY <1>1 DEF Fresh

LEMMA CallsIs ==
  ASSUME stack \in Seq(Frame), Calls
  PROVE  /\ stack' \in Seq(Frame) /\ Calling /\ (stack # <<>> => Top.callback)
         /\ \/ Fresh("poll", "none", 0, 0)
            \/ stack = <<>> /\ Fresh("cmd", "app", 0, 0)
            \/ stack # <<>> /\ Fresh("cmd", "callback", 0, 0)
<1> DEFINE p == Call("poll", "none", 0, FALSE)
           a == Call("cmd", "app", 0, FALSE)
           c == Call("cmd", "callback", 0, FALSE)
<1>1. p \in Frame /\ a \in Frame /\ c \in Frame
  BY Called, Names
<1>2. ASSUME NEW f \in Frame, stack' = Append(stack, f)
      PROVE  stack' \in Seq(Frame) /\ Calling /\ stack'[Len(stack')] = f
  BY <1>2, CallIs
<1>3. /\ stack'[Len(stack')] = p => Fresh("poll", "none", 0, 0)
      /\ stack'[Len(stack')] = a => Fresh("cmd", "app", 0, 0)
      /\ stack'[Len(stack')] = c => Fresh("cmd", "callback", 0, 0)
  BY FreshIs, Names
<1>4. CASE stack = <<>>
  <2>1. stack' = <<p>> \/ stack' = <<a>>
    BY <1>4 DEF Calls
  <2> HIDE DEF p, a, c
  <2>2. stack' = Append(stack, p) \/ stack' = Append(stack, a)
    BY <1>1, <1>4, <2>1
  <2> QED
    BY <1>1, <1>2, <1>3, <1>4, <2>2
<1>5. CASE stack # <<>>
  <2>1. Top.callback /\ (stack' = Append(stack, p) \/ stack' = Append(stack, c))
    BY <1>5 DEF Calls
  <2> HIDE DEF p, a, c
  <2> QED
    BY <1>1, <1>2, <1>3, <1>5, <2>1
<1> QED
  BY <1>4, <1>5

LEMMA CommandEntryIs ==
  ASSUME stack \in Seq(Frame), CommandEntry
  PROVE  /\ stack' \in Seq(Frame) /\ stack # <<>> /\ Top.at = "cmd"
         /\ GoingCalling("link", Top.seq) /\ Fresh("poll", "none", 0, 0)
<1>1. Call("poll", "none", 0, FALSE) \in Frame
  BY Called, Names
<1> QED
  BY <1>1, GotoCallingIs, FreshIs, Names DEF CommandEntry, At

LEMMA PollEntryIs ==
  ASSUME stack \in Seq(Frame), PollEntry
  PROVE  /\ stack' \in Seq(Frame) /\ stack # <<>> /\ Top.at = "poll"
         /\ \/ Going("resp")
            \/ ~Busy /\ GoingCalling("resp", Top.seq) /\ Fresh("read", "none", 0, 0)
<1>1. Call("read", "none", 0, FALSE) \in Frame
  BY Called, Names
<1>2. stack # <<>> /\ Top.at = "poll" /\ ~Top.callback
  BY DEF PollEntry, At
<1>3. CASE Busy
  BY <1>2, <1>3, GotoIs, Names DEF PollEntry
<1>4. CASE ~Busy
  <2>1. GotoCalling("resp", Call("read", "none", 0, FALSE))
    BY <1>4 DEF PollEntry
  <2> QED
    BY <1>1, <1>2, <1>4, <2>1, GotoCallingIs, FreshIs, Names
<1> QED
  BY <1>3, <1>4

LEMMA CommandLinkIs ==
  ASSUME stack \in Seq(Frame), CommandLink
  PROVE  /\ stack' \in Seq(Frame) /\ stack # <<>> /\ Top.at = "link" /\ Top \in Frame
         /\ \/ Busy /\ Going("resp") /\ lastError' = [op |-> Top.op, rc |-> 0] /\ wire' = wire
            \/ /\ ~Busy /\ GoingCalling("resp", Top.seq) /\ Fresh("await", Top.op, Top.seq, 0)
               /\ wire' = Sent(Top.op, Top.seq) /\ lastError' = lastError
<1>1. stack # <<>> /\ Top.at = "link" /\ ~Top.callback
  BY DEF CommandLink, At
<1>2. Top \in Frame /\ Top.op \in Ops \cup {"none"} /\ Top.seq \in MaybeSeq /\ Top.allow \in BOOLEAN
  BY <1>1, BelowIs, Fields
<1>3. CASE Busy
  BY <1>1, <1>2, <1>3, GotoIs, Names DEF CommandLink
<1>4. CASE ~Busy
  <2>1. /\ GotoCalling("resp", Call("await", Top.op, Top.seq, Top.allow))
        /\ wire' = Sent(Top.op, Top.seq) /\ lastError' = lastError
    BY <1>4 DEF CommandLink
  <2>2. Call("await", Top.op, Top.seq, Top.allow) \in Frame
    BY <1>2, Called, Names
  <2>3. /\ stack' \in Seq(Frame) /\ GoingCalling("resp", Top.seq)
        /\ stack'[Len(stack')] = Call("await", Top.op, Top.seq, Top.allow)
    BY <1>1, <2>1, <2>2, GotoCallingIs, Names
  <2>4. Fresh("await", Top.op, Top.seq, 0)
    BY <1>2, <2>3, FreshIs, Names
  <2> QED
    BY <1>1, <1>2, <1>4, <2>1, <2>3, <2>4
<1> QED
  BY <1>3, <1>4

LEMMA DrainRespIs ==
  ASSUME stack \in Seq(Frame), respQueue \in Seq(Verdicts), DrainResp
  PROVE  /\ stack' \in Seq(Frame) /\ stack # <<>> /\ Top.at = "resp"
         /\ \/ /\ ~Busy /\ respQueue # <<>> /\ respQueue' = Tail(respQueue) /\ Calling
               /\ Head(respQueue) \in Verdicts /\ Head(respQueue).seq \in MaybeSeq
               /\ Fresh("await", "resp", Head(respQueue).seq, 0)
               /\ wire' = Sent("resp", Head(respQueue).seq)
            \/ Going("deferred") /\ respQueue' = respQueue /\ wire' = wire /\ (Busy \/ respQueue = <<>>)
<1>1. stack # <<>> /\ Top.at = "resp" /\ ~Top.callback
  BY DEF DrainResp, At
<1>2. CASE respQueue # <<>> /\ ~Busy
  <2>1. Head(respQueue) \in Verdicts
    BY <1>2, HeadTailProperties
  <2>2. Head(respQueue).seq \in MaybeSeq /\ Head(respQueue).allow \in BOOLEAN
    BY <2>1 DEF Verdicts
  <2>3. Call("await", "resp", Head(respQueue).seq, Head(respQueue).allow) \in Frame
    BY <2>2, Called, Names
  <2>4. /\ respQueue' = Tail(respQueue) /\ wire' = Sent("resp", Head(respQueue).seq)
        /\ stack' = Append(stack, Call("await", "resp", Head(respQueue).seq, Head(respQueue).allow))
    BY <1>2 DEF DrainResp, DrainMayRun
  <2>5. /\ stack' \in Seq(Frame) /\ Calling
        /\ stack'[Len(stack')] = Call("await", "resp", Head(respQueue).seq, Head(respQueue).allow)
    BY <2>3, <2>4, CallIs
  <2>6. Fresh("await", "resp", Head(respQueue).seq, 0)
    BY <2>2, <2>5, FreshIs, Names
  <2> QED
    BY <1>1, <1>2, <2>1, <2>2, <2>4, <2>5, <2>6
<1>3. CASE ~(respQueue # <<>> /\ ~Busy)
  BY <1>1, <1>3, GotoIs, Names DEF DrainResp, DrainMayRun
<1> QED
  BY <1>2, <1>3

LEMMA DrainDeferredIs ==
  ASSUME stack \in Seq(Frame), lastError \in Codes, DrainDeferred
  PROVE  /\ stack' \in Seq(Frame) /\ stack # <<>> /\ Top.at = "deferred"
         /\ \/ Going("tail")
            \/ ~Busy /\ GoingCalling("tail", Top.seq) /\ Fresh("heater", lastError.op, 0, lastError.rc)
<1>1. stack # <<>> /\ Top.at = "deferred" /\ ~Top.callback
  BY DEF DrainDeferred, At
<1>2. lastError.op \in Ops \cup {"none"} /\ lastError.rc \in {0, 1}
  BY DEF Codes
<1>3. CASE deferred /\ ~Busy
  <2> DEFINE g == Call("heater", lastError.op, 0, FALSE)
             f == [g EXCEPT !.rc = lastError.rc]
  <2>1. g \in Frame /\ g.at = "heater" /\ g.op = lastError.op /\ g.seq = 0 /\ g.callback = FALSE
    <3>1. "heater" \in Labels /\ 0 \in MaybeSeq /\ FALSE \in BOOLEAN
      BY Names
    <3> QED
      BY <1>2, <3>1 DEF Call, Frame, MaybeSeq
  <2>2. GotoCalling("tail", f)
    BY <1>3 DEF DrainDeferred, DrainMayRun
  <2> HIDE DEF g
  <2>3. /\ f \in Frame /\ f.at = "heater" /\ f.op = lastError.op /\ f.seq = 0 /\ f.callback = FALSE
        /\ f.rc = lastError.rc
    BY <1>2, <2>1, CodeFrames
  <2> HIDE DEF f
  <2>4. stack' \in Seq(Frame) /\ GoingCalling("tail", Top.seq) /\ stack'[Len(stack')] = f
    BY <1>1, <2>2, <2>3, GotoCallingIs, Names
  <2>5. Fresh("heater", lastError.op, 0, lastError.rc)
    BY <2>3, <2>4 DEF Fresh
  <2> QED
    BY <1>1, <1>3, <2>4, <2>5
<1>4. CASE ~(deferred /\ ~Busy)
  BY <1>1, <1>4, GotoIs, Names DEF DrainDeferred, DrainMayRun
<1> QED
  BY <1>3, <1>4

LEMMA DrainUpdateIs ==
  ASSUME stack \in Seq(Frame), DrainUpdate
  PROVE  /\ stack' \in Seq(Frame) /\ stack # <<>> /\ Top.at = "tail"
         /\ \/ Going("ret")
            \/ ~Busy /\ GoingCalling("update", Top.seq) /\ Fresh("cmd", "update", 0, 0)
<1>1. stack # <<>> /\ Top.at = "tail" /\ ~Top.callback
  BY DEF DrainUpdate, At
<1>2. CASE Goto("ret")
  BY <1>1, <1>2, GotoIs, Names
<1>3. CASE ~Busy /\ GotoCalling("update", Call("cmd", "update", 0, FALSE))
  <2>1. Call("cmd", "update", 0, FALSE) \in Frame
    BY Called, Names
  <2> QED
    BY <1>1, <1>3, <2>1, GotoCallingIs, FreshIs, Names
<1> QED
  BY <1>2, <1>3 DEF DrainUpdate, DrainMayRun

LEMMA UpdateDrainedIs ==
  ASSUME stack \in Seq(Frame), UpdateDrained
  PROVE  stack' \in Seq(Frame) /\ stack # <<>> /\ Top.at = "update" /\ Going("ret")
BY GotoIs, Names DEF UpdateDrained, At

LEMMA CallReturnsIs ==
  ASSUME stack \in Seq(Frame), CallReturns
  PROVE  /\ stack' \in Seq(Frame) /\ stack # <<>> /\ Top.at = "ret" /\ Top \in Frame
         /\ Answering
         /\ Len(stack) > 1 => stack'[Len(stack) - 1].rc = stack[Len(stack) - 1].rc
         /\ Top.op \notin {"fetch", "getall"} => Returning
         /\ Len(stack) > 1 /\ Top.op \in {"fetch", "getall"} =>
              stack'[Len(stack) - 1].allow = (Top.rc = 0)
<1>1. /\ stack # <<>> /\ Top.at = "ret" /\ Len(stack) \in Nat \ {0} /\ Top \in Frame
      /\ Below \in Seq(Frame) /\ Len(Below) = Len(stack) - 1
      /\ \A i \in 1 .. Len(stack) - 1 : Below[i] = stack[i]
  BY BelowIs DEF CallReturns, At
<1>2. CASE Top.op \notin {"fetch", "getall"}
  <2>1. stack' = Below
    BY <1>2 DEF CallReturns
  <2>2. stack' \in Seq(Frame) /\ Returning
    BY <1>1, <2>1, ReturnIs
  <2>3. Len(stack) > 1 => stack'[Len(stack) - 1] = stack[Len(stack) - 1]
    BY <1>1, <2>1
  <2> QED
    BY <1>1, <1>2, <2>2, <2>3, ReturningAnswers
<1>3. CASE Top.op \in {"fetch", "getall"}
  <2> DEFINE n == Len(stack) - 1
             b == Top.rc = 0
             f == [Below[n] EXCEPT !.allow = b]
  <2>1. stack' = [Below EXCEPT ![n] = f]
    BY <1>3 DEF CallReturns
  <2>2. CASE n = 0
    <3>1. n \notin DOMAIN Below
      BY <1>1, <2>2
    <3>2. Below = [i \in DOMAIN Below |-> Below[i]]
      BY <1>1
    <3> HIDE DEF f
    <3>3. stack' = Below
      BY <2>1, <3>1, <3>2
    <3>4. stack' \in Seq(Frame) /\ Returning
      BY <1>1, <3>3, ReturnIs
    <3> QED
      BY <1>1, <1>3, <2>2, <3>4, ReturningAnswers
  <2>3. CASE n # 0
    <3>1. n \in Int /\ n \in 1 .. Len(Below)
      BY <1>1, <2>3
    <3>2. Below[n] \in Frame /\ b \in BOOLEAN /\ Below[n] = stack[n]
      BY <1>1, <3>1
    <3> HIDE DEF b
    <3>3. /\ f \in Frame /\ f.allow = b /\ f.at = Below[n].at /\ f.op = Below[n].op
          /\ f.seq = Below[n].seq /\ f.rc = Below[n].rc /\ f.callback = Below[n].callback
      BY <3>2, AllowedFrames
    <3> HIDE DEF f
    <3>4. /\ stack' \in Seq(Frame) /\ Len(stack') = n /\ stack'[n] = f
          /\ \A j \in 1 .. n : j # n => stack'[j] = Below[j]
      BY <1>1, <2>1, <3>1, <3>3, SetAt
    <3>5. Kept(n - 1)
      BY <1>1, <3>1, <3>4 DEF Kept
    <3>6. Answering
      BY <1>1, <3>1, <3>2, <3>3, <3>4, <3>5 DEF Answering
    <3>7. stack'[n].rc = stack[n].rc /\ stack'[n].allow = b
      BY <3>2, <3>3, <3>4
    <3> QED
      BY <1>1, <1>3, <3>4, <3>6, <3>7 DEF b
  <2> QED
    BY <2>2, <2>3
<1> QED
  BY <1>2, <1>3

LEMMA HeaterWorkIs ==
  ASSUME stack \in Seq(Frame), heaterPush \in Pushes, HeaterWork
  PROVE  /\ stack' \in Seq(Frame) /\ stack # <<>> /\ Top.at = "heater"
         /\ \/ Going("evse") /\ heaterPush' = heaterPush
            \/ /\ heaterPush' = NoPush /\ GoingCalling("evse", Top.seq) /\ heaterPush.seq # 0
               /\ heaterPush.seq \in MaybeSeq /\ Fresh("cmd", "push", heaterPush.seq, 0)
<1>1. stack # <<>> /\ Top.at = "heater" /\ ~Top.callback
  BY DEF HeaterWork, At
<1>2. heaterPush.seq \in MaybeSeq
  BY DEF Pushes
<1>3. CASE heaterPush.seq = 0
  BY <1>1, <1>3, GotoIs, Names DEF HeaterWork
<1>4. CASE heaterPush.seq # 0
  <2> DEFINE b == heaterPush.value = "active"
  <2>1. GotoCalling("evse", Call("cmd", "push", heaterPush.seq, b)) /\ heaterPush' = NoPush
    BY <1>4 DEF HeaterWork
  <2>2. b \in BOOLEAN
    OBVIOUS
  <2> HIDE DEF b
  <2>3. Call("cmd", "push", heaterPush.seq, b) \in Frame
    BY <1>2, <2>2, Called, Names
  <2>4. /\ stack' \in Seq(Frame) /\ GoingCalling("evse", Top.seq)
        /\ stack'[Len(stack')] = Call("cmd", "push", heaterPush.seq, b)
    BY <1>1, <2>1, <2>3, GotoCallingIs, Names
  <2>5. Fresh("cmd", "push", heaterPush.seq, 0)
    BY <1>2, <2>2, <2>4, FreshIs, Names
  <2> QED
    BY <1>1, <1>2, <1>4, <2>1, <2>4, <2>5
<1> QED
  BY <1>3, <1>4

\* The frame the EVSE's walk leaves, and the command above it.
LEMMA EvseFetchIs ==
  ASSUME stack \in Seq(Frame), evsePending \in MaybeSeq, EvseFetch
  PROVE  /\ stack' \in Seq(Frame) /\ stack # <<>> /\ Top.at = "evse" /\ Top \in Frame
         /\ \/ /\ evsePending = 0 /\ Returning /\ lastError' = [op |-> Top.op, rc |-> Top.rc]
               /\ evsePending' = evsePending
            \/ /\ evsePending # 0 /\ evsePending' = 0 /\ lastError' = lastError
               /\ GoingCalling("fetched", evsePending) /\ Fresh("cmd", "fetch", evsePending, 0)
<1>1. stack # <<>> /\ Top.at = "evse" /\ ~Top.callback /\ Top \in Frame
  BY BelowIs DEF EvseFetch, At
<1>2. CASE evsePending = 0
  BY <1>1, <1>2, ReturnIs DEF EvseFetch, WalkEnds, Return
<1>3. CASE evsePending # 0
  <2> DEFINE f == [Top EXCEPT !.at = "fetched", !.seq = evsePending]
             g == Call("cmd", "fetch", evsePending, FALSE)
  <2>1. stack' = Append(Append(Below, f), g) /\ evsePending' = 0 /\ lastError' = lastError
    BY <1>3 DEF EvseFetch
  <2>2. "fetched" \in Labels
    BY Names
  <2>3. /\ f \in Frame /\ f.at = "fetched" /\ f.seq = evsePending /\ f.op = Top.op /\ f.rc = Top.rc
        /\ f.callback = Top.callback
    BY <1>1, <2>2 DEF Frame, MaybeSeq
  <2>4. g \in Frame
    BY Called, Names
  <2> HIDE DEF f, g
  <2>5. /\ stack' \in Seq(Frame) /\ Len(stack) \in Nat \ {0} /\ Len(stack') = Len(stack) + 1
        /\ Kept(Len(stack) - 1) /\ stack'[Len(stack)] = f /\ stack'[Len(stack')] = g
    BY <1>1, <2>1, <2>3, <2>4, PushIs
  <2>6. Fresh("cmd", "fetch", evsePending, 0)
    BY <2>5, FreshIs, Names DEF g
  <2>7. GoingCalling("fetched", evsePending)
    BY <1>1, <2>3, <2>5 DEF GoingCalling, On
  <2> QED
    BY <1>1, <1>3, <2>1, <2>5, <2>6, <2>7
<1> QED
  BY <1>2, <1>3

LEMMA EvseVerdictIs ==
  ASSUME stack \in Seq(Frame), EvseVerdict
  PROVE  /\ stack' \in Seq(Frame) /\ stack # <<>> /\ Top.at = "fetched" /\ Top \in Frame
         /\ \/ ~Top.allow /\ Returning /\ lastError' = [op |-> Top.op, rc |-> Top.rc]
            \/ /\ lastError' = lastError /\ GoingCalling("merge", Top.seq)
               /\ Fresh("cmd", "resp", Top.seq, 0)
<1>1. stack # <<>> /\ Top.at = "fetched" /\ ~Top.callback /\ Top \in Frame
  BY BelowIs DEF EvseVerdict, At
<1>2. CASE ~Top.allow
  BY <1>1, <1>2, ReturnIs DEF EvseVerdict, WalkEnds, Return
<1>3. CASE Top.allow
  <2>1. PICK ok \in BOOLEAN :
          stack' = Append(Append(Below, [Top EXCEPT !.at = "merge", !.allow = ok]), Call("cmd", "resp", Top.seq, ok))
    BY <1>3 DEF EvseVerdict
  <2>2. lastError' = lastError
    BY <1>3 DEF EvseVerdict
  <2> DEFINE f == [Top EXCEPT !.at = "merge", !.allow = ok]
             g == Call("cmd", "resp", Top.seq, ok)
  <2>3. stack' = Append(Append(Below, f), g)
    BY <2>1
  <2>4. "merge" \in Labels /\ Top.seq \in MaybeSeq
    BY <1>1, Names, Fields
  <2>5. /\ f \in Frame /\ f.at = "merge" /\ f.seq = Top.seq /\ f.op = Top.op /\ f.rc = Top.rc
        /\ f.callback = Top.callback
    BY <1>1, <2>4 DEF Frame
  <2>6. g \in Frame
    BY <2>4, Called, Names
  <2> HIDE DEF f, g
  <2>7. /\ stack' \in Seq(Frame) /\ Len(stack) \in Nat \ {0} /\ Len(stack') = Len(stack) + 1
        /\ Kept(Len(stack) - 1) /\ stack'[Len(stack)] = f /\ stack'[Len(stack')] = g
    BY <1>1, <2>3, <2>5, <2>6, PushIs
  <2>8. Fresh("cmd", "resp", Top.seq, 0)
    BY <2>4, <2>7, FreshIs, Names DEF g
  <2>9. GoingCalling("merge", Top.seq)
    BY <1>1, <2>5, <2>7 DEF GoingCalling, On
  <2> QED
    BY <1>1, <2>2, <2>7, <2>8, <2>9
<1> QED
  BY <1>2, <1>3

LEMMA EndIs ==
  ASSUME stack \in Seq(Frame), EvseMerge \/ SyncRebuild \/ ReadEnds
  PROVE  /\ stack' \in Seq(Frame) /\ stack # <<>> /\ Returning
         /\ EvseMerge => Top.at = "merge" /\ lastError' = [op |-> Top.op, rc |-> Top.rc]
         /\ SyncRebuild => Top.at = "synced" /\ lastError' = lastError
         /\ ReadEnds => Top.at = "read" /\ lastError' = lastError
BY ReturnIs DEF EvseMerge, SyncRebuild, ReadEnds, At, WalkEnds, Return, rest

LEMMA SyncClearIs ==
  ASSUME stack \in Seq(Frame), SyncClear
  PROVE  /\ stack' \in Seq(Frame) /\ stack # <<>> /\ Top.at = "sync"
         /\ GoingCalling("synced", Top.seq) /\ Fresh("cmd", "getall", 0, 0)
<1>1. Call("cmd", "getall", 0, FALSE) \in Frame
  BY Called, Names
<1>2. GotoCalling("synced", Call("cmd", "getall", 0, FALSE)) /\ stack # <<>> /\ Top.at = "sync" /\ ~Top.callback
  BY DEF SyncClear, At
<1> QED
  BY <1>1, <1>2, GotoCallingIs, FreshIs, Names

LEMMA CallbackIs ==
  ASSUME stack \in Seq(Frame), DispatchVerdict \/ DispatchOther \/ CallbackReturns
  PROVE  /\ stack' \in Seq(Frame) /\ stack # <<>> /\ Going(Top.at)
         /\ DispatchVerdict => Top.at \in LinkAt
<1>1. stack # <<>>
  BY DEF DispatchVerdict, DispatchOther, CallbackReturns, Reading
<1>2. PICK b \in BOOLEAN : stack' = Append(Below, [Top EXCEPT !.callback = b]) /\ (b => Top.at \in LinkAt)
  <2>1. CASE CallbackReturns
    BY <2>1 DEF CallbackReturns
  <2>2. CASE DispatchVerdict \/ DispatchOther
    BY <2>2 DEF DispatchVerdict, DispatchOther, EnterCallback, Reading, LinkAt
  <2> QED
    BY <2>1, <2>2
<1>3. Top \in Frame
  BY <1>1, BelowIs
<1> DEFINE f == [Top EXCEPT !.callback = b]
<1>4. /\ f \in Frame /\ f.callback = b /\ f.at = Top.at /\ f.seq = Top.seq /\ f.op = Top.op /\ f.rc = Top.rc
  BY <1>3, BackFrames
<1>5. stack' = Append(Below, f)
  BY <1>2
<1> HIDE DEF f
<1>6. /\ stack' \in Seq(Frame) /\ Len(stack) \in Nat \ {0} /\ Len(stack') = Len(stack)
      /\ Kept(Len(stack) - 1) /\ stack'[Len(stack)] = f
  BY <1>1, <1>4, <1>5, AppendIs
<1>7. DispatchVerdict => Top.at \in LinkAt
  BY DEF DispatchVerdict, Reading, LinkAt
<1> QED
  BY <1>1, <1>2, <1>4, <1>6, <1>7 DEF Going, On

\* The caller an answer is for is the frame below, if it sent that command.
LEMMA AnsweredIs ==
  ASSUME stack \in Seq(Frame), Answered
  PROVE  /\ stack' \in Seq(Frame) /\ stack # <<>> /\ Top.at = "served" /\ Top \in Frame
         /\ Answering
         /\ \/ /\ stack[Len(stack) - 1].op = Top.op /\ stack[Len(stack) - 1].seq = Top.seq
               /\ lastError' = [op |-> Top.op, rc |-> Top.rc]
               /\ Len(stack) > 1 => stack'[Len(stack) - 1].rc = Top.rc
            \/ /\ ~(stack[Len(stack) - 1].op = Top.op /\ stack[Len(stack) - 1].seq = Top.seq)
               /\ lastError' = lastError /\ Returning
<1>1. /\ stack # <<>> /\ Top.at = "served" /\ Len(stack) \in Nat \ {0} /\ Top \in Frame
      /\ Below \in Seq(Frame) /\ Len(Below) = Len(stack) - 1
      /\ \A i \in 1 .. Len(stack) - 1 : Below[i] = stack[i]
  BY BelowIs DEF Answered, At
<1> DEFINE n == Len(stack) - 1
           c == Top.rc
           via == stack[n].op = Top.op /\ stack[n].seq = Top.seq
           f == [Below[n] EXCEPT !.rc = c]
<1>2. c \in {0, 1}
  BY <1>1, Fields
<1>3. CASE ~via
  <2>1. stack' = Below /\ lastError' = lastError
    BY <1>3 DEF Answered
  <2>2. stack' \in Seq(Frame) /\ Returning
    BY <1>1, <2>1, ReturnIs
  <2> QED
    BY <1>1, <1>3, <2>1, <2>2, ReturningAnswers
<1>4. CASE via
  <2>1. stack' = [Below EXCEPT ![n] = f] /\ lastError' = [op |-> Top.op, rc |-> c]
    BY <1>4 DEF Answered
  <2>2. CASE n = 0
    <3>1. n \notin DOMAIN Below
      BY <1>1, <2>2
    <3>2. Below = [i \in DOMAIN Below |-> Below[i]]
      BY <1>1
    <3> HIDE DEF f
    <3>3. stack' = Below
      BY <2>1, <3>1, <3>2
    <3>4. stack' \in Seq(Frame) /\ Returning
      BY <1>1, <3>3, ReturnIs
    <3> QED
      BY <1>1, <1>4, <2>1, <2>2, <3>4, ReturningAnswers
  <2>3. CASE n # 0
    <3>1. n \in Int /\ n \in 1 .. Len(Below)
      BY <1>1, <2>3
    <3>2. Below[n] \in Frame /\ Below[n] = stack[n]
      BY <1>1, <3>1
    <3>3. /\ f \in Frame /\ f.rc = c /\ f.at = Below[n].at /\ f.op = Below[n].op
          /\ f.seq = Below[n].seq /\ f.callback = Below[n].callback
      BY <1>2, <3>2, CodeFrames
    <3> HIDE DEF f
    <3>4. /\ stack' \in Seq(Frame) /\ Len(stack') = n /\ stack'[n] = f
          /\ \A j \in 1 .. n : j # n => stack'[j] = Below[j]
      BY <1>1, <2>1, <3>1, <3>3, SetAt
    <3>5. Kept(n - 1)
      BY <1>1, <3>1, <3>4 DEF Kept
    <3>6. Answering
      BY <1>1, <3>1, <3>2, <3>3, <3>4, <3>5 DEF Answering
    <3>7. stack'[n].rc = c
      BY <3>3, <3>4
    <3> QED
      BY <1>1, <1>4, <2>1, <3>4, <3>6, <3>7
  <2> QED
    BY <2>2, <2>3
<1> QED
  BY <1>3, <1>4

LEMMA CoprocActsIs ==
  ASSUME stack \in Seq(Frame), CoprocActs
  PROVE  /\ stack' \in Seq(Frame)
         /\ \E i \in 1 .. Len(stack), c \in {0, 1} :
              /\ stack[i].at = "await" /\ InFlightTo(i, "acted", c)
              /\ stack[i].op = "fetch" => c = (IF stack[i].seq \in Open THEN 0 ELSE 1)
<1>1. PICK i \in InFlight("await"), c \in {0, 1} :
        /\ stack' = [stack EXCEPT ![i].at = "acted", ![i].rc = c]
        /\ stack[i].op = "fetch" => c = (IF stack[i].seq \in Open THEN 0 ELSE 1)
  BY DEF CoprocActs
<1>2. Len(stack) \in Nat /\ i \in 1 .. Len(stack) /\ i \in Int /\ stack[i].at = "await" /\ stack[i] \in Frame
  BY DEF InFlight
<1> DEFINE f == [stack[i] EXCEPT !.at = "acted", !.rc = c]
<1>3. stack' = [stack EXCEPT ![i] = f]
  BY <1>1, <1>2
<1>4. "acted" \in Labels
  BY Names
<1>5. /\ f \in Frame /\ f.at = "acted" /\ f.rc = c /\ f.op = stack[i].op /\ f.seq = stack[i].seq
      /\ f.callback = stack[i].callback
  BY <1>2, <1>4 DEF Frame
<1> HIDE DEF f
<1>6. /\ stack' \in Seq(Frame) /\ Len(stack') = Len(stack) /\ stack'[i] = f
      /\ \A j \in 1 .. Len(stack) : j # i => stack'[j] = stack[j]
  BY <1>2, <1>3, <1>5, SetAt
<1>7. InFlightTo(i, "acted", c)
  BY <1>2, <1>5, <1>6 DEF InFlightTo
<1> QED
  BY <1>1, <1>2, <1>6, <1>7

LEMMA CoprocAnswersIs ==
  ASSUME stack \in Seq(Frame), CoprocAnswers
  PROVE  /\ stack' \in Seq(Frame)
         /\ \E i \in 1 .. Len(stack) : stack[i].at = "acted" /\ InFlightTo(i, "served", stack[i].rc)
<1>1. PICK i \in InFlight("acted") : stack' = [stack EXCEPT ![i].at = "served"]
  BY DEF CoprocAnswers
<1>2. Len(stack) \in Nat /\ i \in 1 .. Len(stack) /\ i \in Int /\ stack[i].at = "acted" /\ stack[i] \in Frame
  BY DEF InFlight
<1> DEFINE f == [stack[i] EXCEPT !.at = "served"]
<1>3. stack' = [stack EXCEPT ![i] = f]
  BY <1>1, <1>2
<1>4. "served" \in Labels
  BY Names
<1>5. /\ f \in Frame /\ f.at = "served" /\ f.rc = stack[i].rc /\ f.op = stack[i].op
      /\ f.seq = stack[i].seq /\ f.callback = stack[i].callback
  BY <1>2, <1>4, Frames
<1> HIDE DEF f
<1>6. /\ stack' \in Seq(Frame) /\ Len(stack') = Len(stack) /\ stack'[i] = f
      /\ \A j \in 1 .. Len(stack) : j # i => stack'[j] = stack[j]
  BY <1>2, <1>3, <1>5, SetAt
<1>7. InFlightTo(i, "served", stack[i].rc)
  BY <1>2, <1>5, <1>6 DEF InFlightTo
<1> QED
  BY <1>2, <1>6, <1>7

---------------------------------------------------------------------------
(* The shape of the stack.                                                 *)

\* What a frame becomes while nothing it called is above it.
Steps == {<<"poll", "resp">>, <<"link", "resp">>, <<"deferred", "tail">>, <<"tail", "ret">>,
          <<"update", "ret">>, <<"heater", "evse">>}

\* The calls of hearthCommand() and poll(); those into the link and into the
\* registry are made by none while the link is reading.
CommandMove ==
  \/ Top.at = "cmd" /\ GoingCalling("link", Top.seq) /\ Fresh("poll", "none", 0, 0)
  \/ Top.at = "poll" /\ ~Busy /\ GoingCalling("resp", Top.seq) /\ Fresh("read", "none", 0, 0)
  \/ Top.at = "link" /\ ~Busy /\ GoingCalling("resp", Top.seq) /\ Fresh("await", Top.op, Top.seq, 0)
  \/ /\ Top.at = "deferred" /\ ~Busy /\ GoingCalling("tail", Top.seq)
     /\ Fresh("heater", lastError.op, 0, lastError.rc)
  \/ Top.at = "tail" /\ ~Busy /\ GoingCalling("update", Top.seq) /\ Fresh("cmd", "update", 0, 0)

\* The calls of the walk and of the reconcile.
WalkMove ==
  \/ /\ Top.at = "heater" /\ heaterPush.seq # 0 /\ GoingCalling("evse", Top.seq)
     /\ Fresh("cmd", "push", heaterPush.seq, 0)
  \/ Top.at = "evse" /\ GoingCalling("fetched", evsePending) /\ Fresh("cmd", "fetch", evsePending, 0)
  \/ Top.at = "fetched" /\ GoingCalling("merge", Top.seq) /\ Fresh("cmd", "resp", Top.seq, 0)
  \/ Top.at = "sync" /\ GoingCalling("synced", Top.seq) /\ Fresh("cmd", "getall", 0, 0)

SketchMove ==
  /\ Calling /\ (stack # <<>> => Top.callback)
  /\ \/ Fresh("poll", "none", 0, 0)
     \/ stack = <<>> /\ Fresh("cmd", "app", 0, 0)
     \/ stack # <<>> /\ Fresh("cmd", "callback", 0, 0)

DrainMove == /\ stack # <<>> /\ Top.at = "resp" /\ ~Busy /\ Calling
             /\ \E s \in MaybeSeq : Fresh("await", "resp", s, 0)

PlainMove ==
  /\ stack # <<>>
  /\ \/ Going(Top.at)
     \/ /\ \E l \in Labels : Going(l) /\ <<Top.at, l>> \in Steps
        /\ Top.at = "link" => Busy
     \/ Top.at = "resp" /\ Going("deferred") /\ (Busy \/ respQueue' = <<>>)

Returns == CallReturns \/ EvseFetch \/ EvseVerdict \/ EvseMerge \/ SyncRebuild \/ ReadEnds \/ Answered

ReturnMove == /\ stack # <<>> /\ Answering
              /\ Top.at \in {"ret", "evse", "fetched", "merge", "synced", "read", "served"}

LinkMove == \E i \in 1 .. Len(stack), l \in {"acted", "served"}, c \in {0, 1} :
              stack[i].at \in {"await", "acted"} /\ InFlightTo(i, l, c)

Moves ==
  \/ stack # <<>> /\ (CommandMove \/ WalkMove)
  \/ SketchMove \/ DrainMove \/ PlainMove
  \/ Returns /\ ReturnMove
  \/ CoprocStep /\ LinkMove
  \/ stack' = stack

LEMMA PlainMoves ==
  ASSUME stack # <<>>, NEW l \in Labels, Going(l), <<Top.at, l>> \in Steps, Top.at = "link" => Busy
  PROVE  Moves
BY DEF Moves, PlainMove

LEMMA CommandMoves ==
  ASSUME Typed, CommandEntry \/ PollEntry \/ CommandLink \/ DrainResp \/ DrainDeferred \/ DrainUpdate \/ UpdateDrained \/ CallReturns
  PROVE  Moves
<1> USE DEF Typed
<1>1. CASE CommandEntry
  <2>1. stack # <<>> /\ Top.at = "cmd" /\ GoingCalling("link", Top.seq) /\ Fresh("poll", "none", 0, 0)
    BY <1>1, CommandEntryIs
  <2> QED
    BY <2>1 DEF Moves, CommandMove
<1>2. CASE PollEntry
  <2>1. /\ stack # <<>> /\ Top.at = "poll"
        /\ \/ Going("resp")
           \/ ~Busy /\ GoingCalling("resp", Top.seq) /\ Fresh("read", "none", 0, 0)
    BY <1>2, PollEntryIs
  <2>2. CASE Going("resp")
    BY <2>1, <2>2, PlainMoves, Names DEF Steps
  <2>3. CASE ~Busy /\ GoingCalling("resp", Top.seq) /\ Fresh("read", "none", 0, 0)
    BY <2>1, <2>3 DEF Moves, CommandMove
  <2> QED
    BY <2>1, <2>2, <2>3
<1>3. CASE CommandLink
  <2>1. /\ stack # <<>> /\ Top.at = "link"
        /\ \/ Busy /\ Going("resp")
           \/ ~Busy /\ GoingCalling("resp", Top.seq) /\ Fresh("await", Top.op, Top.seq, 0)
    BY <1>3, CommandLinkIs
  <2>2. CASE Busy /\ Going("resp")
    BY <2>1, <2>2, PlainMoves, Names DEF Steps
  <2>3. CASE ~Busy /\ GoingCalling("resp", Top.seq) /\ Fresh("await", Top.op, Top.seq, 0)
    BY <2>1, <2>3 DEF Moves, CommandMove
  <2> QED
    BY <2>1, <2>2, <2>3
<1>4. CASE DrainResp
  BY <1>4, DrainRespIs, Names DEF Moves, DrainMove, PlainMove, Steps
<1>5. CASE DrainDeferred
  <2>1. /\ stack # <<>> /\ Top.at = "deferred"
        /\ \/ Going("tail")
           \/ /\ ~Busy /\ GoingCalling("tail", Top.seq)
              /\ Fresh("heater", lastError.op, 0, lastError.rc)
    BY <1>5, DrainDeferredIs
  <2>2. CASE Going("tail")
    BY <2>1, <2>2, PlainMoves, Names DEF Steps
  <2>3. CASE ~Busy /\ GoingCalling("tail", Top.seq) /\ Fresh("heater", lastError.op, 0, lastError.rc)
    BY <2>1, <2>3 DEF Moves, CommandMove
  <2> QED
    BY <2>1, <2>2, <2>3
<1>6. CASE DrainUpdate
  <2>1. /\ stack # <<>> /\ Top.at = "tail"
        /\ \/ Going("ret")
           \/ ~Busy /\ GoingCalling("update", Top.seq) /\ Fresh("cmd", "update", 0, 0)
    BY <1>6, DrainUpdateIs
  <2>2. CASE Going("ret")
    BY <2>1, <2>2, PlainMoves, Names DEF Steps
  <2>3. CASE ~Busy /\ GoingCalling("update", Top.seq) /\ Fresh("cmd", "update", 0, 0)
    BY <2>1, <2>3 DEF Moves, CommandMove
  <2> QED
    BY <2>1, <2>2, <2>3
<1>8. CASE UpdateDrained
  BY <1>8, UpdateDrainedIs, Names DEF Moves, PlainMove, Steps
<1>7. CASE CallReturns
  BY <1>7, CallReturnsIs DEF Moves, Returns, ReturnMove
<1> QED
  BY <1>1, <1>2, <1>3, <1>4, <1>5, <1>6, <1>7, <1>8

LEMMA WalkMoves ==
  ASSUME Typed, HeaterWork \/ EvseFetch \/ EvseVerdict \/ EvseMerge \/ SyncClear \/ SyncRebuild
  PROVE  Moves
<1> USE DEF Typed
<1>1. CASE HeaterWork
  BY <1>1, HeaterWorkIs, Names DEF Moves, WalkMove, PlainMove, Steps
<1>2. CASE EvseFetch
  BY <1>2, EvseFetchIs, ReturningAnswers DEF Moves, WalkMove, Returns, ReturnMove
<1>3. CASE EvseVerdict
  BY <1>3, EvseVerdictIs, ReturningAnswers DEF Moves, WalkMove, Returns, ReturnMove
<1>4. CASE EvseMerge \/ SyncRebuild
  BY <1>4, EndIs, ReturningAnswers DEF Moves, Returns, ReturnMove
<1>5. CASE SyncClear
  BY <1>5, SyncClearIs DEF Moves, WalkMove
<1> QED
  BY <1>1, <1>2, <1>3, <1>4, <1>5

LEMMA AllMoves == ASSUME Typed, [Next]_vars PROVE Moves /\ stack' \in Seq(Frame)
<1> USE DEF Typed
<1>1. CASE Calls
  <2>1. stack' \in Seq(Frame) /\ SketchMove
    BY <1>1, CallsIs DEF SketchMove
  <2> QED
    BY <2>1 DEF Moves
<1>2. CASE CommandEntry \/ PollEntry \/ CommandLink \/ DrainResp \/ DrainDeferred \/ DrainUpdate \/ UpdateDrained \/ CallReturns
  <2>1. Moves
    BY <1>2, CommandMoves
  <2> QED
    BY <1>2, <2>1, CommandEntryIs, PollEntryIs, CommandLinkIs, DrainRespIs, DrainDeferredIs, DrainUpdateIs,
       UpdateDrainedIs, CallReturnsIs
<1>3. CASE HeaterWork \/ EvseFetch \/ EvseVerdict \/ EvseMerge \/ SyncClear \/ SyncRebuild
  <2>1. Moves
    BY <1>3, WalkMoves
  <2> QED
    BY <1>3, <2>1, HeaterWorkIs, EvseFetchIs, EvseVerdictIs, EndIs, SyncClearIs
<1>4. CASE DispatchVerdict \/ DispatchOther \/ CallbackReturns
  <2>1. stack' \in Seq(Frame) /\ stack # <<>> /\ Going(Top.at)
    BY <1>4, CallbackIs
  <2> QED
    BY <2>1 DEF Moves, PlainMove
<1>5. CASE DispatchTargets \/ DispatchBlock \/ CoprocForwards \/ WindowExpires \/ UNCHANGED vars
  BY <1>5 DEF DispatchTargets, DispatchBlock, CoprocForwards, WindowExpires, vars, Moves
<1>6. CASE ReadEnds
  BY <1>6, EndIs, ReturningAnswers DEF Moves, Returns, ReturnMove
<1>7. CASE Answered
  BY <1>7, AnsweredIs DEF Moves, Returns, ReturnMove
<1>8. CASE CoprocActs
  <2>1. PICK i \in 1 .. Len(stack), c \in {0, 1} :
          stack[i].at = "await" /\ InFlightTo(i, "acted", c) /\ stack' \in Seq(Frame)
    BY <1>8, CoprocActsIs
  <2>2. LinkMove
    BY <2>1 DEF LinkMove, LinkAt
  <2> QED
    BY <1>8, <2>1, <2>2, Zenon DEF Moves, CoprocStep
<1>9. CASE CoprocAnswers
  <2>1. PICK i \in 1 .. Len(stack) :
          stack[i].at = "acted" /\ InFlightTo(i, "served", stack[i].rc) /\ stack' \in Seq(Frame)
    BY <1>9, CoprocAnswersIs
  <2>2. stack[i].rc \in {0, 1}
    BY <2>1, Fields
  <2>3. LinkMove
    BY <2>1, <2>2 DEF LinkMove, LinkAt
  <2> QED
    BY <1>9, <2>1, <2>3, Zenon DEF Moves, CoprocStep
<1> QED
  BY <1>1, <1>2, <1>3, <1>4, <1>5, <1>6, <1>7, <1>8, <1>9 DEF Next, HostStep, CoprocStep

\* Only a frame inside the link runs a callback.
Handed == \A i \in 1 .. Len(stack) : stack[i].callback => stack[i].at \in LinkAt

\* Nothing but refused commands above a reading link.
Nested ==
  \A i, j \in 1 .. Len(stack) : i < j /\ stack[i].at \in LinkAt =>
    stack[j].at \in CallAt /\ stack[j].op \in {"none", "callback"}

\* Where a frame that called another does not stand.
Callers ==
  \A i \in 1 .. Len(stack) : i < Len(stack) =>
    stack[i].at \notin {"poll", "cmd", "deferred", "ret", "heater", "sync"}

\* The EVSE's walk waits for its own fetch.
Fetching ==
  \A i \in 1 .. Len(stack) : stack[i].at = "fetched" /\ i < Len(stack) =>
    /\ stack[i + 1].at \in CallAt /\ stack[i + 1].op = "fetch"
    /\ stack[i + 1].seq = stack[i].seq

\* The sketch's own command is the outermost call.
OneApp ==
  \A i \in 1 .. Len(stack) : stack[i].op = "app" /\ stack[i].at \in CallAt => i = 1

\* The link is entered from a command or a drain that waits for it.
Readers ==
  \A i \in 1 .. Len(stack) : stack[i].at \in LinkAt => i > 1 /\ stack[i - 1].at = "resp"

Commands ==
  \A i \in 1 .. Len(stack) :
    stack[i].at \in {"cmd", "link", "await", "acted", "served"} => stack[i].op # "none"

\* What the walk sends, and the reconcile, is called from there.
Senders ==
  \A i \in 1 .. Len(stack) :
    /\ stack[i].at \in CallAt /\ stack[i].op \in {"push", "fetch", "resp", "getall"} =>
         i > 1 /\ stack[i - 1].at \in WalkAt \cup {"synced"}
    /\ stack[i].at \in {"sync", "synced"} => i = 1

StackInv ==
  Handed /\ Nested /\ Callers /\ Fetching /\ OneApp /\ Readers /\ Commands /\ Senders

LEMMA Positions ==
  ASSUME stack \in Seq(Frame)
  PROVE  /\ DOMAIN stack = 1 .. Len(stack) /\ Len(stack) \in Nat
         /\ \A i \in 1 .. Len(stack) : stack[i] \in Frame
         /\ stack # <<>> => Len(stack) \in 1 .. Len(stack) /\ Top = stack[Len(stack)]
         /\ (stack = <<>>) <=> (Len(stack) = 0)
         /\ ~Busy => \A i \in 1 .. Len(stack) : stack[i].at \notin LinkAt
         /\ Busy => \E i \in 1 .. Len(stack) : stack[i].at \in LinkAt
BY BelowIs DEF Top, Busy, LinkAt

LEMMA HandedKept == ASSUME stack \in Seq(Frame), Handed, Moves PROVE Handed'
<1>1. /\ Len(stack) \in Nat /\ (stack # <<>> => Len(stack) \in 1 .. Len(stack) /\ Top = stack[Len(stack)])
      /\ ((stack = <<>>) <=> (Len(stack) = 0))
      /\ (~Busy => \A i \in 1 .. Len(stack) : stack[i].at \notin LinkAt)
  BY Positions
<1>2. CASE stack # <<>> /\ CommandMove
  <2>1. CASE Top.at = "cmd" /\ GoingCalling("link", Top.seq) /\ Fresh("poll", "none", 0, 0)
    BY <1>1, <2>1 DEF GoingCalling, On, Kept, Fresh, Handed, LinkAt
  <2>2. CASE Top.at = "poll" /\ ~Busy /\ GoingCalling("resp", Top.seq) /\ Fresh("read", "none", 0, 0)
    BY <1>1, <2>2 DEF GoingCalling, On, Kept, Fresh, Handed, LinkAt
  <2>3. CASE Top.at = "link" /\ ~Busy /\ GoingCalling("resp", Top.seq) /\ Fresh("await", Top.op, Top.seq, 0)
    BY <1>1, <2>3 DEF GoingCalling, On, Kept, Fresh, Handed, LinkAt
  <2>4. CASE /\ Top.at = "deferred" /\ ~Busy /\ GoingCalling("tail", Top.seq)
             /\ Fresh("heater", lastError.op, 0, lastError.rc)
    BY <1>1, <2>4 DEF GoingCalling, On, Kept, Fresh, Handed, LinkAt
  <2>5. CASE Top.at = "tail" /\ ~Busy /\ GoingCalling("update", Top.seq) /\ Fresh("cmd", "update", 0, 0)
    BY <1>1, <2>5 DEF GoingCalling, On, Kept, Fresh, Handed, LinkAt
  <2> QED
    BY <1>2, <2>1, <2>2, <2>3, <2>4, <2>5 DEF CommandMove
<1>3. CASE stack # <<>> /\ WalkMove
  <2>1. CASE /\ Top.at = "heater" /\ heaterPush.seq # 0 /\ GoingCalling("evse", Top.seq)
             /\ Fresh("cmd", "push", heaterPush.seq, 0)
    BY <1>1, <2>1 DEF GoingCalling, On, Kept, Fresh, Handed, LinkAt
  <2>2. CASE Top.at = "evse" /\ GoingCalling("fetched", evsePending) /\ Fresh("cmd", "fetch", evsePending, 0)
    BY <1>1, <2>2 DEF GoingCalling, On, Kept, Fresh, Handed, LinkAt
  <2>3. CASE Top.at = "fetched" /\ GoingCalling("merge", Top.seq) /\ Fresh("cmd", "resp", Top.seq, 0)
    BY <1>1, <2>3 DEF GoingCalling, On, Kept, Fresh, Handed, LinkAt
  <2>4. CASE Top.at = "sync" /\ GoingCalling("synced", Top.seq) /\ Fresh("cmd", "getall", 0, 0)
    BY <1>1, <2>4 DEF GoingCalling, On, Kept, Fresh, Handed, LinkAt
  <2> QED
    BY <1>3, <2>1, <2>2, <2>3, <2>4 DEF WalkMove
<1>4. CASE SketchMove
  BY <1>1, <1>4 DEF SketchMove, Calling, Kept, Fresh, Handed, LinkAt
<1>5. CASE DrainMove
  BY <1>1, <1>5 DEF DrainMove, Calling, Kept, Fresh, Handed, LinkAt
<1>6. CASE PlainMove
  BY <1>1, <1>6 DEF PlainMove, Going, On, Kept, Steps, Handed, LinkAt
<1>7. CASE ReturnMove
  BY <1>1, <1>7 DEF ReturnMove, Answering, Kept, Handed, LinkAt
<1>8. CASE LinkMove
  BY <1>1, <1>8 DEF LinkMove, InFlightTo, Handed, LinkAt
<1>9. CASE stack' = stack
  BY <1>1, <1>9 DEF Handed, LinkAt
<1> QED
  BY <1>2, <1>3, <1>4, <1>5, <1>6, <1>7, <1>8, <1>9 DEF Moves

LEMMA NestedKept == ASSUME stack \in Seq(Frame), Nested, Moves PROVE Nested'
<1>1. /\ Len(stack) \in Nat /\ (stack # <<>> => Len(stack) \in 1 .. Len(stack) /\ Top = stack[Len(stack)])
      /\ ((stack = <<>>) <=> (Len(stack) = 0))
      /\ (~Busy => \A i \in 1 .. Len(stack) : stack[i].at \notin LinkAt)
  BY Positions
<1>2. CASE stack # <<>> /\ CommandMove
  <2>1. CASE Top.at = "cmd" /\ GoingCalling("link", Top.seq) /\ Fresh("poll", "none", 0, 0)
    BY <1>1, <2>1 DEF GoingCalling, On, Kept, Fresh, Nested, LinkAt, CallAt
  <2>2. CASE Top.at = "poll" /\ ~Busy /\ GoingCalling("resp", Top.seq) /\ Fresh("read", "none", 0, 0)
    BY <1>1, <2>2 DEF GoingCalling, On, Kept, Fresh, Nested, LinkAt, CallAt
  <2>3. CASE Top.at = "link" /\ ~Busy /\ GoingCalling("resp", Top.seq) /\ Fresh("await", Top.op, Top.seq, 0)
    BY <1>1, <2>3 DEF GoingCalling, On, Kept, Fresh, Nested, LinkAt, CallAt
  <2>4. CASE /\ Top.at = "deferred" /\ ~Busy /\ GoingCalling("tail", Top.seq)
             /\ Fresh("heater", lastError.op, 0, lastError.rc)
    BY <1>1, <2>4 DEF GoingCalling, On, Kept, Fresh, Nested, LinkAt, CallAt
  <2>5. CASE Top.at = "tail" /\ ~Busy /\ GoingCalling("update", Top.seq) /\ Fresh("cmd", "update", 0, 0)
    BY <1>1, <2>5 DEF GoingCalling, On, Kept, Fresh, Nested, LinkAt, CallAt
  <2> QED
    BY <1>2, <2>1, <2>2, <2>3, <2>4, <2>5 DEF CommandMove
<1>3. CASE stack # <<>> /\ WalkMove
  <2>1. CASE /\ Top.at = "heater" /\ heaterPush.seq # 0 /\ GoingCalling("evse", Top.seq)
             /\ Fresh("cmd", "push", heaterPush.seq, 0)
    BY <1>1, <2>1 DEF GoingCalling, On, Kept, Fresh, Nested, LinkAt, CallAt
  <2>2. CASE Top.at = "evse" /\ GoingCalling("fetched", evsePending) /\ Fresh("cmd", "fetch", evsePending, 0)
    BY <1>1, <2>2 DEF GoingCalling, On, Kept, Fresh, Nested, LinkAt, CallAt
  <2>3. CASE Top.at = "fetched" /\ GoingCalling("merge", Top.seq) /\ Fresh("cmd", "resp", Top.seq, 0)
    BY <1>1, <2>3 DEF GoingCalling, On, Kept, Fresh, Nested, LinkAt, CallAt
  <2>4. CASE Top.at = "sync" /\ GoingCalling("synced", Top.seq) /\ Fresh("cmd", "getall", 0, 0)
    BY <1>1, <2>4 DEF GoingCalling, On, Kept, Fresh, Nested, LinkAt, CallAt
  <2> QED
    BY <1>3, <2>1, <2>2, <2>3, <2>4 DEF WalkMove
<1>4. CASE SketchMove
  BY <1>1, <1>4 DEF SketchMove, Calling, Kept, Fresh, Nested, LinkAt, CallAt
<1>5. CASE DrainMove
  BY <1>1, <1>5 DEF DrainMove, Calling, Kept, Fresh, Nested, LinkAt, CallAt
<1>6. CASE PlainMove
  BY <1>1, <1>6 DEF PlainMove, Going, On, Kept, Steps, Nested, LinkAt, CallAt
<1>7. CASE ReturnMove
  <2>1. \A k \in 1 .. Len(stack') : /\ k \in 1 .. Len(stack)
                                    /\ stack'[k].at = stack[k].at /\ stack'[k].op = stack[k].op
    BY <1>1, <1>7 DEF ReturnMove, Answering, Kept
  <2> QED
    BY <2>1 DEF Nested
<1>8. CASE LinkMove
  BY <1>1, <1>8 DEF LinkMove, InFlightTo, Nested, LinkAt, CallAt
<1>9. CASE stack' = stack
  BY <1>1, <1>9 DEF Nested, LinkAt, CallAt
<1> QED
  BY <1>2, <1>3, <1>4, <1>5, <1>6, <1>7, <1>8, <1>9 DEF Moves

LEMMA CallersKept == ASSUME stack \in Seq(Frame), Handed, Callers, Moves PROVE Callers'
<1>1. /\ Len(stack) \in Nat /\ (stack # <<>> => Len(stack) \in 1 .. Len(stack) /\ Top = stack[Len(stack)])
      /\ ((stack = <<>>) <=> (Len(stack) = 0))
      /\ (~Busy => \A i \in 1 .. Len(stack) : stack[i].at \notin LinkAt)
  BY Positions
<1>2. CASE stack # <<>> /\ CommandMove
  <2>1. CASE Top.at = "cmd" /\ GoingCalling("link", Top.seq) /\ Fresh("poll", "none", 0, 0)
    BY <1>1, <2>1 DEF GoingCalling, On, Kept, Fresh, Handed, Callers, LinkAt
  <2>2. CASE Top.at = "poll" /\ ~Busy /\ GoingCalling("resp", Top.seq) /\ Fresh("read", "none", 0, 0)
    BY <1>1, <2>2 DEF GoingCalling, On, Kept, Fresh, Handed, Callers, LinkAt
  <2>3. CASE Top.at = "link" /\ ~Busy /\ GoingCalling("resp", Top.seq) /\ Fresh("await", Top.op, Top.seq, 0)
    BY <1>1, <2>3 DEF GoingCalling, On, Kept, Fresh, Handed, Callers, LinkAt
  <2>4. CASE /\ Top.at = "deferred" /\ ~Busy /\ GoingCalling("tail", Top.seq)
             /\ Fresh("heater", lastError.op, 0, lastError.rc)
    BY <1>1, <2>4 DEF GoingCalling, On, Kept, Fresh, Handed, Callers, LinkAt
  <2>5. CASE Top.at = "tail" /\ ~Busy /\ GoingCalling("update", Top.seq) /\ Fresh("cmd", "update", 0, 0)
    BY <1>1, <2>5 DEF GoingCalling, On, Kept, Fresh, Handed, Callers, LinkAt
  <2> QED
    BY <1>2, <2>1, <2>2, <2>3, <2>4, <2>5 DEF CommandMove
<1>3. CASE stack # <<>> /\ WalkMove
  <2>1. CASE /\ Top.at = "heater" /\ heaterPush.seq # 0 /\ GoingCalling("evse", Top.seq)
             /\ Fresh("cmd", "push", heaterPush.seq, 0)
    BY <1>1, <2>1 DEF GoingCalling, On, Kept, Fresh, Handed, Callers, LinkAt
  <2>2. CASE Top.at = "evse" /\ GoingCalling("fetched", evsePending) /\ Fresh("cmd", "fetch", evsePending, 0)
    BY <1>1, <2>2 DEF GoingCalling, On, Kept, Fresh, Handed, Callers, LinkAt
  <2>3. CASE Top.at = "fetched" /\ GoingCalling("merge", Top.seq) /\ Fresh("cmd", "resp", Top.seq, 0)
    BY <1>1, <2>3 DEF GoingCalling, On, Kept, Fresh, Handed, Callers, LinkAt
  <2>4. CASE Top.at = "sync" /\ GoingCalling("synced", Top.seq) /\ Fresh("cmd", "getall", 0, 0)
    BY <1>1, <2>4 DEF GoingCalling, On, Kept, Fresh, Handed, Callers, LinkAt
  <2> QED
    BY <1>3, <2>1, <2>2, <2>3, <2>4 DEF WalkMove
<1>4. CASE SketchMove
  BY <1>1, <1>4 DEF SketchMove, Calling, Kept, Fresh, Handed, Callers, LinkAt
<1>5. CASE DrainMove
  BY <1>1, <1>5 DEF DrainMove, Calling, Kept, Fresh, Handed, Callers, LinkAt
<1>6. CASE PlainMove
  BY <1>1, <1>6 DEF PlainMove, Going, On, Kept, Steps, Handed, Callers, LinkAt
<1>7. CASE ReturnMove
  BY <1>1, <1>7 DEF ReturnMove, Answering, Kept, Handed, Callers, LinkAt
<1>8. CASE LinkMove
  BY <1>1, <1>8 DEF LinkMove, InFlightTo, Handed, Callers, LinkAt
<1>9. CASE stack' = stack
  BY <1>1, <1>9 DEF Handed, Callers, LinkAt
<1> QED
  BY <1>2, <1>3, <1>4, <1>5, <1>6, <1>7, <1>8, <1>9 DEF Moves

LEMMA FetchingKept == ASSUME stack \in Seq(Frame), Handed, Fetching, Moves PROVE Fetching'
<1>1. /\ Len(stack) \in Nat /\ (stack # <<>> => Len(stack) \in 1 .. Len(stack) /\ Top = stack[Len(stack)])
      /\ ((stack = <<>>) <=> (Len(stack) = 0))
      /\ (~Busy => \A i \in 1 .. Len(stack) : stack[i].at \notin LinkAt)
  BY Positions
<1>2. CASE stack # <<>> /\ CommandMove
  <2>1. CASE Top.at = "cmd" /\ GoingCalling("link", Top.seq) /\ Fresh("poll", "none", 0, 0)
    BY <1>1, <2>1 DEF GoingCalling, On, Kept, Fresh, Handed, Fetching, LinkAt, CallAt
  <2>2. CASE Top.at = "poll" /\ ~Busy /\ GoingCalling("resp", Top.seq) /\ Fresh("read", "none", 0, 0)
    BY <1>1, <2>2 DEF GoingCalling, On, Kept, Fresh, Handed, Fetching, LinkAt, CallAt
  <2>3. CASE Top.at = "link" /\ ~Busy /\ GoingCalling("resp", Top.seq) /\ Fresh("await", Top.op, Top.seq, 0)
    BY <1>1, <2>3, SMTT(30) DEF GoingCalling, On, Kept, Fresh, Handed, Fetching, LinkAt, CallAt
  <2>4. CASE /\ Top.at = "deferred" /\ ~Busy /\ GoingCalling("tail", Top.seq)
             /\ Fresh("heater", lastError.op, 0, lastError.rc)
    BY <1>1, <2>4, SMTT(30) DEF GoingCalling, On, Kept, Fresh, Handed, Fetching, LinkAt, CallAt
  <2>5. CASE Top.at = "tail" /\ ~Busy /\ GoingCalling("update", Top.seq) /\ Fresh("cmd", "update", 0, 0)
    BY <1>1, <2>5 DEF GoingCalling, On, Kept, Fresh, Handed, Fetching, LinkAt, CallAt
  <2> QED
    BY <1>2, <2>1, <2>2, <2>3, <2>4, <2>5 DEF CommandMove
<1>3. CASE stack # <<>> /\ WalkMove
  <2>1. CASE /\ Top.at = "heater" /\ heaterPush.seq # 0 /\ GoingCalling("evse", Top.seq)
             /\ Fresh("cmd", "push", heaterPush.seq, 0)
    BY <1>1, <2>1 DEF GoingCalling, On, Kept, Fresh, Handed, Fetching, LinkAt, CallAt
  <2>2. CASE Top.at = "evse" /\ GoingCalling("fetched", evsePending) /\ Fresh("cmd", "fetch", evsePending, 0)
    BY <1>1, <2>2, SMTT(30) DEF GoingCalling, On, Kept, Fresh, Handed, Fetching, LinkAt, CallAt
  <2>3. CASE Top.at = "fetched" /\ GoingCalling("merge", Top.seq) /\ Fresh("cmd", "resp", Top.seq, 0)
    <3> SUFFICES ASSUME NEW i \in 1 .. Len(stack'), stack'[i].at = "fetched", i < Len(stack')
                 PROVE  /\ stack'[i + 1].at \in CallAt /\ stack'[i + 1].op = "fetch"
                        /\ stack'[i + 1].seq = stack'[i].seq
      BY DEF Fetching
    <3>1. /\ Len(stack) \in Nat \ {0} /\ Len(stack') = Len(stack) + 1 /\ Kept(Len(stack) - 1)
          /\ stack'[Len(stack)].at = "merge"
      BY <2>3 DEF GoingCalling, On, Kept
    <3>2. i < Len(stack)
      BY <3>1
    <3>3. stack'[i] = stack[i] /\ i \in 1 .. Len(stack)
      BY <3>1, <3>2 DEF Kept
    <3>4. /\ stack[i + 1].at \in CallAt /\ stack[i + 1].op = "fetch" /\ stack[i + 1].seq = stack[i].seq
      BY <3>2, <3>3 DEF Fetching
    <3>5. i + 1 # Len(stack)
      <4>1. stack[Len(stack)].at = "fetched"
        BY <1>1, <2>3, <3>1
      <4>2. "fetched" \notin CallAt
        BY DEF CallAt
      <4> QED
        BY <3>1, <3>2, <3>4, <4>1, <4>2
    <3>6. stack'[i + 1] = stack[i + 1]
      BY <3>1, <3>2, <3>5 DEF Kept
    <3> QED
      BY <3>3, <3>4, <3>6
  <2>4. CASE Top.at = "sync" /\ GoingCalling("synced", Top.seq) /\ Fresh("cmd", "getall", 0, 0)
    BY <1>1, <2>4 DEF GoingCalling, On, Kept, Fresh, Handed, Fetching, LinkAt, CallAt
  <2> QED
    BY <1>3, <2>1, <2>2, <2>3, <2>4 DEF WalkMove
<1>4. CASE SketchMove
  BY <1>1, <1>4 DEF SketchMove, Calling, Kept, Fresh, Handed, Fetching, LinkAt, CallAt
<1>5. CASE DrainMove
  BY <1>1, <1>5 DEF DrainMove, Calling, Kept, Fresh, Handed, Fetching, LinkAt, CallAt
<1>6. CASE PlainMove
  BY <1>1, <1>6 DEF PlainMove, Going, On, Kept, Steps, Handed, Fetching, LinkAt, CallAt
<1>7. CASE ReturnMove
  <2> SUFFICES ASSUME NEW i \in 1 .. Len(stack'), stack'[i].at = "fetched", i < Len(stack')
               PROVE  /\ stack'[i + 1].at \in CallAt /\ stack'[i + 1].op = "fetch"
                      /\ stack'[i + 1].seq = stack'[i].seq
    BY DEF Fetching
  <2>1. /\ Len(stack) \in Nat \ {0} /\ Len(stack') = Len(stack) - 1 /\ Kept(Len(stack) - 2)
    BY <1>7 DEF ReturnMove, Answering
  <2>2. i \in 1 .. Len(stack) - 2 /\ i \in 1 .. Len(stack) /\ i < Len(stack)
    BY <2>1
  <2>3. stack'[i] = stack[i]
    BY <2>1, <2>2 DEF Kept
  <2>4. stack[i + 1].at \in CallAt /\ stack[i + 1].op = "fetch" /\ stack[i + 1].seq = stack[i].seq
    BY <2>2, <2>3 DEF Fetching
  <2>5. CASE i + 1 = Len(stack) - 1
    <3>1. /\ stack'[i + 1].at = stack[i + 1].at /\ stack'[i + 1].op = stack[i + 1].op
          /\ stack'[i + 1].seq = stack[i + 1].seq
      BY <1>7, <2>1, <2>2, <2>5 DEF ReturnMove, Answering
    <3> QED
      BY <2>3, <2>4, <3>1
  <2>6. CASE i + 1 # Len(stack) - 1
    <3>1. stack'[i + 1] = stack[i + 1]
      BY <2>1, <2>2, <2>6 DEF Kept
    <3> QED
      BY <2>3, <2>4, <3>1
  <2> QED
    BY <2>5, <2>6
<1>8. CASE LinkMove
  BY <1>1, <1>8 DEF LinkMove, InFlightTo, Handed, Fetching, LinkAt, CallAt
<1>9. CASE stack' = stack
  BY <1>1, <1>9 DEF Handed, Fetching, LinkAt, CallAt
<1> QED
  BY <1>2, <1>3, <1>4, <1>5, <1>6, <1>7, <1>8, <1>9 DEF Moves

LEMMA OneAppKept == ASSUME stack \in Seq(Frame), OneApp, Moves PROVE OneApp'
<1>1. /\ Len(stack) \in Nat /\ (stack # <<>> => Len(stack) \in 1 .. Len(stack) /\ Top = stack[Len(stack)])
      /\ ((stack = <<>>) <=> (Len(stack) = 0))
      /\ (~Busy => \A i \in 1 .. Len(stack) : stack[i].at \notin LinkAt)
  BY Positions
<1>2. CASE stack # <<>> /\ CommandMove
  <2>1. CASE Top.at = "cmd" /\ GoingCalling("link", Top.seq) /\ Fresh("poll", "none", 0, 0)
    BY <1>1, <2>1 DEF GoingCalling, On, Kept, Fresh, OneApp, LinkAt, CallAt
  <2>2. CASE Top.at = "poll" /\ ~Busy /\ GoingCalling("resp", Top.seq) /\ Fresh("read", "none", 0, 0)
    BY <1>1, <2>2 DEF GoingCalling, On, Kept, Fresh, OneApp, LinkAt, CallAt
  <2>3. CASE Top.at = "link" /\ ~Busy /\ GoingCalling("resp", Top.seq) /\ Fresh("await", Top.op, Top.seq, 0)
    BY <1>1, <2>3 DEF GoingCalling, On, Kept, Fresh, OneApp, LinkAt, CallAt
  <2>4. CASE /\ Top.at = "deferred" /\ ~Busy /\ GoingCalling("tail", Top.seq)
             /\ Fresh("heater", lastError.op, 0, lastError.rc)
    BY <1>1, <2>4 DEF GoingCalling, On, Kept, Fresh, OneApp, LinkAt, CallAt
  <2>5. CASE Top.at = "tail" /\ ~Busy /\ GoingCalling("update", Top.seq) /\ Fresh("cmd", "update", 0, 0)
    BY <1>1, <2>5 DEF GoingCalling, On, Kept, Fresh, OneApp, LinkAt, CallAt
  <2> QED
    BY <1>2, <2>1, <2>2, <2>3, <2>4, <2>5 DEF CommandMove
<1>3. CASE stack # <<>> /\ WalkMove
  <2>1. CASE /\ Top.at = "heater" /\ heaterPush.seq # 0 /\ GoingCalling("evse", Top.seq)
             /\ Fresh("cmd", "push", heaterPush.seq, 0)
    BY <1>1, <2>1 DEF GoingCalling, On, Kept, Fresh, OneApp, LinkAt, CallAt
  <2>2. CASE Top.at = "evse" /\ GoingCalling("fetched", evsePending) /\ Fresh("cmd", "fetch", evsePending, 0)
    BY <1>1, <2>2 DEF GoingCalling, On, Kept, Fresh, OneApp, LinkAt, CallAt
  <2>3. CASE Top.at = "fetched" /\ GoingCalling("merge", Top.seq) /\ Fresh("cmd", "resp", Top.seq, 0)
    BY <1>1, <2>3 DEF GoingCalling, On, Kept, Fresh, OneApp, LinkAt, CallAt
  <2>4. CASE Top.at = "sync" /\ GoingCalling("synced", Top.seq) /\ Fresh("cmd", "getall", 0, 0)
    BY <1>1, <2>4 DEF GoingCalling, On, Kept, Fresh, OneApp, LinkAt, CallAt
  <2> QED
    BY <1>3, <2>1, <2>2, <2>3, <2>4 DEF WalkMove
<1>4. CASE SketchMove
  BY <1>1, <1>4 DEF SketchMove, Calling, Kept, Fresh, OneApp, LinkAt, CallAt
<1>5. CASE DrainMove
  BY <1>1, <1>5 DEF DrainMove, Calling, Kept, Fresh, OneApp, LinkAt, CallAt
<1>6. CASE PlainMove
  BY <1>1, <1>6 DEF PlainMove, Going, On, Kept, Steps, OneApp, LinkAt, CallAt
<1>7. CASE ReturnMove
  BY <1>1, <1>7 DEF ReturnMove, Answering, Kept, OneApp, LinkAt, CallAt
<1>8. CASE LinkMove
  BY <1>1, <1>8 DEF LinkMove, InFlightTo, OneApp, LinkAt, CallAt
<1>9. CASE stack' = stack
  BY <1>1, <1>9 DEF OneApp, LinkAt, CallAt
<1> QED
  BY <1>2, <1>3, <1>4, <1>5, <1>6, <1>7, <1>8, <1>9 DEF Moves

LEMMA ReadersKept == ASSUME stack \in Seq(Frame), Handed, Readers, Moves PROVE Readers'
<1>1. /\ Len(stack) \in Nat /\ (stack # <<>> => Len(stack) \in 1 .. Len(stack) /\ Top = stack[Len(stack)])
      /\ ((stack = <<>>) <=> (Len(stack) = 0))
      /\ (~Busy => \A i \in 1 .. Len(stack) : stack[i].at \notin LinkAt)
  BY Positions
<1>2. CASE stack # <<>> /\ CommandMove
  <2>1. CASE Top.at = "cmd" /\ GoingCalling("link", Top.seq) /\ Fresh("poll", "none", 0, 0)
    BY <1>1, <2>1 DEF GoingCalling, On, Kept, Fresh, Handed, Readers, LinkAt
  <2>2. CASE Top.at = "poll" /\ ~Busy /\ GoingCalling("resp", Top.seq) /\ Fresh("read", "none", 0, 0)
    BY <1>1, <2>2 DEF GoingCalling, On, Kept, Fresh, Handed, Readers, LinkAt
  <2>3. CASE Top.at = "link" /\ ~Busy /\ GoingCalling("resp", Top.seq) /\ Fresh("await", Top.op, Top.seq, 0)
    BY <1>1, <2>3 DEF GoingCalling, On, Kept, Fresh, Handed, Readers, LinkAt
  <2>4. CASE /\ Top.at = "deferred" /\ ~Busy /\ GoingCalling("tail", Top.seq)
             /\ Fresh("heater", lastError.op, 0, lastError.rc)
    BY <1>1, <2>4 DEF GoingCalling, On, Kept, Fresh, Handed, Readers, LinkAt
  <2>5. CASE Top.at = "tail" /\ ~Busy /\ GoingCalling("update", Top.seq) /\ Fresh("cmd", "update", 0, 0)
    BY <1>1, <2>5 DEF GoingCalling, On, Kept, Fresh, Handed, Readers, LinkAt
  <2> QED
    BY <1>2, <2>1, <2>2, <2>3, <2>4, <2>5 DEF CommandMove
<1>3. CASE stack # <<>> /\ WalkMove
  <2>1. CASE /\ Top.at = "heater" /\ heaterPush.seq # 0 /\ GoingCalling("evse", Top.seq)
             /\ Fresh("cmd", "push", heaterPush.seq, 0)
    BY <1>1, <2>1 DEF GoingCalling, On, Kept, Fresh, Handed, Readers, LinkAt
  <2>2. CASE Top.at = "evse" /\ GoingCalling("fetched", evsePending) /\ Fresh("cmd", "fetch", evsePending, 0)
    BY <1>1, <2>2 DEF GoingCalling, On, Kept, Fresh, Handed, Readers, LinkAt
  <2>3. CASE Top.at = "fetched" /\ GoingCalling("merge", Top.seq) /\ Fresh("cmd", "resp", Top.seq, 0)
    BY <1>1, <2>3 DEF GoingCalling, On, Kept, Fresh, Handed, Readers, LinkAt
  <2>4. CASE Top.at = "sync" /\ GoingCalling("synced", Top.seq) /\ Fresh("cmd", "getall", 0, 0)
    BY <1>1, <2>4 DEF GoingCalling, On, Kept, Fresh, Handed, Readers, LinkAt
  <2> QED
    BY <1>3, <2>1, <2>2, <2>3, <2>4 DEF WalkMove
<1>4. CASE SketchMove
  BY <1>1, <1>4 DEF SketchMove, Calling, Kept, Fresh, Handed, Readers, LinkAt
<1>5. CASE DrainMove
  BY <1>1, <1>5 DEF DrainMove, Calling, Kept, Fresh, Handed, Readers, LinkAt
<1>6. CASE PlainMove
  BY <1>1, <1>6 DEF PlainMove, Going, On, Kept, Steps, Handed, Readers, LinkAt
<1>7. CASE ReturnMove
  BY <1>1, <1>7 DEF ReturnMove, Answering, Kept, Handed, Readers, LinkAt
<1>8. CASE LinkMove
  BY <1>1, <1>8, SMTT(30) DEF LinkMove, InFlightTo, Handed, Readers, LinkAt
<1>9. CASE stack' = stack
  BY <1>1, <1>9 DEF Handed, Readers, LinkAt
<1> QED
  BY <1>2, <1>3, <1>4, <1>5, <1>6, <1>7, <1>8, <1>9 DEF Moves

LEMMA CommandsKept == ASSUME stack \in Seq(Frame), Commands, Moves PROVE Commands'
<1>1. /\ Len(stack) \in Nat /\ (stack # <<>> => Len(stack) \in 1 .. Len(stack) /\ Top = stack[Len(stack)])
      /\ ((stack = <<>>) <=> (Len(stack) = 0))
      /\ (~Busy => \A i \in 1 .. Len(stack) : stack[i].at \notin LinkAt)
  BY Positions
<1>2. CASE stack # <<>> /\ CommandMove
  <2>1. CASE Top.at = "cmd" /\ GoingCalling("link", Top.seq) /\ Fresh("poll", "none", 0, 0)
    BY <1>1, <2>1 DEF GoingCalling, On, Kept, Fresh, Commands, LinkAt
  <2>2. CASE Top.at = "poll" /\ ~Busy /\ GoingCalling("resp", Top.seq) /\ Fresh("read", "none", 0, 0)
    BY <1>1, <2>2 DEF GoingCalling, On, Kept, Fresh, Commands, LinkAt
  <2>3. CASE Top.at = "link" /\ ~Busy /\ GoingCalling("resp", Top.seq) /\ Fresh("await", Top.op, Top.seq, 0)
    BY <1>1, <2>3 DEF GoingCalling, On, Kept, Fresh, Commands, LinkAt
  <2>4. CASE /\ Top.at = "deferred" /\ ~Busy /\ GoingCalling("tail", Top.seq)
             /\ Fresh("heater", lastError.op, 0, lastError.rc)
    BY <1>1, <2>4 DEF GoingCalling, On, Kept, Fresh, Commands, LinkAt
  <2>5. CASE Top.at = "tail" /\ ~Busy /\ GoingCalling("update", Top.seq) /\ Fresh("cmd", "update", 0, 0)
    BY <1>1, <2>5 DEF GoingCalling, On, Kept, Fresh, Commands, LinkAt
  <2> QED
    BY <1>2, <2>1, <2>2, <2>3, <2>4, <2>5 DEF CommandMove
<1>3. CASE stack # <<>> /\ WalkMove
  <2>1. CASE /\ Top.at = "heater" /\ heaterPush.seq # 0 /\ GoingCalling("evse", Top.seq)
             /\ Fresh("cmd", "push", heaterPush.seq, 0)
    BY <1>1, <2>1 DEF GoingCalling, On, Kept, Fresh, Commands, LinkAt
  <2>2. CASE Top.at = "evse" /\ GoingCalling("fetched", evsePending) /\ Fresh("cmd", "fetch", evsePending, 0)
    BY <1>1, <2>2 DEF GoingCalling, On, Kept, Fresh, Commands, LinkAt
  <2>3. CASE Top.at = "fetched" /\ GoingCalling("merge", Top.seq) /\ Fresh("cmd", "resp", Top.seq, 0)
    BY <1>1, <2>3 DEF GoingCalling, On, Kept, Fresh, Commands, LinkAt
  <2>4. CASE Top.at = "sync" /\ GoingCalling("synced", Top.seq) /\ Fresh("cmd", "getall", 0, 0)
    BY <1>1, <2>4 DEF GoingCalling, On, Kept, Fresh, Commands, LinkAt
  <2> QED
    BY <1>3, <2>1, <2>2, <2>3, <2>4 DEF WalkMove
<1>4. CASE SketchMove
  BY <1>1, <1>4 DEF SketchMove, Calling, Kept, Fresh, Commands, LinkAt
<1>5. CASE DrainMove
  BY <1>1, <1>5 DEF DrainMove, Calling, Kept, Fresh, Commands, LinkAt
<1>6. CASE PlainMove
  BY <1>1, <1>6 DEF PlainMove, Going, On, Kept, Steps, Commands, LinkAt
<1>7. CASE ReturnMove
  BY <1>1, <1>7 DEF ReturnMove, Answering, Kept, Commands, LinkAt
<1>8. CASE LinkMove
  BY <1>1, <1>8 DEF LinkMove, InFlightTo, Commands, LinkAt
<1>9. CASE stack' = stack
  BY <1>1, <1>9 DEF Commands, LinkAt
<1> QED
  BY <1>2, <1>3, <1>4, <1>5, <1>6, <1>7, <1>8, <1>9 DEF Moves

LEMMA SendersKept == ASSUME stack \in Seq(Frame), Senders, Moves PROVE Senders'
<1>1. /\ Len(stack) \in Nat /\ (stack # <<>> => Len(stack) \in 1 .. Len(stack) /\ Top = stack[Len(stack)])
      /\ ((stack = <<>>) <=> (Len(stack) = 0))
      /\ (~Busy => \A i \in 1 .. Len(stack) : stack[i].at \notin LinkAt)
  BY Positions
<1>2. CASE stack # <<>> /\ CommandMove
  <2>1. CASE Top.at = "cmd" /\ GoingCalling("link", Top.seq) /\ Fresh("poll", "none", 0, 0)
    BY <1>1, <2>1 DEF GoingCalling, On, Kept, Fresh, Senders, CallAt, LinkAt, WalkAt
  <2>2. CASE Top.at = "poll" /\ ~Busy /\ GoingCalling("resp", Top.seq) /\ Fresh("read", "none", 0, 0)
    BY <1>1, <2>2 DEF GoingCalling, On, Kept, Fresh, Senders, CallAt, LinkAt, WalkAt
  <2>3. CASE Top.at = "link" /\ ~Busy /\ GoingCalling("resp", Top.seq) /\ Fresh("await", Top.op, Top.seq, 0)
    BY <1>1, <2>3 DEF GoingCalling, On, Kept, Fresh, Senders, CallAt, LinkAt, WalkAt
  <2>4. CASE /\ Top.at = "deferred" /\ ~Busy /\ GoingCalling("tail", Top.seq)
             /\ Fresh("heater", lastError.op, 0, lastError.rc)
    BY <1>1, <2>4 DEF GoingCalling, On, Kept, Fresh, Senders, CallAt, LinkAt, WalkAt
  <2>5. CASE Top.at = "tail" /\ ~Busy /\ GoingCalling("update", Top.seq) /\ Fresh("cmd", "update", 0, 0)
    BY <1>1, <2>5 DEF GoingCalling, On, Kept, Fresh, Senders, CallAt, LinkAt, WalkAt
  <2> QED
    BY <1>2, <2>1, <2>2, <2>3, <2>4, <2>5 DEF CommandMove
<1>3. CASE stack # <<>> /\ WalkMove
  <2>1. CASE /\ Top.at = "heater" /\ heaterPush.seq # 0 /\ GoingCalling("evse", Top.seq)
             /\ Fresh("cmd", "push", heaterPush.seq, 0)
    BY <1>1, <2>1 DEF GoingCalling, On, Kept, Fresh, Senders, CallAt, LinkAt, WalkAt
  <2>2. CASE Top.at = "evse" /\ GoingCalling("fetched", evsePending) /\ Fresh("cmd", "fetch", evsePending, 0)
    BY <1>1, <2>2 DEF GoingCalling, On, Kept, Fresh, Senders, CallAt, LinkAt, WalkAt
  <2>3. CASE Top.at = "fetched" /\ GoingCalling("merge", Top.seq) /\ Fresh("cmd", "resp", Top.seq, 0)
    BY <1>1, <2>3 DEF GoingCalling, On, Kept, Fresh, Senders, CallAt, LinkAt, WalkAt
  <2>4. CASE Top.at = "sync" /\ GoingCalling("synced", Top.seq) /\ Fresh("cmd", "getall", 0, 0)
    BY <1>1, <2>4 DEF GoingCalling, On, Kept, Fresh, Senders, CallAt, LinkAt, WalkAt
  <2> QED
    BY <1>3, <2>1, <2>2, <2>3, <2>4 DEF WalkMove
<1>4. CASE SketchMove
  BY <1>1, <1>4 DEF SketchMove, Calling, Kept, Fresh, Senders, CallAt, LinkAt, WalkAt
<1>5. CASE DrainMove
  BY <1>1, <1>5 DEF DrainMove, Calling, Kept, Fresh, Senders, CallAt, LinkAt, WalkAt
<1>6. CASE PlainMove
  BY <1>1, <1>6 DEF PlainMove, Going, On, Kept, Steps, Senders, CallAt, LinkAt, WalkAt
<1>7. CASE ReturnMove
  BY <1>1, <1>7 DEF ReturnMove, Answering, Kept, Senders, CallAt, LinkAt, WalkAt
<1>8. CASE LinkMove
  BY <1>1, <1>8 DEF LinkMove, InFlightTo, Senders, CallAt, LinkAt, WalkAt
<1>9. CASE stack' = stack
  BY <1>1, <1>9 DEF Senders, CallAt, LinkAt, WalkAt
<1> QED
  BY <1>2, <1>3, <1>4, <1>5, <1>6, <1>7, <1>8, <1>9 DEF Moves

LEMMA StackInvStep == ASSUME Typed, StackInv, [Next]_vars PROVE StackInv'
<1>1. stack \in Seq(Frame) /\ Moves
  BY AllMoves DEF Typed
<1> QED
  BY <1>1, HandedKept, NestedKept, CallersKept, FetchingKept, OneAppKept, ReadersKept, CommandsKept, SendersKept
  DEF StackInv

---------------------------------------------------------------------------
(* The forwards, the lines and the queue.                                  *)

LEMMA ForwardedIs ==
  ASSUME Typed, CoprocForwards
  PROVE  /\ forwards' \in Seq(Forward) /\ Len(forwards) \in Nat /\ Len(forwards') = Len(forwards) + 1
         /\ Len(forwards') \in 0 .. MaxEvents /\ Len(forwards') \in Seqs
         /\ DOMAIN forwards = 1 .. Len(forwards) /\ DOMAIN forwards' = 1 .. Len(forwards')
         /\ Open = {} /\ Open' = {Len(forwards')}
         /\ rx' = Append(rx, Line("+MTCMD", Len(forwards')))
<1>1. PICK kind \in Kinds, days \in SUBSET Days :
        forwards' = Append(forwards, [kind |-> kind, days |-> days, outcome |-> "open"])
  BY DEF CoprocForwards
<1> DEFINE f == [kind |-> kind, days |-> days, outcome |-> "open"]
<1>2. f \in Forward /\ f.outcome = "open"
  BY DEF Forward
<1>3. Open = {} /\ Len(forwards) + blocks < MaxEvents /\ blocks \in Nat /\ forwards \in Seq(Forward)
      /\ rx' = Append(rx, Line("+MTCMD", Len(forwards')))
  BY DEF CoprocForwards, Typed
<1>4. forwards' = Append(forwards, f)
  BY <1>1
<1> HIDE DEF f
<1>5. /\ forwards' \in Seq(Forward) /\ Len(forwards) \in Nat /\ Len(forwards') = Len(forwards) + 1
      /\ DOMAIN forwards = 1 .. Len(forwards) /\ DOMAIN forwards' = 1 .. Len(forwards')
      /\ forwards'[Len(forwards')] = f
      /\ \A i \in 1 .. Len(forwards) : forwards'[i] = forwards[i]
  BY <1>2, <1>3, <1>4
<1>6. MaxEvents \in Nat
  BY ForwardAssumption
<1>7. Len(forwards') \in 0 .. MaxEvents /\ Len(forwards') \in Seqs
  BY <1>3, <1>5, <1>6 DEF Seqs
<1>8. Open' = {Len(forwards')}
  <2>1. \A i \in DOMAIN forwards : forwards[i].outcome # "open"
    BY <1>3 DEF Open
  <2>2. \A i \in DOMAIN forwards' : forwards'[i].outcome = "open" <=> i = Len(forwards')
    BY <1>2, <1>5, <2>1
  <2> QED
    BY <1>5, <2>2 DEF Open
<1> QED
  BY <1>3, <1>5, <1>7, <1>8

LEMMA OutcomeIs ==
  ASSUME forwards \in Seq(Forward), NEW s \in DOMAIN forwards, NEW o \in {"allow", "deny", "timeout"},
         forwards' = [forwards EXCEPT ![s].outcome = o]
  PROVE  /\ forwards' \in Seq(Forward) /\ Len(forwards') = Len(forwards)
         /\ DOMAIN forwards' = DOMAIN forwards /\ Open' = Open \ {s}
<1> DEFINE f == [forwards[s] EXCEPT !.outcome = o]
<1>1. forwards[s] \in Forward
  OBVIOUS
<1>2. f \in Forward /\ f.outcome = o
  BY <1>1 DEF Forward
<1>3. forwards' = [forwards EXCEPT ![s] = f]
  OBVIOUS
<1> HIDE DEF f
<1>4. s \in 1 .. Len(forwards) /\ Len(forwards) \in Nat
  OBVIOUS
<1>5. forwards' \in Seq(Forward) /\ Len(forwards') = Len(forwards) /\ forwards'[s] = f
      /\ \A j \in 1 .. Len(forwards) : j # s => forwards'[j] = forwards[j]
  BY <1>2, <1>3, <1>4, ExceptSeq
<1>6. DOMAIN forwards' = DOMAIN forwards
  BY <1>5
<1> QED
  BY <1>2, <1>4, <1>5, <1>6 DEF Open

LEMMA ExpiresIs ==
  ASSUME Typed, WindowExpires
  PROVE  \E s \in DOMAIN forwards :
           /\ forwards' \in Seq(Forward) /\ Len(forwards') = Len(forwards)
           /\ DOMAIN forwards' = DOMAIN forwards /\ Open' \subseteq Open
           /\ rx' = Append(rx, Line("+MTCMDTO", s))
<1>1. PICK s \in Open : /\ forwards' = [forwards EXCEPT ![s].outcome = "timeout"]
                        /\ rx' = Append(rx, Line("+MTCMDTO", s))
  BY DEF WindowExpires
<1>2. s \in DOMAIN forwards /\ forwards \in Seq(Forward)
  BY DEF Open, Typed
<1> QED
  BY <1>1, <1>2, OutcomeIs

LEMMA ActedIs ==
  ASSUME Typed, CoprocActs
  PROVE  /\ forwards' \in Seq(Forward) /\ Len(forwards') = Len(forwards)
         /\ DOMAIN forwards' = DOMAIN forwards /\ Open' \subseteq Open
<1>1. PICK i \in InFlight("await") :
        \/ /\ stack[i].seq \in Open
           /\ forwards' = [forwards EXCEPT ![stack[i].seq].outcome = IF stack[i].allow THEN "allow" ELSE "deny"]
        \/ forwards' = forwards
  BY DEF CoprocActs
<1>2. CASE forwards' = forwards
  BY <1>2 DEF Open, Typed
<1>3. ASSUME stack[i].seq \in Open, NEW o \in {"allow", "deny", "timeout"},
             forwards' = [forwards EXCEPT ![stack[i].seq].outcome = o]
      PROVE  /\ forwards' \in Seq(Forward) /\ Len(forwards') = Len(forwards)
             /\ DOMAIN forwards' = DOMAIN forwards /\ Open' \subseteq Open
  BY <1>3, OutcomeIs DEF Open, Typed
<1> QED
  BY <1>1, <1>2, <1>3

\* What every other step leaves as it is.
LEMMA ForwardsKept ==
  ASSUME [Next]_vars, ~CoprocForwards, ~WindowExpires, ~CoprocActs
  PROVE  forwards' = forwards
BY Zenon DEF Next, HostStep, CoprocStep, Calls, CommandEntry, PollEntry, CommandLink, DrainResp, DrainDeferred,
   DrainUpdate, UpdateDrained, CallReturns, HeaterWork, EvseFetch, EvseVerdict, EvseMerge, SyncClear, SyncRebuild,
   DispatchVerdict, DispatchTargets, DispatchBlock, DispatchOther, ReadEnds, Answered, CallbackReturns, CoprocAnswers,
   rest, coproc, vars

LEMMA OpenKept ==
  ASSUME Typed, [Next]_vars, ~CoprocForwards
  PROVE  /\ forwards' \in Seq(Forward) /\ Len(forwards') = Len(forwards)
         /\ DOMAIN forwards' = DOMAIN forwards /\ Open' \subseteq Open
<1>1. CASE WindowExpires
  BY <1>1, ExpiresIs
<1>2. CASE CoprocActs
  BY <1>2, ActedIs
<1>3. CASE ~WindowExpires /\ ~CoprocActs
  BY <1>3, ForwardsKept DEF Typed, Open
<1> QED
  BY <1>1, <1>2, <1>3

LEMMA RxKept ==
  ASSUME [Next]_vars
  PROVE  \/ rx' = rx
         \/ rx # <<>> /\ rx' = Tail(rx)
         \/ CoprocForwards \/ WindowExpires
         \/ rx' = Append(rx, Line("terminal", 0))
BY Zenon DEF Next, HostStep, CoprocStep, Calls, CommandEntry, PollEntry, CommandLink, DrainResp, DrainDeferred,
   DrainUpdate, UpdateDrained, CallReturns, HeaterWork, EvseFetch, EvseVerdict, EvseMerge, SyncClear, SyncRebuild,
   DispatchVerdict, DispatchTargets, DispatchBlock, DispatchOther, ReadEnds, Answered, CallbackReturns, CoprocActs,
   CoprocAnswers, rest, vars

LEMMA QueueKept ==
  ASSUME [Next]_vars
  PROVE  \/ respQueue' = respQueue
         \/ DrainResp \/ DispatchVerdict \/ DispatchTargets
BY Zenon DEF Next, HostStep, CoprocStep, Calls, CommandEntry, PollEntry, CommandLink, DrainDeferred,
   DrainUpdate, UpdateDrained, CallReturns, HeaterWork, EvseFetch, EvseVerdict, EvseMerge, SyncClear, SyncRebuild,
   DispatchBlock, DispatchOther, ReadEnds, Answered, CallbackReturns, CoprocForwards, WindowExpires, CoprocActs,
   CoprocAnswers, rest, vars

LEMMA WireKept ==
  ASSUME [Next]_vars
  PROVE  wire' = wire \/ CommandLink \/ DrainResp
BY Zenon DEF Next, HostStep, CoprocStep, Calls, CommandEntry, PollEntry, DrainDeferred,
   DrainUpdate, UpdateDrained, CallReturns, HeaterWork, EvseFetch, EvseVerdict, EvseMerge, SyncClear, SyncRebuild,
   DispatchVerdict, DispatchTargets, DispatchBlock, DispatchOther, ReadEnds, Answered, CallbackReturns, CoprocForwards,
   WindowExpires, CoprocActs, CoprocAnswers, rest, vars

LEMMA CodeKept ==
  ASSUME [Next]_vars
  PROVE  \/ lastError' = lastError
         \/ CommandLink \/ Answered \/ EvseFetch \/ EvseVerdict \/ EvseMerge
BY Zenon DEF Next, HostStep, CoprocStep, Calls, CommandEntry, PollEntry, DrainResp, DrainDeferred,
   DrainUpdate, UpdateDrained, CallReturns, HeaterWork, SyncClear, SyncRebuild,
   DispatchVerdict, DispatchTargets, DispatchBlock, DispatchOther, ReadEnds, CallbackReturns, CoprocForwards,
   WindowExpires, CoprocActs, CoprocAnswers, rest, vars

LEMMA PushKept ==
  ASSUME [Next]_vars
  PROVE  heaterPush' = heaterPush \/ HeaterWork \/ DispatchVerdict
BY Zenon DEF Next, HostStep, CoprocStep, Calls, CommandEntry, PollEntry, CommandLink, DrainResp, DrainDeferred,
   DrainUpdate, UpdateDrained, CallReturns, EvseFetch, EvseVerdict, EvseMerge, SyncClear, SyncRebuild,
   DispatchTargets, DispatchBlock, DispatchOther, ReadEnds, Answered, CallbackReturns, CoprocForwards,
   WindowExpires, CoprocActs, CoprocAnswers, rest, vars

LEMMA PendingKept ==
  ASSUME [Next]_vars
  PROVE  evsePending' = evsePending \/ EvseFetch \/ DispatchTargets
BY Zenon DEF Next, HostStep, CoprocStep, Calls, CommandEntry, PollEntry, CommandLink, DrainResp, DrainDeferred,
   DrainUpdate, UpdateDrained, CallReturns, HeaterWork, EvseVerdict, EvseMerge, SyncClear, SyncRebuild,
   DispatchVerdict, DispatchBlock, DispatchOther, ReadEnds, Answered, CallbackReturns, CoprocForwards,
   WindowExpires, CoprocActs, CoprocAnswers, evse, rest, vars

LEMMA DroppedKept ==
  ASSUME [Next]_vars
  PROVE  dropped' = dropped \/ DispatchVerdict \/ DispatchTargets
BY Zenon DEF Next, HostStep, CoprocStep, Calls, CommandEntry, PollEntry, CommandLink, DrainResp, DrainDeferred,
   DrainUpdate, UpdateDrained, CallReturns, HeaterWork, EvseFetch, EvseVerdict, EvseMerge, SyncClear, SyncRebuild,
   DispatchBlock, DispatchOther, ReadEnds, Answered, CallbackReturns, CoprocForwards,
   WindowExpires, CoprocActs, CoprocAnswers, rest, vars

LEMMA BlocksKept == ASSUME [Next]_vars PROVE blocks' = blocks \/ blocks' = blocks + 1
BY Zenon DEF Next, HostStep, CoprocStep, Calls, CommandEntry, PollEntry, CommandLink, DrainResp, DrainDeferred,
   DrainUpdate, UpdateDrained, CallReturns, HeaterWork, EvseFetch, EvseVerdict, EvseMerge, SyncClear, SyncRebuild,
   DispatchVerdict, DispatchTargets, DispatchBlock, DispatchOther, ReadEnds, Answered, CallbackReturns,
   CoprocForwards, WindowExpires, CoprocActs, CoprocAnswers, update, rest, vars

LEMMA TailIs ==
  ASSUME NEW S, NEW q \in Seq(S), q # <<>>
  PROVE  /\ Len(q) \in Nat \ {0} /\ Tail(q) \in Seq(S) /\ Len(Tail(q)) = Len(q) - 1
         /\ Head(q) = q[1] /\ Head(q) \in S /\ \A i \in 1 .. Len(q) - 1 : Tail(q)[i] = q[i + 1]
OBVIOUS

LEMMA AddedIs ==
  ASSUME NEW S, NEW q \in Seq(S), NEW x \in S
  PROVE  /\ Len(q) \in Nat /\ Append(q, x) \in Seq(S) /\ Len(Append(q, x)) = Len(q) + 1
         /\ Append(q, x)[Len(q) + 1] = x /\ \A i \in 1 .. Len(q) : Append(q, x)[i] = q[i]
OBVIOUS

LEMMA EnqueueIs ==
  ASSUME respQueue \in Seq(Verdicts), NEW s \in MaybeSeq, NEW b \in BOOLEAN, Enqueue(s, b)
  PROVE  \/ dropped' = dropped \cup {s} /\ respQueue' = respQueue
         \/ /\ dropped' = dropped /\ respQueue' = Append(respQueue, [seq |-> s, allow |-> b])
            /\ [seq |-> s, allow |-> b] \in Verdicts
BY DEF Enqueue, Verdicts

LEMMA VerdictIs ==
  ASSUME Typed, DispatchVerdict
  PROVE  /\ rx # <<>> /\ Head(rx).line = "+MTCMD" /\ Head(rx).seq \in MaybeSeq /\ rx' = Tail(rx)
         /\ \E b \in BOOLEAN : Enqueue(Head(rx).seq, b)
         /\ heaterPush' = heaterPush \/ (heaterPush'.seq = Head(rx).seq /\ heaterPush' \in Pushes)
         /\ evsePending' = evsePending /\ wire' = wire
<1>1. rx # <<>> /\ Head(rx).line = "+MTCMD" /\ rx' = Tail(rx) /\ wire' = wire /\ evsePending' = evsePending
  BY DEF DispatchVerdict, evse
<1>2. Head(rx) \in Lines
  BY <1>1, TailIs DEF Typed
<1>3. Head(rx).seq \in MaybeSeq
  BY <1>2 DEF Lines
<1> DEFINE s == Head(rx).seq
           v == IF forwards[s].kind = "boost" THEN "active" ELSE "inactive"
<1>4. PICK b \in BOOLEAN : /\ Enqueue(s, b)
                           /\ heaterPush' = heaterPush \/ heaterPush' = [seq |-> s, value |-> v]
  BY DEF DispatchVerdict
<1>5. v \in {"active", "inactive"}
  OBVIOUS
<1> HIDE DEF v
<1>6. [seq |-> s, value |-> v] \in Pushes /\ [seq |-> s, value |-> v].seq = s
  BY <1>3, <1>5 DEF Pushes
<1> QED
  BY <1>1, <1>3, <1>4, <1>6

LEMMA TargetsIs ==
  ASSUME Typed, DispatchTargets
  PROVE  /\ rx # <<>> /\ Head(rx).line = "+MTCMD" /\ Head(rx).seq \in MaybeSeq /\ rx' = Tail(rx)
         /\ \/ Enqueue(Head(rx).seq, FALSE) /\ evsePending' = evsePending
            \/ /\ evsePending = 0 /\ evsePending' = Head(rx).seq
               /\ respQueue' = respQueue /\ dropped' = dropped
         /\ heaterPush' = heaterPush /\ wire' = wire /\ stack' = stack
<1>1. rx # <<>> /\ Head(rx).line = "+MTCMD" /\ rx' = Tail(rx) /\ wire' = wire
      /\ heaterPush' = heaterPush /\ stack' = stack
  BY DEF DispatchTargets
<1>2. Head(rx) \in Lines
  BY <1>1, TailIs DEF Typed
<1>3. Head(rx).seq \in MaybeSeq
  BY <1>2 DEF Lines
<1>4. \/ Enqueue(Head(rx).seq, FALSE) /\ evsePending' = evsePending
      \/ /\ evsePending = 0 /\ evsePending' = Head(rx).seq
         /\ respQueue' = respQueue /\ dropped' = dropped
  BY DEF DispatchTargets
<1> QED
  BY <1>1, <1>3, <1>4

LEMMA SentIs ==
  ASSUME wire \in Seq(Sendings), NEW o, NEW s \in MaybeSeq
  PROVE  /\ o \notin {"resp", "push"} => Sent(o, s) = wire
         /\ o \in {"resp", "push"} => /\ [op |-> o, seq |-> s] \in Sendings
                                      /\ Sent(o, s) = Append(wire, [op |-> o, seq |-> s])
         /\ Sent(o, s) \in Seq(Sendings)
<1>1. CASE o \notin {"resp", "push"}
  BY <1>1 DEF Sent
<1>2. CASE o \in {"resp", "push"}
  BY <1>2, AddedIs DEF Sent, Sendings
<1> QED
  BY <1>1, <1>2

---------------------------------------------------------------------------
LEMMA TypedInit == ASSUME Init PROVE Typed
<1>1. Call("sync", "none", 0, FALSE) \in Frame
  BY Called, Names
<1>2. stack \in Seq(Frame)
  <2>1. stack \in {<<>>, <<Call("sync", "none", 0, FALSE)>>}
    BY DEF Init
  <2>2. ASSUME NEW f \in Frame PROVE <<f>> \in Seq(Frame) /\ <<>> \in Seq(Frame)
    OBVIOUS
  <2> QED
    BY <1>1, <2>1, <2>2, Zenon
<1>3. lastError \in Codes /\ heaterPush \in Pushes /\ evsePending \in MaybeSeq
  BY Names DEF Init, Codes, NoPush, Pushes, MaybeSeq
<1>4. forwards \in Seq(Forward) /\ Len(forwards) \in 0 .. MaxEvents /\ rx \in Seq(Lines)
      /\ respQueue \in Seq(Verdicts) /\ wire \in Seq(Sendings) /\ blocks \in Nat
  BY ForwardAssumption DEF Init
<1> QED
  BY <1>2, <1>3, <1>4 DEF Typed

LEMMA TypedStep == ASSUME Typed, [Next]_vars PROVE Typed'
<1>1. stack' \in Seq(Frame)
  BY AllMoves
<1>2. forwards' \in Seq(Forward) /\ Len(forwards') \in 0 .. MaxEvents
  BY ForwardedIs, OpenKept DEF Typed
<1>3. rx' \in Seq(Lines)
  <2>1. CASE rx' = rx
    BY <2>1 DEF Typed
  <2>2. CASE rx # <<>> /\ rx' = Tail(rx)
    BY <2>2, TailIs DEF Typed
  <2>3. ASSUME NEW l \in {"+MTCMD", "+MTCMDTO", "terminal"}, NEW s \in MaybeSeq, rx' = Append(rx, Line(l, s))
        PROVE  rx' \in Seq(Lines)
    <3>1. Line(l, s) \in Lines
      BY DEF Line, Lines
    <3> QED
      BY <2>3, <3>1, AddedIs DEF Typed
  <2>4. CASE CoprocForwards
    BY <2>3, <2>4, ForwardedIs DEF MaybeSeq
  <2>5. CASE WindowExpires
    <3>1. PICK s \in DOMAIN forwards : rx' = Append(rx, Line("+MTCMDTO", s))
      BY <2>5, ExpiresIs
    <3>2. s \in MaybeSeq
      BY ForwardAssumption DEF Typed, MaybeSeq, Seqs
    <3> QED
      BY <2>3, <3>1, <3>2
  <2>6. CASE rx' = Append(rx, Line("terminal", 0))
    BY <2>3, <2>6, Names
  <2> QED
    BY <2>1, <2>2, <2>4, <2>5, <2>6, RxKept
<1>4. respQueue' \in Seq(Verdicts)
  <2>1. CASE respQueue' = respQueue
    BY <2>1 DEF Typed
  <2>2. CASE DrainResp
    BY <2>2, DrainRespIs, TailIs DEF Typed
  <2>3. ASSUME NEW s \in MaybeSeq, NEW b \in BOOLEAN, Enqueue(s, b) PROVE respQueue' \in Seq(Verdicts)
    <3>1. respQueue \in Seq(Verdicts)
      BY DEF Typed
    <3>2. \/ respQueue' = respQueue
          \/ \E v \in Verdicts : respQueue' = Append(respQueue, v)
      BY <2>3, <3>1, EnqueueIs
    <3> QED
      BY <3>1, <3>2, AddedIs
  <2>4. CASE DispatchVerdict
    BY <2>3, <2>4, VerdictIs
  <2>5. CASE DispatchTargets
    BY <2>3, <2>5, TargetsIs, Names DEF Typed
  <2> QED
    BY <2>1, <2>2, <2>4, <2>5, QueueKept
<1>5. wire' \in Seq(Sendings)
  <2>1. CASE wire' = wire
    BY <2>1 DEF Typed
  <2>2. CASE CommandLink
    <3>1. Top.seq \in MaybeSeq /\ (wire' = wire \/ wire' = Sent(Top.op, Top.seq))
      BY <2>2, CommandLinkIs, Fields DEF Typed
    <3> QED
      BY <3>1, SentIs DEF Typed
  <2>3. CASE DrainResp
    <3>1. wire' = wire \/ (wire' = Sent("resp", Head(respQueue).seq) /\ Head(respQueue).seq \in MaybeSeq)
      BY <2>3, DrainRespIs DEF Typed
    <3> QED
      BY <3>1, SentIs DEF Typed
  <2> QED
    BY <2>1, <2>2, <2>3, WireKept
<1>6. lastError' \in Codes
  <2>1. ASSUME NEW o \in Ops \cup {"none"}, NEW c \in {0, 1}, lastError' = [op |-> o, rc |-> c]
        PROVE  lastError' \in Codes
    BY <2>1 DEF Codes
  <2>2. CASE lastError' = lastError
    BY <2>2 DEF Typed
  <2>3. CASE CommandLink
    BY <2>1, <2>2, <2>3, CommandLinkIs, Fields DEF Typed
  <2>4. CASE Answered
    BY <2>1, <2>2, <2>4, AnsweredIs, Fields DEF Typed
  <2>5. CASE EvseFetch
    BY <2>1, <2>2, <2>5, EvseFetchIs, Fields DEF Typed
  <2>6. CASE EvseVerdict
    BY <2>1, <2>2, <2>6, EvseVerdictIs, Fields DEF Typed
  <2>7. CASE EvseMerge
    BY <2>1, <2>7, EndIs, BelowIs, Fields DEF Typed
  <2> QED
    BY <2>2, <2>3, <2>4, <2>5, <2>6, <2>7, CodeKept
<1>7. heaterPush' \in Pushes
  BY PushKept, HeaterWorkIs, VerdictIs DEF Typed, NoPush, Pushes, MaybeSeq
<1>8. evsePending' \in MaybeSeq
  BY PendingKept, EvseFetchIs, TargetsIs DEF Typed, MaybeSeq
<1>9. blocks' \in Nat
  BY BlocksKept DEF Typed
<1> QED
  BY <1>1, <1>2, <1>3, <1>4, <1>5, <1>6, <1>7, <1>8, <1>9 DEF Typed

---------------------------------------------------------------------------
(* The push follows its verdict.                                           *)

InQueue(s) == \E i \in 1 .. Len(respQueue) : respQueue[i].seq = s
OnWire(s)  == \E i \in 1 .. Len(wire) : wire[i].op = "resp" /\ wire[i].seq = s
Gone(s)    == s \in dropped \/ OnWire(s)

\* An accepted boost waits for its verdict to leave.
PushAfter == heaterPush.seq # 0 => Gone(heaterPush.seq) \/ InQueue(heaterPush.seq)

\* The walk is entered with the queue drained, and nothing is queued before
\* it has looked at the heater.
Drained == stack # <<>> =>
  /\ Top.at = "deferred" => Busy \/ respQueue = <<>>
  /\ Top.at = "heater" => respQueue = <<>>

PushSent == \A i \in 1 .. Len(stack) :
  stack[i].op = "push" /\ stack[i].at \in {"cmd", "link"} => Gone(stack[i].seq)

PushInv == PushAfter /\ Drained /\ PushSent /\ VerdictBeforePush

LEMMA BusyIs ==
  ASSUME stack \in Seq(Frame), stack' \in Seq(Frame)
  PROVE  /\ Busy <=> \E i \in 1 .. Len(stack) : stack[i].at \in LinkAt
         /\ Busy' <=> \E i \in 1 .. Len(stack') : stack'[i].at \in LinkAt
<1>1. DOMAIN stack = 1 .. Len(stack) /\ DOMAIN stack' = 1 .. Len(stack')
  OBVIOUS
<1> QED
  BY <1>1 DEF Busy, LinkAt

LEMMA BusyOn ==
  ASSUME stack \in Seq(Frame), stack' \in Seq(Frame), stack # <<>>, NEW l, Going(l),
         Top.at \notin LinkAt, Busy
  PROVE  Busy'
<1>1. PICK i \in 1 .. Len(stack) : stack[i].at \in LinkAt
  BY BusyIs
<1>2. Len(stack) \in Nat \ {0} /\ Len(stack') = Len(stack) /\ Kept(Len(stack) - 1)
  BY DEF Going, On
<1>3. i # Len(stack)
  BY <1>1, Positions
<1>4. stack'[i] = stack[i]
  BY <1>1, <1>2, <1>3 DEF Kept
<1> QED
  BY <1>1, <1>2, <1>4, BusyIs

LEMMA DrainedFrom ==
  ASSUME stack \in Seq(Frame), stack' \in Seq(Frame), stack' # <<>>, Callers, Moves
  PROVE  /\ Top'.at = "deferred" => \/ Busy' \/ respQueue' = <<>>
                                    \/ stack # <<>> /\ Top.at = "deferred" /\ ~Busy
         /\ Top'.at = "heater" => /\ stack # <<>>
                                  /\ (Top.at = "deferred" /\ ~Busy) \/ Top.at = "heater"
<1>1. /\ Len(stack) \in Nat /\ (stack # <<>> => Len(stack) \in 1 .. Len(stack) /\ Top = stack[Len(stack)])
      /\ ((stack = <<>>) <=> (Len(stack) = 0))
  BY Positions
<1>2. Len(stack') \in Nat /\ Len(stack') # 0 /\ Top' = stack'[Len(stack')]
  BY DEF Top
<1>3. CASE stack # <<>> /\ CommandMove
  BY <1>1, <1>2, <1>3 DEF CommandMove, GoingCalling, On, Fresh
<1>4. CASE stack # <<>> /\ WalkMove
  BY <1>1, <1>2, <1>4 DEF WalkMove, GoingCalling, On, Fresh
<1>5. CASE SketchMove
  BY <1>1, <1>2, <1>5 DEF SketchMove, Fresh
<1>6. CASE DrainMove
  BY <1>1, <1>2, <1>6 DEF DrainMove, Fresh
<1>7. CASE stack # <<>> /\ Going(Top.at)
  <2>1. Top'.at = Top.at
    BY <1>1, <1>2, <1>7 DEF Going, On
  <2>2. Top.at = "deferred" => Top.at \notin LinkAt
    BY DEF LinkAt
  <2> QED
    BY <1>7, <2>1, <2>2, BusyOn
<1>8. CASE stack # <<>> /\ \E l \in Labels : Going(l) /\ <<Top.at, l>> \in Steps
  BY <1>1, <1>2, <1>8 DEF Going, On, Steps
<1>9. CASE stack # <<>> /\ Top.at = "resp" /\ Going("deferred") /\ (Busy \/ respQueue' = <<>>)
  <2>1. Top'.at = "deferred" /\ Top.at \notin LinkAt
    BY <1>1, <1>2, <1>9 DEF Going, On, LinkAt
  <2> QED
    BY <1>9, <2>1, BusyOn
<1>10. CASE ReturnMove
  <2>1. Len(stack') = Len(stack) - 1 /\ Len(stack) > 1 /\ stack'[Len(stack')].at = stack[Len(stack) - 1].at
    BY <1>1, <1>2, <1>10 DEF ReturnMove, Answering
  <2>2. stack[Len(stack) - 1].at \notin {"deferred", "heater"}
    BY <1>1, <2>1 DEF Callers
  <2> QED
    BY <1>2, <2>1, <2>2
<1>11. CASE LinkMove
  <2>1. PICK i \in 1 .. Len(stack), l \in LinkAt, c \in {0, 1} :
          stack[i].at \in LinkAt /\ InFlightTo(i, l, c)
    BY <1>11 DEF LinkMove, LinkAt
  <2>2. /\ Len(stack') = Len(stack) /\ stack'[i].at = l
        /\ \A j \in 1 .. Len(stack) : j # i => stack'[j] = stack[j]
    BY <2>1 DEF InFlightTo
  <2>3. Busy'
    BY <2>1, <2>2, BusyIs
  <2>4. Top'.at = "heater" => Top.at = "heater" /\ stack # <<>>
    <3>1. "heater" \notin LinkAt
      BY DEF LinkAt
    <3> QED
      BY <1>1, <1>2, <2>1, <2>2, <3>1
  <2> QED
    BY <2>3, <2>4
<1>12. CASE stack' = stack
  BY <1>1, <1>2, <1>12 DEF Busy
<1> QED
  BY <1>3, <1>4, <1>5, <1>6, <1>7, <1>8, <1>9, <1>10, <1>11, <1>12 DEF Moves, PlainMove

\* A frame that sends a push did so before, or the walk calls it now.
LEMMA PushFrom ==
  ASSUME stack \in Seq(Frame), Moves, NEW i \in 1 .. Len(stack'),
         stack'[i].op = "push", stack'[i].at \in {"cmd", "link"}
  PROVE  \/ \E j \in 1 .. Len(stack) : /\ stack[j].op = "push" /\ stack[j].at \in {"cmd", "link"}
                                       /\ stack[j].seq = stack'[i].seq
         \/ stack # <<>> /\ Top.at = "heater" /\ heaterPush.seq # 0 /\ stack'[i].seq = heaterPush.seq
<1>1. /\ Len(stack) \in Nat /\ (stack # <<>> => Len(stack) \in 1 .. Len(stack) /\ Top = stack[Len(stack)])
      /\ ((stack = <<>>) <=> (Len(stack) = 0))
  BY Positions
<1>3. CASE stack # <<>> /\ CommandMove
  BY <1>1, <1>3 DEF CommandMove, GoingCalling, On, Fresh, Kept
<1>4. CASE stack # <<>> /\ WalkMove
  BY <1>1, <1>4 DEF WalkMove, GoingCalling, On, Fresh, Kept
<1>5. CASE SketchMove
  BY <1>1, <1>5 DEF SketchMove, Fresh, Calling, Kept
<1>6. CASE DrainMove
  BY <1>1, <1>6 DEF DrainMove, Fresh, Calling, Kept
<1>7. CASE PlainMove
  BY <1>1, <1>7 DEF PlainMove, Going, On, Steps, Kept
<1>8. CASE ReturnMove
  <2>1. /\ Len(stack') = Len(stack) - 1 /\ i \in 1 .. Len(stack) /\ Kept(Len(stack) - 2)
        /\ i \in 1 .. Len(stack) - 1
    BY <1>1, <1>8 DEF ReturnMove, Answering
  <2>2. CASE i = Len(stack) - 1
    BY <1>1, <1>8, <2>1, <2>2 DEF ReturnMove, Answering
  <2>3. CASE i # Len(stack) - 1
    <3>1. stack'[i] = stack[i]
      BY <1>1, <2>1, <2>3 DEF Kept
    <3> QED
      BY <2>1, <3>1
  <2> QED
    BY <2>2, <2>3
<1>9. CASE LinkMove
  BY <1>1, <1>9 DEF LinkMove, InFlightTo, LinkAt
<1>10. CASE stack' = stack
  BY <1>10
<1> QED
  BY <1>3, <1>4, <1>5, <1>6, <1>7, <1>8, <1>9, <1>10 DEF Moves

LEMMA GoneGrows == ASSUME Typed, [Next]_vars PROVE dropped \subseteq dropped'
<1>1. CASE DispatchVerdict
  <2>1. PICK b \in BOOLEAN : Enqueue(Head(rx).seq, b)
    BY <1>1, VerdictIs
  <2> QED
    BY <2>1 DEF Enqueue
<1>2. CASE DispatchTargets
  BY <1>2, TargetsIs DEF Enqueue
<1> QED
  BY <1>1, <1>2, DroppedKept

\* What went out stays gone.
LEMMA GoneStays ==
  ASSUME Typed, [Next]_vars
  PROVE  \A s : (OnWire(s) => OnWire(s)') /\ (Gone(s) => Gone(s)')
<1>1. dropped \subseteq dropped'
  BY GoneGrows
<1>2. \/ wire' = wire
      \/ \E x \in Sendings : wire' = Append(wire, x)
  <2>1. CASE CommandLink
    <3>1. Top.seq \in MaybeSeq /\ (wire' = wire \/ wire' = Sent(Top.op, Top.seq))
      BY <2>1, CommandLinkIs, Fields DEF Typed
    <3> QED
      BY <3>1, SentIs DEF Typed
  <2>2. CASE DrainResp
    <3>1. wire' = wire \/ (wire' = Sent("resp", Head(respQueue).seq) /\ Head(respQueue).seq \in MaybeSeq)
      BY <2>2, DrainRespIs DEF Typed
    <3> QED
      BY <3>1, SentIs DEF Typed
  <2> QED
    BY <2>1, <2>2, WireKept
<1>3. ASSUME NEW s, OnWire(s) PROVE OnWire(s)'
  <2>1. CASE wire' = wire
    BY <1>3, <2>1 DEF OnWire
  <2>2. CASE \E x \in Sendings : wire' = Append(wire, x)
    <3>1. PICK x \in Sendings : wire' = Append(wire, x)
      BY <2>2
    <3>2. Len(wire) \in Nat /\ Len(wire') = Len(wire) + 1 /\ \A i \in 1 .. Len(wire) : wire'[i] = wire[i]
      BY <3>1, AddedIs DEF Typed
    <3> QED
      BY <1>3, <3>2 DEF OnWire
  <2> QED
    BY <1>2, <2>1, <2>2
<1> QED
  BY <1>1, <1>3 DEF Gone

LEMMA PutOnWire ==
  ASSUME wire \in Seq(Sendings), NEW s \in MaybeSeq, wire' = Sent("resp", s)
  PROVE  OnWire(s)'
<1>1. [op |-> "resp", seq |-> s] \in Sendings /\ wire' = Append(wire, [op |-> "resp", seq |-> s])
  BY SentIs
<1> DEFINE x == [op |-> "resp", seq |-> s]
<1>2. x.op = "resp" /\ x.seq = s /\ x \in Sendings
  BY <1>1
<1>3. wire' = Append(wire, x)
  BY <1>1
<1> HIDE DEF x
<1>4. Len(wire') \in 1 .. Len(wire') /\ wire'[Len(wire')] = x
  BY <1>2, <1>3, AddedIs
<1> QED
  BY <1>2, <1>4 DEF OnWire

LEMMA PushStaysBehind ==
  ASSUME wire \in Seq(Sendings), VerdictBeforePush, NEW o, NEW s \in MaybeSeq,
         wire' = Sent(o, s), dropped \subseteq dropped', o = "push" => Gone(s)
  PROVE  VerdictBeforePush'
<1>1. CASE o \notin {"resp", "push"}
  <2>1. wire' = wire
    BY <1>1, SentIs
  <2> QED
    BY <2>1 DEF VerdictBeforePush, Sends
<1>2. CASE o \in {"resp", "push"}
  <2> DEFINE x == [op |-> o, seq |-> s]
  <2>1. x \in Sendings /\ wire' = Append(wire, x) /\ x.op = o /\ x.seq = s
    BY <1>2, SentIs
  <2> HIDE DEF x
  <2>2. /\ Len(wire) \in Nat /\ Len(wire') = Len(wire) + 1 /\ wire'[Len(wire) + 1] = x
        /\ \A i \in 1 .. Len(wire) : wire'[i] = wire[i]
        /\ DOMAIN wire = 1 .. Len(wire) /\ DOMAIN wire' = 1 .. Len(wire')
    BY <2>1, AddedIs
  <2> SUFFICES ASSUME NEW i \in DOMAIN wire', wire'[i].op = "push"
               PROVE  \/ \E j \in DOMAIN wire' : wire'[j].op = "resp" /\ j < i /\ wire'[j].seq = wire'[i].seq
                      \/ wire'[i].seq \in dropped'
    BY DEF VerdictBeforePush, Sends
  <2>3. CASE i \in 1 .. Len(wire)
    <3>1. i \in Sends("push") /\ wire'[i] = wire[i]
      BY <2>2, <2>3 DEF Sends
    <3>2. CASE wire[i].seq \in dropped
      BY <3>1, <3>2
    <3>3. CASE \E j \in Sends("resp") : j < i /\ wire[j].seq = wire[i].seq
      BY <2>2, <2>3, <3>1, <3>3 DEF Sends
    <3> QED
      BY <3>1, <3>2, <3>3 DEF VerdictBeforePush
  <2>4. CASE i = Len(wire) + 1
    <3>1. o = "push" /\ wire'[i].seq = s /\ Gone(s)
      BY <2>1, <2>2, <2>4
    <3>2. CASE s \in dropped
      BY <3>1, <3>2
    <3>3. CASE OnWire(s)
      <4>1. PICK j \in 1 .. Len(wire) : wire[j].op = "resp" /\ wire[j].seq = s
        BY <3>3 DEF OnWire
      <4> QED
        BY <2>2, <2>4, <3>1, <4>1
    <3> QED
      BY <3>1, <3>2, <3>3 DEF Gone
  <2> QED
    BY <2>2, <2>3, <2>4
<1> QED
  BY <1>1, <1>2

LEMMA QueueAdded ==
  ASSUME respQueue \in Seq(Verdicts), NEW s \in MaybeSeq, NEW b \in BOOLEAN, Enqueue(s, b)
  PROVE  /\ s \in dropped' \/ InQueue(s)'
         /\ \A t : InQueue(t) => InQueue(t)'
<1>1. CASE dropped' = dropped \cup {s} /\ respQueue' = respQueue
  BY <1>1 DEF InQueue
<1>2. CASE /\ dropped' = dropped /\ respQueue' = Append(respQueue, [seq |-> s, allow |-> b])
           /\ [seq |-> s, allow |-> b] \in Verdicts
  <2> DEFINE v == [seq |-> s, allow |-> b]
  <2>1. v \in Verdicts /\ v.seq = s /\ respQueue' = Append(respQueue, v)
    BY <1>2
  <2> HIDE DEF v
  <2>2. /\ Len(respQueue) \in Nat /\ Len(respQueue') = Len(respQueue) + 1 /\ respQueue'[Len(respQueue) + 1] = v
        /\ \A i \in 1 .. Len(respQueue) : respQueue'[i] = respQueue[i]
    BY <2>1, AddedIs
  <2>3. InQueue(s)'
    BY <2>1, <2>2 DEF InQueue
  <2>4. ASSUME NEW t, InQueue(t) PROVE InQueue(t)'
    BY <2>2, <2>4 DEF InQueue
  <2> QED
    BY <2>3, <2>4
<1> QED
  BY <1>1, <1>2, EnqueueIs

LEMMA PushAfterStep == ASSUME Typed, PushAfter, [Next]_vars PROVE PushAfter'
<1>1. respQueue \in Seq(Verdicts)
  BY DEF Typed
<1>2. \A s : Gone(s) => Gone(s)'
  BY GoneStays
<1>3. ASSUME heaterPush' = heaterPush, \A s : InQueue(s) => InQueue(s)' \/ Gone(s)' PROVE PushAfter'
  BY <1>2, <1>3 DEF PushAfter
<1>4. CASE HeaterWork
  <2>1. respQueue' = respQueue
    BY <1>4 DEF HeaterWork
  <2>2. heaterPush' = heaterPush \/ heaterPush' = NoPush
    BY <1>4 DEF HeaterWork
  <2>3. NoPush.seq = 0
    BY DEF NoPush
  <2>4. CASE heaterPush' = heaterPush
    BY <1>3, <2>1, <2>4 DEF InQueue
  <2>5. CASE heaterPush' = NoPush
    BY <2>3, <2>5 DEF PushAfter
  <2> QED
    BY <2>2, <2>4, <2>5
<1>5. CASE DispatchVerdict
  <2>1. PICK s \in MaybeSeq : s = Head(rx).seq
    BY <1>5, VerdictIs
  <2>2. PICK b \in BOOLEAN : Enqueue(s, b)
    BY <1>5, <2>1, VerdictIs
  <2>3. heaterPush' = heaterPush \/ heaterPush'.seq = s
    BY <1>5, <2>1, VerdictIs
  <2>4. (s \in dropped' \/ InQueue(s)') /\ \A t : InQueue(t) => InQueue(t)'
    BY <1>1, <2>2, QueueAdded
  <2>5. CASE heaterPush' = heaterPush
    BY <1>3, <2>4, <2>5
  <2>6. CASE heaterPush'.seq = s
    <3>1. Gone(s)' \/ InQueue(s)'
      BY <2>4 DEF Gone
    <3> QED
      BY <2>6, <3>1 DEF PushAfter, Gone, OnWire, InQueue
  <2> QED
    BY <2>3, <2>5, <2>6
<1>6. CASE heaterPush' = heaterPush
  <2>1. CASE respQueue' = respQueue
    BY <1>3, <1>6, <2>1 DEF InQueue
  <2>2. CASE DrainResp
    <3>1. CASE respQueue' = respQueue
      BY <1>3, <1>6, <3>1 DEF InQueue
    <3>2. CASE /\ respQueue # <<>> /\ respQueue' = Tail(respQueue) /\ Head(respQueue).seq \in MaybeSeq
               /\ wire' = Sent("resp", Head(respQueue).seq)
      <4> DEFINE h == Head(respQueue).seq
      <4>1. PICK g \in MaybeSeq : g = h
        BY <3>2
      <4>5. OnWire(g)'
        BY <3>2, <4>1, PutOnWire DEF Typed
      <4>2. /\ Len(respQueue) \in Nat \ {0} /\ Len(respQueue') = Len(respQueue) - 1
            /\ Head(respQueue) = respQueue[1]
            /\ \A i \in 1 .. Len(respQueue) - 1 : respQueue'[i] = respQueue[i + 1]
        BY <1>1, <3>2, TailIs
      <4>3. ASSUME NEW s, InQueue(s) PROVE InQueue(s)' \/ Gone(s)'
        <5>1. PICK i \in 1 .. Len(respQueue) : respQueue[i].seq = s
          BY <4>3 DEF InQueue
        <5>2. CASE i = 1
          <6>1. s = g
            BY <4>1, <4>2, <5>1, <5>2
          <6> QED
            BY <4>5, <6>1 DEF Gone
        <5>3. CASE i # 1
          <6>1. i - 1 \in 1 .. Len(respQueue') /\ respQueue'[i - 1].seq = s
            BY <4>2, <5>1, <5>3
          <6> QED
            BY <6>1 DEF InQueue
        <5> QED
          BY <5>2, <5>3
      <4> QED
        BY <1>3, <1>6, <4>3
    <3> QED
      BY <1>1, <2>2, <3>1, <3>2, DrainRespIs DEF Typed
  <2>3. CASE DispatchTargets
    <3>1. CASE Enqueue(Head(rx).seq, FALSE)
      <4>1. \A t : InQueue(t) => InQueue(t)'
        BY <1>1, <2>3, <3>1, TargetsIs, QueueAdded
      <4> QED
        BY <1>3, <1>6, <4>1
    <3>2. CASE respQueue' = respQueue
      BY <1>3, <1>6, <3>2 DEF InQueue
    <3> QED
      BY <2>3, <3>1, <3>2, TargetsIs
  <2> QED
    BY <1>5, <2>1, <2>2, <2>3, QueueKept
<1> QED
  BY <1>4, <1>5, <1>6, PushKept

LEMMA DrainedStep == ASSUME Typed, StackInv, Drained, [Next]_vars PROVE Drained'
<1> SUFFICES ASSUME stack' # <<>>
             PROVE  /\ Top'.at = "deferred" => Busy' \/ respQueue' = <<>>
                    /\ Top'.at = "heater" => respQueue' = <<>>
  BY DEF Drained
<1>1. stack \in Seq(Frame) /\ stack' \in Seq(Frame) /\ Moves /\ Callers
  BY AllMoves DEF Typed, StackInv
<1>2. /\ Top'.at = "deferred" => \/ Busy' \/ respQueue' = <<>>
                                 \/ stack # <<>> /\ Top.at = "deferred" /\ ~Busy
      /\ Top'.at = "heater" => /\ stack # <<>>
                               /\ (Top.at = "deferred" /\ ~Busy) \/ Top.at = "heater"
  BY <1>1, DrainedFrom
<1>3. /\ stack # <<>> /\ Top.at = "deferred" /\ ~Busy => respQueue = <<>>
      /\ stack # <<>> /\ Top.at = "heater" => respQueue = <<>>
  BY DEF Drained
<1>4. stack # <<>> /\ Top.at \in {"deferred", "heater"} => respQueue' = respQueue
  <2>1. DrainResp => Top.at = "resp"
    BY DEF DrainResp, At
  <2>2. DispatchVerdict \/ DispatchTargets => Top.at \in LinkAt
    BY DEF DispatchVerdict, DispatchTargets, Reading, LinkAt
  <2> QED
    BY <2>1, <2>2, QueueKept DEF LinkAt
<1> QED
  BY <1>2, <1>3, <1>4

LEMMA PushSentStep ==
  ASSUME Typed, StackInv, PushAfter, Drained, PushSent, [Next]_vars
  PROVE  PushSent'
<1> SUFFICES ASSUME NEW i \in 1 .. Len(stack'), NEW s, s = stack'[i].seq,
                    stack'[i].op = "push", stack'[i].at \in {"cmd", "link"}
             PROVE  Gone(s)'
  BY DEF PushSent, Gone, OnWire
<1>1. stack \in Seq(Frame) /\ Moves
  BY AllMoves DEF Typed
<1>2. \A t : Gone(t) => Gone(t)'
  BY GoneStays
<1>3. CASE \E j \in 1 .. Len(stack) : stack[j].op = "push" /\ stack[j].at \in {"cmd", "link"} /\ stack[j].seq = s
  BY <1>2, <1>3 DEF PushSent
<1>4. CASE stack # <<>> /\ Top.at = "heater" /\ heaterPush.seq # 0 /\ s = heaterPush.seq
  <2>1. ~InQueue(s)
    <3>1. respQueue = <<>>
      BY <1>4 DEF Drained
    <3> QED
      BY <3>1 DEF InQueue
  <2> QED
    BY <1>2, <1>4, <2>1 DEF PushAfter
<1> QED
  BY <1>1, <1>3, <1>4, PushFrom

LEMMA VerdictBeforePushStep ==
  ASSUME Typed, StackInv, PushSent, VerdictBeforePush, [Next]_vars
  PROVE  VerdictBeforePush'
<1>1. dropped \subseteq dropped'
  BY GoneGrows
<1>2. CASE wire' = wire
  BY <1>1, <1>2 DEF VerdictBeforePush, Sends
<1>3. CASE CommandLink
  <2>1. Top.seq \in MaybeSeq /\ stack # <<>> /\ Top.at = "link" /\ (wire' = wire \/ wire' = Sent(Top.op, Top.seq))
    BY <1>3, CommandLinkIs, Fields DEF Typed
  <2>2. Top.op = "push" => Gone(Top.seq)
    BY <2>1, Positions DEF PushSent, Typed
  <2> QED
    BY <1>1, <1>2, <2>1, <2>2, PushStaysBehind DEF Typed
<1>4. CASE DrainResp
  <2>1. wire' = wire \/ (wire' = Sent("resp", Head(respQueue).seq) /\ Head(respQueue).seq \in MaybeSeq)
    BY <1>4, DrainRespIs DEF Typed
  <2>2. CASE wire' = Sent("resp", Head(respQueue).seq) /\ Head(respQueue).seq \in MaybeSeq
    BY <1>1, <2>2, PushStaysBehind DEF Typed
  <2> QED
    BY <1>2, <2>1, <2>2
<1> QED
  BY <1>2, <1>3, <1>4, WireKept

LEMMA PushInvStep == ASSUME Typed, StackInv, PushInv, [Next]_vars PROVE PushInv'
BY PushAfterStep, DrainedStep, PushSentStep, VerdictBeforePushStep DEF PushInv

---------------------------------------------------------------------------
(* lastError() is the command's own.                                       *)

\* The sketch's command has its code, or one that saves nothing replaced it:
\* a callback's or the update's.
Good(o, c) == o \in {"callback", "update"} \/ (o = "app" /\ c = stack[1].rc)

\* The outermost walk of the registry keeps what it found; outside a walk,
\* lastError() is it.
Found ==
  /\ (\A i \in 1 .. Len(stack) : stack[i].at \notin WalkAt) => Good(lastError.op, lastError.rc)
  /\ \A i \in 1 .. Len(stack) :
       stack[i].at \in WalkAt /\ (\A j \in 1 .. i - 1 : stack[j].at \notin WalkAt) =>
         Good(stack[i].op, stack[i].rc)

\* The sketch's command is outermost, and waits for its answer or for a drain.
OwnFrame ==
  Len(stack) > 0 /\ stack[1].op = "app" =>
    /\ stack[1].at \in CallAt \ {"poll"}
    /\ stack[1].at = "resp" /\ Len(stack) > 1 =>
         /\ stack[2].at \in {"await", "acted", "served"}
         /\ stack[2].op = "app" => stack[2].seq = stack[1].seq

\* It has been answered.
Past ==
  /\ Len(stack) > 0 /\ stack[1].op = "app"
  /\ \/ stack[1].at \in {"deferred", "tail", "update", "ret"}
     \/ stack[1].at = "resp" /\ (Len(stack) = 1 \/ stack[2].op # "app")

OwnInv == OwnFrame /\ (Past => Found)

LEMMA OwnFrameKept == ASSUME stack \in Seq(Frame), StackInv, OwnFrame, Moves PROVE OwnFrame'
<1>1. /\ Len(stack) \in Nat /\ (stack # <<>> => Len(stack) \in 1 .. Len(stack) /\ Top = stack[Len(stack)])
      /\ ((stack = <<>>) <=> (Len(stack) = 0))
      /\ (~Busy => \A i \in 1 .. Len(stack) : stack[i].at \notin LinkAt)
      /\ (Busy => \E i \in 1 .. Len(stack) : stack[i].at \in LinkAt)
  BY Positions
<1>2. CASE stack # <<>> /\ CommandMove
  <2>1. CASE Top.at = "cmd" /\ GoingCalling("link", Top.seq) /\ Fresh("poll", "none", 0, 0)
    BY <1>1, <2>1 DEF GoingCalling, On, Kept, Fresh, OwnFrame, StackInv, Callers, LinkAt, CallAt
  <2>2. CASE Top.at = "poll" /\ ~Busy /\ GoingCalling("resp", Top.seq) /\ Fresh("read", "none", 0, 0)
    BY <1>1, <2>2 DEF GoingCalling, On, Kept, Fresh, OwnFrame, StackInv, Callers, LinkAt, CallAt
  <2>3. CASE Top.at = "link" /\ ~Busy /\ GoingCalling("resp", Top.seq) /\ Fresh("await", Top.op, Top.seq, 0)
    BY <1>1, <2>3 DEF GoingCalling, On, Kept, Fresh, OwnFrame, StackInv, Callers, LinkAt, CallAt
  <2>4. CASE /\ Top.at = "deferred" /\ ~Busy /\ GoingCalling("tail", Top.seq)
             /\ Fresh("heater", lastError.op, 0, lastError.rc)
    BY <1>1, <2>4 DEF GoingCalling, On, Kept, Fresh, OwnFrame, StackInv, Callers, LinkAt, CallAt
  <2>5. CASE Top.at = "tail" /\ ~Busy /\ GoingCalling("update", Top.seq) /\ Fresh("cmd", "update", 0, 0)
    BY <1>1, <2>5 DEF GoingCalling, On, Kept, Fresh, OwnFrame, StackInv, Callers, LinkAt, CallAt
  <2> QED
    BY <1>2, <2>1, <2>2, <2>3, <2>4, <2>5 DEF CommandMove
<1>3. CASE stack # <<>> /\ WalkMove
  <2>1. CASE /\ Top.at = "heater" /\ heaterPush.seq # 0 /\ GoingCalling("evse", Top.seq)
             /\ Fresh("cmd", "push", heaterPush.seq, 0)
    BY <1>1, <2>1 DEF GoingCalling, On, Kept, Fresh, OwnFrame, StackInv, Callers, LinkAt, CallAt
  <2>2. CASE Top.at = "evse" /\ GoingCalling("fetched", evsePending) /\ Fresh("cmd", "fetch", evsePending, 0)
    BY <1>1, <2>2 DEF GoingCalling, On, Kept, Fresh, OwnFrame, StackInv, Callers, LinkAt, CallAt
  <2>3. CASE Top.at = "fetched" /\ GoingCalling("merge", Top.seq) /\ Fresh("cmd", "resp", Top.seq, 0)
    BY <1>1, <2>3 DEF GoingCalling, On, Kept, Fresh, OwnFrame, StackInv, Callers, LinkAt, CallAt
  <2>4. CASE Top.at = "sync" /\ GoingCalling("synced", Top.seq) /\ Fresh("cmd", "getall", 0, 0)
    BY <1>1, <2>4 DEF GoingCalling, On, Kept, Fresh, OwnFrame, StackInv, Callers, LinkAt, CallAt
  <2> QED
    BY <1>3, <2>1, <2>2, <2>3, <2>4 DEF WalkMove
<1>4. CASE SketchMove
  BY <1>1, <1>4 DEF SketchMove, Calling, Kept, Fresh, OwnFrame, StackInv, Handed, LinkAt, CallAt
<1>5. CASE DrainMove
  BY <1>1, <1>5 DEF DrainMove, Calling, Kept, Fresh, OwnFrame, LinkAt, CallAt
<1>6. CASE PlainMove
  BY <1>1, <1>6 DEF PlainMove, Going, On, Kept, Steps, OwnFrame, StackInv, Handed, Readers, LinkAt, CallAt
<1>7. CASE ReturnMove
  BY <1>1, <1>7 DEF ReturnMove, Answering, Kept, OwnFrame, StackInv, LinkAt, CallAt
<1>8. CASE LinkMove
  BY <1>1, <1>8 DEF LinkMove, InFlightTo, OwnFrame, StackInv, Readers, LinkAt, CallAt
<1>9. CASE stack' = stack
  BY <1>1, <1>9 DEF OwnFrame
<1> QED
  BY <1>2, <1>3, <1>4, <1>5, <1>6, <1>7, <1>8, <1>9 DEF Moves

\* A walk that was on the stack is still there, and no other.
WalksKept ==
  /\ Len(stack) \in Nat /\ Len(stack') \in Nat
  /\ \A i \in 1 .. Len(stack) : stack[i].at \in WalkAt =>
       /\ i \in 1 .. Len(stack') /\ stack'[i].at \in WalkAt
       /\ stack'[i].op = stack[i].op /\ stack'[i].rc = stack[i].rc
  /\ \A i \in 1 .. Len(stack') : stack'[i].at \in WalkAt =>
       i \in 1 .. Len(stack) /\ stack[i].at \in WalkAt

\* The caller's code is changed by an answer only.
CodesKept ==
  Len(stack) > 1 => \/ stack'[Len(stack) - 1].rc = stack[Len(stack) - 1].rc
                    \/ stack[Len(stack) - 1].at = "resp"

LEMMA WalksStay ==
  ASSUME stack \in Seq(Frame), stack' \in Seq(Frame), StackInv, Moves,
         stack # <<>> /\ Top.at = "deferred" => Len(stack') = Len(stack),
         Returns /\ ReturnMove => Top.at \notin WalkAt /\ CodesKept
  PROVE  WalksKept
<1>1. /\ Len(stack) \in Nat /\ (stack # <<>> => Len(stack) \in 1 .. Len(stack) /\ Top = stack[Len(stack)])
      /\ ((stack = <<>>) <=> (Len(stack) = 0)) /\ Len(stack') \in Nat
  BY Positions
<1>2. CASE stack # <<>> /\ CommandMove
  <2>1. CASE Top.at = "cmd" /\ GoingCalling("link", Top.seq) /\ Fresh("poll", "none", 0, 0)
    BY <1>1, <2>1 DEF GoingCalling, On, Kept, Fresh, WalksKept, WalkAt
  <2>2. CASE Top.at = "poll" /\ ~Busy /\ GoingCalling("resp", Top.seq) /\ Fresh("read", "none", 0, 0)
    BY <1>1, <2>2 DEF GoingCalling, On, Kept, Fresh, WalksKept, WalkAt
  <2>3. CASE Top.at = "link" /\ ~Busy /\ GoingCalling("resp", Top.seq) /\ Fresh("await", Top.op, Top.seq, 0)
    BY <1>1, <2>3 DEF GoingCalling, On, Kept, Fresh, WalksKept, WalkAt
  <2>4. CASE Top.at = "tail" /\ ~Busy /\ GoingCalling("update", Top.seq) /\ Fresh("cmd", "update", 0, 0)
    BY <1>1, <2>4 DEF GoingCalling, On, Kept, Fresh, WalksKept, WalkAt
  <2>5. Top.at = "deferred" => ~GoingCalling("tail", Top.seq)
    BY <1>1, <1>2 DEF GoingCalling
  <2> QED
    BY <1>2, <2>1, <2>2, <2>3, <2>4, <2>5 DEF CommandMove
<1>3. CASE stack # <<>> /\ WalkMove
  <2>1. CASE /\ Top.at = "heater" /\ heaterPush.seq # 0 /\ GoingCalling("evse", Top.seq)
             /\ Fresh("cmd", "push", heaterPush.seq, 0)
    BY <1>1, <2>1 DEF GoingCalling, On, Kept, Fresh, WalksKept, WalkAt
  <2>2. CASE Top.at = "evse" /\ GoingCalling("fetched", evsePending) /\ Fresh("cmd", "fetch", evsePending, 0)
    BY <1>1, <2>2 DEF GoingCalling, On, Kept, Fresh, WalksKept, WalkAt
  <2>3. CASE Top.at = "fetched" /\ GoingCalling("merge", Top.seq) /\ Fresh("cmd", "resp", Top.seq, 0)
    BY <1>1, <2>3 DEF GoingCalling, On, Kept, Fresh, WalksKept, WalkAt
  <2>4. CASE Top.at = "sync" /\ GoingCalling("synced", Top.seq) /\ Fresh("cmd", "getall", 0, 0)
    BY <1>1, <2>4 DEF GoingCalling, On, Kept, Fresh, WalksKept, WalkAt
  <2> QED
    BY <1>3, <2>1, <2>2, <2>3, <2>4 DEF WalkMove
<1>4. CASE SketchMove
  BY <1>1, <1>4 DEF SketchMove, Calling, Kept, Fresh, WalksKept, WalkAt
<1>5. CASE DrainMove
  BY <1>1, <1>5 DEF DrainMove, Calling, Kept, Fresh, WalksKept, WalkAt
<1>6. CASE PlainMove
  BY <1>1, <1>6 DEF PlainMove, Going, On, Kept, Steps, WalksKept, WalkAt
<1>7. CASE Returns /\ ReturnMove
  <2>1. Top.at \notin WalkAt /\ CodesKept
    BY <1>7
  <2> QED
    BY <1>1, <1>7, <2>1 DEF ReturnMove, Answering, Kept, CodesKept, WalksKept, WalkAt
<1>8. CASE LinkMove
  BY <1>1, <1>8 DEF LinkMove, InFlightTo, WalksKept, WalkAt
<1>9. CASE stack' = stack
  BY <1>1, <1>9 DEF WalksKept
<1> QED
  BY <1>2, <1>3, <1>4, <1>5, <1>6, <1>7, <1>8, <1>9 DEF Moves

\* Only an answer to the outermost call changes its code.
LEMMA FirstCode ==
  ASSUME stack \in Seq(Frame), stack' \in Seq(Frame), StackInv, Moves,
         Len(stack) > 0, Len(stack') > 0,
         Returns /\ ReturnMove /\ Len(stack) = 2 => stack'[1].rc = stack[1].rc
  PROVE  stack'[1].rc = stack[1].rc
<1>1. /\ Len(stack) \in Nat \ {0} /\ Len(stack) \in 1 .. Len(stack) /\ Top = stack[Len(stack)]
      /\ Len(stack') \in Nat
  BY Positions
<1>2. CASE CommandMove \/ WalkMove
  <2>1. Len(stack') = Len(stack) + 1 /\ Kept(Len(stack) - 1) /\ stack'[Len(stack)].rc = Top.rc
    BY <1>2 DEF CommandMove, WalkMove, GoingCalling, On
  <2> QED
    BY <1>1, <2>1 DEF Kept
<1>3. CASE SketchMove \/ DrainMove
  BY <1>1, <1>3 DEF SketchMove, DrainMove, Calling, Kept
<1>4. CASE PlainMove
  <2>1. Kept(Len(stack) - 1) /\ stack'[Len(stack)].rc = Top.rc
    BY <1>4 DEF PlainMove, Going, On
  <2> QED
    BY <1>1, <2>1 DEF Kept
<1>5. CASE Returns /\ ReturnMove
  BY <1>1, <1>5 DEF ReturnMove, Answering, Kept
<1>6. CASE LinkMove
  BY <1>1, <1>6 DEF LinkMove, InFlightTo, StackInv, Readers, LinkAt
<1> QED
  BY <1>2, <1>3, <1>4, <1>5, <1>6 DEF Moves

LEMMA FoundOn ==
  ASSUME WalksKept, Found, stack'[1].rc = stack[1].rc,
         \/ lastError' = lastError
         \/ lastError'.op \in {"callback", "update"}
         \/ \E i \in 1 .. Len(stack) : stack[i].at \in WalkAt
  PROVE  Found'
<1>1. ASSUME \A i \in 1 .. Len(stack') : stack'[i].at \notin WalkAt
      PROVE  Good(lastError.op, lastError.rc)'
  <2>1. \A i \in 1 .. Len(stack) : stack[i].at \notin WalkAt
    BY <1>1 DEF WalksKept
  <2>2. Good(lastError.op, lastError.rc)
    BY <2>1 DEF Found
  <2>3. CASE lastError' = lastError
    BY <2>2, <2>3 DEF Good
  <2>4. CASE lastError'.op \in {"callback", "update"}
    BY <2>4 DEF Good
  <2> QED
    BY <2>1, <2>3, <2>4
<1>2. ASSUME NEW i \in 1 .. Len(stack'), stack'[i].at \in WalkAt,
             \A j \in 1 .. i - 1 : stack'[j].at \notin WalkAt
      PROVE  \/ stack'[i].op \in {"callback", "update"}
             \/ stack'[i].op = "app" /\ stack'[i].rc = stack'[1].rc
  <2>1. i \in 1 .. Len(stack) /\ stack[i].at \in WalkAt
    BY <1>2 DEF WalksKept
  <2>2. stack'[i].op = stack[i].op /\ stack'[i].rc = stack[i].rc
    BY <2>1 DEF WalksKept
  <2>3. \A j \in 1 .. i - 1 : stack[j].at \notin WalkAt
    BY <1>2, <2>1 DEF WalksKept
  <2>4. Good(stack[i].op, stack[i].rc)
    BY <2>1, <2>3 DEF Found
  <2> QED
    BY <2>2, <2>4 DEF Good
<1> QED
  BY <1>1, <1>2 DEF Found, Good

\* A command of the sketch becomes an answered one by its answer.
LEMMA OwnAnswer ==
  ASSUME stack \in Seq(Frame), stack' \in Seq(Frame), StackInv, OwnFrame, Moves, ~Past, Past'
  PROVE  /\ Returns /\ ReturnMove /\ Len(stack) = 2 /\ Len(stack') = 1 /\ Top = stack[2]
         /\ stack[1].at = "resp" /\ stack'[1].at = "resp" /\ Top.op = "app" /\ stack[1].op = "app"
         /\ Top.at = "served" /\ Top.seq = stack[1].seq
<1>1. /\ Len(stack) \in Nat /\ (stack # <<>> => Len(stack) \in 1 .. Len(stack) /\ Top = stack[Len(stack)])
      /\ ((stack = <<>>) <=> (Len(stack) = 0)) /\ Len(stack') \in Nat
      /\ (Busy => \E i \in 1 .. Len(stack) : stack[i].at \in LinkAt)
  BY Positions
<1>2. CASE stack # <<>> /\ CommandMove
  <2>1. CASE Top.at = "cmd" /\ GoingCalling("link", Top.seq) /\ Fresh("poll", "none", 0, 0)
    BY <1>1, <2>1 DEF GoingCalling, On, Kept, Fresh, Past, OwnFrame, CallAt
  <2>2. CASE Top.at = "poll" /\ ~Busy /\ GoingCalling("resp", Top.seq) /\ Fresh("read", "none", 0, 0)
    BY <1>1, <2>2 DEF GoingCalling, On, Kept, Fresh, Past, OwnFrame, CallAt
  <2>3. CASE Top.at = "link" /\ ~Busy /\ GoingCalling("resp", Top.seq) /\ Fresh("await", Top.op, Top.seq, 0)
    BY <1>1, <2>3 DEF GoingCalling, On, Kept, Fresh, Past, OwnFrame, CallAt
  <2>4. CASE /\ Top.at = "deferred" /\ ~Busy /\ GoingCalling("tail", Top.seq)
             /\ Fresh("heater", lastError.op, 0, lastError.rc)
    BY <1>1, <2>4 DEF GoingCalling, On, Kept, Fresh, Past, OwnFrame, CallAt
  <2>5. CASE Top.at = "tail" /\ ~Busy /\ GoingCalling("update", Top.seq) /\ Fresh("cmd", "update", 0, 0)
    BY <1>1, <2>5 DEF GoingCalling, On, Kept, Fresh, Past, OwnFrame, CallAt
  <2> QED
    BY <1>2, <2>1, <2>2, <2>3, <2>4, <2>5 DEF CommandMove
<1>3. CASE stack # <<>> /\ WalkMove
  <2>1. CASE /\ Top.at = "heater" /\ heaterPush.seq # 0 /\ GoingCalling("evse", Top.seq)
             /\ Fresh("cmd", "push", heaterPush.seq, 0)
    BY <1>1, <2>1 DEF GoingCalling, On, Kept, Fresh, Past, OwnFrame, CallAt
  <2>2. CASE Top.at = "evse" /\ GoingCalling("fetched", evsePending) /\ Fresh("cmd", "fetch", evsePending, 0)
    BY <1>1, <2>2 DEF GoingCalling, On, Kept, Fresh, Past, OwnFrame, CallAt
  <2>3. CASE Top.at = "fetched" /\ GoingCalling("merge", Top.seq) /\ Fresh("cmd", "resp", Top.seq, 0)
    BY <1>1, <2>3 DEF GoingCalling, On, Kept, Fresh, Past, OwnFrame, CallAt
  <2>4. CASE Top.at = "sync" /\ GoingCalling("synced", Top.seq) /\ Fresh("cmd", "getall", 0, 0)
    BY <1>1, <2>4 DEF GoingCalling, On, Kept, Fresh, Past, OwnFrame, CallAt
  <2> QED
    BY <1>3, <2>1, <2>2, <2>3, <2>4 DEF WalkMove
<1>4. CASE SketchMove
  BY <1>1, <1>4 DEF SketchMove, Calling, Kept, Fresh, Past, StackInv, Handed, OwnFrame, LinkAt, CallAt
<1>5. CASE DrainMove
  <2>1. Top.at = "resp" /\ stack # <<>> /\ Len(stack') = Len(stack) + 1 /\ Kept(Len(stack))
    BY <1>5 DEF DrainMove, Calling
  <2>2. CASE Len(stack) = 1
    BY <1>1, <2>1, <2>2 DEF Kept, Past
  <2>3. CASE Len(stack) # 1
    <3>1. Len(stack) # 0 /\ Len(stack) \in Nat /\ Len(stack') = Len(stack) + 1
      BY <1>1, <2>1
    <3>2. 1 \in 1 .. Len(stack) /\ 2 \in 1 .. Len(stack) /\ Len(stack) > 1 /\ Len(stack') > 1
      <4> DEFINE n == Len(stack)  m == Len(stack')
      <4>1. n \in Nat /\ n # 0 /\ n # 1 /\ m = n + 1
        BY <2>3, <3>1
      <4> HIDE DEF n, m
      <4>2. 1 \in 1 .. n /\ 2 \in 1 .. n /\ n > 1 /\ m > 1
        BY <4>1
      <4> QED
        BY <4>2 DEF n, m
    <3>3. stack'[1] = stack[1] /\ stack'[2] = stack[2]
      BY <2>1, <3>2 DEF Kept
    <3> QED
      BY <3>2, <3>3 DEF Past
  <2> QED
    BY <2>2, <2>3
<1>6. CASE PlainMove
  <2>1. /\ stack # <<>> /\ Len(stack') = Len(stack) /\ Kept(Len(stack) - 1)
        /\ stack'[Len(stack)].op = Top.op
        /\ \/ stack'[Len(stack)].at = Top.at
           \/ Top.at = "link" /\ Busy
           \/ Top.at \in {"poll", "resp", "deferred", "tail", "update", "heater"}
    BY <1>6 DEF PlainMove, Going, On, Steps
  <2>2. Len(stack) = 1 => ~Busy
    BY <1>1 DEF StackInv, Readers
  <2>3. CASE Len(stack) = 1
    BY <1>1, <2>1, <2>2, <2>3 DEF Past, OwnFrame, CallAt
  <2>4. CASE Len(stack) # 1
    BY <1>1, <2>1, <2>4 DEF Kept, Past
  <2> QED
    BY <2>3, <2>4
<1>7. CASE Returns /\ ReturnMove
  <2>1. Answering /\ stack # <<>> /\ Top.at \in {"ret", "evse", "fetched", "merge", "synced", "read", "served"}
    BY <1>7 DEF ReturnMove
  <2>2. Len(stack) = 2 /\ Len(stack') = 1 /\ stack[1].at = "resp" /\ stack[2].op = "app" /\ stack[1].op = "app"
        /\ stack'[1].at = "resp"
    BY <1>1, <2>1 DEF Answering, Kept, Past, StackInv, Callers
  <2>3. stack[2].at \in {"await", "acted", "served"} /\ stack[2].seq = stack[1].seq
    BY <2>2 DEF OwnFrame
  <2> QED
    BY <1>1, <1>7, <2>1, <2>2, <2>3
<1>8. CASE LinkMove
  BY <1>1, <1>8 DEF LinkMove, InFlightTo, Past, StackInv, Readers, LinkAt
<1>9. CASE stack' = stack
  BY <1>9 DEF Past
<1> QED
  BY <1>2, <1>3, <1>4, <1>5, <1>6, <1>7, <1>8, <1>9 DEF Moves

\* The walk that ends was the outermost, and puts back what it found, or a
\* walk further out still has it.
LEMMA WalkReturns ==
  ASSUME stack \in Seq(Frame), stack' \in Seq(Frame), Found, Past', stack # <<>>, Top.at \in WalkAt,
         Returning, lastError' = [op |-> Top.op, rc |-> Top.rc]
  PROVE  Found'
<1>1. /\ Len(stack) \in Nat \ {0} /\ Len(stack) \in 1 .. Len(stack) /\ Top = stack[Len(stack)]
      /\ Len(stack') = Len(stack) - 1 /\ \A i \in 1 .. Len(stack') : stack'[i] = stack[i]
      /\ Len(stack') > 0
  BY Positions DEF Returning, Kept, Past
<1>2. stack'[1].rc = stack[1].rc
  BY <1>1
<1>3. ASSUME \A i \in 1 .. Len(stack') : stack'[i].at \notin WalkAt
      PROVE  Good(lastError.op, lastError.rc)'
  <2>1. \A j \in 1 .. Len(stack) - 1 : stack[j].at \notin WalkAt
    BY <1>1, <1>3
  <2>2. Good(Top.op, Top.rc)
    BY <1>1, <2>1 DEF Found
  <2> QED
    BY <1>2, <2>2 DEF Good
<1>4. ASSUME NEW i \in 1 .. Len(stack'), stack'[i].at \in WalkAt,
             \A j \in 1 .. i - 1 : stack'[j].at \notin WalkAt
      PROVE  \/ stack'[i].op \in {"callback", "update"}
             \/ stack'[i].op = "app" /\ stack'[i].rc = stack'[1].rc
  <2>1. i \in 1 .. Len(stack) /\ stack[i].at \in WalkAt
    BY <1>1, <1>4
  <2>2. ASSUME NEW j \in 1 .. i - 1 PROVE stack[j].at \notin WalkAt
    <3>1. j \in 1 .. Len(stack') /\ stack'[j].at \notin WalkAt
      BY <1>1, <1>4
    <3> QED
      BY <1>1, <3>1
  <2>3. Good(stack[i].op, stack[i].rc)
    BY <2>1, <2>2 DEF Found
  <2> QED
    BY <1>1, <1>2, <2>3 DEF Good
<1> QED
  BY <1>3, <1>4 DEF Found, Good

\* The walk keeps what it finds.
LEMMA OwnDeferred ==
  ASSUME stack \in Seq(Frame), stack' \in Seq(Frame), Typed, StackInv, Found, stack # <<>>, DrainDeferred
  PROVE  Found'
<1>1. /\ Len(stack) \in Nat \ {0} /\ Len(stack) \in 1 .. Len(stack) /\ Top = stack[Len(stack)]
      /\ Len(stack') \in Nat /\ Top.at = "deferred" /\ lastError' = lastError
      /\ Kept(Len(stack) - 1) /\ stack'[Len(stack)].at = "tail" /\ stack'[Len(stack)].rc = Top.rc
      /\ \/ Len(stack') = Len(stack)
         \/ Len(stack') = Len(stack) + 1 /\ Fresh("heater", lastError.op, 0, lastError.rc)
  <2>1. Top.at = "deferred" /\ (Going("tail") \/ (GoingCalling("tail", Top.seq)
                                                   /\ Fresh("heater", lastError.op, 0, lastError.rc)))
    BY DrainDeferredIs DEF Typed
  <2>2. lastError' = lastError
    BY DEF DrainDeferred
  <2>3. /\ Len(stack) \in Nat \ {0} /\ Len(stack) \in 1 .. Len(stack) /\ Top = stack[Len(stack)]
        /\ Len(stack') \in Nat
    BY Positions
  <2> QED
    BY <2>1, <2>2, <2>3 DEF Going, GoingCalling, On
<1>2. stack'[1].rc = stack[1].rc /\ \A o, c : Good(o, c) <=> (o \in {"callback", "update"} \/ (o = "app" /\ c = stack[1].rc))
  BY <1>1 DEF Kept, Good
<1>3. CASE Len(stack') = Len(stack)
  <2>1. WalksKept
    BY <1>1, <1>3 DEF WalksKept, Kept, WalkAt
  <2> QED
    BY <1>1, <1>2, <2>1, FoundOn
<1>4. CASE Len(stack') = Len(stack) + 1 /\ Fresh("heater", lastError.op, 0, lastError.rc)
  <2>1. \A i \in 1 .. Len(stack) : stack'[i].at \in WalkAt <=> stack[i].at \in WalkAt
    BY <1>1 DEF Kept, WalkAt
  <2>2. stack'[Len(stack')].at \in WalkAt /\ Len(stack') \in 1 .. Len(stack')
    BY <1>1, <1>4 DEF Fresh, WalkAt
  <2>3. ASSUME NEW i \in 1 .. Len(stack'), stack'[i].at \in WalkAt,
               \A j \in 1 .. i - 1 : stack'[j].at \notin WalkAt
        PROVE  \/ stack'[i].op \in {"callback", "update"}
               \/ stack'[i].op = "app" /\ stack'[i].rc = stack'[1].rc
    <3>1. CASE i = Len(stack')
      <4>1. ASSUME NEW j \in 1 .. Len(stack) PROVE stack[j].at \notin WalkAt
        <5>1. j \in 1 .. i - 1
          BY <1>1, <1>4, <3>1
        <5> QED
          BY <2>1, <2>3, <5>1
      <4>2. Good(lastError.op, lastError.rc)
        BY <4>1 DEF Found
      <4> QED
        BY <1>2, <1>4, <3>1, <4>2 DEF Fresh
    <3>2. CASE i # Len(stack')
      <4>1. i \in 1 .. Len(stack) /\ i # Len(stack)
        BY <1>1, <1>4, <2>3, <3>2 DEF WalkAt
      <4>2. stack'[i] = stack[i]
        BY <1>1, <4>1 DEF Kept
      <4>3. ASSUME NEW j \in 1 .. i - 1 PROVE stack[j].at \notin WalkAt
        <5>1. j \in 1 .. Len(stack)
          BY <1>1, <4>1
        <5> QED
          BY <2>1, <2>3, <5>1
      <4>4. Good(stack[i].op, stack[i].rc)
        BY <2>3, <4>1, <4>2, <4>3 DEF Found
      <4> QED
        BY <1>2, <4>2, <4>4
    <3> QED
      BY <3>1, <3>2
  <2> QED
    BY <2>2, <2>3 DEF Found, Good
<1> QED
  BY <1>1, <1>3, <1>4

\* An answer to a command that none of the walk's called is the update's.
LEMMA OwnAnswered ==
  ASSUME stack \in Seq(Frame), stack' \in Seq(Frame), StackInv, OwnFrame, Moves, Past, Past', Found, Answered
  PROVE  Found'
<1>1. /\ stack # <<>> /\ Top.at = "served" /\ Answering
      /\ \/ /\ stack[Len(stack) - 1].op = Top.op /\ stack[Len(stack) - 1].seq = Top.seq
            /\ lastError' = [op |-> Top.op, rc |-> Top.rc]
         \/ lastError' = lastError /\ Returning
  BY AnsweredIs
<1>2. /\ Len(stack) \in Nat \ {0} /\ Len(stack) \in 1 .. Len(stack) /\ Top = stack[Len(stack)]
      /\ Len(stack') \in Nat /\ Top \in Frame
  BY <1>1, Positions
<1> DEFINE n == Len(stack) - 1
<1>3. n \in 1 .. Len(stack) /\ stack[n].at = "resp" /\ stack[n] \in Frame /\ Len(stack) > 1
  BY <1>1, <1>2, Positions DEF StackInv, Readers, LinkAt
<1>4. WalksKept
  <2>1. Top.at \notin WalkAt /\ Top.at # "deferred"
    BY <1>1 DEF WalkAt
  <2>2. CodesKept
    BY <1>3 DEF CodesKept
  <2> QED
    BY <2>1, <2>2, WalksStay
<1>5. stack[1].op = "app" /\ stack[1].at \in CallAt
  BY DEF Past, OwnFrame
<1>6. ~(stack[n].op = "app" /\ Top.op = "app")
  <2>1. ASSUME stack[n].op = "app", Top.op = "app" PROVE FALSE
    <3>1. n = 1
      BY <1>3, <2>1 DEF StackInv, OneApp, CallAt
    <3>2. stack[1].at = "resp"
      BY <1>3, <3>1
    <3>3. Len(stack) = 2
      BY <1>2, <3>1
    <3>4. stack[2].op = "app"
      BY <1>2, <2>1, <3>3
    <3> QED
      BY <3>2, <3>3, <3>4 DEF Past
  <2> QED
    BY <2>1
<1>7. stack'[1].rc = stack[1].rc
  <2>1. ASSUME Len(stack) = 2 PROVE stack'[1].rc = stack[1].rc
    <3>1. n = 1 /\ Returning
      BY <1>1, <1>5, <1>6, <2>1
    <3> QED
      BY <2>1, <3>1 DEF Returning, Kept
  <2>2. Len(stack') > 0
    BY DEF Past
  <2> QED
    BY <1>3, <2>1, <2>2, FirstCode
<1>8. ASSUME stack[n].op = Top.op, Top.op \notin {"callback", "update"}
      PROVE  \E i \in 1 .. Len(stack) : stack[i].at \in WalkAt
  <2>1. Top.op \in Ops \cup {"none"} /\ Top.op # "none" /\ Top.op # "app"
    BY <1>1, <1>2, <1>6, <1>8, Fields DEF StackInv, Commands
  <2>2. stack[n].op \in {"push", "fetch", "resp", "getall"} /\ stack[n].at \in CallAt
    BY <1>3, <1>8, <2>1 DEF Ops, CallAt
  <2>3. n > 1 /\ stack[n - 1].at \in WalkAt \cup {"synced"}
    BY <1>3, <2>2 DEF StackInv, Senders
  <2>4. n - 1 \in 1 .. Len(stack)
    BY <1>2, <2>3
  <2>5. stack[n - 1].at # "synced"
    <3>1. ASSUME stack[n - 1].at = "synced" PROVE FALSE
      <4>1. n - 1 = 1
        BY <2>4, <3>1 DEF StackInv, Senders
      <4> QED
        BY <1>5, <3>1, <4>1 DEF CallAt
    <3> QED
      BY <3>1
  <2> QED
    BY <2>3, <2>4, <2>5
<1> QED
  BY <1>1, <1>4, <1>7, <1>8, FoundOn

\* Before the walk nothing else happens to the innermost call.
LEMMA Stands ==
  ASSUME [Next]_vars, stack # <<>>, Top.at = "deferred", ~Top.callback, ~DrainDeferred
  PROVE  stack' = stack \/ CoprocStep
BY DEF Next, HostStep, vars, Calls, CommandEntry, PollEntry, CommandLink, DrainResp, DrainUpdate, UpdateDrained,
   CallReturns, HeaterWork, EvseFetch, EvseVerdict, EvseMerge, SyncClear, SyncRebuild, ReadEnds, Answered,
   DispatchVerdict, DispatchTargets, DispatchBlock, DispatchOther, CallbackReturns, CoprocForwards,
   WindowExpires, Reading, At

LEMMA OwnStep == ASSUME Typed, StackInv, OwnInv, [Next]_vars PROVE OwnInv'
<1>1. stack \in Seq(Frame) /\ stack' \in Seq(Frame) /\ Moves
  BY AllMoves DEF Typed
<1>2. /\ Len(stack) \in Nat /\ (stack # <<>> => Len(stack) \in 1 .. Len(stack) /\ Top = stack[Len(stack)])
      /\ ((stack = <<>>) <=> (Len(stack) = 0)) /\ Len(stack') \in Nat
      /\ \A i \in 1 .. Len(stack) : stack[i] \in Frame
      /\ (Busy => \E i \in 1 .. Len(stack) : stack[i].at \in LinkAt)
  BY <1>1, Positions
<1>3. OwnFrame'
  BY <1>1, OwnFrameKept DEF OwnInv
<1> SUFFICES ASSUME Past' PROVE Found'
  BY <1>3 DEF OwnInv
<1>4. Len(stack') > 0
  BY DEF Past
<1>5. CASE ~Past
  <2>1. /\ Returns /\ ReturnMove /\ Len(stack) = 2 /\ Len(stack') = 1 /\ Top = stack[2]
        /\ stack[1].at = "resp" /\ stack'[1].at = "resp" /\ Top.op = "app" /\ stack[1].op = "app"
        /\ Top.at = "served" /\ Top.seq = stack[1].seq
    BY <1>1, <1>5, OwnAnswer DEF OwnInv
  <2>2. Answered
    BY <2>1 DEF Returns, CallReturns, EvseFetch, EvseVerdict, EvseMerge, SyncRebuild, ReadEnds, At
  <2>3. lastError' = [op |-> "app", rc |-> Top.rc] /\ stack'[1].rc = Top.rc
    BY <1>1, <2>1, <2>2, AnsweredIs
  <2>4. Good(lastError.op, lastError.rc)'
    BY <2>3 DEF Good
  <2>5. \A i \in 1 .. Len(stack') : stack'[i].at \notin WalkAt
    BY <2>1 DEF WalkAt
  <2> QED
    BY <2>4, <2>5 DEF Found
<1>6. CASE Past
  <2>1. Found /\ Len(stack) > 0 /\ stack # <<>> /\ stack[1].op = "app"
    BY <1>2, <1>6 DEF OwnInv, Past
  <2>2. ASSUME Returns /\ ReturnMove => Top.at \notin WalkAt /\ CodesKept,
               Returns /\ ReturnMove /\ Len(stack) = 2 => stack'[1].rc = stack[1].rc,
               Top.at = "deferred" => Len(stack') = Len(stack),
               \/ lastError' = lastError
               \/ lastError'.op \in {"callback", "update"}
               \/ \E i \in 1 .. Len(stack) : stack[i].at \in WalkAt
        PROVE  Found'
    <3>1. WalksKept
      BY <1>1, <2>2, WalksStay
    <3>2. stack'[1].rc = stack[1].rc
      BY <1>1, <1>4, <2>1, <2>2, FirstCode
    <3> QED
      BY <2>1, <2>2, <3>1, <3>2, FoundOn
  <2>3. CASE DrainDeferred
    BY <1>1, <1>2, <1>4, <2>1, <2>3, OwnDeferred
  <2>4. CASE EvseFetch \/ EvseVerdict \/ EvseMerge
    <3>1. /\ Top.at \in {"evse", "fetched", "merge"}
          /\ \/ Returning /\ lastError' = [op |-> Top.op, rc |-> Top.rc]
             \/ Len(stack') = Len(stack) + 1 /\ lastError' = lastError
      BY <1>1, <2>4, EvseFetchIs, EvseVerdictIs, EndIs DEF Typed, GoingCalling
    <3>2. CASE Returning /\ lastError' = [op |-> Top.op, rc |-> Top.rc]
      BY <1>1, <2>1, <3>1, <3>2, WalkReturns DEF WalkAt
    <3>3. CASE Len(stack') = Len(stack) + 1 /\ lastError' = lastError
      <4>1. ~ReturnMove
        BY <1>2, <3>3 DEF ReturnMove, Answering
      <4> QED
        BY <2>2, <3>1, <3>3, <4>1
    <3> QED
      BY <3>1, <3>2, <3>3
  <2>5. CASE CallReturns
    <3>1. Top.at = "ret" /\ (Len(stack) > 1 => stack'[Len(stack) - 1].rc = stack[Len(stack) - 1].rc)
          /\ lastError' = lastError
      BY <1>1, <2>5, CallReturnsIs DEF CallReturns, rest
    <3>2. Len(stack) = 2 => stack'[1].rc = stack[1].rc
      <4>1. Len(stack) = 2 => Len(stack) - 1 = 1
        OBVIOUS
      <4> QED
        BY <3>1, <4>1
    <3>3. CodesKept /\ Top.at \notin WalkAt
      BY <3>1 DEF CodesKept, WalkAt
    <3> QED
      BY <2>2, <3>1, <3>2, <3>3
  <2>6. CASE Answered
    BY <1>1, <1>6, <2>1, <2>6, OwnAnswered DEF OwnInv
  <2>7. CASE CommandLink
    <3>1. Top.at = "link" /\ (lastError' = lastError \/ (Busy /\ lastError' = [op |-> Top.op, rc |-> 0]))
      BY <1>1, <2>7, CommandLinkIs
    <3>2. ASSUME Busy PROVE Top.op \in {"none", "callback"} /\ Top.op # "none"
      <4>1. PICK i \in 1 .. Len(stack) : stack[i].at \in LinkAt
        BY <1>2, <3>2
      <4>2. i < Len(stack)
        BY <1>2, <2>1, <3>1, <4>1 DEF LinkAt
      <4> QED
        BY <1>2, <2>1, <3>1, <4>1, <4>2 DEF StackInv, Nested, Commands
    <3>3. ~(Returns /\ ReturnMove)
      BY <3>1 DEF ReturnMove
    <3>4. lastError' = lastError \/ lastError'.op \in {"callback", "update"}
      BY <3>1, <3>2
    <3> QED
      BY <2>2, <3>1, <3>3, <3>4
  <2>8. CASE SyncRebuild \/ ReadEnds
    <3>1. /\ Returning /\ Top.at \in {"synced", "read"} /\ lastError' = lastError
      BY <1>1, <2>8, EndIs
    <3>2. Len(stack) > 1 => stack'[Len(stack) - 1].rc = stack[Len(stack) - 1].rc
      BY <1>2, <3>1 DEF Returning, Kept
    <3>3. Len(stack) = 2 => stack'[1].rc = stack[1].rc
      <4>1. Len(stack) = 2 => Len(stack) - 1 = 1
        OBVIOUS
      <4> QED
        BY <3>2, <4>1
    <3>4. CodesKept /\ Top.at \notin WalkAt
      BY <3>1, <3>2 DEF CodesKept, WalkAt
    <3> QED
      BY <2>2, <3>1, <3>3, <3>4
  <2>9. CASE /\ ~DrainDeferred /\ ~CommandLink /\ ~Returns
    <3>1. lastError' = lastError
      BY <2>9, CodeKept DEF Returns
    <3>2. ASSUME Top.at = "deferred" PROVE Len(stack') = Len(stack)
      <4>1. ~Top.callback
        BY <1>2, <2>1, <3>2 DEF StackInv, Handed, LinkAt
      <4>2. stack' = stack \/ CoprocStep
        BY <2>1, <2>9, <3>2, <4>1, Stands
      <4> QED
        BY <1>1, <4>2, CoprocActsIs, CoprocAnswersIs DEF CoprocStep, InFlightTo
    <3> QED
      BY <2>2, <2>9, <3>1, <3>2
  <2> QED
    BY <2>3, <2>4, <2>5, <2>6, <2>7, <2>8, <2>9 DEF Returns
<1> QED
  BY <1>5, <1>6

---------------------------------------------------------------------------
(* A verdict is in one place at a time.                                    *)

\* A frame that still owes the verdict.
Token(f) == f.at = "fetched" \/ (f.at \in {"cmd", "link"} /\ f.op = "resp")

InRx(s)    == \E i \in 1 .. Len(rx) : rx[i].line = "+MTCMD" /\ rx[i].seq = s
InFrame(s) == \E i \in 1 .. Len(stack) : Token(stack[i]) /\ stack[i].seq = s

RxOnce == \A i, j \in 1 .. Len(rx) :
  rx[i].line = "+MTCMD" /\ rx[j].line = "+MTCMD" /\ rx[i].seq = rx[j].seq => i = j
QueueOnce == \A i, j \in 1 .. Len(respQueue) : respQueue[i].seq = respQueue[j].seq => i = j
FrameOnce == \A i, j \in 1 .. Len(stack) :
  Token(stack[i]) /\ Token(stack[j]) /\ stack[i].seq = stack[j].seq => i = j
WireOnce == \A i, j \in 1 .. Len(wire) :
  wire[i].op = "resp" /\ wire[j].op = "resp" /\ wire[i].seq = wire[j].seq => i = j

RxSame    == (RxOnce => RxOnce') /\ \A s : InRx(s)' <=> InRx(s)
QueueSame == (QueueOnce => QueueOnce') /\ \A s : InQueue(s)' <=> InQueue(s)
FrameSame == (FrameOnce => FrameOnce') /\ \A s : InFrame(s)' <=> InFrame(s)
WireSame  == (WireOnce => WireOnce') /\ \A s : OnWire(s)' <=> OnWire(s)

LEMMA RxUnchanged == ASSUME rx' = rx PROVE RxSame
BY DEF RxSame, RxOnce, InRx

LEMMA QueueUnchanged == ASSUME respQueue' = respQueue PROVE QueueSame
BY DEF QueueSame, QueueOnce, InQueue

LEMMA WireUnchanged == ASSUME wire' = wire PROVE WireSame
BY DEF WireSame, WireOnce, OnWire

LEMMA RxTaken ==
  ASSUME rx \in Seq(Lines), rx # <<>>, rx' = Tail(rx)
  PROVE  /\ Head(rx).line # "+MTCMD" => RxSame
         /\ Head(rx).line = "+MTCMD" /\ RxOnce =>
              /\ RxOnce' /\ InRx(Head(rx).seq)
              /\ \A s : InRx(s)' <=> InRx(s) /\ s # Head(rx).seq
<1>1. /\ Len(rx) \in Nat \ {0} /\ Len(rx') = Len(rx) - 1 /\ Head(rx) = rx[1]
      /\ \A i \in 1 .. Len(rx) - 1 : rx'[i] = rx[i + 1]
  BY TailIs
<1>2. RxOnce => RxOnce'
  BY <1>1 DEF RxOnce
<1>3. ASSUME NEW s, InRx(s)' PROVE InRx(s)
  <2>1. PICK i \in 1 .. Len(rx') : rx'[i].line = "+MTCMD" /\ rx'[i].seq = s
    BY <1>3 DEF InRx
  <2>2. i + 1 \in 1 .. Len(rx) /\ rx[i + 1] = rx'[i]
    BY <1>1, <2>1
  <2> QED
    BY <2>1, <2>2 DEF InRx
<1>4. ASSUME NEW s, InRx(s), s # Head(rx).seq \/ Head(rx).line # "+MTCMD" PROVE InRx(s)'
  <2>1. PICK i \in 1 .. Len(rx) : rx[i].line = "+MTCMD" /\ rx[i].seq = s
    BY <1>4 DEF InRx
  <2>2. i # 1
    BY <1>1, <1>4, <2>1
  <2>3. i - 1 \in 1 .. Len(rx') /\ rx'[i - 1] = rx[i]
    BY <1>1, <2>1, <2>2
  <2> QED
    BY <2>1, <2>3 DEF InRx
<1>5. CASE Head(rx).line # "+MTCMD"
  BY <1>2, <1>3, <1>4, <1>5 DEF RxSame
<1>6. CASE Head(rx).line = "+MTCMD" /\ RxOnce
  <2>1. InRx(Head(rx).seq)
    BY <1>1, <1>6 DEF InRx
  <2>2. ASSUME NEW s, InRx(s)' PROVE s # Head(rx).seq
    <3>1. PICK i \in 1 .. Len(rx') : rx'[i].line = "+MTCMD" /\ rx'[i].seq = s
      BY <2>2 DEF InRx
    <3>2. i + 1 \in 1 .. Len(rx) /\ rx[i + 1] = rx'[i] /\ 1 \in 1 .. Len(rx) /\ i + 1 # 1
      BY <1>1, <3>1
    <3> QED
      BY <1>1, <1>6, <3>1, <3>2 DEF RxOnce
  <2> QED
    BY <1>2, <1>3, <1>4, <1>6, <2>1, <2>2
<1> QED
  BY <1>5, <1>6

LEMMA RxAdded ==
  ASSUME rx \in Seq(Lines), NEW x \in Lines, rx' = Append(rx, x)
  PROVE  /\ x.line # "+MTCMD" => RxSame
         /\ x.line = "+MTCMD" /\ RxOnce /\ ~InRx(x.seq) =>
              RxOnce' /\ \A s : InRx(s)' <=> InRx(s) \/ s = x.seq
<1>1. /\ Len(rx) \in Nat /\ Len(rx') = Len(rx) + 1 /\ rx'[Len(rx) + 1] = x
      /\ \A i \in 1 .. Len(rx) : rx'[i] = rx[i]
  BY AddedIs
<1>2. ASSUME NEW s PROVE InRx(s)' <=> InRx(s) \/ (x.line = "+MTCMD" /\ s = x.seq)
  <2>1. ASSUME InRx(s)' PROVE InRx(s) \/ (x.line = "+MTCMD" /\ s = x.seq)
    <3>1. PICK i \in 1 .. Len(rx') : rx'[i].line = "+MTCMD" /\ rx'[i].seq = s
      BY <2>1 DEF InRx
    <3>2. CASE i = Len(rx) + 1
      BY <1>1, <3>1, <3>2
    <3>3. CASE i # Len(rx) + 1
      BY <1>1, <3>1, <3>3 DEF InRx
    <3> QED
      BY <3>2, <3>3
  <2>2. ASSUME InRx(s) PROVE InRx(s)'
    BY <1>1, <2>2 DEF InRx
  <2>3. ASSUME x.line = "+MTCMD", s = x.seq PROVE InRx(s)'
    BY <1>1, <2>3 DEF InRx
  <2> QED
    BY <2>1, <2>2, <2>3
<1>3. CASE x.line # "+MTCMD"
  <2>1. RxOnce => RxOnce'
    BY <1>1, <1>3 DEF RxOnce
  <2> QED
    BY <1>2, <1>3, <2>1 DEF RxSame
<1>4. CASE x.line = "+MTCMD" /\ RxOnce /\ ~InRx(x.seq)
  <2>1. RxOnce'
    BY <1>1, <1>4 DEF RxOnce, InRx
  <2> QED
    BY <1>2, <1>4, <2>1
<1> QED
  BY <1>3, <1>4

LEMMA QueueTaken ==
  ASSUME respQueue \in Seq(Verdicts), respQueue # <<>>, respQueue' = Tail(respQueue), QueueOnce
  PROVE  /\ QueueOnce' /\ InQueue(Head(respQueue).seq)
         /\ \A s : InQueue(s)' <=> InQueue(s) /\ s # Head(respQueue).seq
<1>1. /\ Len(respQueue) \in Nat \ {0} /\ Len(respQueue') = Len(respQueue) - 1 /\ Head(respQueue) = respQueue[1]
      /\ \A i \in 1 .. Len(respQueue) - 1 : respQueue'[i] = respQueue[i + 1]
  BY TailIs
<1>2. QueueOnce'
  BY <1>1 DEF QueueOnce
<1>3. InQueue(Head(respQueue).seq)
  BY <1>1 DEF InQueue
<1>4. ASSUME NEW s, InQueue(s)' PROVE InQueue(s) /\ s # Head(respQueue).seq
  <2>1. PICK i \in 1 .. Len(respQueue') : respQueue'[i].seq = s
    BY <1>4 DEF InQueue
  <2>2. /\ i + 1 \in 1 .. Len(respQueue) /\ respQueue[i + 1] = respQueue'[i]
        /\ 1 \in 1 .. Len(respQueue) /\ i + 1 # 1
    BY <1>1, <2>1
  <2> QED
    BY <1>1, <2>1, <2>2 DEF InQueue, QueueOnce
<1>5. ASSUME NEW s, InQueue(s), s # Head(respQueue).seq PROVE InQueue(s)'
  <2>1. PICK i \in 1 .. Len(respQueue) : respQueue[i].seq = s
    BY <1>5 DEF InQueue
  <2>2. i # 1
    BY <1>1, <1>5, <2>1
  <2>3. i - 1 \in 1 .. Len(respQueue') /\ respQueue'[i - 1] = respQueue[i]
    BY <1>1, <2>1, <2>2
  <2> QED
    BY <2>1, <2>3 DEF InQueue
<1> QED
  BY <1>2, <1>3, <1>4, <1>5

\* A full queue drops the verdict, any other takes it.
LEMMA QueuePut ==
  ASSUME respQueue \in Seq(Verdicts), NEW s \in MaybeSeq, NEW b \in BOOLEAN, Enqueue(s, b),
         QueueOnce, ~InQueue(s)
  PROVE  \/ s \in dropped' /\ QueueSame
         \/ QueueOnce' /\ \A t : InQueue(t)' <=> InQueue(t) \/ t = s
<1>1. CASE dropped' = dropped \cup {s} /\ respQueue' = respQueue
  BY <1>1, QueueUnchanged
<1>2. CASE /\ dropped' = dropped /\ respQueue' = Append(respQueue, [seq |-> s, allow |-> b])
           /\ [seq |-> s, allow |-> b] \in Verdicts
  <2> DEFINE v == [seq |-> s, allow |-> b]
  <2>1. v \in Verdicts /\ v.seq = s /\ respQueue' = Append(respQueue, v)
    BY <1>2
  <2> HIDE DEF v
  <2>2. /\ Len(respQueue) \in Nat /\ Len(respQueue') = Len(respQueue) + 1 /\ respQueue'[Len(respQueue) + 1] = v
        /\ \A i \in 1 .. Len(respQueue) : respQueue'[i] = respQueue[i]
    BY <2>1, AddedIs
  <2>3. QueueOnce'
    BY <2>1, <2>2 DEF QueueOnce, InQueue
  <2>4. InQueue(s)'
    BY <2>1, <2>2 DEF InQueue
  <2>5. ASSUME NEW t, InQueue(t) PROVE InQueue(t)'
    BY <2>2, <2>5 DEF InQueue
  <2>6. ASSUME NEW t, InQueue(t)' PROVE InQueue(t) \/ t = s
    <3>1. PICK i \in 1 .. Len(respQueue') : respQueue'[i].seq = t
      BY <2>6 DEF InQueue
    <3>2. CASE i = Len(respQueue) + 1
      BY <2>1, <2>2, <3>1, <3>2
    <3>3. CASE i # Len(respQueue) + 1
      BY <2>2, <3>1, <3>3 DEF InQueue
    <3> QED
      BY <3>2, <3>3
  <2> QED
    BY <2>3, <2>4, <2>5, <2>6
<1> QED
  BY <1>1, <1>2, EnqueueIs

LEMMA WirePut ==
  ASSUME wire \in Seq(Sendings), NEW o, NEW s \in MaybeSeq, wire' = Sent(o, s)
  PROVE  /\ o # "resp" => WireSame
         /\ o = "resp" /\ WireOnce /\ ~OnWire(s) =>
              WireOnce' /\ \A t : OnWire(t)' <=> OnWire(t) \/ t = s
<1>1. CASE o \notin {"resp", "push"}
  <2>1. wire' = wire
    BY <1>1, SentIs
  <2> QED
    BY <1>1, <2>1, WireUnchanged
<1>2. CASE o \in {"resp", "push"}
  <2> DEFINE x == [op |-> o, seq |-> s]
  <2>1. x \in Sendings /\ wire' = Append(wire, x) /\ x.op = o /\ x.seq = s
    BY <1>2, SentIs
  <2> HIDE DEF x
  <2>2. /\ Len(wire) \in Nat /\ Len(wire') = Len(wire) + 1 /\ wire'[Len(wire) + 1] = x
        /\ \A i \in 1 .. Len(wire) : wire'[i] = wire[i]
    BY <2>1, AddedIs
  <2>3. ASSUME NEW t PROVE OnWire(t)' <=> OnWire(t) \/ (o = "resp" /\ t = s)
    <3>1. ASSUME OnWire(t)' PROVE OnWire(t) \/ (o = "resp" /\ t = s)
      <4>1. PICK i \in 1 .. Len(wire') : wire'[i].op = "resp" /\ wire'[i].seq = t
        BY <3>1 DEF OnWire
      <4>2. CASE i = Len(wire) + 1
        BY <2>1, <2>2, <4>1, <4>2
      <4>3. CASE i # Len(wire) + 1
        BY <2>2, <4>1, <4>3 DEF OnWire
      <4> QED
        BY <4>2, <4>3
    <3>2. ASSUME OnWire(t) PROVE OnWire(t)'
      BY <2>2, <3>2 DEF OnWire
    <3>3. ASSUME o = "resp", t = s PROVE OnWire(t)'
      BY <2>1, <2>2, <3>3 DEF OnWire
    <3> QED
      BY <3>1, <3>2, <3>3
  <2>4. CASE o # "resp"
    <3>1. WireOnce => WireOnce'
      BY <2>1, <2>2, <2>4 DEF WireOnce
    <3> QED
      BY <2>3, <2>4, <3>1 DEF WireSame
  <2>5. CASE o = "resp" /\ WireOnce /\ ~OnWire(s)
    <3>1. WireOnce'
      BY <2>1, <2>2, <2>5 DEF WireOnce, OnWire
    <3> QED
      BY <2>3, <2>5, <3>1
  <2> QED
    BY <2>4, <2>5
<1> QED
  BY <1>1, <1>2


---------------------------------------------------------------------------
(* The frames that owe a verdict.                                          *)

SameTokens ==
  \A i \in Nat : /\ (i \in 1 .. Len(stack') /\ Token(stack'[i])) <=> (i \in 1 .. Len(stack) /\ Token(stack[i]))
                 /\ i \in 1 .. Len(stack) /\ Token(stack[i]) => stack'[i].seq = stack[i].seq

LEMMA TokensSame ==
  ASSUME stack \in Seq(Frame), stack' \in Seq(Frame), SameTokens
  PROVE  FrameSame
<1>1. Len(stack) \in Nat /\ Len(stack') \in Nat
  OBVIOUS
<1> DEFINE owes(i)  == i \in 1 .. Len(stack) /\ Token(stack[i])
           later(i) == i \in 1 .. Len(stack') /\ Token(stack'[i])
<1>2. \A i : (later(i) <=> owes(i)) /\ (owes(i) => stack'[i].seq = stack[i].seq)
  BY <1>1 DEF SameTokens
<1>3. /\ \A s : InFrame(s) <=> \E i : owes(i) /\ stack[i].seq = s
      /\ \A s : InFrame(s)' <=> \E i : later(i) /\ stack'[i].seq = s
  BY DEF InFrame, Token
<1>4. /\ FrameOnce => \A i, j : owes(i) /\ owes(j) /\ stack[i].seq = stack[j].seq => i = j
      /\ (\A i, j : later(i) /\ later(j) /\ stack'[i].seq = stack'[j].seq => i = j) => FrameOnce'
  BY DEF FrameOnce, Token
<1> HIDE DEF owes, later
<1> QED
  BY <1>2, <1>3, <1>4 DEF FrameSame

\* While the innermost frame is none that sends or decides, none owes more or less.
LEMMA QuietMoves ==
  ASSUME stack \in Seq(Frame), stack' \in Seq(Frame), Moves,
         stack # <<>> => Top.at \notin {"link", "evse", "fetched"}
  PROVE  SameTokens
<1>1. /\ Len(stack) \in Nat /\ (stack # <<>> => Len(stack) \in 1 .. Len(stack) /\ Top = stack[Len(stack)])
      /\ ((stack = <<>>) <=> (Len(stack) = 0)) /\ Len(stack') \in Nat
  BY Positions
<1>2. CASE stack # <<>> /\ CommandMove
  <2>1. CASE Top.at = "cmd" /\ GoingCalling("link", Top.seq) /\ Fresh("poll", "none", 0, 0)
    BY <1>1, <2>1 DEF GoingCalling, On, Kept, Fresh, SameTokens, Token
  <2>2. CASE Top.at = "poll" /\ ~Busy /\ GoingCalling("resp", Top.seq) /\ Fresh("read", "none", 0, 0)
    BY <1>1, <2>2 DEF GoingCalling, On, Kept, Fresh, SameTokens, Token
  <2>3. CASE /\ Top.at = "deferred" /\ ~Busy /\ GoingCalling("tail", Top.seq)
             /\ Fresh("heater", lastError.op, 0, lastError.rc)
    BY <1>1, <2>3 DEF GoingCalling, On, Kept, Fresh, SameTokens, Token
  <2>4. CASE Top.at = "tail" /\ ~Busy /\ GoingCalling("update", Top.seq) /\ Fresh("cmd", "update", 0, 0)
    BY <1>1, <2>4 DEF GoingCalling, On, Kept, Fresh, SameTokens, Token
  <2> QED
    BY <1>2, <2>1, <2>2, <2>3, <2>4 DEF CommandMove
<1>3. CASE stack # <<>> /\ WalkMove
  <2>1. CASE /\ Top.at = "heater" /\ heaterPush.seq # 0 /\ GoingCalling("evse", Top.seq)
             /\ Fresh("cmd", "push", heaterPush.seq, 0)
    BY <1>1, <2>1 DEF GoingCalling, On, Kept, Fresh, SameTokens, Token
  <2>2. CASE Top.at = "sync" /\ GoingCalling("synced", Top.seq) /\ Fresh("cmd", "getall", 0, 0)
    BY <1>1, <2>2 DEF GoingCalling, On, Kept, Fresh, SameTokens, Token
  <2> QED
    BY <1>3, <2>1, <2>2 DEF WalkMove
<1>4. CASE SketchMove
  BY <1>1, <1>4 DEF SketchMove, Calling, Kept, Fresh, SameTokens, Token
<1>5. CASE DrainMove
  BY <1>1, <1>5 DEF DrainMove, Calling, Kept, Fresh, SameTokens, Token
<1>6. CASE PlainMove
  BY <1>1, <1>6 DEF PlainMove, Going, On, Kept, Steps, SameTokens, Token
<1>7. CASE ReturnMove
  BY <1>1, <1>7 DEF ReturnMove, Answering, Kept, SameTokens, Token
<1>8. CASE LinkMove
  BY <1>1, <1>8 DEF LinkMove, InFlightTo, SameTokens, Token, LinkAt
<1>9. CASE stack' = stack
  BY <1>1, <1>9 DEF SameTokens, Token
<1> QED
  BY <1>2, <1>3, <1>4, <1>5, <1>6, <1>7, <1>8, <1>9 DEF Moves

LEMMA FramesKept ==
  ASSUME Typed, StackInv, [Next]_vars, ~CommandLink, ~EvseFetch, ~EvseVerdict
  PROVE  FrameSame
<1>1. stack \in Seq(Frame) /\ stack' \in Seq(Frame) /\ Moves
  BY AllMoves DEF Typed
<1>2. /\ Len(stack) \in Nat /\ (stack # <<>> => Len(stack) \in 1 .. Len(stack) /\ Top = stack[Len(stack)])
      /\ ((stack = <<>>) <=> (Len(stack) = 0)) /\ Len(stack') \in Nat
  BY <1>1, Positions
<1>3. CASE Calls \/ DispatchVerdict \/ DispatchOther \/ CallbackReturns
  <2>1. stack # <<>> => Top.at \in LinkAt
    BY <1>2, <1>3 DEF StackInv, Handed, Calls, DispatchVerdict, DispatchOther, CallbackReturns, Reading, LinkAt
  <2> QED
    BY <1>1, <2>1, QuietMoves, TokensSame DEF LinkAt
<1>4. CASE \/ CommandEntry \/ PollEntry \/ DrainResp \/ DrainDeferred \/ DrainUpdate \/ UpdateDrained \/ CallReturns
           \/ HeaterWork \/ EvseMerge \/ SyncClear \/ SyncRebuild \/ ReadEnds \/ Answered
  <2>1. Top.at \notin {"link", "evse", "fetched"}
    BY <1>4 DEF CommandEntry, PollEntry, DrainResp, DrainDeferred, DrainUpdate, UpdateDrained, CallReturns, HeaterWork,
       EvseMerge, SyncClear, SyncRebuild, ReadEnds, Answered, At
  <2> QED
    BY <1>1, <2>1, QuietMoves, TokensSame
<1>5. CASE CoprocActs
  <2>1. PICK i \in 1 .. Len(stack), c \in {0, 1} : stack[i].at = "await" /\ InFlightTo(i, "acted", c)
    BY <1>1, <1>5, CoprocActsIs
  <2>2. SameTokens
    BY <1>2, <2>1 DEF InFlightTo, SameTokens, Token
  <2> QED
    BY <1>1, <2>2, TokensSame
<1>6. CASE CoprocAnswers
  <2>1. PICK i \in 1 .. Len(stack) : stack[i].at = "acted" /\ InFlightTo(i, "served", stack[i].rc)
    BY <1>1, <1>6, CoprocAnswersIs
  <2>2. SameTokens
    BY <1>2, <2>1 DEF InFlightTo, SameTokens, Token
  <2> QED
    BY <1>1, <2>2, TokensSame
<1>7. CASE stack' = stack
  <2>1. SameTokens
    BY <1>7 DEF SameTokens, Token
  <2> QED
    BY <1>1, <2>1, TokensSame
<1>8. DispatchTargets \/ DispatchBlock \/ CoprocForwards \/ WindowExpires \/ UNCHANGED vars => stack' = stack
  BY DEF DispatchTargets, DispatchBlock, CoprocForwards, WindowExpires, vars
<1> QED
  BY <1>3, <1>4, <1>5, <1>6, <1>7, <1>8, Zenon DEF Next, HostStep, CoprocStep

\* The verdict goes from the frame to the wire.
LEMMA FrameSends ==
  ASSUME Typed, CommandLink, ~Busy, Top.op = "resp"
  PROVE  /\ InFrame(Top.seq) /\ wire' = Sent("resp", Top.seq) /\ Top.seq \in MaybeSeq
         /\ FrameOnce => FrameOnce' /\ \A s : InFrame(s)' <=> InFrame(s) /\ s # Top.seq
<1>1. /\ Len(stack) \in Nat /\ (stack # <<>> => Len(stack) \in 1 .. Len(stack) /\ Top = stack[Len(stack)])
      /\ ((stack = <<>>) <=> (Len(stack) = 0))
  BY Positions DEF Typed
<1>2. /\ stack # <<>> /\ Top.at = "link" /\ Top \in Frame /\ wire' = Sent("resp", Top.seq)
      /\ GoingCalling("resp", Top.seq) /\ Fresh("await", Top.op, Top.seq, 0)
  BY CommandLinkIs DEF Typed
<1>3. Top.seq \in MaybeSeq
  BY <1>2, Fields
<1>4. InFrame(Top.seq)
  BY <1>1, <1>2 DEF InFrame, Token
<1> DEFINE n == Len(stack)
<1>5. /\ n \in Nat \ {0} /\ Len(stack') = n + 1 /\ \A i \in 1 .. n - 1 : stack'[i] = stack[i]
      /\ ~Token(stack'[n]) /\ ~Token(stack'[n + 1]) /\ Token(stack[n]) /\ stack[n].seq = Top.seq
  BY <1>1, <1>2 DEF GoingCalling, On, Kept, Fresh, Token
<1>6. \A i \in 1 .. Len(stack') : Token(stack'[i]) =>
        i \in 1 .. Len(stack) /\ i # n /\ Token(stack[i]) /\ stack'[i] = stack[i]
  BY <1>5
<1>7. \A i \in 1 .. Len(stack) : i # n => i \in 1 .. Len(stack') /\ stack'[i] = stack[i]
  BY <1>5
<1> HIDE DEF n
<1>8. n \in 1 .. Len(stack)
  BY <1>1, <1>2 DEF n
<1>9. ASSUME FrameOnce PROVE FrameOnce'
  BY <1>6, <1>9 DEF FrameOnce
<1>10. ASSUME FrameOnce, NEW s, InFrame(s)' PROVE InFrame(s) /\ s # Top.seq
  BY <1>5, <1>6, <1>8, <1>10 DEF FrameOnce, InFrame
<1>11. ASSUME NEW s, InFrame(s), s # Top.seq PROVE InFrame(s)'
  BY <1>5, <1>7, <1>11 DEF InFrame
<1> QED
  BY <1>2, <1>3, <1>4, <1>9, <1>10, <1>11

LEMMA FrameNothing ==
  ASSUME Typed, StackInv, CommandLink, ~(~Busy /\ Top.op = "resp")
  PROVE  FrameSame
<1>1. /\ Len(stack) \in Nat /\ (stack # <<>> => Len(stack) \in 1 .. Len(stack) /\ Top = stack[Len(stack)])
      /\ ((stack = <<>>) <=> (Len(stack) = 0)) /\ stack \in Seq(Frame)
      /\ (Busy => \E i \in 1 .. Len(stack) : stack[i].at \in LinkAt)
  BY Positions DEF Typed
<1>2. /\ stack' \in Seq(Frame) /\ stack # <<>> /\ Top.at = "link"
      /\ \/ Busy /\ Going("resp")
         \/ ~Busy /\ GoingCalling("resp", Top.seq) /\ Fresh("await", Top.op, Top.seq, 0)
  BY CommandLinkIs DEF Typed
<1>3. Top.op # "resp"
  <2>1. CASE Busy
    <3>1. PICK i \in 1 .. Len(stack) : stack[i].at \in LinkAt
      BY <1>1, <2>1
    <3>2. i # Len(stack)
      BY <1>1, <1>2, <3>1 DEF LinkAt
    <3>3. i < Len(stack)
      BY <1>1, <3>1, <3>2
    <3> QED
      BY <1>1, <1>2, <3>1, <3>3 DEF StackInv, Nested
  <2> QED
    BY <2>1
<1>4. CASE Going("resp")
  <2>1. SameTokens
    BY <1>1, <1>2, <1>3, <1>4 DEF Going, On, Kept, SameTokens, Token
  <2> QED
    BY <1>1, <1>2, <2>1, TokensSame
<1>5. CASE GoingCalling("resp", Top.seq) /\ Fresh("await", Top.op, Top.seq, 0)
  <2>1. SameTokens
    BY <1>1, <1>2, <1>3, <1>5 DEF GoingCalling, On, Kept, Fresh, SameTokens, Token
  <2> QED
    BY <1>1, <1>2, <2>1, TokensSame
<1> QED
  BY <1>2, <1>4, <1>5

\* The walk takes the pending proposal over.
LEMMA FrameFetches ==
  ASSUME Typed, EvseFetch
  PROVE  \/ FrameSame /\ evsePending' = evsePending
         \/ /\ evsePending # 0 /\ evsePending' = 0
            /\ FrameOnce /\ ~InFrame(evsePending) =>
                 FrameOnce' /\ \A s : InFrame(s)' <=> InFrame(s) \/ s = evsePending
<1>1. /\ Len(stack) \in Nat /\ (stack # <<>> => Len(stack) \in 1 .. Len(stack) /\ Top = stack[Len(stack)])
      /\ stack \in Seq(Frame)
  BY Positions DEF Typed
<1>2. /\ stack' \in Seq(Frame) /\ stack # <<>> /\ Top.at = "evse"
      /\ \/ Returning /\ evsePending' = evsePending
         \/ /\ evsePending # 0 /\ evsePending' = 0
            /\ GoingCalling("fetched", evsePending) /\ Fresh("cmd", "fetch", evsePending, 0)
  BY EvseFetchIs DEF Typed
<1>3. CASE Returning /\ evsePending' = evsePending
  <2>1. SameTokens
    BY <1>1, <1>2, <1>3 DEF Returning, Kept, SameTokens, Token
  <2> QED
    BY <1>1, <1>2, <1>3, <2>1, TokensSame
<1>4. CASE /\ evsePending # 0 /\ evsePending' = 0
           /\ GoingCalling("fetched", evsePending) /\ Fresh("cmd", "fetch", evsePending, 0)
  <2> DEFINE n == Len(stack)
  <2>1. /\ n \in Nat \ {0} /\ Len(stack') = n + 1 /\ \A i \in 1 .. n - 1 : stack'[i] = stack[i]
        /\ ~Token(stack'[n + 1]) /\ ~Token(stack[n]) /\ Token(stack'[n]) /\ stack'[n].seq = evsePending
    BY <1>1, <1>2, <1>4 DEF GoingCalling, On, Kept, Fresh, Token
  <2>2. \A i \in 1 .. Len(stack') : Token(stack'[i]) /\ i # n =>
          i \in 1 .. Len(stack) /\ Token(stack[i]) /\ stack'[i] = stack[i]
    BY <2>1
  <2>3. \A i \in 1 .. Len(stack) : Token(stack[i]) => i \in 1 .. Len(stack') /\ stack'[i] = stack[i]
    BY <2>1
  <2>4. n \in 1 .. Len(stack')
    BY <2>1
  <2> HIDE DEF n
  <2>5. ASSUME FrameOnce, ~InFrame(evsePending) PROVE FrameOnce'
    BY <2>1, <2>2, <2>5 DEF FrameOnce, InFrame
  <2>6. ASSUME NEW s, InFrame(s)' PROVE InFrame(s) \/ s = evsePending
    BY <2>1, <2>2, <2>6 DEF InFrame
  <2>7. ASSUME NEW s, InFrame(s) PROVE InFrame(s)'
    BY <2>3, <2>7 DEF InFrame
  <2>8. ASSUME NEW s, s = evsePending PROVE InFrame(s)'
    BY <2>1, <2>4, <2>8 DEF InFrame
  <2> QED
    BY <1>4, <2>5, <2>6, <2>7, <2>8
<1> QED
  BY <1>2, <1>3, <1>4

\* The sketch's decision goes to the command that carries it; a refused
\* fetch ends it.
LEMMA FrameDecides ==
  ASSUME Typed, EvseVerdict
  PROVE  \/ FrameSame
         \/ /\ stack # <<>> /\ Top.at = "fetched" /\ ~Top.allow /\ InFrame(Top.seq)
            /\ FrameOnce => FrameOnce' /\ \A s : InFrame(s)' <=> InFrame(s) /\ s # Top.seq
<1>1. /\ Len(stack) \in Nat /\ (stack # <<>> => Len(stack) \in 1 .. Len(stack) /\ Top = stack[Len(stack)])
      /\ stack \in Seq(Frame)
  BY Positions DEF Typed
<1>2. /\ stack' \in Seq(Frame) /\ stack # <<>> /\ Top.at = "fetched"
      /\ \/ ~Top.allow /\ Returning
         \/ GoingCalling("merge", Top.seq) /\ Fresh("cmd", "resp", Top.seq, 0)
  BY EvseVerdictIs DEF Typed
<1> DEFINE n == Len(stack)
<1>3. n \in Nat \ {0} /\ n \in 1 .. Len(stack) /\ Token(stack[n]) /\ stack[n].seq = Top.seq
  BY <1>1, <1>2 DEF Token
<1>4. CASE ~Top.allow /\ Returning
  <2>1. \A i \in 1 .. Len(stack') : i \in 1 .. Len(stack) /\ i # n /\ stack'[i] = stack[i]
    BY <1>3, <1>4 DEF Returning, Kept
  <2>2. \A i \in 1 .. Len(stack) : i # n => i \in 1 .. Len(stack') /\ stack'[i] = stack[i]
    BY <1>3, <1>4 DEF Returning, Kept
  <2> HIDE DEF n
  <2>3. InFrame(Top.seq)
    BY <1>3 DEF InFrame
  <2>4. ASSUME FrameOnce PROVE FrameOnce'
    BY <2>1, <2>4 DEF FrameOnce
  <2>5. ASSUME FrameOnce, NEW s, InFrame(s)' PROVE InFrame(s) /\ s # Top.seq
    BY <1>3, <2>1, <2>5 DEF FrameOnce, InFrame
  <2>6. ASSUME NEW s, InFrame(s), s # Top.seq PROVE InFrame(s)'
    BY <1>3, <2>2, <2>6 DEF InFrame
  <2> QED
    BY <1>2, <1>4, <2>3, <2>4, <2>5, <2>6
<1>5. CASE GoingCalling("merge", Top.seq) /\ Fresh("cmd", "resp", Top.seq, 0)
  <2>1. /\ Len(stack') = n + 1 /\ \A i \in 1 .. n - 1 : stack'[i] = stack[i]
        /\ ~Token(stack'[n]) /\ Token(stack'[n + 1]) /\ stack'[n + 1].seq = Top.seq
    BY <1>3, <1>5 DEF GoingCalling, On, Kept, Fresh, Token
  <2>2. \A i \in 1 .. Len(stack') : Token(stack'[i]) =>
          (i = n + 1 \/ (i \in 1 .. Len(stack) /\ i # n /\ stack'[i] = stack[i]))
    BY <1>3, <2>1
  <2>3. \A i \in 1 .. Len(stack) : i # n => i \in 1 .. Len(stack') /\ stack'[i] = stack[i]
    BY <1>3, <2>1
  <2> DEFINE m == n + 1
  <2>4. /\ m \in 1 .. Len(stack') /\ m \notin 1 .. Len(stack) /\ Token(stack'[m]) /\ stack'[m].seq = Top.seq
        /\ \A i \in 1 .. Len(stack') : Token(stack'[i]) =>
             (i = m \/ (i \in 1 .. Len(stack) /\ i # n /\ stack'[i] = stack[i]))
    BY <1>3, <2>1, <2>2
  <2> HIDE DEF n, m
  <2>5. ASSUME FrameOnce PROVE FrameOnce'
    BY <1>3, <2>4, <2>5 DEF FrameOnce
  <2>6. ASSUME NEW s, InFrame(s)' PROVE InFrame(s)
    BY <1>3, <2>4, <2>6 DEF InFrame
  <2>7. ASSUME NEW s, InFrame(s) PROVE InFrame(s)'
    BY <1>3, <2>3, <2>4, <2>7 DEF InFrame
  <2> QED
    BY <2>5, <2>6, <2>7 DEF FrameSame
<1> QED
  BY <1>2, <1>4, <1>5

---------------------------------------------------------------------------
(* A fetch is refused only once its window has closed.                     *)

Fetch(f) == f.op = "fetch" /\ f.at \in CallAt \cup LinkAt

FetchClosed ==
  /\ \A i \in 1 .. Len(stack) : Fetch(stack[i]) =>
       stack[i].seq \in DOMAIN forwards /\ (stack[i].rc = 1 => stack[i].seq \notin Open)
  /\ stack # <<>> /\ Top.at = "fetched" /\ ~Top.allow => Top.seq \notin Open

\* No new fetch, and no code but one that a fetch had already.
FetchKept ==
  \A i \in 1 .. Len(stack') : Fetch(stack'[i]) =>
    \E j \in 1 .. Len(stack) :
      /\ Fetch(stack[j]) /\ stack[j].seq = stack'[i].seq
      /\ stack'[i].rc = stack[j].rc \/ stack'[i].rc = 0

LEMMA FetchMoves ==
  ASSUME stack \in Seq(Frame), stack' \in Seq(Frame), Moves, ~Returns, ~CoprocStep,
         stack # <<>> => Top.at # "evse"
  PROVE  FetchKept
<1>1. /\ Len(stack) \in Nat /\ (stack # <<>> => Len(stack) \in 1 .. Len(stack) /\ Top = stack[Len(stack)])
      /\ ((stack = <<>>) <=> (Len(stack) = 0)) /\ Len(stack') \in Nat
  BY Positions
<1> DEFINE n == Len(stack)
<1>2. CASE stack # <<>> /\ CommandMove
  <2>1. CASE Top.at = "cmd" /\ GoingCalling("link", Top.seq) /\ Fresh("poll", "none", 0, 0)
    BY <1>1, <2>1 DEF GoingCalling, On, Kept, Fresh, FetchKept, Fetch, CallAt, LinkAt
  <2>2. CASE Top.at = "poll" /\ ~Busy /\ GoingCalling("resp", Top.seq) /\ Fresh("read", "none", 0, 0)
    BY <1>1, <2>2 DEF GoingCalling, On, Kept, Fresh, FetchKept, Fetch, CallAt, LinkAt
  <2>3. CASE Top.at = "link" /\ ~Busy /\ GoingCalling("resp", Top.seq) /\ Fresh("await", Top.op, Top.seq, 0)
    BY <1>1, <2>3 DEF GoingCalling, On, Kept, Fresh, FetchKept, Fetch, CallAt, LinkAt
  <2>4. CASE /\ Top.at = "deferred" /\ ~Busy /\ GoingCalling("tail", Top.seq)
             /\ Fresh("heater", lastError.op, 0, lastError.rc)
    BY <1>1, <2>4 DEF GoingCalling, On, Kept, Fresh, FetchKept, Fetch, CallAt, LinkAt
  <2>5. CASE Top.at = "tail" /\ ~Busy /\ GoingCalling("update", Top.seq) /\ Fresh("cmd", "update", 0, 0)
    BY <1>1, <2>5 DEF GoingCalling, On, Kept, Fresh, FetchKept, Fetch, CallAt, LinkAt
  <2> QED
    BY <1>2, <2>1, <2>2, <2>3, <2>4, <2>5 DEF CommandMove
<1>3. CASE stack # <<>> /\ WalkMove
  <2>1. CASE /\ Top.at = "heater" /\ heaterPush.seq # 0 /\ GoingCalling("evse", Top.seq)
             /\ Fresh("cmd", "push", heaterPush.seq, 0)
    BY <1>1, <2>1 DEF GoingCalling, On, Kept, Fresh, FetchKept, Fetch, CallAt, LinkAt
  <2>2. CASE Top.at = "fetched" /\ GoingCalling("merge", Top.seq) /\ Fresh("cmd", "resp", Top.seq, 0)
    BY <1>1, <2>2, SMTT(30) DEF GoingCalling, On, Kept, Fresh, FetchKept, Fetch, CallAt, LinkAt
  <2>3. CASE Top.at = "sync" /\ GoingCalling("synced", Top.seq) /\ Fresh("cmd", "getall", 0, 0)
    BY <1>1, <2>3 DEF GoingCalling, On, Kept, Fresh, FetchKept, Fetch, CallAt, LinkAt
  <2> QED
    BY <1>3, <2>1, <2>2, <2>3 DEF WalkMove
<1>4. CASE SketchMove
  BY <1>1, <1>4 DEF SketchMove, Calling, Kept, Fresh, FetchKept, Fetch, CallAt, LinkAt
<1>5. CASE DrainMove
  BY <1>1, <1>5 DEF DrainMove, Calling, Kept, Fresh, FetchKept, Fetch, CallAt, LinkAt
<1>6. CASE PlainMove
  BY <1>1, <1>6 DEF PlainMove, Going, On, Kept, Steps, FetchKept, Fetch, CallAt, LinkAt
<1>7. CASE stack' = stack
  BY <1>1, <1>7 DEF FetchKept, Fetch, CallAt, LinkAt
<1> QED
  BY <1>2, <1>3, <1>4, <1>5, <1>6, <1>7 DEF Moves

\* A return hands no code on but a command's own.
LEMMA FetchReturns ==
  ASSUME Typed, StackInv, stack # <<>>, stack' \in Seq(Frame), Answering,
         \/ Returning \/ CallReturns \/ Answered
  PROVE  FetchKept
<1>1. /\ Len(stack) \in Nat /\ Len(stack) \in 1 .. Len(stack) /\ Top = stack[Len(stack)]
      /\ stack \in Seq(Frame) /\ Len(stack') \in Nat
  BY Positions DEF Typed
<1> DEFINE n == Len(stack)
<1>2. n \in Nat \ {0} /\ Len(stack') = n - 1 /\ \A i \in 1 .. n - 2 : stack'[i] = stack[i]
  BY <1>1 DEF Answering, Kept
<1>3. n = 1 => FetchKept
  BY <1>2 DEF FetchKept
<1>4. n > 1 => /\ n - 1 \in 1 .. Len(stack) /\ stack'[n - 1].at = stack[n - 1].at
               /\ stack'[n - 1].op = stack[n - 1].op /\ stack'[n - 1].seq = stack[n - 1].seq
  BY <1>2 DEF Answering
<1>5. CASE Returning
  BY <1>1, <1>5 DEF Returning, Kept, FetchKept, Fetch
<1>6. ASSUME NEW j \in 1 .. Len(stack),
             Fetch(stack'[n - 1]) => Fetch(stack[j]) /\ stack[j].seq = stack'[n - 1].seq,
             stack'[n - 1].rc = stack[j].rc \/ stack'[n - 1].rc = 0
      PROVE  FetchKept
  <2>1. \A i \in 1 .. n - 1 : i = n - 1 \/ i \in 1 .. n - 2
    BY <1>2
  <2>2. \A i \in 1 .. n - 2 : i \in 1 .. n
    BY <1>2
  <2>3. \A i \in 1 .. Len(stack') : i = n - 1 \/ (i \in 1 .. Len(stack) /\ stack'[i] = stack[i])
    BY <1>2, <2>1, <2>2
  <2> HIDE DEF n
  <2> QED
    BY <1>6, <2>3 DEF FetchKept
<1>7. CASE CallReturns
  <2>1. n > 1 => stack'[n - 1].rc = stack[n - 1].rc
    BY <1>1, <1>7, CallReturnsIs
  <2>2. CASE n > 1
    <3> DEFINE j == n - 1
    <3>1. j \in 1 .. Len(stack) /\ j = n - 1
      BY <1>4, <2>2
    <3>2. /\ Fetch(stack'[n - 1]) => Fetch(stack[j]) /\ stack[j].seq = stack'[n - 1].seq
          /\ stack'[n - 1].rc = stack[j].rc
      BY <1>4, <2>1, <2>2 DEF Fetch
    <3> HIDE DEF j
    <3> QED
      BY <1>6, <2>2, <3>1, <3>2
  <2> QED
    BY <1>2, <1>3, <2>2
<1>8. CASE Answered
  <2>1. \/ Returning
        \/ /\ Top.at = "served" /\ stack[Len(stack) - 1].op = Top.op /\ stack[Len(stack) - 1].seq = Top.seq
           /\ Len(stack) > 1 => stack'[Len(stack) - 1].rc = Top.rc
    BY <1>1, <1>8, AnsweredIs
  <2>2. CASE /\ Top.at = "served" /\ stack[n - 1].op = Top.op /\ stack[n - 1].seq = Top.seq
             /\ n > 1 => stack'[n - 1].rc = Top.rc
    <3>1. CASE n > 1
      <4>1. /\ Fetch(stack'[n - 1]) => Fetch(stack[n]) /\ stack[n].seq = stack'[n - 1].seq
            /\ stack'[n - 1].rc = stack[n].rc
        BY <1>1, <1>4, <2>2, <3>1 DEF Fetch, LinkAt
      <4> QED
        BY <1>1, <1>6, <3>1, <4>1
    <3> QED
      BY <1>2, <1>3, <3>1
  <2> QED
    BY <1>5, <2>1, <2>2
<1> QED
  BY <1>5, <1>7, <1>8

\* Every place a verdict may wait in is a forwarded command's.
Known ==
  /\ \A s : InRx(s) \/ InQueue(s) \/ InFrame(s) \/ OnWire(s) => s \in DOMAIN forwards
  /\ evsePending \in {0} \cup DOMAIN forwards

\* A window once closed stays closed.
LEMMA WindowsStay ==
  ASSUME Typed, [Next]_vars
  PROVE  \A s \in DOMAIN forwards : s \in DOMAIN forwards' /\ (s \notin Open => s \notin Open')
<1>1. CASE CoprocForwards
  BY <1>1, ForwardedIs
<1>2. CASE ~CoprocForwards
  BY <1>2, OpenKept
<1> QED
  BY <1>1, <1>2

LEMMA FetchKeptSafe ==
  ASSUME Typed, [Next]_vars, FetchClosed, FetchKept, NEW i \in 1 .. Len(stack'), Fetch(stack'[i])
  PROVE  stack'[i].seq \in DOMAIN forwards' /\ (stack'[i].rc = 1 => stack'[i].seq \notin Open')
<1>1. PICK j \in 1 .. Len(stack) : /\ Fetch(stack[j]) /\ stack[j].seq = stack'[i].seq
                                   /\ stack'[i].rc = stack[j].rc \/ stack'[i].rc = 0
  BY DEF FetchKept
<1>2. stack[j].seq \in DOMAIN forwards /\ (stack[j].rc = 1 => stack[j].seq \notin Open)
  BY <1>1 DEF FetchClosed
<1> QED
  BY <1>1, <1>2, WindowsStay

LEMMA FetchCodes ==
  ASSUME Typed, StackInv, Known, FetchClosed, [Next]_vars, NEW i \in 1 .. Len(stack'), Fetch(stack'[i])
  PROVE  stack'[i].seq \in DOMAIN forwards' /\ (stack'[i].rc = 1 => stack'[i].seq \notin Open')
<1>1. stack \in Seq(Frame) /\ stack' \in Seq(Frame) /\ Moves
  BY AllMoves DEF Typed
<1>2. /\ Len(stack) \in Nat /\ (stack # <<>> => Len(stack) \in 1 .. Len(stack) /\ Top = stack[Len(stack)])
      /\ Len(stack') \in Nat
  BY <1>1, Positions
<1>3. ASSUME FetchKept PROVE stack'[i].seq \in DOMAIN forwards' /\ (stack'[i].rc = 1 => stack'[i].seq \notin Open')
  BY <1>3, FetchKeptSafe
<1>4. CASE EvseFetch
  <2>1. /\ stack # <<>> /\ Top.at = "evse"
        /\ \/ Returning
           \/ /\ evsePending # 0 /\ GoingCalling("fetched", evsePending)
              /\ Fresh("cmd", "fetch", evsePending, 0)
    BY <1>1, <1>4, EvseFetchIs DEF Typed
  <2>2. CASE Returning
    BY <1>1, <1>3, <2>1, <2>2, FetchReturns, ReturningAnswers
  <2>3. CASE /\ evsePending # 0 /\ GoingCalling("fetched", evsePending)
             /\ Fresh("cmd", "fetch", evsePending, 0)
    <3>1. evsePending \in DOMAIN forwards
      BY <2>3 DEF Known
    <3>2. CASE i = Len(stack')
      BY <2>3, <3>1, <3>2, WindowsStay DEF Fresh
    <3>3. CASE i # Len(stack')
      <4>1. i \in 1 .. Len(stack) /\ (i = Len(stack) => ~Fetch(stack'[i])) /\ (i # Len(stack) => stack'[i] = stack[i])
        BY <1>2, <2>3, <3>3 DEF GoingCalling, On, Kept, Fetch, CallAt, LinkAt
      <4>2. i \in 1 .. Len(stack) /\ stack'[i] = stack[i] /\ Fetch(stack[i])
        BY <4>1
      <4>3. stack[i].seq \in DOMAIN forwards /\ (stack[i].rc = 1 => stack[i].seq \notin Open)
        BY <4>2 DEF FetchClosed
      <4> QED
        BY <4>2, <4>3, WindowsStay
    <3> QED
      BY <3>2, <3>3
  <2> QED
    BY <2>1, <2>2, <2>3
<1>5. CASE EvseVerdict /\ Returning
  BY <1>1, <1>3, <1>5, EvseVerdictIs, FetchReturns, ReturningAnswers
<1>6. CASE EvseVerdict /\ ~Returning
  <2>1. /\ stack # <<>> /\ Top.at = "fetched"
        /\ GoingCalling("merge", Top.seq) /\ Fresh("cmd", "resp", Top.seq, 0)
    BY <1>1, <1>6, EvseVerdictIs
  <2>2. FetchKept
    BY <1>2, <2>1 DEF GoingCalling, On, Kept, Fresh, FetchKept, Fetch, CallAt, LinkAt
  <2> QED
    BY <1>3, <2>2
<1>7. CASE CallReturns
  BY <1>1, <1>3, <1>7, CallReturnsIs, FetchReturns
<1>8. CASE Answered
  BY <1>1, <1>3, <1>8, AnsweredIs, FetchReturns
<1>9. CASE EvseMerge \/ SyncRebuild \/ ReadEnds
  BY <1>1, <1>3, <1>9, EndIs, FetchReturns, ReturningAnswers
<1>10. CASE CoprocActs
  <2>1. PICK k \in 1 .. Len(stack), c \in {0, 1} :
          /\ stack[k].at = "await" /\ InFlightTo(k, "acted", c)
          /\ stack[k].op = "fetch" => c = (IF stack[k].seq \in Open THEN 0 ELSE 1)
    BY <1>1, <1>10, CoprocActsIs
  <2>2. i \in 1 .. Len(stack)
    BY <1>2, <2>1 DEF InFlightTo
  <2>3. CASE i = k
    <3>1. stack[i].op = "fetch" /\ stack'[i].seq = stack[i].seq /\ stack'[i].rc = c
      BY <2>1, <2>3 DEF InFlightTo, Fetch
    <3>2. Fetch(stack[i])
      BY <2>1, <2>3, <3>1 DEF Fetch, LinkAt
    <3>3. stack[i].seq \in DOMAIN forwards
      BY <2>2, <3>2 DEF FetchClosed
    <3>4. stack'[i].rc = 1 => stack[i].seq \notin Open
      BY <2>1, <2>3, <3>1
    <3> QED
      BY <3>1, <3>3, <3>4, WindowsStay
  <2>4. CASE i # k
    <3>1. stack'[i] = stack[i]
      BY <2>1, <2>2, <2>4 DEF InFlightTo
    <3>2. stack[i].seq \in DOMAIN forwards /\ (stack[i].rc = 1 => stack[i].seq \notin Open)
      BY <2>2, <3>1 DEF FetchClosed
    <3> QED
      BY <3>1, <3>2, WindowsStay
  <2> QED
    BY <2>3, <2>4
<1>11. CASE CoprocAnswers
  <2>1. PICK k \in 1 .. Len(stack) : stack[k].at = "acted" /\ InFlightTo(k, "served", stack[k].rc)
    BY <1>1, <1>11, CoprocAnswersIs
  <2>2. FetchKept
    BY <1>2, <2>1 DEF InFlightTo, FetchKept, Fetch, LinkAt
  <2> QED
    BY <1>3, <2>2
<1>12. CASE ~Returns /\ ~CoprocStep
  <2>1. (stack # <<>> => Top.at # "evse") => FetchKept
    BY <1>1, <1>12, FetchMoves
  <2>2. ASSUME stack # <<>>, Top.at = "evse" PROVE stack' = stack
    <3>1. ~Top.callback
      BY <1>2, <2>2 DEF StackInv, Handed, LinkAt
    <3> QED
      BY <1>12, <2>2, <3>1 DEF Next, HostStep, Returns, vars, Calls, CommandEntry, PollEntry, CommandLink,
         DrainResp, DrainDeferred, DrainUpdate, UpdateDrained, HeaterWork, SyncClear, DispatchVerdict, DispatchTargets, DispatchBlock, DispatchOther,
         CallbackReturns, CoprocForwards, WindowExpires, Reading, At
  <2>3. stack' = stack => FetchKept
    BY <1>2 DEF FetchKept, Fetch
  <2> QED
    BY <1>3, <2>1, <2>2, <2>3
<1> QED
  BY <1>4, <1>5, <1>6, <1>7, <1>8, <1>9, <1>10, <1>11, <1>12, Zenon DEF Returns, CoprocStep

LEMMA FetchRefused ==
  ASSUME Typed, StackInv, Known, FetchClosed, [Next]_vars,
         stack' # <<>>, Top'.at = "fetched", ~Top'.allow
  PROVE  Top'.seq \notin Open'
<1>1. stack \in Seq(Frame) /\ stack' \in Seq(Frame) /\ Moves
  BY AllMoves DEF Typed
<1>2. /\ Len(stack) \in Nat /\ (stack # <<>> => Len(stack) \in 1 .. Len(stack) /\ Top = stack[Len(stack)])
      /\ ((stack = <<>>) <=> (Len(stack) = 0))
      /\ \A i \in 1 .. Len(stack) : stack[i] \in Frame
  BY <1>1, Positions
<1>3. Len(stack') \in Nat \ {0} /\ Top' = stack'[Len(stack')]
  BY <1>1 DEF Top
<1>4. ASSUME stack # <<>>, Top' = Top PROVE Top'.seq \notin Open'
  <2>1. Top.seq \notin Open
    BY <1>4 DEF FetchClosed
  <2>2. InFrame(Top.seq)
    BY <1>2, <1>4 DEF InFrame, Token
  <2>3. Top.seq \in DOMAIN forwards
    BY <2>2 DEF Known
  <2> QED
    BY <1>4, <2>1, <2>3, WindowsStay
<1>5. ASSUME stack # <<>>, CoprocStep PROVE Top' = Top
  <2>1. PICK k \in 1 .. Len(stack), l \in {"acted", "served"}, c \in {0, 1} :
          stack[k].at \in LinkAt /\ InFlightTo(k, l, c)
    <3>1. CASE CoprocActs
      <4>1. PICK k \in 1 .. Len(stack), c \in {0, 1} : stack[k].at = "await" /\ InFlightTo(k, "acted", c)
        BY <1>1, <3>1, CoprocActsIs
      <4> QED
        BY <4>1 DEF LinkAt
    <3>2. CASE CoprocAnswers
      <4>1. PICK k \in 1 .. Len(stack) : stack[k].at = "acted" /\ InFlightTo(k, "served", stack[k].rc)
        BY <1>1, <3>2, CoprocAnswersIs
      <4>2. stack[k].rc \in {0, 1}
        BY <1>2, Fields
      <4> QED
        BY <4>1, <4>2 DEF LinkAt
    <3> QED
      BY <1>5, <3>1, <3>2 DEF CoprocStep
  <2>2. k # Len(stack')
    BY <1>3, <2>1 DEF InFlightTo
  <2> QED
    BY <1>2, <1>3, <1>5, <2>1, <2>2 DEF InFlightTo
<1>6. CASE stack # <<>> /\ Top.at = "fetched"
  <2>1. ~Top.callback
    BY <1>2, <1>6 DEF StackInv, Handed, LinkAt
  <2>2. EvseVerdict \/ CoprocStep \/ stack' = stack
    BY <1>6, <2>1 DEF Next, HostStep, vars, Calls, CommandEntry, PollEntry, CommandLink,
       DrainResp, DrainDeferred, DrainUpdate, UpdateDrained, CallReturns, HeaterWork, EvseFetch, EvseMerge, SyncClear, SyncRebuild,
       ReadEnds, Answered, DispatchVerdict, DispatchTargets, DispatchBlock, DispatchOther,
       CallbackReturns, CoprocForwards, WindowExpires, Reading, At
  <2>3. CASE EvseVerdict
    <3>1. Returning \/ (GoingCalling("merge", Top.seq) /\ Fresh("cmd", "resp", Top.seq, 0))
      BY <1>1, <2>3, EvseVerdictIs
    <3>2. Returning
      BY <1>3, <3>1 DEF Fresh
    <3> DEFINE m == Len(stack) - 1
    <3>3. m \in 1 .. Len(stack) /\ m < Len(stack) /\ m + 1 = Len(stack) /\ stack[m] = Top'
      BY <1>2, <1>3, <3>2 DEF Returning, Kept
    <3> HIDE DEF m
    <3>4. stack[Len(stack)].at \in CallAt
      BY <1>3, <3>3 DEF StackInv, Fetching
    <3> QED
      BY <1>2, <1>6, <3>4 DEF CallAt
  <2>4. CASE CoprocStep
    BY <1>4, <1>5, <1>6, <2>4
  <2>5. CASE stack' = stack
    BY <1>2, <1>3, <1>4, <1>6, <2>5
  <2> QED
    BY <2>2, <2>3, <2>4, <2>5
<1>7. CASE stack # <<>> /\ Top.at # "fetched" /\ (CommandMove \/ WalkMove)
  BY <1>3, <1>7 DEF CommandMove, WalkMove, Fresh
<1>8. CASE SketchMove \/ DrainMove
  BY <1>3, <1>8 DEF SketchMove, DrainMove, Fresh
<1>9. CASE stack # <<>> /\ Top.at # "fetched" /\ PlainMove
  BY <1>3, <1>9 DEF PlainMove, Going, On, Steps
<1>10. CASE stack # <<>> /\ Top.at # "fetched" /\ Returns /\ ReturnMove
  <2> DEFINE m == Len(stack) - 1
  <2>1. /\ m \in 1 .. Len(stack) /\ m < Len(stack) /\ m + 1 = Len(stack) /\ Len(stack') = m
        /\ stack'[m].at = stack[m].at /\ stack'[m].seq = stack[m].seq
    BY <1>2, <1>3, <1>10 DEF ReturnMove, Answering
  <2>2. stack[m].at = "fetched"
    BY <1>3, <2>1
  <2> HIDE DEF m
  <2>3. Top.at \in CallAt /\ Top.op = "fetch" /\ Top.seq = stack[m].seq
    BY <1>2, <1>10, <2>1, <2>2 DEF StackInv, Fetching
  <2>4. CallReturns
    BY <1>10, <2>3 DEF Returns, EvseFetch, EvseVerdict, EvseMerge, SyncRebuild, ReadEnds, Answered, At, CallAt
  <2>5. stack'[m].allow = (Top.rc = 0) /\ Top \in Frame
    BY <1>1, <1>2, <2>1, <2>3, <2>4, CallReturnsIs DEF m
  <2>6. Top.rc = 1
    <3>1. Top.rc # 0
      BY <1>3, <2>1, <2>5
    <3> QED
      BY <2>5, <3>1, Fields
  <2>7. Fetch(stack[Len(stack)])
    BY <1>2, <1>10, <2>3 DEF Fetch
  <2>8. Top.seq \notin Open /\ Top.seq \in DOMAIN forwards
    BY <1>2, <1>10, <2>6, <2>7 DEF FetchClosed
  <2> QED
    BY <1>3, <2>1, <2>3, <2>8, WindowsStay
<1>11. CASE stack # <<>> /\ CoprocStep
  BY <1>4, <1>5, <1>11
<1>12. CASE stack' = stack
  BY <1>2, <1>3, <1>4, <1>12
<1> QED
  <2>1. LinkMove => stack # <<>>
    BY <1>2 DEF LinkMove
  <2>2. ReturnMove => stack # <<>>
    BY DEF ReturnMove
  <2>3. PlainMove => stack # <<>>
    BY DEF PlainMove
  <2> QED
    BY <1>1, <1>6, <1>7, <1>8, <1>9, <1>10, <1>11, <1>12, <2>1, <2>2, <2>3, Zenon DEF Moves

LEMMA FetchClosedStep ==
  ASSUME Typed, StackInv, Known, FetchClosed, [Next]_vars
  PROVE  FetchClosed'
BY FetchCodes, FetchRefused DEF FetchClosed, Fetch

---------------------------------------------------------------------------
(* Where an owed verdict waits, through every step.                        *)

InHand(s) == s = evsePending /\ s # 0

Somewhere(s) == InRx(s) \/ InQueue(s) \/ InHand(s) \/ InFrame(s) \/ OnWire(s)

Alone(s) ==
  /\ ~(InRx(s) /\ (InQueue(s) \/ InHand(s) \/ InFrame(s) \/ OnWire(s)))
  /\ ~(InQueue(s) /\ (InHand(s) \/ InFrame(s) \/ OnWire(s)))
  /\ ~(InHand(s) /\ (InFrame(s) \/ OnWire(s)))
  /\ ~(InFrame(s) /\ OnWire(s))

Once    == RxOnce /\ QueueOnce /\ FrameOnce /\ WireOnce
OnceInv == Once /\ Known /\ \A s \in DOMAIN forwards : Alone(s)
KeptInv == \A s \in Open : Somewhere(s) \/ s \in dropped

StaysAt(s) ==
  /\ InRx(s)' <=> InRx(s)
  /\ InQueue(s)' <=> InQueue(s)
  /\ InHand(s)' <=> InHand(s)
  /\ InFrame(s)' <=> InFrame(s)
  /\ OnWire(s)' <=> OnWire(s)

\* It went from one place to another, or its window is closed by now.
WentOn(s) ==
  s \in DOMAIN forwards /\ Alone(s)' /\ (Somewhere(s)' \/ s \in dropped' \/ s \notin Open)

LEMMA HandSame == ASSUME evsePending' = evsePending PROVE \A s : InHand(s)' <=> InHand(s)
BY DEF InHand

LEMMA StayingAlone == ASSUME NEW s, StaysAt(s), Alone(s) PROVE Alone(s)'
<1>1. Alone(s) <=> /\ ~(InRx(s) /\ (InQueue(s) \/ InHand(s) \/ InFrame(s) \/ OnWire(s)))
                   /\ ~(InQueue(s) /\ (InHand(s) \/ InFrame(s) \/ OnWire(s)))
                   /\ ~(InHand(s) /\ (InFrame(s) \/ OnWire(s)))
                   /\ ~(InFrame(s) /\ OnWire(s))
  BY DEF Alone
<1>2. Alone(s)' <=> /\ ~(InRx(s)' /\ (InQueue(s)' \/ InHand(s)' \/ InFrame(s)' \/ OnWire(s)'))
                    /\ ~(InQueue(s)' /\ (InHand(s)' \/ InFrame(s)' \/ OnWire(s)'))
                    /\ ~(InHand(s)' /\ (InFrame(s)' \/ OnWire(s)'))
                    /\ ~(InFrame(s)' /\ OnWire(s)')
  BY DEF Alone
<1> QED
  BY <1>1, <1>2, Zenon DEF StaysAt

LEMMA StayingSomewhere == ASSUME NEW s, StaysAt(s) PROVE Somewhere(s)' <=> Somewhere(s)
<1>1. Somewhere(s)' <=> InRx(s)' \/ InQueue(s)' \/ InHand(s)' \/ InFrame(s)' \/ OnWire(s)'
  BY DEF Somewhere
<1> QED
  BY <1>1, Zenon DEF StaysAt, Somewhere

LEMMA PlacesStep ==
  ASSUME Typed, OnceInv, KeptInv, [Next]_vars, ~CoprocForwards, Once', \A s : StaysAt(s) \/ WentOn(s)
  PROVE  OnceInv' /\ KeptInv'
<1>1. DOMAIN forwards' = DOMAIN forwards /\ Open' \subseteq Open
  BY OpenKept
<1>2. dropped \subseteq dropped'
  BY GoneGrows
<1>3. Open \subseteq DOMAIN forwards
  BY DEF Open
<1>4. \A s : InRx(s)' \/ InQueue(s)' \/ InFrame(s)' \/ OnWire(s)' => s \in DOMAIN forwards'
  BY <1>1, Zenon DEF OnceInv, Known, StaysAt, WentOn
<1>5. evsePending' \in {0} \cup DOMAIN forwards'
  <2>1. ASSUME NEW p, p = evsePending', p # 0 PROVE p \in DOMAIN forwards
    <3>1. InHand(p)'
      BY <2>1 DEF InHand
    <3>2. CASE StaysAt(p)
      BY <3>1, <3>2 DEF StaysAt, InHand, OnceInv, Known
    <3>3. CASE WentOn(p)
      BY <3>3 DEF WentOn
    <3> QED
      BY <3>2, <3>3
  <2> QED
    BY <1>1, <2>1
<1>6. ASSUME NEW s \in DOMAIN forwards PROVE Alone(s)'
  <2>1. CASE StaysAt(s)
    BY <2>1, StayingAlone DEF OnceInv
  <2>2. CASE WentOn(s)
    BY <2>2 DEF WentOn
  <2> QED
    BY <2>1, <2>2
<1>7. ASSUME NEW s \in Open' PROVE Somewhere(s)' \/ s \in dropped'
  <2>1. s \in Open
    BY <1>1
  <2>2. CASE StaysAt(s)
    BY <1>2, <2>1, <2>2, StayingSomewhere DEF KeptInv
  <2>3. CASE WentOn(s)
    BY <2>1, <2>3 DEF WentOn
  <2> QED
    BY <2>2, <2>3
<1>8. Known'
  BY <1>4, <1>5 DEF Known
<1>9. \A s \in DOMAIN forwards' : Alone(s)'
  BY <1>1, <1>6
<1> QED
  BY <1>7, <1>8, <1>9 DEF OnceInv, KeptInv

\* Where it is not, once it is in one of the places.
LEMMA OnlyThere ==
  ASSUME OnceInv, NEW s
  PROVE  /\ InRx(s) => ~InQueue(s) /\ ~InHand(s) /\ ~InFrame(s) /\ ~OnWire(s) /\ s \in DOMAIN forwards
         /\ InQueue(s) => ~InRx(s) /\ ~InHand(s) /\ ~InFrame(s) /\ ~OnWire(s) /\ s \in DOMAIN forwards
         /\ InHand(s) => ~InRx(s) /\ ~InQueue(s) /\ ~InFrame(s) /\ ~OnWire(s) /\ s \in DOMAIN forwards
         /\ InFrame(s) => ~InRx(s) /\ ~InQueue(s) /\ ~InHand(s) /\ ~OnWire(s) /\ s \in DOMAIN forwards
<1>1. InRx(s) \/ InQueue(s) \/ InHand(s) \/ InFrame(s) => s \in DOMAIN forwards
  BY DEF OnceInv, Known, InHand
<1>2. s \in DOMAIN forwards => Alone(s)
  BY DEF OnceInv
<1> QED
  BY <1>1, <1>2, Zenon DEF Alone

\* In one place after the step, and in no other.
LEMMA AloneThere ==
  ASSUME NEW s, s \in DOMAIN forwards
  PROVE  /\ InQueue(s)' /\ ~InRx(s)' /\ ~InHand(s)' /\ ~InFrame(s)' /\ ~OnWire(s)' => WentOn(s)
         /\ InHand(s)' /\ ~InRx(s)' /\ ~InQueue(s)' /\ ~InFrame(s)' /\ ~OnWire(s)' => WentOn(s)
         /\ InFrame(s)' /\ ~InRx(s)' /\ ~InQueue(s)' /\ ~InHand(s)' /\ ~OnWire(s)' => WentOn(s)
         /\ OnWire(s)' /\ ~InRx(s)' /\ ~InQueue(s)' /\ ~InHand(s)' /\ ~InFrame(s)' => WentOn(s)
         /\ /\ ~InRx(s)' /\ ~InQueue(s)' /\ ~InHand(s)' /\ ~InFrame(s)' /\ ~OnWire(s)'
            /\ s \in dropped' \/ s \notin Open
            => WentOn(s)
<1>1. Alone(s)' <=> /\ ~(InRx(s)' /\ (InQueue(s)' \/ InHand(s)' \/ InFrame(s)' \/ OnWire(s)'))
                    /\ ~(InQueue(s)' /\ (InHand(s)' \/ InFrame(s)' \/ OnWire(s)'))
                    /\ ~(InHand(s)' /\ (InFrame(s)' \/ OnWire(s)'))
                    /\ ~(InFrame(s)' /\ OnWire(s)')
  BY DEF Alone
<1>2. Somewhere(s)' <=> InRx(s)' \/ InQueue(s)' \/ InHand(s)' \/ InFrame(s)' \/ OnWire(s)'
  BY DEF Somewhere
<1> QED
  BY <1>1, <1>2, Zenon DEF WentOn

LEMMA QuietPlaces ==
  ASSUME Once, RxSame, QueueSame, evsePending' = evsePending, FrameSame, WireSame
  PROVE  Once' /\ \A s : StaysAt(s) \/ WentOn(s)
<1>1. Once'
  BY DEF Once, RxSame, QueueSame, FrameSame, WireSame
<1>2. ASSUME NEW s PROVE StaysAt(s)
  BY HandSame, Zenon DEF StaysAt, RxSame, QueueSame, FrameSame, WireSame
<1> QED
  BY <1>1, <1>2

LEMMA RxQuiet ==
  ASSUME Typed, [Next]_vars, ~CoprocForwards, ~DispatchVerdict, ~DispatchTargets
  PROVE  RxSame
<1>1. CASE DispatchOther
  <2>1. rx # <<>> /\ rx' = Tail(rx) /\ Head(rx).line # "+MTCMD"
    BY <1>1 DEF DispatchOther
  <2> QED
    BY <2>1, RxTaken DEF Typed
<1>2. CASE Answered
  <2>1. rx # <<>> /\ rx' = Tail(rx) /\ Head(rx).line # "+MTCMD"
    BY <1>2 DEF Answered
  <2> QED
    BY <2>1, RxTaken DEF Typed
<1>3. ASSUME NEW l \in {"+MTCMDTO", "terminal"}, NEW s \in MaybeSeq, rx' = Append(rx, Line(l, s)) PROVE RxSame
  <2>1. Line(l, s) \in Lines /\ Line(l, s).line # "+MTCMD"
    BY DEF Line, Lines
  <2> QED
    BY <1>3, <2>1, RxAdded DEF Typed
<1>4. CASE WindowExpires
  <2>1. PICK s \in DOMAIN forwards : rx' = Append(rx, Line("+MTCMDTO", s))
    BY <1>4, ExpiresIs
  <2>2. s \in MaybeSeq
    BY ForwardAssumption DEF Typed, MaybeSeq, Seqs
  <2> QED
    BY <1>3, <2>1, <2>2
<1>5. CASE CoprocAnswers
  <2>1. rx' = Append(rx, Line("terminal", 0))
    BY <1>5 DEF CoprocAnswers
  <2> QED
    BY <1>3, <2>1, Names
<1>6. CASE ~DispatchOther /\ ~Answered /\ ~WindowExpires /\ ~CoprocAnswers
  <2>1. rx' = rx
    BY <1>6, Zenon DEF Next, HostStep, CoprocStep, Calls, CommandEntry, PollEntry, CommandLink, DrainResp,
       DrainDeferred, DrainUpdate, UpdateDrained, CallReturns, HeaterWork, EvseFetch, EvseVerdict, EvseMerge, SyncClear,
       SyncRebuild, DispatchBlock, ReadEnds, CallbackReturns, CoprocActs, rest, vars
  <2> QED
    BY <2>1, RxUnchanged
<1> QED
  BY <1>1, <1>2, <1>4, <1>5, <1>6

\* A command answered at once: its line becomes a queued verdict, or the
\* queue is full.
LEMMA PlacesQueued ==
  ASSUME Typed, OnceInv, NEW s \in MaybeSeq, NEW b \in BOOLEAN, rx # <<>>, Head(rx).line = "+MTCMD",
         Head(rx).seq = s, rx' = Tail(rx), Enqueue(s, b), evsePending' = evsePending, FrameSame, WireSame
  PROVE  Once' /\ \A t : StaysAt(t) \/ WentOn(t)
<1>1. rx \in Seq(Lines) /\ respQueue \in Seq(Verdicts) /\ RxOnce /\ QueueOnce /\ FrameOnce /\ WireOnce
  BY DEF Typed, OnceInv, Once
<1>2. RxOnce' /\ InRx(s) /\ \A t : InRx(t)' <=> InRx(t) /\ t # s
  BY <1>1, RxTaken
<1>3. ~InQueue(s) /\ ~InHand(s) /\ ~InFrame(s) /\ ~OnWire(s) /\ s \in DOMAIN forwards
  BY <1>2, OnlyThere
<1>4. \A t : /\ InHand(t)' <=> InHand(t)
             /\ InFrame(t)' <=> InFrame(t)
             /\ OnWire(t)' <=> OnWire(t)
  BY HandSame DEF FrameSame, WireSame
<1>5. FrameOnce' /\ WireOnce'
  BY <1>1 DEF FrameSame, WireSame
<1>6. CASE s \in dropped' /\ QueueSame
  <2>1. QueueOnce' /\ \A t : InQueue(t)' <=> InQueue(t)
    BY <1>1, <1>6 DEF QueueSame
  <2>2. WentOn(s)
    <3>1. ~InRx(s)' /\ ~InQueue(s)' /\ ~InHand(s)' /\ ~InFrame(s)' /\ ~OnWire(s)'
      BY <1>2, <1>3, <1>4, <2>1, Zenon
    <3> QED
      BY <1>3, <1>6, <3>1, AloneThere
  <2>3. ASSUME NEW t, t # s PROVE StaysAt(t)
    BY <1>2, <1>4, <2>1, <2>3, Zenon DEF StaysAt
  <2> QED
    BY <1>2, <1>5, <2>1, <2>2, <2>3 DEF Once
<1>7. CASE QueueOnce' /\ \A t : InQueue(t)' <=> InQueue(t) \/ t = s
  <2>1. WentOn(s)
    <3>1. ~InRx(s)' /\ InQueue(s)' /\ ~InHand(s)' /\ ~InFrame(s)' /\ ~OnWire(s)'
      BY <1>2, <1>3, <1>4, <1>7, Zenon
    <3> QED
      BY <1>3, <3>1, AloneThere
  <2>2. ASSUME NEW t, t # s PROVE StaysAt(t)
    BY <1>2, <1>4, <1>7, <2>2, Zenon DEF StaysAt
  <2> QED
    BY <1>2, <1>5, <1>7, <2>1, <2>2 DEF Once
<1> QED
  BY <1>1, <1>3, <1>6, <1>7, QueuePut

\* The EVSE keeps the proposal for its walk.
LEMMA PlacesPending ==
  ASSUME Typed, OnceInv, NEW s \in MaybeSeq, rx # <<>>, Head(rx).line = "+MTCMD",
         Head(rx).seq = s, rx' = Tail(rx), evsePending = 0, evsePending' = s,
         QueueSame, FrameSame, WireSame
  PROVE  Once' /\ \A t : StaysAt(t) \/ WentOn(t)
<1>1. rx \in Seq(Lines) /\ RxOnce /\ QueueOnce /\ FrameOnce /\ WireOnce
  BY DEF Typed, OnceInv, Once
<1>2. RxOnce' /\ InRx(s) /\ \A t : InRx(t)' <=> InRx(t) /\ t # s
  BY <1>1, RxTaken
<1>3. ~InQueue(s) /\ ~InHand(s) /\ ~InFrame(s) /\ ~OnWire(s) /\ s \in DOMAIN forwards
  BY <1>2, OnlyThere
<1>4. \A t : /\ InQueue(t)' <=> InQueue(t)
             /\ InFrame(t)' <=> InFrame(t)
             /\ OnWire(t)' <=> OnWire(t)
  BY DEF QueueSame, FrameSame, WireSame
<1>5. QueueOnce' /\ FrameOnce' /\ WireOnce'
  BY <1>1 DEF QueueSame, FrameSame, WireSame
<1>6. s # 0
  BY <1>3 DEF Typed
<1>7. InHand(s)' /\ \A t : t # s => (InHand(t)' <=> InHand(t))
  BY <1>6 DEF InHand
<1>8. WentOn(s)
  <2>1. ~InRx(s)' /\ ~InQueue(s)' /\ InHand(s)' /\ ~InFrame(s)' /\ ~OnWire(s)'
    BY <1>2, <1>3, <1>4, <1>7, Zenon
  <2> QED
    BY <1>3, <2>1, AloneThere
<1>9. ASSUME NEW t, t # s PROVE StaysAt(t)
  BY <1>2, <1>4, <1>7, <1>9, Zenon DEF StaysAt
<1> QED
  BY <1>2, <1>5, <1>8, <1>9 DEF Once

\* A drain sends the oldest verdict.
LEMMA PlacesDrained ==
  ASSUME Typed, OnceInv, NEW s \in MaybeSeq, respQueue # <<>>, Head(respQueue).seq = s,
         respQueue' = Tail(respQueue), wire' = Sent("resp", s), evsePending' = evsePending,
         RxSame, FrameSame
  PROVE  Once' /\ \A t : StaysAt(t) \/ WentOn(t)
<1>1. respQueue \in Seq(Verdicts) /\ wire \in Seq(Sendings) /\ RxOnce /\ QueueOnce /\ FrameOnce /\ WireOnce
  BY DEF Typed, OnceInv, Once
<1>2. QueueOnce' /\ InQueue(s) /\ \A t : InQueue(t)' <=> InQueue(t) /\ t # s
  BY <1>1, QueueTaken
<1>3. ~InRx(s) /\ ~InHand(s) /\ ~InFrame(s) /\ ~OnWire(s) /\ s \in DOMAIN forwards
  BY <1>2, OnlyThere
<1>4. WireOnce' /\ \A t : OnWire(t)' <=> OnWire(t) \/ t = s
  BY <1>1, <1>3, WirePut
<1>5. \A t : /\ InRx(t)' <=> InRx(t)
             /\ InHand(t)' <=> InHand(t)
             /\ InFrame(t)' <=> InFrame(t)
  BY HandSame DEF RxSame, FrameSame
<1>6. RxOnce' /\ FrameOnce'
  BY <1>1 DEF RxSame, FrameSame
<1>7. WentOn(s)
  <2>1. ~InRx(s)' /\ ~InQueue(s)' /\ ~InHand(s)' /\ ~InFrame(s)' /\ OnWire(s)'
    BY <1>2, <1>3, <1>4, <1>5, Zenon
  <2> QED
    BY <1>3, <2>1, AloneThere
<1>8. ASSUME NEW t, t # s PROVE StaysAt(t)
  BY <1>2, <1>4, <1>5, <1>8, Zenon DEF StaysAt
<1> QED
  BY <1>2, <1>4, <1>6, <1>7, <1>8 DEF Once

\* The walk's own command sends it.
LEMMA PlacesSent ==
  ASSUME Typed, OnceInv, CommandLink, ~Busy, Top.op = "resp",
         RxSame, QueueSame, evsePending' = evsePending
  PROVE  Once' /\ \A t : StaysAt(t) \/ WentOn(t)
<1>1. wire \in Seq(Sendings) /\ RxOnce /\ QueueOnce /\ FrameOnce /\ WireOnce
  BY DEF Typed, OnceInv, Once
<1>2. PICK s \in MaybeSeq : s = Top.seq
  BY FrameSends
<1>3. /\ InFrame(s) /\ wire' = Sent("resp", s)
      /\ FrameOnce' /\ \A t : InFrame(t)' <=> InFrame(t) /\ t # s
  BY <1>1, <1>2, FrameSends
<1>4. ~InRx(s) /\ ~InQueue(s) /\ ~InHand(s) /\ ~OnWire(s) /\ s \in DOMAIN forwards
  BY <1>3, OnlyThere
<1>5. WireOnce' /\ \A t : OnWire(t)' <=> OnWire(t) \/ t = s
  BY <1>1, <1>3, <1>4, WirePut
<1>6. \A t : /\ InRx(t)' <=> InRx(t)
             /\ InQueue(t)' <=> InQueue(t)
             /\ InHand(t)' <=> InHand(t)
  BY HandSame DEF RxSame, QueueSame
<1>7. RxOnce' /\ QueueOnce'
  BY <1>1 DEF RxSame, QueueSame
<1>8. WentOn(s)
  <2>1. ~InRx(s)' /\ ~InQueue(s)' /\ ~InHand(s)' /\ ~InFrame(s)' /\ OnWire(s)'
    BY <1>3, <1>4, <1>5, <1>6, Zenon
  <2> QED
    BY <1>4, <2>1, AloneThere
<1>9. ASSUME NEW t, t # s PROVE StaysAt(t)
  BY <1>3, <1>5, <1>6, <1>9, Zenon DEF StaysAt
<1> QED
  BY <1>3, <1>5, <1>7, <1>8, <1>9 DEF Once

\* The walk takes the proposal over.
LEMMA PlacesFetched ==
  ASSUME Typed, OnceInv, EvseFetch, RxSame, QueueSame, WireSame
  PROVE  Once' /\ \A t : StaysAt(t) \/ WentOn(t)
<1>1. RxOnce /\ QueueOnce /\ FrameOnce /\ WireOnce
  BY DEF OnceInv, Once
<1>2. CASE FrameSame /\ evsePending' = evsePending
  BY <1>2, QuietPlaces DEF OnceInv
<1>3. CASE /\ evsePending # 0 /\ evsePending' = 0
           /\ FrameOnce /\ ~InFrame(evsePending) =>
                FrameOnce' /\ \A s : InFrame(s)' <=> InFrame(s) \/ s = evsePending
  <2>1. PICK s \in MaybeSeq : s = evsePending
    BY DEF Typed
  <2>2. InHand(s)
    BY <1>3, <2>1 DEF InHand
  <2>3. ~InRx(s) /\ ~InQueue(s) /\ ~InFrame(s) /\ ~OnWire(s) /\ s \in DOMAIN forwards
    BY <2>2, OnlyThere
  <2>4. ~InFrame(evsePending)
    BY <2>1, <2>3
  <2>5. FrameOnce' /\ \A t : InFrame(t)' <=> InFrame(t) \/ t = s
    BY <1>1, <1>3, <2>1, <2>4
  <2>6. ~InHand(s)' /\ \A t : t # s => (InHand(t)' <=> InHand(t))
    BY <1>3, <2>1 DEF InHand
  <2>7. \A t : /\ InRx(t)' <=> InRx(t)
               /\ InQueue(t)' <=> InQueue(t)
               /\ OnWire(t)' <=> OnWire(t)
    BY DEF RxSame, QueueSame, WireSame
  <2>8. RxOnce' /\ QueueOnce' /\ WireOnce'
    BY <1>1 DEF RxSame, QueueSame, WireSame
  <2>9. WentOn(s)
    <3>1. ~InRx(s)' /\ ~InQueue(s)' /\ ~InHand(s)' /\ InFrame(s)' /\ ~OnWire(s)'
      BY <2>3, <2>5, <2>6, <2>7, Zenon
    <3> QED
      BY <2>3, <3>1, AloneThere
  <2>10. ASSUME NEW t, t # s PROVE StaysAt(t)
    BY <2>5, <2>6, <2>7, <2>10, Zenon DEF StaysAt
  <2> QED
    BY <2>5, <2>8, <2>9, <2>10 DEF Once
<1> QED
  BY <1>2, <1>3, FrameFetches

\* A refused fetch gives the command up: its window has closed.
LEMMA PlacesDecided ==
  ASSUME Typed, OnceInv, FetchClosed, EvseVerdict, RxSame, QueueSame, evsePending' = evsePending, WireSame
  PROVE  Once' /\ \A t : StaysAt(t) \/ WentOn(t)
<1>1. RxOnce /\ QueueOnce /\ FrameOnce /\ WireOnce
  BY DEF OnceInv, Once
<1>2. CASE FrameSame
  BY <1>2, QuietPlaces DEF OnceInv
<1>3. CASE /\ stack # <<>> /\ Top.at = "fetched" /\ ~Top.allow /\ InFrame(Top.seq)
           /\ FrameOnce => FrameOnce' /\ \A s : InFrame(s)' <=> InFrame(s) /\ s # Top.seq
  <2>1. Top.seq \notin Open /\ Top.seq \in DOMAIN forwards
    BY <1>3 DEF FetchClosed, OnceInv, Known
  <2>2. PICK s \in DOMAIN forwards : s = Top.seq
    BY <2>1
  <2>3. InFrame(s) /\ s \notin Open /\ FrameOnce' /\ \A t : InFrame(t)' <=> InFrame(t) /\ t # s
    BY <1>1, <1>3, <2>1, <2>2
  <2>4. ~InRx(s) /\ ~InQueue(s) /\ ~InHand(s) /\ ~OnWire(s)
    BY <2>3, OnlyThere
  <2>5. \A t : /\ InRx(t)' <=> InRx(t)
               /\ InQueue(t)' <=> InQueue(t)
               /\ InHand(t)' <=> InHand(t)
               /\ OnWire(t)' <=> OnWire(t)
    BY HandSame DEF RxSame, QueueSame, WireSame
  <2>6. RxOnce' /\ QueueOnce' /\ WireOnce'
    BY <1>1 DEF RxSame, QueueSame, WireSame
  <2>7. WentOn(s)
    <3>1. ~InRx(s)' /\ ~InQueue(s)' /\ ~InHand(s)' /\ ~InFrame(s)' /\ ~OnWire(s)'
      BY <2>3, <2>4, <2>5, Zenon
    <3> QED
      BY <2>3, <3>1, AloneThere
  <2>8. ASSUME NEW t, t # s PROVE StaysAt(t)
    BY <2>3, <2>5, <2>8, Zenon DEF StaysAt
  <2> QED
    BY <2>3, <2>6, <2>7, <2>8 DEF Once
<1> QED
  BY <1>2, <1>3, FrameDecides

LEMMA FrameStill == ASSUME stack' = stack PROVE FrameSame
BY DEF FrameSame, FrameOnce, InFrame, Token

\* A callback runs inside the link, where no frame sends or decides.
LEMMA DispatchIsNone ==
  ASSUME Typed, DispatchVerdict
  PROVE  ~CommandLink /\ ~EvseFetch /\ ~EvseVerdict
BY DEF DispatchVerdict, Reading, CommandLink, EvseFetch, EvseVerdict, At

LEMMA PlacesForwarded ==
  ASSUME Typed, StackInv, OnceInv, [Next]_vars, CoprocForwards
  PROVE  OnceInv' /\ KeptInv'
<1>1. PICK s \in Seqs : s = Len(forwards')
  BY ForwardedIs
<1>2. /\ DOMAIN forwards' = DOMAIN forwards \cup {s} /\ s \notin DOMAIN forwards /\ Open' = {s} /\ s # 0
      /\ rx' = Append(rx, Line("+MTCMD", s)) /\ s \in MaybeSeq
  BY <1>1, ForwardedIs DEF Seqs, MaybeSeq
<1>3. /\ respQueue' = respQueue /\ wire' = wire /\ evsePending' = evsePending /\ stack' = stack
  BY DEF CoprocForwards, evse
<1>4. FrameSame
  BY <1>3, FrameStill
<1>5. ~InRx(s) /\ ~InQueue(s) /\ ~InFrame(s) /\ ~OnWire(s) /\ ~InHand(s)
  BY <1>2 DEF OnceInv, Known, InHand
<1>6. RxOnce' /\ \A t : InRx(t)' <=> InRx(t) \/ t = s
  <2>1. Line("+MTCMD", s) \in Lines /\ Line("+MTCMD", s).line = "+MTCMD" /\ Line("+MTCMD", s).seq = s
    BY <1>2 DEF Line, Lines
  <2> QED
    BY <1>2, <1>5, <2>1, RxAdded DEF Typed, OnceInv, Once
<1>7. /\ QueueOnce' /\ FrameOnce' /\ WireOnce'
      /\ \A t : /\ InQueue(t)' <=> InQueue(t)
                /\ InHand(t)' <=> InHand(t)
                /\ InFrame(t)' <=> InFrame(t)
                /\ OnWire(t)' <=> OnWire(t)
  BY <1>3, <1>4, QueueUnchanged, WireUnchanged, HandSame DEF OnceInv, Once, QueueSame, FrameSame, WireSame
<1>8. Known'
  <2>1. ASSUME NEW t, InRx(t)' \/ InQueue(t)' \/ InFrame(t)' \/ OnWire(t)' PROVE t \in DOMAIN forwards'
    <3>1. InRx(t) \/ InQueue(t) \/ InFrame(t) \/ OnWire(t) \/ t = s
      BY <1>6, <1>7, <2>1, Zenon
    <3> QED
      BY <1>2, <3>1 DEF OnceInv, Known
  <2>2. evsePending' \in {0} \cup DOMAIN forwards'
    BY <1>2, <1>3 DEF OnceInv, Known
  <2> QED
    BY <2>1, <2>2 DEF Known
<1>9. ASSUME NEW t \in DOMAIN forwards' PROVE Alone(t)'
  <2>1. CASE t = s
    <3>1. ~InQueue(t)' /\ ~InHand(t)' /\ ~InFrame(t)' /\ ~OnWire(t)'
      BY <1>5, <1>7, <2>1, Zenon
    <3> QED
      BY <3>1, Zenon DEF Alone
  <2>2. CASE t # s
    <3>1. StaysAt(t)
      BY <1>6, <1>7, <2>2, Zenon DEF StaysAt
    <3>2. t \in DOMAIN forwards
      BY <1>2, <2>2
    <3> QED
      BY <3>1, <3>2, StayingAlone DEF OnceInv
  <2> QED
    BY <2>1, <2>2
<1>10. KeptInv'
  <2>1. Somewhere(s)'
    BY <1>6 DEF Somewhere
  <2> QED
    BY <1>2, <2>1 DEF KeptInv
<1> QED
  BY <1>6, <1>7, <1>8, <1>9, <1>10 DEF OnceInv, Once

LEMMA PlacesMove ==
  ASSUME Typed, StackInv, OnceInv, FetchClosed, [Next]_vars, ~CoprocForwards
  PROVE  Once' /\ \A t : StaysAt(t) \/ WentOn(t)
<1>1. CASE DispatchVerdict
  <2>1. PICK s \in MaybeSeq : s = Head(rx).seq
    BY <1>1, VerdictIs
  <2>2. PICK b \in BOOLEAN : Enqueue(s, b)
    BY <1>1, <2>1, VerdictIs
  <2>3. rx # <<>> /\ Head(rx).line = "+MTCMD" /\ rx' = Tail(rx) /\ wire' = wire /\ evsePending' = evsePending
    BY <1>1, VerdictIs
  <2>4. FrameSame
    BY <1>1, FramesKept, DispatchIsNone
  <2> QED
    BY <2>1, <2>2, <2>3, <2>4, WireUnchanged, PlacesQueued
<1>2. CASE DispatchTargets
  <2>1. PICK s \in MaybeSeq : s = Head(rx).seq
    BY <1>2, TargetsIs
  <2>2. /\ rx # <<>> /\ Head(rx).line = "+MTCMD" /\ rx' = Tail(rx) /\ wire' = wire /\ stack' = stack
        /\ \/ Enqueue(s, FALSE) /\ evsePending' = evsePending
           \/ /\ evsePending = 0 /\ evsePending' = s
              /\ respQueue' = respQueue /\ dropped' = dropped
    BY <1>2, <2>1, TargetsIs
  <2>3. FrameSame
    BY <2>2, FrameStill
  <2>4. CASE Enqueue(s, FALSE) /\ evsePending' = evsePending
    <3>1. PICK b \in BOOLEAN : Enqueue(s, b)
      BY <2>4
    <3> QED
      BY <2>1, <2>2, <2>3, <2>4, <3>1, WireUnchanged, PlacesQueued
  <2>5. CASE evsePending = 0 /\ evsePending' = s /\ respQueue' = respQueue
    BY <2>1, <2>2, <2>3, <2>5, WireUnchanged, QueueUnchanged, PlacesPending
  <2> QED
    BY <2>2, <2>4, <2>5
<1>3. ASSUME ~DispatchVerdict, ~DispatchTargets
      PROVE  /\ RxSame
             /\ ~DrainResp => QueueSame
             /\ ~EvseFetch => evsePending' = evsePending
             /\ ~CommandLink /\ ~DrainResp => WireSame
             /\ ~CommandLink /\ ~EvseFetch /\ ~EvseVerdict => FrameSame
  BY <1>3, RxQuiet, QueueKept, QueueUnchanged, PendingKept, WireKept, WireUnchanged, FramesKept
<1>4. CASE DrainResp /\ ~DispatchVerdict /\ ~DispatchTargets
  <2>1. RxSame
    BY <1>3, <1>4
  <2>2. evsePending' = evsePending
    BY <1>4 DEF DrainResp, evse
  <2>3. ~CommandLink /\ ~EvseFetch /\ ~EvseVerdict
    BY <1>4 DEF DrainResp, CommandLink, EvseFetch, EvseVerdict, At
  <2>4. FrameSame
    BY <1>3, <1>4, <2>3
  <2>5. \/ /\ respQueue # <<>> /\ respQueue' = Tail(respQueue)
           /\ Head(respQueue).seq \in MaybeSeq
           /\ wire' = Sent("resp", Head(respQueue).seq)
        \/ respQueue' = respQueue /\ wire' = wire
    BY <1>4, DrainRespIs DEF Typed
  <2>6. CASE respQueue' = respQueue /\ wire' = wire
    BY <2>1, <2>2, <2>4, <2>6, QueueUnchanged, WireUnchanged, QuietPlaces DEF OnceInv
  <2>7. CASE /\ respQueue # <<>> /\ respQueue' = Tail(respQueue)
             /\ Head(respQueue).seq \in MaybeSeq
             /\ wire' = Sent("resp", Head(respQueue).seq)
    <3>1. PICK s \in MaybeSeq : s = Head(respQueue).seq
      BY <2>7
    <3>2. wire' = Sent("resp", s)
      BY <2>7, <3>1
    <3> QED
      BY <2>1, <2>2, <2>4, <2>7, <3>1, <3>2, PlacesDrained
  <2> QED
    BY <2>5, <2>6, <2>7
<1>5. CASE CommandLink /\ ~DispatchVerdict /\ ~DispatchTargets
  <2>1. ~DrainResp /\ ~EvseFetch
    BY <1>5 DEF DrainResp, CommandLink, EvseFetch, At
  <2>2. RxSame /\ QueueSame /\ evsePending' = evsePending
    BY <1>3, <1>5, <2>1
  <2>3. CASE ~Busy /\ Top.op = "resp"
    BY <1>5, <2>2, <2>3, PlacesSent
  <2>4. CASE ~(~Busy /\ Top.op = "resp")
    <3>1. FrameSame
      BY <1>5, <2>4, FrameNothing
    <3>2. WireSame
      <4>1. Top.seq \in MaybeSeq /\ (wire' = wire \/ (~Busy /\ wire' = Sent(Top.op, Top.seq)))
        BY <1>5, CommandLinkIs, Fields DEF Typed
      <4>2. CASE wire' = wire
        BY <4>2, WireUnchanged
      <4>3. CASE ~Busy /\ wire' = Sent(Top.op, Top.seq)
        BY <2>4, <4>1, <4>3, WirePut DEF Typed
      <4> QED
        BY <4>1, <4>2, <4>3
    <3> QED
      BY <2>2, <3>1, <3>2, QuietPlaces DEF OnceInv
  <2> QED
    BY <2>3, <2>4
<1>6. CASE EvseFetch /\ ~DispatchVerdict /\ ~DispatchTargets
  <2>1. ~DrainResp /\ ~CommandLink
    BY <1>6 DEF DrainResp, CommandLink, EvseFetch, At
  <2> QED
    BY <1>3, <1>6, <2>1, PlacesFetched
<1>7. CASE EvseVerdict /\ ~DispatchVerdict /\ ~DispatchTargets
  <2>1. ~DrainResp /\ ~CommandLink /\ ~EvseFetch
    BY <1>7 DEF DrainResp, CommandLink, EvseFetch, EvseVerdict, At
  <2> QED
    BY <1>3, <1>7, <2>1, PlacesDecided
<1>8. CASE /\ ~DispatchVerdict /\ ~DispatchTargets /\ ~DrainResp /\ ~CommandLink
           /\ ~EvseFetch /\ ~EvseVerdict
  BY <1>3, <1>8, QuietPlaces DEF OnceInv
<1> QED
  BY <1>1, <1>2, <1>4, <1>5, <1>6, <1>7, <1>8, Zenon

LEMMA PlacesInvStep ==
  ASSUME Typed, StackInv, OnceInv, KeptInv, FetchClosed, [Next]_vars
  PROVE  OnceInv' /\ KeptInv' /\ FetchClosed'
<1>1. FetchClosed'
  BY FetchClosedStep DEF OnceInv
<1>2. CASE CoprocForwards
  BY <1>1, <1>2, PlacesForwarded
<1>3. CASE ~CoprocForwards
  <2>1. Once' /\ \A t : StaysAt(t) \/ WentOn(t)
    BY <1>3, PlacesMove
  <2> QED
    BY <1>1, <1>3, <2>1, PlacesStep
<1> QED
  BY <1>2, <1>3

---------------------------------------------------------------------------
(* The invariants together.                                                *)

ForwardInv ==
  Typed /\ StackInv /\ PushInv /\ OwnInv /\ OnceInv /\ KeptInv /\ FetchClosed

LEMMA AtFirst ==
  ASSUME Init
  PROVE  /\ stack # <<>> => Len(stack) = 1 /\ Top = stack[1]
         /\ \A i \in 1 .. Len(stack) : /\ i = 1 /\ Len(stack) = 1 /\ stack[i].at = "sync"
                                       /\ stack[i].op = "none" /\ ~stack[i].callback
         /\ 1 .. Len(rx) = {} /\ 1 .. Len(respQueue) = {} /\ 1 .. Len(wire) = {}
         /\ DOMAIN forwards = {} /\ DOMAIN wire = {} /\ evsePending = 0 /\ heaterPush.seq = 0
<1> DEFINE f == Call("sync", "none", 0, FALSE)
<1>1. f \in Frame /\ f.at = "sync" /\ f.op = "none" /\ f.callback = FALSE
  <2>1. f \in Frame
    BY Called, Names
  <2> QED
    BY <2>1 DEF Call
<1>2. stack = <<>> \/ stack = <<f>>
  BY DEF Init
<1> HIDE DEF f
<1>3. rx = <<>> /\ respQueue = <<>> /\ wire = <<>> /\ forwards = <<>> /\ evsePending = 0 /\ heaterPush.seq = 0
  BY DEF Init, NoPush
<1>4. 1 .. Len(rx) = {} /\ 1 .. Len(respQueue) = {} /\ 1 .. Len(wire) = {} /\ DOMAIN forwards = {} /\ DOMAIN wire = {}
  BY <1>3
<1>5. /\ stack # <<>> => Len(stack) = 1 /\ Top = stack[1]
      /\ \A i \in 1 .. Len(stack) : /\ i = 1 /\ Len(stack) = 1 /\ stack[i].at = "sync"
                                    /\ stack[i].op = "none" /\ ~stack[i].callback
  <2>1. CASE stack = <<>>
    BY <2>1
  <2>2. CASE stack = <<f>>
    <3>1. Len(stack) = 1 /\ stack[1] = f
      BY <1>1, <2>2
    <3> QED
      BY <1>1, <3>1 DEF Top
  <2> QED
    BY <1>2, <2>1, <2>2
<1> QED
  BY <1>3, <1>4, <1>5

LEMMA ForwardInvInit == ASSUME Init PROVE ForwardInv
<1>1. Typed
  BY TypedInit
<1>2. \A i \in 1 .. Len(stack) : /\ i = 1 /\ Len(stack) = 1 /\ stack[i].at = "sync"
                                 /\ stack[i].op = "none" /\ ~stack[i].callback
  BY AtFirst
<1>3. StackInv
  <2>1. Handed
    BY <1>2 DEF Handed
  <2>2. Nested
    BY <1>2 DEF Nested, LinkAt
  <2>3. Callers /\ Fetching /\ OneApp
    BY <1>2 DEF Callers, Fetching, OneApp
  <2>4. Readers /\ Commands /\ Senders
    BY <1>2 DEF Readers, Commands, Senders, LinkAt, CallAt
  <2> QED
    BY <2>1, <2>2, <2>3, <2>4 DEF StackInv
<1>4. PushInv
  <2>1. PushAfter /\ VerdictBeforePush
    BY AtFirst DEF PushAfter, VerdictBeforePush, Sends
  <2>2. PushSent
    BY <1>2 DEF PushSent
  <2>3. Drained
    <3>1. ASSUME stack # <<>> PROVE Top.at = "sync"
      <4>1. 1 \in 1 .. Len(stack) /\ Top = stack[1]
        BY <3>1, AtFirst
      <4> QED
        BY <1>2, <4>1
    <3> QED
      BY <3>1 DEF Drained
  <2> QED
    BY <2>1, <2>2, <2>3 DEF PushInv
<1>5. OwnInv
  <2>1. Len(stack) > 0 => stack[1].op # "app"
    <3>1. Len(stack) \in Nat
      BY <1>1 DEF Typed
    <3> QED
      BY <1>2, <3>1
  <2> QED
    BY <2>1 DEF OwnInv, OwnFrame, Past
<1>6. OnceInv
  <2>1. RxOnce /\ QueueOnce /\ WireOnce
    BY AtFirst DEF RxOnce, QueueOnce, WireOnce
  <2>2. FrameOnce
    BY <1>2 DEF FrameOnce, Token
  <2>3. \A s : ~InFrame(s)
    BY <1>2 DEF InFrame, Token
  <2>4. \A s : ~InRx(s) /\ ~InQueue(s) /\ ~OnWire(s)
    BY AtFirst DEF InRx, InQueue, OnWire
  <2>5. Known
    BY <2>3, <2>4, AtFirst DEF Known
  <2>6. DOMAIN forwards = {}
    BY AtFirst
  <2> QED
    BY <2>1, <2>2, <2>5, <2>6 DEF OnceInv, Once
<1>7. KeptInv
  BY AtFirst DEF KeptInv, Open
<1>8. FetchClosed
  <2>1. \A i \in 1 .. Len(stack) : ~Fetch(stack[i])
    BY <1>2 DEF Fetch
  <2>2. stack # <<>> => Top.at # "fetched"
    BY <1>2, AtFirst
  <2> QED
    BY <2>1, <2>2 DEF FetchClosed
<1> QED
  BY <1>1, <1>3, <1>4, <1>5, <1>6, <1>7, <1>8 DEF ForwardInv

LEMMA ForwardInvStep == ASSUME ForwardInv, [Next]_vars PROVE ForwardInv'
BY TypedStep, StackInvStep, PushInvStep, OwnStep, PlacesInvStep DEF ForwardInv

LEMMA ForwardInvHolds == Spec => []ForwardInv
<1>1. Init => ForwardInv
  BY ForwardInvInit
<1>2. ForwardInv /\ [Next]_vars => ForwardInv'
  BY ForwardInvStep
<1> QED
  BY <1>1, <1>2, PTL DEF Spec

---------------------------------------------------------------------------
(* What the invariants say of the verdicts.                                *)

\* A BoostState push follows its command's verdict on the wire, unless a
\* full queue dropped that verdict (hearthDrainCmdRespQueue() runs before
\* the deferred walk, Hearth.cpp:935).
THEOREM ForwardVerdictBeforePush == Spec => []VerdictBeforePush
<1>1. ForwardInv => VerdictBeforePush
  BY DEF ForwardInv, PushInv
<1> QED
  BY <1>1, ForwardInvHolds, PTL

LEMMA SomewhereWaits ==
  ASSUME Typed, NEW s, Somewhere(s)
  PROVE  Waiting(s) \/ \E i \in Sends("resp") : wire[i].seq = s
<1>1. /\ DOMAIN rx = 1 .. Len(rx) /\ DOMAIN respQueue = 1 .. Len(respQueue)
      /\ DOMAIN stack = 1 .. Len(stack) /\ DOMAIN wire = 1 .. Len(wire)
  BY DEF Typed
<1>2. CASE InRx(s)
  <2>1. PICK i \in 1 .. Len(rx) : rx[i].line = "+MTCMD" /\ rx[i].seq = s
    BY <1>2 DEF InRx
  <2>2. rx[i] \in Lines
    BY <2>1 DEF Typed
  <2>3. rx[i] = Line("+MTCMD", s)
    BY <2>1, <2>2 DEF Line, Lines
  <2> QED
    BY <1>1, <2>3 DEF Waiting
<1>3. CASE InQueue(s)
  BY <1>1, <1>3 DEF InQueue, Waiting
<1>4. CASE InHand(s)
  BY <1>4 DEF InHand, Waiting
<1>5. CASE InFrame(s)
  BY <1>1, <1>5 DEF InFrame, Token, Waiting
<1>6. CASE OnWire(s)
  BY <1>1, <1>6 DEF OnWire, Sends
<1> QED
  BY <1>2, <1>3, <1>4, <1>5, <1>6 DEF Somewhere

\* No verdict is lost on the host while its window is open, nor sent twice:
\* the command is in exactly one of the five places a verdict waits in, and
\* each step of the dispatch, the drains and the EVSE's walk takes it from
\* one to the next (hearthDrainCmdRespQueue(), Hearth.cpp:935).
THEOREM ForwardVerdictKept == Spec => []VerdictKept
<1>1. ASSUME ForwardInv PROVE VerdictKept
  <2>1. ASSUME NEW s \in Open
        PROVE  Waiting(s) \/ s \in dropped \/ \E i \in Sends("resp") : wire[i].seq = s
    BY <1>1, SomewhereWaits DEF ForwardInv, KeptInv
  <2>2. DOMAIN wire = 1 .. Len(wire)
    BY <1>1 DEF ForwardInv, Typed
  <2>3. \A i, j \in Sends("resp") : wire[i].seq = wire[j].seq => i = j
    BY <1>1, <2>2 DEF ForwardInv, OnceInv, Once, WireOnce, Sends
  <2> QED
    BY <2>1, <2>3 DEF VerdictKept
<1> QED
  BY <1>1, ForwardInvHolds, PTL

\* lastError() after a command of the sketch is that command's own, whatever
\* verdicts, pushes and fetches the drains sent after it (Hearth.cpp:353,
\* 1014), unless one that saves nothing has replaced it: a callback's own
\* refused call, or the update's drain (HearthUpdate.cpp:92).
THEOREM ForwardLastErrorOwn == Spec => []LastErrorOwn
<1>1. ASSUME ForwardInv, At("ret"), Top.op = "app"
      PROVE  lastError = [op |-> "app", rc |-> Top.rc] \/ lastError.op \in {"callback", "update"}
  <2>1. stack # <<>> /\ Len(stack) \in 1 .. Len(stack) /\ Top = stack[Len(stack)] /\ Top.at = "ret"
        /\ Len(stack) \in Nat
    BY <1>1, Positions DEF ForwardInv, Typed, At
  <2>2. Len(stack) = 1
    BY <1>1, <2>1 DEF ForwardInv, StackInv, OneApp, CallAt
  <2>3. Past /\ \A i \in 1 .. Len(stack) : stack[i].at \notin WalkAt
    BY <1>1, <2>1, <2>2 DEF Past, WalkAt
  <2>4. Good(lastError.op, lastError.rc)
    BY <1>1, <2>3 DEF ForwardInv, OwnInv, Found
  <2>5. lastError \in Codes
    BY <1>1 DEF ForwardInv, Typed
  <2> QED
    BY <2>1, <2>2, <2>4, <2>5 DEF Good, Codes
<1>2. ForwardInv => LastErrorOwn
  BY <1>1 DEF LastErrorOwn
<1> QED
  BY <1>2, ForwardInvHolds, PTL
=============================================================================
