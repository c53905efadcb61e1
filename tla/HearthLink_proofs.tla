-------------------------- MODULE HearthLink_proofs --------------------------
(***************************************************************************)
(* What holds of the transport for every number of commands, events,       *)
(* boots and calls.                                                        *)
(*                                                                         *)
(* One inductive invariant carries all of it.  The interesting half of it  *)
(* is that a link call made from a callback never gets in: there is at     *)
(* most one frame on the stack, so Top is the only reader and what it      *)
(* reads is its own.                                                       *)
(***************************************************************************)
EXTENDS HearthLink, SequenceTheorems, TLAPS

\* A frame of command() names the command it answers.
FramesNamed ==
  \A i \in DOMAIN calls : calls[i].reader = "command" => calls[i].cmd \in Commands

BaseInv == TypeOK /\ OneReader /\ FramesNamed

\* With one frame at most, the stack is empty or is its own top.
LEMMA OneFrame ==
  ASSUME TypeOK, OneReader, calls # <<>>
  PROVE  /\ Len(calls) = 1 /\ DOMAIN calls = {1} /\ Top = calls[1]
         /\ Top \in Frame /\ busy
<1>1. calls \in Seq(Frame)
  BY DEF TypeOK
<1>2. Len(calls) \in {0, 1} /\ busy
  BY DEF OneReader
<1>3. Len(calls) # 0
  BY <1>1, EmptySeq
<1>4. Len(calls) = 1
  BY <1>2, <1>3
<1>5. DOMAIN calls = {1}
  BY <1>1, <1>4, LenProperties
<1>6. calls[1] \in Frame
  BY <1>1, <1>4, ElementOfSeq
<1> QED
  BY <1>2, <1>4, <1>5, <1>6 DEF Top

\* Entering the stack while nothing is on it, and leaving it again.
LEMMA EnterOne ==
  ASSUME TypeOK, OneReader, CanCall, ~busy,
         NEW r \in Reader, NEW c \in {0} \cup Commands, NEW a \in BOOLEAN,
         Enter(r, c, a), r = "command" => c \in Commands
  PROVE  calls' \in Seq(Frame) /\ OneReader' /\ FramesNamed' /\ busy' \in BOOLEAN
<1>1. calls = <<>>
  BY DEF OneReader
<1> DEFINE f == [reader |-> r, cmd |-> c, attrRead |-> a, mterr |-> 0, inCallback |-> FALSE]
<1>2. f \in Frame
  BY DEF Frame
<1>3. calls' = <<f>> /\ busy'
  BY <1>1 DEF Enter
<1> HIDE DEF f
<1>4. calls' \in Seq(Frame) /\ Len(calls') = 1 /\ DOMAIN calls' = {1} /\ calls'[1] = f
  BY <1>2, <1>3
<1>5. OneReader'
  BY <1>3, <1>4 DEF OneReader
<1>6. FramesNamed'
  BY <1>4 DEF FramesNamed, f
<1> QED
  BY <1>3, <1>4, <1>5, <1>6

LEMMA LeaveOne ==
  ASSUME TypeOK, OneReader, calls # <<>>, Leave
  PROVE  calls' = <<>> /\ calls' \in Seq(Frame) /\ busy' \in BOOLEAN
         /\ OneReader' /\ FramesNamed'
<1>1. Len(calls) = 1
  BY OneFrame
<1>2. calls' = SubSeq(calls, 1, 0)
  BY <1>1 DEF Leave
<1>3. calls' = <<>>
  BY <1>2, SubSeqEmpty
<1>4. busy' \in BOOLEAN /\ ~busy'
  BY DEF Leave
<1> QED
  BY <1>3, <1>4, EmptySeq DEF OneReader, FramesNamed

\* A step that changes the top frame in place.
LEMMA KeepOne ==
  ASSUME BaseInv, calls # <<>>, NEW f \in Frame,
         f.reader = "command" => f.cmd \in Commands,
         calls' = [calls EXCEPT ![Len(calls)] = f], (busy' <=> busy)
  PROVE  calls' \in Seq(Frame) /\ OneReader' /\ FramesNamed'
<1>1. Len(calls) = 1 /\ DOMAIN calls = {1} /\ busy /\ calls \in Seq(Frame)
  BY OneFrame DEF BaseInv, TypeOK
<1>2. calls' \in Seq(Frame) /\ Len(calls') = 1 /\ calls'[1] = f
  BY <1>1, ExceptSeq
<1>3. DOMAIN calls' = {1} /\ calls' # <<>>
  BY <1>2, LenProperties, EmptySeq
<1>4. OneReader'
  BY <1>1, <1>2, <1>3 DEF OneReader
<1>5. FramesNamed'
  BY <1>2, <1>3 DEF FramesNamed
<1> QED
  BY <1>2, <1>4, <1>5

\* Recording an answer keeps answers well typed.
LEMMA AnswerType ==
  ASSUME TypeOK, NEW c \in Commands, NEW rc \in Returns,
         NEW t \in {0} \cup Commands, NEW m \in {0} \cup Commands,
         Answer(c, rc, t, m)
  PROVE  /\ DOMAIN answers' \subseteq Commands
         /\ \A d \in DOMAIN answers' :
              answers'[d] \in [rc : Returns, terminal : {0} \cup Commands,
                              code : {0} \cup Commands]
  BY DEF TypeOK, Answer

LEMMA ReadType ==
  ASSUME TypeOK, ReadLine
  PROVE  Head(rx) \in Line /\ rx' \in Seq(Line)
  BY HeadTailProperties DEF TypeOK, ReadLine

\* The frame that is reading.
LEMMA ReadingTop ==
  ASSUME BaseInv, NEW r, Reading(r)
  PROVE  /\ calls # <<>> /\ Top \in Frame /\ Top = calls[Len(calls)]
         /\ r = "command" => Top.cmd \in Commands
<1>1. calls # <<>> /\ Top.reader = r
  BY DEF Reading
<1>2. DOMAIN calls = {1} /\ Top = calls[1] /\ Top \in Frame
  BY <1>1, OneFrame DEF BaseInv
<1> QED
  BY <1>1, <1>2 DEF BaseInv, FramesNamed, Top

LEMMA DispatchType ==
  ASSUME BaseInv, calls # <<>>, NEW line \in Line, Dispatch(line), UNCHANGED busy
  PROVE  /\ handled' \in Seq(Line)
         /\ calls' \in Seq(Frame) /\ OneReader' /\ FramesNamed'
<1>1. handled' \in Seq(Line)
  BY AppendProperties DEF Dispatch, BaseInv, TypeOK
<1> DEFINE f == [Top EXCEPT !.inCallback = TRUE]
<1>2. DOMAIN calls = {1} /\ Top = calls[1] /\ Top \in Frame /\ Len(calls) = 1
  BY OneFrame DEF BaseInv
<1>3. f \in Frame /\ (f.reader = "command" => f.cmd \in Commands)
  BY <1>2 DEF Frame, BaseInv, FramesNamed
<1>4. calls' = [calls EXCEPT ![Len(calls)] = f]
  BY <1>2 DEF Dispatch, Top
<1> HIDE DEF f
<1> QED
  BY <1>1, <1>3, <1>4, KeepOne

LEMMA BaseInit == Init => BaseInv
<1> SUFFICES ASSUME Init PROVE BaseInv
  OBVIOUS
<1>1. TypeOK
  <2>1. \A S : <<>> \in Seq(S)
    BY EmptySeq
  <2>2. issued = 0 /\ polls = 0 /\ raised = 0 /\ reboots = 0
    BY DEF Init
  <2>3. /\ issued \in 0 .. MaxCommands /\ polls \in 0 .. MaxCalls
        /\ raised \in 0 .. MaxEvents /\ reboots \in 0 .. MaxReboots
    BY <2>2, BoundsAssumption DEF BoundsAssumption
  <2>4. DOMAIN answers = {}
    BY DEF Init
  <2>5. /\ rx = <<>> /\ tx = <<>> /\ calls = <<>> /\ handled = <<>>
        /\ claimed = {} /\ skipped = {}
    BY DEF Init
  <2>6. serving = 0 /\ booting \in BOOLEAN /\ busy \in BOOLEAN
    BY DEF Init
  <2> QED
    BY <2>1, <2>3, <2>4, <2>5, <2>6 DEF TypeOK
<1>2. OneReader /\ FramesNamed
  BY EmptySeq DEF Init, OneReader, FramesNamed
<1> QED
  BY <1>1, <1>2 DEF BaseInv

\* The reader's steps.
LEMMA BaseReader ==
  ASSUME BaseInv, ReaderStep
  PROVE  BaseInv'
<1> USE DEF BaseInv, peer, host
<1>1. CASE CommandOk
  <2>1. Reading("command") /\ ReadLine /\ Leave /\ Answer(Top.cmd, Ok, Head(rx).cmd, 0)
    BY <1>1 DEF CommandOk
  <2>2. /\ UNCHANGED <<tx, serving, booting, raised, reboots, issued, polls,
                      handled, claimed, skipped>>
    BY <1>1 DEF CommandOk
  <2>3. calls # <<>> /\ Top.cmd \in Commands /\ Head(rx) \in Line /\ rx' \in Seq(Line)
    BY <2>1, ReadingTop, ReadType
  <2>4. Ok \in Returns /\ Head(rx).cmd \in {0} \cup Commands
    BY <2>3 DEF Returns, Line
  <2>5. /\ DOMAIN answers' \subseteq Commands
        /\ \A d \in DOMAIN answers' :
              answers'[d] \in [rc : Returns, terminal : {0} \cup Commands,
                              code : {0} \cup Commands]
    BY <2>1, <2>3, <2>4, AnswerType
  <2>6. calls' \in Seq(Frame) /\ busy' \in BOOLEAN /\ OneReader' /\ FramesNamed'
    BY <2>1, <2>3, LeaveOne
  <2> QED
    BY <2>2, <2>3, <2>5, <2>6 DEF TypeOK
<1>2. CASE CommandError
  <2>1. /\ Reading("command") /\ ReadLine /\ Leave
        /\ Answer(Top.cmd, IF Top.mterr > 0 THEN Coded ELSE Plain, Head(rx).cmd, Top.mterr)
    BY <1>2 DEF CommandError
  <2>2. /\ UNCHANGED <<tx, serving, booting, raised, reboots, issued, polls,
                      handled, claimed, skipped>>
    BY <1>2 DEF CommandError
  <2>3. /\ calls # <<>> /\ Top.cmd \in Commands /\ Top \in Frame
        /\ Head(rx) \in Line /\ rx' \in Seq(Line)
    BY <2>1, ReadingTop, ReadType
  <2>4. /\ (IF Top.mterr > 0 THEN Coded ELSE Plain) \in Returns
        /\ Head(rx).cmd \in {0} \cup Commands /\ Top.mterr \in {0} \cup Commands
    BY <2>3 DEF Returns, Line, Frame
  <2>5. /\ DOMAIN answers' \subseteq Commands
        /\ \A d \in DOMAIN answers' :
              answers'[d] \in [rc : Returns, terminal : {0} \cup Commands,
                              code : {0} \cup Commands]
    BY <2>1, <2>3, <2>4, AnswerType
  <2>6. calls' \in Seq(Frame) /\ busy' \in BOOLEAN /\ OneReader' /\ FramesNamed'
    BY <2>1, <2>3, LeaveOne
  <2> QED
    BY <2>2, <2>3, <2>5, <2>6 DEF TypeOK
<1>3. CASE CommandMterr
  <2>1. Reading("command") /\ ReadLine
    BY <1>3 DEF CommandMterr
  <2>2. /\ UNCHANGED <<tx, serving, booting, raised, reboots, busy, issued, polls,
                      answers, handled, claimed, skipped>>
    BY <1>3 DEF CommandMterr
  <2> DEFINE f == [Top EXCEPT !.mterr = Head(rx).cmd]
  <2>3. /\ calls # <<>> /\ Top.cmd \in Commands /\ Top \in Frame /\ Top = calls[Len(calls)]
        /\ Head(rx) \in Line /\ rx' \in Seq(Line)
    BY <2>1, ReadingTop, ReadType
  <2>4. f \in Frame /\ f.cmd \in Commands
    BY <2>3 DEF Frame, Line
  <2>5. calls' = [calls EXCEPT ![Len(calls)] = f]
    BY <1>3, <2>3 DEF CommandMterr
  <2> HIDE DEF f
  <2>6. calls' \in Seq(Frame) /\ OneReader' /\ FramesNamed'
    BY <2>2, <2>3, <2>4, <2>5, KeepOne
  <2> QED
    BY <2>2, <2>3, <2>6 DEF TypeOK
<1>4. CASE CommandURC
  <2>1. Reading("command") /\ ReadLine /\ Dispatch(Head(rx))
    BY <1>4 DEF CommandURC
  <2>2. /\ UNCHANGED <<tx, serving, booting, raised, reboots, busy, issued, polls,
                      answers, claimed, skipped>>
    BY <1>4 DEF CommandURC
  <2>3. calls # <<>> /\ Head(rx) \in Line /\ rx' \in Seq(Line)
    BY <2>1, ReadingTop, ReadType
  <2>4. handled' \in Seq(Line) /\ calls' \in Seq(Frame) /\ OneReader' /\ FramesNamed'
    BY <2>1, <2>2, <2>3, DispatchType
  <2> QED
    BY <2>2, <2>3, <2>4 DEF TypeOK
<1>5. CASE CommandResult
  <2>1. Reading("command") /\ ReadLine
    BY <1>5 DEF CommandResult
  <2>2. /\ UNCHANGED <<tx, serving, booting, raised, reboots, calls, busy, issued, polls,
                      answers, handled, skipped>>
    BY <1>5 DEF CommandResult
  <2>3. /\ Top.cmd \in Commands /\ Top \in Frame
        /\ Head(rx) \in Line /\ rx' \in Seq(Line)
    BY <2>1, ReadingTop, ReadType
  <2>4. claimed' \subseteq [event : Events, cmd : Commands, attrRead : BOOLEAN]
    <3>1. CASE Head(rx).event = 0
      BY <1>5, <3>1 DEF CommandResult, TypeOK
    <3>2. CASE Head(rx).event # 0
      <4>1. [event |-> Head(rx).event, cmd |-> Top.cmd, attrRead |-> Top.attrRead]
              \in [event : Events, cmd : Commands, attrRead : BOOLEAN]
        BY <2>3, <3>2 DEF Line, Frame
      <4> QED
        BY <1>5, <3>2, <4>1 DEF CommandResult, TypeOK
    <3> QED
      BY <3>1, <3>2
  <2> QED
    BY <2>2, <2>3, <2>4 DEF TypeOK, OneReader, FramesNamed
<1>6. CASE CommandTimeout
  <2>1. Reading("command") /\ Leave /\ Answer(Top.cmd, TimedOut, 0, 0)
    BY <1>6 DEF CommandTimeout
  <2>2. /\ UNCHANGED <<rx, tx, serving, booting, raised, reboots, issued, polls,
                      handled, claimed, skipped>>
    BY <1>6 DEF CommandTimeout
  <2>3. calls # <<>> /\ Top.cmd \in Commands
    BY <2>1, ReadingTop
  <2>4. TimedOut \in Returns
    BY DEF Returns
  <2>5. /\ DOMAIN answers' \subseteq Commands
        /\ \A d \in DOMAIN answers' :
              answers'[d] \in [rc : Returns, terminal : {0} \cup Commands,
                              code : {0} \cup Commands]
    BY <2>1, <2>3, <2>4, AnswerType
  <2>6. calls' \in Seq(Frame) /\ busy' \in BOOLEAN /\ OneReader' /\ FramesNamed'
    BY <2>1, <2>3, LeaveOne
  <2> QED
    BY <2>2, <2>5, <2>6 DEF TypeOK
<1>7. CASE PollLine
  <2>1. Reading("poll") /\ ReadLine
    BY <1>7 DEF PollLine
  <2>2. /\ UNCHANGED <<tx, serving, booting, raised, reboots, busy, issued, polls,
                      answers, claimed, skipped>>
    BY <1>7 DEF PollLine
  <2>3. calls # <<>> /\ Head(rx) \in Line /\ rx' \in Seq(Line)
    BY <2>1, ReadingTop, ReadType
  <2>4. CASE Dispatch(Head(rx))
    <3>1. handled' \in Seq(Line) /\ calls' \in Seq(Frame) /\ OneReader' /\ FramesNamed'
      BY <2>2, <2>3, <2>4, DispatchType
    <3> QED
      BY <2>2, <2>3, <3>1 DEF TypeOK
  <2>5. CASE UNCHANGED <<handled, calls>>
    BY <2>2, <2>3, <2>5 DEF TypeOK, OneReader, FramesNamed
  <2> QED
    BY <1>7, <2>4, <2>5 DEF PollLine
<1>8. CASE PollEnd \/ WaitReadyTimeout
  <2>1. calls # <<>> /\ Leave
    BY <1>8 DEF PollEnd, WaitReadyTimeout, Reading
  <2>2. /\ UNCHANGED <<rx, tx, serving, booting, raised, reboots, issued, polls, answers,
                      handled, claimed, skipped>>
    BY <1>8 DEF PollEnd, WaitReadyTimeout
  <2>3. calls' \in Seq(Frame) /\ busy' \in BOOLEAN /\ OneReader' /\ FramesNamed'
    BY <2>1, LeaveOne
  <2> QED
    BY <2>2, <2>3 DEF TypeOK
<1>9. CASE WaitReadyMarker
  <2>1. Reading("waitReady") /\ ReadLine /\ Dispatch(Head(rx))
    BY <1>9 DEF WaitReadyMarker
  <2>2. /\ UNCHANGED <<tx, serving, booting, raised, reboots, busy, issued, polls,
                      answers, claimed, skipped>>
    BY <1>9 DEF WaitReadyMarker
  <2>3. calls # <<>> /\ Head(rx) \in Line /\ rx' \in Seq(Line)
    BY <2>1, ReadingTop, ReadType
  <2>4. handled' \in Seq(Line) /\ calls' \in Seq(Frame) /\ OneReader' /\ FramesNamed'
    BY <2>1, <2>2, <2>3, DispatchType
  <2> QED
    BY <2>2, <2>3, <2>4 DEF TypeOK
<1>10. CASE WaitReadySkip
  <2>1. ReadLine
    BY <1>10 DEF WaitReadySkip
  <2>2. /\ UNCHANGED <<tx, serving, booting, raised, reboots, calls, busy, issued, polls,
                      answers, handled, claimed>>
    BY <1>10 DEF WaitReadySkip
  <2>3. Head(rx) \in Line /\ rx' \in Seq(Line)
    BY <2>1, ReadType
  <2>4. skipped' \subseteq Events
    BY <1>10, <2>3 DEF WaitReadySkip, TypeOK, Line
  <2> QED
    BY <2>2, <2>3, <2>4 DEF TypeOK, OneReader, FramesNamed
<1> QED
  BY <1>1, <1>2, <1>3, <1>4, <1>5, <1>6, <1>7, <1>8, <1>9, <1>10 DEF ReaderStep

\* Calls into the link, and the return of a callback.
LEMMA BaseCalls ==
  ASSUME BaseInv,
         ReadAttribute \/ OtherCommand \/ Poll \/ WaitReady \/ FlushInput \/ CallbackReturns
  PROVE  BaseInv'
<1> USE DEF BaseInv, peer, host
<1>1. CASE ReadAttribute \/ OtherCommand
  <2>1. PICK a \in BOOLEAN : Command(a)
    BY <1>1 DEF ReadAttribute, OtherCommand
  <2>2. /\ CanCall /\ issued' = issued + 1 /\ issued < MaxCommands
        /\ UNCHANGED <<rx, serving, booting, raised, reboots, polls, handled, claimed, skipped>>
    BY <2>1 DEF Command
  <2>3. issued' \in Commands /\ issued' \in 0 .. MaxCommands
    BY <2>2, BoundsAssumption DEF TypeOK, Commands, BoundsAssumption
  <2>4. CASE CommandGuard
    <3>1. /\ tx' = Append(tx, [cmd |-> issued', attrRead |-> a])
          /\ Enter("command", issued', a) /\ UNCHANGED answers
      BY <2>1, <2>4 DEF Command
    <3>2. tx' \in Seq([cmd : Commands, attrRead : BOOLEAN])
      BY <2>3, <3>1, AppendProperties DEF TypeOK
    <3>3. ~busy
      BY <2>4 DEF CommandGuard
    <3>4. "command" \in Reader /\ issued' \in {0} \cup Commands
      BY <2>3 DEF Reader
    <3>5. calls' \in Seq(Frame) /\ OneReader' /\ FramesNamed' /\ busy' \in BOOLEAN
      BY <2>2, <2>3, <3>1, <3>3, <3>4, EnterOne
    <3> QED
      BY <2>2, <2>3, <3>1, <3>2, <3>5 DEF TypeOK
  <2>5. CASE ~CommandGuard
    <3>1. Answer(issued', Reentrant, 0, 0) /\ UNCHANGED <<tx, calls, busy>>
      BY <2>1, <2>5 DEF Command
    <3>2. Reentrant \in Returns
      BY DEF Returns
    <3>3. /\ DOMAIN answers' \subseteq Commands
          /\ \A d \in DOMAIN answers' :
                answers'[d] \in [rc : Returns, terminal : {0} \cup Commands,
                                code : {0} \cup Commands]
      BY <2>3, <3>1, <3>2, AnswerType
    <3> QED
      BY <2>2, <2>3, <3>1, <3>3 DEF TypeOK, OneReader, FramesNamed
  <2> QED
    BY <2>4, <2>5
<1>2. CASE Poll \/ WaitReady
  <2>1. PICK r \in {"poll", "waitReady"} : Enter(r, 0, FALSE)
    BY <1>2 DEF Poll, WaitReady
  <2>2. /\ CanCall /\ ~busy /\ polls' = polls + 1 /\ polls < MaxCalls
        /\ UNCHANGED <<rx, tx, serving, booting, raised, reboots, issued, answers,
                      handled, claimed, skipped>>
    BY <1>2 DEF Poll, WaitReady
  <2>3. polls' \in 0 .. MaxCalls
    BY <2>2, BoundsAssumption DEF TypeOK, BoundsAssumption
  <2>4. r \in Reader /\ r # "command"
    BY DEF Reader
  <2>5. calls' \in Seq(Frame) /\ OneReader' /\ FramesNamed' /\ busy' \in BOOLEAN
    BY <2>1, <2>2, <2>4, EnterOne
  <2> QED
    BY <2>2, <2>3, <2>5 DEF TypeOK
<1>3. CASE FlushInput
  <2>1. /\ rx' = <<>> /\ tx' = <<>> /\ serving' = 0 /\ booting' = TRUE
        /\ reboots' = reboots + 1 /\ reboots < MaxReboots
        /\ UNCHANGED <<raised, calls, busy, issued, polls, answers, handled, claimed>>
    BY <1>3 DEF FlushInput
  <2>2. reboots' \in 0 .. MaxReboots
    BY <2>1, BoundsAssumption DEF TypeOK, BoundsAssumption
  <2>3. \A i \in DOMAIN rx : rx[i] \in Line
    BY ElementOfSeq, LenProperties DEF TypeOK
  <2>4. skipped' \subseteq Events
    BY <1>3, <2>3 DEF FlushInput, TypeOK, Line
  <2>5. rx' \in Seq(Line) /\ tx' \in Seq([cmd : Commands, attrRead : BOOLEAN])
    BY <2>1, EmptySeq
  <2> QED
    BY <2>1, <2>2, <2>4, <2>5 DEF TypeOK, OneReader, FramesNamed
<1>4. CASE CallbackReturns
  <2>1. calls # <<>>
    BY <1>4 DEF CallbackReturns
  <2>2. UNCHANGED <<rx, tx, serving, booting, raised, reboots, issued, polls, answers,
                    handled, claimed, skipped>>
    BY <1>4 DEF CallbackReturns
  <2>3. CASE Top.reader = "waitReady"
    <3>1. calls' \in Seq(Frame) /\ busy' \in BOOLEAN /\ OneReader' /\ FramesNamed'
      BY <1>4, <2>1, <2>3, LeaveOne DEF CallbackReturns
    <3> QED
      BY <2>2, <3>1 DEF TypeOK
  <2>4. CASE Top.reader # "waitReady"
    <3> DEFINE f == [Top EXCEPT !.inCallback = FALSE]
    <3>1. DOMAIN calls = {1} /\ Top = calls[1] /\ Top \in Frame /\ Len(calls) = 1
      BY <2>1, OneFrame
    <3>2. f \in Frame /\ (f.reader = "command" => f.cmd \in Commands)
      BY <3>1 DEF Frame, FramesNamed
    <3>3. calls' = [calls EXCEPT ![Len(calls)] = f] /\ UNCHANGED busy
      BY <1>4, <2>4, <3>1 DEF CallbackReturns, Top
    <3> HIDE DEF f
    <3>4. calls' \in Seq(Frame) /\ OneReader' /\ FramesNamed'
      BY <2>1, <3>2, <3>3, KeepOne
    <3> QED
      BY <2>2, <3>3, <3>4 DEF TypeOK
  <2> QED
    BY <2>3, <2>4
<1> QED
  BY <1>1, <1>2, <1>3, <1>4

\* The co-processor sends well-typed lines.
LEMMA SendType ==
  ASSUME TypeOK, NEW lines \in Seq(Line), Send(lines)
  PROVE  rx' \in Seq(Line)
  BY ConcatProperties DEF TypeOK, Send

LEMMA LineSeqs ==
  /\ \A l \in Line : <<l>> \in Seq(Line)
  /\ \A l, m \in Line : <<l, m>> \in Seq(Line)
<1>1. \A l \in Line : <<l>> = Append(<<>>, l)
  OBVIOUS
<1>2. \A l, m \in Line : <<l, m>> = Append(<<l>>, m)
  OBVIOUS
<1>3. \A l \in Line : <<l>> \in Seq(Line)
  BY <1>1, EmptySeq, AppendProperties
<1> QED
  BY <1>2, <1>3, AppendProperties

LEMMA BaseCoproc ==
  ASSUME BaseInv,
         CoprocTakes \/ CoprocOk \/ CoprocError \/ CoprocRaises \/ CoprocReboots \/ CoprocReady
  PROVE  BaseInv'
<1> USE DEF BaseInv, peer, host
<1>0. /\ calls' = calls /\ busy' = busy
      /\ UNCHANGED <<issued, polls, answers, handled, claimed, skipped>>
  BY DEF CoprocTakes, CoprocOk, CoprocError, CoprocRaises, CoprocReboots, CoprocReady
<1>a. OneReader' /\ FramesNamed'
  BY <1>0 DEF OneReader, FramesNamed
<1>b. \A t \in Texts : [text |-> t, cmd |-> serving, event |-> 0] \in Line
  BY DEF TypeOK, Line
<1>c. \A t \in Texts : [text |-> t, cmd |-> 0, event |-> 0] \in Line
  BY DEF Line
<1>1. CASE CoprocTakes
  <2>1. /\ tx # <<>> /\ serving' = Head(tx).cmd /\ tx' = Tail(tx)
        /\ UNCHANGED <<booting, raised, reboots>>
    BY <1>1 DEF CoprocTakes
  <2>2. Head(tx) \in [cmd : Commands, attrRead : BOOLEAN]
        /\ tx' \in Seq([cmd : Commands, attrRead : BOOLEAN])
    BY <2>1, HeadTailProperties DEF TypeOK
  <2>3. rx' \in Seq(Line)
    <3>1. CASE UNCHANGED rx
      BY <3>1 DEF TypeOK
    <3>2. CASE Send(<<[text |-> IF Head(tx).attrRead THEN "+MTATTR" ELSE "+MTEP",
                       cmd |-> Head(tx).cmd, event |-> 0]>>)
      <4>1. [text |-> IF Head(tx).attrRead THEN "+MTATTR" ELSE "+MTEP",
             cmd |-> Head(tx).cmd, event |-> 0] \in Line
        BY <2>2 DEF Line, Texts
      <4> QED
        BY <3>2, <4>1, LineSeqs, SendType
    <3> QED
      BY <1>1, <3>1, <3>2 DEF CoprocTakes
  <2> QED
    BY <1>0, <1>a, <2>1, <2>2, <2>3 DEF TypeOK
<1>2. CASE CoprocOk \/ CoprocError
  <2>1. serving' = 0 /\ UNCHANGED <<tx, booting, raised, reboots>>
    BY <1>2 DEF CoprocOk, CoprocError
  <2>2. Reply("OK") \in Line /\ Reply("ERROR") \in Line /\ Reply("+MTERR") \in Line
    BY <1>b DEF Reply, Texts
  <2>3. rx' \in Seq(Line)
    <3>1. \/ Send(<<Reply("OK")>>) \/ Send(<<Reply("ERROR")>>)
          \/ Send(<<Reply("+MTERR"), Reply("ERROR")>>)
      BY <1>2 DEF CoprocOk, CoprocError
    <3> QED
      BY <2>2, <3>1, LineSeqs, SendType
  <2> QED
    BY <1>0, <1>a, <2>1, <2>3 DEF TypeOK
<1>3. CASE CoprocRaises
  <2>1. /\ raised < MaxEvents /\ raised' = raised + 1
        /\ UNCHANGED <<tx, serving, booting, reboots>>
    BY <1>3 DEF CoprocRaises
  <2>2. raised' \in Events /\ raised' \in 0 .. MaxEvents
    BY <2>1, BoundsAssumption DEF TypeOK, Events, BoundsAssumption
  <2>3. PICK text \in {"+MTEVT", "+MTATTR"} : Send(<<[text |-> text, cmd |-> 0, event |-> raised']>>)
    BY <1>3 DEF CoprocRaises
  <2>4. [text |-> text, cmd |-> 0, event |-> raised'] \in Line
    BY <2>2 DEF Line, Texts
  <2>5. rx' \in Seq(Line)
    BY <2>3, <2>4, LineSeqs, SendType
  <2> QED
    BY <1>0, <1>a, <2>1, <2>2, <2>5 DEF TypeOK
<1>4. CASE CoprocReboots
  <2>1. /\ Send(<<[text |-> "boot noise", cmd |-> 0, event |-> 0]>>)
        /\ tx' = <<>> /\ serving' = 0 /\ booting' = TRUE
        /\ reboots' = reboots + 1 /\ reboots < MaxReboots /\ UNCHANGED raised
    BY <1>4 DEF CoprocReboots
  <2>2. reboots' \in 0 .. MaxReboots
    <3>1. reboots' = reboots + 1 /\ reboots < MaxReboots
      BY <2>1
    <3>2. reboots \in 0 .. MaxReboots /\ MaxReboots \in Nat
      BY BoundsAssumption DEF TypeOK, BoundsAssumption
    <3> QED
      BY <3>1, <3>2
  <2>3. rx' \in Seq(Line)
    BY <1>c, <2>1, LineSeqs, SendType DEF Texts
  <2>4. tx' \in Seq([cmd : Commands, attrRead : BOOLEAN])
    BY <2>1, EmptySeq
  <2> QED
    BY <1>0, <1>a, <2>1, <2>2, <2>3, <2>4 DEF TypeOK
<1>5. CASE CoprocReady
  <2>1. /\ Send(<<[text |-> "+MTREADY", cmd |-> 0, event |-> 0]>>)
        /\ booting' = FALSE /\ UNCHANGED <<tx, serving, raised, reboots>>
    BY <1>5 DEF CoprocReady
  <2>2. rx' \in Seq(Line)
    BY <1>c, <2>1, LineSeqs, SendType DEF Texts
  <2> QED
    BY <1>0, <1>a, <2>1, <2>2 DEF TypeOK
<1> QED
  BY <1>1, <1>2, <1>3, <1>4, <1>5

LEMMA BaseStep == BaseInv /\ [Next]_vars => BaseInv'
<1> SUFFICES ASSUME BaseInv, [Next]_vars PROVE BaseInv'
  OBVIOUS
<1>1. CASE UNCHANGED vars
  BY <1>1 DEF vars, host, peer, BaseInv, TypeOK, OneReader, FramesNamed
<1>2. CASE Next
  BY <1>2, BaseReader, BaseCalls, BaseCoproc DEF Next
<1> QED
  BY <1>1, <1>2

\* Every variable keeps its type: in particular a record of what a command
\* returned is only ever made for a command that was issued.
THEOREM LinkTypeOK == Spec => []TypeOK
<1>1. Init => BaseInv
  BY BaseInit
<1>2. BaseInv /\ [Next]_vars => BaseInv'
  BY BaseStep
<1>3. BaseInv => TypeOK
  BY DEF BaseInv
<1> QED
  BY <1>1, <1>2, <1>3, PTL DEF Spec

\* However deep callbacks call back into the link, one reader owns the stream
\* and _busy says so (HearthLink.cpp:139).
THEOREM LinkOneReader == Spec => []OneReader
<1>1. Init => BaseInv
  BY BaseInit
<1>2. BaseInv /\ [Next]_vars => BaseInv'
  BY BaseStep
<1>3. BaseInv => OneReader
  BY DEF BaseInv
<1> QED
  BY <1>1, <1>2, <1>3, PTL DEF Spec

---------------------------------------------------------------------------
(* URCs reach the handler in the order they were raised.  What was handed  *)
(* over, followed by what still waits, is one increasing stream.           *)

Increasing(s) ==
  \A i, j \in DOMAIN s :
    i < j /\ s[i].event # 0 /\ s[j].event # 0 => s[i].event < s[j].event

Before(s, t) ==
  \A i \in DOMAIN s, j \in DOMAIN t :
    s[i].event # 0 /\ t[j].event # 0 => s[i].event < t[j].event

RaisedBy(s, n) == \A i \in DOMAIN s : s[i].event <= n

StreamOrder == /\ Increasing(handled) /\ Increasing(rx) /\ Before(handled, rx)
               /\ RaisedBy(handled, raised) /\ RaisedBy(rx, raised)

LEMMA TailOrder ==
  ASSUME NEW h \in Seq(Line), NEW s \in Seq(Line), s # <<>>, NEW n,
         Increasing(s), Before(h, s), RaisedBy(s, n)
  PROVE  Increasing(Tail(s)) /\ Before(h, Tail(s)) /\ RaisedBy(Tail(s), n)
<1>1. /\ Tail(s) \in Seq(Line) /\ Len(Tail(s)) = Len(s) - 1
      /\ \A i \in 1 .. Len(Tail(s)) : Tail(s)[i] = s[i + 1]
  BY HeadTailProperties
<1>2. DOMAIN Tail(s) = 1 .. Len(Tail(s)) /\ DOMAIN s = 1 .. Len(s) /\ Len(s) \in Nat
  BY <1>1, LenProperties
<1>3. \A i \in DOMAIN Tail(s) : i \in Nat /\ i + 1 \in DOMAIN s /\ Tail(s)[i] = s[i + 1]
  BY <1>1, <1>2
<1>4. Increasing(Tail(s))
  BY <1>3 DEF Increasing
<1>5. Before(h, Tail(s)) /\ RaisedBy(Tail(s), n)
  BY <1>3 DEF Before, RaisedBy
<1> QED
  BY <1>4, <1>5

\* The line read becomes the last one handed over.
LEMMA HandOver ==
  ASSUME NEW h \in Seq(Line), NEW s \in Seq(Line), s # <<>>, NEW n,
         Increasing(h), Increasing(s), Before(h, s), RaisedBy(h, n), RaisedBy(s, n)
  PROVE  /\ Increasing(Append(h, Head(s))) /\ Before(Append(h, Head(s)), Tail(s))
         /\ RaisedBy(Append(h, Head(s)), n)
<1> DEFINE g == Append(h, Head(s))
<1>1. /\ Tail(s) \in Seq(Line) /\ Len(Tail(s)) = Len(s) - 1 /\ Head(s) \in Line
      /\ \A i \in 1 .. Len(Tail(s)) : Tail(s)[i] = s[i + 1]
  BY HeadTailProperties
<1>2. /\ DOMAIN Tail(s) = 1 .. Len(Tail(s)) /\ DOMAIN s = 1 .. Len(s) /\ Len(s) \in Nat
      /\ DOMAIN h = 1 .. Len(h) /\ Len(h) \in Nat
  BY <1>1, LenProperties
<1>3. \A i \in DOMAIN Tail(s) : i \in Nat /\ i + 1 \in DOMAIN s /\ Tail(s)[i] = s[i + 1] /\ 1 < i + 1
  BY <1>1, <1>2
<1>4. 1 \in DOMAIN s /\ Head(s) = s[1]
  BY <1>2, EmptySeq
<1>5. /\ g \in Seq(Line) /\ Len(g) = Len(h) + 1 /\ g[Len(h) + 1] = Head(s)
      /\ \A i \in 1 .. Len(h) : g[i] = h[i]
  BY <1>1, AppendProperties
<1>6. DOMAIN g = 1 .. Len(h) + 1
  BY <1>5, LenProperties
<1> HIDE DEF g
<1>7. \A i \in DOMAIN g : (i \in DOMAIN h /\ g[i] = h[i]) \/ (i = Len(h) + 1 /\ g[i] = s[1])
  BY <1>2, <1>4, <1>5, <1>6
<1>8. \A i \in DOMAIN h : i < Len(h) + 1 /\ i \in Nat
  BY <1>2
<1>9. Increasing(g)
  <2> SUFFICES ASSUME NEW i \in DOMAIN g, NEW j \in DOMAIN g, i < j,
                      g[i].event # 0, g[j].event # 0
               PROVE  g[i].event < g[j].event
    BY DEF Increasing
  <2>1. i \in DOMAIN h /\ g[i] = h[i]
    BY <1>2, <1>6, <1>7
  <2>2. CASE j \in DOMAIN h /\ g[j] = h[j]
    BY <2>1, <2>2 DEF Increasing
  <2>3. CASE g[j] = s[1]
    BY <1>4, <2>1, <2>3 DEF Before
  <2> QED
    BY <1>7, <2>2, <2>3
<1>10. Before(g, Tail(s))
  <2> SUFFICES ASSUME NEW i \in DOMAIN g, NEW j \in DOMAIN Tail(s),
                      g[i].event # 0, Tail(s)[j].event # 0
               PROVE  g[i].event < Tail(s)[j].event
    BY DEF Before
  <2>1. CASE i \in DOMAIN h /\ g[i] = h[i]
    BY <1>3, <2>1 DEF Before
  <2>2. CASE g[i] = s[1]
    BY <1>3, <1>4, <2>2 DEF Increasing
  <2> QED
    BY <1>7, <2>1, <2>2
<1>11. RaisedBy(g, n)
  BY <1>4, <1>7 DEF RaisedBy
<1> QED
  BY <1>9, <1>10, <1>11 DEF g

\* Lines the co-processor sends that announce nothing.
LEMMA SendQuiet ==
  ASSUME NEW h \in Seq(Line), NEW s \in Seq(Line), NEW lines \in Seq(Line), NEW n \in Nat,
         \A i \in DOMAIN lines : lines[i].event = 0,
         Increasing(s), Before(h, s), RaisedBy(s, n)
  PROVE  /\ Increasing(s \o lines) /\ Before(h, s \o lines) /\ RaisedBy(s \o lines, n)
<1> DEFINE t == s \o lines
<1>1. /\ t \in Seq(Line) /\ Len(t) = Len(s) + Len(lines)
      /\ \A i \in 1 .. Len(s) + Len(lines) :
           t[i] = IF i <= Len(s) THEN s[i] ELSE lines[i - Len(s)]
  BY ConcatProperties
<1>2. /\ DOMAIN t = 1 .. Len(s) + Len(lines) /\ DOMAIN s = 1 .. Len(s)
      /\ DOMAIN lines = 1 .. Len(lines) /\ Len(s) \in Nat /\ Len(lines) \in Nat
  BY <1>1, LenProperties
<1> HIDE DEF t
<1>3. \A i \in DOMAIN t : (i \in DOMAIN s /\ t[i] = s[i]) \/ t[i].event = 0
  <2> SUFFICES ASSUME NEW i \in DOMAIN t
               PROVE  (i \in DOMAIN s /\ t[i] = s[i]) \/ t[i].event = 0
    OBVIOUS
  <2>1. CASE i <= Len(s)
    BY <1>1, <1>2, <2>1
  <2>2. CASE ~(i <= Len(s))
    <3>1. i - Len(s) \in DOMAIN lines
      BY <1>2, <2>2
    <3>2. t[i] = lines[i - Len(s)]
      BY <1>1, <1>2, <2>2
    <3> QED
      BY <3>1, <3>2
  <2> QED
    BY <2>1, <2>2
<1>4. Increasing(t) /\ Before(h, t)
  BY <1>3 DEF Increasing, Before
<1>5. RaisedBy(t, n)
  BY <1>3 DEF RaisedBy
<1> QED
  BY <1>4, <1>5 DEF t

\* The next URC is numbered above every other.
LEMMA SendRaised ==
  ASSUME NEW h \in Seq(Line), NEW s \in Seq(Line), NEW l \in Line, NEW n \in Nat,
         l.event = n + 1,
         Increasing(s), Before(h, s), RaisedBy(s, n), RaisedBy(h, n)
  PROVE  /\ Increasing(Append(s, l)) /\ Before(h, Append(s, l))
         /\ RaisedBy(Append(s, l), n + 1) /\ RaisedBy(h, n + 1)
<1> DEFINE t == Append(s, l)
<1>1. /\ t \in Seq(Line) /\ Len(t) = Len(s) + 1 /\ t[Len(s) + 1] = l
      /\ \A i \in 1 .. Len(s) : t[i] = s[i]
  BY AppendProperties
<1>2. DOMAIN t = 1 .. Len(s) + 1 /\ DOMAIN s = 1 .. Len(s) /\ Len(s) \in Nat
  BY <1>1, LenProperties
<1> HIDE DEF t
<1>3. \A i \in DOMAIN t : (i \in DOMAIN s /\ t[i] = s[i]) \/ (i = Len(s) + 1 /\ t[i] = l)
  BY <1>1, <1>2
<1>4. \A i \in DOMAIN s : s[i].event \in Int /\ i < Len(s) + 1
  <2>1. \A i \in DOMAIN s : s[i] \in Line
    BY <1>2, ElementOfSeq
  <2> QED
    BY <1>2, <2>1 DEF Line, Events
<1>5. \A i \in DOMAIN h : h[i].event \in Int
  <2>1. \A i \in DOMAIN h : h[i] \in Line
    BY LenProperties, ElementOfSeq
  <2> QED
    BY <2>1 DEF Line, Events
<1>6. Increasing(t)
  <2> SUFFICES ASSUME NEW i \in DOMAIN t, NEW j \in DOMAIN t, i < j,
                      t[i].event # 0, t[j].event # 0
               PROVE  t[i].event < t[j].event
    BY DEF Increasing
  <2>1. i \in DOMAIN s /\ t[i] = s[i]
    BY <1>2, <1>3
  <2>2. CASE j \in DOMAIN s /\ t[j] = s[j]
    BY <2>1, <2>2 DEF Increasing
  <2>3. CASE t[j] = l
    BY <1>4, <2>1, <2>3 DEF RaisedBy
  <2> QED
    BY <1>3, <2>2, <2>3
<1>7. Before(h, t)
  <2> SUFFICES ASSUME NEW i \in DOMAIN h, NEW j \in DOMAIN t,
                      h[i].event # 0, t[j].event # 0
               PROVE  h[i].event < t[j].event
    BY DEF Before
  <2>1. CASE j \in DOMAIN s /\ t[j] = s[j]
    BY <2>1 DEF Before
  <2>2. CASE t[j] = l
    BY <1>5, <2>2 DEF RaisedBy
  <2> QED
    BY <1>3, <2>1, <2>2
<1>8. RaisedBy(t, n + 1)
  BY <1>3, <1>4 DEF RaisedBy
<1>9. RaisedBy(h, n + 1)
  BY <1>5 DEF RaisedBy
<1> QED
  BY <1>6, <1>7, <1>8, <1>9 DEF t

LEMMA StreamInit == Init => StreamOrder
  BY EmptySeq DEF Init, StreamOrder, Increasing, Before, RaisedBy

LEMMA StreamStep ==
  ASSUME BaseInv, StreamOrder, [Next]_vars
  PROVE  StreamOrder'
<1> USE DEF host, peer
<1>0. rx \in Seq(Line) /\ handled \in Seq(Line) /\ raised \in Nat
  BY BoundsAssumption DEF BaseInv, TypeOK, BoundsAssumption
<1>1. CASE UNCHANGED <<rx, handled, raised>>
  BY <1>1 DEF StreamOrder, Increasing, Before, RaisedBy
<1>2. CASE ReadLine /\ UNCHANGED <<handled, raised>>
  <2>1. Increasing(Tail(rx)) /\ Before(handled, Tail(rx)) /\ RaisedBy(Tail(rx), raised)
    BY <1>0, <1>2, TailOrder DEF StreamOrder, ReadLine
  <2> QED
    BY <1>2, <2>1 DEF StreamOrder, ReadLine
<1>3. CASE ReadLine /\ Dispatch(Head(rx)) /\ UNCHANGED raised
  <2>1. Increasing(Tail(rx)) /\ RaisedBy(Tail(rx), raised)
    BY <1>0, <1>3, TailOrder DEF StreamOrder, ReadLine
  <2>2. /\ Increasing(Append(handled, Head(rx))) /\ Before(Append(handled, Head(rx)), Tail(rx))
        /\ RaisedBy(Append(handled, Head(rx)), raised)
    BY <1>0, <1>3, HandOver DEF StreamOrder, ReadLine
  <2> QED
    BY <1>3, <2>1, <2>2 DEF StreamOrder, ReadLine, Dispatch
<1>4. CASE rx' = <<>> /\ UNCHANGED <<handled, raised>>
  BY <1>4 DEF StreamOrder, Increasing, Before, RaisedBy
<1>5. ASSUME NEW lines \in Seq(Line), \A i \in DOMAIN lines : lines[i].event = 0,
             Send(lines), UNCHANGED <<handled, raised>>
      PROVE  StreamOrder'
  <2>1. /\ Increasing(rx \o lines) /\ Before(handled, rx \o lines)
        /\ RaisedBy(rx \o lines, raised)
    BY <1>0, <1>5, SendQuiet DEF StreamOrder
  <2> QED
    BY <1>5, <2>1 DEF StreamOrder, Send
<1>6. CASE CoprocRaises
  <2>1. raised' = raised + 1 /\ handled' = handled /\ raised < MaxEvents
    BY <1>6 DEF CoprocRaises
  <2>2. PICK text \in {"+MTEVT", "+MTATTR"} :
          Send(<<[text |-> text, cmd |-> 0, event |-> raised']>>)
    BY <1>6 DEF CoprocRaises
  <2> DEFINE l == [text |-> text, cmd |-> 0, event |-> raised']
  <2>3. raised' \in Events
    BY <1>0, <2>1, BoundsAssumption DEF Events, BoundsAssumption
  <2>4. l \in Line /\ l.event = raised + 1
    BY <2>1, <2>3 DEF Line, Texts
  <2>5. rx' = rx \o <<l>>
    BY <2>2 DEF Send
  <2> HIDE DEF l
  <2>6. rx' = Append(rx, l)
    BY <1>0, <2>4, <2>5, AppendIsConcat
  <2>7. /\ Increasing(Append(rx, l)) /\ Before(handled, Append(rx, l))
        /\ RaisedBy(Append(rx, l), raised + 1) /\ RaisedBy(handled, raised + 1)
    BY <1>0, <2>4, SendRaised DEF StreamOrder
  <2> QED
    BY <2>1, <2>6, <2>7 DEF StreamOrder
<1>7. CASE CoprocTakes
  <2>1. tx # <<>> /\ UNCHANGED <<handled, raised>>
    BY <1>7 DEF CoprocTakes
  <2>2. Head(tx) \in [cmd : Commands, attrRead : BOOLEAN]
    BY <2>1, HeadTailProperties DEF BaseInv, TypeOK
  <2> DEFINE l == [text |-> IF Head(tx).attrRead THEN "+MTATTR" ELSE "+MTEP",
                   cmd |-> Head(tx).cmd, event |-> 0]
  <2>3. l \in Line /\ l.event = 0
    BY <2>2 DEF Line, Texts
  <2>4. Send(<<l>>) \/ UNCHANGED rx
    BY <1>7 DEF CoprocTakes
  <2> HIDE DEF l
  <2>5. <<l>> \in Seq(Line) /\ \A i \in DOMAIN <<l>> : <<l>>[i].event = 0
    BY <2>3, LineSeqs
  <2> QED
    BY <1>1, <1>5, <2>1, <2>4, <2>5
<1>8. CASE CoprocOk \/ CoprocError \/ CoprocReboots \/ CoprocReady
  <2>1. \A t \in Texts : [text |-> t, cmd |-> serving, event |-> 0] \in Line
                         /\ [text |-> t, cmd |-> 0, event |-> 0] \in Line
    BY DEF BaseInv, TypeOK, Line
  <2>2. PICK l \in Line, m \in Line :
          l.event = 0 /\ m.event = 0 /\ (Send(<<l>>) \/ Send(<<l, m>>))
    BY <1>8, <2>1 DEF CoprocOk, CoprocError, CoprocReboots, CoprocReady, Reply, Texts
  <2>3. /\ <<l>> \in Seq(Line) /\ \A i \in DOMAIN <<l>> : <<l>>[i].event = 0
        /\ <<l, m>> \in Seq(Line) /\ \A i \in DOMAIN <<l, m>> : <<l, m>>[i].event = 0
    BY <2>2, LineSeqs
  <2>4. UNCHANGED <<handled, raised>>
    BY <1>8 DEF CoprocOk, CoprocError, CoprocReboots, CoprocReady
  <2> QED
    BY <1>5, <2>2, <2>3, <2>4
<1>9. CASE ReaderStep
  <2>1. CASE CommandOk \/ CommandError \/ CommandMterr \/ CommandResult \/ WaitReadySkip
    BY <1>2, <2>1 DEF CommandOk, CommandError, CommandMterr, CommandResult, WaitReadySkip
  <2>2. CASE CommandURC \/ WaitReadyMarker
    BY <1>3, <2>2 DEF CommandURC, WaitReadyMarker
  <2>3. CASE PollLine
    BY <1>2, <1>3, <2>3 DEF PollLine
  <2>4. CASE CommandTimeout \/ PollEnd \/ WaitReadyTimeout
    BY <1>1, <2>4 DEF CommandTimeout, PollEnd, WaitReadyTimeout
  <2> QED
    BY <1>9, <2>1, <2>2, <2>3, <2>4 DEF ReaderStep
<1>10. CASE ReadAttribute \/ OtherCommand \/ Poll \/ WaitReady \/ CallbackReturns
  BY <1>1, <1>10 DEF ReadAttribute, OtherCommand, Command, Poll, WaitReady, CallbackReturns
<1>11. CASE FlushInput
  BY <1>4, <1>11 DEF FlushInput
<1>12. CASE UNCHANGED vars
  BY <1>1, <1>12 DEF vars
<1> QED
  BY <1>6, <1>7, <1>8, <1>9, <1>10, <1>11, <1>12 DEF Next

\* The handler sees each URC once and in the order they were raised, across
\* command(), poll() and waitReady(), whoever reads it (HearthLink.cpp:202,
\* 226, 264).
THEOREM LinkEventsInOrder == Spec => []EventsInOrder
<1>1. Init => BaseInv /\ StreamOrder
  BY BaseInit, StreamInit
<1>2. BaseInv /\ StreamOrder /\ [Next]_vars => (BaseInv /\ StreamOrder)'
  BY BaseStep, StreamStep
<1>3. StreamOrder => EventsInOrder
  BY DEF StreamOrder, Increasing, EventsInOrder
<1> QED
  BY <1>1, <1>2, <1>3, PTL DEF Spec

---------------------------------------------------------------------------
(* No URC disappears.  A line that announces one is an asynchronous line,  *)
(* so whoever reads it hands it over, skips it or takes it for an          *)
(* attribute read.                                                         *)

UrcTexts == \A i \in DOMAIN rx : rx[i].event # 0 => rx[i].text \in {"+MTEVT", "+MTATTR"}

DeliveredInv == EventsDelivered /\ UrcTexts

Holds(s, e) == \E i \in DOMAIN s : s[i].event = e

\* Every line of r is one of s.
Among(r, s) == \A i \in DOMAIN r : \E j \in DOMAIN s : r[i] = s[j]

LEMMA TailLines ==
  ASSUME NEW s \in Seq(Line), s # <<>>
  PROVE  /\ Tail(s) \in Seq(Line) /\ Among(Tail(s), s)
         /\ Head(s) \in Line /\ 1 \in DOMAIN s /\ Head(s) = s[1]
         /\ \A e : Holds(s, e) => e = Head(s).event \/ Holds(Tail(s), e)
         /\ \A i \in DOMAIN Tail(s) : i + 1 \in DOMAIN s /\ Tail(s)[i] = s[i + 1]
<1>1. /\ Tail(s) \in Seq(Line) /\ Len(Tail(s)) = Len(s) - 1 /\ Head(s) \in Line
      /\ \A i \in 1 .. Len(Tail(s)) : Tail(s)[i] = s[i + 1]
  BY HeadTailProperties
<1>2. /\ DOMAIN Tail(s) = 1 .. Len(Tail(s)) /\ DOMAIN s = 1 .. Len(s) /\ Len(s) \in Nat
      /\ Len(s) > 0
  BY <1>1, LenProperties, EmptySeq
<1>3. 1 \in DOMAIN s /\ Head(s) = s[1]
  BY <1>2
<1>4. \A i \in DOMAIN Tail(s) : i + 1 \in DOMAIN s /\ Tail(s)[i] = s[i + 1]
  BY <1>1, <1>2
<1>5. \A j \in DOMAIN s : j = 1 \/ (j - 1 \in DOMAIN Tail(s) /\ Tail(s)[j - 1] = s[j])
  BY <1>1, <1>2
<1>6. \A e : Holds(s, e) => e = Head(s).event \/ Holds(Tail(s), e)
  BY <1>3, <1>5 DEF Holds
<1>7. Among(Tail(s), s)
  BY <1>4 DEF Among
<1> QED
  BY <1>1, <1>3, <1>4, <1>6, <1>7

LEMMA AppendLines ==
  ASSUME NEW s \in Seq(Line), NEW l \in Line
  PROVE  /\ Append(s, l) \in Seq(Line)
         /\ Holds(Append(s, l), l.event)
         /\ \A e : Holds(s, e) => Holds(Append(s, l), e)
<1> DEFINE t == Append(s, l)
<1>1. /\ t \in Seq(Line) /\ Len(t) = Len(s) + 1 /\ t[Len(s) + 1] = l
      /\ \A i \in 1 .. Len(s) : t[i] = s[i]
  BY AppendProperties
<1>2. DOMAIN t = 1 .. Len(s) + 1 /\ DOMAIN s = 1 .. Len(s) /\ Len(s) \in Nat
  BY <1>1, LenProperties
<1> HIDE DEF t
<1>3. Len(s) + 1 \in DOMAIN t /\ \A i \in DOMAIN s : i \in DOMAIN t /\ t[i] = s[i]
  BY <1>1, <1>2
<1>4. Holds(t, l.event) /\ \A e : Holds(s, e) => Holds(t, e)
  BY <1>1, <1>3 DEF Holds
<1> QED
  BY <1>1, <1>4 DEF t

\* What is sent goes behind what waits.
LEMMA ConcatLines ==
  ASSUME NEW s \in Seq(Line), NEW lines \in Seq(Line)
  PROVE  /\ s \o lines \in Seq(Line)
         /\ \A i \in DOMAIN (s \o lines) :
              \/ i \in DOMAIN s /\ (s \o lines)[i] = s[i]
              \/ i - Len(s) \in DOMAIN lines /\ (s \o lines)[i] = lines[i - Len(s)]
         /\ \A e : Holds(s, e) \/ Holds(lines, e) => Holds(s \o lines, e)
<1> DEFINE t == s \o lines
<1>1. /\ t \in Seq(Line) /\ Len(t) = Len(s) + Len(lines)
      /\ \A i \in 1 .. Len(s) + Len(lines) :
           t[i] = IF i <= Len(s) THEN s[i] ELSE lines[i - Len(s)]
  BY ConcatProperties
<1>2. /\ DOMAIN t = 1 .. Len(s) + Len(lines) /\ DOMAIN s = 1 .. Len(s)
      /\ DOMAIN lines = 1 .. Len(lines) /\ Len(s) \in Nat /\ Len(lines) \in Nat
  BY <1>1, LenProperties
<1> HIDE DEF t
<1>3. ASSUME NEW i \in DOMAIN t
      PROVE  \/ i \in DOMAIN s /\ t[i] = s[i]
             \/ i - Len(s) \in DOMAIN lines /\ t[i] = lines[i - Len(s)]
  <2>1. CASE i <= Len(s)
    BY <1>1, <1>2, <2>1
  <2>2. CASE ~(i <= Len(s))
    <3>1. i - Len(s) \in DOMAIN lines
      BY <1>2, <2>2
    <3>2. t[i] = lines[i - Len(s)]
      BY <1>1, <1>2, <2>2
    <3> QED
      BY <3>1, <3>2
  <2> QED
    BY <2>1, <2>2
<1>4. \A i \in DOMAIN s : i \in DOMAIN t /\ t[i] = s[i]
  BY <1>1, <1>2
<1>5. ASSUME NEW j \in DOMAIN lines
      PROVE  Len(s) + j \in DOMAIN t /\ t[Len(s) + j] = lines[j]
  <2>1. Len(s) + j \in 1 .. Len(s) + Len(lines) /\ ~(Len(s) + j <= Len(s)) /\ Len(s) + j - Len(s) = j
    BY <1>2
  <2> QED
    BY <1>1, <1>2, <2>1
<1>6. \A e : Holds(s, e) \/ Holds(lines, e) => Holds(t, e)
  BY <1>4, <1>5 DEF Holds
<1> QED
  BY <1>1, <1>3, <1>6 DEF t

\* A line is read; if it announced an event, that event is somewhere else now.
LEMMA DeliveredRead ==
  ASSUME BaseInv, DeliveredInv, ReadLine, raised' = raised,
         \A e : Holds(handled, e) => Holds(handled', e),
         skipped \subseteq skipped', claimed \subseteq claimed',
         NEW l, l = Head(rx),
         l.text \in {"+MTEVT", "+MTATTR"} /\ l.event # 0
           => \/ Holds(handled', l.event) \/ l.event \in skipped'
              \/ \E x \in claimed' : x.event = l.event /\ x.attrRead
  PROVE  DeliveredInv'
<1>1. rx \in Seq(Line) /\ rx # <<>> /\ rx' = Tail(rx)
  BY DEF BaseInv, TypeOK, ReadLine
<1>2. l.event # 0 => l.text \in {"+MTEVT", "+MTATTR"}
  BY <1>1, TailLines DEF DeliveredInv, UrcTexts
<1>3. UrcTexts'
  BY <1>1, TailLines DEF DeliveredInv, UrcTexts, Among
<1>4. ASSUME NEW e \in 1 .. raised
      PROVE  \/ Holds(rx', e) \/ Holds(handled', e) \/ e \in skipped'
             \/ \E x \in claimed' : x.event = e /\ x.attrRead
  <2>1. \/ Holds(rx, e) \/ Holds(handled, e) \/ e \in skipped
        \/ \E x \in claimed : x.event = e /\ x.attrRead
    BY DEF DeliveredInv, EventsDelivered, Holds
  <2>2. CASE Holds(rx, e)
    <3>1. e = l.event \/ Holds(rx', e)
      BY <1>1, <2>2, TailLines
    <3>2. e # 0
      BY BoundsAssumption DEF BaseInv, TypeOK, BoundsAssumption
    <3> QED
      BY <1>2, <3>1, <3>2
  <2> QED
    BY <2>1, <2>2
<1>5. EventsDelivered'
  BY <1>4 DEF EventsDelivered, Holds
<1> QED
  BY <1>3, <1>5 DEF DeliveredInv

\* Lines are sent; raised grows by the event they announce, if any.
LEMMA DeliveredSend ==
  ASSUME BaseInv, DeliveredInv, NEW lines \in Seq(Line), Send(lines),
         UNCHANGED <<handled, skipped, claimed>>,
         \A i \in DOMAIN lines : lines[i].event # 0 => lines[i].text \in {"+MTEVT", "+MTATTR"},
         raised' = raised \/ (raised' = raised + 1 /\ Holds(lines, raised'))
  PROVE  DeliveredInv'
<1>1. rx \in Seq(Line) /\ rx' = rx \o lines /\ raised \in Nat
  BY BoundsAssumption DEF BaseInv, TypeOK, Send, BoundsAssumption
<1>2. UrcTexts'
  BY <1>1, ConcatLines DEF DeliveredInv, UrcTexts
<1>3. ASSUME NEW e \in 1 .. raised'
      PROVE  \/ Holds(rx', e) \/ Holds(handled', e) \/ e \in skipped'
             \/ \E x \in claimed' : x.event = e /\ x.attrRead
  <2>1. e \in 1 .. raised \/ Holds(lines, e)
    BY <1>1
  <2>2. CASE Holds(lines, e)
    BY <1>1, <2>2, ConcatLines
  <2>3. CASE e \in 1 .. raised
    <3>1. \/ Holds(rx, e) \/ Holds(handled, e) \/ e \in skipped
          \/ \E x \in claimed : x.event = e /\ x.attrRead
      BY <2>3 DEF DeliveredInv, EventsDelivered, Holds
    <3> QED
      BY <1>1, <3>1, ConcatLines
  <2> QED
    BY <2>1, <2>2, <2>3
<1>4. EventsDelivered'
  BY <1>3 DEF EventsDelivered, Holds
<1> QED
  BY <1>2, <1>4 DEF DeliveredInv

LEMMA DeliveredSame ==
  ASSUME DeliveredInv, UNCHANGED <<rx, raised, handled, skipped, claimed>>
  PROVE  DeliveredInv'
  BY DEF DeliveredInv, EventsDelivered, UrcTexts

\* Every line the co-processor sends, and nothing it sends takes one away.
LEMMA CoprocSends ==
  ASSUME BaseInv,
         CoprocTakes \/ CoprocOk \/ CoprocError \/ CoprocRaises \/ CoprocReboots \/ CoprocReady
  PROVE  /\ UNCHANGED <<calls, busy, issued, polls, answers, handled, claimed, skipped>>
         /\ \/ UNCHANGED <<rx, raised>>
            \/ \E l \in Line : l.event = 0 /\ Send(<<l>>) /\ raised' = raised
            \/ \E l, m \in Line : l.event = 0 /\ m.event = 0 /\ Send(<<l, m>>) /\ raised' = raised
            \/ \E l \in Line : /\ l.event = raised + 1 /\ l.text \in {"+MTEVT", "+MTATTR"}
                               /\ Send(<<l>>) /\ raised' = raised + 1
<1> USE DEF host, peer
<1>1. UNCHANGED <<calls, busy, issued, polls, answers, handled, claimed, skipped>>
  BY DEF CoprocTakes, CoprocOk, CoprocError, CoprocRaises, CoprocReboots, CoprocReady
<1>2. \A t \in Texts : [text |-> t, cmd |-> serving, event |-> 0] \in Line
                       /\ [text |-> t, cmd |-> 0, event |-> 0] \in Line
  BY DEF BaseInv, TypeOK, Line
<1>3. CASE CoprocTakes
  <2>1. tx # <<>> /\ raised' = raised
    BY <1>3 DEF CoprocTakes
  <2>2. Head(tx) \in [cmd : Commands, attrRead : BOOLEAN]
    BY <2>1, HeadTailProperties DEF BaseInv, TypeOK
  <2> DEFINE l == [text |-> IF Head(tx).attrRead THEN "+MTATTR" ELSE "+MTEP",
                   cmd |-> Head(tx).cmd, event |-> 0]
  <2>3. l \in Line /\ l.event = 0
    BY <2>2 DEF Line, Texts
  <2>4. Send(<<l>>) \/ UNCHANGED rx
    BY <1>3 DEF CoprocTakes
  <2> HIDE DEF l
  <2> QED
    BY <1>1, <2>1, <2>3, <2>4
<1>4. CASE CoprocOk \/ CoprocError \/ CoprocReboots \/ CoprocReady
  <2>1. raised' = raised
    BY <1>4 DEF CoprocOk, CoprocError, CoprocReboots, CoprocReady
  <2>2. PICK l \in Line, m \in Line :
          l.event = 0 /\ m.event = 0 /\ (Send(<<l>>) \/ Send(<<l, m>>))
    BY <1>2, <1>4 DEF CoprocOk, CoprocError, CoprocReboots, CoprocReady, Reply, Texts
  <2> QED
    BY <1>1, <2>1, <2>2
<1>5. CASE CoprocRaises
  <2>1. raised' = raised + 1 /\ raised < MaxEvents /\ raised \in Nat
    BY <1>5, BoundsAssumption DEF CoprocRaises, BaseInv, TypeOK, BoundsAssumption
  <2>2. PICK text \in {"+MTEVT", "+MTATTR"} :
          Send(<<[text |-> text, cmd |-> 0, event |-> raised']>>)
    BY <1>5 DEF CoprocRaises
  <2> DEFINE l == [text |-> text, cmd |-> 0, event |-> raised']
  <2>3. raised' \in Events
    BY <2>1, BoundsAssumption DEF Events, BoundsAssumption
  <2>4. l \in Line /\ l.event = raised + 1 /\ l.text \in {"+MTEVT", "+MTATTR"} /\ Send(<<l>>)
    BY <2>1, <2>2, <2>3 DEF Line, Texts
  <2> HIDE DEF l
  <2> QED
    BY <1>1, <2>1, <2>4
<1> QED
  BY <1>3, <1>4, <1>5

LEMMA DeliveredReader ==
  ASSUME BaseInv, DeliveredInv, ReaderStep
  PROVE  DeliveredInv'
<1> USE DEF host, peer
<1> DEFINE l == Head(rx)
<1>0. handled \in Seq(Line) /\ (ReadLine => l \in Line)
  BY ReadType DEF BaseInv, TypeOK
<1>1. CASE CommandOk \/ CommandError \/ CommandMterr
  <2>1. /\ ReadLine /\ UNCHANGED <<raised, handled, skipped, claimed>>
        /\ l.text \in {"OK", "ERROR", "+MTERR"}
    BY <1>1 DEF CommandOk, CommandError, CommandMterr
  <2> HIDE DEF l
  <2>2. l.text \notin {"+MTEVT", "+MTATTR"}
    BY <2>1
  <2> QED
    BY <2>1, <2>2, DeliveredRead DEF l
<1>2. CASE ReadLine /\ Dispatch(l) /\ UNCHANGED <<raised, skipped, claimed>>
  <2> HIDE DEF l
  <2>1. handled' = Append(handled, l)
    BY <1>2 DEF Dispatch
  <2>2. Holds(handled', l.event) /\ \A e : Holds(handled, e) => Holds(handled', e)
    BY <1>0, <1>2, <2>1, AppendLines
  <2> QED
    BY <1>2, <2>2, DeliveredRead DEF l
<1>3. CASE CommandURC \/ WaitReadyMarker
  BY <1>2, <1>3 DEF CommandURC, WaitReadyMarker
<1>4. CASE CommandResult
  <2>1. /\ ReadLine /\ UNCHANGED <<raised, handled, skipped, calls>>
        /\ ClaimsAttr(l) \/ ~IsAsyncURC(l)
        /\ claimed' = IF l.event = 0 THEN claimed
                      ELSE claimed \cup {[event |-> l.event, cmd |-> Top.cmd,
                                          attrRead |-> Top.attrRead]}
    BY <1>4 DEF CommandResult
  <2> HIDE DEF l
  <2>2. claimed \subseteq claimed'
    BY <2>1
  <2>3. ASSUME l.text \in {"+MTEVT", "+MTATTR"}, l.event # 0
        PROVE  \E x \in claimed' : x.event = l.event /\ x.attrRead
    <3>1. Top.attrRead
      BY <2>1, <2>3 DEF ClaimsAttr, IsAsyncURC
    <3> DEFINE x == [event |-> l.event, cmd |-> Top.cmd, attrRead |-> Top.attrRead]
    <3>2. x \in claimed'
      BY <2>1, <2>3
    <3>3. x.event = l.event
      OBVIOUS
    <3>4. x.attrRead = Top.attrRead
      OBVIOUS
    <3> HIDE DEF x
    <3> QED
      BY <3>1, <3>2, <3>3, <3>4, Zenon
  <2> QED
    BY <2>1, <2>2, <2>3, DeliveredRead DEF l
<1>5. CASE PollLine
  <2>1. /\ ReadLine /\ UNCHANGED <<raised, skipped, claimed>>
        /\ IF IsAsyncURC(l) THEN Dispatch(l) ELSE UNCHANGED <<handled, calls>>
    BY <1>5 DEF PollLine
  <2>2. CASE ~IsAsyncURC(l)
    <3> HIDE DEF l
    <3>1. l.text \notin {"+MTEVT", "+MTATTR"} /\ UNCHANGED handled
      BY <2>1, <2>2 DEF IsAsyncURC
    <3> QED
      BY <2>1, <3>1, DeliveredRead DEF l
  <2> QED
    BY <1>2, <2>1, <2>2
<1>6. CASE WaitReadySkip
  <2>1. /\ ReadLine /\ UNCHANGED <<raised, handled, claimed>>
        /\ skipped' = skipped \cup ({l.event} \ {0})
    BY <1>6 DEF WaitReadySkip
  <2> HIDE DEF l
  <2>2. skipped \subseteq skipped' /\ (l.event # 0 => l.event \in skipped')
    BY <2>1
  <2> QED
    BY <2>1, <2>2, DeliveredRead DEF l
<1>7. CASE CommandTimeout \/ PollEnd \/ WaitReadyTimeout
  BY <1>7, DeliveredSame DEF CommandTimeout, PollEnd, WaitReadyTimeout
<1> QED
  BY <1>1, <1>3, <1>4, <1>5, <1>6, <1>7 DEF ReaderStep

LEMMA DeliveredStep ==
  ASSUME BaseInv, DeliveredInv, [Next]_vars
  PROVE  DeliveredInv'
<1> USE DEF host, peer
<1>1. CASE ReadAttribute \/ OtherCommand \/ Poll \/ WaitReady \/ CallbackReturns
  BY <1>1, DeliveredSame DEF ReadAttribute, OtherCommand, Command, Poll, WaitReady, CallbackReturns
<1>2. CASE FlushInput
  <2>1. /\ rx' = <<>> /\ UNCHANGED <<raised, handled, claimed>>
        /\ skipped' = skipped \cup ({rx[i].event : i \in DOMAIN rx} \ {0})
    BY <1>2 DEF FlushInput
  <2>2. \A e \in 1 .. raised : e # 0
    BY BoundsAssumption DEF BaseInv, TypeOK, BoundsAssumption
  <2>3. EventsDelivered'
    BY <2>1, <2>2 DEF DeliveredInv, EventsDelivered
  <2>4. UrcTexts'
    BY <2>1 DEF UrcTexts
  <2> QED
    BY <2>3, <2>4 DEF DeliveredInv
<1>3. CASE CoprocTakes \/ CoprocOk \/ CoprocError \/ CoprocRaises \/ CoprocReboots \/ CoprocReady
  <2>1. UNCHANGED <<handled, claimed, skipped>>
    BY <1>3, CoprocSends
  <2>2. CASE UNCHANGED <<rx, raised>>
    BY <2>1, <2>2, DeliveredSame
  <2>3. ASSUME NEW l \in Line, l.event = 0, Send(<<l>>), raised' = raised
        PROVE  DeliveredInv'
    <3>1. <<l>> \in Seq(Line) /\ \A i \in DOMAIN <<l>> : <<l>>[i].event = 0
      BY <2>3, LineSeqs
    <3> QED
      BY <2>1, <2>3, <3>1, DeliveredSend
  <2>4. ASSUME NEW l \in Line, NEW m \in Line, l.event = 0, m.event = 0,
               Send(<<l, m>>), raised' = raised
        PROVE  DeliveredInv'
    <3>1. <<l, m>> \in Seq(Line) /\ \A i \in DOMAIN <<l, m>> : <<l, m>>[i].event = 0
      BY <2>4, LineSeqs
    <3> QED
      BY <2>1, <2>4, <3>1, DeliveredSend
  <2>5. ASSUME NEW l \in Line, l.event = raised + 1, l.text \in {"+MTEVT", "+MTATTR"},
               Send(<<l>>), raised' = raised + 1
        PROVE  DeliveredInv'
    <3>1. /\ <<l>> \in Seq(Line) /\ Holds(<<l>>, raised')
          /\ \A i \in DOMAIN <<l>> : <<l>>[i].text \in {"+MTEVT", "+MTATTR"}
      BY <2>5, LineSeqs DEF Holds
    <3> QED
      BY <2>1, <2>5, <3>1, DeliveredSend
  <2> QED
    BY <1>3, <2>2, <2>3, <2>4, <2>5, CoprocSends
<1>4. CASE UNCHANGED vars
  BY <1>4, DeliveredSame DEF vars
<1> QED
  BY <1>1, <1>2, <1>3, <1>4, DeliveredReader DEF Next

\* No URC disappears: it waits, was handed over, was dropped by a reset or a
\* wait for +MTREADY, or was taken by an attribute read (HearthLink.cpp:159).
THEOREM LinkEventsDelivered == Spec => []EventsDelivered
<1>1. Init => BaseInv /\ DeliveredInv
  BY BaseInit DEF Init, DeliveredInv, EventsDelivered, UrcTexts
<1>2. BaseInv /\ DeliveredInv /\ [Next]_vars => (BaseInv /\ DeliveredInv)'
  BY BaseStep, DeliveredStep
<1>3. DeliveredInv => EventsDelivered
  BY DEF DeliveredInv
<1> QED
  BY <1>1, <1>2, <1>3, PTL DEF Spec

---------------------------------------------------------------------------
(* Whose answer a command takes.  While no command has timed out, one      *)
(* command at most is in flight, the one whose frame reads, and it waits   *)
(* in one place: not yet taken, being answered, or answered on the wire.   *)

Requests  == [cmd : Commands, attrRead : BOOLEAN]
Terminals == {"OK", "ERROR", "+MTERR"}
Quiet(r)  == \A i \in DOMAIN r : r[i].text \notin Terminals

\* c is in flight and nothing else is, with r and t on the two wires and the
\* co-processor at s; c = 0: nothing is.
Sole(c, r, t, s) ==
  /\ \A i \in DOMAIN t : t[i].cmd = c
  /\ s \in {0, c}
  /\ \A i \in DOMAIN r : r[i].text \in Terminals => r[i].cmd = c
  /\ c = 0 => t = <<>> /\ Quiet(r)
  /\ t # <<>> => Len(t) = 1 /\ s = 0 /\ Quiet(r)
  /\ s # 0 => Quiet(r)
  /\ \A i, j \in DOMAIN r : r[i].text \in {"OK", "ERROR"} /\ r[j].text \in Terminals => j <= i

\* The command whose frame is on the stack, and whose code it has read.
Current == IF calls # <<>> /\ Top.reader = "command" THEN Top.cmd ELSE 0
Code    == IF calls # <<>> /\ Top.reader = "command" THEN Top.mterr ELSE 0
InTime  == \A d \in DOMAIN answers : answers[d].rc # TimedOut

\* Commands are numbered as they are issued: one that timed out came before
\* the one that reads now.
Numbered ==
  /\ \A d \in DOMAIN answers : d <= issued
  /\ Current <= issued /\ Current \notin DOMAIN answers
  /\ \A d \in DOMAIN answers : Current # 0 /\ answers[d].rc = TimedOut => d < Current

InFlight == InTime => Sole(Current, rx, tx, serving) /\ Code \in {0, Current}

AnswerInv == OwnAnswer /\ Numbered /\ InFlight

LEMMA SoleTail ==
  ASSUME NEW r \in Seq(Line), r # <<>>, NEW c, NEW t, NEW s, Sole(c, r, t, s)
  PROVE  Sole(c, Tail(r), t, s)
<1>1. \A i \in DOMAIN Tail(r) : i + 1 \in DOMAIN r /\ Tail(r)[i] = r[i + 1] /\ i \in Int
  BY TailLines, LenProperties
<1>2. Quiet(r) => Quiet(Tail(r))
  BY <1>1 DEF Quiet
<1>3. /\ \A i \in DOMAIN Tail(r) : Tail(r)[i].text \in Terminals => Tail(r)[i].cmd = c
      /\ \A i, j \in DOMAIN Tail(r) :
           Tail(r)[i].text \in {"OK", "ERROR"} /\ Tail(r)[j].text \in Terminals => j <= i
  <2>1. \A i, j \in Int : j + 1 <= i + 1 => j <= i
    OBVIOUS
  <2> QED
    BY <1>1, <2>1 DEF Sole
<1> QED
  BY <1>2, <1>3 DEF Sole

\* The line that ends the command is the last of it.
LEMMA SoleEnds ==
  ASSUME NEW r \in Seq(Line), r # <<>>, NEW c, NEW t, NEW s, Sole(c, r, t, s),
         Head(r).text \in {"OK", "ERROR"}
  PROVE  Head(r).cmd = c /\ Sole(0, Tail(r), t, s)
<1>1. 1 \in DOMAIN r /\ Head(r) = r[1] /\ r[1].text \in Terminals
  BY TailLines DEF Terminals
<1>2. /\ \A i \in DOMAIN Tail(r) : i + 1 \in DOMAIN r /\ Tail(r)[i] = r[i + 1]
      /\ \A i \in DOMAIN Tail(r) : ~(i + 1 <= 1)
  BY TailLines, LenProperties
<1>3. Head(r).cmd = c /\ ~Quiet(r)
  BY <1>1 DEF Sole, Quiet
<1>4. t = <<>> /\ s = 0
  BY <1>3 DEF Sole
<1>5. Quiet(Tail(r))
  BY <1>1, <1>2 DEF Sole, Quiet
<1>6. \A i \in DOMAIN t : t[i].cmd = 0
  BY <1>4
<1> QED
  BY <1>3, <1>4, <1>5, <1>6 DEF Sole, Quiet, Terminals

\* Lines that end no command.
LEMMA SoleQuiet ==
  ASSUME NEW r \in Seq(Line), NEW lines \in Seq(Line), Quiet(lines),
         NEW c, NEW t, NEW s, Sole(c, r, t, s)
  PROVE  Sole(c, r \o lines, t, s)
<1> DEFINE q == r \o lines
<1>1. \A i \in DOMAIN q : (i \in DOMAIN r /\ q[i] = r[i]) \/ q[i].text \notin Terminals
  BY ConcatLines DEF Quiet
<1>2. {"OK", "ERROR"} \subseteq Terminals
  BY DEF Terminals
<1> HIDE DEF q
<1>3. Quiet(r) => Quiet(q)
  BY <1>1 DEF Quiet
<1>4. /\ \A i \in DOMAIN q : q[i].text \in Terminals => q[i].cmd = c
      /\ \A i, j \in DOMAIN q :
           q[i].text \in {"OK", "ERROR"} /\ q[j].text \in Terminals => j <= i
  BY <1>1, <1>2 DEF Sole
<1> QED
  BY <1>3, <1>4 DEF Sole, q

\* The reply to the command being answered, its terminal last.
LEMMA SoleReply ==
  ASSUME NEW r \in Seq(Line), NEW lines \in Seq(Line), NEW c, NEW t, NEW s, s # 0,
         Sole(c, r, t, s),
         \A i \in DOMAIN lines : lines[i].cmd = s,
         \A i, j \in DOMAIN lines : lines[i].text \in {"OK", "ERROR"} => j <= i
  PROVE  Sole(c, r \o lines, t, 0)
<1> DEFINE q == r \o lines
<1>1. s = c /\ c # 0 /\ t = <<>> /\ Quiet(r)
  BY DEF Sole
<1>2. \A i \in DOMAIN q : q[i].text \in Terminals =>
        i \in Int /\ i - Len(r) \in DOMAIN lines /\ q[i] = lines[i - Len(r)]
  <2>1. \A i \in DOMAIN q : i \in Int
    BY ConcatLines, LenProperties
  <2> QED
    BY <1>1, <2>1, ConcatLines DEF Quiet
<1>3. \A i, j \in Int : j - Len(r) <= i - Len(r) => j <= i
  BY LenProperties
<1>4. {"OK", "ERROR"} \subseteq Terminals
  BY DEF Terminals
<1> HIDE DEF q
<1>5. \A i \in DOMAIN q : q[i].text \in Terminals => q[i].cmd = c
  BY <1>1, <1>2
<1>6. \A i, j \in DOMAIN q :
        q[i].text \in {"OK", "ERROR"} /\ q[j].text \in Terminals => j <= i
  BY <1>2, <1>3, <1>4
<1> QED
  BY <1>1, <1>5, <1>6 DEF Sole, q

\* The co-processor takes the command, or forgets it, or another is sent
\* when none is in flight.
LEMMA SoleTaken ==
  ASSUME NEW t \in Seq(Requests), t # <<>>, NEW r, NEW c, NEW s, Sole(c, r, t, s)
  PROVE  Sole(c, r, Tail(t), Head(t).cmd)
<1>1. Len(t) = 1 /\ Quiet(r)
  BY DEF Sole
<1>2. 1 \in DOMAIN t /\ Head(t) = t[1] /\ Len(Tail(t)) = 0 /\ Tail(t) \in Seq(Requests)
  BY <1>1, HeadTailProperties, LenProperties
<1>3. Head(t).cmd = c /\ Tail(t) = <<>>
  BY <1>2, EmptySeq DEF Sole
<1>4. \A i \in DOMAIN Tail(t) : Tail(t)[i].cmd = c
  BY <1>3
<1> QED
  BY <1>1, <1>3, <1>4 DEF Sole

LEMMA SoleForgotten ==
  ASSUME NEW r, NEW c, NEW t, NEW s, Sole(c, r, t, s)
  PROVE  Sole(c, r, <<>>, 0)
<1>1. \A i \in DOMAIN <<>> : <<>>[i].cmd = c
  OBVIOUS
<1> QED
  BY <1>1 DEF Sole

LEMMA SoleSent ==
  ASSUME NEW r, NEW t, NEW s, Sole(0, r, t, s), NEW c \in Commands, NEW a
  PROVE  Sole(c, r, Append(t, [cmd |-> c, attrRead |-> a]), s)
<1> DEFINE m == [cmd |-> c, attrRead |-> a]
<1>1. t = <<>> /\ s = 0 /\ Quiet(r) /\ m.cmd = c
  BY DEF Sole
<1> HIDE DEF m
<1>2. Append(t, m) = <<m>>
  BY <1>1
<1>3. Len(<<m>>) = 1 /\ \A i \in DOMAIN <<m>> : <<m>>[i].cmd = c
  BY <1>1
<1>4. c # 0
  BY DEF Commands
<1>5. {"OK", "ERROR"} \subseteq Terminals
  BY DEF Terminals
<1>6. /\ \A i \in DOMAIN r : r[i].text \in Terminals => r[i].cmd = c
      /\ \A i, j \in DOMAIN r : r[i].text \in {"OK", "ERROR"} /\ r[j].text \in Terminals => j <= i
  BY <1>1, <1>5 DEF Quiet
<1>7. Sole(c, r, <<m>>, s)
  BY <1>1, <1>3, <1>4, <1>6 DEF Sole
<1> QED
  BY <1>2, <1>7 DEF m

\* The frame that reads, seen through Current and Code.
LEMMA CurrentReads ==
  ASSUME BaseInv, Reading("command")
  PROVE  Current = Top.cmd /\ Code = Top.mterr /\ Current \in Commands /\ Current # 0
<1>1. calls # <<>> /\ Top.reader = "command"
  BY DEF Reading
<1>2. Top.cmd \in Commands
  BY ReadingTop
<1> QED
  BY <1>1, <1>2 DEF Current, Code, Commands

LEMMA CurrentLeaves ==
  ASSUME BaseInv, calls # <<>>, Leave
  PROVE  Current' = 0 /\ Code' = 0
  BY LeaveOne DEF BaseInv, Current, Code

LEMMA CurrentKept ==
  ASSUME BaseInv, calls # <<>>, NEW f \in Frame, f.reader = Top.reader, f.cmd = Top.cmd,
         calls' = [calls EXCEPT ![Len(calls)] = f]
  PROVE  /\ Current' = Current
         /\ Code' = IF Top.reader = "command" THEN f.mterr ELSE 0
<1>1. Len(calls) = 1 /\ DOMAIN calls = {1} /\ calls \in Seq(Frame)
  BY OneFrame DEF BaseInv, TypeOK
<1>2. Len(calls') = 1 /\ calls'[1] = f /\ calls' \in Seq(Frame)
  BY <1>1, ExceptSeq
<1>3. calls' # <<>> /\ Top' = f
  BY <1>2, EmptySeq DEF Top
<1> QED
  BY <1>3 DEF Current, Code

LEMMA CurrentCallback ==
  ASSUME BaseInv, calls # <<>>, NEW b \in BOOLEAN,
         calls' = [calls EXCEPT ![Len(calls)].inCallback = b]
  PROVE  Current' = Current /\ Code' = Code
<1> DEFINE f == [Top EXCEPT !.inCallback = b]
<1>1. DOMAIN calls = {1} /\ Top = calls[1] /\ Top \in Frame /\ Len(calls) = 1
  BY OneFrame DEF BaseInv
<1>2. f \in Frame /\ f.reader = Top.reader /\ f.cmd = Top.cmd /\ f.mterr = Top.mterr
  BY <1>1 DEF Frame
<1>3. calls' = [calls EXCEPT ![Len(calls)] = f]
  BY <1>1 DEF Top
<1> HIDE DEF f
<1> QED
  BY <1>2, <1>3, CurrentKept DEF Code

LEMMA CurrentEnters ==
  ASSUME BaseInv, CanCall, ~busy,
         NEW r \in Reader, NEW c \in {0} \cup Commands, NEW a \in BOOLEAN, Enter(r, c, a)
  PROVE  /\ Current = 0 /\ Code = 0 /\ Code' = 0
         /\ Current' = IF r = "command" THEN c ELSE 0
<1>1. calls = <<>>
  BY DEF BaseInv, OneReader
<1> DEFINE f == [reader |-> r, cmd |-> c, attrRead |-> a, mterr |-> 0, inCallback |-> FALSE]
<1>2. calls' = <<f>> /\ f.reader = r /\ f.cmd = c /\ f.mterr = 0
  BY <1>1 DEF Enter
<1> HIDE DEF f
<1>3. calls' # <<>> /\ Top' = f
  BY <1>2 DEF Top
<1> QED
  BY <1>1, <1>2, <1>3 DEF Current, Code

LEMMA AnswerSame ==
  ASSUME AnswerInv, UNCHANGED <<answers, issued>>, Current' = Current,
         InTime => Sole(Current, rx', tx', serving') /\ Code' \in {0, Current}
  PROVE  AnswerInv'
  BY DEF AnswerInv, OwnAnswer, Numbered, InFlight, InTime

\* A command returns: with its own answer, or after one that timed out.
LEMMA AnswerLeaves ==
  ASSUME BaseInv, AnswerInv, Reading("command"), Leave, issued' = issued,
         NEW rc \in Returns, NEW terminal \in {0} \cup Commands, NEW code \in {0} \cup Commands,
         Answer(Top.cmd, rc, terminal, code),
         InTime => {terminal, code} \subseteq {0, Current},
         InTime /\ rc # TimedOut => Sole(0, rx', tx', serving')
  PROVE  AnswerInv'
<1>1. Current = Top.cmd /\ Current \in Commands /\ Current # 0 /\ calls # <<>>
  BY CurrentReads DEF Reading
<1>2. /\ DOMAIN answers' = DOMAIN answers \cup {Current}
      /\ answers'[Current] = [rc |-> rc, terminal |-> terminal, code |-> code]
      /\ \A d \in DOMAIN answers : d # Current /\ answers'[d] = answers[d]
  BY <1>1 DEF Answer, AnswerInv, Numbered
<1>3. Current' = 0 /\ Code' = 0
  BY <1>1, CurrentLeaves
<1>4. /\ answers'[Current].rc = rc /\ answers'[Current].terminal = terminal
      /\ answers'[Current].code = code
  BY <1>2
<1>5. ASSUME NEW c \in DOMAIN answers'
      PROVE  \/ {answers'[c].terminal, answers'[c].code} \subseteq {0, c}
             \/ \E d \in DOMAIN answers' : d < c /\ answers'[d].rc = TimedOut
  <2>1. CASE c = Current /\ InTime
    BY <1>4, <2>1
  <2>2. CASE c = Current /\ ~InTime
    <3>1. PICK d \in DOMAIN answers : answers[d].rc = TimedOut
      BY <2>2 DEF InTime
    <3>2. d < Current /\ d \in DOMAIN answers' /\ answers'[d].rc = TimedOut
      BY <1>1, <1>2, <3>1 DEF AnswerInv, Numbered
    <3> QED
      BY <2>2, <3>2
  <2>3. CASE c \in DOMAIN answers
    <3>1. \/ {answers[c].terminal, answers[c].code} \subseteq {0, c}
          \/ \E d \in DOMAIN answers : d < c /\ answers[d].rc = TimedOut
      BY <2>3 DEF AnswerInv, OwnAnswer
    <3> QED
      BY <1>2, <2>3, <3>1
  <2> QED
    BY <1>2, <2>1, <2>2, <2>3
<1>6. OwnAnswer'
  BY <1>5 DEF OwnAnswer
<1>7. Numbered'
  <2>1. 0 \notin DOMAIN answers' /\ 0 <= issued
    BY <1>1, <1>2, BoundsAssumption DEF BaseInv, TypeOK, Commands, BoundsAssumption
  <2>2. \A d \in DOMAIN answers' : d <= issued
    BY <1>2 DEF AnswerInv, Numbered
  <2> QED
    BY <1>3, <2>1, <2>2 DEF Numbered
<1>8. InFlight'
  <2>1. InTime' => InTime /\ rc # TimedOut
    BY <1>2, <1>4 DEF InTime
  <2> QED
    BY <1>3, <2>1 DEF InFlight
<1> QED
  BY <1>6, <1>7, <1>8 DEF AnswerInv

\* A command called from a callback is refused, and leaves no other trace.
LEMMA AnswerRefused ==
  ASSUME BaseInv, AnswerInv, issued' = issued + 1, Answer(issued', Reentrant, 0, 0),
         UNCHANGED <<rx, tx, serving, calls>>
  PROVE  AnswerInv'
<1> DEFINE n == issued + 1
<1>1. issued \in Nat /\ DOMAIN answers \subseteq Commands /\ Commands \subseteq Int
  BY BoundsAssumption DEF BaseInv, TypeOK, Commands, BoundsAssumption
<1>2. \A d \in DOMAIN answers : d <= issued /\ d # n
  BY <1>1 DEF AnswerInv, Numbered
<1>3. /\ DOMAIN answers' = DOMAIN answers \cup {n}
      /\ answers'[n] = [rc |-> Reentrant, terminal |-> 0, code |-> 0]
      /\ \A d \in DOMAIN answers : answers'[d] = answers[d]
  BY <1>2 DEF Answer
<1>4. Current' = Current /\ Code' = Code
  BY DEF Current, Code, Top
<1>5. answers'[n].rc # TimedOut /\ {answers'[n].terminal, answers'[n].code} \subseteq {0, n}
  BY <1>3 DEF Reentrant, TimedOut
<1> HIDE DEF n
<1>6. OwnAnswer'
  <2> SUFFICES ASSUME NEW c \in DOMAIN answers, ~({answers[c].terminal, answers[c].code} \subseteq {0, c})
               PROVE  \E d \in DOMAIN answers' : d < c /\ answers'[d].rc = TimedOut
    BY <1>3, <1>5 DEF OwnAnswer
  <2>1. PICK d \in DOMAIN answers : d < c /\ answers[d].rc = TimedOut
    BY DEF AnswerInv, OwnAnswer
  <2> QED
    BY <1>3, <2>1
<1>7. Numbered'
  <2>1. Current \in Int
    <3>1. calls # <<>> => Top.cmd \in {0} \cup Commands
      BY OneFrame DEF BaseInv, Frame
    <3>2. Current \in {0} \cup Commands
      BY <3>1, Zenon DEF Current
    <3> QED
      BY <1>1, <3>2
  <2>2. Current <= issued
    BY DEF AnswerInv, Numbered
  <2>3. n = issued' /\ n \in Int /\ \A m \in Int : m <= issued => m <= n /\ m # n
    BY <1>1 DEF n
  <2>4. Current <= issued' /\ Current # n
    BY <2>1, <2>2, <2>3
  <2>5. \A d \in DOMAIN answers' : d <= issued'
    <3>1. \A d \in DOMAIN answers : d <= n
      BY <1>1, <1>2, <2>3
    <3>2. n <= n
      BY <2>3
    <3> QED
      BY <1>3, <2>3, <3>1, <3>2
  <2> QED
    BY <1>3, <1>4, <1>5, <2>4, <2>5 DEF Numbered, AnswerInv
<1>8. InFlight'
  <2>1. InTime' => InTime
    BY <1>3 DEF InTime
  <2> QED
    BY <1>4, <2>1 DEF InFlight, AnswerInv
<1> QED
  BY <1>6, <1>7, <1>8 DEF AnswerInv

\* A command sent from an empty stack is the only one in flight.
LEMMA AnswerEnters ==
  ASSUME BaseInv, AnswerInv, CanCall, ~busy, issued' = issued + 1, issued' \in Commands,
         NEW a \in BOOLEAN, Enter("command", issued', a),
         tx' = Append(tx, [cmd |-> issued', attrRead |-> a]),
         UNCHANGED <<answers, rx, serving>>
  PROVE  AnswerInv'
<1>1. Current = 0 /\ Current' = issued' /\ Code' = 0
  BY CurrentEnters DEF Reader
<1>2. issued \in Nat /\ DOMAIN answers \subseteq Commands /\ Commands \subseteq Int
  BY BoundsAssumption DEF BaseInv, TypeOK, Commands, BoundsAssumption
<1>3. \A d \in DOMAIN answers : d <= issued' /\ d < issued' /\ d # issued'
  <2>1. \A d \in Int : d <= issued => d <= issued + 1 /\ d < issued + 1 /\ d # issued + 1
    BY <1>2
  <2>2. \A d \in DOMAIN answers : d \in Int /\ d <= issued
    BY <1>2 DEF AnswerInv, Numbered
  <2> QED
    BY <2>1, <2>2
<1>4. issued' <= issued'
  BY <1>2
<1>5. Numbered'
  BY <1>1, <1>3, <1>4 DEF Numbered
<1>6. InFlight'
  BY <1>1, SoleSent DEF AnswerInv, InFlight, InTime
<1> QED
  BY <1>5, <1>6 DEF AnswerInv, OwnAnswer

LEMMA AnswerReader ==
  ASSUME BaseInv, AnswerInv, ReaderStep
  PROVE  AnswerInv'
<1> USE DEF host, peer
<1> DEFINE l == Head(rx)
<1>0. rx \in Seq(Line) /\ (ReadLine => rx # <<>> /\ rx' = Tail(rx) /\ l \in Line)
  BY ReadType DEF BaseInv, TypeOK, ReadLine
<1> HIDE DEF l
<1>a. InTime => Sole(Current, rx, tx, serving) /\ Code \in {0, Current}
  BY DEF AnswerInv, InFlight
<1>b. ReadLine /\ InTime => Sole(Current, rx', tx, serving)
  BY <1>0, <1>a, SoleTail
<1>c. ReadLine /\ InTime /\ l.text \in {"OK", "ERROR"} => l.cmd = Current /\ Sole(0, rx', tx, serving)
  BY <1>0, <1>a, SoleEnds DEF l
<1>1. CASE CommandOk
  <2>1. /\ Reading("command") /\ ReadLine /\ Leave /\ Answer(Top.cmd, Ok, l.cmd, 0)
        /\ l.text = "OK" /\ UNCHANGED <<tx, serving, issued>>
    BY <1>1 DEF CommandOk, l
  <2>2. Ok \in Returns /\ l.cmd \in {0} \cup Commands
    BY <1>0, <2>1 DEF Returns, Line
  <2>3. InTime => {l.cmd, 0} \subseteq {0, Current} /\ Sole(0, rx', tx', serving')
    BY <1>c, <2>1
  <2> QED
    BY <2>1, <2>2, <2>3, AnswerLeaves
<1>2. CASE CommandError
  <2> DEFINE rc == IF Top.mterr > 0 THEN Coded ELSE Plain
  <2>1. /\ Reading("command") /\ ReadLine /\ Leave /\ Answer(Top.cmd, rc, l.cmd, Top.mterr)
        /\ l.text = "ERROR" /\ UNCHANGED <<tx, serving, issued>>
    BY <1>2 DEF CommandError, l
  <2>2. rc \in Returns /\ l.cmd \in {0} \cup Commands /\ Top.mterr \in {0} \cup Commands
    BY <1>0, <2>1, ReadingTop DEF Returns, Line, Frame
  <2> HIDE DEF rc
  <2>3. InTime => {l.cmd, Top.mterr} \subseteq {0, Current} /\ Sole(0, rx', tx', serving')
    BY <1>a, <1>c, <2>1, CurrentReads
  <2> QED
    BY <2>1, <2>2, <2>3, AnswerLeaves
<1>3. CASE CommandMterr
  <2> DEFINE f == [Top EXCEPT !.mterr = l.cmd]
  <2>1. /\ Reading("command") /\ ReadLine /\ l.text = "+MTERR"
        /\ calls' = [calls EXCEPT ![Len(calls)].mterr = l.cmd]
        /\ UNCHANGED <<tx, serving, answers, issued>>
    BY <1>3 DEF CommandMterr, l
  <2>2. Top.reader = "command" /\ calls # <<>> /\ Top \in Frame /\ Top = calls[Len(calls)]
    BY <2>1, ReadingTop DEF Reading
  <2>3. f \in Frame /\ f.reader = Top.reader /\ f.cmd = Top.cmd /\ f.mterr = l.cmd
    BY <1>0, <2>1, <2>2 DEF Frame, Line
  <2>4. calls' = [calls EXCEPT ![Len(calls)] = f]
    BY <2>1, <2>2
  <2> HIDE DEF f
  <2>5. Current' = Current /\ Code' = l.cmd
    BY <2>2, <2>3, <2>4, CurrentKept
  <2>6. ASSUME InTime
        PROVE  l.cmd = Current
    <3>1. 1 \in DOMAIN rx /\ l = rx[1] /\ l.text \in Terminals
      BY <1>0, <2>1, TailLines DEF l, Terminals
    <3> QED
      BY <1>a, <2>6, <3>1 DEF Sole
  <2> QED
    BY <1>b, <2>1, <2>5, <2>6, AnswerSame
<1>4. CASE ReadLine /\ Dispatch(l) /\ calls # <<>> /\ UNCHANGED <<tx, serving, answers, issued>>
  <2>1. Current' = Current /\ Code' = Code
    BY <1>4, CurrentCallback DEF Dispatch
  <2> QED
    BY <1>a, <1>b, <1>4, <2>1, AnswerSame
<1>5. CASE ReadLine /\ UNCHANGED <<calls, tx, serving, answers, issued>>
  <2>1. Current' = Current /\ Code' = Code
    BY <1>5 DEF Current, Code, Top
  <2> QED
    BY <1>a, <1>b, <1>5, <2>1, AnswerSame
<1>6. CASE CommandURC \/ WaitReadyMarker
  BY <1>4, <1>6 DEF CommandURC, WaitReadyMarker, Reading, l
<1>7. CASE CommandResult \/ WaitReadySkip
  BY <1>5, <1>7 DEF CommandResult, WaitReadySkip
<1>8. CASE PollLine
  BY <1>4, <1>5, <1>8 DEF PollLine, Reading, l
<1>9. CASE CommandTimeout
  <2>1. /\ Reading("command") /\ Leave /\ Answer(Top.cmd, TimedOut, 0, 0) /\ issued' = issued
    BY <1>9 DEF CommandTimeout
  <2>2. TimedOut \in Returns /\ 0 \in {0} \cup Commands /\ {0, 0} \subseteq {0, Current}
    BY DEF Returns
  <2> QED
    BY <2>1, <2>2, AnswerLeaves
<1>10. CASE PollEnd \/ WaitReadyTimeout
  <2>1. /\ calls # <<>> /\ Top.reader # "command" /\ Leave
        /\ UNCHANGED <<rx, tx, serving, answers, issued>>
    BY <1>10 DEF PollEnd, WaitReadyTimeout, Reading
  <2>2. Current = 0 /\ Current' = 0 /\ Code' = 0
    BY <2>1, CurrentLeaves DEF Current
  <2> QED
    BY <1>a, <2>1, <2>2, AnswerSame
<1> QED
  BY <1>1, <1>2, <1>3, <1>6, <1>7, <1>8, <1>9, <1>10 DEF ReaderStep

LEMMA AnswerCalls ==
  ASSUME BaseInv, AnswerInv,
         ReadAttribute \/ OtherCommand \/ Poll \/ WaitReady \/ FlushInput \/ CallbackReturns
  PROVE  AnswerInv'
<1> USE DEF host, peer
<1>a. InTime => Sole(Current, rx, tx, serving) /\ Code \in {0, Current}
  BY DEF AnswerInv, InFlight
<1>1. CASE ReadAttribute \/ OtherCommand
  <2>1. PICK a \in BOOLEAN : Command(a)
    BY <1>1 DEF ReadAttribute, OtherCommand
  <2>2. /\ CanCall /\ issued' = issued + 1 /\ issued < MaxCommands
        /\ UNCHANGED <<rx, serving>>
    BY <2>1 DEF Command
  <2>3. issued' \in Commands
    BY <2>2, BoundsAssumption DEF BaseInv, TypeOK, Commands, BoundsAssumption
  <2>4. CASE CommandGuard
    <3>1. /\ tx' = Append(tx, [cmd |-> issued', attrRead |-> a])
          /\ Enter("command", issued', a) /\ UNCHANGED answers /\ ~busy
      BY <2>1, <2>4 DEF Command, CommandGuard
    <3> QED
      BY <2>2, <2>3, <3>1, AnswerEnters
  <2>5. CASE ~CommandGuard
    <3>1. Answer(issued', Reentrant, 0, 0) /\ UNCHANGED <<tx, calls, busy>>
      BY <2>1, <2>5 DEF Command
    <3> QED
      BY <2>2, <3>1, AnswerRefused
  <2> QED
    BY <2>4, <2>5
<1>2. CASE Poll \/ WaitReady
  <2>1. PICK r \in {"poll", "waitReady"} : Enter(r, 0, FALSE)
    BY <1>2 DEF Poll, WaitReady
  <2>2. CanCall /\ ~busy /\ UNCHANGED <<rx, tx, serving, answers, issued>>
    BY <1>2 DEF Poll, WaitReady
  <2>3. r \in Reader /\ r # "command" /\ 0 \in {0} \cup Commands
    BY DEF Reader
  <2>4. Current = 0 /\ Current' = 0 /\ Code' = 0
    BY <2>1, <2>2, <2>3, CurrentEnters
  <2> QED
    BY <1>a, <2>2, <2>4, AnswerSame
<1>3. CASE FlushInput
  <2>1. /\ calls = <<>> /\ rx' = <<>> /\ tx' = <<>> /\ serving' = 0
        /\ UNCHANGED <<calls, answers, issued>>
    BY <1>3 DEF FlushInput
  <2>2. Current = 0 /\ Current' = 0 /\ Code' = 0
    BY <2>1 DEF Current, Code
  <2>3. Sole(0, <<>>, <<>>, 0)
    BY DEF Sole, Quiet
  <2> QED
    BY <2>1, <2>2, <2>3, AnswerSame
<1>4. CASE CallbackReturns
  <2>1. calls # <<>> /\ UNCHANGED <<rx, tx, serving, answers, issued>>
    BY <1>4 DEF CallbackReturns
  <2>2. CASE Top.reader = "waitReady"
    <3>1. Current = 0 /\ Current' = 0 /\ Code' = 0
      BY <1>4, <2>1, <2>2, CurrentLeaves DEF Current, CallbackReturns
    <3> QED
      BY <1>a, <2>1, <3>1, AnswerSame
  <2>3. CASE Top.reader # "waitReady"
    <3>1. Current' = Current /\ Code' = Code
      BY <1>4, <2>1, <2>3, CurrentCallback DEF CallbackReturns
    <3> QED
      BY <1>a, <2>1, <3>1, AnswerSame
  <2> QED
    BY <2>2, <2>3
<1> QED
  BY <1>1, <1>2, <1>3, <1>4

LEMMA AnswerCoproc ==
  ASSUME BaseInv, AnswerInv,
         CoprocTakes \/ CoprocOk \/ CoprocError \/ CoprocRaises \/ CoprocReboots \/ CoprocReady
  PROVE  AnswerInv'
<1> USE DEF host, peer
<1>1. UNCHANGED <<calls, answers, issued>> /\ rx \in Seq(Line) /\ tx \in Seq(Requests)
  BY CoprocSends DEF BaseInv, TypeOK, Requests
<1>2. Current' = Current /\ Code' = Code
  BY <1>1 DEF Current, Code, Top
<1>3. InTime => Sole(Current, rx, tx, serving) /\ Code \in {0, Current}
  BY DEF AnswerInv, InFlight
<1>4. SUFFICES ASSUME InTime PROVE Sole(Current, rx', tx', serving')
  BY <1>1, <1>2, <1>3, AnswerSame
<1>5. ASSUME NEW x \in Line, x.text \notin Terminals, NEW t, NEW s, Sole(Current, rx, t, s)
      PROVE  Sole(Current, rx \o <<x>>, t, s)
  <2>1. <<x>> \in Seq(Line) /\ Quiet(<<x>>)
    BY <1>5, LineSeqs DEF Quiet
  <2> QED
    BY <1>1, <1>5, <2>1, SoleQuiet
<1>6. \A t \in Texts : [text |-> t, cmd |-> 0, event |-> 0] \in Line
  BY DEF Line
<1>7. CASE CoprocTakes
  <2>1. tx # <<>> /\ serving' = Head(tx).cmd /\ tx' = Tail(tx)
    BY <1>7 DEF CoprocTakes
  <2>2. Sole(Current, rx, tx', serving')
    BY <1>1, <1>3, <1>4, <2>1, SoleTaken
  <2>3. Head(tx) \in Requests
    BY <1>1, <2>1, HeadTailProperties
  <2> DEFINE x == [text |-> IF Head(tx).attrRead THEN "+MTATTR" ELSE "+MTEP",
                   cmd |-> Head(tx).cmd, event |-> 0]
  <2>4. x \in Line /\ x.text \notin Terminals
    BY <2>3 DEF Line, Texts, Requests, Terminals
  <2>5. rx' = rx \o <<x>> \/ rx' = rx
    BY <1>7 DEF CoprocTakes, Send
  <2> HIDE DEF x
  <2> QED
    BY <1>5, <2>2, <2>4, <2>5
<1>8. CASE CoprocOk \/ CoprocError
  <2>1. serving # 0 /\ serving' = 0 /\ tx' = tx
    BY <1>8 DEF CoprocOk, CoprocError
  <2>2. Reply("OK") \in Line /\ Reply("ERROR") \in Line /\ Reply("+MTERR") \in Line
    BY DEF Reply, Texts, BaseInv, TypeOK, Line
  <2>3. /\ Reply("OK").cmd = serving /\ Reply("ERROR").cmd = serving
        /\ Reply("+MTERR").cmd = serving /\ Reply("+MTERR").text \notin {"OK", "ERROR"}
    BY DEF Reply
  <2>4. PICK x \in Line, y \in Line :
          /\ x.cmd = serving /\ y.cmd = serving /\ x.text \notin {"OK", "ERROR"}
          /\ rx' = rx \o <<y>> \/ rx' = rx \o <<x, y>>
    BY <1>8, <2>2, <2>3 DEF CoprocOk, CoprocError, Send
  <2>5. /\ <<y>> \in Seq(Line) /\ \A i \in DOMAIN <<y>> : <<y>>[i].cmd = serving
        /\ \A i, j \in DOMAIN <<y>> : <<y>>[i].text \in {"OK", "ERROR"} => j <= i
    BY <2>4, LineSeqs
  <2>6. /\ <<x, y>> \in Seq(Line) /\ \A i \in DOMAIN <<x, y>> : <<x, y>>[i].cmd = serving
        /\ \A i, j \in DOMAIN <<x, y>> : <<x, y>>[i].text \in {"OK", "ERROR"} => j <= i
    BY <2>4, LineSeqs
  <2> QED
    BY <1>1, <1>3, <1>4, <2>1, <2>4, <2>5, <2>6, SoleReply
<1>9. CASE CoprocRaises
  <2>1. UNCHANGED <<tx, serving>>
    BY <1>9 DEF CoprocRaises
  <2>2. raised' \in {0} \cup Events
    BY <1>9, BoundsAssumption DEF CoprocRaises, BaseInv, TypeOK, Events, BoundsAssumption
  <2>3. PICK text \in {"+MTEVT", "+MTATTR"} :
          rx' = rx \o <<[text |-> text, cmd |-> 0, event |-> raised']>>
    BY <1>9 DEF CoprocRaises, Send
  <2> DEFINE x == [text |-> text, cmd |-> 0, event |-> raised']
  <2>4. x \in Line /\ x.text \notin Terminals
    BY <2>2 DEF Line, Texts, Terminals
  <2> HIDE DEF x
  <2>5. rx' = rx \o <<x>>
    BY <2>3 DEF x
  <2> QED
    BY <1>3, <1>4, <1>5, <2>1, <2>4, <2>5
<1>10. CASE CoprocReboots
  <2> DEFINE x == [text |-> "boot noise", cmd |-> 0, event |-> 0]
  <2>1. tx' = <<>> /\ serving' = 0 /\ rx' = rx \o <<x>>
    BY <1>10 DEF CoprocReboots, Send
  <2>2. x \in Line /\ x.text \notin Terminals
    BY <1>6 DEF Texts, Terminals
  <2> HIDE DEF x
  <2>3. Sole(Current, rx, <<>>, 0)
    BY <1>3, <1>4, SoleForgotten
  <2> QED
    BY <1>5, <2>1, <2>2, <2>3
<1>11. CASE CoprocReady
  <2> DEFINE x == [text |-> "+MTREADY", cmd |-> 0, event |-> 0]
  <2>1. UNCHANGED <<tx, serving>> /\ rx' = rx \o <<x>>
    BY <1>11 DEF CoprocReady, Send
  <2>2. x \in Line /\ x.text \notin Terminals
    BY <1>6 DEF Texts, Terminals
  <2> HIDE DEF x
  <2> QED
    BY <1>3, <1>4, <1>5, <2>1, <2>2
<1> QED
  BY <1>7, <1>8, <1>9, <1>10, <1>11

LEMMA AnswerInit == Init => AnswerInv
<1> SUFFICES ASSUME Init PROVE AnswerInv
  OBVIOUS
<1>1. /\ rx = <<>> /\ tx = <<>> /\ serving = 0 /\ calls = <<>> /\ issued = 0
      /\ DOMAIN answers = {}
  BY DEF Init
<1>2. Current = 0 /\ Code = 0
  BY <1>1 DEF Current, Code
<1>3. Sole(0, <<>>, <<>>, 0)
  BY DEF Sole, Quiet
<1> QED
  BY <1>1, <1>2, <1>3 DEF AnswerInv, OwnAnswer, Numbered, InFlight

LEMMA AnswerStep ==
  ASSUME BaseInv, AnswerInv, [Next]_vars
  PROVE  AnswerInv'
<1>1. CASE UNCHANGED vars
  <2>1. UNCHANGED <<rx, tx, serving, calls, answers, issued>>
    BY <1>1 DEF vars, host, peer
  <2>2. Current' = Current /\ Code' = Code
    BY <2>1 DEF Current, Code, Top
  <2> QED
    BY <2>1, <2>2, AnswerSame DEF AnswerInv, InFlight
<1> QED
  BY <1>1, AnswerReader, AnswerCalls, AnswerCoproc DEF Next

\* The terminal a command returns with, and the code, are its own unless an
\* earlier command timed out (HearthLink.cpp:139, 166, 186): the wire orders
\* the replies, and a command is issued only when none is in flight.
THEOREM LinkOwnAnswer == Spec => []OwnAnswer
<1>1. Init => BaseInv /\ AnswerInv
  BY BaseInit, AnswerInit
<1>2. BaseInv /\ AnswerInv /\ [Next]_vars => (BaseInv /\ AnswerInv)'
  BY BaseStep, AnswerStep
<1>3. AnswerInv => OwnAnswer
  BY DEF AnswerInv
<1> QED
  BY <1>1, <1>2, <1>3, PTL DEF Spec

=============================================================================
