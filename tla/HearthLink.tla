---------------------------- MODULE HearthLink ----------------------------
(***************************************************************************)
(* The AT+MT transport client (src/src/HearthLink.cpp): one serial stream, *)
(* one line accumulator, and three readers of it, command(), poll() and    *)
(* waitReady(), that all refuse to run while another of them is active.    *)
(*                                                                         *)
(* A reader dispatches asynchronous lines (URCs) to a handler that may     *)
(* call back into the link, so the C++ call stack is part of the state.    *)
(* The co-processor on the other end of the wire answers the commands it   *)
(* receives in order, raises URCs whenever it likes, may answer late, and  *)
(* may reboot; none of its code is in this repository.                     *)
(*                                                                         *)
(* Lines are whole: the character loop of readLine() is abstracted to the  *)
(* line it returns.  Each line carries, for the properties only, the       *)
(* command it answers and the event it announces; no guard reads either.   *)
(***************************************************************************)
EXTENDS Integers, Sequences

CONSTANTS
  MaxCommands,    \* bound: commands issued in a behaviour
  MaxEvents,      \* bound: URCs the co-processor raises of its own accord
  MaxReboots,     \* bound: co-processor boots
  MaxCalls        \* bound: poll() and waitReady() calls

ASSUME BoundsAssumption ==
  /\ MaxCommands \in Nat
  /\ MaxEvents   \in Nat
  /\ MaxReboots  \in Nat
  /\ MaxCalls    \in Nat

Commands == 1 .. MaxCommands
Events   == 1 .. MaxEvents

\* What command() returns (HearthLink.h, its doc comment); a coded error is
\* the positive +MTERR number, of which one stands for all.
Ok        == 0
Coded     == 5
Plain     == -1
TimedOut  == -2
Reentrant == -3
Returns   == {Ok, Coded, Plain, TimedOut, Reentrant}

Texts == {"OK", "ERROR", "+MTERR", "+MTATTR", "+MTEVT", "+MTEP",
          "+MTREADY", "boot noise"}
Line  == [text : Texts, cmd : {0} \cup Commands, event : {0} \cup Events]

Reader == {"command", "poll", "waitReady"}
Frame  == [reader : Reader, cmd : {0} \cup Commands, attrRead : BOOLEAN,
           mterr : {0} \cup Commands, inCallback : BOOLEAN]

VARIABLES
  rx,        \* lines received and not yet read, oldest first
  tx,        \* commands the co-processor has not yet taken
  serving,   \* [external] the command it is answering, 0 when idle
  booting,   \* [external] it has reset and not yet printed +MTREADY
  calls,     \* the stack of link calls in progress, innermost last
  busy,      \* _busy
  issued,    \* commands issued so far
  polls,     \* poll() and waitReady() calls so far
  raised,    \* [external] URCs raised so far
  reboots,   \* [external] boots so far
  answers,   \* history: what each command returned, and whose lines it read
  handled,   \* history: the lines given to the URC handler, in order
  claimed,   \* history: genuine +MTATTR URCs taken as a command's result
  skipped    \* history: URCs waitReady() or flushInput() discarded

host == <<calls, busy, issued, polls, answers, handled, claimed, skipped>>
peer == <<serving, booting, raised, reboots>>
vars == <<rx, tx, host, peer>>

NoAnswer == [rc |-> Ok, terminal |-> 0, code |-> 0]

Init ==
  /\ rx = <<>> /\ tx = <<>>
  /\ serving = 0 /\ booting = FALSE /\ raised = 0 /\ reboots = 0
  /\ calls = <<>> /\ busy = FALSE /\ issued = 0 /\ polls = 0
  /\ answers = [c \in {} |-> NoAnswer]
  /\ handled = <<>> /\ claimed = {} /\ skipped = {}

---------------------------------------------------------------------------
(* Calls into the link.  The sketch calls from its loop (empty stack) or   *)
(* from a callback the innermost reader is dispatching.                    *)

Top     == calls[Len(calls)]
CanCall == calls # <<>> => Top.inCallback
\* Mutant: every reader runs command()'s loop.
ReadingAny(r) == calls # <<>> /\ ~Top.inCallback

Reading(r) == calls # <<>> /\ ~Top.inCallback /\ Top.reader = r

Enter(r, c, attrRead) ==
  /\ calls' = Append(calls, [reader |-> r, cmd |-> c, attrRead |-> attrRead,
                             mterr |-> 0, inCallback |-> FALSE])
  /\ busy' = TRUE

Leave == /\ calls' = SubSeq(calls, 1, Len(calls) - 1)
         /\ busy' = FALSE

\* Recorded as the answer of command c: rc, the command whose terminal was
\* read, and the command whose +MTERR supplied the code.
Answer(c, rc, terminal, code) ==
  answers' = [d \in DOMAIN answers \cup {c} |->
                IF d = c THEN [rc |-> rc, terminal |-> terminal, code |-> code]
                         ELSE answers[d]]

\* Mutant: a call from a callback is let through.
CommandUnguarded == TRUE

CommandGuard == ~busy

\* command(), its entry: refused with HEARTH_CMD_REENTRANT, or sent.
Command(attrRead) ==
  /\ CanCall /\ issued < MaxCommands
  /\ issued' = issued + 1
  /\ IF CommandGuard
       THEN /\ tx' = Append(tx, [cmd |-> issued', attrRead |-> attrRead])
            /\ Enter("command", issued', attrRead)
            /\ UNCHANGED answers
       ELSE /\ Answer(issued', Reentrant, 0, 0)
            /\ UNCHANGED <<tx, calls, busy>>
  /\ UNCHANGED <<rx, peer, polls, handled, claimed, skipped>>

\* getAttributeVal() wants its own +MTATTR line; no other command does.
ReadAttribute == Command(TRUE)
OtherCommand  == Command(FALSE)

\* poll() and waitReady(), their entry.  Both are no-ops while _busy.
Poll ==
  /\ CanCall /\ ~busy /\ polls < MaxCalls
  /\ polls' = polls + 1
  /\ Enter("poll", 0, FALSE)
  /\ UNCHANGED <<rx, tx, peer, issued, answers, handled, claimed, skipped>>

WaitReady ==
  /\ CanCall /\ ~busy /\ polls < MaxCalls
  /\ polls' = polls + 1
  /\ Enter("waitReady", 0, FALSE)
  /\ UNCHANGED <<rx, tx, peer, issued, answers, handled, claimed, skipped>>

---------------------------------------------------------------------------
(* Reading one line.                                                       *)

IsAsyncURC(line) == line.text \in {"+MTEVT", "+MTATTR", "+MTREADY"}

\* Mutant: matched by the line's shape only, whatever the command asked for.
ClaimsAnyAttr(line) == line.text = "+MTATTR"

\* Mutant: the accumulator is not cleared when a line is returned.
ReadLineUncleared == rx # <<>> /\ UNCHANGED rx

ReadLine == rx # <<>> /\ rx' = Tail(rx)

\* dispatchURC(): the handler runs, and may call back, until CallbackReturns.
Dispatch(line) ==
  /\ handled' = Append(handled, line)
  /\ calls' = [calls EXCEPT ![Len(calls)].inCallback = TRUE]

\* The line goes to this command's onLine and not to the URC handler.
ClaimsAttr(line) == Top.attrRead /\ line.text = "+MTATTR"

CommandOk ==
  /\ Reading("command") /\ ReadLine
  /\ Head(rx).text = "OK"
  /\ Answer(Top.cmd, Ok, Head(rx).cmd, 0)
  /\ Leave
  /\ UNCHANGED <<tx, peer, issued, polls, handled, claimed, skipped>>

CommandError ==
  /\ Reading("command") /\ ReadLine
  /\ Head(rx).text = "ERROR"
  /\ Answer(Top.cmd, IF Top.mterr > 0 THEN Coded ELSE Plain,
            Head(rx).cmd, Top.mterr)
  /\ Leave
  /\ UNCHANGED <<tx, peer, issued, polls, handled, claimed, skipped>>

CommandMterr ==
  /\ Reading("command") /\ ReadLine
  /\ Head(rx).text = "+MTERR"
  /\ calls' = [calls EXCEPT ![Len(calls)].mterr = Head(rx).cmd]
  /\ UNCHANGED <<tx, peer, busy, issued, polls, answers, handled, claimed, skipped>>

CommandURC ==
  /\ Reading("command") /\ ReadLine
  /\ ~ClaimsAttr(Head(rx)) /\ IsAsyncURC(Head(rx))
  /\ Dispatch(Head(rx))
  /\ UNCHANGED <<tx, peer, busy, issued, polls, answers, claimed, skipped>>

\* onLine, or an unexpected intermediate line that is ignored.
CommandResult ==
  /\ Reading("command") /\ ReadLine
  /\ Head(rx).text \notin {"OK", "ERROR", "+MTERR"}
  /\ ClaimsAttr(Head(rx)) \/ ~IsAsyncURC(Head(rx))
  /\ claimed' = IF Head(rx).event = 0 THEN claimed
                ELSE claimed \cup {[event |-> Head(rx).event, cmd |-> Top.cmd,
                                    attrRead |-> Top.attrRead]}
  /\ UNCHANGED <<tx, peer, calls, busy, issued, polls, answers, handled, skipped>>

\* Mutant: the deadline is looked at only when a line has come.
CommandTimeoutOnLine ==
  /\ Reading("command") /\ rx # <<>>
  /\ Answer(Top.cmd, TimedOut, 0, 0)
  /\ Leave
  /\ UNCHANGED <<rx, tx, peer, issued, polls, handled, claimed, skipped>>

\* The deadline passes at any line boundary, whether or not lines wait: the
\* loop checks it before each read, and a callback may have used it up.
CommandTimeout ==
  /\ Reading("command")
  /\ Answer(Top.cmd, TimedOut, 0, 0)
  /\ Leave
  /\ UNCHANGED <<rx, tx, peer, issued, polls, handled, claimed, skipped>>

PollLine ==
  /\ Reading("poll") /\ ReadLine
  /\ IF IsAsyncURC(Head(rx)) THEN Dispatch(Head(rx))
                             ELSE UNCHANGED <<handled, calls>>
  /\ UNCHANGED <<tx, peer, busy, issued, polls, answers, claimed, skipped>>

PollEnd ==
  /\ Reading("poll") /\ rx = <<>>
  /\ Leave
  /\ UNCHANGED <<rx, tx, peer, issued, polls, answers, handled, claimed, skipped>>

WaitReadyMarker ==
  /\ Reading("waitReady") /\ ReadLine
  /\ Head(rx).text = "+MTREADY"
  /\ Dispatch(Head(rx))
  /\ UNCHANGED <<tx, peer, busy, issued, polls, answers, claimed, skipped>>

WaitReadySkip ==
  /\ Reading("waitReady") /\ ReadLine
  /\ Head(rx).text # "+MTREADY"
  /\ skipped' = skipped \cup ({Head(rx).event} \ {0})
  /\ UNCHANGED <<tx, peer, calls, busy, issued, polls, answers, handled, claimed>>

WaitReadyTimeout ==
  /\ Reading("waitReady")
  /\ Leave
  /\ UNCHANGED <<rx, tx, peer, issued, polls, answers, handled, claimed, skipped>>

\* The URC handler returns; waitReady() itself returns with it.
CallbackReturns ==
  /\ calls # <<>> /\ Top.inCallback
  /\ IF Top.reader = "waitReady"
       THEN Leave
       ELSE /\ calls' = [calls EXCEPT ![Len(calls)].inCallback = FALSE]
            /\ UNCHANGED busy
  /\ UNCHANGED <<rx, tx, peer, issued, polls, answers, handled, claimed, skipped>>

\* The hardware reset path: with reset asserted, everything received is
\* dropped, and the co-processor forgets what it was doing.
FlushInput ==
  /\ calls = <<>> /\ reboots < MaxReboots
  /\ rx' = <<>> /\ tx' = <<>>
  /\ skipped' = skipped \cup ({rx[i].event : i \in DOMAIN rx} \ {0})
  /\ serving' = 0 /\ booting' = TRUE /\ reboots' = reboots + 1
  /\ UNCHANGED <<raised, calls, busy, issued, polls, answers, handled, claimed>>

---------------------------------------------------------------------------
(* [external] The co-processor.                                            *)

Send(lines) == rx' = rx \o lines
Reply(text) == [text |-> text, cmd |-> serving, event |-> 0]

CoprocTakes ==
  /\ ~booting /\ serving = 0 /\ tx # <<>>
  /\ serving' = Head(tx).cmd
  /\ tx' = Tail(tx)
  \* A query answers with its own result line, an attribute read with +MTATTR.
  /\ \/ Send(<<[text |-> IF Head(tx).attrRead THEN "+MTATTR" ELSE "+MTEP",
                cmd |-> Head(tx).cmd, event |-> 0]>>)
     \/ UNCHANGED rx
  /\ UNCHANGED <<host, booting, raised, reboots>>

CoprocOk ==
  /\ serving # 0 /\ Send(<<Reply("OK")>>)
  /\ serving' = 0
  /\ UNCHANGED <<tx, host, booting, raised, reboots>>

CoprocError ==
  /\ serving # 0
  /\ Send(<<Reply("ERROR")>>) \/ Send(<<Reply("+MTERR"), Reply("ERROR")>>)
  /\ serving' = 0
  /\ UNCHANGED <<tx, host, booting, raised, reboots>>

CoprocRaises ==
  /\ ~booting /\ raised < MaxEvents
  /\ raised' = raised + 1
  /\ \E text \in {"+MTEVT", "+MTATTR"} :
       Send(<<[text |-> text, cmd |-> 0, event |-> raised']>>)
  /\ UNCHANGED <<tx, host, serving, booting, reboots>>

\* A reboot of its own: what it had not answered is gone, what it had sent
\* is already on the wire, and the boot ROM prints on the same wire.
CoprocReboots ==
  /\ reboots < MaxReboots /\ ~booting
  /\ Send(<<[text |-> "boot noise", cmd |-> 0, event |-> 0]>>)
  /\ tx' = <<>> /\ serving' = 0
  /\ booting' = TRUE /\ reboots' = reboots + 1
  /\ UNCHANGED <<host, raised>>

CoprocReady ==
  /\ booting
  /\ Send(<<[text |-> "+MTREADY", cmd |-> 0, event |-> 0]>>)
  /\ booting' = FALSE
  /\ UNCHANGED <<tx, host, serving, raised, reboots>>

---------------------------------------------------------------------------
ReaderStep ==
  \/ CommandOk \/ CommandError \/ CommandMterr \/ CommandURC \/ CommandResult
  \/ CommandTimeout
  \/ PollLine \/ PollEnd
  \/ WaitReadyMarker \/ WaitReadySkip \/ WaitReadyTimeout

Next ==
  \/ ReadAttribute \/ OtherCommand
  \/ Poll \/ WaitReady \/ FlushInput
  \/ ReaderStep \/ CallbackReturns
  \/ CoprocTakes \/ CoprocOk \/ CoprocError
  \/ CoprocRaises \/ CoprocReboots \/ CoprocReady

Spec == Init /\ [][Next]_vars

\* The host thread keeps running, millis() keeps advancing and a sketch's
\* callback returns; nothing is assumed of the co-processor.
Fairness == WF_vars(ReaderStep) /\ WF_vars(CallbackReturns)
FairSpec == Spec /\ Fairness

---------------------------------------------------------------------------
TypeOK ==
  /\ rx \in Seq(Line)
  /\ tx \in Seq([cmd : Commands, attrRead : BOOLEAN])
  /\ serving \in {0} \cup Commands
  /\ booting \in BOOLEAN /\ busy \in BOOLEAN
  /\ calls \in Seq(Frame)
  /\ issued \in 0 .. MaxCommands /\ polls \in 0 .. MaxCalls
  /\ raised \in 0 .. MaxEvents /\ reboots \in 0 .. MaxReboots
  /\ DOMAIN answers \subseteq Commands
  /\ \A c \in DOMAIN answers :
       answers[c] \in [rc : Returns, terminal : {0} \cup Commands,
                       code : {0} \cup Commands]
  /\ handled \in Seq(Line)
  /\ claimed \subseteq [event : Events, cmd : Commands, attrRead : BOOLEAN]
  /\ skipped \subseteq Events

\* The stream has one reader: a call made from a callback never reads beside
\* the call that dispatched it, and _busy is up exactly while one reads
\* (command(), the re-entrancy comment at HearthLink.cpp:139).
OneReader == Len(calls) \in {0, 1} /\ (busy <=> calls # <<>>)

\* The terminal line, and the +MTERR code, a command returns with are its own
\* unless an earlier command timed out: only then can a late answer be taken
\* for the next command's.
OwnAnswer ==
  \A c \in DOMAIN answers :
    {answers[c].terminal, answers[c].code} \subseteq {0, c}
    \/ \E d \in DOMAIN answers : d < c /\ answers[d].rc = TimedOut

\* No URC the co-processor raised disappears: it waits, was handed to the
\* handler, was dropped by the reset path, or is a +MTATTR change that arrived
\* while an attribute read was in flight (HearthLink.cpp:159).
EventsDelivered ==
  \A e \in 1 .. raised :
    \/ \E i \in DOMAIN rx : rx[i].event = e
    \/ \E i \in DOMAIN handled : handled[i].event = e
    \/ e \in skipped
    \/ \E x \in claimed : x.event = e /\ x.attrRead

\* The handler sees URCs once each and in the order they were raised.
EventsInOrder ==
  \A i, j \in DOMAIN handled :
    i < j /\ handled[i].event # 0 /\ handled[j].event # 0
      => handled[i].event < handled[j].event

\* command(), poll() and waitReady() all return, whatever the co-processor
\* does or fails to do.
CallsReturn == calls # <<>> ~> calls = <<>>
===========================================================================
