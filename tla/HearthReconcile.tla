-------------------------- MODULE HearthReconcile --------------------------
(***************************************************************************)
(* The endpoint registry (MatterEndPoint.cpp), the reconcile of the        *)
(* sketch's composition with the co-processor's (ArduinoMatter::begin()),  *)
(* the expected-reboot arm it needs (Hearth.cpp), and the event            *)
(* subscription every reboot loses (HearthThread.cpp).                     *)
(*                                                                         *)
(* The co-processor keeps its composition in flash, applies a new one by   *)
(* rebooting, and may reboot on its own at any moment: a command in flight *)
(* is lost and a +MTREADY follows.  What it keeps in RAM goes: the open    *)
(* AT+MTEP session, the event mask and each endpoint's resent state.       *)
(*                                                                         *)
(* The transport is HearthLink's, without late answers: a command times    *)
(* out only when a reboot took it.                                         *)
(***************************************************************************)
EXTENDS Integers, Sequences, FiniteSets

CONSTANTS
  Endpoints,    \* the sketch's endpoint objects
  TypeOf,       \* the device type each of them declares
  Stored,       \* compositions a co-processor may start with
  MaxBegins,    \* bound: reconciles
  MaxReboots,   \* bound: reboots of the co-processor's own
  MaxToggles    \* bound: changes of the callback registration

ASSUME ReconcileAssumption ==
  /\ IsFiniteSet(Endpoints) /\ DOMAIN TypeOf = Endpoints
  /\ Stored \subseteq Seq({TypeOf[e] : e \in Endpoints})
  /\ MaxBegins \in Nat /\ MaxReboots \in Nat /\ MaxToggles \in Nat

Types == {TypeOf[e] : e \in Endpoints}
Ids   == 1 .. Cardinality(Endpoints)

VARIABLES
  \* The registry.
  declared,    \* _hearthDeclared
  gone,        \* endpoint objects already destroyed
  reconciled,  \* _hearthReconciled
  id,          \* each object's endpoint_id, 0 before it is adopted
  \* The library.
  pc,          \* where begin() is, or the sketch's own call
  at,          \* where hearthCommand() or poll() is
  attempt,     \* begin()'s round
  index,       \* the endpoint it writes or resends
  answer,      \* what the last command came to
  drain,       \* the exchange hearthDrainEvtResubscribe() has in flight
  failed,      \* _reconcileFailed
  expecting,   \* _expectingReboot
  seen,        \* _expectedRebootSeen
  callback,    \* a role-change callback is registered
  resubscribe, \* _evtResubscribeNeeded
  \* [external] The co-processor.
  power,       \* "up", "leaving" for an apply it answered, or "down"
  stored,      \* the composition in its flash, which it serves
  session,     \* the one AT+MTEP= is building, if a session is open
  applying,    \* the one it goes down for
  mask,        \* bit 28 of its event mask
  held,        \* the ids whose state was resent
  request,     \* the command it has not answered
  rx,          \* lines on their way to the host
  \* History.
  begins, reboots, toggles, applies,
  settled,     \* the last begin() ended in the identical case
  fresh        \* no reboot since the co-processor answered that begin()

registry == <<declared, gone, reconciled, id>>
link     == <<answer, expecting, seen, resubscribe>>
device   == <<power, stored, session, applying, mask, held>>
history  == <<begins, reboots, toggles, applies, settled, fresh>>
vars     == <<registry, pc, at, attempt, index, drain, failed, callback, link,
              device, request, rx, history>>

Queries  == {"AT+MTEP?", "AT+MTFABRICS?", "AT+MTEVT?"}
Ops      == Queries \cup {"AT+MTEPCLEAR", "AT+MTEP=", "AT+MTEPAPPLY", "resend", "AT+MTEVT="}

NoAnswer == [rc |-> "none", list |-> <<>>]
Answer(rc, list) == [rc |-> rc, list |-> list]
NoRequest == [op |-> "none", arg |-> 0]
Ready == [line |-> "+MTREADY", answer |-> NoAnswer]
Line(a) == [line |-> "answer", answer |-> a]

Init ==
  /\ declared = <<>> /\ gone = {} /\ reconciled = FALSE
  /\ id = [e \in Endpoints |-> 0]
  /\ pc = "loop" /\ at = "out" /\ attempt = 0 /\ index = 0 /\ answer = NoAnswer
  /\ drain = "none" /\ failed = FALSE /\ expecting = FALSE /\ seen = FALSE
  /\ callback = FALSE /\ resubscribe = FALSE
  /\ power = "up" /\ stored \in Stored /\ session = {} /\ applying = FALSE
  /\ mask = FALSE /\ held = {} /\ request = NoRequest /\ rx = <<>>
  /\ begins = 0 /\ reboots = 0 /\ toggles = 0 /\ applies = 0
  /\ settled = FALSE /\ fresh = FALSE

DeclaredSet == {declared[i] : i \in DOMAIN declared}

---------------------------------------------------------------------------
(* The registry.                                                           *)

Idle == pc = "loop" /\ at = "out"

\* hearthDeclare() of an object that is not declared yet.
DeclareEndpoint ==
  /\ Idle /\ ~reconciled
  /\ \E e \in Endpoints \ (DeclaredSet \cup gone) : declared' = Append(declared, e)
  /\ UNCHANGED <<gone, reconciled, id, pc, at, attempt, index, drain, failed, callback,
                 link, device, request, rx, history>>

\* ~MatterEndPoint(): hearthUndeclare() closes the gap.
DestroyEndpoint ==
  /\ Idle
  /\ \E k \in DOMAIN declared :
       /\ declared' = [i \in 1 .. Len(declared) - 1 |->
                         IF i < k THEN declared[i] ELSE declared[i + 1]]
       /\ gone' = gone \cup {declared[k]}
  /\ UNCHANGED <<reconciled, id, pc, at, attempt, index, drain, failed, callback, link,
                 device, request, rx, history>>

\* onThreadRoleChange(), with a callback or with none.
RegisterCallback ==
  /\ Idle /\ toggles < MaxToggles
  /\ callback' = ~callback /\ resubscribe' = TRUE /\ toggles' = toggles + 1
  /\ UNCHANGED <<registry, pc, at, attempt, index, drain, failed, answer, expecting, seen,
                 device, request, rx, begins, reboots, applies, settled, fresh>>

---------------------------------------------------------------------------
(* hearthCommand() and poll(): poll, drain, command, drain.                *)

\* The command begin() is at.
OpAt == CASE pc = "query"   -> "AT+MTEP?"
          [] pc = "fabrics" -> "AT+MTFABRICS?"
          [] pc = "clear"   -> "AT+MTEPCLEAR"
          [] pc = "write"   -> "AT+MTEP="
          [] pc = "apply"   -> "AT+MTEPAPPLY"
          [] pc = "resend"  -> "resend"

Polling == pc \in {"loop", "wait"}

\* Nobody reads what is sent to a co-processor that is down.
Send(op, arg) == request' = IF power = "down" THEN NoRequest ELSE [op |-> op, arg |-> arg]

SketchPolls ==
  /\ Idle /\ at' = "poll"
  /\ UNCHANGED <<registry, pc, attempt, index, drain, failed, callback, link, device,
                 request, rx, history>>

Reading == at \in {"poll", "sent"} \/ drain # "none"
Hears(line) == Reading /\ rx # <<>> /\ Head(rx).line = line /\ rx' = Tail(rx)

\* hearthOnURCLine() on +MTREADY: an armed reboot ends its wait, any other is
\* reported to the sketch.
DispatchReady ==
  /\ Hears("+MTREADY")
  /\ resubscribe' = (resubscribe \/ callback)
  /\ expecting' = FALSE /\ seen' = (seen \/ expecting)
  /\ UNCHANGED <<registry, pc, at, attempt, index, drain, failed, callback, answer,
                 device, request, history>>

\* The stream is empty.
PollEnds ==
  /\ at = "poll" /\ rx = <<>> /\ at' = "polled"
  /\ UNCHANGED <<registry, pc, attempt, index, drain, failed, callback, link, device,
                 request, rx, history>>

\* poll() returns, or hearthCommand() goes on to its command.
PollDone ==
  /\ at = "drained"
  /\ IF Polling THEN at' = "out" /\ UNCHANGED request
                 ELSE at' = "sent" /\ Send(OpAt, index)
  /\ applies' = IF pc = "apply" THEN applies + 1 ELSE applies
  /\ UNCHANGED <<registry, pc, attempt, index, drain, failed, callback, link, device, rx,
                 begins, reboots, toggles, settled, fresh>>

\* The terminal, or the timeout of a command a reboot took.
Lost == rx = <<>> /\ request = NoRequest
TimedOut == Answer("timeout", <<>>)
Incoming == {TimedOut} \cup {rx[i].answer : i \in DOMAIN rx}
Taken(a) == \/ Hears("answer") /\ a = Head(rx).answer
            \/ Lost /\ a = TimedOut /\ UNCHANGED rx

CommandAnswered ==
  /\ at = "sent" /\ at' = "answered"
  /\ \E a \in Incoming : Taken(a) /\ answer' = a
  /\ UNCHANGED <<registry, pc, attempt, index, drain, failed, callback, expecting, seen,
                 resubscribe, device, request, history>>

---------------------------------------------------------------------------
(* hearthDrainEvtResubscribe(), in both tails.                             *)

DrainAt  == at \in {"polled", "answered"}
TailDone == at' = (IF at = "polled" THEN "drained" ELSE "out") /\ drain' = "none"

drainRest == <<registry, pc, attempt, index, answer, failed, callback, expecting, seen,
               device, history>>

DrainNothing ==
  /\ DrainAt /\ drain = "none" /\ ~resubscribe /\ TailDone
  /\ UNCHANGED <<drainRest, resubscribe, request, rx>>

\* The flag is cleared before the exchange.
DrainReads ==
  /\ DrainAt /\ drain = "none" /\ resubscribe
  /\ resubscribe' = FALSE /\ drain' = "read" /\ Send("AT+MTEVT?", 0)
  /\ UNCHANGED <<drainRest, at, rx>>

\* Either exchange that fails sets it again, for the next call.
DrainWrites ==
  /\ drain = "read"
  /\ \E a \in Incoming :
       /\ Taken(a)
       /\ IF a.rc = "ok"
            THEN /\ drain' = "write" /\ Send("AT+MTEVT=", IF callback THEN 1 ELSE 0)
                 /\ UNCHANGED <<resubscribe, at>>
            ELSE resubscribe' = TRUE /\ TailDone /\ UNCHANGED request
  /\ UNCHANGED drainRest

\* Mutant: a write that failed is not tried again.
DrainWrittenOnce ==
  /\ drain = "write"
  /\ \E a \in Incoming : Taken(a)
  /\ TailDone
  /\ UNCHANGED <<drainRest, resubscribe, request>>

DrainWritten ==
  /\ drain = "write"
  /\ \E a \in Incoming :
       /\ Taken(a)
       /\ resubscribe' = (resubscribe \/ a.rc # "ok")
  /\ TailDone
  /\ UNCHANGED <<drainRest, request>>

---------------------------------------------------------------------------
(* ArduinoMatter::begin().                                                 *)

Returned(step) == pc = step /\ at = "out"
Calls(step)    == pc' = step /\ at' = "poll"
BeginReturns   == pc' = "loop" /\ UNCHANGED at

beginRest == <<gone, declared, drain, callback, answer, resubscribe, device, request, rx,
               reboots, toggles, applies>>

\* A reconcile that failed is not attempted again.
Begin ==
  /\ Idle /\ ~failed /\ begins < MaxBegins
  /\ begins' = begins + 1 /\ attempt' = 0 /\ settled' = FALSE
  /\ Calls("query")
  /\ UNCHANGED <<beginRest, reconciled, id, index, failed, expecting, seen, fresh>>

\* hearthAbortReconcile().
Abort == failed' = TRUE /\ BeginReturns

DeclaredTypes == [i \in DOMAIN declared |-> TypeOf[declared[i]]]

\* Mutant: a composition is compared by what it holds, not by its order.
IdenticalUnordered(list) ==
  /\ Len(list) = Len(declared)
  /\ \A i \in DOMAIN list : \E j \in DOMAIN declared : list[i] = DeclaredTypes[j]

Identical(list) == list = DeclaredTypes

\* Mutant: only the first reconcile resends.
AdoptsOnce(i) ==
  IF i <= Len(declared) /\ ~reconciled
    THEN /\ id' = [id EXCEPT ![declared[i]] = i]
         /\ index' = i /\ Calls("resend") /\ UNCHANGED <<reconciled, settled>>
    ELSE /\ reconciled' = TRUE /\ settled' = TRUE /\ BeginReturns
         /\ UNCHANGED <<id, index>>

\* The resend of endpoint i, which adopts its id first; or the end.
Adopts(i) ==
  IF i <= Len(declared)
    THEN /\ id' = [id EXCEPT ![declared[i]] = i]
         /\ index' = i /\ Calls("resend") /\ UNCHANGED <<reconciled, settled>>
    ELSE /\ reconciled' = TRUE /\ settled' = TRUE /\ BeginReturns
         /\ UNCHANGED <<id, index>>

Rounds == 2   \* kHearthMaxReconcileAttempts

\* Mutant: the last round applies as well.
MayApplyAgain == attempt < Rounds

MayApply == attempt < Rounds - 1

QueryReturned ==
  /\ Returned("query")
  /\ IF answer.rc # "ok"
       THEN Abort /\ UNCHANGED <<reconciled, id, index, settled>>
       ELSE IF Identical(answer.list)
       THEN Adopts(1) /\ UNCHANGED failed
       ELSE IF MayApply
       THEN Calls("fabrics") /\ UNCHANGED <<reconciled, id, index, settled, failed>>
       ELSE Abort /\ UNCHANGED <<reconciled, id, index, settled>>
  /\ UNCHANGED <<beginRest, begins, attempt, expecting, seen, fresh>>

\* What an endpoint's hearthOnReconciled() is answered is not looked at.
ResendReturned ==
  /\ Returned("resend") /\ Adopts(index + 1)
  /\ UNCHANGED <<beginRest, begins, attempt, failed, expecting, seen, fresh>>

\* The warning it decides about is not modelled.
FabricsReturned ==
  /\ Returned("fabrics") /\ Calls("clear")
  /\ UNCHANGED <<beginRest, begins, reconciled, id, attempt, index, failed, expecting, seen,
                 settled, fresh>>

\* Mutant: the arm keeps a reboot it saw before.
WritesFromSeen(i) ==
  IF i <= Len(declared)
    THEN index' = i /\ Calls("write") /\ UNCHANGED <<expecting, seen>>
    ELSE index' = 0 /\ Calls("apply") /\ expecting' = TRUE /\ UNCHANGED seen

\* The next AT+MTEP=, or the arm and AT+MTEPAPPLY.
WritesFrom(i) ==
  IF i <= Len(declared)
    THEN index' = i /\ Calls("write") /\ UNCHANGED <<expecting, seen>>
    ELSE /\ index' = 0 /\ Calls("apply")
         /\ expecting' = TRUE /\ seen' = FALSE

ClearReturned ==
  /\ Returned("clear")
  /\ IF answer.rc = "ok" THEN WritesFrom(1) /\ UNCHANGED failed
                         ELSE Abort /\ UNCHANGED <<index, expecting, seen>>
  /\ UNCHANGED <<beginRest, begins, reconciled, id, attempt, settled, fresh>>

WriteReturned ==
  /\ Returned("write")
  /\ IF answer.rc = "ok" THEN WritesFrom(index + 1) /\ UNCHANGED failed
                         ELSE Abort /\ UNCHANGED <<index, expecting, seen>>
  /\ UNCHANGED <<beginRest, begins, reconciled, id, attempt, settled, fresh>>

\* Mutant: an apply that failed leaves the arm.
ApplyReturnedArmed ==
  /\ Returned("apply")
  /\ IF answer.rc = "ok" THEN pc' = "wait" /\ UNCHANGED <<at, failed>> ELSE Abort
  /\ UNCHANGED <<beginRest, begins, reconciled, id, attempt, index, expecting, seen, settled,
                 fresh>>

ApplyReturned ==
  /\ Returned("apply")
  /\ IF answer.rc = "ok"
       THEN pc' = "wait" /\ UNCHANGED <<at, failed, expecting>>
       ELSE Abort /\ expecting' = FALSE
  /\ UNCHANGED <<beginRest, begins, reconciled, id, attempt, index, seen, settled, fresh>>

\* The wait polls until the armed reboot was seen, or 15 s are over.
WaitPolls ==
  /\ Returned("wait") /\ ~seen /\ Calls("wait")
  /\ UNCHANGED <<beginRest, begins, reconciled, id, attempt, index, failed, expecting, seen,
                 settled, fresh>>

WaitSeen ==
  /\ Returned("wait") /\ seen
  /\ attempt' = attempt + 1 /\ Calls("query")
  /\ UNCHANGED <<beginRest, begins, reconciled, id, index, failed, expecting, seen, settled,
                 fresh>>

\* Mutant: only a wait that is still armed gives up.
WaitTimeoutArmed ==
  /\ pc = "wait" /\ at = "drained" /\ expecting
  /\ failed' = TRUE /\ pc' = "loop" /\ at' = "out" /\ expecting' = FALSE
  /\ UNCHANGED <<beginRest, begins, reconciled, id, attempt, index, seen, settled, fresh>>

\* The clock is looked at after each poll, whatever that poll has seen.
WaitTimeout ==
  /\ pc = "wait" /\ at = "drained"
  /\ failed' = TRUE /\ pc' = "loop" /\ at' = "out" /\ expecting' = FALSE
  /\ UNCHANGED <<beginRest, begins, reconciled, id, attempt, index, seen, settled, fresh>>

\* hearthCheckExpectedRebootExpiry(): commands that drain for long can make
\* the 20 s of the arm pass before the 15 s of the wait.
ArmExpires ==
  /\ expecting /\ expecting' = FALSE
  /\ at \in {"polled", "answered"} /\ drain = "none"
  /\ UNCHANGED <<registry, pc, at, attempt, index, drain, failed, callback, answer, seen,
                 resubscribe, device, request, rx, history>>

---------------------------------------------------------------------------
(* [external] The co-processor.                                            *)

deviceRest == <<registry, pc, at, attempt, index, drain, failed, callback, link, begins,
                toggles, applies, settled>>

Serve(op, a) == /\ power # "down" /\ request.op = op
                /\ request' = NoRequest /\ rx' = Append(rx, Line(a))

Ok == Answer("ok", <<>>)
Refused == Answer("error", <<>>)

ServeQuery ==
  /\ \/ Serve("AT+MTEP?", Answer("ok", stored)) /\ fresh' = (power = "up")
     \/ Serve("AT+MTFABRICS?", Ok) /\ UNCHANGED fresh
     \/ Serve("AT+MTEVT?", Ok) /\ UNCHANGED fresh
  /\ UNCHANGED <<deviceRest, reboots, device>>

TakeMask ==
  /\ Serve("AT+MTEVT=", Ok) /\ mask' = (request.arg = 1)
  /\ UNCHANGED <<deviceRest, reboots, fresh, power, stored, session, applying, held>>

RefuseMask ==
  /\ Serve("AT+MTEVT=", Refused)
  /\ UNCHANGED <<deviceRest, reboots, fresh, device>>

ServeResend ==
  /\ Serve("resend", Ok) /\ held' = held \cup {request.arg}
  /\ UNCHANGED <<deviceRest, reboots, fresh, power, stored, session, applying, mask>>

ServeClear ==
  /\ Serve("AT+MTEPCLEAR", Ok) /\ session' = {<<>>}
  /\ UNCHANGED <<deviceRest, reboots, fresh, power, stored, applying, mask, held>>

\* A type it does not know, or one endpoint too many, is refused.
ServeWrite ==
  /\ \/ /\ Serve("AT+MTEP=", Ok)
        /\ session' = {Append(s, TypeOf[declared[request.arg]]) :
                         s \in IF session = {} THEN {<<>>} ELSE session}
     \/ Serve("AT+MTEP=", Refused) /\ UNCHANGED session
  /\ UNCHANGED <<deviceRest, reboots, fresh, power, stored, applying, mask, held>>

\* An apply needs an open session, and is answered before the reboot it takes.
ServeApply ==
  /\ \/ Serve("AT+MTEPAPPLY", Ok) /\ session # {} /\ power' = "leaving" /\ applying' = TRUE
     \/ Serve("AT+MTEPAPPLY", Refused) /\ UNCHANGED <<power, applying>>
  /\ UNCHANGED <<deviceRest, reboots, fresh, stored, session, mask, held>>

Down == /\ power' = "down" /\ request' = NoRequest
        /\ mask' = FALSE /\ held' = {} /\ fresh' = FALSE

GoesDown ==
  /\ power = "leaving" /\ Down
  /\ UNCHANGED <<deviceRest, reboots, stored, session, applying, rx>>

Reboots ==
  /\ power = "up" /\ reboots < MaxReboots /\ reboots' = reboots + 1 /\ Down
  /\ session' = {}
  /\ UNCHANGED <<deviceRest, stored, applying, rx>>

\* An applied composition that does not take is served as the old one.
ComesUp ==
  /\ power = "down" /\ power' = "up" /\ rx' = Append(rx, Ready)
  /\ stored' \in {stored} \cup (IF applying THEN session ELSE {})
  /\ applying' = FALSE /\ session' = {}
  /\ UNCHANGED <<deviceRest, reboots, fresh, mask, held, request>>

---------------------------------------------------------------------------
LibraryStep ==
  \/ DispatchReady \/ PollEnds \/ PollDone \/ CommandAnswered
  \/ DrainNothing \/ DrainReads \/ DrainWrites \/ DrainWritten
  \/ QueryReturned \/ ResendReturned \/ FabricsReturned \/ ClearReturned
  \/ WriteReturned \/ ApplyReturned \/ WaitPolls \/ WaitSeen
SketchStep == DeclareEndpoint \/ DestroyEndpoint \/ RegisterCallback \/ Begin
ServeStep ==
  \/ ServeQuery \/ TakeMask \/ RefuseMask \/ ServeResend \/ ServeClear \/ ServeWrite \/ ServeApply
CoprocStep == ServeStep \/ GoesDown \/ ComesUp

Next == LibraryStep \/ SketchStep \/ SketchPolls \/ WaitTimeout \/ ArmExpires
          \/ CoprocStep \/ Reboots

Spec == Init /\ [][Next]_vars

\* The sketch keeps polling, the 15 seconds end, and the co-processor answers
\* and boots, and does not refuse the event mask for ever.  Nothing else has to
\* happen.
Fairness ==
  /\ WF_vars(LibraryStep) /\ WF_vars(SketchPolls) /\ WF_vars(CoprocStep)
  /\ SF_vars(WaitTimeout) /\ SF_vars(TakeMask)
FairSpec == Spec /\ Fairness

---------------------------------------------------------------------------
TypeOK ==
  /\ declared \in Seq(Endpoints) /\ gone \subseteq Endpoints
  /\ Cardinality(DeclaredSet) = Len(declared)
  /\ id \in [Endpoints -> {0} \cup Ids]
  /\ pc \in {"loop", "query", "fabrics", "clear", "write", "apply", "wait", "resend"}
  /\ at \in {"out", "poll", "polled", "drained", "sent", "answered"}
  /\ attempt \in 0 .. Rounds - 1 /\ index \in 0 .. Cardinality(Endpoints)
  /\ answer.rc \in {"none", "ok", "error", "timeout"} /\ answer.list \in Seq(Types)
  /\ drain \in {"none", "read", "write"}
  /\ {reconciled, failed, expecting, seen, callback, resubscribe, settled, fresh,
      applying, mask} \subseteq BOOLEAN
  /\ power \in {"up", "leaving", "down"}
  /\ stored \in Seq(Types) /\ session \in SUBSET Seq(Types) /\ Cardinality(session) <= 1
  /\ held \subseteq Ids
  /\ request \in [op : Ops, arg : {0} \cup Ids] \cup {NoRequest}
  /\ \A i \in DOMAIN rx : rx[i].line \in {"+MTREADY", "answer"}

\* After a reconcile that ended well, every object still declared holds an id
\* under which the co-processor serves an endpoint of its own type, and no two
\* share one: an attribute write never lands on another endpoint
\* (MatterEndPoint.cpp:27).
AdoptedIds ==
  settled =>
    /\ \A e \in DeclaredSet : id[e] \in DOMAIN stored /\ stored[id[e]] = TypeOf[e]
    /\ \A e, f \in DeclaredSet : id[e] = id[f] => e = f

\* No sequence of begin() calls, reboots and refusals makes the host apply more
\* compositions than the sketch made, the first and one for each endpoint it
\* destroyed: a loop that calls begin() cannot keep the co-processor rebooting
\* (Hearth.cpp:1549).
AppliesBounded == applies <= 1 + Cardinality(gone)

\* The arm never outlives the apply it was taken for: any other reboot is
\* reported (Hearth.cpp:1674).
ArmScoped == expecting => pc \in {"apply", "wait"}

\* A reboot the host takes for the apply's is the apply's: what the next query
\* reads is the outcome, never a co-processor that has yet to go down
\* (Hearth.cpp:1545).
SeenMeansApplied == pc = "wait" /\ seen => ~applying

\* After a reconcile that ended well, with no reboot since it asked, the
\* co-processor holds what each endpoint resends (MatterEndPoint.h,
\* hearthOnReconciled()).
StateResent ==
  settled /\ fresh => \A e \in DeclaredSet : id[e] \in held

\* begin() returns, whatever the co-processor does.
BeginEnds == pc # "loop" ~> pc = "loop"

\* The subscription follows the registration in the end.
SubscriptionFollows == <>[](mask = callback)
============================================================================
