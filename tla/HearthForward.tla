--------------------------- MODULE HearthForward ---------------------------
(***************************************************************************)
(* Command forwarding: the co-processor forwards a controller's command    *)
(* (+MTCMD) and holds a window open for the host's verdict (AT+MTCMDRESP). *)
(*                                                                         *)
(* The host has one thread.  hearthCommand() and poll() (Hearth.cpp) each  *)
(* end with a chain of drains, and a drain sends commands whose own read   *)
(* loop, and whose own drains, dispatch further forwards: the nesting is   *)
(* where answers, pushes and merges can change places, so the C++ call     *)
(* stack is part of the state.  Two endpoint types use the machinery:      *)
(* the water heater pushes its BoostState after an accepted verdict        *)
(* (MatterWaterHeater.cpp), and the EVSE fetches the proposed schedule     *)
(* before it can give one, into the buffer its reconcile reads the live    *)
(* schedule into (MatterEvse.cpp).                                         *)
(*                                                                         *)
(* The transport is HearthLink's, without lost answers: a call into it     *)
(* while it is reading is refused, and its read loop dispatches URCs.      *)
(* The heater is declared before the EVSE.                                 *)
(*                                                                         *)
(* The last of the drains is the firmware update's.  What it does is       *)
(* HearthDownload's and HearthApply's; here it sends a command of its own  *)
(* when it has work, one for however many it takes.                        *)
(***************************************************************************)
EXTENDS Integers, Sequences

CONSTANTS
  MaxEvents,      \* bound: commands forwarded and blocks offered in a behaviour
  Starts,         \* where the sketch is at first: "begin" or "loop"
  Kinds,          \* kinds of command the controllers invoke
  Days,           \* days of the charging schedule
  QueueDepth      \* kHearthCmdRespQueueDepth

ASSUME ForwardAssumption ==
  /\ MaxEvents \in Nat
  /\ Starts \subseteq {"begin", "loop"}
  /\ Kinds \subseteq {"lock", "boost", "cancel", "targets"}
  /\ QueueDepth \in Nat

Seqs == 1 .. MaxEvents

\* A forwarded command, and what the window it opened came to.
Forward == [kind : Kinds, days : SUBSET Days,
            outcome : {"open", "allow", "deny", "timeout"}]

\* Commands the host sends: "app" stands for any command of the sketch,
\* "callback" for one issued from inside a callback.
Ops == {"app", "callback", "resp", "push", "fetch", "getall", "update"}

Labels == {"poll", "cmd", "link", "resp", "deferred", "tail", "ret",  \* hearthCommand, poll
           "read", "await", "acted", "served",              \* inside the link
           "heater", "evse", "fetched", "merge",            \* the registry walk
           "sync", "synced",                                \* the reconcile
           "update"}                                        \* the update's drain
Frame == [at : Labels, op : Ops \cup {"none"}, seq : {0} \cup Seqs,
          allow : BOOLEAN, callback : BOOLEAN, rc : {0, 1}]

\* Whose rows each day holds, and the proposal they were fetched for, 0 for
\* the live schedule.
DayRows == [Days -> {0} \cup Seqs]
Rows    == [proposal : {0} \cup Seqs, rows : DayRows]
NoDays  == [d \in Days |-> 0]

VARIABLES
  forwards,    \* [external] every command forwarded so far, by seq
  boost,       \* [external] the device's BoostState
  schedule,    \* [external] the device's schedule: whose rows each day holds
  rx,          \* lines on their way to the host
  stack,       \* the host's calls in progress, innermost last
  respQueue,   \* _cmdRespQueue
  deferred,    \* _deferredWorkPending
  lastError,   \* _lastError, and the command that set it
  heaterPush,  \* pendingBoostPush, with the command that asked for it
  evsePending, \* pendingSetTargets / pendingSeq / pendingDayMask
  rowBuf,      \* _rowBuf
  cache,       \* MatterEvse's _schedule
  blocks,      \* [external] blocks offered so far
  updateWork,  \* the update's drain has something to do (_havePendingBlock)
  dropped,     \* history: verdicts a full queue refused
  shown,       \* proposals the sketch was asked about, as it saw them
  wire         \* history: verdicts and pushes in the order they were sent

coproc == <<forwards, boost, schedule>>
evse   == <<evsePending, rowBuf, cache, shown>>
update == <<blocks, updateWork>>
vars   == <<coproc, rx, stack, respQueue, deferred, lastError, heaterPush,
            evse, update, dropped, wire>>

NoPush == [seq |-> 0, value |-> "inactive"]

Call(at, op, seq, allow) ==
  [at |-> at, op |-> op, seq |-> seq, allow |-> allow,
   callback |-> FALSE, rc |-> 0]

\* The sketch is in its loop, or in the begin() that reconciles the EVSE.
Init ==
  /\ forwards = <<>> /\ boost = "inactive" /\ schedule = NoDays
  /\ rx = <<>> /\ respQueue = <<>>
  /\ stack \in {IF s = "loop" THEN <<>> ELSE <<Call("sync", "none", 0, FALSE)>> : s \in Starts}
  /\ deferred = FALSE /\ lastError = [op |-> "none", rc |-> 0]
  /\ heaterPush = NoPush
  /\ evsePending = 0 /\ rowBuf = [proposal |-> 0, rows |-> NoDays]
  /\ cache = NoDays /\ blocks = 0 /\ updateWork = FALSE
  /\ dropped = {} /\ shown = {} /\ wire = <<>>

---------------------------------------------------------------------------
(* The call stack.                                                         *)

Top     == stack[Len(stack)]
At(l)   == stack # <<>> /\ ~Top.callback /\ Top.at = l
Below   == SubSeq(stack, 1, Len(stack) - 1)
Goto(l) == stack' = Append(Below, [Top EXCEPT !.at = l])
GotoCalling(l, frame) == stack' = Append(Append(Below, [Top EXCEPT !.at = l]), frame)
Return  == stack' = Below

\* _link.busy(): some reader is active further up or down the stack.
Busy == \E i \in DOMAIN stack : stack[i].at \in {"read", "await", "acted", "served"}

\* Mutant: the drains no longer check.
DrainUnchecked == TRUE

\* Both drains check it before they claim anything.
DrainMayRun == ~Busy

\* The sketch calls into the library from its loop, or from a callback.
Calls ==
  /\ IF stack = <<>>
       THEN stack' \in {<<Call("poll", "none", 0, FALSE)>>,
                        <<Call("cmd", "app", 0, FALSE)>>}
       ELSE /\ Top.callback
            /\ stack' \in {Append(stack, Call("poll", "none", 0, FALSE)),
                           Append(stack, Call("cmd", "callback", 0, FALSE))}
  /\ UNCHANGED <<coproc, rx, respQueue, deferred, lastError, heaterPush, evse,
                 update, dropped, wire>>

---------------------------------------------------------------------------
(* hearthCommand() and poll().                                             *)

rest == <<coproc, rx, respQueue, deferred, lastError, heaterPush, evse,
          update, dropped, wire>>

\* hearthCommand() polls first.
CommandEntry == At("cmd") /\ GotoCalling("link", Call("poll", "none", 0, FALSE))
                /\ UNCHANGED rest

\* Mutant: poll() leaves the verdicts to hearthCommand()'s tail.
PollEntryUndrained ==
  /\ At("poll")
  /\ IF Busy THEN Goto("deferred")
             ELSE GotoCalling("deferred", Call("read", "none", 0, FALSE))
  /\ UNCHANGED rest

\* poll(): _link.poll() is a no-op while the link is reading.
PollEntry ==
  /\ At("poll")
  /\ IF Busy THEN Goto("resp")
             ELSE GotoCalling("resp", Call("read", "none", 0, FALSE))
  /\ UNCHANGED rest

Sent(op, seq) == IF op \in {"resp", "push"} THEN Append(wire, [op |-> op, seq |-> seq])
                                            ELSE wire

\* hearthCommand()'s own _link.command(): refused while the link is reading.
CommandLink ==
  /\ At("link")
  /\ IF Busy
       THEN /\ Goto("resp")
            /\ lastError' = [op |-> Top.op, rc |-> 0]
            /\ UNCHANGED wire
       ELSE /\ GotoCalling("resp", Call("await", Top.op, Top.seq, Top.allow))
            /\ wire' = Sent(Top.op, Top.seq)
            /\ UNCHANGED lastError
  /\ UNCHANGED <<coproc, rx, respQueue, deferred, heaterPush, evse, update, dropped>>

\* hearthDrainCmdRespQueue(): oldest first, each its own exchange.
DrainResp ==
  /\ At("resp")
  /\ IF respQueue # <<>> /\ DrainMayRun
       THEN /\ respQueue' = Tail(respQueue)
            /\ IF Busy
                 THEN UNCHANGED <<stack, wire>>
                 ELSE /\ stack' = Append(stack, Call("await", "resp",
                                      Head(respQueue).seq, Head(respQueue).allow))
                      /\ wire' = Sent("resp", Head(respQueue).seq)
       ELSE Goto("deferred") /\ UNCHANGED <<respQueue, wire>>
  /\ UNCHANGED <<coproc, rx, deferred, lastError, heaterPush, evse, update, dropped>>

\* hearthDrainDeferredWork(): the flag is cleared before the walk, and the
\* walk's frame keeps the saved _lastError.
DrainDeferred ==
  /\ At("deferred")
  /\ IF deferred /\ DrainMayRun
       THEN /\ deferred' = FALSE
            /\ GotoCalling("tail", [Call("heater", lastError.op, 0, FALSE)
                                      EXCEPT !.rc = lastError.rc])
       ELSE Goto("tail") /\ UNCHANGED deferred
  /\ UNCHANGED <<coproc, rx, respQueue, lastError, heaterPush, evse,
                 update, dropped, wire>>

\* hearthDrainUpdate(): not while the link is reading, and not inside itself
\* (_draining).  It goes through hearthCommand(), with no saved _lastError.
\* The event-mask drain before it restores what it found.
Draining == \E i \in DOMAIN stack : stack[i].at = "update"

DrainUpdate ==
  /\ At("tail")
  /\ IF updateWork /\ ~Draining /\ DrainMayRun
       THEN /\ updateWork' = FALSE
            /\ GotoCalling("update", Call("cmd", "update", 0, FALSE))
       ELSE Goto("ret") /\ UNCHANGED updateWork
  /\ UNCHANGED <<coproc, rx, respQueue, deferred, lastError, heaterPush, evse, blocks,
                 dropped, wire>>

UpdateDrained == At("update") /\ Goto("ret") /\ UNCHANGED rest

\* The EVSE's frame learns from "allow" whether its fetch succeeded.
CallReturns ==
  /\ At("ret")
  /\ stack' = IF Top.op \in {"fetch", "getall"}
                THEN [Below EXCEPT ![Len(stack) - 1].allow = (Top.rc = 0)]
                ELSE Below
  /\ UNCHANGED rest

---------------------------------------------------------------------------
(* The registry walk of hearthDrainDeferredWork().                         *)

\* MatterWaterHeater::hearthOnDeferredWork(): claims the pending value, then
\* sends it.
HeaterWork ==
  /\ At("heater")
  /\ IF heaterPush.seq = 0
       THEN Goto("evse") /\ UNCHANGED heaterPush
       ELSE /\ GotoCalling("evse", Call("cmd", "push", heaterPush.seq,
                                        heaterPush.value = "active"))
            /\ heaterPush' = NoPush
  /\ UNCHANGED <<coproc, rx, respQueue, deferred, lastError, evse, update, dropped, wire>>

\* Mutant: the walk leaves its own sends' outcome behind.
WalkEndsUnrestored == Return /\ UNCHANGED lastError

WalkEnds == Return /\ lastError' = [op |-> Top.op, rc |-> Top.rc]

\* MatterEvse::hearthOnDeferredWork(): claims the proposal and fetches its rows.
EvseFetch ==
  /\ At("evse")
  /\ IF evsePending = 0
       THEN WalkEnds /\ UNCHANGED evsePending
       ELSE /\ stack' = Append(Append(Below, [Top EXCEPT !.at = "fetched",
                                                         !.seq = evsePending]),
                               Call("cmd", "fetch", evsePending, FALSE))
            /\ evsePending' = 0
            /\ UNCHANGED lastError
  /\ UNCHANGED <<coproc, rx, respQueue, deferred, heaterPush, rowBuf, cache,
                 shown, update, dropped, wire>>

\* A refused fetch ends it; otherwise the sketch decides on the rows in
\* _rowBuf and the verdict goes out through hearthCommand().
EvseVerdict ==
  /\ At("fetched")
  /\ IF ~Top.allow
       THEN WalkEnds /\ UNCHANGED shown
       ELSE /\ shown' = shown \cup {[seq |-> Top.seq, buf |-> rowBuf]}
            /\ \E ok \in BOOLEAN :
                 stack' = Append(Append(Below, [Top EXCEPT !.at = "merge", !.allow = ok]),
                                 Call("cmd", "resp", Top.seq, ok))
            /\ UNCHANGED lastError
  /\ UNCHANGED <<coproc, rx, respQueue, deferred, heaterPush, evsePending,
                 rowBuf, cache, update, dropped, wire>>

\* hearthMergeByDay(): the days of the mask are replaced by the proposal,
\* whatever AT+MTCMDRESP answered.
MergeByDay(held, days, rows) == [d \in Days |-> IF d \in days THEN rows[d] ELSE held[d]]

ProposedRows(s) == [d \in Days |-> IF d \in forwards[s].days THEN s ELSE 0]

Proposed(s) == CHOOSE x \in shown : x.seq = s

EvseMerge ==
  /\ At("merge")
  /\ cache' = IF Top.allow
                THEN MergeByDay(cache, forwards[Top.seq].days, Proposed(Top.seq).buf.rows)
                ELSE cache
  /\ WalkEnds
  /\ UNCHANGED <<coproc, rx, respQueue, deferred, heaterPush, evsePending,
                 rowBuf, shown, update, dropped, wire>>

---------------------------------------------------------------------------
(* MatterEvse::hearthOnReconciled(): the cache is cleared, then rebuilt    *)
(* from the live schedule.  A fetch is taken to fill the buffer.           *)

SyncClear ==
  /\ At("sync")
  /\ cache' = NoDays
  /\ GotoCalling("synced", Call("cmd", "getall", 0, FALSE))
  /\ UNCHANGED <<coproc, rx, respQueue, deferred, lastError, heaterPush, evsePending,
                 rowBuf, shown, update, dropped, wire>>

\* Rows added to days that hold some by now may exceed the day's limit, and
\* then the cache is cleared.
SyncRebuild ==
  /\ At("synced") /\ Return
  /\ IF ~Top.allow
       THEN UNCHANGED cache
       ELSE \/ cache' = [d \in Days |-> IF rowBuf.rows[d] # 0 THEN rowBuf.rows[d] ELSE cache[d]]
            \/ cache # NoDays /\ cache' = NoDays
  /\ UNCHANGED <<coproc, rx, respQueue, deferred, lastError, heaterPush, evsePending,
                 rowBuf, shown, update, dropped, wire>>

---------------------------------------------------------------------------
(* Inside the link: dispatching a forward, and the answer to a command.    *)

Reading == stack # <<>> /\ ~Top.callback /\ Top.at \in {"read", "await", "acted", "served"}

EnterCallback == stack' = Append(Below, [Top EXCEPT !.callback = TRUE])

\* hearthEnqueueCmdResp(): a full queue drops the newest.
Enqueue(s, allow) ==
  IF Len(respQueue) >= QueueDepth
    THEN dropped' = dropped \cup {s} /\ UNCHANGED respQueue
    ELSE respQueue' = Append(respQueue, [seq |-> s, allow |-> allow]) /\ UNCHANGED dropped

\* hearthDispatchCmd() for a command answered at once.  An accepted Boost or
\* CancelBoost records its push and arms the deferred walk.
DispatchVerdict ==
  /\ Reading /\ rx # <<>> /\ Head(rx).line = "+MTCMD"
  /\ rx' = Tail(rx)
  /\ LET s == Head(rx).seq IN
     /\ forwards[s].kind # "targets"
     /\ \E allow \in BOOLEAN :
          /\ Enqueue(s, allow)
          /\ IF allow /\ forwards[s].kind \in {"boost", "cancel"}
               THEN /\ heaterPush' = [seq |-> s, value |->
                          IF forwards[s].kind = "boost" THEN "active" ELSE "inactive"]
                    /\ deferred' = TRUE
               ELSE UNCHANGED <<heaterPush, deferred>>
  /\ EnterCallback
  /\ UNCHANGED <<coproc, lastError, evse, update, wire>>

\* Mutant: nothing asks for the deferred walk.
DispatchTargetsUnasked ==
  /\ Reading /\ rx # <<>> /\ Head(rx).line = "+MTCMD"
  /\ rx' = Tail(rx)
  /\ LET s == Head(rx).seq IN
     /\ forwards[s].kind = "targets"
     /\ IF evsePending # 0
          THEN Enqueue(s, FALSE) /\ UNCHANGED evsePending
          ELSE evsePending' = s /\ UNCHANGED <<respQueue, dropped>>
  /\ UNCHANGED <<coproc, stack, deferred, lastError, heaterPush, rowBuf, cache, shown,
                 update, wire>>

\* SetTargets: deferred, or refused while another is pending.
DispatchTargets ==
  /\ Reading /\ rx # <<>> /\ Head(rx).line = "+MTCMD"
  /\ rx' = Tail(rx)
  /\ LET s == Head(rx).seq IN
     /\ forwards[s].kind = "targets"
     /\ IF evsePending # 0
          THEN Enqueue(s, FALSE) /\ UNCHANGED <<evsePending, deferred>>
          ELSE /\ evsePending' = s
               /\ deferred' = TRUE
               /\ UNCHANGED <<respQueue, dropped>>
  /\ UNCHANGED <<coproc, stack, lastError, heaterPush, rowBuf, cache, shown,
                 update, wire>>

\* Any other URC, +MTCMDTO among them: a callback runs.
DispatchOther ==
  /\ Reading /\ rx # <<>> /\ Head(rx).line = "+MTCMDTO"
  /\ rx' = Tail(rx)
  /\ EnterCallback
  /\ UNCHANGED <<coproc, respQueue, deferred, lastError, heaterPush, evse,
                 update, dropped, wire>>

\* A +MTOTA:BLOCK line, parsed only.  It may come between any two others, so
\* it is read as it arrives.
DispatchBlock ==
  /\ Reading /\ Len(forwards) + blocks < MaxEvents
  /\ blocks' = blocks + 1 /\ updateWork' = TRUE
  /\ UNCHANGED <<coproc, rx, stack, respQueue, deferred, lastError, heaterPush, evse,
                 dropped, wire>>

CallbackReturns ==
  /\ stack # <<>> /\ Top.callback
  /\ stack' = Append(Below, [Top EXCEPT !.callback = FALSE])
  /\ UNCHANGED rest

\* _link.poll() has drained the stream.
ReadEnds == At("read") /\ rx = <<>> /\ Return /\ UNCHANGED rest

\* The terminal of the command in flight.  hearthCommand()'s own answer sets
\* _lastError; a drain's AT+MTCMDRESP goes through _link.command() and does not.
Answered ==
  /\ At("served") /\ rx # <<>> /\ Head(rx).line = "terminal"
  /\ rx' = Tail(rx)
  /\ LET rc      == Top.rc
         caller  == stack[Len(stack) - 1]
         viaCall == caller.op = Top.op /\ caller.seq = Top.seq
     IN /\ stack' = IF viaCall THEN [Below EXCEPT ![Len(stack) - 1].rc = rc] ELSE Below
        /\ lastError' = IF viaCall THEN [op |-> Top.op, rc |-> rc] ELSE lastError
        /\ rowBuf' = IF Top.op = "fetch" /\ rc = 0
                        THEN [proposal |-> Top.seq, rows |-> ProposedRows(Top.seq)]
                      ELSE IF Top.op = "getall" /\ rc = 0
                        THEN [proposal |-> 0, rows |-> schedule]
                      ELSE rowBuf
  /\ UNCHANGED <<coproc, respQueue, deferred, heaterPush, evsePending, cache, shown,
                 update, dropped, wire>>

---------------------------------------------------------------------------
(* [external] The co-processor: it forwards one command at a time, and a   *)
(* window it gives up on is denied.                                        *)

Open == {s \in DOMAIN forwards : forwards[s].outcome = "open"}
Line(l, s) == [line |-> l, seq |-> s]

\* A CancelBoost outside a boost is answered without asking the host.
CoprocForwards ==
  /\ Open = {} /\ Len(forwards) + blocks < MaxEvents
  /\ \E kind \in Kinds, days \in SUBSET Days :
       /\ kind = "targets" <=> days # {}
       /\ kind = "cancel" => boost = "active"
       /\ forwards' = Append(forwards, [kind |-> kind, days |-> days, outcome |-> "open"])
  /\ rx' = Append(rx, Line("+MTCMD", Len(forwards')))
  /\ UNCHANGED <<boost, schedule, stack, respQueue, deferred, lastError, heaterPush,
                 evse, update, dropped, wire>>

WindowExpires ==
  /\ \E s \in Open :
       /\ forwards' = [forwards EXCEPT ![s].outcome = "timeout"]
       /\ rx' = Append(rx, Line("+MTCMDTO", s))
  /\ UNCHANGED <<boost, schedule, stack, respQueue, deferred, lastError, heaterPush,
                 evse, update, dropped, wire>>

InFlight(l) == {i \in DOMAIN stack : stack[i].at = l}

\* A verdict on the open window resolves it, and an allowed SetTargets merges
\* the proposal; one on a closed window is refused (+MTERR:1), and so is a
\* fetch.
CoprocActs ==
  \E i \in InFlight("await") :
    LET f == stack[i]
        live == f.seq \in Open
        Outcome == IF f.allow THEN "allow" ELSE "deny"
    IN /\ \E rc \in {0, 1} :
            /\ f.op \in {"resp", "fetch"} => rc = (IF live THEN 0 ELSE 1)
            /\ f.op = "push" => rc = 0
            /\ stack' = [stack EXCEPT ![i].at = "acted", ![i].rc = rc]
       /\ IF f.op = "resp" /\ live
            THEN /\ forwards' = [forwards EXCEPT ![f.seq].outcome = Outcome]
                 /\ schedule' = IF f.allow
                      THEN MergeByDay(schedule, forwards[f.seq].days, ProposedRows(f.seq))
                      ELSE schedule
            ELSE UNCHANGED <<forwards, schedule>>
       /\ boost' = IF f.op = "push"
                     THEN (IF f.allow THEN "active" ELSE "inactive") ELSE boost
       /\ UNCHANGED <<rx, respQueue, deferred, lastError, heaterPush, evse,
                      update, dropped, wire>>

CoprocAnswers ==
  \E i \in InFlight("acted") :
    /\ stack' = [stack EXCEPT ![i].at = "served"]
    /\ rx' = Append(rx, Line("terminal", 0))
    /\ UNCHANGED <<coproc, respQueue, deferred, lastError, heaterPush, evse,
                   update, dropped, wire>>

---------------------------------------------------------------------------
HostStep ==
  \/ CommandEntry \/ PollEntry \/ CommandLink
  \/ DrainResp \/ DrainDeferred \/ DrainUpdate \/ UpdateDrained \/ CallReturns
  \/ HeaterWork \/ EvseFetch \/ EvseVerdict \/ EvseMerge
  \/ SyncClear \/ SyncRebuild
  \/ DispatchVerdict \/ DispatchTargets \/ DispatchBlock \/ DispatchOther
  \/ ReadEnds \/ Answered

CoprocStep == CoprocActs \/ CoprocAnswers

Next == Calls \/ HostStep \/ CallbackReturns
          \/ CoprocForwards \/ WindowExpires \/ CoprocStep

Spec == Init /\ [][Next]_vars

\* The sketch keeps calling the library from its loop, its callbacks return,
\* and the co-processor answers what it is sent.  Nothing makes it forward a
\* command or give one up.
Fairness ==
  /\ WF_vars(Calls) /\ WF_vars(HostStep)
  /\ SF_vars(CallbackReturns)
  /\ WF_vars(CoprocStep)
FairSpec == Spec /\ Fairness

---------------------------------------------------------------------------
TypeOK ==
  /\ forwards \in Seq(Forward) /\ Len(forwards) <= MaxEvents
  /\ boost \in {"active", "inactive"}
  /\ schedule \in DayRows
  /\ rx \in Seq([line : {"+MTCMD", "+MTCMDTO", "terminal"}, seq : {0} \cup Seqs])
  /\ stack \in Seq(Frame)
  /\ respQueue \in Seq([seq : Seqs, allow : BOOLEAN])
  /\ Len(respQueue) <= QueueDepth
  /\ deferred \in BOOLEAN
  /\ lastError \in [op : Ops \cup {"none"}, rc : {0, 1}]
  /\ heaterPush \in [seq : {0} \cup Seqs, value : {"active", "inactive"}]
  /\ evsePending \in {0} \cup Seqs /\ rowBuf \in Rows /\ cache \in DayRows
  /\ blocks \in 0 .. MaxEvents /\ updateWork \in BOOLEAN
  /\ dropped \subseteq Seqs
  /\ shown \subseteq [seq : Seqs, buf : Rows]
  /\ wire \in Seq([op : {"resp", "push"}, seq : Seqs])

Sends(op) == {i \in DOMAIN wire : wire[i].op = op}

\* A BoostState push follows its command's verdict on the wire
\* (MatterWaterHeater.h:90), unless a full queue dropped that verdict.
VerdictBeforePush ==
  \A i \in Sends("push") :
    \/ \E j \in Sends("resp") : j < i /\ wire[j].seq = wire[i].seq
    \/ wire[i].seq \in dropped

Waiting(s) ==
  \/ \E i \in DOMAIN rx : rx[i] = Line("+MTCMD", s)
  \/ \E i \in DOMAIN respQueue : respQueue[i].seq = s
  \/ s = evsePending
  \/ \E i \in DOMAIN stack :
       stack[i].seq = s /\ stack[i].at \in {"fetched", "cmd", "link"}

\* A verdict is neither lost on the host while its window is open nor sent
\* twice: until the answer is on the wire the command is waiting somewhere,
\* whatever a sketch's callback calls in between (hearthDrainCmdRespQueue(),
\* Hearth.cpp:935), and neither the queue and the EVSE both, nor a drain that
\* ran again while the first was sending, answer it a second time.
VerdictKept ==
  /\ \A s \in Open :
       Waiting(s) \/ s \in dropped \/ \E i \in Sends("resp") : wire[i].seq = s
  /\ \A i, j \in Sends("resp") : wire[i].seq = wire[j].seq => i = j

\* When hearthCommand() returns to the sketch, lastError() is that command's
\* own code, whatever verdicts, pushes and fetches its drains sent after it
\* (Hearth.cpp:353, 1014).  Two things may have replaced it: a callback's own
\* command, and the update's drain, whose commands save nothing
\* (HearthUpdate.cpp:92) and which has run since.
LastErrorOwn ==
  At("ret") /\ Top.op = "app" =>
    \/ lastError = [op |-> "app", rc |-> Top.rc]
    \/ lastError.op \in {"callback", "update"}

\* Every forward is resolved by the host's verdict, without waiting for the
\* firmware's own deadline, unless a full queue dropped the verdict.
ForwardsResolved ==
  \A s \in Seqs : s \in Open ~> (s \notin Open \/ s \in dropped)

---------------------------------------------------------------------------
(* A claim of the documentation that the code does not keep.                *)

Quiet == /\ stack = <<>> /\ rx = <<>> /\ respQueue = <<>>
         /\ ~deferred /\ Open = {}
NoTimeout == \A s \in DOMAIN forwards : forwards[s].outcome # "timeout"

\* The host-side merge "is deterministic and race-free" (MatterEvse.h:149):
\* with no window ever missed, a quiet host's cache is the device's schedule.
CacheMatchesDevice == Quiet /\ NoTimeout => cache = schedule
===========================================================================
