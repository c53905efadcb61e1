--------------------------- MODULE HearthEndpoints ---------------------------
(***************************************************************************)
(* One endpoint object of the sketch and the endpoint it stands for on the *)
(* co-processor: the cached fields the sketch's getters return, the setter *)
(* calls that skip a write the cache says is not needed, the +MTATTR lines *)
(* that report what a controller (or the setter itself) changed, the       *)
(* commands forwarded to the sketch, the co-processor's reboots, and the   *)
(* state each class sends again when the composition is reconciled.  The   *)
(* class is chosen in EPInit from the catalogue of HearthEndpointTypes.    *)
(*                                                                         *)
(* An attribute keeps no unit, scale or width here: a value is one of two, *)
(* or Null for "any other", which is all that the comparison in a setter   *)
(* and the properties tell apart.                                          *)
(***************************************************************************)
EXTENDS HearthEndpointTypes

CONSTANTS
  Classes,     \* the endpoint classes a run takes from the catalogue
  SetterCalls, \* the sketch calls a setter this often at most
  Events,      \* a controller or the firmware changes something this often
  Faults       \* lost lines, refusals, late verdicts and reboots

ASSUME EndpointAssumption ==
  /\ Classes \subseteq DOMAIN Catalogue
  /\ SetterCalls \in Nat /\ Events \in Nat /\ Faults \in Nat

VARIABLES
  kind,      \* the class of this endpoint
  used,      \* the fields this behaviour is about
  cache,     \* field -> the value the host holds
  wrote,     \* fields whose "has been set" flag is up
  dev,       \* attribute -> the value the co-processor holds
  known,     \* the endpoint has its id: Matter.begin() has adopted it
  synced,    \* no co-processor reboot since the last reconcile
  todo,      \* what is left of the setter call or of the reconcile in progress
  pushing,   \* todo is hearthOnReconciled()'s
  phase,     \* where the command in flight is
  cmd,       \* attribute -> value that command carries
  wire,      \* lines from the co-processor the host has not read
  verdict,   \* a forwarded command the sketch allowed, not yet applied
  why,       \* field -> what may have set host and device apart (history)
  owed,      \* the fields the last reconcile sends again (history)
  left       \* what is left of SetterCalls, Events and Faults

epVars == <<kind, used, cache, wrote, dev, known, synced, todo, pushing, phase, cmd,
            wire, verdict, why, owed, left>>

hostVars == <<kind, used, cache, wrote, known, synced, owed>>
callVars == <<todo, pushing, phase, cmd>>

C == Catalogue[kind]
Fields == DOMAIN C.shows
Reasons == {"begin", "reboot", "refused", "lost", "late", "veto", "crossed",
            "unheard"}

None == [to |-> Nothing, w |-> Nothing]

Urc(a, v) == [t |-> "urc", a |-> a, v |-> v]
End(ok)   == [t |-> "end", a |-> "", v |-> ok]
Asks(f)   == [t |-> "cmd", a |-> "", v |-> f]

\* Nothing of a call, a line or a verdict is under way.
AtRest == todo = <<>> /\ phase = "idle" /\ wire = <<>> /\ verdict = None

\* The fields that mirror one of the attributes A.
Mirrors(A) == {f \in Fields : C.shows[f] \in A}

\* The fields an attribute's report reaches.
HeardIn(A) == {C.hears[a] : a \in A \cap DOMAIN C.hears}

\* `old` with the values `new` has for some of its arguments.
Updated(old, new) == [x \in DOMAIN old |-> IF x \in DOMAIN new THEN new[x] ELSE old[x]]

\* The lines that report the attributes of w to a class that listens to them.
Echo(w) == SetToSeq({Urc(a, w[a]) : a \in DOMAIN w \cap DOMAIN C.hears})

\* The history: `touched` fields may differ from now on because of `reason`;
\* what agrees when nothing is under way has no reason to differ.
Blame(base, touched, reason) ==
  why' = [f \in Fields |->
            IF AtRest' /\ cache'[f] = dev'[C.shows[f]] THEN {}
            ELSE base[f] \cup (IF f \in touched THEN {reason} ELSE {})]

Settle == Blame(why, {}, "lost")

Spend(budget) == left[budget] > 0 /\ left' = [left EXCEPT ![budget] = @ - 1]

EPInit ==
  /\ kind \in Classes
  /\ used \in C.groups
  /\ cache \in C.begin
  /\ wrote = {}
  /\ dev = C.fresh
  /\ known = FALSE /\ synced = FALSE
  /\ todo = <<>> /\ pushing = FALSE
  /\ phase = "idle" /\ cmd = Nothing
  /\ wire = <<>>
  /\ verdict = None
  /\ owed = {}
  /\ why = [f \in Fields |->
              IF cache[f] = dev[C.shows[f]] THEN {} ELSE {"begin"}]
  /\ left = [calls |-> SetterCalls, events |-> Events, faults |-> Faults]

-----------------------------------------------------------------------------
(* The host. *)

\* The fields a call sets, and the values it sets them to, all its writes
\* together: no call writes a field twice.
Sets(s) == UNION {DOMAIN p.to : p \in ToSet(s)}
Merged(s) == [f \in Sets(s) |-> (CHOOSE p \in ToSet(s) : f \in DOMAIN p.to).to[f]]

\* The sketch calls a setter of the fields the behaviour is about; a call is
\* its writes, in order.
Call ==
  /\ todo = <<>>
  /\ Spend("calls")
  /\ \E s \in C.calls :
       /\ Sets(s) \subseteq used
       /\ Permits(kind, Merged(s), cache, wrote)
       /\ todo' = s
  /\ UNCHANGED <<hostVars, dev, pushing, phase, cmd, wire, verdict, why>>

\* hearthOnReconciled() leaves out a list never set and a field never written.
Due(p) == \A f \in p.also : cache[f] # Null /\ (f \in C.ifWritten => f \in wrote)

\* Matter.begin() has reconciled the composition: the endpoint has its id and
\* its class sends again what the co-processor does not keep.
Reconcile ==
  /\ todo = <<>>
  /\ ~(known /\ synced)
  /\ known' = TRUE /\ synced' = TRUE
  /\ todo' = C.push
  /\ pushing' = (C.push # <<>>)
  /\ wrote' = IF C.push = <<>> THEN wrote \ C.forgets ELSE wrote
  /\ owed' = UNION {p.also : p \in {q \in ToSet(C.push) : Due(q)}}
  /\ UNCHANGED <<kind, used, cache, dev, phase, cmd, wire, verdict, why, left>>

\* The setter finds its value already in the cache.
Held(p) ==
  CASE p.skip = "never"   -> FALSE
    [] p.skip = "equal"   -> \A f \in DOMAIN p.to : cache[f] = p.to[f]
    [] p.skip = "written" -> \A f \in DOMAIN p.to :
                                cache[f] = p.to[f] /\ f \in wrote

Skips(p) == IF pushing THEN ~Due(p) ELSE Held(p)

\* What the command carries: the new value, and the cached ones beside it.
Carried(p) ==
  [a \in Carries(C, p) |-> IF a \in DOMAIN p.w THEN p.w[a]
                            ELSE cache[CHOOSE f \in p.also : C.shows[f] = a]]

\* Mutant: a call stops after its first write.
MoveOnEarly == todo' = <<>> /\ pushing' = FALSE

\* The call's next write, or its end.
MoveOn == todo' = Tail(todo) /\ pushing' = (pushing /\ Len(todo) > 1)

\* Mutant: hearthOnReconciled() leaves the samples' flags up.
FlagsKept(more) == wrote' = wrote \cup more

\* The flags once `more` are raised; the end of hearthOnReconciled() takes the
\* samples' down.
Flags(more) == wrote' = (wrote \cup more)
                          \ (IF pushing /\ ~pushing' THEN C.forgets ELSE {})

\* The next write needs no command.
Skip ==
  /\ phase = "idle" /\ todo # <<>>
  /\ Skips(Head(todo))
  /\ MoveOn
  /\ Flags(IF pushing THEN {} ELSE C.noted \cap DOMAIN Head(todo).to)
  /\ UNCHANGED <<kind, used, cache, dev, known, synced, owed, phase, cmd, wire, verdict, left>>
  /\ Settle

\* The endpoint has no id yet: nothing is sent.
RefuseCall ==
  /\ phase = "idle" /\ todo # <<>> /\ ~pushing
  /\ ~Held(Head(todo))
  /\ ~known
  /\ MoveOn
  /\ UNCHANGED <<hostVars, dev, phase, cmd, wire, verdict, left>>
  /\ Settle

\* The command is composed; hearthCommand() polls before it is sent.
Compose ==
  /\ phase = "idle" /\ todo # <<>>
  /\ ~Skips(Head(todo))
  /\ pushing \/ known
  /\ phase' = "ready"
  /\ cmd' = Carried(Head(todo))
  /\ UNCHANGED <<hostVars, dev, todo, pushing, wire, verdict, why, left>>

\* Mutant: a command that failed is taken for done.
FailsCommits ==
  /\ phase' = "idle" /\ cmd' = Nothing
  /\ MoveOn
  /\ Flags({})
  /\ cache' = Updated(cache, Head(todo).to)

\* The command is over without an OK: the cache stays as it was, and the
\* setter's remaining writes are still made.
Fails ==
  /\ phase' = "idle" /\ cmd' = Nothing
  /\ MoveOn
  /\ Flags({})
  /\ UNCHANGED cache

\* The command was answered OK.
Commit ==
  /\ phase' = "idle" /\ cmd' = Nothing
  /\ MoveOn
  /\ cache' = Updated(cache, Head(todo).to)
  /\ Flags(C.flagged \cap DOMAIN Head(todo).to)

\* attributeChangeCB(): the sketch's handler may refuse the new value, and in
\* some classes the cache then stays as it was.
Hear(line) ==
  \/ /\ known
     /\ cache' = [cache EXCEPT ![C.hears[line.a]] = line.v]
     /\ wrote' = wrote \cup ({C.hears[line.a]} \cap C.marks)
     /\ Settle
  \/ /\ ~known \/ line.a \in C.vetoes
     /\ UNCHANGED <<cache, wrote>>
     /\ Blame(why, Mirrors({line.a}), IF known THEN "veto" ELSE "unheard")

\* A forwarded command: the sketch's handler allows it, and the class may take
\* note of what it allowed, or the handler denies it.
Judge(f) ==
  \/ /\ known
     /\ cache' = Updated(cache, f.to)
     /\ wrote' = wrote \cup (C.flagged \cap DOMAIN f.to)
     /\ verdict' = f
     /\ Blame(why, DOMAIN f.to \cap Sets(todo), "crossed")
  \/ /\ UNCHANGED <<cache, wrote, verdict>>
     /\ Settle

\* The host reads the next line, in poll() or while it waits for an answer.
HostReads ==
  /\ wire # <<>>
  /\ wire' = Tail(wire)
  /\ UNCHANGED <<kind, used, dev, known, synced, owed, left>>
  /\ LET line == Head(wire) IN
       \/ /\ line.t = "urc"
          /\ UNCHANGED <<callVars, verdict>>
          /\ Hear(line)
       \/ /\ line.t = "cmd"
          /\ UNCHANGED callVars
          /\ Judge(line.v)
       \/ /\ line.t = "end"
          /\ UNCHANGED verdict
          /\ IF line.v THEN Commit ELSE Fails
          /\ Settle

\* No answer came.
Timeout ==
  /\ phase = "answered"
  /\ \A i \in DOMAIN wire : wire[i].t # "end"
  /\ Fails
  /\ UNCHANGED <<kind, used, dev, known, synced, owed, wire, verdict, left>>
  /\ Settle

-----------------------------------------------------------------------------
(* The co-processor and the wire. *)

\* The co-processor applies the command and reports it, the report first.
Apply ==
  /\ phase = "ready"
  /\ phase' = "applied"
  /\ dev' = Updated(dev, cmd)
  /\ wire' = wire \o Echo(cmd)
  /\ UNCHANGED <<hostVars, todo, pushing, cmd, verdict, left>>
  /\ Blame([f \in Fields |-> IF f \in Mirrors(DOMAIN cmd) THEN {} ELSE why[f]],
           Mirrors(DOMAIN cmd) \ (DOMAIN Head(todo).to \cup Head(todo).also
                                    \cup HeardIn(DOMAIN cmd)),
           "unheard")

AnswerOk ==
  /\ phase = "applied"
  /\ phase' = "answered"
  /\ wire' = Append(wire, End(TRUE))
  /\ UNCHANGED <<hostVars, dev, todo, pushing, cmd, verdict, why, left>>

Refuse ==
  /\ phase = "ready"
  /\ Spend("faults")
  /\ phase' = "answered"
  /\ wire' = Append(wire, End(FALSE))
  /\ UNCHANGED <<hostVars, dev, todo, pushing, cmd, verdict>>
  /\ Blame(why, Mirrors(DOMAIN cmd) \ DOMAIN Head(todo).to, "refused")

\* A controller, or the firmware, changes an attribute.
Change ==
  /\ verdict = None
  /\ Spend("events")
  /\ UNCHANGED <<hostVars, callVars, verdict>>
  /\ \E a \in C.changes, v \in Bit :
       /\ v # dev[a] /\ Mirrors({a}) \subseteq used
       /\ dev' = [dev EXCEPT ![a] = v]
       /\ wire' = wire \o Echo([x \in {a} |-> v])
       /\ IF Mirrors({a}) \cap Sets(todo) # {}
            THEN Blame(why, Mirrors({a}), "crossed")
            ELSE Blame(why, Mirrors({a}) \ HeardIn({a}), "unheard")

\* A controller's command is forwarded to the sketch.
Forward ==
  /\ verdict = None
  /\ \A i \in DOMAIN wire : wire[i].t # "cmd"
  /\ Spend("events")
  /\ \E f \in C.forwards : wire' = Append(wire, Asks(f))
  /\ UNCHANGED <<hostVars, callVars, dev, verdict, why>>

\* The answer is sent when no command is in flight.
VerdictTaken ==
  /\ verdict # None /\ phase = "idle"
  /\ verdict' = None
  /\ dev' = Updated(dev, verdict.w)
  /\ wire' = wire \o Echo(verdict.w)
  /\ UNCHANGED <<hostVars, callVars, left>>
  /\ Blame(why, {f \in DOMAIN verdict.to : cache[f] # verdict.to[f]}, "crossed")

\* The verdict is lost, or reaches the co-processor when it has given up.
VerdictLate ==
  /\ verdict # None
  /\ Spend("faults")
  /\ verdict' = None
  /\ UNCHANGED <<hostVars, callVars, dev, wire>>
  /\ Blame(why, DOMAIN verdict.to, "late")

\* A line is lost: a report, or the answer to the command in flight.
Lose ==
  /\ wire # <<>>
  /\ Head(wire).t # "cmd"
  /\ Spend("faults")
  /\ wire' = Tail(wire)
  /\ UNCHANGED <<hostVars, callVars, dev, verdict>>
  /\ Blame(why, Mirrors(IF Head(wire).t = "urc" THEN {Head(wire).a}
                                                ELSE DOMAIN cmd), "lost")

\* The co-processor restarts: its endpoint is created anew, but for what it
\* keeps, and everything on its way to the host is gone.
Reboot ==
  /\ Spend("faults")
  /\ dev' = [a \in DOMAIN dev |-> IF a \in C.keeps THEN dev[a] ELSE C.fresh[a]]
  /\ wire' = <<>>
  /\ verdict' = None
  /\ synced' = FALSE
  /\ phase' = IF phase = "applied" THEN "answered" ELSE phase
  /\ UNCHANGED <<kind, used, cache, wrote, known, owed, todo, pushing, cmd>>
  /\ Blame([f \in Fields |->
              why[f] \cup (IF f \in Mirrors(DOMAIN cmd) THEN {"lost"} ELSE {})],
           Mirrors(DOMAIN dev \ C.keeps), "reboot")

EPNext ==
  \/ Call \/ Reconcile \/ Skip \/ RefuseCall \/ Compose
  \/ HostReads \/ Timeout
  \/ Apply \/ AnswerOk \/ Refuse \/ Change \/ Forward
  \/ VerdictTaken \/ VerdictLate \/ Lose \/ Reboot

EPSpec == EPInit /\ [][EPNext]_epVars

-----------------------------------------------------------------------------
(* Properties. *)

\* Every variable has its type, a command is in flight only while a call or a
\* reconcile is, and an answer on the wire belongs to the command in flight: a
\* later call of hearthWriteAttr() never reads an earlier one's OK.
EPTypeOK ==
  /\ kind \in Classes /\ used \in C.groups
  /\ DOMAIN cache = Fields /\ \A f \in Fields : cache[f] \in Value
  /\ wrote \subseteq C.flagged
  /\ DOMAIN dev = DOMAIN C.fresh /\ \A a \in DOMAIN dev : dev[a] \in Value
  /\ known \in BOOLEAN /\ synced \in BOOLEAN /\ pushing \in BOOLEAN
  /\ pushing => todo # <<>>
  /\ phase \in {"idle", "ready", "applied", "answered"}
  /\ phase = "idle" <=> cmd = Nothing
  /\ phase # "idle" => todo # <<>> /\ known
  /\ owed \subseteq Fields
  /\ verdict \in C.forwards \cup {None}
  /\ \A i \in DOMAIN wire :
       CASE wire[i].t = "urc" -> wire[i].a \in DOMAIN C.hears
         [] wire[i].t = "end" -> phase = "answered"
         [] wire[i].t = "cmd" -> wire[i].v \in C.forwards
  /\ \A f \in Fields : why[f] \subseteq Reasons

\* When nothing is under way, a field the sketch reads differs from the
\* attribute it mirrors only if begin() left it so, a line, an answer or the
\* co-processor was lost, a command was refused, a handler kept a report out
\* (attributeChangeCB() returning false), a report crossed a setter of the same
\* field, or the class does not listen: after any other sequence of setter
\* calls, +MTATTR lines, refusals and reconciles the two are the same.
Agree ==
  AtRest /\ known =>
    \A f \in Fields : cache[f] # dev[C.shows[f]] => why[f] # {}

\* A field with its "has been set" flag up was written, or was reported, since
\* the endpoint was last created, or is sent again: hasX == TRUE lets the next
\* equal setX() return without a write, so a flag that outlived the endpoint
\* would swallow it (HearthMeasurementPush::onReconciled(),
\* HearthDemControl::onReconciled(), the classes' hearthOnReconciled()).  The
\* readings of a battery source are flagged by a call that writes nothing, and
\* the heater's local temperature keeps its flag: see the README.
WrittenMeansHeld ==
  AtRest /\ synced =>
    \A f \in wrote \ (C.noted \cup C.sticks) :
      why[f] \cap {"refused", "lost", "late", "crossed"} = {} =>
        why[f] \cap {"begin", "reboot", "unheard"} = {}

\* What hearthOnReconciled() sends again is on the co-processor when it is
\* over, unless a write of it was refused or lost: the state an endpoint had
\* before the reboot, or begin() left in it, is not given up half-way.
PushedHolds ==
  AtRest /\ synced =>
    \A f \in owed : why[f] \cap {"refused", "lost"} = {} =>
      why[f] \cap {"begin", "reboot"} = {}
==============================================================================
