-------------------------- MODULE HearthEndpointInv --------------------------
(***************************************************************************)
(* The inductive invariant of HearthEndpoints.                             *)
(*                                                                         *)
(* What is under way between a field and its attribute is on the wire, in  *)
(* order: the reports not read yet, and behind them the OK of the command  *)
(* in flight.  A field nothing happened to holds, once all of it is read,  *)
(* what the co-processor holds (Tracks); a report still to be read is of   *)
(* the value the attribute had when it was sent, and the last one of the   *)
(* value it has.                                                           *)
(***************************************************************************)
EXTENDS HearthEndpoints

\* What is known of the class of the endpoint.
WellMade ==
  /\ WellTyped(C) /\ WritesWell(C) /\ ReportsWell(C) /\ ForwardsWell(C)
  /\ FlagsWell(C) /\ BesideWell(kind, C)

-----------------------------------------------------------------------------
(* The steps of HostReads, one by one.                                      *)

Reads(t) ==
  /\ wire # <<>> /\ Head(wire).t = t
  /\ wire' = Tail(wire)
  /\ UNCHANGED <<kind, used, dev, known, synced, owed, left>>

\* A report reaches the cache, or is kept out of it.
ReadTaken ==
  /\ Reads("urc") /\ known
  /\ cache' = [cache EXCEPT ![C.hears[Head(wire).a]] = Head(wire).v]
  /\ wrote' = wrote \cup ({C.hears[Head(wire).a]} \cap C.marks)
  /\ UNCHANGED <<callVars, verdict>>
  /\ Settle

ReadKept ==
  /\ Reads("urc")
  /\ ~known \/ Head(wire).a \in C.vetoes
  /\ UNCHANGED <<callVars, verdict, cache, wrote>>
  /\ Blame(why, Mirrors({Head(wire).a}), IF known THEN "veto" ELSE "unheard")

\* A forwarded command is allowed, or denied.
ReadAllowed ==
  /\ Reads("cmd") /\ known
  /\ cache' = Updated(cache, Head(wire).v.to)
  /\ wrote' = wrote \cup (C.flagged \cap DOMAIN Head(wire).v.to)
  /\ verdict' = Head(wire).v
  /\ UNCHANGED callVars
  /\ Blame(why, DOMAIN Head(wire).v.to \cap Sets(todo), "crossed")

ReadDenied ==
  /\ Reads("cmd")
  /\ UNCHANGED <<callVars, verdict, cache, wrote>>
  /\ Settle

\* The answer to the command in flight.
ReadOk    == Reads("end") /\ Head(wire).v /\ Commit /\ UNCHANGED verdict /\ Settle
ReadError == Reads("end") /\ ~Head(wire).v /\ Fails /\ UNCHANGED verdict /\ Settle

ReadStep == ReadTaken \/ ReadKept \/ ReadAllowed \/ ReadDenied \/ ReadOk \/ ReadError

-----------------------------------------------------------------------------

Lines == [t : {"urc"}, a : DOMAIN C.hears, v : Bit]
         \cup [t : {"end"}, a : {""}, v : BOOLEAN]
         \cup [t : {"cmd"}, a : {""}, v : C.forwards]

Typed ==
  /\ kind \in Classes
  /\ cache \in [Fields -> Value]
  /\ wrote \subseteq C.flagged
  /\ dev \in [DOMAIN C.fresh -> Value]
  /\ known \in BOOLEAN /\ synced \in BOOLEAN /\ pushing \in BOOLEAN
  /\ todo \in Seq(Writes(C))
  /\ phase \in {"idle", "ready", "applied", "answered"}
  /\ wire \in Seq(Lines)
  /\ verdict \in C.forwards \cup {None}
  /\ why \in [Fields -> SUBSET Reasons]
  /\ owed \subseteq Fields
  /\ \A f \in Seeded(C) : cache[f] # Null

\* The second of two writes that belong together is all that is left.
Following == ~pushing /\ Len(todo) = 1 /\ \E q \in Writes(C) : Follows(C, q, Head(todo))

\* What a reconcile or a call in progress has left to do.
Pushes == pushing => todo # <<>> /\ known /\ \A i \in DOMAIN todo : todo[i] \in ToSet(C.push)

Shaped ==
  ~pushing /\ todo # <<>> =>
    \/ \A i \in DOMAIN todo : Plain(C, todo[i])
    \/ Len(todo) = 2 /\ Follows(C, todo[1], todo[2])
    \/ Following

\* The command in flight is that of the next write.
Commanded ==
  /\ phase = "idle" => cmd = Nothing
  /\ phase # "idle" =>
       /\ todo # <<>> /\ known
       /\ cmd \in [Carries(C, Head(todo)) -> Value]
       /\ \A a \in DOMAIN Head(todo).w : cmd[a] = Head(todo).w[a]
       /\ \A a \in DOMAIN cmd \cap DOMAIN C.hears : cmd[a] \in Bit

\* One answer, and one forwarded command, is on its way at a time.
OneEnd ==
  \A i \in DOMAIN wire : wire[i].t = "end" =>
    phase = "answered" /\ \A j \in DOMAIN wire : wire[j].t = "end" => i = j

OneAsk ==
  \A i \in DOMAIN wire : wire[i].t = "cmd" =>
    verdict = None /\ \A j \in DOMAIN wire : wire[j].t = "cmd" => i = j

\* The call in progress, the command in flight and what is on the wire.
InFlight == Pushes /\ Shaped /\ Commanded /\ OneEnd /\ OneAsk

-----------------------------------------------------------------------------
(* What the wire says of a field.                                           *)

Reaches(line, f) == line.t = "urc" /\ C.hears[line.a] = f

\* Read to its end, the lines w leave v in the field f, which holds old.
Leads(w, f, old, v) ==
  \/ old = v /\ \A i \in DOMAIN w : ~Reaches(w[i], f)
  \/ \E i \in DOMAIN w :
       /\ Reaches(w[i], f)
       /\ \A j \in i .. Len(w) : Reaches(w[j], f) => w[j].v = v

Tracks(f) == Leads(wire, f, cache[f], dev[C.shows[f]])

\* The answer to the command in flight is on the wire.
Ended(ok) == \E k \in DOMAIN wire : wire[k].t = "end" /\ wire[k].v = ok

\* The command was applied, and its OK is still to be read.
Done == phase = "applied" \/ Ended(TRUE)

\* That OK puts a value into the field.
Lands(f) == Done /\ f \in DOMAIN Head(todo).to

-----------------------------------------------------------------------------
(* A field without a reason to differ.                                      *)

\* A command that will not be answered OK left a reason in the fields it carries.
Unanswered ==
  /\ phase = "answered" /\ ~Ended(TRUE) /\ ~Ended(FALSE) =>
       \A f \in Mirrors(DOMAIN cmd) : why[f] # {}
  /\ Ended(FALSE) => \A f \in Mirrors(DOMAIN cmd) \ DOMAIN Head(todo).to : why[f] # {}

\* Nothing changes an attribute a call is about, and no report of it comes
\* after the OK.
Undisturbed ==
  /\ Done => \A f \in Sets(todo) \cap Mirrors(DOMAIN cmd) :
               why[f] = {} => dev[C.shows[f]] = cmd[C.shows[f]]
  /\ \A f \in Sets(todo) : why[f] = {} =>
       \A k \in DOMAIN wire : wire[k].t = "end" =>
         \A j \in k .. Len(wire) : ~Reaches(wire[j], f)

Tracking ==
  \A f \in Fields :
    why[f] = {} /\ f \notin DOMAIN verdict.to /\ ~Lands(f) => Tracks(f)

\* The cached values a command carries are still in the cache, or will be heard.
Beside ==
  phase = "ready" =>
    \A g \in Head(todo).also \ HeardIn(DOMAIN cmd) : cmd[C.shows[g]] = cache[g]

\* A report that reaches the field of another attribute is that of the second
\* of two writes, and the OK comes after it.
Strays ==
  \A i \in DOMAIN wire : wire[i].t = "urc" /\ ~Straight(C, wire[i].a) =>
    /\ Following /\ C.hears[wire[i].a] \in DOMAIN Head(todo).to
    /\ \/ phase = "applied"
       \/ \E k \in i .. Len(wire) : wire[k].t = "end" /\ wire[k].v = TRUE

\* The value of the second write is in the field already.
Followed ==
  known /\ Following => \A f \in DOMAIN Head(todo).to : why[f] = {} =>
    /\ cache[f] = Head(todo).to[f] /\ dev[C.shows[f]] = Head(todo).to[f]
    /\ \A i \in DOMAIN wire : Reaches(wire[i], f) => wire[i].v = Head(todo).to[f]

\* At rest what agrees has no reason to differ.
Cleared ==
  AtRest => \A f \in Fields : cache[f] = dev[C.shows[f]] => why[f] = {}

AgreeInv == Unanswered /\ Undisturbed /\ Tracking /\ Beside /\ Strays /\ Followed /\ Cleared

-----------------------------------------------------------------------------
(* What is sent again, and the flags.                                       *)

\* The push in progress is still to send the field.
Coming(f) ==
  /\ pushing
  /\ \E i \in DOMAIN todo : /\ f \in todo[i].also /\ Due(todo[i])
                            /\ i = 1 => phase \in {"idle", "ready"}

Pushed ==
  synced => \A f \in owed :
    \/ why[f] \cap {"refused", "lost"} # {}
    \/ why[f] \cap {"begin", "reboot"} = {}
    \/ Coming(f)

Spoilt(f) == why[f] \cap {"refused", "lost", "late", "crossed"} # {}
Stale(f)  == why[f] \cap {"begin", "reboot", "unheard"} # {}

\* The next report of a flagged field is followed by those that bring it up to
\* date, whatever happened to the field before.
Reported ==
  \A f \in Vouched(C) : (\E i \in DOMAIN wire : Reaches(wire[i], f)) => Tracks(f)

\* A flag is raised once the endpoint has its id.
Adopted == wrote \ C.noted # {} => known

\* An applied write leaves its fields as the co-processor holds them.
Landing == Done => \A f \in Vouched(C) \cap DOMAIN Head(todo).to : Spoilt(f) \/ ~Stale(f)

\* A flagged field is what the co-processor holds, or will be: it is to be sent
\* again, its flag is about to go, a verdict or a report is under way.
Backed(f) ==
  \/ Spoilt(f)
  \/ ~Stale(f)
  \/ Coming(f)
  \/ f \in C.forgets /\ pushing
  \/ f \in DOMAIN verdict.to
  \/ Tracks(f)

Flagging == \A f \in Vouched(C) \cap wrote : synced \/ C.shows[f] \in C.keeps => Backed(f)

\* What was written can be sent again.
Sendable ==
  /\ \A f \in wrote \cap Resent(C), p \in ToSet(C.push) : f \in p.also => Due(p)
  /\ ~pushing => \A i \in DOMAIN todo : \A f \in DOMAIN todo[i].to \cap Resent(C) :
       \A p \in ToSet(C.push) : f \in p.also => \A g \in p.also : cache[g] # Null

FlagInv == Pushed /\ Reported /\ Adopted /\ Landing /\ Flagging /\ Sendable

EndpointInv == Typed /\ InFlight /\ AgreeInv /\ FlagInv
==============================================================================
