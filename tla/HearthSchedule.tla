--------------------------- MODULE HearthSchedule ---------------------------
(***************************************************************************)
(* The EVSE's charging schedule, kept on the host as a cache of the store  *)
(* in the co-processor (HearthChargingSchedule.cpp, HearthRowTransfer.cpp, *)
(* MatterEvse.cpp).  The sketch pushes a schedule row by row and applies   *)
(* it; a controller's schedule arrives as a proposal whose rows are read   *)
(* back; both are merged into the cache day by day, as the co-processor    *)
(* merges them into its store.                                             *)
(*                                                                         *)
(* Each command of a push or of a reconcile is an exchange, and the drains *)
(* before and after it may run a deferred SetTargets (HearthForward), so a *)
(* proposal comes between any two steps.  The window of a verdict, and two *)
(* proposals nested in each other's exchanges, are HearthForward's and not *)
(* repeated here.                                                          *)
(***************************************************************************)
EXTENDS Integers, Sequences, FiniteSets

CONSTANTS
  Days,        \* the bits of kDayBitmapMask
  MaxPerDay,   \* kMaxTargetsPerDay
  Targets,     \* charging targets the field rules and the variant accept
  OwnTargets,  \* those the sketch schedules
  Proposals,   \* schedules a controller may propose
  MaxBuilt,    \* bound: targets the sketch adds to one schedule
  MaxFaults    \* bound: commands refused or lost, and reads that lose a line

MaxEntries == Cardinality(Days) * MaxPerDay
Entry == [bits : (SUBSET Days) \ {{}}, target : Targets]

ASSUME ScheduleAssumption ==
  /\ IsFiniteSet(Days) /\ MaxPerDay \in Nat /\ {MaxBuilt, MaxFaults} \subseteq Nat
  /\ OwnTargets \subseteq Targets /\ Proposals \subseteq Seq(Entry)

VARIABLES
  mine,       \* the sketch's own HearthChargingSchedule
  cache,      \* _schedule
  push,       \* setChargingSchedule() or hearthOnReconciled() in progress
  rowBuf,     \* the rows of _rowBuf a reconcile is to add: the first `returned`
  staged,     \* [external] the rows staged so far
  store,      \* [external] the live store
  unsure,     \* history: the cache may have lost the store
  wedged,     \* history: a push nothing disturbed was refused
  faults      \* bound

vars == <<mine, cache, push, rowBuf, staged, store, unsure, wedged, faults>>

---------------------------------------------------------------------------
(* HearthChargingSchedule.                                                 *)

BitsOf(s)  == UNION {s[i].bits : i \in DOMAIN s}
Group(s, bits) == {i \in DOMAIN s : s[i].bits = bits}

\* dayOwnedByDifferentBitmap()
OwnedByOther(s, bits) == \E i \in DOMAIN s : s[i].bits # bits /\ s[i].bits \cap bits # {}

\* addTarget()'s rules on the bitmap and on the schedule it joins.
Takes(s, bits) ==
  /\ bits # {} /\ Len(s) < MaxEntries
  /\ ~OwnedByOther(s, bits) /\ Cardinality(Group(s, bits)) < MaxPerDay

\* addTarget(): a refused target changes nothing.
AddTarget(s, bits, t) ==
  IF Takes(s, bits) THEN Append(s, [bits |-> bits, target |-> t]) ELSE s

\* Every entry of a list, added in order.
Accepted(s) == \A i \in DOMAIN s : Takes(SubSeq(s, 1, i - 1), s[i].bits)

\* [external] What a controller proposes, and what the store begins with, keeps
\* the same rules: the device checks them (HearthChargingSchedule.h:16, 24).
ASSUME ProposalsAssumption == \A p \in Proposals : Accepted(p)

\* The stored entries without the days of the mask, compacted.
Narrow(e, mask) == [e EXCEPT !.bits = @ \ mask]
Kept(s, e)      == IF e.bits = {} THEN s ELSE Append(s, e)

Narrowed(s, mask) ==
  LET w[r \in 0 .. Len(s)] == IF r = 0 THEN <<>> ELSE Kept(w[r - 1], Narrow(s[r], mask))
  IN w[Len(s)]

\* The validate pass keeps the groups only: their bitmaps, counts and total.
NoGroups == [count |-> [b \in SUBSET Days |-> 0], total |-> 0, fits |-> TRUE]

\* Mutant: a day split across two bitmaps is not noticed.
CountInShared(g, e) ==
  [count |-> [g.count EXCEPT ![e.bits] = @ + 1], total |-> g.total + 1,
   fits  |-> g.fits /\ g.total < MaxEntries /\ g.count[e.bits] < MaxPerDay]

CountIn(g, e) ==
  [count |-> [g.count EXCEPT ![e.bits] = @ + 1], total |-> g.total + 1,
   fits  |-> /\ g.fits /\ g.total < MaxEntries /\ g.count[e.bits] < MaxPerDay
             /\ g.count[e.bits] = 0 => \A b \in SUBSET Days : g.count[b] > 0 => b \cap e.bits = {}]

Counted(rows) ==
  LET groups[i \in 0 .. Len(rows)] == IF i = 0 THEN NoGroups ELSE CountIn(groups[i - 1], rows[i])
  IN groups[Len(rows)]

\* mergeByDayFits()
Fits(s, mask, incoming) == Counted(Narrowed(s, mask) \o incoming).fits

\* Mutant: the days that stay lose their entry with the ones that go.
MergedWhole(s, mask, incoming) ==
  SelectSeq(s, LAMBDA e : e.bits \cap mask = {}) \o incoming

\* The apply pass of mergeByDay(): narrow and compact, then append.
Merged(s, mask, incoming) == Narrowed(s, mask) \o incoming

\* mergeByDay(): validate, then apply.
MergeByDay(s, mask, incoming) == IF Fits(s, mask, incoming) THEN Merged(s, mask, incoming) ELSE s

---------------------------------------------------------------------------
(* Reading rows back: HearthRowTransfer and the rebuilding of a schedule.  *)

\* Mutant: what arrived is taken for all there is.
WholePartial(got, rows) == TRUE

\* returned == total: the total is what the lines that arrived said.
Whole(got, rows) == got # <<>> => Len(got) = Len(rows)

\* A read of several rows: any of the lines may be lost or garbled.
Arriving(rows, lines) ==
  LET got[i \in 0 .. Len(rows)] ==
        IF i = 0 THEN <<>> ELSE IF i \in lines THEN Append(got[i - 1], rows[i]) ELSE got[i - 1]
  IN got[Len(rows)]
Reads(rows) == {Arriving(rows, lines) : lines \in SUBSET DOMAIN rows}

GetAll            == Reads(store)
GetAllProposed(p) == Reads(p)

\* One addTarget() per row to what the schedule holds.
Rebuilt(s, rows) ==
  LET built[i \in 0 .. Len(rows)] ==
        IF i = 0 THEN s ELSE AddTarget(built[i - 1], rows[i].bits, rows[i].target)
  IN built[Len(rows)]

\* One refusal spoils it all.
Rebuilds(s, rows) == Rebuilt(s, rows) = s \o rows

---------------------------------------------------------------------------
\* "clean": it starts on an empty stage, and no proposal has overtaken it.
Idle == [at |-> "idle", own |-> FALSE, i |-> 0, mask |-> {}, clean |-> FALSE]

Init ==
  /\ mine = <<>> /\ cache = <<>> /\ push = Idle /\ rowBuf = <<>> /\ staged = <<>>
  /\ store \in Proposals /\ unsure = TRUE /\ wedged = FALSE /\ faults = 0

Fault == faults < MaxFaults /\ faults' = faults + 1

\* The sketch builds a schedule, or starts another.
Build ==
  /\ push.at = "idle"
  /\ \/ Len(mine) < MaxBuilt /\ \E bits \in SUBSET Days, t \in OwnTargets : mine' = AddTarget(mine, bits, t)
     \/ mine' = <<>>
  /\ UNCHANGED <<cache, push, rowBuf, staged, store, unsure, wedged, faults>>

\* The schedule being pushed: the sketch's own, or chargingSchedule() itself.
Pushed == IF push.own THEN cache ELSE mine

\* setChargingSchedule() up to its first command.
Start == \E own \in BOOLEAN :
  LET s == IF own THEN cache ELSE mine IN
  /\ push.at = "idle"
  /\ push' = [Idle EXCEPT !.at = IF s = <<>> THEN "empty" ELSE "discard", !.own = own]
  /\ UNCHANGED <<mine, cache, rowBuf, staged, store, unsure, wedged, faults>>

Fails == push' = Idle

\* [external] The store drops the days of the mask and takes the rows.
StoreTakes(held, mask, rows) == Narrowed(held, mask) \o rows

\* [external] An apply of none always empties the store; any other needs a
\* staged set as long as the count, which keeps the rules of a schedule.
Applicable(n) == n = 0 \/ (n = Len(staged) /\ Accepted(staged))
TakeStaged(n) ==
  /\ store' = IF n = 0 THEN <<>> ELSE StoreTakes(store, BitsOf(staged), staged)
  /\ staged' = <<>>

\* rows.apply(n): taken; taken, and its answer lost; refused; or lost.
RowsApply(n, then) ==
  \/ Applicable(n) /\ TakeStaged(n) /\ push' = [push EXCEPT !.at = then] /\ UNCHANGED <<unsure, faults>>
  \/ Applicable(n) /\ TakeStaged(n) /\ Fault /\ Fails /\ unsure' = TRUE
  \/ ~Applicable(n) /\ Fails /\ UNCHANGED <<store, staged, unsure, faults>>
  \/ Fault /\ Fails /\ UNCHANGED <<store, staged, unsure>>

\* A schedule of none: apply(0), and only then the cache.
ApplyNone ==
  /\ push.at = "empty" /\ RowsApply(0, "clear")
  /\ UNCHANGED <<mine, cache, rowBuf, wedged>>

ClearCache ==
  /\ push.at = "clear" /\ Fails /\ cache' = <<>>
  /\ UNCHANGED <<mine, rowBuf, staged, store, unsure, wedged, faults>>

\* Mutant: a push starts on whatever the last one left staged.
DiscardNothing ==
  /\ push.at = "discard"
  /\ push' = [push EXCEPT !.at = "stage", !.clean = TRUE]
  /\ UNCHANGED <<mine, cache, rowBuf, staged, store, unsure, wedged, faults>>

\* clearStaged(), its answer ignored.
Discard ==
  /\ push.at = "discard"
  /\ \/ staged' = <<>> /\ push' = [push EXCEPT !.at = "stage", !.clean = TRUE] /\ UNCHANGED faults
     \/ Fault /\ push' = [push EXCEPT !.at = "stage"] /\ UNCHANGED staged
  /\ UNCHANGED <<mine, cache, rowBuf, store, unsure, wedged>>

\* [external] Staging a row only ever raises the count.
Staged(i, e) == IF i <= Len(staged) THEN [staged EXCEPT ![i] = e] ELSE Append(staged, e)

\* rows.stage() of the next row.
StageRow ==
  /\ push.at = "stage" /\ push.i < Len(Pushed)
  /\ LET e == Pushed[push.i + 1] IN
     \/ /\ push' = [push EXCEPT !.i = @ + 1, !.mask = @ \cup e.bits]
        /\ staged' = Staged(push.i + 1, e) /\ UNCHANGED faults
     \/ Fault /\ Fails /\ staged' \in {staged, Staged(push.i + 1, e)}
  /\ UNCHANGED <<mine, cache, rowBuf, store, unsure, wedged>>

\* The loop has run out of rows: apply() is given the count, read again.
StageEnds ==
  /\ push.at = "stage" /\ push.i >= Len(Pushed)
  /\ push' = [push EXCEPT !.at = "apply", !.i = Len(Pushed)]
  /\ UNCHANGED <<mine, cache, rowBuf, staged, store, unsure, wedged, faults>>

Apply ==
  /\ push.at = "apply" /\ RowsApply(push.i, "merge")
  /\ wedged' = (wedged \/ (push.clean /\ ~Applicable(push.i)))
  /\ UNCHANGED <<mine, cache, rowBuf>>

\* The cache follows; a schedule that is the cache already is left alone.
Merge ==
  /\ push.at = "merge" /\ Fails
  /\ cache' = IF push.own THEN cache ELSE MergeByDay(cache, push.mask, mine)
  /\ UNCHANGED <<mine, rowBuf, staged, store, unsure, wedged, faults>>

---------------------------------------------------------------------------
(* hearthOnReconciled(): cleared, read, rebuilt.                           *)

ResyncClear ==
  /\ push.at = "idle" /\ push' = [Idle EXCEPT !.at = "read", !.clean = TRUE]
  /\ cache' = <<>> /\ unsure' = FALSE
  /\ UNCHANGED <<mine, rowBuf, staged, store, wedged, faults>>

\* rows.getAll(), and the comparison with the total: a read that fails or
\* falls short leaves the cache as it is.
ResyncRead ==
  /\ push.at = "read"
  /\ \/ \E got \in GetAll :
          /\ IF got = store THEN UNCHANGED faults ELSE Fault
          /\ unsure' = (unsure \/ got # store)
          /\ IF Whole(got, store)
               THEN push' = [push EXCEPT !.at = "rebuild"] /\ rowBuf' = got
               ELSE Fails /\ UNCHANGED rowBuf
     \/ Fault /\ Fails /\ unsure' = TRUE /\ UNCHANGED rowBuf
  /\ UNCHANGED <<mine, cache, staged, store, wedged>>

\* The rows are added to whatever the cache holds by now.
ResyncRebuild ==
  /\ push.at = "rebuild" /\ Fails /\ rowBuf' = <<>>
  /\ cache' = IF Rebuilds(cache, rowBuf) THEN Rebuilt(cache, rowBuf) ELSE <<>>
  /\ UNCHANGED <<mine, staged, store, unsure, wedged, faults>>

---------------------------------------------------------------------------
(* hearthOnDeferredWork(): a controller's schedule.                        *)

\* A fetch fills the same buffer from its start.
Refilled(got) == [i \in DOMAIN rowBuf |-> IF i <= Len(got) THEN got[i] ELSE rowBuf[i]]

\* A proposal merged now overtakes what is in progress: the store has taken
\* a push that the cache has yet to follow; rows of the cache itself are
\* staged already; or the cache is being rebuilt.
Overtaken ==
  \/ push.at \in {"clear", "read", "rebuild"}
  \/ push.at = "merge" /\ ~push.own
  \/ push.own /\ (push.at = "apply" \/ (push.at = "stage" /\ push.i > 0))

\* Its rows are read, the sketch is asked, the verdict is sent, the
\* co-processor merges and so does the cache.  The mask covers the rows, and
\* may name days they leave empty.
SetTargets == \E p \in Proposals, extra \in SUBSET Days, allow \in BOOLEAN : \E got \in GetAllProposed(p) :
  LET mask   == BitsOf(p) \cup extra
      merged == allow /\ mask # {}
      amiss  == (merged /\ Overtaken) \/ (push.at = "rebuild" /\ got # <<>>)
  IN
  /\ IF got = p THEN UNCHANGED faults ELSE Fault
  /\ allow => Whole(got, p) /\ Rebuilds(<<>>, got)
  /\ rowBuf' = Refilled(got)
  /\ IF merged THEN store' = StoreTakes(store, mask, p) /\ cache' = MergeByDay(cache, mask, got)
               ELSE UNCHANGED <<store, cache>>
  /\ unsure' = (unsure \/ (merged /\ got # p) \/ amiss)
  /\ push' = [push EXCEPT !.clean = @ /\ ~amiss]
  /\ UNCHANGED <<mine, staged, wedged>>

Next == Build \/ Start \/ ApplyNone \/ ClearCache \/ Discard \/ StageRow \/ StageEnds
          \/ Apply \/ Merge \/ ResyncClear \/ ResyncRead \/ ResyncRebuild \/ SetTargets
Spec == Init /\ [][Next]_vars

---------------------------------------------------------------------------

Pushes == [at : {"idle", "empty", "clear", "discard", "stage", "apply", "merge", "read", "rebuild"},
           own : BOOLEAN, i : 0 .. MaxEntries, mask : SUBSET Days, clean : BOOLEAN]

\* Every variable has its type.
TypeOK ==
  /\ {mine, cache, rowBuf, staged, store} \subseteq Seq(Entry)
  /\ push \in Pushes
  /\ unsure \in BOOLEAN /\ wedged \in BOOLEAN /\ faults \in 0 .. MaxFaults

\* The validate pass of a merge accepts exactly what addTarget() would, entry
\* by entry, under any mask (HearthChargingSchedule.cpp:77), so that every
\* schedule, built or merged, keeps addTarget()'s rules: at most MaxPerDay
\* targets of a day, which belong to one bitmap.
FitsAsAdded ==
  /\ \A mask \in SUBSET Days, incoming \in {mine, store} :
       Fits(cache, mask, incoming) <=> Accepted(Narrowed(cache, mask) \o incoming)
  /\ \A s \in {mine, cache, store}, d \in Days :
       LET of == {i \in DOMAIN s : d \in s[i].bits}
       IN Cardinality(of) <= MaxPerDay /\ Cardinality({s[i].bits : i \in of}) <= 1

ByDay(s) == [d \in Days |-> LET of == SelectSeq(s, LAMBDA e : d \in e.bits)
                            IN [i \in DOMAIN of |-> of[i].target]]

\* From a reconcile on, while neither a push nor another reconcile is running,
\* the cache holds day by day what the store holds (MatterEvse.h:140), unless
\* since that reconcile an answer or a line was lost, or a controller's schedule
\* was merged between an apply and the cache's part of it, was merged while the
\* cache itself was being pushed and some of its rows were staged, or came
\* between a reconcile's clear and its rebuild (the last three: Overtaken).
CacheIsStore == push.at = "idle" /\ ~unsure => ByDay(cache) = ByDay(store)

\* A push that begins by discarding the stage is never refused for its count,
\* whatever an earlier one left staged (MatterEvse.cpp:204), unless it pushes
\* the cache and a controller's schedule changed that after its first row.
NeverWedged == ~wedged

\* A reconcile leaves the whole live schedule or an empty one, whatever lines
\* of its read are lost: never a part of it (MatterEvse.cpp:336).  That is so
\* unless a controller's schedule came before it was done: one merged into the
\* cleared cache, or one fetched into the buffer the rows wait in.
ResyncWhole ==
  [][push.at \in {"read", "rebuild"} /\ push'.at = "idle" /\ push.clean
       => cache' \in {store', <<>>}]_vars
=============================================================================
