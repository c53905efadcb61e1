------------------------ MODULE HearthSchedule_proofs ------------------------
(***************************************************************************)
(* What holds of the charging schedule for any days, any limit per day,    *)
(* any targets and any proposals.                                          *)
(*                                                                         *)
(* The passes over a schedule are loops.  Each is the last value of a      *)
(* function defined by recursion over the rows done, and what a loop keeps *)
(* is shown by going up its rows (Climb).  The rules of addTarget(), which *)
(* speak of a schedule entry by entry, come to three that speak of it as a *)
(* whole (Ruled); the limit on all entries follows from the other two.     *)
(***************************************************************************)
EXTENDS HearthSchedule, FunctionTheorems, FiniteSetTheorems, SequenceTheorems,
        WellFoundedInduction, TLAPS

---------------------------------------------------------------------------
(* Going up the rows.                                                      *)

\* A set of natural numbers has a least element.
LEMMA Least ==
  ASSUME NEW T, T \subseteq Nat, T # {}
  PROVE  \E m \in T : \A k \in T : ~(k < m)
<1> DEFINE R == {ss \in Nat \X Nat : ss[1] < ss[2]}
<1>1. IsWellFoundedOn(R, Nat)
  BY NatLessThanWellFounded DEF OpToRel
<1>2. \A x, y \in Nat : x < y => <<x, y>> \in R
  OBVIOUS
<1> HIDE DEF R
<1>3. PICK m \in T : \A k \in T : <<k, m>> \notin R
  BY <1>1, WFMin
<1> QED
  BY <1>2, <1>3

\* What holds before the first row, and after each row if before it, holds throughout.
LEMMA Climb ==
  ASSUME NEW n \in Nat, NEW T \in SUBSET (0 .. n), 0 \in T,
         \A i \in 1 .. n : i - 1 \in T => i \in T
  PROVE  T = 0 .. n
<1> SUFFICES ASSUME T # 0 .. n  PROVE FALSE
  OBVIOUS
<1> DEFINE U == (0 .. n) \ T
<1>0. PICK x \in 0 .. n : x \notin T
  OBVIOUS
<1>1. U # {} /\ U \subseteq Nat
  BY <1>0
<1>2. PICK m \in U : \A k \in U : ~(k < m)
  BY <1>1, Least
<1>3. m \in 0 .. n /\ m \notin T /\ m # 0 /\ m \in 1 .. n
  OBVIOUS
<1>4. m - 1 \in 0 .. n /\ m - 1 < m
  BY <1>3
<1>5. m - 1 \in T
  BY <1>2, <1>4
<1> QED
  BY <1>3, <1>5

\* A loop has a run: its values before the first row and after each.
Run(X, base, n, step, f) ==
  /\ f \in [0 .. n -> X] /\ f[0] = base
  /\ \A i \in 1 .. n : f[i] = step[<<f[i - 1], i>>]

LEMMA Runs ==
  ASSUME NEW X, NEW base \in X, NEW n \in Nat, NEW step \in [X \X (1 .. n) -> X]
  PROVE  \E f : Run(X, base, n, step, f)
<1> DEFINE T == {k \in 0 .. n : \E f \in [0 .. k -> X] :
                   f[0] = base /\ \A i \in 1 .. k : f[i] = step[<<f[i - 1], i>>]}
<1>1. 0 \in T
  <2> DEFINE f == [i \in 0 .. 0 |-> base]
  <2>1. f \in [0 .. 0 -> X] /\ f[0] = base
    OBVIOUS
  <2>2. \A i \in 1 .. 0 : FALSE
    OBVIOUS
  <2> HIDE DEF f
  <2> QED
    BY <2>1, <2>2
<1>2. ASSUME NEW k \in 1 .. n, k - 1 \in T  PROVE k \in T
  <2>1. PICK f \in [0 .. k - 1 -> X] :
          f[0] = base /\ \A i \in 1 .. k - 1 : f[i] = step[<<f[i - 1], i>>]
    BY <1>2
  <2> DEFINE g == [i \in 0 .. k |-> IF i < k THEN f[i] ELSE step[<<f[k - 1], k>>]]
  <2>2. k - 1 \in 0 .. k - 1 /\ f[k - 1] \in X /\ <<f[k - 1], k>> \in X \X (1 .. n)
    BY <2>1
  <2>3. step[<<f[k - 1], k>>] \in X
    BY <2>2
  <2>4. \A i \in 0 .. k : i < k => i \in 0 .. k - 1
    OBVIOUS
  <2>5. g \in [0 .. k -> X]
    BY <2>1, <2>3, <2>4
  <2>6. g[0] = base
    BY <2>1
  <2>7. ASSUME NEW i \in 1 .. k  PROVE g[i] = step[<<g[i - 1], i>>]
    <3>1. i - 1 \in 0 .. k /\ i - 1 < k /\ i \in 0 .. k /\ g[i - 1] = f[i - 1]
      OBVIOUS
    <3>2. CASE i < k
      <4>1. i \in 1 .. k - 1 /\ g[i] = f[i]
        BY <3>1, <3>2
      <4> QED
        BY <2>1, <3>1, <4>1
    <3>3. CASE i = k
      BY <3>1, <3>3
    <3> QED
      BY <3>2, <3>3
  <2> HIDE DEF g
  <2> QED
    BY <2>5, <2>6, <2>7
<1> HIDE DEF T
<1>3. T \in SUBSET (0 .. n)
  BY DEF T
<1>4. n \in T
  BY <1>1, <1>2, <1>3, Climb
<1> QED
  BY <1>4 DEF T, Run

---------------------------------------------------------------------------
(* The passes, row by row.                                                 *)

LEMMA NarrowEntry ==
  ASSUME NEW e \in Entry, NEW mask
  PROVE  /\ Narrow(e, mask).bits = e.bits \ mask
         /\ Narrow(e, mask).bits # {} => Narrow(e, mask) \in Entry
<1>1. e = [bits |-> e.bits, target |-> e.target] /\ e.bits \in SUBSET Days /\ e.target \in Targets
  BY DEF Entry
<1>2. Narrow(e, mask) = [bits |-> e.bits \ mask, target |-> e.target]
  BY <1>1 DEF Narrow
<1>3. e.bits \ mask \in SUBSET Days
  BY <1>1
<1> QED
  BY <1>1, <1>2, <1>3 DEF Entry

LEMMA KeptSeq ==
  ASSUME NEW s \in Seq(Entry), NEW e \in Entry, NEW mask
  PROVE  Kept(s, Narrow(e, mask)) \in Seq(Entry)
BY NarrowEntry DEF Kept

\* mergeByDay(): the write index after each entry read (HearthChargingSchedule.cpp:180).
LEMMA NarrowedRun ==
  ASSUME NEW s \in Seq(Entry), NEW mask
  PROVE  \E w \in [0 .. Len(s) -> Seq(Entry)] :
           /\ w[0] = <<>> /\ Narrowed(s, mask) = w[Len(s)]
           /\ \A r \in 1 .. Len(s) : w[r] = Kept(w[r - 1], Narrow(s[r], mask))
<1>0. Len(s) \in Nat /\ \A r \in 1 .. Len(s) : s[r] \in Entry
  OBVIOUS
<1> DEFINE step == [x \in Seq(Entry) \X (1 .. Len(s)) |-> Kept(x[1], Narrow(s[x[2]], mask))]
<1>1. step \in [Seq(Entry) \X (1 .. Len(s)) -> Seq(Entry)]
  BY <1>0, KeptSeq
<1>2. \A x \in Seq(Entry), r \in 1 .. Len(s) : step[<<x, r>>] = Kept(x, Narrow(s[r], mask))
  OBVIOUS
<1> HIDE DEF step
<1>3. PICK f \in [0 .. Len(s) -> Seq(Entry)] :
        f[0] = <<>> /\ \A r \in 1 .. Len(s) : f[r] = step[<<f[r - 1], r>>]
  <2>1. <<>> \in Seq(Entry)
    OBVIOUS
  <2>2. PICK f : Run(Seq(Entry), <<>>, Len(s), step, f)
    BY <1>0, <1>1, <2>1, Runs
  <2> QED
    BY <2>2 DEF Run
<1>4. ASSUME NEW r \in 1 .. Len(s)  PROVE f[r] = Kept(f[r - 1], Narrow(s[r], mask))
  <2>1. r - 1 \in 0 .. Len(s)
    OBVIOUS
  <2> QED
    BY <1>2, <1>3, <2>1
<1> DEFINE Eq(w) ==
      w = [r \in 0 .. Len(s) |-> IF r = 0 THEN <<>> ELSE Kept(w[r - 1], Narrow(s[r], mask))]
<1>5. Eq(f)
  <2>1. \A r \in 0 .. Len(s) : r # 0 => r \in 1 .. Len(s)
    OBVIOUS
  <2> QED
    BY <1>3, <1>4, <2>1
<1> DEFINE w == CHOOSE w : Eq(w)
<1>6. Eq(w)
  BY <1>5
<1>7. Narrowed(s, mask) = w[Len(s)]
  BY DEF Narrowed
<1> HIDE DEF w
<1>8. /\ w[0] = <<>>
      /\ \A r \in 1 .. Len(s) : w[r] = Kept(w[r - 1], Narrow(s[r], mask))
  BY <1>0, <1>6
<1> DEFINE T == {r \in 0 .. Len(s) : w[r] \in Seq(Entry)}
<1>9. T = 0 .. Len(s)
  <2>0. <<>> \in Seq(Entry) /\ 0 \in 0 .. Len(s)
    BY <1>0
  <2>1. 0 \in T
    BY <2>0, <1>8
  <2>3. T \in SUBSET (0 .. Len(s))
    OBVIOUS
  <2>2. ASSUME NEW r \in 1 .. Len(s), r - 1 \in T  PROVE r \in T
    BY <1>0, <1>8, <2>2, KeptSeq
  <2> HIDE DEF T
  <2> QED
    BY <1>0, <2>1, <2>2, <2>3, Climb
<1>10. w \in [0 .. Len(s) -> Seq(Entry)]
  BY <1>6, <1>9
<1> QED
  BY <1>7, <1>8, <1>10

LEMMA AddTargetSeq ==
  ASSUME NEW s \in Seq(Entry), NEW e \in Entry
  PROVE  AddTarget(s, e.bits, e.target) \in Seq(Entry)
<1>1. [bits |-> e.bits, target |-> e.target] \in Entry
  BY DEF Entry
<1> QED
  BY <1>1 DEF AddTarget

\* Entry by entry through addTarget() (MatterEvse.cpp:411).
LEMMA RebuiltRun ==
  ASSUME NEW s \in Seq(Entry), NEW rows \in Seq(Entry)
  PROVE  \E w \in [0 .. Len(rows) -> Seq(Entry)] :
           /\ w[0] = s /\ Rebuilt(s, rows) = w[Len(rows)]
           /\ \A i \in 1 .. Len(rows) : w[i] = AddTarget(w[i - 1], rows[i].bits, rows[i].target)
<1>0. Len(rows) \in Nat /\ \A i \in 1 .. Len(rows) : rows[i] \in Entry
  OBVIOUS
<1> DEFINE step == [x \in Seq(Entry) \X (1 .. Len(rows)) |-> AddTarget(x[1], rows[x[2]].bits, rows[x[2]].target)]
<1>1. step \in [Seq(Entry) \X (1 .. Len(rows)) -> Seq(Entry)]
  BY <1>0, AddTargetSeq
<1>2. \A x \in Seq(Entry), i \in 1 .. Len(rows) : step[<<x, i>>] = AddTarget(x, rows[i].bits, rows[i].target)
  OBVIOUS
<1> HIDE DEF step
<1>3. PICK f \in [0 .. Len(rows) -> Seq(Entry)] :
        f[0] = s /\ \A i \in 1 .. Len(rows) : f[i] = step[<<f[i - 1], i>>]
  <2>1. s \in Seq(Entry)
    OBVIOUS
  <2>2. PICK f : Run(Seq(Entry), s, Len(rows), step, f)
    BY <1>0, <1>1, <2>1, Runs
  <2> QED
    BY <2>2 DEF Run
<1>4. ASSUME NEW i \in 1 .. Len(rows)  PROVE f[i] = AddTarget(f[i - 1], rows[i].bits, rows[i].target)
  <2>1. i - 1 \in 0 .. Len(rows)
    OBVIOUS
  <2> QED
    BY <1>2, <1>3, <2>1
<1> DEFINE Eq(w) ==
      w = [i \in 0 .. Len(rows) |-> IF i = 0 THEN s ELSE AddTarget(w[i - 1], rows[i].bits, rows[i].target)]
<1>5. Eq(f)
  <2>1. \A i \in 0 .. Len(rows) : i # 0 => i \in 1 .. Len(rows)
    OBVIOUS
  <2> QED
    BY <1>3, <1>4, <2>1
<1> DEFINE w == CHOOSE w : Eq(w)
<1>6. Eq(w)
  BY <1>5
<1>7. Rebuilt(s, rows) = w[Len(rows)]
  BY DEF Rebuilt
<1> HIDE DEF w
<1>8. /\ w[0] = s
      /\ \A i \in 1 .. Len(rows) : w[i] = AddTarget(w[i - 1], rows[i].bits, rows[i].target)
  <2>1. 0 \in 0 .. Len(rows)
    BY <1>0
  <2>2. ASSUME NEW i \in 1 .. Len(rows)  PROVE w[i] = (AddTarget(w[i - 1], rows[i].bits, rows[i].target))
    <3>1. i \in 0 .. Len(rows) /\ i # 0
      OBVIOUS
    <3> QED
      BY <1>6, <3>1
  <2> QED
    BY <1>6, <2>1, <2>2
<1> DEFINE T == {i \in 0 .. Len(rows) : w[i] \in Seq(Entry)}
<1>9. T = 0 .. Len(rows)
  <2>0. s \in Seq(Entry) /\ 0 \in 0 .. Len(rows)
    BY <1>0
  <2>1. 0 \in T
    BY <2>0, <1>8
  <2>2. ASSUME NEW i \in 1 .. Len(rows), i - 1 \in T  PROVE i \in T
    <3>1. w[i - 1] \in Seq(Entry) /\ i \in 0 .. Len(rows) /\ rows[i] \in Entry
      BY <1>0, <2>2
    <3>2. (AddTarget(w[i - 1], rows[i].bits, rows[i].target)) \in Seq(Entry)
      BY <3>1, AddTargetSeq
    <3> QED
      BY <1>8, <3>1, <3>2
  <2>3. T \in SUBSET (0 .. Len(rows))
    OBVIOUS
  <2> HIDE DEF T
  <2> QED
    BY <1>0, <2>1, <2>2, <2>3, Climb
<1>10. w \in [0 .. Len(rows) -> Seq(Entry)]
  BY <1>6, <1>9
<1> QED
  BY <1>7, <1>8, <1>10

\* What the validate pass keeps, and that it does.
Tallies == [count : [SUBSET Days -> Nat], total : Nat, fits : BOOLEAN]

\* One entry more: its group, the total and the verdict.
CountedInto(h, g, e) ==
  /\ h.total = g.total + 1
  /\ h.count[e.bits] = g.count[e.bits] + 1
  /\ \A b \in SUBSET Days : b # e.bits => h.count[b] = g.count[b]
  /\ h.fits <=>
       /\ g.fits /\ g.total < MaxEntries /\ g.count[e.bits] < MaxPerDay
       /\ g.count[e.bits] = 0 =>
            \A b \in SUBSET Days : g.count[b] > 0 => b \cap e.bits = {}

LEMMA CountInTally ==
  ASSUME NEW g \in Tallies, NEW e \in Entry
  PROVE  CountIn(g, e) \in Tallies /\ CountedInto(CountIn(g, e), g, e)
<1>1. e.bits \in SUBSET Days /\ g.count \in [SUBSET Days -> Nat] /\ g.total \in Nat /\ g.fits \in BOOLEAN
  BY DEF Entry, Tallies
<1> DEFINE c == [g.count EXCEPT ![e.bits] = @ + 1]
<1> DEFINE ok == /\ g.fits /\ g.total < MaxEntries /\ g.count[e.bits] < MaxPerDay
                 /\ g.count[e.bits] = 0 =>
                      \A b \in SUBSET Days : g.count[b] > 0 => b \cap e.bits = {}
<1>2. c \in [SUBSET Days -> Nat] /\ c[e.bits] = g.count[e.bits] + 1
      /\ \A b \in SUBSET Days : b # e.bits => c[b] = g.count[b]
  BY <1>1
<1>3. ok \in BOOLEAN
  OBVIOUS
<1>4. CountIn(g, e) = [count |-> c, total |-> g.total + 1, fits |-> ok]
  BY DEF CountIn
<1>5. g.total + 1 \in Nat
  BY <1>1
<1> HIDE DEF c, ok
<1>6. /\ CountIn(g, e).count = c /\ CountIn(g, e).total = g.total + 1
      /\ CountIn(g, e).fits = ok
  BY <1>4
<1>7. CountIn(g, e) \in Tallies
  BY <1>2, <1>3, <1>4, <1>5 DEF Tallies
<1>8. CountIn(g, e).fits <=> ok
  BY <1>6
<1> QED
  BY <1>2, <1>6, <1>7, <1>8 DEF ok, CountedInto

\* The validate pass of mergeByDay() (HearthChargingSchedule.cpp:108).
LEMMA CountedRun ==
  ASSUME NEW rows \in Seq(Entry)
  PROVE  \E w \in [0 .. Len(rows) -> Tallies] :
           /\ w[0] = NoGroups /\ Counted(rows) = w[Len(rows)]
           /\ \A i \in 1 .. Len(rows) : w[i] = CountIn(w[i - 1], rows[i])
<1>0. Len(rows) \in Nat /\ \A i \in 1 .. Len(rows) : rows[i] \in Entry
  OBVIOUS
<1> DEFINE step == [x \in Tallies \X (1 .. Len(rows)) |-> CountIn(x[1], rows[x[2]])]
<1>1. step \in [Tallies \X (1 .. Len(rows)) -> Tallies]
  BY <1>0, CountInTally
<1>2. \A x \in Tallies, i \in 1 .. Len(rows) : step[<<x, i>>] = CountIn(x, rows[i])
  OBVIOUS
<1> HIDE DEF step
<1>3. PICK f \in [0 .. Len(rows) -> Tallies] :
        f[0] = NoGroups /\ \A i \in 1 .. Len(rows) : f[i] = step[<<f[i - 1], i>>]
  <2>1. NoGroups \in Tallies
    BY DEF NoGroups, Tallies
  <2>2. PICK f : Run(Tallies, NoGroups, Len(rows), step, f)
    BY <1>0, <1>1, <2>1, Runs
  <2> QED
    BY <2>2 DEF Run
<1>4. ASSUME NEW i \in 1 .. Len(rows)  PROVE f[i] = CountIn(f[i - 1], rows[i])
  <2>1. i - 1 \in 0 .. Len(rows)
    OBVIOUS
  <2> QED
    BY <1>2, <1>3, <2>1
<1> DEFINE Eq(w) ==
      w = [i \in 0 .. Len(rows) |-> IF i = 0 THEN NoGroups ELSE CountIn(w[i - 1], rows[i])]
<1>5. Eq(f)
  <2>1. \A i \in 0 .. Len(rows) : i # 0 => i \in 1 .. Len(rows)
    OBVIOUS
  <2> QED
    BY <1>3, <1>4, <2>1
<1> DEFINE w == CHOOSE w : Eq(w)
<1>6. Eq(w)
  BY <1>5
<1>7. Counted(rows) = w[Len(rows)]
  BY DEF Counted
<1> HIDE DEF w
<1>8. /\ w[0] = NoGroups
      /\ \A i \in 1 .. Len(rows) : w[i] = CountIn(w[i - 1], rows[i])
  <2>1. 0 \in 0 .. Len(rows)
    BY <1>0
  <2>2. ASSUME NEW i \in 1 .. Len(rows)  PROVE w[i] = (CountIn(w[i - 1], rows[i]))
    <3>1. i \in 0 .. Len(rows) /\ i # 0
      OBVIOUS
    <3> QED
      BY <1>6, <3>1
  <2> QED
    BY <1>6, <2>1, <2>2
<1> DEFINE T == {i \in 0 .. Len(rows) : w[i] \in Tallies}
<1>9. T = 0 .. Len(rows)
  <2>0. NoGroups \in Tallies /\ 0 \in 0 .. Len(rows)
    BY <1>0 DEF NoGroups, Tallies
  <2>1. 0 \in T
    BY <2>0, <1>8
  <2>2. ASSUME NEW i \in 1 .. Len(rows), i - 1 \in T  PROVE i \in T
    <3>1. w[i - 1] \in Tallies /\ i \in 0 .. Len(rows) /\ rows[i] \in Entry
      BY <1>0, <2>2
    <3>2. (CountIn(w[i - 1], rows[i])) \in Tallies
      BY <3>1, CountInTally
    <3> QED
      BY <1>8, <3>1, <3>2
  <2>3. T \in SUBSET (0 .. Len(rows))
    OBVIOUS
  <2> HIDE DEF T
  <2> QED
    BY <1>0, <2>1, <2>2, <2>3, Climb
<1>10. w \in [0 .. Len(rows) -> Tallies]
  BY <1>6, <1>9
<1> QED
  BY <1>7, <1>8, <1>10

\* The lines of a read as they arrive (HearthRowTransfer.cpp:136).
LEMMA ArrivingRun ==
  ASSUME NEW rows \in Seq(Entry), NEW lines
  PROVE  \E w \in [0 .. Len(rows) -> Seq(Entry)] :
           /\ w[0] = <<>> /\ Arriving(rows, lines) = w[Len(rows)]
           /\ \A i \in 1 .. Len(rows) : w[i] = IF i \in lines THEN Append(w[i - 1], rows[i]) ELSE w[i - 1]
<1>0. Len(rows) \in Nat /\ \A i \in 1 .. Len(rows) : rows[i] \in Entry
  OBVIOUS
<1> DEFINE step == [x \in Seq(Entry) \X (1 .. Len(rows)) |-> IF x[2] \in lines THEN Append(x[1], rows[x[2]]) ELSE x[1]]
<1>1. step \in [Seq(Entry) \X (1 .. Len(rows)) -> Seq(Entry)]
  BY <1>0
<1>2. \A x \in Seq(Entry), i \in 1 .. Len(rows) : step[<<x, i>>] = IF i \in lines THEN Append(x, rows[i]) ELSE x
  OBVIOUS
<1> HIDE DEF step
<1>3. PICK f \in [0 .. Len(rows) -> Seq(Entry)] :
        f[0] = <<>> /\ \A i \in 1 .. Len(rows) : f[i] = step[<<f[i - 1], i>>]
  <2>1. <<>> \in Seq(Entry)
    OBVIOUS
  <2>2. PICK f : Run(Seq(Entry), <<>>, Len(rows), step, f)
    BY <1>0, <1>1, <2>1, Runs
  <2> QED
    BY <2>2 DEF Run
<1>4. ASSUME NEW i \in 1 .. Len(rows)  PROVE f[i] = IF i \in lines THEN Append(f[i - 1], rows[i]) ELSE f[i - 1]
  <2>1. i - 1 \in 0 .. Len(rows)
    OBVIOUS
  <2> QED
    BY <1>2, <1>3, <2>1
<1> DEFINE Eq(w) ==
      w = [i \in 0 .. Len(rows) |-> IF i = 0 THEN <<>> ELSE IF i \in lines THEN Append(w[i - 1], rows[i]) ELSE w[i - 1]]
<1>5. Eq(f)
  <2>1. \A i \in 0 .. Len(rows) : i # 0 => i \in 1 .. Len(rows)
    OBVIOUS
  <2> QED
    BY <1>3, <1>4, <2>1
<1> DEFINE w == CHOOSE w : Eq(w)
<1>6. Eq(w)
  BY <1>5
<1>7. Arriving(rows, lines) = w[Len(rows)]
  BY DEF Arriving
<1> HIDE DEF w
<1>8. /\ w[0] = <<>>
      /\ \A i \in 1 .. Len(rows) : w[i] = IF i \in lines THEN Append(w[i - 1], rows[i]) ELSE w[i - 1]
  <2>1. 0 \in 0 .. Len(rows)
    BY <1>0
  <2>2. ASSUME NEW i \in 1 .. Len(rows)  PROVE w[i] = (IF i \in lines THEN Append(w[i - 1], rows[i]) ELSE w[i - 1])
    <3>1. i \in 0 .. Len(rows) /\ i # 0
      OBVIOUS
    <3> QED
      BY <1>6, <3>1
  <2> QED
    BY <1>6, <2>1, <2>2
<1> DEFINE T == {i \in 0 .. Len(rows) : w[i] \in Seq(Entry)}
<1>9. T = 0 .. Len(rows)
  <2>0. <<>> \in Seq(Entry) /\ 0 \in 0 .. Len(rows)
    BY <1>0
  <2>1. 0 \in T
    BY <2>0, <1>8
  <2>2. ASSUME NEW i \in 1 .. Len(rows), i - 1 \in T  PROVE i \in T
    <3>1. w[i - 1] \in Seq(Entry) /\ i \in 0 .. Len(rows) /\ rows[i] \in Entry
      BY <1>0, <2>2
    <3>2. (IF i \in lines THEN Append(w[i - 1], rows[i]) ELSE w[i - 1]) \in Seq(Entry)
      BY <3>1
    <3> QED
      BY <1>8, <3>1, <3>2
  <2>3. T \in SUBSET (0 .. Len(rows))
    OBVIOUS
  <2> HIDE DEF T
  <2> QED
    BY <1>0, <2>1, <2>2, <2>3, Climb
<1>10. w \in [0 .. Len(rows) -> Seq(Entry)]
  BY <1>6, <1>9
<1> QED
  BY <1>7, <1>8, <1>10

---------------------------------------------------------------------------
(* The rules of a schedule.                                                *)

\* The entries of a bitmap among the first i.
Below(s, i, bits) == {j \in 1 .. i : s[j].bits = bits}

LEMMA BelowCount ==
  ASSUME NEW s \in Seq(Entry), NEW i \in 0 .. Len(s), NEW bits
  PROVE  /\ IsFiniteSet(Below(s, i, bits)) /\ Cardinality(Below(s, i, bits)) \in Nat
         /\ Cardinality(Below(s, i, bits)) = 0 <=> Below(s, i, bits) = {}
         /\ i = 0 => Below(s, i, bits) = {} /\ Cardinality(Below(s, i, bits)) = 0
<1>1. IsFiniteSet(1 .. i)
  BY FS_Interval
<1>2. IsFiniteSet(Below(s, i, bits))
  BY <1>1, FS_Subset DEF Below
<1>3. i = 0 => Below(s, i, bits) = {}
  BY DEF Below
<1> QED
  BY <1>2, <1>3, FS_CardinalityType, FS_EmptySet

LEMMA BelowNext ==
  ASSUME NEW s \in Seq(Entry), NEW i \in 1 .. Len(s), NEW bits
  PROVE  Cardinality(Below(s, i, bits)) =
           IF s[i].bits = bits THEN Cardinality(Below(s, i - 1, bits)) + 1
                               ELSE Cardinality(Below(s, i - 1, bits))
<1>1. i - 1 \in 0 .. Len(s) /\ i \in Int /\ 1 .. i = (1 .. i - 1) \cup {i} /\ i \notin 1 .. i - 1
  <2>1. i \in Nat /\ 1 <= i /\ i - 1 \in 0 .. Len(s)
    OBVIOUS
  <2>2. 1 .. i = (1 .. i - 1) \cup {i} /\ i \notin 1 .. i - 1
    BY <2>1
  <2> QED
    BY <2>1, <2>2
<1>2. IsFiniteSet(Below(s, i - 1, bits))
  BY <1>1, BelowCount
<1>3. CASE s[i].bits = bits
  <2>1. Below(s, i, bits) = Below(s, i - 1, bits) \cup {i} /\ i \notin Below(s, i - 1, bits)
    BY <1>1, <1>3 DEF Below
  <2> QED
    <3> DEFINE B == Below(s, i - 1, bits)
    <3>1. IsFiniteSet(B) /\ i \notin B
      BY <1>2, <2>1
    <3> HIDE DEF B
    <3>2. Cardinality(B \cup {i}) = Cardinality(B) + 1
      BY <3>1, FS_AddElement
    <3> QED
      BY <1>3, <2>1, <3>2 DEF B
<1>4. CASE s[i].bits # bits
  <2>1. Below(s, i, bits) = Below(s, i - 1, bits)
    BY <1>1, <1>4 DEF Below
  <2> QED
    BY <1>4, <2>1
<1> QED
  BY <1>3, <1>4

LEMMA GroupIs ==
  ASSUME NEW s \in Seq(Entry), NEW bits
  PROVE  Group(s, bits) = Below(s, Len(s), bits)
BY DEF Group, Below

\* addTarget()'s rules for the entry at i on the entries before it.
TakesAt(s, i) ==
  /\ s[i].bits # {} /\ i - 1 < MaxEntries
  /\ \A j \in 1 .. i - 1 : s[j].bits # s[i].bits => s[j].bits \cap s[i].bits = {}
  /\ Cardinality(Below(s, i - 1, s[i].bits)) < MaxPerDay

LEMMA TakesNext ==
  ASSUME NEW s \in Seq(Entry), NEW i \in 1 .. Len(s)
  PROVE  Takes(SubSeq(s, 1, i - 1), s[i].bits) <=> TakesAt(s, i)
<1> DEFINE p == SubSeq(s, 1, i - 1)
<1>1. DOMAIN p = 1 .. i - 1 /\ Len(p) = i - 1 /\ \A j \in 1 .. i - 1 : p[j] = s[j]
  OBVIOUS
<1> HIDE DEF p
<1>2. Group(p, s[i].bits) = Below(s, i - 1, s[i].bits)
  BY <1>1 DEF Group, Below
<1>3. OwnedByOther(p, s[i].bits)
        <=> \E j \in 1 .. i - 1 : s[j].bits # s[i].bits /\ s[j].bits \cap s[i].bits # {}
  BY <1>1 DEF OwnedByOther
<1>4. Takes(p, s[i].bits) <=> TakesAt(s, i)
  BY <1>1, <1>2, <1>3 DEF Takes, TakesAt
<1> QED
  BY <1>4 DEF p

LEMMA AcceptedAt ==
  ASSUME NEW s \in Seq(Entry)
  PROVE  Accepted(s) <=> \A i \in 1 .. Len(s) : TakesAt(s, i)
<1>1. DOMAIN s = 1 .. Len(s)
  OBVIOUS
<1> QED
  BY <1>1, TakesNext DEF Accepted

\* The two rules that speak of a schedule as a whole: a day belongs to one
\* bitmap, and has so many targets.
Ruled(s) ==
  /\ \A i \in 1 .. Len(s) : s[i].bits # {}
  /\ \A i, j \in 1 .. Len(s) : s[i].bits # s[j].bits => s[i].bits \cap s[j].bits = {}
  /\ \A i \in 1 .. Len(s) : Cardinality(Group(s, s[i].bits)) <= MaxPerDay

\* Seven days of ten targets: the bound on all entries is no rule of its own.
LEMMA RuledBound ==
  ASSUME NEW s \in Seq(Entry), Ruled(s)
  PROVE  Len(s) <= MaxEntries
<1> DEFINE n == Len(s)
<1> DEFINE rank(i) == Cardinality(Below(s, i, s[i].bits))
<1> DEFINE day(i) == CHOOSE d : d \in s[i].bits
<1> DEFINE T == Days \X (1 .. MaxPerDay)
<1> DEFINE f == [i \in 1 .. n |-> <<day(i), rank(i)>>]
<1>a. n \in Nat
  OBVIOUS
<1>b. MaxPerDay \in Nat /\ IsFiniteSet(Days)
  BY ScheduleAssumption DEF ScheduleAssumption
<1>c. ASSUME NEW i \in 1 .. n  PROVE s[i].bits \in SUBSET Days /\ s[i].bits # {}
  <2>1. s[i] \in Entry
    OBVIOUS
  <2> QED
    BY <2>1 DEF Entry
<1>1. ASSUME NEW i \in 1 .. n  PROVE day(i) \in s[i].bits
  BY <1>c
<1>2. ASSUME NEW i \in 1 .. n  PROVE rank(i) \in 1 .. MaxPerDay
  <2>1. Below(s, i, s[i].bits) \subseteq Group(s, s[i].bits) /\ i \in Below(s, i, s[i].bits)
    BY <1>a DEF Below, Group
  <2>7. Len(s) \in 0 .. Len(s)
    BY <1>a
  <2>2. IsFiniteSet(Group(s, s[i].bits)) /\ Cardinality(Group(s, s[i].bits)) \in Nat
    BY <2>7, GroupIs, BelowCount
  <2>3. rank(i) \in Nat /\ rank(i) <= Cardinality(Group(s, s[i].bits))
    BY <2>1, <2>2, FS_Subset, FS_CardinalityType
  <2>4. i \in 0 .. Len(s)
    BY <1>a
  <2>5. rank(i) # 0
    BY <2>1, <2>4, BelowCount
  <2>6. Cardinality(Group(s, s[i].bits)) <= MaxPerDay
    BY DEF Ruled
  <2> HIDE DEF rank
  <2> QED
    BY <1>b, <2>2, <2>3, <2>5, <2>6
<1>3. ASSUME NEW i \in 1 .. n, NEW j \in 1 .. n, i < j, s[i].bits = s[j].bits  PROVE rank(i) # rank(j)
  <2>1. i \in 0 .. Len(s) /\ j \in 0 .. Len(s)
    BY <1>a
  <2>2. Below(s, i, s[i].bits) \subseteq Below(s, j, s[j].bits)
    BY <1>a, <1>3 DEF Below
  <2>3. j \in Below(s, j, s[j].bits) /\ j \notin Below(s, i, s[i].bits)
    BY <1>a, <1>3 DEF Below
  <2>4. IsFiniteSet(Below(s, j, s[j].bits))
    BY <2>1, BelowCount
  <2> QED
    BY <2>2, <2>3, <2>4, FS_Subset
<1> HIDE DEF rank, day
<1>4. f \in [1 .. n -> T]
  <2>1. \A i \in 1 .. n : day(i) \in Days /\ rank(i) \in 1 .. MaxPerDay
    BY <1>1, <1>2, <1>c
  <2> QED
    BY <2>1
<1>5. ASSUME NEW i \in 1 .. n, NEW j \in 1 .. n, f[i] = f[j]  PROVE i = j
  <2>0. f[i] = <<day(i), rank(i)>> /\ f[j] = <<day(j), rank(j)>>
    OBVIOUS
  <2>1. day(i) = day(j) /\ rank(i) = rank(j)
    BY <1>5, <2>0
  <2>2. day(i) \in s[i].bits /\ day(i) \in s[j].bits
    BY <1>1, <2>1
  <2>3. s[i].bits = s[j].bits
    BY <2>2 DEF Ruled
  <2>4. ~(i < j) /\ ~(j < i)
    BY <1>3, <2>1, <2>3
  <2> QED
    BY <1>a, <2>4
<1> HIDE DEF f
<1>6. f \in Injection(1 .. n, T)
  BY <1>4, <1>5 DEF Injection, IsInjective
<1>7. /\ IsFiniteSet(1 .. MaxPerDay) /\ Cardinality(1 .. MaxPerDay) = MaxPerDay
      /\ IsFiniteSet(1 .. n) /\ Cardinality(1 .. n) = n
  <2>1. ASSUME NEW k \in Nat  PROVE IsFiniteSet(1 .. k) /\ Cardinality(1 .. k) = k
    <3>1. 1 \in Int /\ k \in Int /\ k - 1 + 1 = k
      OBVIOUS
    <3>2. CASE k = 0
      <4>1. 1 .. k = {}
        BY <3>2
      <4> QED
        BY <3>2, <4>1, FS_EmptySet
    <3>3. CASE k # 0
      <4>1. 1 <= k
        BY <3>3
      <4>2. IsFiniteSet(1 .. k) /\ Cardinality(1 .. k) = k - 1 + 1
        BY <3>1, <4>1, FS_Interval
      <4> QED
        BY <3>1, <4>2
    <3> QED
      BY <3>2, <3>3
  <2> QED
    BY <1>a, <1>b, <2>1
<1>8. IsFiniteSet(T) /\ Cardinality(T) = Cardinality(Days) * MaxPerDay
  BY <1>b, <1>7, FS_Product
<1> HIDE DEF T
<1>9. Cardinality(1 .. n) <= Cardinality(T)
  BY <1>6, <1>8, FS_Injection
<1> QED
  BY <1>7, <1>8, <1>9 DEF MaxEntries

LEMMA LimitTypes == MaxPerDay \in Nat /\ MaxEntries \in Nat
<1>1. MaxPerDay \in Nat /\ IsFiniteSet(Days)
  BY ScheduleAssumption DEF ScheduleAssumption
<1>2. Cardinality(Days) \in Nat
  BY <1>1, FS_CardinalityType
<1>3. \A a, b \in Nat : a * b \in Nat
  OBVIOUS
<1> QED
  BY <1>1, <1>2, <1>3 DEF MaxEntries

\* addTarget() entry by entry keeps exactly the rules of the whole.
LEMMA AcceptedRuled ==
  ASSUME NEW s \in Seq(Entry)
  PROVE  Accepted(s) <=> Ruled(s)
<1>0. Len(s) \in Nat /\ Len(s) \in 0 .. Len(s) /\ 0 \in 0 .. Len(s)
  OBVIOUS
<1>1. ASSUME Accepted(s)  PROVE Ruled(s)
  <2>1. \A i \in 1 .. Len(s) : TakesAt(s, i)
    BY <1>1, AcceptedAt
  <2>2. \A i \in 1 .. Len(s) : s[i].bits # {}
    BY <2>1 DEF TakesAt
  <2>3. ASSUME NEW i \in 1 .. Len(s), NEW j \in 1 .. Len(s), s[i].bits # s[j].bits
        PROVE  s[i].bits \cap s[j].bits = {}
    <3>1. CASE i < j
      <4>1. i \in 1 .. j - 1
        BY <3>1
      <4> QED
        BY <2>1, <2>3, <4>1 DEF TakesAt
    <3>2. CASE j < i
      <4>1. j \in 1 .. i - 1
        BY <3>2
      <4> QED
        BY <2>1, <2>3, <4>1 DEF TakesAt
    <3>3. i < j \/ j < i
      BY <2>3
    <3> QED
      BY <3>1, <3>2, <3>3
  <2>4. ASSUME NEW i \in 1 .. Len(s)  PROVE Cardinality(Group(s, s[i].bits)) <= MaxPerDay
    <3> DEFINE b == s[i].bits
    <3> DEFINE T == {k \in 0 .. Len(s) : Cardinality(Below(s, k, b)) <= MaxPerDay}
    <3>1. 0 \in T
      <4>1. Cardinality(Below(s, 0, b)) = 0
        BY <1>0, BelowCount
      <4> QED
        BY <1>0, <4>1, LimitTypes
    <3>2. ASSUME NEW k \in 1 .. Len(s), k - 1 \in T  PROVE k \in T
      <4>1. k \in 0 .. Len(s) /\ k - 1 \in 0 .. Len(s)
        OBVIOUS
      <4>2. Cardinality(Below(s, k - 1, b)) \in Nat
        BY <4>1, BelowCount
      <4>3. Cardinality(Below(s, k - 1, b)) <= MaxPerDay
        BY <3>2
      <4>4. s[k].bits = b => Cardinality(Below(s, k - 1, b)) < MaxPerDay
        BY <2>1 DEF TakesAt
      <4>5. Cardinality(Below(s, k, b)) <= MaxPerDay
        BY <4>2, <4>3, <4>4, BelowNext, LimitTypes
      <4> QED
        BY <4>1, <4>5
    <3>3. T \in SUBSET (0 .. Len(s))
      OBVIOUS
    <3> HIDE DEF T
    <3>4. T = 0 .. Len(s)
      BY <1>0, <3>1, <3>2, <3>3, Climb
    <3>5. Cardinality(Below(s, Len(s), b)) <= MaxPerDay
      BY <1>0, <3>4 DEF T
    <3> QED
      BY <3>5, GroupIs
  <2> QED
    BY <2>2, <2>3, <2>4 DEF Ruled
<1>2. ASSUME Ruled(s)  PROVE Accepted(s)
  <2>1. ASSUME NEW i \in 1 .. Len(s)  PROVE TakesAt(s, i)
    <3> DEFINE b == s[i].bits
    <3>1. s[i].bits # {}
      BY <1>2 DEF Ruled
    <3>2. i - 1 < MaxEntries
      BY <1>0, <1>2, RuledBound, LimitTypes
    <3>3. \A j \in 1 .. i - 1 : s[j].bits # s[i].bits => s[j].bits \cap s[i].bits = {}
      BY <1>0, <1>2 DEF Ruled
    <3>4. i \in 0 .. Len(s) /\ i - 1 \in 0 .. Len(s)
      OBVIOUS
    <3>5. Below(s, i, b) \subseteq Group(s, b)
      BY <1>0 DEF Below, Group
    <3>6. IsFiniteSet(Group(s, b)) /\ Cardinality(Group(s, b)) \in Nat
      BY <1>0, GroupIs, BelowCount
    <3>7. Cardinality(Below(s, i, b)) <= Cardinality(Group(s, b))
      BY <3>5, <3>6, FS_Subset
    <3>8. Cardinality(Below(s, i, b)) = Cardinality(Below(s, i - 1, b)) + 1
      BY BelowNext
    <3>9. Cardinality(Group(s, b)) <= MaxPerDay
      BY <1>2 DEF Ruled
    <3>10. Cardinality(Below(s, i - 1, b)) \in Nat
      BY <3>4, BelowCount
    <3>11. Cardinality(Below(s, i - 1, b)) < MaxPerDay
      BY <3>6, <3>7, <3>8, <3>9, <3>10, LimitTypes
    <3> QED
      BY <3>1, <3>2, <3>3, <3>11 DEF TakesAt
  <2> QED
    BY <2>1, AcceptedAt
<1> QED
  BY <1>1, <1>2

\* The groups are enough to see that the next entry keeps the rules.
LEMMA GroupsTell ==
  ASSUME NEW rows \in Seq(Entry), NEW i \in 1 .. Len(rows), NEW count \in [SUBSET Days -> Nat],
         \A b \in SUBSET Days : count[b] = Cardinality(Below(rows, i - 1, b)),
         \A k \in 1 .. i - 1 : TakesAt(rows, k)
  PROVE  (/\ i - 1 < MaxEntries /\ count[rows[i].bits] < MaxPerDay
          /\ count[rows[i].bits] = 0 =>
               \A b \in SUBSET Days : count[b] > 0 => b \cap rows[i].bits = {})
           <=> TakesAt(rows, i)
<1> DEFINE e == rows[i].bits
<1>0. \A j \in 1 .. i : j \in 1 .. Len(rows)
  OBVIOUS
<1>1. \A j \in 1 .. i : rows[j].bits \in SUBSET Days /\ rows[j].bits # {}
  <2>1. \A j \in 1 .. i : rows[j] \in Entry
    BY <1>0
  <2> QED
    BY <2>1 DEF Entry
<1>2. i \in 1 .. i /\ i - 1 \in 0 .. Len(rows) /\ i \in Nat
  OBVIOUS
<1>3. e \in SUBSET Days /\ e # {}
  BY <1>1, <1>2
<1>4. \A b \in SUBSET Days : count[b] \in Nat /\ (count[b] = 0 <=> Below(rows, i - 1, b) = {})
  BY <1>2, BelowCount
<1>5. ASSUME TakesAt(rows, i), count[e] = 0, NEW b \in SUBSET Days, count[b] > 0
      PROVE  b \cap e = {}
  <2>1. Below(rows, i - 1, b) # {}
    BY <1>4, <1>5
  <2>2. PICK j \in 1 .. i - 1 : rows[j].bits = b
    BY <2>1 DEF Below
  <2>3. b # e
    BY <1>5
  <2> QED
    BY <1>5, <2>2, <2>3 DEF TakesAt
<1>6. ASSUME count[e] = 0 => \A b \in SUBSET Days : count[b] > 0 => b \cap e = {},
             NEW j \in 1 .. i - 1, rows[j].bits # e
      PROVE  rows[j].bits \cap e = {}
  <2>0. j \in 1 .. i /\ rows[j].bits \in SUBSET Days
    BY <1>1
  <2>1. CASE count[e] = 0
    <3>1. j \in Below(rows, i - 1, rows[j].bits)
      BY DEF Below
    <3>2. count[rows[j].bits] > 0
      BY <1>4, <2>0, <3>1
    <3> QED
      BY <1>6, <2>0, <2>1, <3>2
  <2>2. CASE count[e] # 0
    <3>1. Below(rows, i - 1, e) # {}
      BY <1>3, <1>4, <2>2
    <3>2. PICK k \in 1 .. i - 1 : rows[k].bits = e
      BY <3>1 DEF Below
    <3>3. TakesAt(rows, j) /\ TakesAt(rows, k)
      OBVIOUS
    <3>4. CASE j < k
      <4>1. j \in 1 .. k - 1
        BY <3>4
      <4> QED
        BY <1>6, <3>2, <3>3, <4>1 DEF TakesAt
    <3>5. CASE k < j
      <4>1. k \in 1 .. j - 1
        BY <3>5
      <4> QED
        BY <1>6, <3>2, <3>3, <4>1 DEF TakesAt
    <3>6. j < k \/ k < j
      BY <1>6, <3>2
    <3> QED
      BY <3>4, <3>5, <3>6
  <2> QED
    BY <2>1, <2>2
<1>7. count[e] = Cardinality(Below(rows, i - 1, e))
  BY <1>3
<1> QED
  BY <1>3, <1>5, <1>6, <1>7 DEF TakesAt

\* The validate pass accepts a complete list exactly if addTarget() would,
\* entry by entry (HearthChargingSchedule.cpp:77).
LEMMA CountedAccepted ==
  ASSUME NEW rows \in Seq(Entry)
  PROVE  Counted(rows).fits <=> Accepted(rows)
<1>0. Len(rows) \in Nat /\ Len(rows) \in 0 .. Len(rows) /\ 0 \in 0 .. Len(rows)
  OBVIOUS
<1>1. PICK w \in [0 .. Len(rows) -> Tallies] :
        /\ w[0] = NoGroups /\ Counted(rows) = w[Len(rows)]
        /\ \A i \in 1 .. Len(rows) : w[i] = CountIn(w[i - 1], rows[i])
  BY CountedRun
<1> DEFINE Tells(i) ==
      /\ w[i].total = i
      /\ \A b \in SUBSET Days : w[i].count[b] = Cardinality(Below(rows, i, b))
      /\ w[i].fits <=> \A k \in 1 .. i : TakesAt(rows, k)
<1> DEFINE T == {i \in 0 .. Len(rows) : Tells(i)}
<1>2. 0 \in T
  <2>1. w[0].total = 0 /\ w[0].fits /\ \A b \in SUBSET Days : w[0].count[b] = 0
    BY <1>1 DEF NoGroups
  <2>2. \A b \in SUBSET Days : Cardinality(Below(rows, 0, b)) = 0
    BY <1>0, BelowCount
  <2>3. \A k \in 1 .. 0 : FALSE
    OBVIOUS
  <2> QED
    BY <1>0, <2>1, <2>2, <2>3
<1>3. ASSUME NEW i \in 1 .. Len(rows), i - 1 \in T  PROVE i \in T
  <2> DEFINE g == w[i - 1]
  <2> DEFINE e == rows[i]
  <2>1. i \in 0 .. Len(rows) /\ i - 1 \in 0 .. Len(rows) /\ i \in Nat
    OBVIOUS
  <2>2. e \in Entry /\ g \in Tallies
    BY <1>1, <2>1
  <2>3. e.bits \in SUBSET Days
    BY <2>2 DEF Entry
  <2>4. Tells(i - 1)
    BY <1>3
  <2>5. g.count \in [SUBSET Days -> Nat] /\ g.fits \in BOOLEAN
    BY <2>2 DEF Tallies
  <2>6. w[i] = CountIn(g, e)
    BY <1>1
  <2>7. /\ w[i].total = g.total + 1
        /\ w[i].count[e.bits] = g.count[e.bits] + 1
        /\ \A b \in SUBSET Days : b # e.bits => w[i].count[b] = g.count[b]
        /\ w[i].fits <=>
             /\ g.fits /\ g.total < MaxEntries /\ g.count[e.bits] < MaxPerDay
             /\ g.count[e.bits] = 0 =>
                  \A b \in SUBSET Days : g.count[b] > 0 => b \cap e.bits = {}
    <3>1. CountedInto(w[i], g, e)
      BY <2>2, <2>6, CountInTally
    <3> QED
      BY <3>1 DEF CountedInto
  <2>8. w[i].total = i
    BY <2>1, <2>4, <2>7
  <2>9. ASSUME NEW b \in SUBSET Days  PROVE w[i].count[b] = Cardinality(Below(rows, i, b))
    <3>1. g.count[b] = Cardinality(Below(rows, i - 1, b))
      BY <2>4
    <3>2. CASE b = e.bits
      BY <2>7, <3>1, <3>2, BelowNext
    <3>3. CASE b # e.bits
      BY <2>7, <3>1, <3>3, BelowNext
    <3> QED
      BY <3>2, <3>3
  <2>10. w[i].fits <=> \A k \in 1 .. i : TakesAt(rows, k)
    <3>1. g.fits <=> \A k \in 1 .. i - 1 : TakesAt(rows, k)
      BY <2>4
    <3>2. \A k \in 1 .. i : k = i \/ k \in 1 .. i - 1
      OBVIOUS
    <3>3. i \in 1 .. i /\ \A k \in 1 .. i - 1 : k \in 1 .. i
      OBVIOUS
    <3>4. g.total = i - 1
      BY <2>4
    <3>5. CASE ~g.fits
      BY <2>7, <3>1, <3>3, <3>5
    <3>6. CASE g.fits
      <4>0. g.count \in [SUBSET Days -> Nat]
        BY <2>5
      <4>1. \A b \in SUBSET Days : g.count[b] = Cardinality(Below(rows, i - 1, b))
        BY <2>4
      <4>2. \A k \in 1 .. i - 1 : TakesAt(rows, k)
        BY <3>1, <3>6
      <4> HIDE DEF g
      <4>3. (/\ i - 1 < MaxEntries /\ g.count[rows[i].bits] < MaxPerDay
             /\ g.count[rows[i].bits] = 0 =>
                  \A b \in SUBSET Days : g.count[b] > 0 => b \cap rows[i].bits = {})
              <=> TakesAt(rows, i)
        BY <4>0, <4>1, <4>2, GroupsTell
      <4>4. w[i].fits <=> TakesAt(rows, i)
        BY <2>7, <3>4, <3>6, <4>3
      <4> QED
        BY <3>2, <3>3, <4>2, <4>4
    <3> QED
      BY <3>5, <3>6
  <2> QED
    BY <2>1, <2>8, <2>9, <2>10
<1>4. T \in SUBSET (0 .. Len(rows))
  OBVIOUS
<1> HIDE DEF T
<1>5. T = 0 .. Len(rows)
  BY <1>0, <1>2, <1>3, <1>4, Climb
<1>6. Tells(Len(rows))
  BY <1>0, <1>5 DEF T
<1>7. Counted(rows).fits <=> \A k \in 1 .. Len(rows) : TakesAt(rows, k)
  BY <1>1, <1>6
<1> QED
  BY <1>7, AcceptedAt

\* An empty schedule is rebuilt whole from its rows exactly if addTarget() takes
\* every one of them (MatterEvse.cpp:411).
LEMMA RebuildsAccepted ==
  ASSUME NEW rows \in Seq(Entry)
  PROVE  Rebuilds(<<>>, rows) <=> Accepted(rows)
<1>0. Len(rows) \in Nat /\ Len(rows) \in 0 .. Len(rows) /\ 0 \in 0 .. Len(rows)
  OBVIOUS
<1>1. PICK w \in [0 .. Len(rows) -> Seq(Entry)] :
        /\ w[0] = <<>> /\ Rebuilt(<<>>, rows) = w[Len(rows)]
        /\ \A i \in 1 .. Len(rows) : w[i] = AddTarget(w[i - 1], rows[i].bits, rows[i].target)
  <2>1. <<>> \in Seq(Entry)
    OBVIOUS
  <2> QED
    BY <2>1, RebuiltRun
<1> DEFINE Taken(i) == \A k \in 1 .. i : TakesAt(rows, k)
<1> DEFINE T == {i \in 0 .. Len(rows) :
                   /\ Len(w[i]) <= i
                   /\ Len(w[i]) = i <=> Taken(i)
                   /\ Len(w[i]) = i => w[i] = SubSeq(rows, 1, i)}
<1>2. 0 \in T
  <2>1. Len(w[0]) = 0 /\ w[0] = SubSeq(rows, 1, 0)
    <3>1. Len(<<>>) = 0 /\ SubSeq(rows, 1, 0) = <<>>
      OBVIOUS
    <3> QED
      BY <1>1, <3>1
  <2>2. Taken(0)
    OBVIOUS
  <2> HIDE DEF Taken
  <2>3. Len(w[0]) <= 0
    BY <2>1
  <2> QED
    BY <1>0, <2>1, <2>2, <2>3
<1>3. ASSUME NEW i \in 1 .. Len(rows), i - 1 \in T  PROVE i \in T
  <2> DEFINE v == w[i - 1]
  <2> DEFINE e == rows[i]
  <2>1. i \in 0 .. Len(rows) /\ i - 1 \in 0 .. Len(rows) /\ i \in Nat
    OBVIOUS
  <2>2. v \in Seq(Entry) /\ e \in Entry
    BY <1>1, <2>1
  <2>3. /\ Len(v) <= i - 1
        /\ Len(v) = i - 1 <=> Taken(i - 1)
        /\ Len(v) = i - 1 => v = SubSeq(rows, 1, i - 1)
    BY <1>3
  <2>4. Taken(i) <=> (Taken(i - 1) /\ TakesAt(rows, i))
    <3>1. \A k \in 1 .. i : k = i \/ k \in 1 .. i - 1
      OBVIOUS
    <3>2. i \in 1 .. i /\ \A k \in 1 .. i - 1 : k \in 1 .. i
      OBVIOUS
    <3> QED
      BY <3>1, <3>2
  <2>5. w[i] = AddTarget(v, e.bits, e.target)
    BY <1>1
  <2>6. e = [bits |-> e.bits, target |-> e.target]
    BY <2>2 DEF Entry
  <2>7. w[i] = IF Takes(v, e.bits) THEN Append(v, e) ELSE v
    BY <2>5, <2>6 DEF AddTarget
  <2>8. Len(v) \in Nat
    BY <2>2
  <2>9. Len(w[i]) = IF Takes(v, e.bits) THEN Len(v) + 1 ELSE Len(v)
    BY <2>2, <2>7
  <2>10. Len(v) = i - 1 => (Takes(v, e.bits) <=> TakesAt(rows, i))
    BY <2>3, TakesNext
  <2> HIDE DEF Taken, v
  <2>11. Len(w[i]) <= i
    BY <2>1, <2>3, <2>8, <2>9
  <2>12. Len(w[i]) = i <=> Taken(i)
    <3>1. CASE Len(v) = i - 1
      BY <2>1, <2>3, <2>4, <2>8, <2>9, <2>10, <3>1
    <3>2. CASE Len(v) # i - 1
      BY <2>1, <2>3, <2>4, <2>8, <2>9, <3>2
    <3> QED
      BY <3>1, <3>2
  <2>13. ASSUME Len(w[i]) = i  PROVE w[i] = SubSeq(rows, 1, i)
    <3>1. Len(v) = i - 1 /\ Takes(v, e.bits)
      BY <2>1, <2>3, <2>8, <2>9, <2>13
    <3>2. w[i] = Append(SubSeq(rows, 1, i - 1), rows[i])
      BY <2>3, <2>7, <3>1
    <3>3. Append(SubSeq(rows, 1, i - 1), rows[i]) = SubSeq(rows, 1, i)
      OBVIOUS
    <3> QED
      BY <3>2, <3>3
  <2> QED
    BY <2>1, <2>11, <2>12, <2>13
<1>4. T \in SUBSET (0 .. Len(rows))
  OBVIOUS
<1> HIDE DEF T
<1>5. T = 0 .. Len(rows)
  BY <1>0, <1>2, <1>3, <1>4, Climb
<1>6. /\ Len(w[Len(rows)]) = Len(rows) <=> Taken(Len(rows))
      /\ Len(w[Len(rows)]) = Len(rows) => w[Len(rows)] = SubSeq(rows, 1, Len(rows))
  BY <1>0, <1>5 DEF T
<1>7. SubSeq(rows, 1, Len(rows)) = rows
  OBVIOUS
<1>8. Rebuilt(<<>>, rows) = rows <=> Taken(Len(rows))
  BY <1>1, <1>6, <1>7
<1>9. <<>> \o rows = rows
  OBVIOUS
<1> QED
  BY <1>8, <1>9, AcceptedAt DEF Rebuilds

\* A read that says it is whole is what was read (MatterEvse.cpp:353).
LEMMA ArrivingWhole ==
  ASSUME NEW rows \in Seq(Entry), NEW got \in Reads(rows)
  PROVE  /\ got \in Seq(Entry)
         /\ Whole(got, rows) => got \in {rows, <<>>}
<1>0. Len(rows) \in Nat /\ Len(rows) \in 0 .. Len(rows) /\ 0 \in 0 .. Len(rows)
  OBVIOUS
<1>1. PICK lines : got = Arriving(rows, lines)
  BY DEF Reads
<1>2. PICK w \in [0 .. Len(rows) -> Seq(Entry)] :
        /\ w[0] = <<>> /\ Arriving(rows, lines) = w[Len(rows)]
        /\ \A i \in 1 .. Len(rows) : w[i] = IF i \in lines THEN Append(w[i - 1], rows[i]) ELSE w[i - 1]
  BY ArrivingRun
<1> DEFINE T == {i \in 0 .. Len(rows) :
                   Len(w[i]) <= i /\ (Len(w[i]) = i => w[i] = SubSeq(rows, 1, i))}
<1>3. 0 \in T
  <2>1. Len(w[0]) = 0 /\ w[0] = SubSeq(rows, 1, 0)
    <3>1. Len(<<>>) = 0 /\ SubSeq(rows, 1, 0) = <<>>
      OBVIOUS
    <3> QED
      BY <1>2, <3>1
  <2>2. Len(w[0]) <= 0
    BY <2>1
  <2> QED
    BY <1>0, <2>1, <2>2
<1>4. ASSUME NEW i \in 1 .. Len(rows), i - 1 \in T  PROVE i \in T
  <2> DEFINE v == w[i - 1]
  <2>1. i \in 0 .. Len(rows) /\ i - 1 \in 0 .. Len(rows) /\ i \in Nat
    OBVIOUS
  <2>2. v \in Seq(Entry) /\ Len(v) \in Nat
    BY <1>2, <2>1
  <2>3. Len(v) <= i - 1 /\ (Len(v) = i - 1 => v = SubSeq(rows, 1, i - 1))
    BY <1>4
  <2>4. w[i] = IF i \in lines THEN Append(v, rows[i]) ELSE v
    BY <1>2
  <2> HIDE DEF v
  <2>5. CASE i \in lines
    <3>1. w[i] = Append(v, rows[i]) /\ Len(w[i]) = Len(v) + 1
      BY <2>2, <2>4, <2>5
    <3>2. Append(SubSeq(rows, 1, i - 1), rows[i]) = SubSeq(rows, 1, i)
      OBVIOUS
    <3>3. Len(w[i]) <= i
      BY <2>1, <2>2, <2>3, <3>1
    <3>4. Len(w[i]) = i => w[i] = SubSeq(rows, 1, i)
      BY <2>1, <2>2, <2>3, <3>1, <3>2
    <3> QED
      BY <2>1, <3>3, <3>4
  <2>6. CASE i \notin lines
    <3>1. Len(w[i]) <= i /\ Len(w[i]) # i
      BY <2>1, <2>2, <2>3, <2>4, <2>6
    <3> QED
      BY <2>1, <3>1
  <2> QED
    BY <2>5, <2>6
<1>5. T \in SUBSET (0 .. Len(rows))
  OBVIOUS
<1> HIDE DEF T
<1>6. T = 0 .. Len(rows)
  BY <1>0, <1>3, <1>4, <1>5, Climb
<1>7. Len(w[Len(rows)]) = Len(rows) => w[Len(rows)] = SubSeq(rows, 1, Len(rows))
  BY <1>0, <1>6 DEF T
<1>8. SubSeq(rows, 1, Len(rows)) = rows
  OBVIOUS
<1>9. got = w[Len(rows)] /\ got \in Seq(Entry)
  BY <1>0, <1>1, <1>2
<1> QED
  BY <1>7, <1>8, <1>9 DEF Whole

---------------------------------------------------------------------------
(* A merge.                                                                *)

\* Which entries are left, in which order.
From(s, mask, v, i, g) ==
  /\ g \in [1 .. Len(v) -> 1 .. i]
  /\ \A j \in 1 .. Len(v) : v[j] = Narrow(s[g[j]], mask) /\ v[j].bits # {}
  /\ \A j, k \in 1 .. Len(v) : g[j] = g[k] => j = k

\* The pass keeps each entry at most once, narrowed (HearthChargingSchedule.cpp:180).
LEMMA NarrowedFrom ==
  ASSUME NEW s \in Seq(Entry), NEW mask
  PROVE  /\ Narrowed(s, mask) \in Seq(Entry)
         /\ \E g : From(s, mask, Narrowed(s, mask), Len(s), g)
<1>0. Len(s) \in Nat /\ Len(s) \in 0 .. Len(s) /\ 0 \in 0 .. Len(s)
  OBVIOUS
<1>1. PICK w \in [0 .. Len(s) -> Seq(Entry)] :
        /\ w[0] = <<>> /\ Narrowed(s, mask) = w[Len(s)]
        /\ \A r \in 1 .. Len(s) : w[r] = Kept(w[r - 1], Narrow(s[r], mask))
  BY NarrowedRun
<1> DEFINE T == {i \in 0 .. Len(s) : \E g : From(s, mask, w[i], i, g)}
<1>2. 0 \in T
  <2> DEFINE g == [j \in 1 .. 0 |-> j]
  <2>1. Len(w[0]) = 0 /\ \A j \in 1 .. 0 : FALSE
    BY <1>1
  <2>2. g \in [1 .. 0 -> 1 .. 0]
    OBVIOUS
  <2> HIDE DEF g
  <2>3. From(s, mask, w[0], 0, g)
    BY <2>1, <2>2 DEF From
  <2> QED
    BY <1>0, <2>3
<1>3. ASSUME NEW i \in 1 .. Len(s), i - 1 \in T  PROVE i \in T
  <2> DEFINE v == w[i - 1]
  <2> DEFINE e == Narrow(s[i], mask)
  <2>1. i \in 0 .. Len(s) /\ i - 1 \in 0 .. Len(s) /\ i \in Nat /\ s[i] \in Entry
    <3>1. i \in 0 .. Len(s) /\ i - 1 \in 0 .. Len(s) /\ i \in Nat
      OBVIOUS
    <3>2. s[i] \in Entry
      OBVIOUS
    <3> QED
      BY <3>1, <3>2
  <2>2. v \in Seq(Entry) /\ Len(v) \in Nat
    <3>1. v \in Seq(Entry)
      BY <1>1, <2>1
    <3> HIDE DEF v
    <3> QED
      BY <3>1
  <2>3. PICK g : From(s, mask, v, i - 1, g)
    BY <1>3
  <2>4. w[i] = Kept(v, e)
    BY <1>1
  <2>5. /\ g \in [1 .. Len(v) -> 1 .. i - 1]
        /\ \A j \in 1 .. Len(v) : v[j] = Narrow(s[g[j]], mask) /\ v[j].bits # {}
        /\ \A j, k \in 1 .. Len(v) : g[j] = g[k] => j = k
    BY <2>3 DEF From
  <2> HIDE DEF v
  <2>6. CASE e.bits = {}
    <3>1. w[i] = v
      BY <2>4, <2>6 DEF Kept
    <3>2. g \in [1 .. Len(v) -> 1 .. i]
      BY <2>1, <2>5
    <3>3. From(s, mask, w[i], i, g)
      BY <2>5, <3>1, <3>2 DEF From
    <3> QED
      BY <2>1, <3>3
  <2>7. CASE e.bits # {}
    <3> DEFINE h == [j \in 1 .. Len(v) + 1 |-> IF j = Len(v) + 1 THEN i ELSE g[j]]
    <3>1. w[i] = Append(v, e)
      BY <2>4, <2>7 DEF Kept
    <3>e. e \in Entry
      BY <2>1, <2>7, NarrowEntry
    <3> DEFINE u == w[i]
    <3>2. Len(u) = Len(v) + 1 /\ u[Len(v) + 1] = e /\ \A j \in 1 .. Len(v) : u[j] = v[j]
      <4> HIDE DEF e
      <4> QED
        BY <2>2, <3>1, <3>e
    <3>3. \A j \in 1 .. Len(v) + 1 : j = Len(v) + 1 \/ j \in 1 .. Len(v)
      BY <2>2
    <3>4. \A j \in 1 .. Len(v) : g[j] \in 1 .. i - 1 /\ g[j] \in 1 .. i /\ g[j] # i
      BY <2>1, <2>5
    <3>5. i \in 1 .. i /\ \A j \in 1 .. Len(v) : j # Len(v) + 1 /\ j \in 1 .. Len(v) + 1
      BY <2>1, <2>2
    <3>6. \A j \in 1 .. Len(v) : h[j] = g[j]
      BY <3>5
    <3>7. Len(v) + 1 \in 1 .. Len(v) + 1 /\ h[Len(v) + 1] = i
      BY <2>2
    <3>8. h \in [1 .. Len(v) + 1 -> 1 .. i]
      BY <3>3, <3>4, <3>5
    <3> HIDE DEF h, u, e
    <3>9. \A j \in 1 .. Len(v) + 1 : u[j] = Narrow(s[h[j]], mask) /\ u[j].bits # {}
      <4>1. ASSUME NEW j \in 1 .. Len(v) + 1  PROVE u[j] = Narrow(s[h[j]], mask) /\ u[j].bits # {}
        <5>1. CASE j = Len(v) + 1
          BY <2>7, <3>2, <3>7, <5>1 DEF e
        <5>2. CASE j \in 1 .. Len(v)
          BY <2>5, <3>2, <3>6, <5>2
        <5> QED
          BY <3>3, <5>1, <5>2
      <4> QED
        BY <4>1
    <3>10. \A j, k \in 1 .. Len(v) + 1 : h[j] = h[k] => j = k
      <4>1. ASSUME NEW j \in 1 .. Len(v) + 1, NEW k \in 1 .. Len(v) + 1, h[j] = h[k]  PROVE j = k
        BY <2>5, <3>3, <3>4, <3>6, <3>7, <4>1
      <4> QED
        BY <4>1
    <3>11. From(s, mask, u, i, h)
      BY <3>2, <3>8, <3>9, <3>10 DEF From
    <3> QED
      BY <2>1, <3>11 DEF u
  <2> QED
    BY <2>6, <2>7
<1>4. T \in SUBSET (0 .. Len(s))
  OBVIOUS
<1> HIDE DEF T
<1>5. T = 0 .. Len(s)
  BY <1>0, <1>2, <1>3, <1>4, Climb
<1>6. \E g : From(s, mask, w[Len(s)], Len(s), g)
  BY <1>0, <1>5 DEF T
<1> QED
  BY <1>0, <1>1, <1>6

\* What the days of the mask leave nothing of is gone.
LEMMA NarrowedNone ==
  ASSUME NEW s \in Seq(Entry), NEW mask, \A i \in 1 .. Len(s) : s[i].bits \subseteq mask
  PROVE  Narrowed(s, mask) = <<>>
<1> DEFINE v == Narrowed(s, mask)
<1>1. v \in Seq(Entry)
  BY NarrowedFrom
<1>2. PICK g : From(s, mask, v, Len(s), g)
  BY NarrowedFrom
<1> HIDE DEF v
<1>3. ASSUME Len(v) # 0  PROVE FALSE
  <2>1. 1 \in 1 .. Len(v)
    BY <1>1, <1>3
  <2>2. g[1] \in 1 .. Len(s) /\ v[1] = Narrow(s[g[1]], mask) /\ v[1].bits # {}
    BY <1>2, <2>1 DEF From
  <2>3. s[g[1]] \in Entry
    BY <2>2
  <2>4. v[1].bits = s[g[1]].bits \ mask
    BY <2>2, <2>3, NarrowEntry
  <2> QED
    BY <2>2, <2>4
<1> QED
  BY <1>1, <1>3 DEF v

\* Narrowing keeps the rules, and leaves nothing of the mask.
LEMMA NarrowedRuled ==
  ASSUME NEW s \in Seq(Entry), NEW mask, Ruled(s)
  PROVE  /\ Ruled(Narrowed(s, mask))
         /\ \A j \in 1 .. Len(Narrowed(s, mask)) : Narrowed(s, mask)[j].bits \cap mask = {}
<1> DEFINE v == Narrowed(s, mask)
<1>1. v \in Seq(Entry)
  BY NarrowedFrom
<1>2. PICK g : From(s, mask, v, Len(s), g)
  BY NarrowedFrom
<1> HIDE DEF v
<1>0. Len(s) \in 0 .. Len(s) /\ Len(v) \in 0 .. Len(v)
  BY <1>1
<1>3. ASSUME NEW j \in 1 .. Len(v)
      PROVE  g[j] \in 1 .. Len(s) /\ v[j].bits = s[g[j]].bits \ mask /\ v[j].bits # {}
  <2>1. g[j] \in 1 .. Len(s) /\ v[j] = Narrow(s[g[j]], mask) /\ v[j].bits # {}
    BY <1>2 DEF From
  <2>2. s[g[j]] \in Entry
    BY <2>1
  <2> QED
    BY <2>1, <2>2, NarrowEntry
<1>4. ASSUME NEW j \in 1 .. Len(v), NEW k \in 1 .. Len(v), v[j].bits # v[k].bits
      PROVE  v[j].bits \cap v[k].bits = {}
  <2>1. s[g[j]].bits # s[g[k]].bits
    BY <1>3, <1>4
  <2>2. s[g[j]].bits \cap s[g[k]].bits = {}
    BY <1>3, <2>1 DEF Ruled
  <2> QED
    BY <1>3, <2>2
<1>5. ASSUME NEW j \in 1 .. Len(v)  PROVE Cardinality(Group(v, v[j].bits)) <= MaxPerDay
  <2> DEFINE A == Group(v, v[j].bits)
  <2> DEFINE B == Group(s, s[g[j]].bits)
  <2> DEFINE f == [k \in A |-> g[k]]
  <2>1. \A k \in A : k \in 1 .. Len(v) /\ v[k].bits = v[j].bits
    BY <1>1 DEF Group
  <2>2. ASSUME NEW k \in A  PROVE g[k] \in B
    <3>1. g[k] \in 1 .. Len(s) /\ s[g[k]].bits \cap s[g[j]].bits # {}
      BY <1>3, <2>1
    <3>2. s[g[k]].bits = s[g[j]].bits
      BY <1>3, <3>1 DEF Ruled
    <3>3. DOMAIN s = 1 .. Len(s)
      OBVIOUS
    <3> QED
      BY <3>1, <3>2, <3>3 DEF Group
  <2>3. \A k, l \in A : g[k] = g[l] => k = l
    BY <1>2, <2>1 DEF From
  <2> HIDE DEF A, B
  <2>4. f \in Injection(A, B)
    BY <2>2, <2>3 DEF Injection, IsInjective
  <2>5. IsFiniteSet(B) /\ IsFiniteSet(A)
    BY <1>0, <1>1, GroupIs, BelowCount DEF A, B
  <2>6. Cardinality(A) <= Cardinality(B)
    BY <2>4, <2>5, FS_Injection
  <2>7. Cardinality(B) <= MaxPerDay
    BY <1>3 DEF B, Ruled
  <2>8. Cardinality(A) \in Nat /\ Cardinality(B) \in Nat
    BY <2>5, FS_CardinalityType
  <2> QED
    BY <2>6, <2>7, <2>8, LimitTypes DEF A
<1>6. Ruled(v)
  BY <1>3, <1>4, <1>5 DEF Ruled
<1>7. \A j \in 1 .. Len(v) : v[j].bits \cap mask = {}
  BY <1>3
<1> QED
  BY <1>6, <1>7 DEF v

\* Two lists that keep the rules and share no day keep them together.
LEMMA ConcatRuled ==
  ASSUME NEW a \in Seq(Entry), NEW c \in Seq(Entry), Ruled(a), Ruled(c),
         \A j \in 1 .. Len(a), k \in 1 .. Len(c) : a[j].bits \cap c[k].bits = {}
  PROVE  Ruled(a \o c)
<1> DEFINE s == a \o c
<1> DEFINE m == Len(a)
<1>1. /\ s \in Seq(Entry) /\ m \in Nat /\ Len(c) \in Nat /\ Len(s) = m + Len(c)
      /\ \A i \in 1 .. m : s[i] = a[i]
      /\ \A i \in 1 .. Len(c) : s[m + i] = c[i]
  OBVIOUS
<1> HIDE DEF s, m
<1>2. \A i \in 1 .. Len(s) : i \in 1 .. m \/ (i - m \in 1 .. Len(c) /\ s[i] = c[i - m])
  <2>1. ASSUME NEW i \in 1 .. Len(s), i \notin 1 .. m
        PROVE  i - m \in 1 .. Len(c) /\ s[i] = c[i - m]
    <3>1. i - m \in 1 .. Len(c) /\ m + (i - m) = i
      BY <1>1, <2>1
    <3> QED
      BY <1>1, <3>1
  <2> QED
    BY <2>1
<1>3. \A i \in 1 .. m : i \in 1 .. Len(s)
  BY <1>1
<1>4. \A j \in 1 .. m, k \in 1 .. Len(c) : a[j].bits \cap c[k].bits = {}
  BY DEF m
<1>5. /\ \A j \in 1 .. m : a[j].bits # {}
      /\ \A i, j \in 1 .. m : a[i].bits # a[j].bits => a[i].bits \cap a[j].bits = {}
      /\ \A i \in 1 .. m : Cardinality(Group(a, a[i].bits)) <= MaxPerDay
  BY DEF Ruled, m
<1>6. /\ \A j \in 1 .. Len(c) : c[j].bits # {}
      /\ \A i, j \in 1 .. Len(c) : c[i].bits # c[j].bits => c[i].bits \cap c[j].bits = {}
      /\ \A i \in 1 .. Len(c) : Cardinality(Group(c, c[i].bits)) <= MaxPerDay
  BY DEF Ruled
<1>7. ASSUME NEW i \in 1 .. Len(s)  PROVE s[i].bits # {}
  <2>1. CASE i \in 1 .. m
    BY <1>1, <1>5, <2>1
  <2>2. CASE i - m \in 1 .. Len(c) /\ s[i] = c[i - m]
    BY <1>6, <2>2
  <2> QED
    BY <1>2, <2>1, <2>2
<1>8. ASSUME NEW i \in 1 .. Len(s), NEW j \in 1 .. Len(s), s[i].bits # s[j].bits
      PROVE  s[i].bits \cap s[j].bits = {}
  <2>1. CASE i \in 1 .. m /\ j \in 1 .. m
    BY <1>1, <1>5, <1>8, <2>1
  <2>2. CASE i \in 1 .. m /\ j \notin 1 .. m
    BY <1>1, <1>2, <1>4, <2>2
  <2>3. CASE i \notin 1 .. m /\ j \in 1 .. m
    BY <1>1, <1>2, <1>4, <2>3
  <2>4. CASE i \notin 1 .. m /\ j \notin 1 .. m
    BY <1>2, <1>6, <1>8, <2>4
  <2> QED
    BY <2>1, <2>2, <2>3, <2>4
<1>9. ASSUME NEW i \in 1 .. Len(s)  PROVE Cardinality(Group(s, s[i].bits)) <= MaxPerDay
  <2> DEFINE b == s[i].bits
  <2>0. b # {}
    BY <1>7
  <2>1. \A k \in Group(s, b) : k \in 1 .. Len(s) /\ s[k].bits = b
    BY <1>1 DEF Group
  <2>2. CASE i \in 1 .. m
    <3>1. Group(s, b) \subseteq Group(a, b)
      <4>1. ASSUME NEW k \in Group(s, b)  PROVE k \in Group(a, b)
        <5>0. k \in 1 .. Len(s) /\ s[k].bits = b /\ b = a[i].bits
          BY <1>1, <2>1, <2>2
        <5>1. k \in 1 .. m
          <6>1. ASSUME k - m \in 1 .. Len(c), s[k] = c[k - m]  PROVE FALSE
            <7>1. c[k - m].bits = a[i].bits
              BY <5>0, <6>1
            <7> QED
              BY <1>4, <2>0, <2>2, <5>0, <6>1, <7>1
          <6> QED
            BY <1>2, <5>0, <6>1
        <5>2. a[k].bits = b /\ DOMAIN a = 1 .. m
          BY <1>1, <2>1, <5>1 DEF m
        <5> QED
          BY <5>1, <5>2 DEF Group
      <4> QED
        BY <4>1
    <3>2. IsFiniteSet(Group(a, b))
      <4>1. Len(a) \in 0 .. Len(a)
        BY <1>1 DEF m
      <4> QED
        BY <4>1, GroupIs, BelowCount
    <3>3. Cardinality(Group(s, b)) <= Cardinality(Group(a, b))
          /\ Cardinality(Group(s, b)) \in Nat /\ Cardinality(Group(a, b)) \in Nat
      BY <3>1, <3>2, FS_Subset, FS_CardinalityType
    <3>4. Cardinality(Group(a, b)) <= MaxPerDay
      BY <1>1, <1>5, <2>2
    <3> QED
      BY <3>3, <3>4, LimitTypes
  <2>3. CASE i \notin 1 .. m
    <3> DEFINE f == [k \in Group(s, b) |-> k - m]
    <3>1. i - m \in 1 .. Len(c) /\ b = c[i - m].bits
      BY <1>2, <2>3
    <3>2. ASSUME NEW k \in Group(s, b)  PROVE k - m \in Group(c, b)
      <4>1. k \notin 1 .. m
        BY <1>1, <1>4, <2>0, <2>1, <3>1
      <4>2. k - m \in 1 .. Len(c) /\ c[k - m].bits = b
        BY <1>2, <2>1, <4>1
      <4>3. DOMAIN c = 1 .. Len(c)
        OBVIOUS
      <4> QED
        BY <4>2, <4>3 DEF Group
    <3>3. \A k, l \in Group(s, b) : k - m = l - m => k = l
      <4>1. \A k \in Group(s, b) : k \in Int
        BY <1>1, <2>1
      <4> QED
        BY <1>1, <4>1
    <3> DEFINE A == Group(s, b)
    <3> DEFINE B == Group(c, b)
    <3> HIDE DEF A, B
    <3>4. f \in Injection(A, B)
      BY <3>2, <3>3 DEF Injection, IsInjective, A, B
    <3>5. IsFiniteSet(A) /\ IsFiniteSet(B)
      <4>1. Len(c) \in 0 .. Len(c) /\ Len(s) \in 0 .. Len(s)
        BY <1>1
      <4> QED
        BY <1>1, <4>1, GroupIs, BelowCount DEF A, B
    <3>6. Cardinality(A) <= Cardinality(B)
      BY <3>4, <3>5, FS_Injection
    <3>7. Cardinality(B) <= MaxPerDay
      BY <1>6, <3>1 DEF B
    <3>8. Cardinality(A) \in Nat /\ Cardinality(B) \in Nat
      BY <3>5, FS_CardinalityType
    <3> QED
      BY <3>6, <3>7, <3>8, LimitTypes DEF A
  <2> QED
    BY <2>2, <2>3
<1>10. Ruled(s)
  BY <1>7, <1>8, <1>9 DEF Ruled
<1> QED
  BY <1>10 DEF s

LEMMA MergedSeq ==
  ASSUME NEW s \in Seq(Entry), NEW mask, NEW incoming \in Seq(Entry)
  PROVE  Merged(s, mask, incoming) \in Seq(Entry)
<1>1. Narrowed(s, mask) \in Seq(Entry)
  BY NarrowedFrom
<1>2. \A a, c \in Seq(Entry) : a \o c \in Seq(Entry)
  OBVIOUS
<1> QED
  BY <1>1, <1>2 DEF Merged

\* mergeByDay() accepts exactly what addTarget() would, entry by entry, of the
\* complete list of what stays and what comes (HearthChargingSchedule.cpp:77).
THEOREM FitsIsAccepted ==
  ASSUME NEW s \in Seq(Entry), NEW mask, NEW incoming \in Seq(Entry)
  PROVE  Fits(s, mask, incoming) <=> Accepted(Narrowed(s, mask) \o incoming)
<1>1. Merged(s, mask, incoming) \in Seq(Entry)
  BY MergedSeq
<1> QED
  BY <1>1, CountedAccepted DEF Fits, Merged

\* A merge whose mask covers the rows cannot be refused, whatever the
\* schedule it goes into (MatterEvse.cpp:281, 437).
THEOREM MergeAccepts ==
  ASSUME NEW s \in Seq(Entry), Accepted(s), NEW incoming \in Seq(Entry), Accepted(incoming),
         NEW mask, BitsOf(incoming) \subseteq mask
  PROVE  Accepted(Merged(s, mask, incoming)) /\ Fits(s, mask, incoming)
<1> DEFINE v == Narrowed(s, mask)
<1>1. Ruled(s) /\ Ruled(incoming)
  BY AcceptedRuled
<1>2. v \in Seq(Entry)
  BY NarrowedFrom
<1>3. Ruled(v) /\ \A j \in 1 .. Len(v) : v[j].bits \cap mask = {}
  BY <1>1, NarrowedRuled
<1>4. \A k \in 1 .. Len(incoming) : incoming[k].bits \subseteq mask
  <2>1. DOMAIN incoming = 1 .. Len(incoming)
    OBVIOUS
  <2> QED
    BY <2>1 DEF BitsOf
<1> HIDE DEF v
<1>5. \A j \in 1 .. Len(v), k \in 1 .. Len(incoming) : v[j].bits \cap incoming[k].bits = {}
  BY <1>3, <1>4
<1>6. Ruled(v \o incoming)
  BY <1>1, <1>2, <1>3, <1>5, ConcatRuled
<1>7. Merged(s, mask, incoming) \in Seq(Entry) /\ Ruled(Merged(s, mask, incoming))
  BY <1>6, MergedSeq DEF Merged, v
<1>8. Accepted(Merged(s, mask, incoming))
  BY <1>7, AcceptedRuled
<1> QED
  BY <1>8, FitsIsAccepted DEF Merged

\* A merge leaves a schedule that keeps the rules, or the one that was there.
LEMMA MergeKeeps ==
  ASSUME NEW s \in Seq(Entry), Accepted(s), NEW mask, NEW incoming \in Seq(Entry)
  PROVE  /\ MergeByDay(s, mask, incoming) \in Seq(Entry)
         /\ Accepted(MergeByDay(s, mask, incoming))
<1>1. CASE Fits(s, mask, incoming)
  <2>1. MergeByDay(s, mask, incoming) = Merged(s, mask, incoming)
    BY <1>1 DEF MergeByDay
  <2> QED
    BY <1>1, <2>1, MergedSeq, FitsIsAccepted DEF Merged
<1>2. CASE ~Fits(s, mask, incoming)
  BY <1>2 DEF MergeByDay
<1> QED
  BY <1>1, <1>2

\* Pushing back the very schedule the store holds changes nothing (MatterEvse.cpp:287).
LEMMA PushedBack ==
  ASSUME NEW s \in Seq(Entry)
  PROVE  Merged(s, BitsOf(s), s) = s
<1>1. \A i \in 1 .. Len(s) : s[i].bits \subseteq BitsOf(s)
  <2>1. DOMAIN s = 1 .. Len(s)
    OBVIOUS
  <2> QED
    BY <2>1 DEF BitsOf
<1>2. Narrowed(s, BitsOf(s)) = <<>>
  BY <1>1, NarrowedNone
<1>3. <<>> \o s = s
  OBVIOUS
<1> QED
  BY <1>2, <1>3 DEF Merged

---------------------------------------------------------------------------
(* The invariant.                                                          *)

\* The rows staged are the schedule being pushed, as far as the push has
\* come, and nothing more if it began on an empty stage.  A controller's
\* schedule under a push of the cache itself is the exception.
Undisturbed == ~push.own \/ push.clean \/ ~unsure

StagedSoFar ==
  push.at \in {"stage", "apply"} /\ Undisturbed =>
    /\ push.i <= Len(Pushed) /\ push.i <= Len(staged)
    /\ \A k \in 1 .. push.i : staged[k] = Pushed[k]
    /\ push.mask = UNION {Pushed[k].bits : k \in 1 .. push.i}
    /\ push.clean => Len(staged) = push.i
    /\ push.at = "apply" => push.i = Len(Pushed)

\* A push of rows has some, and starts at the first.
Beginning ==
  /\ push.at = "discard" => push.i = 0 /\ push.mask = {} /\ ~push.clean
  /\ push.at \in {"discard", "stage", "apply", "merge"} /\ ~push.own => mine # <<>>

\* The cache is the store, or will be once what is in progress is done.
Pending == push.at \in {"clear", "read", "rebuild"} \/ (push.at = "merge" /\ ~push.own)

InStep ==
  ~unsure =>
    /\ ~Pending => store = cache
    /\ push.at = "clear" => store = <<>>
    /\ push.at = "merge" /\ ~push.own =>
         push.mask = BitsOf(mine) /\ store = Merged(cache, push.mask, mine)
    /\ push.at \in {"read", "rebuild"} => push.clean
    /\ push.at = "rebuild" => rowBuf = store

\* What a reconcile that nothing overtook has cleared and read.
ReadWhole ==
  push.clean =>
    /\ push.at \in {"read", "rebuild"} => cache = <<>>
    /\ push.at = "rebuild" => rowBuf \in {store, <<>>}

InvRules == Accepted(mine) /\ Accepted(cache) /\ Accepted(store)

Inv == TypeOK /\ InvRules /\ StagedSoFar /\ Beginning /\ InStep /\ ReadWhole /\ ~wedged

\* addTarget() keeps the rules, taken or refused.
LEMMA AddTargetKeeps ==
  ASSUME NEW s \in Seq(Entry), Accepted(s), NEW bits \in SUBSET Days, NEW t \in Targets
  PROVE  AddTarget(s, bits, t) \in Seq(Entry) /\ Accepted(AddTarget(s, bits, t))
<1>1. CASE ~Takes(s, bits)
  BY <1>1 DEF AddTarget
<1>2. CASE Takes(s, bits)
  <2> DEFINE e == [bits |-> bits, target |-> t]
  <2> DEFINE r == Append(s, e)
  <2>1. e \in Entry /\ e.bits = bits
    BY <1>2 DEF Takes, Entry
  <2> HIDE DEF e
  <2>2. /\ r \in Seq(Entry) /\ Len(r) = Len(s) + 1 /\ Len(s) \in Nat
        /\ r[Len(s) + 1] = e /\ \A j \in 1 .. Len(s) : r[j] = s[j]
    BY <2>1
  <2>3. SubSeq(r, 1, Len(s)) = s
    BY <2>1
  <2>4. AddTarget(s, bits, t) = r
    BY <1>2 DEF AddTarget, e
  <2> HIDE DEF r
  <2>5. ASSUME NEW i \in 1 .. Len(r)  PROVE TakesAt(r, i)
    <3>1. CASE i = Len(s) + 1
      <4>1. SubSeq(r, 1, i - 1) = s /\ r[i].bits = bits
        BY <2>1, <2>2, <2>3, <3>1
      <4> QED
        BY <1>2, <2>2, <4>1, TakesNext
    <3>2. CASE i \in 1 .. Len(s)
      <4>1. TakesAt(s, i)
        BY <3>2, AcceptedAt
      <4>2. r[i] = s[i] /\ \A j \in 1 .. i - 1 : j \in 1 .. Len(s) /\ r[j] = s[j]
        BY <2>2, <3>2
      <4>3. Below(r, i - 1, s[i].bits) = Below(s, i - 1, s[i].bits)
        BY <4>2 DEF Below
      <4> QED
        BY <4>1, <4>2, <4>3 DEF TakesAt
    <3>3. i = Len(s) + 1 \/ i \in 1 .. Len(s)
      BY <2>2
    <3> QED
      BY <3>1, <3>2, <3>3
  <2> QED
    BY <2>2, <2>4, <2>5, AcceptedAt
<1> QED
  BY <1>1, <1>2

\* Rows added one by one to a schedule that keeps the rules leave one that does.
LEMMA RebuiltKeeps ==
  ASSUME NEW s \in Seq(Entry), Accepted(s), NEW rows \in Seq(Entry)
  PROVE  Rebuilt(s, rows) \in Seq(Entry) /\ Accepted(Rebuilt(s, rows))
<1>0. Len(rows) \in Nat /\ Len(rows) \in 0 .. Len(rows) /\ 0 \in 0 .. Len(rows)
      /\ \A i \in 1 .. Len(rows) : rows[i] \in Entry
  OBVIOUS
<1>1. PICK w \in [0 .. Len(rows) -> Seq(Entry)] :
        /\ w[0] = s /\ Rebuilt(s, rows) = w[Len(rows)]
        /\ \A i \in 1 .. Len(rows) : w[i] = AddTarget(w[i - 1], rows[i].bits, rows[i].target)
  BY RebuiltRun
<1> DEFINE T == {i \in 0 .. Len(rows) : Accepted(w[i])}
<1>2. 0 \in T
  BY <1>0, <1>1
<1>3. ASSUME NEW i \in 1 .. Len(rows), i - 1 \in T  PROVE i \in T
  <2>1. w[i - 1] \in Seq(Entry) /\ Accepted(w[i - 1]) /\ i \in 0 .. Len(rows)
    BY <1>1, <1>3
  <2>2. rows[i].bits \in SUBSET Days /\ rows[i].target \in Targets
    BY <1>0 DEF Entry
  <2>3. Accepted(AddTarget(w[i - 1], rows[i].bits, rows[i].target))
    BY <2>1, <2>2, AddTargetKeeps
  <2> QED
    BY <1>1, <2>1, <2>3
<1>4. T \in SUBSET (0 .. Len(rows))
  OBVIOUS
<1> HIDE DEF T
<1>5. T = 0 .. Len(rows)
  BY <1>0, <1>2, <1>3, <1>4, Climb
<1> QED
  BY <1>0, <1>1, <1>5 DEF T

LEMMA EmptyAccepted == <<>> \in Seq(Entry) /\ Accepted(<<>>)
<1>1. <<>> \in Seq(Entry)
  OBVIOUS
<1>2. \A i \in 1 .. Len(<<>>) : FALSE
  OBVIOUS
<1> QED
  BY <1>1, <1>2, AcceptedAt

\* A schedule that keeps the rules is no longer than they allow, and covers days only.
LEMMA AcceptedBound ==
  ASSUME NEW s \in Seq(Entry), Accepted(s)
  PROVE  /\ Len(s) \in Nat /\ Len(s) <= MaxEntries
         /\ \A k \in 1 .. Len(s) : s[k] \in Entry /\ s[k].bits \in SUBSET Days
         /\ BitsOf(s) \in SUBSET Days /\ BitsOf(s) = UNION {s[k].bits : k \in 1 .. Len(s)}
<1>1. Len(s) \in Nat /\ DOMAIN s = 1 .. Len(s)
  OBVIOUS
<1>2. Len(s) <= MaxEntries
  BY AcceptedRuled, RuledBound
<1>3. ASSUME NEW k \in 1 .. Len(s)  PROVE s[k] \in Entry /\ s[k].bits \in SUBSET Days
  <2>1. s[k] \in Entry
    OBVIOUS
  <2> QED
    BY <2>1 DEF Entry
<1>4. BitsOf(s) = UNION {s[k].bits : k \in 1 .. Len(s)}
  BY <1>1 DEF BitsOf
<1>5. BitsOf(s) \in SUBSET Days
  BY <1>3, <1>4
<1> QED
  BY <1>1, <1>2, <1>3, <1>4, <1>5

LEMMA PushTyped ==
  ASSUME NEW p \in Pushes
  PROVE  /\ p.at \in {"idle", "empty", "clear", "discard", "stage", "apply", "merge", "read", "rebuild"}
         /\ p.own \in BOOLEAN /\ p.i \in 0 .. MaxEntries /\ p.i \in Nat
         /\ p.mask \in SUBSET Days /\ p.clean \in BOOLEAN
<1>1. p.i \in 0 .. MaxEntries
  BY DEF Pushes
<1>2. p.i \in Nat
  BY <1>1, LimitTypes
<1> QED
  BY <1>1, <1>2 DEF Pushes

\* A push moved on is one still.
LEMMA MovedTo ==
  ASSUME NEW p \in Pushes, NEW l \in {"clear", "stage", "apply", "merge", "rebuild"},
         NEW q, q = [p EXCEPT !.at = l]
  PROVE  /\ q \in Pushes /\ q.at = l /\ q.own = p.own /\ q.i = p.i /\ q.mask = p.mask /\ q.clean = p.clean
BY DEF Pushes

\* A push that is over leaves nothing to keep of it.
LEMMA IdleTyped == Idle \in Pushes
BY LimitTypes DEF Idle, Pushes

LEMMA Over == Fails => StagedSoFar' /\ Beginning' /\ ReadWhole' /\ ~Pending' /\ push'.at = "idle"
BY DEF Fails, Idle, StagedSoFar, Beginning, ReadWhole, Pending

LEMMA InvInit == Init => Inv
<1> SUFFICES ASSUME Init  PROVE Inv
  OBVIOUS
<1>1. /\ mine = <<>> /\ cache = <<>> /\ push = Idle /\ rowBuf = <<>> /\ staged = <<>>
      /\ store \in Proposals /\ unsure = TRUE /\ wedged = FALSE /\ faults = 0
  BY DEF Init
<1>2. store \in Seq(Entry) /\ Accepted(store) /\ MaxFaults \in Nat
  BY <1>1, ScheduleAssumption, ProposalsAssumption DEF ScheduleAssumption
<1>3. TypeOK
  <2>1. {mine, cache, rowBuf, staged, store} \subseteq Seq(Entry)
    BY <1>1, <1>2, EmptyAccepted
  <2>2. unsure \in BOOLEAN /\ wedged \in BOOLEAN
    BY <1>1
  <2>3. faults \in 0 .. MaxFaults
    BY <1>1, <1>2
  <2> QED
    BY <1>1, <2>1, <2>2, <2>3, IdleTyped DEF TypeOK
<1>4. InvRules
  BY <1>1, <1>2, EmptyAccepted DEF InvRules
<1>5. StagedSoFar /\ Beginning /\ ReadWhole
  BY <1>1 DEF StagedSoFar, Beginning, ReadWhole, Idle
<1>6. InStep
  BY <1>1 DEF InStep
<1> QED
  BY <1>1, <1>3, <1>4, <1>5, <1>6 DEF Inv

LEMMA InvStutter == Inv /\ UNCHANGED vars => Inv'
<1> SUFFICES ASSUME Inv, UNCHANGED vars  PROVE Inv'
  OBVIOUS
<1>1. /\ mine' = mine /\ cache' = cache /\ push' = push /\ rowBuf' = rowBuf /\ staged' = staged
      /\ store' = store /\ unsure' = unsure /\ wedged' = wedged /\ faults' = faults
  BY DEF vars
<1> QED
  BY <1>1 DEF Inv, TypeOK, InvRules, StagedSoFar, Undisturbed, Pushed, Beginning, InStep, Pending, ReadWhole

LEMMA InvBuild == Inv /\ Build => Inv'
<1> SUFFICES ASSUME Inv, Build  PROVE Inv'
  OBVIOUS
<1>1. /\ push.at = "idle" /\ cache' = cache /\ push' = push /\ rowBuf' = rowBuf /\ staged' = staged
      /\ store' = store /\ unsure' = unsure /\ wedged' = wedged /\ faults' = faults
  BY DEF Build
<1>2. TypeOK /\ InvRules /\ InStep /\ ~wedged
  BY DEF Inv
<1>3. mine' \in Seq(Entry) /\ Accepted(mine')
  <2>1. ASSUME NEW bits \in SUBSET Days, NEW t \in OwnTargets, mine' = AddTarget(mine, bits, t)
        PROVE  mine' \in Seq(Entry) /\ Accepted(mine')
    <3>1. t \in Targets
      BY ScheduleAssumption DEF ScheduleAssumption
    <3>2. mine \in Seq(Entry) /\ Accepted(mine)
      BY <1>2 DEF TypeOK, InvRules
    <3> QED
      BY <2>1, <3>1, <3>2, AddTargetKeeps
  <2>2. CASE mine' = <<>>
    BY <2>2, EmptyAccepted
  <2> QED
    BY <2>1, <2>2 DEF Build
<1>4. TypeOK'
  BY <1>1, <1>2, <1>3 DEF TypeOK
<1>5. InvRules'
  BY <1>1, <1>2, <1>3 DEF InvRules
<1>6. StagedSoFar' /\ Beginning' /\ ReadWhole' /\ InStep'
  BY <1>1, <1>2 DEF StagedSoFar, Beginning, ReadWhole, InStep, Pending
<1> QED
  BY <1>1, <1>2, <1>4, <1>5, <1>6 DEF Inv

\* What a command refused or lost leaves of the bound.
LEMMA FaultTyped == TypeOK /\ (Fault \/ faults' = faults) => faults' \in 0 .. MaxFaults
<1>1. MaxFaults \in Nat
  BY ScheduleAssumption DEF ScheduleAssumption
<1> QED
  BY <1>1 DEF TypeOK, Fault

LEMMA InvStart == Inv /\ Start => Inv'
<1> SUFFICES ASSUME Inv, Start  PROVE Inv'
  OBVIOUS
<1>1. PICK own \in BOOLEAN :
        /\ push.at = "idle"
        /\ push' = [Idle EXCEPT !.at = IF (IF own THEN cache ELSE mine) = <<>> THEN "empty" ELSE "discard",
                                !.own = own]
  BY DEF Start
<1>2. /\ mine' = mine /\ cache' = cache /\ rowBuf' = rowBuf /\ staged' = staged /\ store' = store
      /\ unsure' = unsure /\ wedged' = wedged /\ faults' = faults
  BY DEF Start
<1>3. TypeOK /\ InvRules /\ InStep /\ ~wedged
  BY DEF Inv
<1>4. /\ push'.at \in {"empty", "discard"} /\ push'.i = 0 /\ push'.mask = {} /\ push'.clean = FALSE
      /\ push'.at = "discard" /\ ~push'.own => mine # <<>>
      /\ push' \in Pushes
  <2> DEFINE next == IF (IF own THEN cache ELSE mine) = <<>> THEN "empty" ELSE "discard"
  <2>1. next \in {"empty", "discard"} /\ (next = "discard" /\ ~own => mine # <<>>)
    OBVIOUS
  <2> HIDE DEF next
  <2>2. push' = [Idle EXCEPT !.at = next, !.own = own]
    BY <1>1 DEF next
  <2>3. push' = [at |-> next, own |-> own, i |-> 0, mask |-> {}, clean |-> FALSE]
    BY <2>2 DEF Idle
  <2>4. 0 \in 0 .. MaxEntries
    BY LimitTypes
  <2> QED
    BY <2>1, <2>3, <2>4 DEF Pushes
<1>5. TypeOK'
  BY <1>2, <1>3, <1>4 DEF TypeOK
<1>6. InvRules'
  BY <1>2, <1>3 DEF InvRules
<1>7. StagedSoFar' /\ Beginning' /\ ReadWhole'
  BY <1>2, <1>4 DEF StagedSoFar, Beginning, ReadWhole
<1>8. InStep'
  BY <1>1, <1>2, <1>3, <1>4 DEF InStep, Pending
<1> QED
  BY <1>2, <1>3, <1>5, <1>6, <1>7, <1>8 DEF Inv

\* What an apply does to the store and the stage, and where the push is then.
LEMMA RowsApplyIs ==
  ASSUME Inv, NEW n \in Nat, NEW then \in {"clear", "merge"}, RowsApply(n, then)
  PROVE  /\ store' \in Seq(Entry) /\ Accepted(store') /\ staged' \in Seq(Entry)
         /\ unsure' \in BOOLEAN /\ faults' \in 0 .. MaxFaults
         /\ \/ Fails /\ (unsure' = TRUE \/ (unsure' = unsure /\ store' = store))
            \/ /\ Applicable(n) /\ push' = [push EXCEPT !.at = then] /\ unsure' = unsure
               /\ store' = IF n = 0 THEN <<>> ELSE Merged(store, BitsOf(staged), staged)
<1>1. /\ TypeOK /\ store \in Seq(Entry) /\ staged \in Seq(Entry) /\ Accepted(store) /\ unsure \in BOOLEAN
  BY DEF Inv, TypeOK, InvRules
<1>2. \/ Applicable(n) /\ TakeStaged(n) /\ push' = [push EXCEPT !.at = then] /\ unsure' = unsure /\ faults' = faults
      \/ Applicable(n) /\ TakeStaged(n) /\ Fault /\ Fails /\ unsure' = TRUE
      \/ Fails /\ store' = store /\ staged' = staged /\ unsure' = unsure /\ (Fault \/ faults' = faults)
  BY DEF RowsApply
<1>3. faults' \in 0 .. MaxFaults
  BY <1>1, <1>2, FaultTyped
<1>4. ASSUME Applicable(n), TakeStaged(n)
      PROVE  /\ store' = IF n = 0 THEN <<>> ELSE Merged(store, BitsOf(staged), staged)
             /\ store' \in Seq(Entry) /\ Accepted(store') /\ staged' \in Seq(Entry)
  <2>1. /\ store' = IF n = 0 THEN <<>> ELSE Merged(store, BitsOf(staged), staged)
        /\ staged' = <<>>
    BY <1>4 DEF TakeStaged, StoreTakes, Merged
  <2>2. CASE n = 0
    BY <2>1, <2>2, EmptyAccepted
  <2>3. CASE n # 0
    <3>1. Accepted(staged)
      BY <1>4, <2>3 DEF Applicable
    <3>2. Merged(store, BitsOf(staged), staged) \in Seq(Entry)
          /\ Accepted(Merged(store, BitsOf(staged), staged))
      BY <1>1, <3>1, MergeAccepts, MergedSeq
    <3> QED
      BY <2>1, <2>3, <3>2, EmptyAccepted
  <2> QED
    BY <2>2, <2>3, <2>1
<1> QED
  BY <1>1, <1>2, <1>3, <1>4

\* An apply that fails leaves the cache where it was.
LEMMA ApplyFails ==
  ASSUME Inv, push.at \in {"empty", "apply"}, Fails, unsure' = TRUE \/ (unsure' = unsure /\ store' = store),
         cache' = cache
  PROVE  StagedSoFar' /\ Beginning' /\ ReadWhole' /\ InStep'
<1>1. ~unsure => store = cache
  BY DEF Inv, InStep, Pending
<1>2. ~unsure' => store' = cache'
  BY <1>1
<1> QED
  BY <1>2, Over DEF InStep, Pending

LEMMA InvApplyNone == Inv /\ ApplyNone => Inv'
<1> SUFFICES ASSUME Inv, ApplyNone  PROVE Inv'
  OBVIOUS
<1>1. /\ push.at = "empty" /\ RowsApply(0, "clear")
      /\ mine' = mine /\ cache' = cache /\ rowBuf' = rowBuf /\ wedged' = wedged
  BY DEF ApplyNone
<1>2. TypeOK /\ InvRules /\ ~wedged
  BY DEF Inv
<1>3. /\ store' \in Seq(Entry) /\ Accepted(store') /\ staged' \in Seq(Entry)
      /\ unsure' \in BOOLEAN /\ faults' \in 0 .. MaxFaults
      /\ \/ Fails /\ (unsure' = TRUE \/ (unsure' = unsure /\ store' = store))
         \/ push' = [push EXCEPT !.at = "clear"] /\ unsure' = unsure /\ store' = <<>>
  <2>1. 0 \in Nat
    OBVIOUS
  <2> QED
    BY <1>1, <2>1, RowsApplyIs
<1>4. push \in Pushes
  BY <1>2 DEF TypeOK
<1>5. push' \in Pushes
  BY <1>3, <1>4, IdleTyped, MovedTo DEF Fails
<1>6. TypeOK'
  BY <1>1, <1>2, <1>3, <1>5 DEF TypeOK
<1>7. InvRules'
  BY <1>1, <1>2, <1>3 DEF InvRules
<1>8. StagedSoFar' /\ Beginning' /\ ReadWhole' /\ InStep'
  <2>1. CASE Fails /\ (unsure' = TRUE \/ (unsure' = unsure /\ store' = store))
    BY <1>1, <2>1, ApplyFails
  <2>2. CASE push' = [push EXCEPT !.at = "clear"] /\ unsure' = unsure /\ store' = <<>>
    <3>1. push'.at = "clear"
      BY <1>4, <2>2, MovedTo
    <3> QED
      BY <2>2, <3>1 DEF StagedSoFar, Beginning, ReadWhole, InStep, Pending
  <2> QED
    BY <1>3, <2>1, <2>2
<1> QED
  BY <1>1, <1>2, <1>6, <1>7, <1>8 DEF Inv

LEMMA InvClearCache == Inv /\ ClearCache => Inv'
<1> SUFFICES ASSUME Inv, ClearCache  PROVE Inv'
  OBVIOUS
<1>1. /\ push.at = "clear" /\ Fails /\ cache' = <<>> /\ mine' = mine /\ rowBuf' = rowBuf
      /\ staged' = staged /\ store' = store /\ unsure' = unsure /\ wedged' = wedged /\ faults' = faults
  BY DEF ClearCache
<1>2. TypeOK /\ InvRules /\ InStep /\ ~wedged
  BY DEF Inv
<1>3. TypeOK'
  BY <1>1, <1>2, EmptyAccepted, IdleTyped DEF TypeOK, Fails
<1>4. InvRules'
  BY <1>1, <1>2, EmptyAccepted DEF InvRules
<1>5. StagedSoFar' /\ Beginning' /\ ReadWhole' /\ ~Pending' /\ push'.at = "idle"
  BY <1>1, Over
<1>6. InStep'
  BY <1>1, <1>2, <1>5 DEF InStep
<1> QED
  BY <1>1, <1>2, <1>3, <1>4, <1>5, <1>6 DEF Inv

LEMMA InvDiscard == Inv /\ Discard => Inv'
<1> SUFFICES ASSUME Inv, Discard  PROVE Inv'
  OBVIOUS
<1>1. /\ push.at = "discard" /\ mine' = mine /\ cache' = cache /\ rowBuf' = rowBuf /\ store' = store
      /\ unsure' = unsure /\ wedged' = wedged
  BY DEF Discard
<1>2. TypeOK /\ InvRules /\ Beginning /\ InStep /\ ~wedged
  BY DEF Inv
<1>3. \/ staged' = <<>> /\ push' = [push EXCEPT !.at = "stage", !.clean = TRUE] /\ faults' = faults
      \/ Fault /\ push' = [push EXCEPT !.at = "stage"] /\ staged' = staged
  BY DEF Discard
<1>4. push \in Pushes /\ {mine, cache, rowBuf, staged, store} \subseteq Seq(Entry)
  BY <1>2 DEF TypeOK
<1>5. /\ push' \in Pushes
      /\ push'.at = "stage" /\ push'.own = push.own /\ push'.i = 0 /\ push'.mask = {}
      /\ push'.clean => staged' = <<>>
  <2>1. push.i = 0 /\ push.mask = {} /\ ~push.clean
    BY <1>1, <1>2 DEF Beginning
  <2>2. CASE push' = [push EXCEPT !.at = "stage", !.clean = TRUE] /\ staged' = <<>>
    BY <1>4, <2>1, <2>2 DEF Pushes
  <2>3. CASE push' = [push EXCEPT !.at = "stage"]
    BY <1>4, <2>1, <2>3, MovedTo
  <2> QED
    BY <1>3, <2>2, <2>3
<1>6. {mine', cache', rowBuf', staged', store'} \subseteq Seq(Entry)
  <2>1. staged' \in Seq(Entry)
    BY <1>3, <1>4, EmptyAccepted
  <2> QED
    BY <1>1, <1>4, <2>1
<1>7. faults' \in 0 .. MaxFaults
  BY <1>2, <1>3, FaultTyped
<1>8. TypeOK'
  <2>1. unsure' \in BOOLEAN /\ wedged' \in BOOLEAN
    BY <1>1, <1>2 DEF TypeOK
  <2> QED
    BY <1>5, <1>6, <1>7, <2>1 DEF TypeOK
<1>9. InvRules'
  BY <1>1, <1>2 DEF InvRules
<1>10. StagedSoFar'
  <2> DEFINE p == Pushed
  <2>0. p' \in Seq(Entry)
    BY <1>6 DEF Pushed
  <2> HIDE DEF p
  <2>1. Len(p') \in Nat /\ Len(staged') \in Nat /\ 1 .. 0 = {}
    BY <1>6, <2>0
  <2>2. 0 <= Len(p') /\ 0 <= Len(staged') /\ (push'.clean => Len(staged') = 0)
    BY <1>5, <2>1
  <2>3. UNION {p'[k].bits : k \in {}} = {}
    OBVIOUS
  <2> QED
    BY <1>5, <2>1, <2>2, <2>3 DEF StagedSoFar, p
<1>11. Beginning' /\ ReadWhole'
  BY <1>1, <1>2, <1>5 DEF Beginning, ReadWhole
<1>12. InStep'
  BY <1>1, <1>2, <1>5 DEF InStep, Pending
<1> QED
  BY <1>1, <1>2, <1>8, <1>9, <1>10, <1>11, <1>12 DEF Inv

LEMMA PushedTyped == Inv => Pushed \in Seq(Entry) /\ Accepted(Pushed)
BY DEF Inv, TypeOK, InvRules, Pushed

\* A staged row replaces the one at its index or makes the set longer.
LEMMA StagedIs ==
  ASSUME NEW r \in Seq(Entry), NEW i \in Nat \ {0}, NEW e \in Entry, staged = r
  PROVE  /\ Staged(i, e) \in Seq(Entry)
         /\ i - 1 <= Len(r) =>
              /\ Len(Staged(i, e)) = IF i <= Len(r) THEN Len(r) ELSE Len(r) + 1
              /\ Staged(i, e)[i] = e
              /\ \A k \in 1 .. i - 1 : Staged(i, e)[k] = r[k]
<1>0. Len(r) \in Nat
  OBVIOUS
<1>1. CASE i <= Len(r)
  <2> DEFINE u == [r EXCEPT ![i] = e]
  <2>1. i \in 1 .. Len(r) /\ Staged(i, e) = u
    BY <1>0, <1>1 DEF Staged
  <2>2. u \in Seq(Entry) /\ Len(u) = Len(r) /\ u[i] = e /\ \A k \in 1 .. i - 1 : u[k] = r[k]
    BY <2>1
  <2> HIDE DEF u
  <2> QED
    BY <1>1, <2>1, <2>2
<1>2. CASE ~(i <= Len(r))
  <2> DEFINE u == Append(r, e)
  <2>1. Staged(i, e) = u
    BY <1>2 DEF Staged
  <2>2. u \in Seq(Entry) /\ Len(u) = Len(r) + 1 /\ u[Len(r) + 1] = e /\ \A k \in 1 .. Len(r) : u[k] = r[k]
    OBVIOUS
  <2> HIDE DEF u
  <2>3. i - 1 <= Len(r) => i = Len(r) + 1 /\ \A k \in 1 .. i - 1 : k \in 1 .. Len(r)
    BY <1>0, <1>2
  <2> QED
    BY <1>2, <2>1, <2>2, <2>3
<1> QED
  BY <1>1, <1>2

LEMMA InvStageRow == Inv /\ StageRow => Inv'
<1> SUFFICES ASSUME Inv, StageRow  PROVE Inv'
  OBVIOUS
<1> DEFINE p == Pushed
<1> DEFINE n == push.i + 1
<1> DEFINE e == p[n]
<1>1. /\ push.at = "stage" /\ push.i < Len(p) /\ mine' = mine /\ cache' = cache /\ rowBuf' = rowBuf
      /\ store' = store /\ unsure' = unsure /\ wedged' = wedged
  BY DEF StageRow
<1>2. \/ /\ push' = [push EXCEPT !.i = @ + 1, !.mask = @ \cup e.bits]
         /\ staged' = Staged(n, e) /\ faults' = faults
      \/ Fault /\ Fails /\ staged' \in {staged, Staged(n, e)}
  BY DEF StageRow
<1>3. TypeOK /\ InvRules /\ StagedSoFar /\ Beginning /\ InStep /\ ~wedged
  BY DEF Inv
<1>4. push \in Pushes
      /\ staged \in Seq(Entry)
  BY <1>3 DEF TypeOK
<1>5. p \in Seq(Entry) /\ Len(p) \in Nat /\ Len(p) <= MaxEntries
      /\ \A k \in 1 .. Len(p) : p[k] \in Entry /\ p[k].bits \in SUBSET Days
  BY PushedTyped, AcceptedBound
<1> HIDE DEF p
<1>6. /\ push.i \in Nat /\ push.mask \in SUBSET Days /\ n \in 1 .. Len(p) /\ n \in 0 .. MaxEntries
      /\ n \in Nat \ {0} /\ n - 1 = push.i
  <2>1. push.i \in Nat /\ push.mask \in SUBSET Days
    BY <1>4, PushTyped
  <2>2. MaxEntries \in Nat
    BY LimitTypes
  <2> QED
    BY <1>1, <1>5, <2>1, <2>2
<1>7. e \in Entry /\ e.bits \in SUBSET Days
  BY <1>5, <1>6
<1> HIDE DEF n, e
<1>8. /\ Staged(n, e) \in Seq(Entry)
      /\ n - 1 <= Len(staged) =>
           /\ Len(Staged(n, e)) = IF n <= Len(staged) THEN Len(staged) ELSE Len(staged) + 1
           /\ Staged(n, e)[n] = e
           /\ \A k \in 1 .. n - 1 : Staged(n, e)[k] = staged[k]
  BY <1>4, <1>6, <1>7, StagedIs
<1>9. staged' \in Seq(Entry)
  BY <1>2, <1>4, <1>8
<1>10. faults' \in 0 .. MaxFaults
  BY <1>2, <1>3, FaultTyped
<1>11. InvRules'
  BY <1>1, <1>3 DEF InvRules
<1>12. {mine', cache', rowBuf', staged', store'} \subseteq Seq(Entry) /\ unsure' \in BOOLEAN /\ wedged' \in BOOLEAN
  BY <1>1, <1>3, <1>9 DEF TypeOK
<1>13. CASE Fails
  <2>1. TypeOK'
    BY <1>10, <1>12, <1>13, IdleTyped DEF TypeOK, Fails
  <2>2. InStep'
    BY <1>1, <1>3, <1>13 DEF InStep, Pending, Fails, Idle
  <2> QED
    BY <1>1, <1>3, <1>11, <1>13, <2>1, <2>2, Over DEF Inv
<1>14. CASE push' = [push EXCEPT !.i = @ + 1, !.mask = @ \cup e.bits] /\ staged' = Staged(n, e)
  <2>1. push' = [push EXCEPT !.i = n, !.mask = push.mask \cup e.bits]
    BY <1>4, <1>14 DEF n, Pushes
  <2>2. push.mask \cup e.bits \in SUBSET Days
    BY <1>6, <1>7
  <2>3. /\ push' \in Pushes
        /\ push'.at = "stage" /\ push'.own = push.own /\ push'.clean = push.clean
        /\ push'.i = n /\ push'.mask = push.mask \cup e.bits
    BY <1>1, <1>4, <1>6, <2>1, <2>2 DEF Pushes
  <2>4. TypeOK'
    BY <1>10, <1>12, <2>3 DEF TypeOK
  <2>5. InStep'
    BY <1>1, <1>3, <2>3 DEF InStep, Pending
  <2>6. StagedSoFar'
    <3>1. p' = p
      BY <1>1, <2>3 DEF p, Pushed
    <3>2. Undisturbed' <=> Undisturbed
      BY <1>1, <2>3 DEF Undisturbed
    <3>3. ASSUME Undisturbed
          PROVE  /\ n <= Len(p) /\ n <= Len(staged')
                 /\ \A k \in 1 .. n : staged'[k] = p[k]
                 /\ push'.mask = UNION {p[k].bits : k \in 1 .. n}
                 /\ push'.clean => Len(staged') = n
      <4>1. /\ push.i <= Len(staged)
            /\ \A k \in 1 .. push.i : staged[k] = p[k]
            /\ push.mask = UNION {p[k].bits : k \in 1 .. push.i}
            /\ push.clean => Len(staged) = push.i
        BY <1>1, <1>3, <3>3 DEF StagedSoFar, p
      <4>2. Len(staged) \in Nat /\ n - 1 <= Len(staged)
        BY <1>4, <1>6, <4>1
      <4>3. /\ Len(staged') = IF n <= Len(staged) THEN Len(staged) ELSE Len(staged) + 1
            /\ staged'[n] = e
            /\ \A k \in 1 .. n - 1 : staged'[k] = staged[k]
        BY <1>8, <1>14, <4>2
      <4>4. \A k \in 1 .. n : k = n \/ k \in 1 .. n - 1
        BY <1>6
      <4>5. n <= Len(p) /\ n <= Len(staged') /\ (push'.clean => Len(staged') = n)
        BY <1>6, <2>3, <4>1, <4>2, <4>3
      <4>6. \A k \in 1 .. n : staged'[k] = p[k]
        BY <1>6, <4>1, <4>3, <4>4 DEF e
      <4>7. push'.mask = UNION {p[k].bits : k \in 1 .. n}
        <5>1. 1 .. n = (1 .. push.i) \cup {n}
          BY <1>6
        <5>2. UNION {p[k].bits : k \in (1 .. push.i) \cup {n}} = (UNION {p[k].bits : k \in 1 .. push.i}) \cup p[n].bits
          OBVIOUS
        <5> QED
          BY <2>3, <4>1, <5>1, <5>2 DEF e
      <4> QED
        BY <4>5, <4>6, <4>7
    <3> QED
      BY <2>3, <3>1, <3>2, <3>3 DEF StagedSoFar, p
  <2>7. Beginning' /\ ReadWhole'
    BY <1>1, <1>3, <2>3 DEF Beginning, ReadWhole
  <2> QED
    BY <1>1, <1>3, <1>11, <2>4, <2>5, <2>6, <2>7 DEF Inv
<1> QED
  BY <1>2, <1>13, <1>14

\* The loop ends at the count it read again.
LEMMA InvStageEnds == Inv /\ StageEnds => Inv'
<1> SUFFICES ASSUME Inv, StageEnds  PROVE Inv'
  OBVIOUS
<1> DEFINE p == Pushed
<1> DEFINE n == Len(p)
<1>1. /\ push.at = "stage" /\ push.i >= n /\ push' = [push EXCEPT !.at = "apply", !.i = n]
      /\ mine' = mine /\ cache' = cache /\ rowBuf' = rowBuf /\ staged' = staged /\ store' = store
      /\ unsure' = unsure /\ wedged' = wedged /\ faults' = faults
  BY DEF StageEnds
<1>2. TypeOK /\ InvRules /\ StagedSoFar /\ Beginning /\ InStep /\ ~wedged
  BY DEF Inv
<1>3. push \in Pushes /\ push.i \in 0 .. MaxEntries
  BY <1>2, PushTyped DEF TypeOK
<1>4. n \in Nat /\ n <= MaxEntries /\ n \in 0 .. MaxEntries /\ push.i \in Nat
  <2>1. n \in Nat /\ n <= MaxEntries
    BY PushedTyped, AcceptedBound
  <2> QED
    BY <1>3, <2>1, LimitTypes
<1> HIDE DEF n
<1>5. /\ push' \in Pushes /\ push'.at = "apply" /\ push'.own = push.own /\ push'.i = n
      /\ push'.mask = push.mask /\ push'.clean = push.clean
  BY <1>1, <1>3, <1>4 DEF Pushes
<1>6. TypeOK'
  BY <1>1, <1>2, <1>5 DEF TypeOK
<1>7. InvRules'
  BY <1>1, <1>2 DEF InvRules
<1>8. p' = p
  BY <1>1, <1>5 DEF Pushed
<1>9. StagedSoFar'
  <2>1. Undisturbed' <=> Undisturbed
    BY <1>1, <1>5 DEF Undisturbed
  <2>2. ASSUME Undisturbed  PROVE push.i = n
    <3>1. push.i <= n
      BY <1>1, <1>2, <2>2 DEF StagedSoFar, n
    <3> QED
      BY <1>1, <1>4, <3>1
  <2> HIDE DEF p
  <2>3. Undisturbed => /\ n <= n /\ n <= Len(staged)
                       /\ \A k \in 1 .. n : staged[k] = p[k]
                       /\ push.mask = UNION {p[k].bits : k \in 1 .. n}
                       /\ push.clean => Len(staged) = n
    BY <1>1, <1>2, <2>2 DEF StagedSoFar, p, n
  <2> QED
    BY <1>1, <1>5, <1>8, <2>1, <2>3 DEF StagedSoFar, p, n
<1>10. Beginning' /\ ReadWhole'
  BY <1>1, <1>2, <1>5 DEF Beginning, ReadWhole
<1>11. InStep'
  BY <1>1, <1>2, <1>5 DEF InStep, Pending
<1> QED
  BY <1>1, <1>2, <1>6, <1>7, <1>9, <1>10, <1>11 DEF Inv

\* The stage is the schedule, unless it holds more rows.
LEMMA StagedWhole ==
  ASSUME Inv, push.at = "apply", Undisturbed
  PROVE  /\ push.i = Len(Pushed)
         /\ Len(staged) = Len(Pushed) => staged = Pushed
         /\ push.mask = BitsOf(Pushed)
         /\ push.clean => Applicable(push.i)
<1> DEFINE p == Pushed
<1>1. p \in Seq(Entry) /\ Accepted(p)
  BY PushedTyped
<1>2. staged \in Seq(Entry)
  BY DEF Inv, TypeOK
<1>3. /\ \A k \in 1 .. push.i : staged[k] = p[k]
      /\ push.mask = UNION {p[k].bits : k \in 1 .. push.i}
      /\ push.clean => Len(staged) = push.i
      /\ push.i = Len(p)
  BY DEF Inv, StagedSoFar
<1> HIDE DEF p
<1>4. Len(p) \in Nat
  BY <1>1
<1>5. push.mask = BitsOf(p)
  BY <1>1, <1>3, AcceptedBound
<1>6. Len(staged) = Len(p) => staged = p
  <2>1. \A a, c \in Seq(Entry) : Len(a) = Len(c) /\ (\A k \in 1 .. Len(a) : a[k] = c[k]) => a = c
    OBVIOUS
  <2> QED
    BY <1>1, <1>2, <1>3, <2>1
<1>7. push.clean => Len(p) = Len(staged) /\ Accepted(staged)
  BY <1>1, <1>3, <1>6
<1> QED
  BY <1>3, <1>5, <1>6, <1>7 DEF Applicable, p

\* The rows applied are the schedule pushed, and the store takes what the
\* cache is to take.
LEMMA AppliedIs ==
  ASSUME Inv, push.at = "apply", ~unsure, Applicable(push.i),
         store' = IF push.i = 0 THEN <<>> ELSE Merged(store, BitsOf(staged), staged)
  PROVE  /\ push.own => store' = cache
         /\ ~push.own => push.mask = BitsOf(mine) /\ store' = Merged(cache, push.mask, mine)
<1>1. cache \in Seq(Entry) /\ mine \in Seq(Entry)
  BY DEF Inv, TypeOK
<1>2. store = cache
  BY DEF Inv, InStep, Pending
<1>3. Undisturbed
  BY DEF Undisturbed
<1>4. push.i = Len(Pushed) /\ (Len(staged) = Len(Pushed) => staged = Pushed) /\ push.mask = BitsOf(Pushed)
  BY <1>3, StagedWhole
<1>5. push.i # 0 => staged = Pushed
  BY <1>4 DEF Applicable
<1>6. CASE push.own
  <2>1. Pushed = cache
    BY <1>6 DEF Pushed
  <2>2. CASE push.i = 0
    <3>1. cache = <<>>
      BY <1>1, <1>4, <2>1, <2>2
    <3> QED
      BY <1>6, <2>2, <3>1
  <2>3. CASE push.i # 0
    <3>1. store' = Merged(cache, BitsOf(cache), cache)
      BY <1>2, <1>5, <2>1, <2>3
    <3> QED
      BY <1>1, <1>6, <3>1, PushedBack
  <2> QED
    BY <2>2, <2>3
<1>7. CASE ~push.own
  <2>1. Pushed = mine
    BY <1>7 DEF Pushed
  <2>2. mine # <<>>
    BY <1>7 DEF Inv, Beginning
  <2>3. push.i # 0
    BY <1>1, <1>4, <2>1, <2>2
  <2> QED
    BY <1>2, <1>4, <1>5, <1>7, <2>1, <2>3
<1> QED
  BY <1>6, <1>7

LEMMA InvApply == Inv /\ Apply => Inv'
<1> SUFFICES ASSUME Inv, Apply  PROVE Inv'
  OBVIOUS
<1>1. /\ push.at = "apply" /\ RowsApply(push.i, "merge")
      /\ mine' = mine /\ cache' = cache /\ rowBuf' = rowBuf
      /\ wedged' = (wedged \/ (push.clean /\ ~Applicable(push.i)))
  BY DEF Apply
<1>2. TypeOK /\ InvRules /\ Beginning /\ ~wedged
  BY DEF Inv
<1>3. push \in Pushes /\ push.i \in Nat
  <2>1. push \in Pushes
    BY <1>2 DEF TypeOK
  <2> QED
    BY <2>1, PushTyped
<1>4. /\ store' \in Seq(Entry) /\ Accepted(store') /\ staged' \in Seq(Entry)
      /\ unsure' \in BOOLEAN /\ faults' \in 0 .. MaxFaults
      /\ \/ Fails /\ (unsure' = TRUE \/ (unsure' = unsure /\ store' = store))
         \/ /\ Applicable(push.i) /\ push' = [push EXCEPT !.at = "merge"] /\ unsure' = unsure
            /\ store' = IF push.i = 0 THEN <<>> ELSE Merged(store, BitsOf(staged), staged)
  BY <1>1, <1>3, RowsApplyIs
<1>5. wedged' = FALSE
  <2>1. push.clean => Applicable(push.i)
    <3>1. push.clean => Undisturbed
      BY DEF Undisturbed
    <3> QED
      BY <1>1, <3>1, StagedWhole
  <2> QED
    BY <1>1, <1>2, <2>1
<1>6. push' \in Pushes
  BY <1>3, <1>4, IdleTyped, MovedTo DEF Fails
<1>7. TypeOK'
  BY <1>1, <1>2, <1>4, <1>5, <1>6 DEF TypeOK
<1>8. InvRules'
  BY <1>1, <1>2, <1>4 DEF InvRules
<1>9. StagedSoFar' /\ Beginning' /\ ReadWhole' /\ InStep'
  <2>1. CASE Fails /\ (unsure' = TRUE \/ (unsure' = unsure /\ store' = store))
    BY <1>1, <2>1, ApplyFails
  <2>2. CASE /\ Applicable(push.i) /\ push' = [push EXCEPT !.at = "merge"] /\ unsure' = unsure
             /\ store' = IF push.i = 0 THEN <<>> ELSE Merged(store, BitsOf(staged), staged)
    <3>1. push'.at = "merge" /\ push'.own = push.own /\ push'.mask = push.mask
      BY <1>3, <2>2, MovedTo
    <3>2. StagedSoFar' /\ Beginning' /\ ReadWhole'
      BY <1>1, <1>2, <3>1 DEF StagedSoFar, Beginning, ReadWhole
    <3>3. ~unsure => /\ push.own => store' = cache
                     /\ ~push.own => push.mask = BitsOf(mine) /\ store' = Merged(cache, push.mask, mine)
      BY <1>1, <2>2, AppliedIs
    <3>4. InStep'
      BY <1>1, <2>2, <3>1, <3>3 DEF InStep, Pending
    <3> QED
      BY <3>2, <3>4
  <2> QED
    BY <1>4, <2>1, <2>2
<1> QED
  BY <1>5, <1>7, <1>8, <1>9 DEF Inv

LEMMA InvMerge == Inv /\ Merge => Inv'
<1> SUFFICES ASSUME Inv, Merge  PROVE Inv'
  OBVIOUS
<1>1. /\ push.at = "merge" /\ Fails
      /\ cache' = IF push.own THEN cache ELSE MergeByDay(cache, push.mask, mine)
      /\ mine' = mine /\ rowBuf' = rowBuf /\ staged' = staged /\ store' = store /\ unsure' = unsure
      /\ wedged' = wedged /\ faults' = faults
  BY DEF Merge
<1>2. TypeOK /\ InvRules /\ InStep /\ ~wedged
  BY DEF Inv
<1>3. cache \in Seq(Entry) /\ Accepted(cache) /\ mine \in Seq(Entry) /\ Accepted(mine)
  BY <1>2 DEF TypeOK, InvRules
<1>4. cache' \in Seq(Entry) /\ Accepted(cache')
  BY <1>1, <1>3, MergeKeeps
<1>5. TypeOK'
  BY <1>1, <1>2, <1>4, IdleTyped DEF TypeOK, Fails
<1>6. InvRules'
  BY <1>1, <1>2, <1>4 DEF InvRules
<1>7. StagedSoFar' /\ Beginning' /\ ReadWhole' /\ ~Pending' /\ push'.at = "idle"
  BY <1>1, Over
<1>8. InStep'
  <2>1. ASSUME ~unsure  PROVE store = cache'
    <3>1. CASE push.own
      BY <1>1, <1>2, <2>1, <3>1 DEF InStep, Pending
    <3>2. CASE ~push.own
      <4>1. push.mask = BitsOf(mine) /\ store = Merged(cache, push.mask, mine)
        BY <1>1, <1>2, <2>1, <3>2 DEF InStep
      <4>2. Fits(cache, push.mask, mine)
        BY <1>3, <4>1, MergeAccepts
      <4> QED
        BY <1>1, <3>2, <4>1, <4>2 DEF MergeByDay
    <3> QED
      BY <3>1, <3>2
  <2> QED
    BY <1>1, <1>7, <2>1 DEF InStep
<1> QED
  BY <1>1, <1>2, <1>5, <1>6, <1>7, <1>8 DEF Inv

LEMMA InvResyncClear == Inv /\ ResyncClear => Inv'
<1> SUFFICES ASSUME Inv, ResyncClear  PROVE Inv'
  OBVIOUS
<1>1. /\ push' = [Idle EXCEPT !.at = "read", !.clean = TRUE] /\ cache' = <<>> /\ unsure' = FALSE
      /\ mine' = mine /\ rowBuf' = rowBuf /\ staged' = staged /\ store' = store
      /\ wedged' = wedged /\ faults' = faults
  BY DEF ResyncClear
<1>2. TypeOK /\ InvRules /\ ~wedged
  BY DEF Inv
<1>3. push' \in Pushes /\ push'.at = "read" /\ push'.clean = TRUE
  <2>1. push' = [at |-> "read", own |-> FALSE, i |-> 0, mask |-> {}, clean |-> TRUE]
    BY <1>1 DEF Idle
  <2> QED
    BY <2>1, LimitTypes DEF Pushes
<1>4. TypeOK'
  BY <1>1, <1>2, <1>3, EmptyAccepted DEF TypeOK
<1>5. InvRules'
  BY <1>1, <1>2, EmptyAccepted DEF InvRules
<1>6. StagedSoFar' /\ Beginning' /\ ReadWhole' /\ InStep'
  BY <1>1, <1>3 DEF StagedSoFar, Beginning, ReadWhole, InStep, Pending
<1> QED
  BY <1>1, <1>2, <1>4, <1>5, <1>6 DEF Inv

LEMMA InvResyncRead == Inv /\ ResyncRead => Inv'
<1> SUFFICES ASSUME Inv, ResyncRead  PROVE Inv'
  OBVIOUS
<1>1. /\ push.at = "read" /\ mine' = mine /\ cache' = cache /\ staged' = staged /\ store' = store
      /\ wedged' = wedged
  BY DEF ResyncRead
<1>2. TypeOK /\ InvRules /\ InStep /\ ReadWhole /\ ~wedged
  BY DEF Inv
<1>3. push \in Pushes /\ rowBuf \in Seq(Entry) /\ store \in Seq(Entry)
  BY <1>2 DEF TypeOK
<1>4. \/ \E got \in Reads(store) :
           /\ IF got = store THEN faults' = faults ELSE Fault
           /\ unsure' = (unsure \/ got # store)
           /\ IF Whole(got, store)
                THEN push' = [push EXCEPT !.at = "rebuild"] /\ rowBuf' = got
                ELSE Fails /\ rowBuf' = rowBuf
      \/ Fault /\ Fails /\ unsure' = TRUE /\ rowBuf' = rowBuf
  BY DEF ResyncRead, GetAll
<1>5. Whole(store, store)
  BY DEF Whole
<1>6. /\ Fault \/ faults' = faults
      /\ unsure' \in BOOLEAN
      /\ \/ Fails /\ unsure' = TRUE /\ rowBuf' = rowBuf
         \/ /\ push' = [push EXCEPT !.at = "rebuild"] /\ rowBuf' \in Seq(Entry) /\ rowBuf' \in {store, <<>>}
            /\ ~unsure' => ~unsure /\ rowBuf' = store
  <2>1. ASSUME NEW got \in Reads(store),
               IF got = store THEN faults' = faults ELSE Fault,
               unsure' = (unsure \/ got # store),
               IF Whole(got, store)
                 THEN push' = [push EXCEPT !.at = "rebuild"] /\ rowBuf' = got
                 ELSE Fails /\ rowBuf' = rowBuf
        PROVE  /\ Fault \/ faults' = faults
               /\ unsure' \in BOOLEAN
               /\ \/ Fails /\ unsure' = TRUE /\ rowBuf' = rowBuf
                  \/ /\ push' = [push EXCEPT !.at = "rebuild"] /\ rowBuf' \in Seq(Entry) /\ rowBuf' \in {store, <<>>}
                     /\ ~unsure' => ~unsure /\ rowBuf' = store
    <3>1. got \in Seq(Entry) /\ (Whole(got, store) => got \in {store, <<>>})
      BY <1>3, ArrivingWhole
    <3>2. CASE Whole(got, store)
      BY <2>1, <3>1, <3>2
    <3>3. CASE ~Whole(got, store)
      BY <1>5, <2>1, <3>3
    <3>4. Fault \/ faults' = faults
      BY <2>1
    <3> QED
      BY <3>2, <3>3, <3>4
  <2> QED
    BY <1>4, <2>1
<1>7. faults' \in 0 .. MaxFaults
  BY <1>2, <1>6, FaultTyped
<1>8. push' \in Pushes /\ rowBuf' \in Seq(Entry)
  BY <1>3, <1>6, IdleTyped, MovedTo DEF Fails
<1>9. TypeOK'
  BY <1>1, <1>2, <1>6, <1>7, <1>8 DEF TypeOK
<1>10. InvRules'
  BY <1>1, <1>2 DEF InvRules
<1>11. StagedSoFar' /\ Beginning' /\ ReadWhole' /\ InStep'
  <2>1. CASE Fails /\ unsure' = TRUE
    BY <2>1, Over DEF InStep
  <2>2. CASE /\ push' = [push EXCEPT !.at = "rebuild"] /\ rowBuf' \in {store, <<>>}
             /\ ~unsure' => ~unsure /\ rowBuf' = store
    <3>1. push'.at = "rebuild" /\ push'.clean = push.clean
      BY <1>3, <2>2, MovedTo
    <3> QED
      BY <1>1, <1>2, <2>2, <3>1 DEF StagedSoFar, Beginning, ReadWhole, InStep, Pending
  <2> QED
    BY <1>6, <2>1, <2>2
<1> QED
  BY <1>1, <1>2, <1>9, <1>10, <1>11 DEF Inv

\* The rebuilding of a cache nothing touched since it was cleared.
LEMMA RebuildTakes ==
  ASSUME Inv, ResyncRebuild
  PROVE  /\ cache' \in Seq(Entry) /\ Accepted(cache')
         /\ push.clean => cache' \in {store, <<>>}
         /\ ~unsure => cache' = store
<1>1. /\ push.at = "rebuild"
      /\ cache' = IF Rebuilds(cache, rowBuf) THEN Rebuilt(cache, rowBuf) ELSE <<>>
  BY DEF ResyncRebuild
<1>2. /\ cache \in Seq(Entry) /\ Accepted(cache) /\ rowBuf \in Seq(Entry)
      /\ store \in Seq(Entry) /\ Accepted(store)
  BY DEF Inv, TypeOK, InvRules
<1>3. cache' \in Seq(Entry) /\ Accepted(cache')
  BY <1>1, <1>2, RebuiltKeeps, EmptyAccepted
<1>4. ASSUME push.clean  PROVE cache = <<>> /\ rowBuf \in {store, <<>>}
  BY <1>1, <1>4 DEF Inv, ReadWhole
<1>5. ASSUME push.clean, Rebuilds(cache, rowBuf)  PROVE cache' = rowBuf
  <2>1. <<>> \o rowBuf = rowBuf
    BY <1>2
  <2> QED
    BY <1>1, <1>4, <1>5, <2>1 DEF Rebuilds
<1>6. push.clean => cache' \in {store, <<>>}
  BY <1>1, <1>4, <1>5
<1>7. ASSUME ~unsure  PROVE cache' = store
  <2>1. push.clean /\ rowBuf = store
    BY <1>1, <1>7 DEF Inv, InStep
  <2>2. Rebuilds(<<>>, store)
    BY <1>2, RebuildsAccepted
  <2> QED
    BY <1>4, <1>5, <2>1, <2>2
<1> QED
  BY <1>3, <1>6, <1>7

LEMMA InvResyncRebuild == Inv /\ ResyncRebuild => Inv'
<1> SUFFICES ASSUME Inv, ResyncRebuild  PROVE Inv'
  OBVIOUS
<1>1. /\ Fails /\ rowBuf' = <<>> /\ mine' = mine /\ staged' = staged /\ store' = store
      /\ unsure' = unsure /\ wedged' = wedged /\ faults' = faults
  BY DEF ResyncRebuild
<1>2. TypeOK /\ InvRules /\ ~wedged
  BY DEF Inv
<1>3. cache' \in Seq(Entry) /\ Accepted(cache') /\ (~unsure => cache' = store)
  BY RebuildTakes
<1>4. TypeOK'
  BY <1>1, <1>2, <1>3, IdleTyped, EmptyAccepted DEF TypeOK, Fails
<1>5. InvRules'
  BY <1>1, <1>2, <1>3 DEF InvRules
<1>6. StagedSoFar' /\ Beginning' /\ ReadWhole' /\ ~Pending' /\ push'.at = "idle"
  BY <1>1, Over
<1>7. InStep'
  BY <1>1, <1>3, <1>6 DEF InStep
<1> QED
  BY <1>1, <1>2, <1>4, <1>5, <1>6, <1>7 DEF Inv

LEMMA InvSetTargets == Inv /\ SetTargets => Inv'
<1> SUFFICES ASSUME Inv, SetTargets  PROVE Inv'
  OBVIOUS
<1>0. PICK p \in Proposals, extra \in SUBSET Days, allow \in BOOLEAN : \E got \in GetAllProposed(p) :
        LET mask   == BitsOf(p) \cup extra
            merged == allow /\ mask # {}
            amiss  == (merged /\ Overtaken) \/ (push.at = "rebuild" /\ got # <<>>)
        IN
        /\ IF got = p THEN UNCHANGED faults ELSE Fault
        /\ allow => Whole(got, p) /\ Rebuilds(<<>>, got)
        /\ rowBuf' = Refilled(got)
        /\ IF merged THEN store' = StoreTakes(store, mask, p) /\ cache' = MergeByDay(cache, mask, got)
                     ELSE UNCHANGED <<store, cache>>
        /\ unsure' = (unsure \/ (merged /\ got # p) \/ amiss)
        /\ push' = [push EXCEPT !.clean = @ /\ ~amiss]
        /\ UNCHANGED <<mine, staged, wedged>>
  BY DEF SetTargets
<1> DEFINE mask == BitsOf(p) \cup extra
<1> DEFINE merged == allow /\ mask # {}
<1> DEFINE Amiss(got) == (merged /\ Overtaken) \/ (push.at = "rebuild" /\ got # <<>>)
<1>1. PICK got \in GetAllProposed(p) :
        /\ IF got = p THEN UNCHANGED faults ELSE Fault
        /\ allow => Whole(got, p) /\ Rebuilds(<<>>, got)
        /\ rowBuf' = Refilled(got)
        /\ IF merged THEN store' = StoreTakes(store, mask, p) /\ cache' = MergeByDay(cache, mask, got)
                     ELSE UNCHANGED <<store, cache>>
        /\ unsure' = (unsure \/ (merged /\ got # p) \/ Amiss(got))
        /\ push' = [push EXCEPT !.clean = @ /\ ~Amiss(got)]
        /\ UNCHANGED <<mine, staged, wedged>>
  BY <1>0
<1> DEFINE amiss == Amiss(got)
<1>2. /\ BitsOf(p) \subseteq mask /\ merged \in BOOLEAN /\ amiss \in BOOLEAN
      /\ amiss <=> ((merged /\ Overtaken) \/ (push.at = "rebuild" /\ got # <<>>))
  OBVIOUS
<1> HIDE DEF mask, merged, amiss
<1>3. /\ TypeOK /\ InvRules /\ StagedSoFar /\ Beginning /\ InStep /\ ReadWhole /\ ~wedged
  BY DEF Inv
<1>4. /\ push \in Pushes /\ {mine, cache, rowBuf, staged, store} \subseteq Seq(Entry) /\ unsure \in BOOLEAN
      /\ Accepted(cache) /\ Accepted(store)
  BY <1>3 DEF TypeOK, InvRules
<1>5. p \in Seq(Entry) /\ Accepted(p)
  BY ScheduleAssumption, ProposalsAssumption DEF ScheduleAssumption
<1>6. got \in Seq(Entry)
  BY <1>5, ArrivingWhole DEF GetAllProposed
<1>7. /\ mine' = mine /\ staged' = staged /\ wedged' = wedged
      /\ merged => store' = Merged(store, mask, p) /\ cache' = MergeByDay(cache, mask, got)
      /\ ~merged => store' = store /\ cache' = cache
  BY <1>1 DEF StoreTakes, Merged
<1>8. cache' \in Seq(Entry) /\ Accepted(cache') /\ store' \in Seq(Entry) /\ Accepted(store')
  <2>1. MergeByDay(cache, mask, got) \in Seq(Entry) /\ Accepted(MergeByDay(cache, mask, got))
    BY <1>4, <1>6, MergeKeeps
  <2>2. Merged(store, mask, p) \in Seq(Entry) /\ Accepted(Merged(store, mask, p))
    BY <1>2, <1>4, <1>5, MergeAccepts, MergedSeq
  <2> QED
    BY <1>2, <1>4, <1>7, <2>1, <2>2
<1>9. /\ push' \in Pushes
      /\ push'.at = push.at /\ push'.own = push.own /\ push'.i = push.i /\ push'.mask = push.mask
      /\ push'.clean <=> (push.clean /\ ~amiss)
  <2> DEFINE c == push.clean /\ ~amiss
  <2>1. c \in BOOLEAN
    OBVIOUS
  <2>2. push' = [push EXCEPT !.clean = c]
    BY <1>1, <1>4 DEF Pushes, amiss
  <2> HIDE DEF c
  <2>3. /\ push' \in Pushes
        /\ push'.at = push.at /\ push'.own = push.own /\ push'.i = push.i /\ push'.mask = push.mask
        /\ push'.clean = c
    BY <1>4, <2>1, <2>2 DEF Pushes
  <2> QED
    BY <2>3 DEF c
<1>10. unsure' \in BOOLEAN /\ (~unsure' => ~unsure /\ ~amiss /\ (merged => got = p))
  BY <1>1 DEF amiss
<1>11. rowBuf' \in Seq(Entry) /\ (got = <<>> => rowBuf' = rowBuf)
  <2>1. rowBuf \in Seq(Entry) /\ Len(rowBuf) \in Nat /\ DOMAIN rowBuf = 1 .. Len(rowBuf)
    BY <1>4
  <2>2. rowBuf' = [i \in 1 .. Len(rowBuf) |-> IF i <= Len(got) THEN got[i] ELSE rowBuf[i]]
    BY <1>1, <2>1 DEF Refilled
  <2>3. \A i \in 1 .. Len(rowBuf) : (IF i <= Len(got) THEN got[i] ELSE rowBuf[i]) \in Entry
    BY <1>6, <2>1
  <2>4. rowBuf' \in Seq(Entry)
    BY <2>1, <2>2, <2>3
  <2>5. ASSUME got = <<>>  PROVE rowBuf' = rowBuf
    <3>1. \A i \in 1 .. Len(rowBuf) : ~(i <= Len(got))
      BY <2>5
    <3>2. rowBuf' = [i \in 1 .. Len(rowBuf) |-> rowBuf[i]]
      BY <2>2, <3>1
    <3> QED
      BY <2>1, <3>2
  <2> QED
    BY <2>4, <2>5
<1>12. TypeOK'
  <2>1. faults' \in 0 .. MaxFaults
    <3>1. Fault \/ faults' = faults
      BY <1>1
    <3> QED
      BY <1>3, <3>1, FaultTyped
  <2> QED
    BY <1>3, <1>4, <1>7, <1>8, <1>9, <1>10, <1>11, <2>1 DEF TypeOK
<1>13. InvRules'
  BY <1>3, <1>7, <1>8 DEF InvRules
<1>14. Beginning'
  BY <1>3, <1>7, <1>9 DEF Beginning
<1>15. StagedSoFar'
  <2> SUFFICES ASSUME push.at \in {"stage", "apply"}, Undisturbed'  PROVE StagedSoFar'
    BY <1>9 DEF StagedSoFar
  <2>1. Undisturbed
    BY <1>9, <1>10 DEF Undisturbed
  <2>2. (push'.clean => push.clean) /\ push.at # "rebuild"
    BY <1>9
  <2>3. CASE Pushed' = Pushed
    BY <1>3, <1>7, <1>9, <2>1, <2>2, <2>3 DEF StagedSoFar
  <2>4. CASE Pushed' # Pushed
    <3>1. push.own /\ merged
      BY <1>2, <1>7, <1>9, <2>4 DEF Pushed
    <3>2. ~amiss
      BY <1>9, <1>10, <3>1 DEF Undisturbed
    <3>3. ~Overtaken
      BY <1>2, <3>1, <3>2
    <3>4. push.at = "stage" /\ ~(push.i > 0)
      BY <3>1, <3>3 DEF Overtaken
    <3>5. push.i = 0
      <4>1. push.i \in Nat
        BY <1>4, PushTyped
      <4> QED
        BY <3>4, <4>1
    <3> DEFINE s == Pushed
    <3>6. s' \in Seq(Entry) /\ Len(s') \in Nat /\ Len(staged) \in Nat
      BY <1>4, <1>7, <1>8 DEF Pushed
    <3>7. push.mask = {} /\ (push.clean => Len(staged) = 0)
      BY <1>3, <2>1, <3>4, <3>5 DEF StagedSoFar
    <3> HIDE DEF s
    <3>8. 1 .. 0 = {} /\ UNION {s'[k].bits : k \in {}} = {}
      OBVIOUS
    <3> QED
      BY <1>7, <1>9, <2>2, <3>4, <3>5, <3>6, <3>7, <3>8 DEF StagedSoFar, s
  <2> QED
    BY <2>3, <2>4
<1>16. ReadWhole'
  <2> SUFFICES ASSUME push.at \in {"read", "rebuild"}, push.clean, ~amiss
               PROVE  cache' = cache /\ store' = store /\ (push.at = "rebuild" => rowBuf' = rowBuf)
    BY <1>3, <1>9 DEF ReadWhole
  <2>1. ~merged
    BY <1>2 DEF Overtaken
  <2>2. push.at = "rebuild" => got = <<>>
    BY <1>2
  <2> QED
    BY <1>7, <1>11, <2>1, <2>2
<1>17. InStep'
  <2> SUFFICES ASSUME ~unsure'  PROVE InStep'
    BY DEF InStep
  <2>1. ~unsure /\ ~amiss /\ (merged => got = p)
    BY <1>10
  <2>2. push'.clean <=> push.clean
    BY <1>9, <2>1
  <2>3. CASE ~merged
    <3>1. push.at = "rebuild" => rowBuf' = rowBuf
      BY <1>2, <1>11, <2>1
    <3> QED
      BY <1>3, <1>7, <1>9, <2>1, <2>2, <2>3, <3>1 DEF InStep, Pending
  <2>4. CASE merged
    <3>1. ~Overtaken
      BY <1>2, <2>1, <2>4
    <3>2. ~Pending /\ push.at \notin {"clear", "read", "rebuild"} /\ ~(push.at = "merge" /\ ~push.own)
      BY <3>1 DEF Overtaken, Pending
    <3>3. store = cache
      BY <1>3, <2>1, <3>2 DEF InStep
    <3>4. Fits(cache, mask, p)
      BY <1>2, <1>4, <1>5, MergeAccepts
    <3>5. store' = cache'
      BY <1>7, <2>1, <2>4, <3>3, <3>4 DEF MergeByDay
    <3> QED
      BY <1>9, <3>2, <3>5 DEF InStep
  <2> QED
    BY <1>2, <2>3, <2>4
<1> QED
  BY <1>3, <1>7, <1>12, <1>13, <1>14, <1>15, <1>16, <1>17 DEF Inv

\* Every reachable state keeps the invariant.
LEMMA Invariance == Spec => []Inv
<1>1. Init => Inv
  BY InvInit
<1>2. Inv /\ [Next]_vars => Inv'
  BY InvStutter, InvBuild, InvStart, InvApplyNone, InvClearCache, InvDiscard, InvStageRow,
     InvStageEnds, InvApply, InvMerge, InvSetTargets, InvResyncClear, InvResyncRead,
     InvResyncRebuild DEF Next
<1> QED
  BY <1>1, <1>2, PTL DEF Spec

---------------------------------------------------------------------------
(* The properties.                                                         *)

\* A push that begins by discarding the stage is never refused for its count,
\* whatever an earlier one left staged and whatever proposals come between
\* its commands (MatterEvse.cpp:204), unless it pushes the cache and one of
\* them changed that after its first row.
THEOREM ScheduleNeverWedged == Spec => []NeverWedged
<1>1. Inv => NeverWedged
  BY DEF Inv, NeverWedged
<1> QED
  BY <1>1, Invariance, PTL

\* From a reconcile on, the cache holds day by day what the store holds while
\* neither a push nor another reconcile is running (MatterEvse.h:140), unless
\* an answer or a line was lost, or a controller's schedule was merged between
\* an apply and the cache's part of it, was merged under a push of the cache
\* that had staged rows of it, or came between a reconcile's clear and its
\* rebuild.
THEOREM ScheduleCacheIsStore == Spec => []CacheIsStore
<1>1. Inv => CacheIsStore
  <2> SUFFICES ASSUME Inv, push.at = "idle", ~unsure  PROVE ByDay(cache) = ByDay(store)
    BY DEF CacheIsStore
  <2>1. store = cache
    BY DEF Inv, InStep, Pending
  <2> QED
    BY <2>1
<1> QED
  BY <1>1, Invariance, PTL

\* The targets of a day: of one bitmap, and within the limit.
LEMMA OneDay ==
  ASSUME NEW s \in Seq(Entry), Accepted(s), NEW d
  PROVE  /\ Cardinality({i \in DOMAIN s : d \in s[i].bits}) <= MaxPerDay
         /\ Cardinality({s[i].bits : i \in {j \in DOMAIN s : d \in s[j].bits}}) <= 1
<1> DEFINE on == {i \in DOMAIN s : d \in s[i].bits}
<1> DEFINE maps == {s[i].bits : i \in on}
<1>0. DOMAIN s = 1 .. Len(s) /\ Len(s) \in 0 .. Len(s)
  OBVIOUS
<1>1. Ruled(s)
  BY AcceptedRuled
<1>2. CASE on = {}
  <2>1. maps = {}
    BY <1>2
  <2>2. Cardinality(on) = 0 /\ Cardinality(maps) = 0
    BY <1>2, <2>1, FS_EmptySet
  <2> QED
    BY <2>2, LimitTypes
<1>3. CASE on # {}
  <2>1. PICK i \in on : TRUE
    BY <1>3
  <2> DEFINE b == s[i].bits
  <2>2. \A j \in on : j \in 1 .. Len(s) /\ s[j].bits \cap b # {}
    BY <1>0, <2>1
  <2>3. i \in 1 .. Len(s)
    BY <2>1, <2>2
  <2>4. \A j \in on : s[j].bits = b
    BY <1>1, <2>2, <2>3 DEF Ruled
  <2>5. on \subseteq Group(s, b)
    BY <1>0, <2>2, <2>4 DEF Group
  <2>6. IsFiniteSet(Group(s, b))
    BY <1>0, GroupIs, BelowCount
  <2>7. /\ Cardinality(on) <= Cardinality(Group(s, b))
        /\ Cardinality(on) \in Nat /\ Cardinality(Group(s, b)) \in Nat
    BY <2>5, <2>6, FS_Subset, FS_CardinalityType
  <2>8. Cardinality(Group(s, b)) <= MaxPerDay
    BY <1>1, <2>3 DEF Ruled
  <2>9. maps = {b}
    BY <2>1, <2>4
  <2>10. Cardinality(maps) = 1
    BY <2>9, FS_Singleton
  <2>11. Cardinality(on) <= MaxPerDay
    BY <2>7, <2>8, LimitTypes
  <2> QED
    BY <2>10, <2>11
<1> QED
  BY <1>2, <1>3

\* The validate pass accepts what addTarget() would, and every schedule keeps
\* its rules, however it was built and merged (HearthChargingSchedule.cpp:77).
THEOREM ScheduleFitsAsAdded == Spec => []FitsAsAdded
<1>1. Inv => FitsAsAdded
  <2> SUFFICES ASSUME Inv  PROVE FitsAsAdded
    OBVIOUS
  <2>1. /\ mine \in Seq(Entry) /\ cache \in Seq(Entry) /\ store \in Seq(Entry)
        /\ Accepted(mine) /\ Accepted(cache) /\ Accepted(store)
    BY DEF Inv, TypeOK, InvRules
  <2>2. ASSUME NEW mask \in SUBSET Days, NEW incoming \in {mine, store}
        PROVE  Fits(cache, mask, incoming) <=> Accepted(Narrowed(cache, mask) \o incoming)
    BY <2>1, FitsIsAccepted
  <2>3. ASSUME NEW s \in {mine, cache, store}, NEW d \in Days
        PROVE  /\ Cardinality({i \in DOMAIN s : d \in s[i].bits}) <= MaxPerDay
               /\ Cardinality({s[i].bits : i \in {j \in DOMAIN s : d \in s[j].bits}}) <= 1
    BY <2>1, OneDay
  <2> QED
    BY <2>2, <2>3 DEF FitsAsAdded
<1> QED
  BY <1>1, Invariance, PTL

\* A reconcile leaves the whole live schedule or an empty one, whatever lines
\* of its read are lost (MatterEvse.cpp:336), unless a controller's schedule
\* was merged or fetched before it was done.
THEOREM ScheduleResyncWhole == Spec => ResyncWhole
<1> DEFINE Ended == push.at \in {"read", "rebuild"} /\ push'.at = "idle" /\ push.clean
                      => cache' \in {store', <<>>}
<1>1. ASSUME Inv, Next  PROVE Ended
  <2> SUFFICES ASSUME push.at \in {"read", "rebuild"}, push'.at = "idle", push.clean
               PROVE  cache' \in {store', <<>>}
    OBVIOUS
  <2>1. CASE ResyncRead
    <3>1. cache = <<>>
      BY <1>1 DEF Inv, ReadWhole
    <3> QED
      BY <2>1, <3>1 DEF ResyncRead
  <2>2. CASE ResyncRebuild
    <3>1. store' = store
      BY <2>2 DEF ResyncRebuild
    <3> QED
      BY <1>1, <2>2, <3>1, RebuildTakes
  <2>3. CASE SetTargets
    <3>1. push \in Pushes
      BY <1>1 DEF Inv, TypeOK
    <3>2. push'.at = push.at
      BY <2>3, <3>1 DEF SetTargets, Pushes
    <3> QED
      BY <3>2
  <2>4. ResyncRead \/ ResyncRebuild \/ SetTargets
    BY <1>1 DEF Next, Build, Start, ApplyNone, ClearCache, Discard, StageRow, StageEnds, Apply,
       Merge, ResyncClear
  <2> QED
    BY <2>1, <2>2, <2>3, <2>4
<1>2. Inv /\ [Next]_vars => [Ended]_vars
  BY <1>1
<1> QED
  BY <1>2, Invariance, PTL DEF Spec, ResyncWhole
=============================================================================
