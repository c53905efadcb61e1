------------------------- MODULE HearthPrefs_proofs -------------------------
(***************************************************************************)
(* What holds of Preferences for any size of the sector, any names and any *)
(* values, and that it implements HearthKeyStore.                          *)
(*                                                                         *)
(* A walk is known by the offsets it looks at: they start at the header,   *)
(* each record among them leads to the next, and nothing else is among     *)
(* them (Chain).  There is one such set for a region, so what a write does *)
(* to a walk is shown by giving the set for the region written.  Records   *)
(* keep their name and their value when their bytes do (Alike), and each   *)
(* operation carries all records but one over to the new region (Moved).   *)
(***************************************************************************)
EXTENDS HearthPrefs, SequenceTheorems, WellFoundedInduction, TLAPS

Region == [1 .. Size -> Byte]

---------------------------------------------------------------------------
(* Numbers.                                                                *)

\* A set of natural numbers has a least element.
LEMMA Least ==
  ASSUME NEW T, T \subseteq Nat, T # {}
  PROVE  \E m \in T : \A k \in T : ~(k < m)
<1> DEFINE R == {ss \in Nat \X Nat : ss[1] < ss[2]}
<1>1. IsWellFoundedOn(R, Nat)
  BY NatLessThanWellFounded DEF OpToRel
<1>2. \A x, y \in Nat : x < y => <<x, y>> \in R
  OBVIOUS
<1> HIDE DEF R
<1>3. PICK m \in T : \A k \in T : <<k, m>> \notin R
  BY <1>1, WFMin
<1> QED
  BY <1>2, <1>3

\* A set of offsets has a last one.
LEMMA Greatest ==
  ASSUME NEW n \in Nat, NEW T \in SUBSET (0 .. n), T # {}
  PROVE  \E m \in T : \A k \in T : k <= m
<1> DEFINE U == {n - k : k \in T}
<1>0. \A k \in T : k \in 0 .. n /\ n - k \in Nat
  OBVIOUS
<1>1. U \subseteq Nat /\ U # {}
  BY <1>0
<1> HIDE DEF U
<1>2. PICK u \in U : \A k \in U : ~(k < u)
  BY <1>1, Least
<1>3. PICK m \in T : u = n - m
  BY <1>2 DEF U
<1>4. ASSUME NEW k \in T  PROVE k <= m
  <2>1. n - k \in U /\ k \in 0 .. n /\ m \in 0 .. n
    BY <1>3 DEF U
  <2>2. ~(n - k < n - m)
    BY <2>1, <1>2, <1>3
  <2> QED
    BY <2>1, <2>2
<1> QED
  BY <1>4

\* What holds at the first of a run of numbers, and after each, holds throughout.
LEMMA Climb ==
  ASSUME NEW n \in Nat, NEW T \in SUBSET (0 .. n), 0 \in T,
         \A i \in 1 .. n : i - 1 \in T => i \in T
  PROVE  T = 0 .. n
<1> SUFFICES ASSUME T # 0 .. n  PROVE FALSE
  OBVIOUS
<1> DEFINE U == (0 .. n) \ T
<1>0. PICK x \in 0 .. n : x \notin T
  OBVIOUS
<1>1. U # {} /\ U \subseteq Nat
  BY <1>0
<1>2. PICK m \in U : \A k \in U : ~(k < m)
  BY <1>1, Least
<1>3. m \in 0 .. n /\ m \notin T /\ m # 0 /\ m \in 1 .. n
  OBVIOUS
<1>4. m - 1 \in 0 .. n /\ m - 1 < m
  BY <1>3
<1>5. m - 1 \in T
  BY <1>2, <1>4
<1> QED
  BY <1>3, <1>5

---------------------------------------------------------------------------
(* Bytes.                                                                  *)

LEMMA Sizes == Size \in Nat /\ Size > 1 /\ Header = 1 /\ RecHdr = 5
BY PrefsAssumption DEF Header, RecHdr

LEMMA RegionSeq ==
  ASSUME NEW g \in Region
  PROVE  g \in Seq(Byte) /\ Len(g) = Size /\ \A i \in 1 .. Size : g[i] \in Byte
<1>1. Size \in Nat
  BY Sizes
<1>2. g \in [1 .. Size -> Byte]
  BY DEF Region
<1>3. g \in Seq(Byte)
  BY <1>1, <1>2
<1> QED
  BY <1>1, <1>2, <1>3, LenProperties

LEMMA RdByte ==
  ASSUME NEW g \in Region, NEW off \in Nat
  PROVE  Rd(g, off) \in Byte
<1>1. CASE off < Size
  <2>1. off + 1 \in 1 .. Size
    BY <1>1, Sizes
  <2> QED
    BY <1>1, <2>1, RegionSeq DEF Rd
<1>2. CASE ~(off < Size)
  BY <1>2 DEF Rd, Byte
<1> QED
  BY <1>1, <1>2

LEMMA BytesAt ==
  ASSUME NEW g \in Region, NEW off \in Nat, NEW n \in Nat, off + n <= Size
  PROVE  /\ Bytes(g, off, n) \in Seq(Byte) /\ Len(Bytes(g, off, n)) = n
         /\ \A i \in 1 .. n : Bytes(g, off, n)[i] = Rd(g, off + i - 1)
<1>1. \A i \in off + 1 .. off + n : g[i] \in Byte
  <2> TAKE i \in off + 1 .. off + n
  <2>1. i \in 1 .. Size
    BY Sizes
  <2> QED
    BY <2>1, RegionSeq
<1>2. /\ Bytes(g, off, n) \in Seq(Byte)
      /\ Len(Bytes(g, off, n)) = IF off + 1 <= off + n THEN off + n - (off + 1) + 1 ELSE 0
      /\ \A i \in 1 .. off + n - (off + 1) + 1 : Bytes(g, off, n)[i] = g[off + 1 + i - 1]
  <2>1. off + 1 \in Int /\ off + n \in Int
    OBVIOUS
  <2> HIDE DEF Region
  <2> QED
    BY <1>1, <2>1, SubSeqProperties DEF Bytes
<1>3. off + n - (off + 1) + 1 = n
  OBVIOUS
<1>4. Len(Bytes(g, off, n)) = n
  BY <1>2, <1>3
<1>5. ASSUME NEW i \in 1 .. n  PROVE Bytes(g, off, n)[i] = Rd(g, off + i - 1)
  <2>1. off + 1 + i - 1 = off + i - 1 + 1 /\ off + i - 1 < Size
    BY Sizes
  <2> QED
    BY <1>2, <1>3, <2>1 DEF Rd
<1> QED
  BY <1>2, <1>4, <1>5

\* Runs of the same bytes.
SameRun(g, off, h, p, n) == \A k \in 0 .. n - 1 : Rd(g, off + k) = Rd(h, p + k)

LEMMA BytesSame ==
  ASSUME NEW g \in Region, NEW h \in Region, NEW off \in Nat, NEW p \in Nat, NEW n \in Nat,
         off + n <= Size, p + n <= Size, SameRun(g, off, h, p, n)
  PROVE  Bytes(g, off, n) = Bytes(h, p, n)
<1> DEFINE s == Bytes(g, off, n)  t == Bytes(h, p, n)
<1>1. /\ s \in Seq(Byte) /\ Len(s) = n
      /\ \A i \in 1 .. n : s[i] = Rd(g, off + i - 1)
  BY BytesAt
<1>2. /\ t \in Seq(Byte) /\ Len(t) = n
      /\ \A i \in 1 .. n : t[i] = Rd(h, p + i - 1)
  BY BytesAt
<1> HIDE DEF s, t
<1>3. ASSUME NEW i \in 1 .. n  PROVE s[i] = t[i]
  <2>1. i - 1 \in 0 .. n - 1 /\ off + (i - 1) = off + i - 1 /\ p + (i - 1) = p + i - 1
    OBVIOUS
  <2> QED
    BY <1>1, <1>2, <2>1 DEF SameRun
<1>4. s = t
  BY <1>1, <1>2, <1>3, SeqEqual
<1> QED
  BY <1>4 DEF s, t

\* hearthPrefsStoreWrite() of a run that stays inside (PreferencesEEPROM.cpp:44).
LEMMA WrAt ==
  ASSUME NEW g \in Region, NEW off \in Nat, NEW bytes \in Seq(Byte),
         off + Len(bytes) <= Size
  PROVE  /\ Wr(g, off, bytes) \in Region
         /\ \A k \in 0 .. Size - 1 : Rd(Wr(g, off, bytes), k) =
              IF off <= k /\ k < off + Len(bytes) THEN bytes[k - off + 1] ELSE Rd(g, k)
<1>0. Size \in Nat /\ Len(bytes) \in Nat
  BY Sizes
<1> DEFINE n == Len(bytes)
           a == SubSeq(g, 1, off)
           b == SubSeq(g, off + n + 1, Size)
           c == a \o bytes
           d == c \o b
<1>1. /\ a \in Seq(Byte) /\ Len(a) = off
      /\ \A i \in 1 .. off : a[i] = g[i]
  <2>1. \A i \in 1 .. off : g[i] \in Byte /\ 1 + i - 1 = i
    BY <1>0, RegionSeq
  <2>2. off - 1 + 1 = off /\ 1 \in Int /\ off \in Int
    OBVIOUS
  <2>3. /\ a \in Seq(Byte)
        /\ Len(a) = IF 1 <= off THEN off - 1 + 1 ELSE 0
        /\ \A i \in 1 .. off - 1 + 1 : a[i] = g[1 + i - 1]
    BY <2>1, <2>2, SubSeqProperties
  <2>4. Len(a) = off
    BY <2>3
  <2> HIDE DEF a
  <2> QED
    BY <2>1, <2>2, <2>3, <2>4
<1>2. /\ b \in Seq(Byte) /\ Len(b) = Size - (off + n)
      /\ \A i \in 1 .. Size - (off + n) : b[i] = g[off + n + i]
  <2> DEFINE m == off + n + 1
  <2>1. \A i \in m .. Size : g[i] \in Byte
    <3> TAKE i \in m .. Size
    <3>1. i \in 1 .. Size
      BY <1>0
    <3> QED
      BY <3>1, RegionSeq
  <2>2. m \in Int /\ Size \in Int /\ Size - m + 1 = Size - (off + n)
    BY <1>0
  <2>3. b = SubSeq(g, m, Size)
    OBVIOUS
  <2> HIDE DEF b, n, m
  <2>4. /\ b \in Seq(Byte)
        /\ Len(b) = IF m <= Size THEN Size - m + 1 ELSE 0
        /\ \A i \in 1 .. Size - m + 1 : b[i] = g[m + i - 1]
    BY <2>1, <2>2, <2>3, SubSeqProperties
  <2>5. n \in Nat /\ off + n <= Size
    BY <1>0 DEF n
  <2>6. Len(b) = Size - (off + n)
    BY <1>0, <2>4, <2>5 DEF m
  <2>7. \A i \in 1 .. Size - (off + n) : m + i - 1 = off + n + i
    BY <1>0, <2>5 DEF m
  <2> QED
    BY <2>2, <2>4, <2>6, <2>7
<1> HIDE DEF a, b
<1>3. /\ c \in Seq(Byte) /\ Len(c) = off + n
      /\ \A i \in 1 .. off + n : c[i] = IF i <= off THEN a[i] ELSE bytes[i - off]
  BY <1>1, ConcatProperties
<1> HIDE DEF c
<1>4. /\ d \in Seq(Byte) /\ Len(d) = Size
      /\ \A i \in 1 .. Size : d[i] = IF i <= off + n THEN c[i] ELSE b[i - (off + n)]
  <2>1. off + n + (Size - (off + n)) = Size
    BY <1>0
  <2>2. /\ d \in Seq(Byte) /\ Len(d) = off + n + (Size - (off + n))
        /\ \A i \in 1 .. off + n + (Size - (off + n)) :
             d[i] = IF i <= off + n THEN c[i] ELSE b[i - (off + n)]
    <3>1. /\ d \in Seq(Byte) /\ Len(d) = Len(c) + Len(b)
          /\ \A i \in 1 .. Len(c) + Len(b) : d[i] = IF i <= Len(c) THEN c[i] ELSE b[i - Len(c)]
      BY <1>2, <1>3, ConcatProperties
    <3> HIDE DEF n, d
    <3> QED
      BY <1>2, <1>3, <3>1
  <2> HIDE DEF d, n
  <2> QED
    BY <2>1, <2>2
<1>5. Wr(g, off, bytes) = d
  <2>1. Wr(g, off, bytes) = SubSeq(d, 1, Size)
    BY DEF Wr, a, b, c
  <2> HIDE DEF d
  <2>2. SubSeq(d, 1, Len(d)) = d
    BY <1>4, SubSeqFull
  <2> QED
    BY <1>4, <2>1, <2>2
<1> HIDE DEF d
<1>6. d \in Region
  <2>1. d \in [1 .. Len(d) -> Byte]
    BY <1>4, LenProperties
  <2> QED
    BY <1>4, <2>1 DEF Region
<1>7. ASSUME NEW k \in 0 .. Size - 1
      PROVE  Rd(d, k) = IF off <= k /\ k < off + n THEN bytes[k - off + 1] ELSE Rd(g, k)
  <2>1. k + 1 \in 1 .. Size /\ k < Size
    BY <1>0
  <2>2. Rd(d, k) = d[k + 1] /\ Rd(g, k) = g[k + 1]
    BY <2>1 DEF Rd
  <2>3. CASE k < off
    <3>1. k + 1 \in 1 .. off /\ k + 1 <= off + n /\ k + 1 \in 1 .. off + n
      BY <1>0, <2>1, <2>3
    <3>2. d[k + 1] = g[k + 1]
      BY <1>1, <1>3, <1>4, <2>1, <3>1
    <3> QED
      BY <2>2, <2>3, <3>2
  <2>4. CASE off <= k /\ k < off + n
    <3>1. k + 1 <= off + n /\ ~(k + 1 <= off) /\ k + 1 \in 1 .. off + n /\ k + 1 - off = k - off + 1
      BY <1>0, <2>1, <2>4
    <3>2. d[k + 1] = bytes[k - off + 1]
      BY <1>3, <1>4, <2>1, <3>1
    <3> QED
      BY <2>2, <2>4, <3>2
  <2>5. CASE ~(k < off + n)
    <3>1. /\ ~(k + 1 <= off + n) /\ k + 1 - (off + n) \in 1 .. Size - (off + n)
          /\ off + n + (k + 1 - (off + n)) = k + 1
      BY <1>0, <2>1, <2>5
    <3>2. d[k + 1] = g[k + 1]
      BY <1>2, <1>4, <2>1, <3>1
    <3> QED
      BY <2>2, <2>5, <3>2
  <2>6. k < off \/ (off <= k /\ k < off + n) \/ ~(k < off + n)
    BY <1>0
  <2> QED
    BY <2>3, <2>4, <2>5, <2>6
<1> QED
  BY <1>5, <1>6, <1>7

---------------------------------------------------------------------------
(* The walk.                                                               *)

LEMMA Fields ==
  ASSUME NEW g \in Region, NEW off \in Nat
  PROVE  /\ NsLen(g, off) \in Byte /\ KeyLen(g, off) \in Byte /\ Type(g, off) \in Byte
         /\ NsLen(g, off) \in Nat /\ KeyLen(g, off) \in Nat
         /\ DataLen(g, off) \in Nat /\ DataOff(g, off) \in Nat /\ Total(g, off) \in Nat
         /\ Total(g, off) >= 5
         /\ DataOff(g, off) + DataLen(g, off) = off + Total(g, off)
         /\ DataOff(g, off) = off + 5 + NsLen(g, off) + KeyLen(g, off)
<1>1. /\ Rd(g, off) \in Byte /\ Rd(g, off + 1) \in Byte /\ Rd(g, off + 2) \in Byte
      /\ Rd(g, off + 3) \in Byte /\ Rd(g, off + 4) \in Byte
  BY RdByte
<1>2. \A b \in Byte : b \in Nat
  BY DEF Byte
<1>3. NsLen(g, off) \in Nat /\ KeyLen(g, off) \in Nat /\ DataLen(g, off) \in Nat
  BY <1>1, <1>2 DEF NsLen, KeyLen, DataLen
<1> QED
  BY <1>1, <1>3 DEF NsLen, KeyLen, Type, DataOff, Total, RecHdr

\* A walk's values exist: each follows from those further on.
LEMMA LooksFrom ==
  ASSUME NEW g \in Region
  PROVE  \E w \in [0 .. Size -> SUBSET (0 .. Size)] :
           /\ Looks(g) = w[Header]
           /\ \A off \in 0 .. Size :
                w[off] = {off} \cup IF Here(g, off) THEN w[off + Total(g, off)] ELSE {}
<1> DEFINE X == SUBSET (0 .. Size)
           On(f, off) == {off} \cup IF Here(g, off) THEN f[off + Total(g, off)] ELSE {}
           T == {k \in 0 .. Size : \E f \in [Size - k .. Size -> X] :
                   \A off \in Size - k .. Size : f[off] = On(f, off)}
<1>0. Size \in Nat
  BY Sizes
<1>1. ASSUME NEW off \in 0 .. Size, Here(g, off)
      PROVE  off + Total(g, off) \in 0 .. Size /\ off + Total(g, off) > off
  <2>1. Total(g, off) \in Nat /\ Total(g, off) >= 5
    BY Fields
  <2>2. off + Total(g, off) <= Size
    BY <1>1 DEF Here
  <2> QED
    BY <2>1, <2>2
<1>2. 0 \in T
  <2> DEFINE f == [off \in Size - 0 .. Size |-> {Size}]
  <2>1. f \in [Size - 0 .. Size -> X]
    BY <1>0
  <2>2. \A off \in Size - 0 .. Size : off = Size /\ off \in 0 .. Size
    BY <1>0
  <2>3. ~Here(g, Size)
    <3>1. Size \in 0 .. Size
      BY <1>0
    <3> SUFFICES ASSUME Here(g, Size)  PROVE FALSE
      OBVIOUS
    <3>2. Size + Total(g, Size) \in 0 .. Size /\ Size + Total(g, Size) > Size
      BY <1>1, <3>1
    <3> QED
      BY <1>0, <3>2
  <2>4. \A off \in Size - 0 .. Size : f[off] = On(f, off)
    BY <2>2, <2>3
  <2>5. 0 \in 0 .. Size
    BY <1>0
  <2> HIDE DEF f, X, On
  <2> QED
    BY <2>1, <2>4, <2>5
<1>3. ASSUME NEW k \in 1 .. Size, k - 1 \in T  PROVE k \in T
  <2>1. PICK f \in [Size - (k - 1) .. Size -> X] :
          \A off \in Size - (k - 1) .. Size : f[off] = On(f, off)
    BY <1>3
  <2> DEFINE z == Size - k
             fz == {z} \cup IF Here(g, z) THEN f[z + Total(g, z)] ELSE {}
             e == [off \in z .. Size |-> IF off = z THEN fz ELSE f[off]]
  <2>2. z \in 0 .. Size
    BY <1>0
  <2>3. \A off \in z .. Size : off # z => off \in Size - (k - 1) .. Size
    BY <1>0
  <2>4. fz \in X
    <3>1. CASE Here(g, z)
      <4>1. z + Total(g, z) \in Size - (k - 1) .. Size
        BY <1>0, <1>1, <2>2, <3>1
      <4> QED
        BY <2>1, <2>2, <3>1, <4>1
    <3>2. CASE ~Here(g, z)
      BY <2>2, <3>2
    <3> QED
      BY <3>1, <3>2
  <2>5. e \in [z .. Size -> X]
    <3> HIDE DEF fz, X, z
    <3> QED
      BY <2>1, <2>3, <2>4
  <2>6. ASSUME NEW off \in z .. Size  PROVE e[off] = On(e, off)
    <3>0. off \in 0 .. Size
      BY <1>0, <2>2
    <3>1. ASSUME Here(g, off)
          PROVE  /\ off + Total(g, off) \in z .. Size
                 /\ e[off + Total(g, off)] = f[off + Total(g, off)]
      <4>1. off + Total(g, off) \in 0 .. Size /\ off + Total(g, off) > off
        BY <1>1, <3>0, <3>1
      <4>2. off + Total(g, off) \in z .. Size /\ off + Total(g, off) # z
        BY <2>2, <4>1
      <4> HIDE DEF z, fz
      <4> QED
        BY <4>2
    <3>2. CASE off = z
      <4>1. e[off] = fz
        BY <3>2
      <4> HIDE DEF e, z
      <4> QED
        BY <3>1, <3>2, <4>1
    <3>3. CASE off # z
      <4>1. e[off] = f[off] /\ off \in Size - (k - 1) .. Size
        BY <2>3, <3>3
      <4>2. f[off] = On(f, off)
        BY <2>1, <4>1
      <4> HIDE DEF e, z
      <4> QED
        BY <3>1, <4>1, <4>2
    <3> QED
      BY <3>2, <3>3
  <2>7. k \in 0 .. Size
    BY <1>0
  <2>8. \E h \in [Size - k .. Size -> X] : \A off \in Size - k .. Size : h[off] = On(h, off)
    <3> HIDE DEF e, X, On
    <3> QED
      BY <2>5, <2>6
  <2> HIDE DEF X, On, z, e
  <2> QED
    BY <2>7, <2>8
<1>4. T \in SUBSET (0 .. Size)
  OBVIOUS
<1>5. Size \in T
  <2>1. T = 0 .. Size
    <3> HIDE DEF T
    <3> QED
      BY <1>0, <1>2, <1>3, <1>4, Climb
  <2> HIDE DEF T
  <2> QED
    BY <1>0, <2>1
<1>6. PICK f \in [0 .. Size -> X] : \A off \in 0 .. Size : f[off] = On(f, off)
  <2>1. Size - Size = 0
    BY <1>0
  <2> HIDE DEF X, On
  <2> QED
    BY <1>5, <2>1
<1> DEFINE Eq(w) == w = [off \in 0 .. Size |-> {off} \cup IF Here(g, off) THEN w[off + Total(g, off)] ELSE {}]
           w == CHOOSE w : Eq(w)
<1>7. Eq(f)
  BY <1>6
<1>8. Eq(w)
  <2> HIDE DEF Eq
  <2> QED
    BY <1>7
<1>9. Looks(g) = w[Header]
  BY DEF Looks
<1> HIDE DEF w
<1>10. \A off \in 0 .. Size : w[off] = On(w, off)
  BY <1>8
<1>11. \A off \in 0 .. Size : w[off] \in X
  <2> DEFINE B == {off \in 0 .. Size : w[off] \notin X}
  <2> SUFFICES ASSUME B # {}  PROVE FALSE
    OBVIOUS
  <2>1. PICK m \in B : \A o \in B : o <= m
    <3>1. B \in SUBSET (0 .. Size)
      OBVIOUS
    <3> HIDE DEF B
    <3> QED
      BY <1>0, <3>1, Greatest
  <2>2. m \in 0 .. Size /\ w[m] \notin X
    OBVIOUS
  <2>4. CASE Here(g, m)
    <3>1. m + Total(g, m) \in 0 .. Size /\ m + Total(g, m) > m
      BY <1>1, <2>2, <2>4
    <3>2. m + Total(g, m) \notin B
      BY <2>1, <2>2, <3>1
    <3>3. w[m + Total(g, m)] \in X
      BY <3>1, <3>2
    <3> QED
      BY <1>10, <2>2, <2>4, <3>3
  <2>5. CASE ~Here(g, m)
    BY <1>10, <2>2, <2>5
  <2> QED
    BY <2>4, <2>5
<1>12. w \in [0 .. Size -> X]
  BY <1>8, <1>11
<1> QED
  BY <1>9, <1>10, <1>12

\* The offsets a walk looks at.
Chain(g, O) ==
  /\ O \subseteq Header .. Size /\ Header \in O
  /\ \A o \in O : Here(g, o) => o + Total(g, o) \in O
  /\ \A o \in O : o # Header => \E p \in O : Here(g, p) /\ o = p + Total(g, p)

LEMMA HereInside ==
  ASSUME NEW g \in Region, NEW off \in 0 .. Size, Here(g, off)
  PROVE  /\ off + Total(g, off) \in 0 .. Size /\ off + Total(g, off) >= off + 5
         /\ Total(g, off) \in Nat
<1>1. Total(g, off) \in Nat /\ Total(g, off) >= 5 /\ Size \in Nat
  BY Fields, Sizes
<1>2. off + Total(g, off) <= Size
  BY DEF Here
<1> QED
  BY <1>1, <1>2

LEMMA LooksChain ==
  ASSUME NEW g \in Region
  PROVE  Chain(g, Looks(g))
<1>1. PICK w \in [0 .. Size -> SUBSET (0 .. Size)] :
        /\ Looks(g) = w[Header]
        /\ \A off \in 0 .. Size :
             w[off] = {off} \cup IF Here(g, off) THEN w[off + Total(g, off)] ELSE {}
  BY LooksFrom
<1> DEFINE Whole(off) ==
      /\ \A o \in w[off] : off <= o
      /\ \A o \in w[off] : Here(g, o) => o + Total(g, o) \in w[off]
      /\ \A o \in w[off] : o # off => \E p \in w[off] : Here(g, p) /\ o = p + Total(g, p)
<1>2. ASSUME NEW off \in 0 .. Size, ~Here(g, off)  PROVE Whole(off)
  <2>1. w[off] = {off}
    BY <1>1, <1>2
  <2> QED
    BY <1>2, <2>1
<1>3. ASSUME NEW off \in 0 .. Size, Here(g, off), Whole(off + Total(g, off))  PROVE Whole(off)
  <2> DEFINE q == off + Total(g, off)
  <2>0. q \in 0 .. Size /\ off < q
    <3>1. q \in 0 .. Size /\ q >= off + 5
      BY <1>3, HereInside
    <3> QED
      BY <3>1
  <2>1. w[off] = {off} \cup w[q]
    BY <1>1, <1>3
  <2>2. q \in w[q] /\ w[q] \subseteq 0 .. Size
    BY <1>1, <2>0
  <2>3. Whole(q)
    BY <1>3
  <2>4. \A o \in w[off] : off <= o
    <3> SUFFICES ASSUME NEW o \in w[q]  PROVE off <= o
      BY <2>1
    <3>1. q <= o /\ o \in 0 .. Size
      BY <2>2, <2>3
    <3> HIDE DEF q
    <3> QED
      BY <2>0, <3>1
  <2>5. \A o \in w[off] : Here(g, o) => o + Total(g, o) \in w[off]
    BY <2>1, <2>2, <2>3
  <2>6. ASSUME NEW o \in w[off], o # off
        PROVE  \E p \in w[off] : Here(g, p) /\ o = p + Total(g, p)
    <3>1. o \in w[q] /\ off \in w[off]
      BY <2>1, <2>6
    <3>2. CASE o = q
      BY <1>3, <3>1, <3>2
    <3>3. CASE o # q
      BY <2>1, <2>3, <3>1, <3>3
    <3> QED
      BY <3>2, <3>3
  <2> HIDE DEF q
  <2> QED
    BY <2>4, <2>5, <2>6
<1>4. ASSUME NEW off \in 0 .. Size  PROVE Whole(off)
  <2> DEFINE B == {o \in 0 .. Size : ~Whole(o)}
  <2> SUFFICES ASSUME B # {}  PROVE FALSE
    OBVIOUS
  <2> HIDE DEF Whole
  <2>1. PICK m \in B : \A o \in B : o <= m
    <3>1. B \in SUBSET (0 .. Size) /\ Size \in Nat
      BY Sizes
    <3> HIDE DEF B
    <3> QED
      BY <3>1, Greatest
  <2>2. m \in 0 .. Size /\ ~Whole(m)
    OBVIOUS
  <2>3. Here(g, m)
    BY <1>2, <2>2
  <2>4. m + Total(g, m) \in 0 .. Size /\ m + Total(g, m) >= m + 5
    BY <2>2, <2>3, HereInside
  <2>5. m + Total(g, m) \notin B
    <3>1. ~(m + Total(g, m) <= m)
      BY <2>2, <2>4
    <3> QED
      BY <2>1, <3>1
  <2>6. Whole(m + Total(g, m))
    BY <2>4, <2>5
  <2> QED
    BY <1>3, <2>2, <2>3, <2>6
<1>5. Header \in 0 .. Size /\ Header \in Nat
  BY Sizes
<1>6. Whole(Header) /\ Header \in w[Header] /\ w[Header] \subseteq 0 .. Size
  BY <1>1, <1>4, <1>5
<1>7. w[Header] \subseteq Header .. Size
  <2> SUFFICES ASSUME NEW o \in w[Header]  PROVE o \in Header .. Size
    OBVIOUS
  <2>1. o \in 0 .. Size /\ Header <= o
    BY <1>6
  <2> QED
    BY <1>5, <2>1
<1> QED
  BY <1>1, <1>6, <1>7 DEF Chain

LEMMA ChainUnique ==
  ASSUME NEW g \in Region, NEW O, Chain(g, O)
  PROVE  Looks(g) = O
<1>1. ASSUME NEW P, NEW Q, Chain(g, P), Chain(g, Q)  PROVE P \subseteq Q
  <2> SUFFICES ASSUME P \ Q # {}  PROVE FALSE
    OBVIOUS
  <2>1. P \subseteq Nat
    <3>1. Header .. Size \subseteq Nat
      BY Sizes
    <3> QED
      BY <1>1, <3>1 DEF Chain
  <2>2. PICK o \in P \ Q : \A k \in P \ Q : ~(k < o)
    BY <2>1, Least
  <2>3. PICK p \in P : Here(g, p) /\ o = p + Total(g, p)
    BY <1>1, <2>2 DEF Chain
  <2>4. p \in 0 .. Size
    <3>1. Header .. Size \subseteq 0 .. Size
      BY Sizes
    <3> QED
      BY <1>1, <3>1 DEF Chain
  <2>5. p < o
    <3>1. o >= p + 5 /\ o \in 0 .. Size
      BY <2>3, <2>4, HereInside
    <3> QED
      BY <2>4, <3>1
  <2>6. p \in Q
    BY <2>2, <2>5
  <2>7. o \in Q
    BY <1>1, <2>3, <2>6 DEF Chain
  <2> QED
    BY <2>2, <2>7
<1> QED
  BY <1>1, LooksChain

\* The offsets of a walk lie apart, a whole record between one and the next.
LEMMA ChainApart ==
  ASSUME NEW g \in Region, NEW O, Chain(g, O), NEW o \in O, NEW p \in O, o < p
  PROVE  Here(g, o) /\ o + Total(g, o) <= p
<1> DEFINE Good(q) == \A r \in O : r < q => Here(g, r) /\ r + Total(g, r) <= q
           B == {q \in O : ~Good(q)}
<1>0. O \subseteq 0 .. Size /\ O \subseteq Nat /\ \A q \in O : Header <= q
  <2>1. Header .. Size \subseteq 0 .. Size /\ Header .. Size \subseteq Nat
    BY Sizes
  <2>2. \A q \in Header .. Size : Header <= q
    OBVIOUS
  <2> QED
    BY <2>1, <2>2 DEF Chain
<1> SUFFICES ASSUME B # {}  PROVE FALSE
  OBVIOUS
<1>1. PICK q \in B : \A k \in B : ~(k < q)
  BY <1>0, Least
<1>2. q \in O /\ q \in Nat
  BY <1>0
<1>3. PICK r \in O : r < q /\ ~(Here(g, r) /\ r + Total(g, r) <= q)
  BY <1>1
<1>4. r \in Nat /\ Header <= r
  BY <1>0
<1>5. q # Header
  BY <1>2, <1>3, <1>4, Sizes
<1>6. PICK s \in O : Here(g, s) /\ q = s + Total(g, s)
  BY <1>2, <1>5 DEF Chain
<1>7. s \in Nat /\ s < q
  <2>1. s \in 0 .. Size
    BY <1>0
  <2>2. q >= s + 5
    BY <1>6, <2>1, HereInside
  <2> QED
    BY <1>2, <2>1, <2>2
<1>8. CASE r = s
  BY <1>2, <1>3, <1>6, <1>8
<1>9. CASE r < s
  <2>1. s \notin B
    BY <1>1, <1>7
  <2>2. Here(g, r) /\ r + Total(g, r) <= s
    BY <1>9, <2>1
  <2>3. r + Total(g, r) \in Nat
    <3>1. r \in 0 .. Size
      BY <1>0
    <3> QED
      BY <1>4, <2>2, <3>1, HereInside
  <2>4. r + Total(g, r) <= q
    <3>1. \A x \in Nat : x <= s => x <= q
      BY <1>2, <1>7
    <3> QED
      BY <2>2, <2>3, <3>1
  <2> QED
    BY <1>3, <2>2, <2>4
<1>10. CASE s < r
  <2>1. r \notin B
    BY <1>1, <1>3
  <2>2. s + Total(g, s) <= r
    BY <1>10, <2>1
  <2>3. q <= r
    BY <1>6, <2>2
  <2> QED
    BY <1>2, <1>3, <1>4, <2>3
<1>11. r = s \/ r < s \/ s < r
  BY <1>4, <1>7
<1> QED
  BY <1>8, <1>9, <1>10, <1>11

\* The walk stops, at the last offset it looks at (Preferences.cpp:134).
LEMMA ChainEnds ==
  ASSUME NEW g \in Region, NEW O, Chain(g, O)
  PROVE  /\ EndOffset(g) \in O /\ ~Here(g, EndOffset(g))
         /\ Walk(g) = O \ {EndOffset(g)}
         /\ \A o \in O : o <= EndOffset(g)
         /\ \A e \in O : ~Here(g, e) => EndOffset(g) = e
<1>0. O \subseteq 0 .. Size /\ Size \in Nat /\ O # {}
  <2>1. Header .. Size \subseteq 0 .. Size /\ Size \in Nat
    BY Sizes
  <2> QED
    BY <2>1 DEF Chain
<1>1. PICK m \in O : \A o \in O : o <= m
  BY <1>0, Greatest
<1>2. m \in 0 .. Size
  BY <1>0
<1>3. ~Here(g, m)
  <2> SUFFICES ASSUME Here(g, m)  PROVE FALSE
    OBVIOUS
  <2>1. m + Total(g, m) \in O
    BY DEF Chain
  <2>2. m + Total(g, m) <= m
    BY <1>1, <2>1
  <2>3. m + Total(g, m) \in 0 .. Size /\ m + Total(g, m) >= m + 5
    BY <1>2, HereInside
  <2> QED
    BY <1>2, <2>2, <2>3
<1>4. \A o \in O : o # m => Here(g, o)
  <2> TAKE o \in O
  <2> HAVE o # m
  <2>1. o \in 0 .. Size /\ o <= m
    BY <1>0, <1>1
  <2>2. o < m
    BY <1>2, <2>1
  <2> QED
    BY <2>2, ChainApart
<1>5. Looks(g) = O
  BY ChainUnique
<1>6. EndOffset(g) = m
  BY <1>3, <1>4, <1>5 DEF EndOffset
<1>7. Walk(g) = O \ {m}
  BY <1>3, <1>4, <1>5 DEF Walk
<1> QED
  BY <1>1, <1>3, <1>4, <1>6, <1>7

\* The walk of a region.
LEMMA WalkFacts ==
  ASSUME NEW g \in Region
  PROVE  /\ EndOffset(g) \in Header .. Size /\ ~Here(g, EndOffset(g))
         /\ EndOffset(g) \in Looks(g) /\ Looks(g) = Walk(g) \cup {EndOffset(g)}
         /\ \A o \in Walk(g) : /\ o \in Header .. Size /\ o \in Nat /\ Here(g, o)
                               /\ Total(g, o) \in Nat /\ Total(g, o) >= 5
                               /\ o + Total(g, o) <= EndOffset(g)
                               /\ o + Total(g, o) \in Looks(g) /\ o < EndOffset(g)
         /\ \A o \in Walk(g), p \in Looks(g) : o < p => o + Total(g, o) <= p
<1>1. Chain(g, Looks(g))
  BY LooksChain
<1> DEFINE O == Looks(g)  e == EndOffset(g)
<1> HIDE DEF O
<1>2. e \in O /\ ~Here(g, e) /\ Walk(g) = O \ {e} /\ \A o \in O : o <= e
  BY <1>1, ChainEnds DEF O
<1>3. O \subseteq Header .. Size /\ \A o \in O : Here(g, o) => o + Total(g, o) \in O
  BY <1>1 DEF Chain, O
<1> HIDE DEF e
<1>4. Size \in Nat /\ Header .. Size \subseteq 0 .. Size /\ Header .. Size \subseteq Nat
  BY Sizes
<1>5. ASSUME NEW o \in Walk(g)
      PROVE  /\ o \in Header .. Size /\ o \in Nat /\ Here(g, o)
             /\ Total(g, o) \in Nat /\ Total(g, o) >= 5
             /\ o + Total(g, o) <= e
             /\ o + Total(g, o) \in O /\ o < e
  <2>1. o \in O /\ o # e /\ o \in Header .. Size /\ o \in Nat /\ Here(g, o)
    BY <1>2, <1>3, <1>4 DEF Walk
  <2>2. Total(g, o) \in Nat /\ Total(g, o) >= 5
    BY <2>1, Fields
  <2>3. o + Total(g, o) \in O /\ o + Total(g, o) <= e /\ o <= e
    BY <1>2, <1>3, <2>1
  <2>4. e \in Nat
    BY <1>2, <1>3, <1>4
  <2> QED
    BY <2>1, <2>2, <2>3, <2>4
<1>6. ASSUME NEW o \in Walk(g), NEW p \in O, o < p  PROVE o + Total(g, o) <= p
  <2>1. o \in O
    BY <1>2
  <2> QED
    BY <1>1, <1>6, <2>1, ChainApart DEF O
<1> QED
  BY <1>2, <1>3, <1>5, <1>6 DEF O, e

---------------------------------------------------------------------------
(* Records with the same bytes.                                            *)

Name(g, o) == <<NsLen(g, o), Bytes(g, o + RecHdr, NsLen(g, o) + KeyLen(g, o))>>

\* The same lengths, type and name; and the same value too.
HeadAlike(g, o, h, p) ==
  /\ o + Total(g, o) <= Size /\ p + Total(g, o) <= Size
  /\ \A k \in 0 .. RecHdr + NsLen(g, o) + KeyLen(g, o) - 1 : Rd(g, o + k) = Rd(h, p + k)
Alike(g, o, h, p) ==
  /\ o + Total(g, o) <= Size /\ p + Total(g, o) <= Size
  /\ \A k \in 0 .. Total(g, o) - 1 : Rd(g, o + k) = Rd(h, p + k)

LEMMA HeadFields ==
  ASSUME NEW g \in Region, NEW h \in Region, NEW o \in Nat, NEW p \in Nat, HeadAlike(g, o, h, p)
  PROVE  /\ NsLen(g, o) = NsLen(h, p) /\ KeyLen(g, o) = KeyLen(h, p)
         /\ Type(g, o) = Type(h, p) /\ DataLen(g, o) = DataLen(h, p)
         /\ Total(g, o) = Total(h, p)
<1>1. NsLen(g, o) \in Nat /\ KeyLen(g, o) \in Nat
  BY Fields
<1>2. {0, 1, 2, 3, 4} \subseteq 0 .. RecHdr + NsLen(g, o) + KeyLen(g, o) - 1
  BY <1>1 DEF RecHdr
<1>3. \A k \in {0, 1, 2, 3, 4} : Rd(g, o + k) = Rd(h, p + k)
  BY <1>2 DEF HeadAlike
<1>4. Rd(g, o) = Rd(h, p)
  <2>1. Rd(g, o + 0) = Rd(h, p + 0)
    BY <1>3
  <2>2. o + 0 = o /\ p + 0 = p
    OBVIOUS
  <2> QED
    BY <2>1, <2>2
<1> QED
  BY <1>3, <1>4 DEF NsLen, KeyLen, Type, DataLen, Total

LEMMA AlikeHead ==
  ASSUME NEW g \in Region, NEW h \in Region, NEW o \in Nat, NEW p \in Nat, Alike(g, o, h, p)
  PROVE  HeadAlike(g, o, h, p)
<1>1. NsLen(g, o) \in Nat /\ KeyLen(g, o) \in Nat /\ DataLen(g, o) \in Nat
  BY Fields
<1>2. 0 .. RecHdr + NsLen(g, o) + KeyLen(g, o) - 1 \subseteq 0 .. Total(g, o) - 1
  BY <1>1 DEF Total, RecHdr
<1> QED
  BY <1>2 DEF HeadAlike, Alike

\* Two records are named alike, whatever name is asked for (Preferences.cpp:114).
LEMMA HeadNames ==
  ASSUME NEW g \in Region, NEW h \in Region, NEW o \in Nat, NEW p \in Nat, HeadAlike(g, o, h, p)
  PROVE  /\ Name(g, o) = Name(h, p)
         /\ \A ns \in Seq(Byte) : MatchesSpace(g, o, ns) <=> MatchesSpace(h, p, ns)
         /\ \A ns, key \in Seq(Byte) : Matches(g, o, ns, key) <=> Matches(h, p, ns, key)
<1> DEFINE s == NsLen(g, o)  t == KeyLen(g, o)
<1>1. NsLen(h, p) = s /\ KeyLen(h, p) = t
  BY HeadFields
<1>2. s \in Nat /\ t \in Nat /\ DataLen(g, o) \in Nat
  BY Fields
<1>3. o + 5 + s + t <= Size /\ p + 5 + s + t <= Size
  <2>1. Total(g, o) = 5 + s + t + DataLen(g, o)
    BY DEF Total, RecHdr
  <2> HIDE DEF s, t
  <2> QED
    BY <1>2, <2>1, Sizes DEF HeadAlike
<1>4. \A k \in 0 .. 5 + s + t - 1 : Rd(g, o + k) = Rd(h, p + k)
  BY DEF HeadAlike, RecHdr
<1> HIDE DEF s, t
<1>5. ASSUME NEW a \in Nat, NEW n \in Nat, a + n <= s + t
      PROVE  Bytes(g, o + RecHdr + a, n) = Bytes(h, p + RecHdr + a, n)
  <2>1. ASSUME NEW k \in 0 .. n - 1  PROVE Rd(g, o + 5 + a + k) = Rd(h, p + 5 + a + k)
    <3>1. 5 + a + k \in 0 .. 5 + s + t - 1
      BY <1>2, <1>5
    <3>2. Rd(g, o + (5 + a + k)) = Rd(h, p + (5 + a + k))
      BY <1>4, <3>1
    <3>3. o + (5 + a + k) = o + 5 + a + k /\ p + (5 + a + k) = p + 5 + a + k
      OBVIOUS
    <3> QED
      BY <3>2, <3>3
  <2>2. o + 5 + a \in Nat /\ p + 5 + a \in Nat /\ o + 5 + a + n <= Size /\ p + 5 + a + n <= Size
    BY <1>2, <1>3, <1>5, Sizes
  <2>3. Bytes(g, o + 5 + a, n) = Bytes(h, p + 5 + a, n)
    <3> DEFINE x == o + 5 + a  y == p + 5 + a
    <3>1. x \in Nat /\ y \in Nat /\ x + n <= Size /\ y + n <= Size
      BY <2>2
    <3>2. SameRun(g, x, h, y, n)
      BY <2>1 DEF SameRun
    <3> HIDE DEF x, y
    <3>3. Bytes(g, x, n) = Bytes(h, y, n)
      BY <3>1, <3>2, BytesSame
    <3> QED
      BY <3>3 DEF x, y
  <2> QED
    BY <2>3 DEF RecHdr
<1>6. \A n \in Nat : n <= s + t => Bytes(g, o + RecHdr, n) = Bytes(h, p + RecHdr, n)
  <2> TAKE n \in Nat
  <2> HAVE n <= s + t
  <2>1. 0 \in Nat /\ 0 + n <= s + t /\ o + RecHdr + 0 = o + RecHdr /\ p + RecHdr + 0 = p + RecHdr
    BY <1>2 DEF RecHdr
  <2>2. Bytes(g, o + RecHdr + 0, n) = Bytes(h, p + RecHdr + 0, n)
    BY <1>5, <2>1
  <2> QED
    BY <2>1, <2>2
<1>7. Name(g, o) = Name(h, p)
  <2>1. s + t \in Nat /\ s + t <= s + t
    BY <1>2
  <2> QED
    BY <1>1, <1>6, <2>1 DEF Name, s, t
<1>8. ASSUME NEW ns \in Seq(Byte)  PROVE MatchesSpace(g, o, ns) <=> MatchesSpace(h, p, ns)
  <2>1. CASE s = Len(ns)
    <3>1. Len(ns) \in Nat /\ Len(ns) <= s + t
      BY <1>2, <2>1
    <3> QED
      BY <1>1, <1>6, <3>1 DEF MatchesSpace, s
  <2>2. CASE s # Len(ns)
    BY <1>1, <2>2 DEF MatchesSpace, s
  <2> QED
    BY <2>1, <2>2
<1>9. ASSUME NEW ns \in Seq(Byte), NEW key \in Seq(Byte)
      PROVE  Matches(g, o, ns, key) <=> Matches(h, p, ns, key)
  <2>1. CASE s = Len(ns) /\ t = Len(key)
    <3>1. Len(ns) \in Nat /\ Len(key) \in Nat /\ Len(ns) + Len(key) <= s + t
      BY <1>2, <2>1
    <3>2. Bytes(g, o + RecHdr + Len(ns), Len(key)) = Bytes(h, p + RecHdr + Len(ns), Len(key))
      BY <1>5, <3>1
    <3> QED
      BY <1>1, <1>8, <3>2 DEF Matches, t
  <2>2. CASE ~(s = Len(ns) /\ t = Len(key))
    BY <1>1, <2>2 DEF Matches, MatchesSpace, s, t
  <2> QED
    BY <2>1, <2>2
<1> QED
  BY <1>7, <1>8, <1>9

\* Every record is alike to one with the same bytes.
LEMMA AlikeRecords ==
  ASSUME NEW g \in Region, NEW h \in Region, NEW o \in 0 .. Size, NEW p \in 0 .. Size,
         Alike(g, o, h, p)
  PROVE  /\ Total(g, o) = Total(h, p) /\ Value(g)[o] = Value(h)[p]
         /\ Here(g, o) => Here(h, p)
         /\ Name(g, o) = Name(h, p)
         /\ \A ns \in Seq(Byte) : MatchesSpace(g, o, ns) <=> MatchesSpace(h, p, ns)
         /\ \A ns, key \in Seq(Byte) : Matches(g, o, ns, key) <=> Matches(h, p, ns, key)
<1>0. o \in Nat /\ p \in Nat /\ Size \in Nat
  BY Sizes
<1>1. HeadAlike(g, o, h, p)
  BY <1>0, AlikeHead
<1>2. /\ NsLen(g, o) = NsLen(h, p) /\ KeyLen(g, o) = KeyLen(h, p)
      /\ Type(g, o) = Type(h, p) /\ DataLen(g, o) = DataLen(h, p)
      /\ Total(g, o) = Total(h, p)
  BY <1>0, <1>1, HeadFields
<1>3. Here(g, o) => Here(h, p)
  <2>1. Total(h, p) \in Nat /\ Total(h, p) >= 5
    BY <1>0, Fields
  <2>2. p + Total(h, p) <= Size
    BY <1>2 DEF Alike
  <2>3. p + 5 <= Size
    BY <1>0, <2>1, <2>2
  <2> QED
    BY <1>2, <2>2, <2>3 DEF Here, RecHdr
<1>4. Value(g)[o] = Value(h)[p]
  <2> DEFINE a == 5 + NsLen(g, o) + KeyLen(g, o)  n == DataLen(g, o)
  <2>0. NsLen(g, o) \in Nat /\ KeyLen(g, o) \in Nat /\ DataLen(g, o) \in Nat
    BY <1>0, Fields
  <2>1. NsLen(g, o) \in Nat /\ KeyLen(g, o) \in Nat /\ n \in Nat /\ a \in Nat
    BY <2>0
  <2>2. DataOff(g, o) = o + a /\ DataOff(h, p) = p + a /\ DataLen(h, p) = n /\ Total(g, o) = a + n
    BY <1>0, <1>2, <2>1 DEF DataOff, Total, RecHdr
  <2> HIDE DEF a, n
  <2>3. \A k \in 0 .. a + n - 1 : Rd(g, o + k) = Rd(h, p + k)
    <3>1. 0 .. Total(g, o) - 1 = 0 .. a + n - 1
      BY <2>1, <2>2
    <3> QED
      BY <3>1 DEF Alike
  <2>4. ASSUME NEW k \in 0 .. n - 1  PROVE Rd(g, o + a + k) = Rd(h, p + a + k)
    <3>1. a + k \in 0 .. a + n - 1 /\ o + (a + k) = o + a + k /\ p + (a + k) = p + a + k
      BY <1>0, <2>1
    <3> QED
      BY <2>3, <3>1
  <2>5. o + (a + n) <= Size /\ p + (a + n) <= Size
    BY <2>2 DEF Alike
  <2>6. o + a \in Nat /\ p + a \in Nat /\ o + a + n <= Size /\ p + a + n <= Size
    BY <1>0, <2>1, <2>5
  <2>7. Bytes(g, o + a, n) = Bytes(h, p + a, n)
    <3> DEFINE x == o + a  y == p + a
    <3>1. x \in Nat /\ y \in Nat /\ x + n <= Size /\ y + n <= Size
      BY <2>6
    <3>2. SameRun(g, x, h, y, n)
      BY <2>4 DEF SameRun
    <3> HIDE DEF x, y
    <3>3. Bytes(g, x, n) = Bytes(h, y, n)
      BY <2>1, <3>1, <3>2, BytesSame
    <3> QED
      BY <3>3 DEF x, y
  <2> QED
    BY <1>2, <2>2, <2>7 DEF Value, n
<1> QED
  BY <1>0, <1>1, <1>2, <1>3, <1>4, HeadNames

\* A name asked for, and the name as the record holds it.
LEMMA Named ==
  ASSUME NEW g \in Region, NEW o \in Walk(g), NEW ns \in Seq(Byte), NEW key \in Seq(Byte)
  PROVE  Matches(g, o, ns, key) <=> Name(g, o) = <<Len(ns), ns \o key>>
<1> DEFINE s == NsLen(g, o)  t == KeyLen(g, o)  b == Bytes(g, o + RecHdr, s + t)
<1>1. o \in Nat /\ s \in Nat /\ t \in Nat /\ o + 5 + s + t <= Size /\ Size \in Nat
  <2>1. o \in Nat /\ Here(g, o)
    BY WalkFacts
  <2>2. s \in Nat /\ t \in Nat /\ DataLen(g, o) \in Nat /\ o + Total(g, o) <= Size
    BY <2>1, Fields DEF Here
  <2>3. Total(g, o) = 5 + s + t + DataLen(g, o)
    BY DEF Total, RecHdr
  <2> HIDE DEF s, t
  <2> QED
    BY <2>1, <2>2, <2>3, Sizes
<1>2. /\ b \in Seq(Byte) /\ Len(b) = s + t
      /\ \A i \in 1 .. s + t : b[i] = Rd(g, o + 5 + i - 1)
  <2>1. o + 5 \in Nat /\ s + t \in Nat /\ o + 5 + (s + t) <= Size
    BY <1>1
  <2> HIDE DEF s, t
  <2> QED
    BY <2>1, BytesAt DEF RecHdr
<1>3. Name(g, o) = <<s, b>>
  BY DEF Name
<1> DEFINE x == Bytes(g, o + RecHdr, s)  y == Bytes(g, o + RecHdr + s, t)
<1>4. /\ x \in Seq(Byte) /\ Len(x) = s /\ \A i \in 1 .. s : x[i] = Rd(g, o + 5 + i - 1)
      /\ y \in Seq(Byte) /\ Len(y) = t /\ \A i \in 1 .. t : y[i] = Rd(g, o + 5 + s + i - 1)
  <2>1. o + 5 \in Nat /\ o + 5 + s <= Size /\ o + 5 + s \in Nat /\ o + 5 + s + t <= Size
    BY <1>1
  <2> HIDE DEF s, t
  <2> DEFINE p == o + 5  q == o + 5 + s
  <2>2. x = Bytes(g, p, s) /\ y = Bytes(g, q, t)
    BY DEF RecHdr
  <2>3. p \in Nat /\ p + s <= Size /\ q \in Nat /\ q + t <= Size /\ s \in Nat /\ t \in Nat
    BY <1>1, <2>1
  <2> HIDE DEF p, q, x, y
  <2>4. x \in Seq(Byte) /\ Len(x) = s /\ \A i \in 1 .. s : x[i] = Rd(g, p + i - 1)
    BY <2>2, <2>3, BytesAt
  <2>5. y \in Seq(Byte) /\ Len(y) = t /\ \A i \in 1 .. t : y[i] = Rd(g, q + i - 1)
    BY <2>2, <2>3, BytesAt
  <2>6. \A i \in 1 .. s : x[i] = Rd(g, o + 5 + i - 1)
    BY <2>4 DEF p
  <2>7. \A i \in 1 .. t : y[i] = Rd(g, o + 5 + s + i - 1)
    BY <2>5 DEF q
  <2> QED
    BY <2>4, <2>5, <2>6, <2>7
<1>5. Matches(g, o, ns, key) <=> s = Len(ns) /\ t = Len(key) /\ x = ns /\ y = key
  BY DEF Matches, MatchesSpace
<1> HIDE DEF s, t, b, x, y
<1>6. b = x \o y
  <2>1. /\ x \o y \in Seq(Byte) /\ Len(x \o y) = s + t
        /\ \A i \in 1 .. s + t : (x \o y)[i] = IF i <= s THEN x[i] ELSE y[i - s]
    BY <1>4, ConcatProperties
  <2>2. ASSUME NEW i \in 1 .. s + t  PROVE b[i] = (x \o y)[i]
    <3>1. CASE i <= s
      <4>1. i \in 1 .. s
        BY <1>1, <3>1
      <4> QED
        BY <1>2, <1>4, <2>1, <3>1, <4>1
    <3>2. CASE ~(i <= s)
      <4>1. i - s \in 1 .. t /\ o + 5 + s + (i - s) - 1 = o + 5 + i - 1
        BY <1>1, <3>2
      <4>2. y[i - s] = Rd(g, o + 5 + s + (i - s) - 1)
        BY <1>4, <4>1
      <4> QED
        BY <1>2, <2>1, <3>2, <4>1, <4>2
    <3> QED
      BY <3>1, <3>2
  <2> QED
    BY <1>2, <2>1, <2>2, SeqEqual
<1>7. ASSUME s = Len(ns), b = ns \o key  PROVE t = Len(key) /\ x = ns /\ y = key
  <2>0. Len(ns) \in Nat /\ Len(key) \in Nat
    OBVIOUS
  <2>1. /\ Len(ns \o key) = Len(ns) + Len(key)
        /\ \A i \in 1 .. Len(ns) + Len(key) :
             (ns \o key)[i] = IF i <= Len(ns) THEN ns[i] ELSE key[i - Len(ns)]
    BY ConcatProperties
  <2>2. t = Len(key)
    BY <1>1, <1>2, <1>7, <2>0, <2>1
  <2>3. \A i \in 1 .. s + t : b[i] = IF i <= s THEN ns[i] ELSE key[i - s]
    BY <1>7, <2>1, <2>2
  <2>4. \A i \in 1 .. s + t : b[i] = IF i <= s THEN x[i] ELSE y[i - s]
    <3>1. x \in Seq(Byte) /\ y \in Seq(Byte) /\ Len(x) = s /\ Len(y) = t
      BY <1>4
    <3> QED
      BY <1>6, <3>1, ConcatProperties
  <2>5. x = ns
    <3>1. \A i \in 1 .. s : x[i] = ns[i]
      <4> TAKE i \in 1 .. s
      <4>1. i \in 1 .. s + t /\ i <= s
        BY <1>1
      <4> QED
        BY <2>3, <2>4, <4>1
    <3> QED
      BY <1>4, <1>7, <3>1, SeqEqual
  <2>6. y = key
    <3>1. \A i \in 1 .. t : y[i] = key[i]
      <4> TAKE i \in 1 .. t
      <4> DEFINE j == i + s
      <4>1. j \in 1 .. s + t /\ ~(j <= s) /\ j - s = i
        BY <1>1
      <4> HIDE DEF j
      <4>2. b[j] = key[j - s]
        BY <2>3, <4>1
      <4>3. b[j] = y[j - s]
        BY <2>4, <4>1
      <4> QED
        BY <4>1, <4>2, <4>3
    <3> QED
      BY <1>4, <2>2, <3>1, SeqEqual
  <2> QED
    BY <2>2, <2>5, <2>6
<1>8. <<s, b>> = <<Len(ns), ns \o key>> <=> s = Len(ns) /\ b = ns \o key
  OBVIOUS
<1> QED
  BY <1>3, <1>5, <1>6, <1>7, <1>8

---------------------------------------------------------------------------
(* What a get answers.                                                     *)

Terminated(g) == EndOffset(g) < Size /\ Rd(g, EndOffset(g)) = 0
Unique(g) == \A o, p \in Walk(g) : Name(g, o) = Name(g, p) => o = p

\* The records A of g are the records B of h, where they are now.
Moved(g, A, h, B) ==
  \E m \in [A -> B] : /\ \A p \in B : \E o \in A : p = m[o]
                      /\ \A o \in A : Alike(g, o, h, m[o])

LEMMA NameParts ==
  ASSUME NEW n \in Names
  PROVE  /\ n[1] \in Seq(Byte) /\ n[2] \in Seq(Byte) /\ n[1] \in Spaces /\ n[2] \in Keys
         /\ Len(n[1]) \in Byte \ {0} /\ Len(n[2]) \in Byte \ {0}
<1>1. n[1] \in Spaces /\ n[2] \in Keys
  BY DEF Names
<1> QED
  BY <1>1, PrefsAssumption

LEMMA OneFirst ==
  ASSUME NEW o \in Nat
  PROVE  First({o}) = o
<1>1. \A q \in {o} : o <= q
  OBVIOUS
<1>2. o \in {o}
  OBVIOUS
<1> DEFINE P(r) == r \in {o} /\ \A q \in {o} : r <= q
<1>3. P(o) /\ \A r : P(r) => r = o
  BY <1>1
<1>4. First({o}) = CHOOSE r : P(r)
  BY DEF First
<1> HIDE DEF P
<1> QED
  BY <1>3, <1>4

LEMMA NamedFor ==
  ASSUME NEW g \in Region, NEW o \in Walk(g), NEW n \in Names
  PROVE  Matches(g, o, n[1], n[2]) <=> Name(g, o) = <<Len(n[1]), n[1] \o n[2]>>
<1>1. n[1] \in Seq(Byte) /\ n[2] \in Seq(Byte)
  BY NameParts
<1> QED
  BY <1>1, Named

\* Records asked for by one name are named the same.
LEMMA OneName ==
  ASSUME NEW g \in Region, NEW o \in Walk(g), NEW p \in Walk(g), NEW n \in Names,
         Matches(g, o, n[1], n[2]), Matches(g, p, n[1], n[2])
  PROVE  Name(g, o) = Name(g, p)
BY NamedFor

LEMMA Hit ==
  ASSUME NEW g \in Region, Formatted(g), Unique(g), NEW n \in Names, NEW o \in Walk(g),
         Matches(g, o, n[1], n[2])
  PROVE  Get(g)[n] = Value(g)[o]
<1>2. \A p \in Walk(g) : Matches(g, p, n[1], n[2]) => p = o
  BY OneName DEF Unique
<1>3. Find(g, n[1], n[2]) = {o}
  BY <1>2 DEF Find
<1>4. o \in Nat
  BY WalkFacts
<1>5. First({o}) = o
  BY <1>4, OneFirst
<1>6. Get(g)[n] = IF ~Formatted(g) \/ Find(g, n[1], n[2]) = {} THEN Absent
                  ELSE Value(g)[First(Find(g, n[1], n[2]))]
  BY DEF Get
<1> QED
  BY <1>3, <1>5, <1>6

LEMMA Miss ==
  ASSUME NEW g \in Region, NEW n \in Names,
         Formatted(g) => \A o \in Walk(g) : ~Matches(g, o, n[1], n[2])
  PROVE  Get(g)[n] = Absent
<1>1. Formatted(g) => Find(g, n[1], n[2]) = {}
  BY DEF Find
<1>2. Get(g)[n] = IF ~Formatted(g) \/ Find(g, n[1], n[2]) = {} THEN Absent
                  ELSE Value(g)[First(Find(g, n[1], n[2]))]
  BY DEF Get
<1> QED
  BY <1>1, <1>2

LEMMA AlikeOffsets ==
  ASSUME NEW g \in Region, NEW h \in Region, NEW o \in Walk(g), NEW p \in Walk(h), Alike(g, o, h, p)
  PROVE  /\ Value(g)[o] = Value(h)[p] /\ Name(g, o) = Name(h, p)
         /\ \A ns \in Seq(Byte) : MatchesSpace(g, o, ns) <=> MatchesSpace(h, p, ns)
         /\ \A n \in Names : Matches(g, o, n[1], n[2]) <=> Matches(h, p, n[1], n[2])
<1>1. o \in 0 .. Size /\ p \in 0 .. Size
  <2>1. Header .. Size \subseteq 0 .. Size
    BY Sizes
  <2>2. o \in Header .. Size /\ p \in Header .. Size
    BY WalkFacts
  <2> QED
    BY <2>1, <2>2
<1> QED
  BY <1>1, AlikeRecords, NameParts

\* What a record says, it says after it has moved.
LEMMA MovedGet ==
  ASSUME NEW g \in Region, NEW h \in Region, Formatted(g), Formatted(h), Unique(g), Unique(h),
         NEW A \in SUBSET Walk(g), NEW B \in SUBSET Walk(h), Moved(g, A, h, B),
         NEW n \in Names,
         \A o \in Walk(g) \ A : ~Matches(g, o, n[1], n[2]),
         \A o \in Walk(h) \ B : ~Matches(h, o, n[1], n[2])
  PROVE  Get(h)[n] = Get(g)[n]
<1>1. PICK m \in [A -> B] : /\ \A p \in B : \E o \in A : p = m[o]
                            /\ \A o \in A : Alike(g, o, h, m[o])
  BY DEF Moved
<1>2. ASSUME NEW o \in Walk(g), Matches(g, o, n[1], n[2])  PROVE Get(h)[n] = Get(g)[n]
  <2>1. o \in A
    BY <1>2
  <2>2. m[o] \in Walk(h) /\ Alike(g, o, h, m[o])
    BY <1>1, <2>1
  <2>3. Matches(h, m[o], n[1], n[2]) /\ Value(g)[o] = Value(h)[m[o]]
    BY <1>2, <2>2, AlikeOffsets
  <2>4. Get(g)[n] = Value(g)[o] /\ Get(h)[n] = Value(h)[m[o]]
    BY <1>2, <2>2, <2>3, Hit
  <2> QED
    BY <2>3, <2>4
<1>3. ASSUME \A o \in Walk(g) : ~Matches(g, o, n[1], n[2])  PROVE Get(h)[n] = Get(g)[n]
  <2>1. ASSUME NEW p \in Walk(h)  PROVE ~Matches(h, p, n[1], n[2])
    <3>1. CASE p \in B
      <4>1. PICK o \in A : p = m[o]
        BY <1>1, <3>1
      <4>2. o \in Walk(g) /\ Alike(g, o, h, p)
        BY <1>1, <4>1
      <4> QED
        BY <1>3, <4>2, AlikeOffsets
    <3>2. CASE p \notin B
      BY <3>2
    <3> QED
      BY <3>1, <3>2
  <2> QED
    BY <1>3, <2>1, Miss
<1> QED
  BY <1>2, <1>3

\* Records that have moved are told apart as before.
LEMMA MovedUnique ==
  ASSUME NEW g \in Region, NEW h \in Region, Unique(g),
         NEW A \in SUBSET Walk(g), NEW B \in SUBSET Walk(h), Moved(g, A, h, B)
  PROVE  \A p, q \in B : Name(h, p) = Name(h, q) => p = q
<1>1. PICK m \in [A -> B] : /\ \A p \in B : \E o \in A : p = m[o]
                            /\ \A o \in A : Alike(g, o, h, m[o])
  BY DEF Moved
<1> TAKE p, q \in B
<1> HAVE Name(h, p) = Name(h, q)
<1>2. PICK o \in A : p = m[o]
  BY <1>1
<1>3. PICK r \in A : q = m[r]
  BY <1>1
<1>4. Alike(g, o, h, p) /\ Alike(g, r, h, q) /\ o \in Walk(g) /\ r \in Walk(g)
  BY <1>1, <1>2, <1>3
<1>5. Name(g, o) = Name(h, p) /\ Name(g, r) = Name(h, q)
  BY <1>4, AlikeOffsets
<1>6. o = r
  BY <1>4, <1>5 DEF Unique
<1> QED
  BY <1>2, <1>3, <1>6

---------------------------------------------------------------------------
(* Taking a record out.                                                    *)

LEMMA SplicedAt ==
  ASSUME NEW g \in Region, NEW x \in Walk(g)
  PROVE  LET h == SpliceOut(g, x)  d == Total(g, x)  e == EndOffset(g)
         IN /\ h \in Region
            /\ \A k \in 0 .. Size - 1 : k < x => Rd(h, k) = Rd(g, k)
            /\ \A k \in 0 .. Size - 1 : x <= k /\ k < e - d => Rd(h, k) = Rd(g, k + d)
            /\ Rd(h, e - d) = 0 /\ e - d < Size
<1> DEFINE d == Total(g, x)  e == EndOffset(g)  src == x + d
           a == Bytes(g, src, e - src)  z == <<0>>  b == a \o z  h == SpliceOut(g, x)
<1>1. /\ x \in Nat /\ d \in Nat /\ d >= 5 /\ src <= e /\ e \in Nat /\ e <= Size /\ Size \in Nat
      /\ x >= 1
  <2>1. x \in Header .. Size /\ x \in Nat /\ d \in Nat /\ d >= 5 /\ x + d <= e /\ e \in Header .. Size
    BY WalkFacts
  <2> HIDE DEF d, e
  <2> QED
    BY <2>1, Sizes
<1>2. h = Wr(g, x, b)
  BY DEF SpliceOut
<1> HIDE DEF d, e, h
<1>3. /\ a \in Seq(Byte) /\ Len(a) = e - src
      /\ \A i \in 1 .. e - src : a[i] = Rd(g, src + i - 1)
  <2> DEFINE n == e - src
  <2>1. src \in Nat /\ n \in Nat /\ src + n <= Size
    BY <1>1
  <2> HIDE DEF n, src
  <2>2. /\ Bytes(g, src, n) \in Seq(Byte) /\ Len(Bytes(g, src, n)) = n
        /\ \A i \in 1 .. n : Bytes(g, src, n)[i] = Rd(g, src + i - 1)
    BY <2>1, BytesAt
  <2> QED
    BY <2>2 DEF n
<1>4. z \in Seq(Byte) /\ Len(z) = 1 /\ z[1] = 0
  <2>1. 0 \in Byte
    BY DEF Byte
  <2> QED
    BY <2>1
<1> HIDE DEF a, z
<1>5. /\ b \in Seq(Byte) /\ Len(b) = e - src + 1
      /\ \A i \in 1 .. e - src + 1 : b[i] = IF i <= e - src THEN a[i] ELSE z[i - (e - src)]
  <2>1. /\ b \in Seq(Byte) /\ Len(b) = Len(a) + Len(z)
        /\ \A i \in 1 .. Len(a) + Len(z) : b[i] = IF i <= Len(a) THEN a[i] ELSE z[i - Len(a)]
    BY <1>3, <1>4, ConcatProperties
  <2>2. Len(a) = e - src /\ Len(a) + Len(z) = e - src + 1
    BY <1>3, <1>4
  <2> HIDE DEF b
  <2> QED
    BY <2>1, <2>2
<1> HIDE DEF b
<1>6. /\ h \in Region
      /\ \A k \in 0 .. Size - 1 :
           Rd(h, k) = IF x <= k /\ k < x + Len(b) THEN b[k - x + 1] ELSE Rd(g, k)
  <2>1. x + Len(b) <= Size
    BY <1>1, <1>5
  <2> QED
    BY <1>1, <1>2, <1>5, <2>1, WrAt
<1>7. x + Len(b) = e - d + 1 /\ e - d \in 0 .. Size - 1 /\ x <= e - d
  BY <1>1, <1>5
<1>8. ASSUME NEW k \in 0 .. Size - 1, k < x  PROVE Rd(h, k) = Rd(g, k)
  BY <1>1, <1>6, <1>8
<1>9. ASSUME NEW k \in 0 .. Size - 1, x <= k, k < e - d  PROVE Rd(h, k) = Rd(g, k + d)
  <2>1. k - x + 1 \in 1 .. e - src /\ k - x + 1 \in 1 .. e - src + 1 /\ k - x + 1 <= e - src
    BY <1>1, <1>9
  <2>2. k < x + Len(b) /\ src + (k - x + 1) - 1 = k + d
    BY <1>1, <1>7, <1>9
  <2>3. b[k - x + 1] = a[k - x + 1]
    BY <1>5, <2>1
  <2>4. a[k - x + 1] = Rd(g, src + (k - x + 1) - 1)
    BY <1>3, <2>1
  <2> QED
    BY <1>6, <1>9, <2>2, <2>3, <2>4
<1>10. Rd(h, e - d) = 0
  <2>1. /\ e - d - x + 1 = e - src + 1 /\ e - src + 1 \in 1 .. e - src + 1
        /\ ~(e - src + 1 <= e - src) /\ e - src + 1 - (e - src) = 1
    BY <1>1
  <2>2. b[e - src + 1] = 0
    <3> DEFINE j == e - src + 1
    <3>1. j \in 1 .. e - src + 1 /\ ~(j <= e - src) /\ j - (e - src) = 1
      BY <1>1
    <3> HIDE DEF j
    <3>2. b[j] = z[j - (e - src)]
      BY <1>5, <3>1
    <3>3. b[j] = 0
      BY <1>4, <3>1, <3>2
    <3> QED
      BY <3>3 DEF j
  <2>3. x <= e - d /\ e - d < x + Len(b)
    BY <1>1, <1>7
  <2> QED
    BY <1>6, <1>7, <2>1, <2>2, <2>3
<1> QED
  BY <1>1, <1>6, <1>7, <1>8, <1>9, <1>10 DEF d, e, h

\* spliceOut(): every other record is kept, the later ones moved down (Preferences.cpp:157).
LEMMA Spliced ==
  ASSUME NEW g \in Region, NEW x \in Walk(g)
  PROVE  LET h == SpliceOut(g, x)
         IN /\ h \in Region /\ (Formatted(g) => Formatted(h)) /\ Terminated(h)
            /\ EndOffset(h) + Total(g, x) = EndOffset(g)
            /\ Moved(g, Walk(g) \ {x}, h, Walk(h))
<1> DEFINE d == Total(g, x)  e == EndOffset(g)  h == SpliceOut(g, x)  O == Looks(g)
           m(o) == IF o < x THEN o ELSE o - d
           P == {m(o) : o \in O \ {x}}
<1>1. /\ h \in Region
      /\ \A k \in 0 .. Size - 1 : k < x => Rd(h, k) = Rd(g, k)
      /\ \A k \in 0 .. Size - 1 : x <= k /\ k < e - d => Rd(h, k) = Rd(g, k + d)
      /\ Rd(h, e - d) = 0 /\ e - d < Size
  BY SplicedAt
<1>2. /\ e \in Header .. Size /\ e \in O /\ O = Walk(g) \cup {e} /\ e \notin Walk(g)
      /\ \A o \in Walk(g) : /\ o \in Header .. Size /\ o \in Nat /\ Here(g, o)
                            /\ Total(g, o) \in Nat /\ Total(g, o) >= 5
                            /\ o + Total(g, o) <= e /\ o + Total(g, o) \in O /\ o < e
      /\ \A o \in Walk(g), p \in O : o < p => o + Total(g, o) <= p
  BY WalkFacts DEF Walk
<1>3. Chain(g, O)
  BY LooksChain
<1> HIDE DEF h, O
<1>4. x \in Nat /\ d \in Nat /\ d >= 5 /\ x + d <= e /\ x + d \in O /\ x < e /\ e \in Nat
      /\ 1 <= x /\ x \in O /\ Size \in Nat /\ e <= Size
  BY <1>2, Sizes
<1> HIDE DEF d, e
<1>5. ASSUME NEW o \in O \ {x}
      PROVE  /\ o \in Nat /\ o >= 1 /\ o <= e
             /\ o < x => m(o) = o
             /\ ~(o < x) => o >= x + d /\ m(o) = o - d
  <2>1. o \in Nat /\ o >= 1 /\ o <= e
    BY <1>2, <1>4, Sizes
  <2>2. ASSUME ~(o < x)  PROVE o >= x + d
    <3>1. x < o
      BY <1>4, <2>1, <2>2
    <3>2. x + Total(g, x) <= o
      BY <1>2, <3>1
    <3> QED
      BY <1>4, <2>1, <3>2 DEF d
  <2> QED
    BY <2>1, <2>2
<1>6. ASSUME NEW o \in O \ {x}  PROVE m(o) \in Header .. Size
  <2>1. CASE o < x
    BY <1>4, <1>5, <2>1, Sizes
  <2>2. CASE ~(o < x)
    BY <1>4, <1>5, <2>2, Sizes
  <2> QED
    BY <2>1, <2>2
<1>7. ASSUME NEW o \in Walk(g) \ {x}  PROVE Alike(g, o, h, m(o))
  <2>0. o \in O \ {x} /\ Total(g, o) \in Nat /\ o + Total(g, o) <= e /\ o \in Nat
    BY <1>2
  <2> DEFINE t == Total(g, o)
  <2>00. t \in Nat /\ o + t <= e
    BY <2>0
  <2> HIDE DEF t
  <2>1. CASE o < x
    <3>1. m(o) = o
      BY <2>1
    <3>2. o + t <= x
      BY <1>2, <1>4, <2>0, <2>1 DEF t
    <3>3. \A k \in 0 .. t - 1 : Rd(g, o + k) = Rd(h, o + k)
      <4> TAKE k \in 0 .. t - 1
      <4>1. o + k \in 0 .. Size - 1 /\ o + k < x
        BY <1>4, <2>0, <2>00, <3>2
      <4> QED
        BY <1>1, <4>1
    <3>4. o + t <= Size
      BY <1>4, <2>0, <2>00
    <3> QED
      BY <3>1, <3>3, <3>4 DEF Alike, t
  <2>2. CASE ~(o < x)
    <3>1. m(o) = o - d /\ o >= x + d
      BY <1>5, <2>0, <2>2
    <3>2. \A k \in 0 .. t - 1 : Rd(g, o + k) = Rd(h, o - d + k)
      <4> TAKE k \in 0 .. t - 1
      <4>1. /\ o - d + k \in 0 .. Size - 1 /\ x <= o - d + k /\ o - d + k < e - d
            /\ o - d + k + d = o + k
        BY <1>4, <2>0, <2>00, <3>1
      <4>2. Rd(h, o - d + k) = Rd(g, o - d + k + d)
        BY <1>1, <4>1 DEF d, e
      <4> QED
        BY <4>1, <4>2
    <3>3. o + t <= Size /\ o - d + t <= Size
      BY <1>4, <2>0, <2>00, <3>1
    <3> QED
      BY <3>1, <3>2, <3>3 DEF Alike, t
  <2> QED
    BY <2>1, <2>2
<1>8. m(e) = e - d /\ e \in O \ {x}
  BY <1>2, <1>4
<1>9. ~Here(h, e - d)
  <2>1. Rd(h, e - d) = 0
    BY <1>1 DEF d, e
  <2> QED
    BY <2>1 DEF Here, NsLen
<1>10. ASSUME NEW o \in Walk(g) \ {x}
       PROVE  Here(h, m(o)) /\ Total(h, m(o)) = Total(g, o)
  <2>1. o \in 0 .. Size /\ m(o) \in 0 .. Size /\ Here(g, o)
    <3>1. Header .. Size \subseteq 0 .. Size
      BY Sizes
    <3>2. o \in O \ {x} /\ o \in Header .. Size /\ Here(g, o)
      BY <1>2
    <3>3. m(o) \in Header .. Size
      BY <1>6, <3>2
    <3> QED
      BY <3>1, <3>2, <3>3
  <2>2. Alike(g, o, h, m(o))
    BY <1>7
  <2> HIDE DEF m
  <2>3. h \in Region
    BY <1>1
  <2> QED
    BY <2>1, <2>2, <2>3, AlikeRecords
<1>11. Chain(h, P)
  <2>1. P \subseteq Header .. Size
    BY <1>6
  <2>2. Header \in P
    <3>1. Header \in O
      BY <1>3 DEF Chain
    <3>2. CASE x = Header
      <4> DEFINE y == x + d
      <4>1. y \in O \ {x} /\ ~(y < x) /\ y - d = x
        BY <1>4
      <4> HIDE DEF y
      <4>2. m(y) = x
        BY <4>1
      <4> QED
        BY <3>2, <4>1, <4>2
    <3>3. CASE x # Header
      <4>1. Header \in O \ {x} /\ Header < x
        BY <1>4, <3>1, <3>3, Sizes
      <4>2. m(Header) = Header
        BY <4>1
      <4> QED
        BY <4>1, <4>2
    <3> QED
      BY <3>2, <3>3
  <2>3. ASSUME NEW p \in P, Here(h, p)  PROVE p + Total(h, p) \in P
    <3>1. PICK o \in O \ {x} : p = m(o)
      OBVIOUS
    <3>2. o # e
      BY <1>8, <1>9, <2>3, <3>1
    <3>3. o \in Walk(g) \ {x}
      BY <1>2, <3>1, <3>2
    <3>4. Total(h, p) = Total(g, o) /\ Total(g, o) \in Nat /\ o + Total(g, o) \in O /\ o \in Nat
      BY <1>2, <1>10, <3>1, <3>3
    <3> DEFINE q == o + Total(g, o)
    <3>5. q \in O /\ q \in Nat
      BY <3>4
    <3>6. CASE o < x
      <4>1. p = o /\ q <= x /\ p + Total(h, p) = q
        BY <1>2, <1>4, <3>1, <3>3, <3>4, <3>6
      <4>2. CASE q < x
        <5>1. q \in O \ {x} /\ m(q) = q
          BY <1>4, <3>5, <4>2
        <5> HIDE DEF q, m
        <5> QED
          BY <4>1, <5>1
      <4>3. CASE ~(q < x)
        <5>1. q = x
          BY <1>4, <3>5, <4>1, <4>3
        <5> DEFINE y == x + d
        <5>2. y \in O \ {x} /\ ~(y < x) /\ y - d = x
          BY <1>4
        <5> HIDE DEF y
        <5>3. m(y) = x
          BY <5>2
        <5> HIDE DEF q, m
        <5> QED
          BY <4>1, <5>1, <5>2, <5>3
      <4> QED
        BY <4>2, <4>3
    <3>7. CASE ~(o < x)
      <4>1. p = o - d /\ o >= x + d
        BY <1>5, <3>1, <3>7
      <4>2. ~(q < x) /\ q # x /\ q - d = p + Total(h, p)
        BY <1>4, <3>4, <4>1
      <4>3. m(q) = p + Total(h, p)
        BY <4>2
      <4> HIDE DEF q, m
      <4> QED
        BY <3>5, <4>2, <4>3
    <3> QED
      BY <3>6, <3>7
  <2>4. ASSUME NEW p \in P, p # Header
        PROVE  \E q \in P : Here(h, q) /\ p = q + Total(h, q)
    <3>1. PICK o \in O \ {x} : p = m(o)
      OBVIOUS
    <3>2. o # Header
      <4> SUFFICES ASSUME o = Header  PROVE FALSE
        OBVIOUS
      <4>1. o <= x
        BY <1>4, Sizes
      <4>2. o < x
        BY <1>4, <1>5, <4>1
      <4> QED
        BY <2>4, <3>1, <4>2
    <3>3. PICK q \in O : Here(g, q) /\ o = q + Total(g, q)
      BY <1>3, <3>1, <3>2 DEF Chain
    <3>4. q \in Walk(g) /\ q \in Nat /\ Total(g, q) \in Nat /\ Total(g, q) >= 5
      <4>1. q \in Walk(g)
        BY <3>3 DEF Walk, O
      <4> QED
        BY <1>2, <4>1
    <3>5. CASE q = x
      <4>1. o = x + d /\ p = x
        BY <1>4, <3>1, <3>3, <3>4, <3>5 DEF d
      <4>2. PICK r \in O : Here(g, r) /\ x = r + Total(g, r)
        BY <1>3, <1>4, <2>4, <4>1 DEF Chain
      <4>3. r \in Walk(g) /\ r \in Nat /\ Total(g, r) \in Nat /\ Total(g, r) >= 5
        <5>1. r \in Walk(g)
          BY <4>2 DEF Walk, O
        <5> QED
          BY <1>2, <5>1
      <4>4. r < x /\ r # x
        BY <1>4, <4>2, <4>3
      <4>5. m(r) = r /\ r \in Walk(g) \ {x} /\ r \in O \ {x}
        BY <4>3, <4>4
      <4>6. Here(h, r) /\ Total(h, r) = Total(g, r)
        BY <1>10, <4>5
      <4>7. r \in P
        BY <4>5
      <4> QED
        BY <4>1, <4>2, <4>6, <4>7
    <3>6. CASE q # x
      <4>1. q \in Walk(g) \ {x} /\ q \in O \ {x}
        BY <3>3, <3>4, <3>6
      <4>2. Here(h, m(q)) /\ Total(h, m(q)) = Total(g, q)
        BY <1>10, <4>1
      <4>3. p = m(q) + Total(g, q)
        <5>1. CASE q < x
          <6>1. o <= x
            BY <1>2, <1>4, <3>3, <3>4, <5>1
          <6>2. o < x
            BY <1>4, <1>5, <3>1, <6>1
          <6> QED
            BY <3>1, <3>3, <5>1, <6>2
        <5>2. CASE ~(q < x)
          <6>1. q >= x + d /\ m(q) = q - d
            BY <1>5, <4>1, <5>2
          <6>2. ~(o < x)
            BY <1>4, <3>3, <3>4, <6>1
          <6>3. p = o - d
            BY <3>1, <6>2
          <6> QED
            BY <1>4, <3>3, <3>4, <6>1, <6>3
        <5> QED
          BY <5>1, <5>2
      <4>4. m(q) \in P
        BY <4>1
      <4> HIDE DEF m, P
      <4> QED
        BY <4>2, <4>3, <4>4
    <3> QED
      BY <3>5, <3>6
  <2> HIDE DEF P
  <2> QED
    BY <2>1, <2>2, <2>3, <2>4 DEF Chain
<1>12. e - d \in P
  <2> HIDE DEF m
  <2> QED
    BY <1>8
<1>13. EndOffset(h) = e - d /\ Walk(h) = P \ {e - d}
  <2> HIDE DEF P
  <2> QED
    BY <1>1, <1>9, <1>11, <1>12, ChainEnds
<1>14. Walk(h) = {m(o) : o \in Walk(g) \ {x}}
  <2>1. \A o \in Walk(g) \ {x} : m(o) # e - d
    BY <1>9, <1>10
  <2>2. O \ {x} = (Walk(g) \ {x}) \cup {e}
    BY <1>2, <1>4
  <2> HIDE DEF m
  <2> QED
    BY <1>8, <1>13, <2>1, <2>2
<1>15. Moved(g, Walk(g) \ {x}, h, Walk(h))
  <2> DEFINE A == Walk(g) \ {x}  f == [o \in A |-> m(o)]
  <2>1. f \in [A -> Walk(h)] /\ \A o \in A : f[o] = m(o)
    <3> HIDE DEF m
    <3> QED
      BY <1>14
  <2>2. \A p \in Walk(h) : \E o \in A : p = f[o]
    <3> HIDE DEF m
    <3> QED
      BY <1>14
  <2>3. \A o \in A : Alike(g, o, h, f[o])
    <3> HIDE DEF m
    <3> QED
      BY <1>7, <2>1
  <2> HIDE DEF f
  <2> QED
    BY <2>1, <2>2, <2>3 DEF Moved
<1>16. Formatted(g) => Formatted(h)
  <2>1. 0 \in 0 .. Size - 1 /\ 0 < x
    BY <1>4, Sizes
  <2>2. Rd(h, 0) = Rd(g, 0)
    BY <1>1, <2>1
  <2> QED
    BY <2>2 DEF Formatted
<1>17. Terminated(h) /\ EndOffset(h) + d = e
  BY <1>1, <1>4, <1>13 DEF Terminated, d, e
<1> QED
  BY <1>1, <1>15, <1>16, <1>17 DEF h, d, e

\* What a splice does to the names: the one taken out has no value, the others
\* have theirs.
LEMMA SplicedNames ==
  ASSUME NEW g \in Region, Formatted(g), Unique(g), NEW x \in Walk(g)
  PROVE  /\ Unique(SpliceOut(g, x))
         /\ \A n \in Names : ~Matches(g, x, n[1], n[2]) => Get(SpliceOut(g, x))[n] = Get(g)[n]
         /\ \A n \in Names : Matches(g, x, n[1], n[2]) =>
              /\ \A p \in Walk(SpliceOut(g, x)) : ~Matches(SpliceOut(g, x), p, n[1], n[2])
              /\ Get(SpliceOut(g, x))[n] = Absent
<1> DEFINE h == SpliceOut(g, x)  A == Walk(g) \ {x}  B == Walk(h)
<1>1. h \in Region /\ Formatted(h) /\ Moved(g, A, h, B)
  BY Spliced
<1> HIDE DEF h
<1>2. A \in SUBSET Walk(g) /\ B \in SUBSET Walk(h)
  OBVIOUS
<1>3. Unique(h)
  BY <1>1, <1>2, MovedUnique DEF Unique
<1>4. ASSUME NEW n \in Names, ~Matches(g, x, n[1], n[2])  PROVE Get(h)[n] = Get(g)[n]
  <2>1. \A o \in Walk(g) \ A : ~Matches(g, o, n[1], n[2])
    BY <1>4
  <2>2. \A o \in Walk(h) \ B : ~Matches(h, o, n[1], n[2])
    OBVIOUS
  <2> HIDE DEF A, B
  <2> QED
    BY <1>1, <1>2, <1>3, <2>1, <2>2, MovedGet
<1>5. ASSUME NEW n \in Names, Matches(g, x, n[1], n[2])
      PROVE  \A p \in Walk(h) : ~Matches(h, p, n[1], n[2])
  <2> SUFFICES ASSUME NEW p \in Walk(h), Matches(h, p, n[1], n[2])  PROVE FALSE
    OBVIOUS
  <2>1. PICK m \in [A -> B] : /\ \A q \in B : \E o \in A : q = m[o]
                              /\ \A o \in A : Alike(g, o, h, m[o])
    BY <1>1 DEF Moved
  <2>2. PICK o \in A : p = m[o]
    BY <2>1
  <2>3. o \in Walk(g) /\ o # x /\ Alike(g, o, h, p)
    BY <2>1, <2>2
  <2>4. Matches(g, o, n[1], n[2])
    BY <1>1, <2>3, AlikeOffsets
  <2>5. Name(g, o) = Name(g, x)
    BY <1>5, <2>3, <2>4, OneName
  <2> QED
    BY <2>3, <2>5 DEF Unique
<1>6. ASSUME NEW n \in Names, Matches(g, x, n[1], n[2])  PROVE Get(h)[n] = Absent
  BY <1>1, <1>5, <1>6, Miss
<1> QED
  BY <1>3, <1>4, <1>5, <1>6 DEF h

---------------------------------------------------------------------------
(* Writing a value where it lies.                                          *)

\* The value changes, the records stay where they are (Preferences.cpp:250).
LEMMA Overwritten ==
  ASSUME NEW g \in Region, Terminated(g), NEW x \in Walk(g), NEW data \in Seq(Byte),
         Len(data) = DataLen(g, x)
  PROVE  LET h == Wr(g, DataOff(g, x), data)
         IN /\ h \in Region /\ (Formatted(g) => Formatted(h)) /\ Terminated(h)
            /\ Walk(h) = Walk(g) /\ HeadAlike(g, x, h, x)
            /\ Value(h)[x] = [type |-> Type(g, x), data |-> data]
            /\ Moved(g, Walk(g) \ {x}, h, Walk(h) \ {x})
<1> DEFINE w == DataOff(g, x)  n == DataLen(g, x)  h == Wr(g, w, data)
           e == EndOffset(g)  O == Looks(g)
<1>1. /\ e \in Header .. Size /\ e \in O /\ O = Walk(g) \cup {e}
      /\ \A o \in Walk(g) : /\ o \in Header .. Size /\ o \in Nat /\ Here(g, o)
                            /\ Total(g, o) \in Nat /\ Total(g, o) >= 5
                            /\ o + Total(g, o) <= e /\ o + Total(g, o) \in O /\ o < e
      /\ \A o \in Walk(g), p \in O : o < p => o + Total(g, o) <= p
  BY WalkFacts
<1>2. Chain(g, O)
  BY LooksChain
<1>3. /\ w \in Nat /\ n \in Nat /\ w + n = x + Total(g, x)
      /\ w = x + 5 + NsLen(g, x) + KeyLen(g, x) /\ NsLen(g, x) \in Nat /\ KeyLen(g, x) \in Nat
  BY <1>1, Fields
<1>4. e < Size /\ Rd(g, e) = 0
  BY DEF Terminated
<1> HIDE DEF O, w, n, e
<1>5. x \in Nat /\ x >= 1 /\ x + 5 <= w /\ w + n <= e /\ e \in Nat /\ Size \in Nat
  <2>1. x + Total(g, x) <= e /\ x \in Header .. Size
    BY <1>1
  <2>2. Size \in Nat /\ Header = 1 /\ e \in Header .. Size
    BY <1>1, Sizes
  <2>3. x \in Nat /\ x >= 1 /\ e \in Nat
    BY <2>1, <2>2
  <2> QED
    BY <1>3, <2>1, <2>2, <2>3
<1>6. /\ h \in Region
      /\ \A k \in 0 .. Size - 1 :
           Rd(h, k) = IF w <= k /\ k < w + n THEN data[k - w + 1] ELSE Rd(g, k)
  <2>0. Len(data) = n
    BY DEF n
  <2>1. w + Len(data) <= Size /\ Len(data) = n
    BY <1>3, <1>4, <1>5, <2>0
  <2> HIDE DEF h
  <2>2. /\ Wr(g, w, data) \in Region
        /\ \A k \in 0 .. Size - 1 :
             Rd(Wr(g, w, data), k) = IF w <= k /\ k < w + Len(data) THEN data[k - w + 1] ELSE Rd(g, k)
    BY <1>3, <2>1, WrAt
  <2> QED
    BY <2>1, <2>2 DEF h
<1> HIDE DEF h
<1>7. \A k \in 0 .. Size - 1 : k < w \/ w + n <= k => Rd(h, k) = Rd(g, k)
  BY <1>3, <1>5, <1>6
<1>8. ASSUME NEW o \in Walk(g) \ {x}  PROVE Alike(g, o, h, o)
  <2> DEFINE t == Total(g, o)
  <2>1. o \in Nat /\ t \in Nat /\ o + t <= e /\ o # x
    BY <1>1
  <2>2. o + t <= x \/ w + n <= o
    <3>1. CASE o < x
      <4>1. x \in O
        BY <1>1
      <4> QED
        BY <1>1, <3>1, <4>1
    <3>2. CASE x < o
      <4>1. o \in O
        BY <1>1
      <4> QED
        BY <1>1, <1>3, <3>2, <4>1
    <3> QED
      BY <1>5, <2>1, <3>1, <3>2
  <2>0. Total(g, o) = t
    OBVIOUS
  <2> HIDE DEF t
  <2>3. \A k \in 0 .. t - 1 : Rd(g, o + k) = Rd(h, o + k)
    <3> TAKE k \in 0 .. t - 1
    <3>1. o + k \in 0 .. Size - 1 /\ (o + k < w \/ w + n <= o + k)
      BY <1>3, <1>4, <1>5, <2>1, <2>2
    <3> QED
      BY <1>7, <3>1
  <2>4. o + t <= Size
    BY <1>4, <1>5, <2>1
  <2> QED
    BY <2>0, <2>3, <2>4 DEF Alike
<1>9. HeadAlike(g, x, h, x)
  <2>1. x + Total(g, x) <= Size
    BY <1>3, <1>4, <1>5
  <2> DEFINE s == NsLen(g, x)  t == KeyLen(g, x)
  <2>4. s \in Nat /\ t \in Nat /\ x \in Nat /\ w = x + 5 + s + t /\ RecHdr = 5
    BY <1>3, <1>5, Sizes
  <2>5. s = NsLen(g, x) /\ t = KeyLen(g, x)
    OBVIOUS
  <2>6. w \in Nat /\ Size \in Nat /\ w <= Size
    BY <1>3, <1>4, <1>5
  <2> HIDE DEF s, t
  <2> DEFINE a == RecHdr + s + t
  <2>2. x + a = w /\ a \in Nat
    BY <2>4
  <2>0. RecHdr + s + t - 1 = a - 1
    BY <2>4
  <2> HIDE DEF a
  <2>3. ASSUME NEW k \in 0 .. a - 1  PROVE Rd(g, x + k) = Rd(h, x + k)
    <3>1. x + k \in 0 .. Size - 1 /\ x + k < w
      BY <2>2, <2>4, <2>6
    <3> QED
      BY <1>7, <3>1
  <2> QED
    BY <2>0, <2>1, <2>3, <2>5 DEF HeadAlike
<1>10. ASSUME NEW o \in Walk(g)  PROVE Here(h, o) /\ Total(h, o) = Total(g, o)
  <2>1. o \in 0 .. Size /\ o \in Nat /\ Here(g, o)
    <3>1. Header .. Size \subseteq 0 .. Size
      BY Sizes
    <3> QED
      BY <1>1, <3>1
  <2>2. CASE o = x
    <3>1. /\ NsLen(g, o) = NsLen(h, o) /\ Total(g, o) = Total(h, o)
      BY <1>6, <1>9, <2>1, <2>2, HeadFields
    <3> QED
      BY <2>1, <3>1 DEF Here
  <2>3. CASE o # x
    <3>1. Alike(g, o, h, o)
      BY <1>8, <2>3
    <3> QED
      BY <1>6, <2>1, <3>1, AlikeRecords
  <2> QED
    BY <2>2, <2>3
<1>11. Rd(h, e) = 0 /\ ~Here(h, e)
  <2>1. e \in 0 .. Size - 1 /\ w + n <= e
    BY <1>4, <1>5
  <2>2. Rd(h, e) = 0
    BY <1>4, <1>7, <2>1
  <2> QED
    BY <2>2 DEF Here, NsLen
<1>12. Chain(h, O)
  <2>1. \A o \in O : Here(h, o) => o \in Walk(g)
    BY <1>1, <1>11
  <2>2. \A o \in O : Here(g, o) => o \in Walk(g)
    BY DEF Walk, O
  <2> QED
    <3>1. /\ O \subseteq Header .. Size /\ Header \in O
          /\ \A o \in O : Here(g, o) => o + Total(g, o) \in O
          /\ \A o \in O : o # Header => \E p \in O : Here(g, p) /\ o = p + Total(g, p)
      BY <1>2 DEF Chain
    <3>2. \A o \in O : Here(h, o) => o + Total(h, o) \in O
      BY <1>1, <1>10, <2>1
    <3>3. \A o \in O : o # Header => \E p \in O : Here(h, p) /\ o = p + Total(h, p)
      BY <1>10, <2>2, <3>1
    <3> QED
      BY <3>1, <3>2, <3>3 DEF Chain
<1>13. EndOffset(h) = e /\ Walk(h) = O \ {e}
  BY <1>1, <1>6, <1>11, <1>12, ChainEnds
<1>14. Walk(h) = Walk(g)
  <2>1. e \notin Walk(g)
    BY <1>1, <1>5
  <2> QED
    BY <1>1, <1>13, <2>1
<1>15. Moved(g, Walk(g) \ {x}, h, Walk(h) \ {x})
  <2> DEFINE A == Walk(g) \ {x}  f == [o \in A |-> o]
  <2>1. f \in [A -> A] /\ \A o \in A : f[o] = o
    OBVIOUS
  <2> HIDE DEF f
  <2>2. \A p \in A : \E o \in A : p = f[o]
    BY <2>1
  <2>3. \A o \in A : Alike(g, o, h, f[o])
    BY <1>8, <2>1
  <2> QED
    BY <1>14, <2>1, <2>2, <2>3 DEF Moved
<1>16. Formatted(g) => Formatted(h)
  <2>1. 0 \in 0 .. Size - 1 /\ 0 < w
    BY <1>3, <1>5, <1>4
  <2>2. Rd(h, 0) = Rd(g, 0)
    BY <1>7, <2>1
  <2> QED
    BY <2>2 DEF Formatted
<1>17. Value(h)[x] = [type |-> Type(g, x), data |-> data]
  <2>1. /\ NsLen(g, x) = NsLen(h, x) /\ KeyLen(g, x) = KeyLen(h, x) /\ Type(g, x) = Type(h, x)
        /\ DataLen(g, x) = DataLen(h, x)
    BY <1>5, <1>6, <1>9, HeadFields
  <2>2. DataOff(h, x) = w /\ DataLen(h, x) = n
    BY <2>1 DEF DataOff, w, n
  <2> DEFINE b == Bytes(h, w, n)
  <2>3. /\ b \in Seq(Byte) /\ Len(b) = n
        /\ \A i \in 1 .. n : b[i] = Rd(h, w + i - 1)
    <3>1. w + n <= Size
      BY <1>3, <1>4, <1>5
    <3> QED
      BY <1>3, <1>6, <3>1, BytesAt
  <2> HIDE DEF b
  <2>4. \A i \in 1 .. n : b[i] = data[i]
    <3> TAKE i \in 1 .. n
    <3> DEFINE k == w + i - 1
    <3>0. w + n < Size /\ w \in Nat /\ n \in Nat /\ Size \in Nat
      BY <1>3, <1>4, <1>5
    <3>1. k \in 0 .. Size - 1 /\ w <= k /\ k < w + n /\ k - w + 1 = i
      BY <3>0
    <3>2. b[i] = Rd(h, k)
      BY <2>3
    <3> HIDE DEF k
    <3>3. Rd(h, k) = data[k - w + 1]
      BY <1>6, <3>1
    <3> QED
      BY <3>1, <3>2, <3>3
  <2>5. b = data
    <3>1. Len(data) = n
      BY DEF n
    <3> QED
      BY <2>3, <2>4, <3>1, SeqEqual
  <2>6. x \in 0 .. Size
    BY <1>3, <1>4, <1>5
  <2> QED
    BY <2>1, <2>2, <2>5, <2>6 DEF Value, b
<1>18. Terminated(h)
  BY <1>4, <1>11, <1>13 DEF Terminated
<1> QED
  BY <1>6, <1>9, <1>14, <1>15, <1>16, <1>17, <1>18 DEF h, w

---------------------------------------------------------------------------
(* Adding a record.                                                        *)

\* The bytes of a, then those of b.
IsCat(c, a, b) ==
  /\ c \in Seq(Byte) /\ Len(c) = Len(a) + Len(b)
  /\ Len(a) \in Nat /\ Len(b) \in Nat
  /\ \A i \in 1 .. Len(a) : c[i] = a[i]
  /\ \A i \in 1 .. Len(b) : c[Len(a) + i] = b[i]

LEMMA CatAt ==
  ASSUME NEW a \in Seq(Byte), NEW b \in Seq(Byte)
  PROVE  IsCat(a \o b, a, b)
<1>1. /\ a \o b \in Seq(Byte) /\ Len(a \o b) = Len(a) + Len(b)
      /\ \A i \in 1 .. Len(a) + Len(b) : (a \o b)[i] = IF i <= Len(a) THEN a[i] ELSE b[i - Len(a)]
  BY ConcatProperties
<1>2. Len(a) \in Nat /\ Len(b) \in Nat
  OBVIOUS
<1> DEFINE c == a \o b  m == Len(a)  n == Len(b)
<1> HIDE DEF c, m, n
<1>3. m \in Nat /\ n \in Nat /\ \A i \in 1 .. m + n : c[i] = IF i <= m THEN a[i] ELSE b[i - m]
  BY <1>1, <1>2 DEF c, m, n
<1>4. \A i \in 1 .. m : c[i] = a[i]
  <2> TAKE i \in 1 .. m
  <2>1. i \in 1 .. m + n /\ i <= m
    BY <1>3
  <2> QED
    BY <1>3, <2>1
<1>5. \A i \in 1 .. n : c[m + i] = b[i]
  <2> TAKE i \in 1 .. n
  <2> DEFINE j == m + i
  <2>1. j \in 1 .. m + n /\ ~(j <= m) /\ j - m = i
    BY <1>3
  <2> HIDE DEF j
  <2>2. c[j] = b[j - m]
    BY <1>3, <2>1
  <2> QED
    BY <2>1, <2>2 DEF j
<1> QED
  BY <1>1, <1>2, <1>4, <1>5 DEF c, m, n, IsCat

LEMMA FiveBytes ==
  ASSUME NEW a \in Byte, NEW b \in Byte, NEW c \in Byte, NEW d \in Byte, NEW e \in Byte
  PROVE  LET hd == <<a, b, c, d, e>>
         IN hd \in Seq(Byte) /\ Len(hd) = 5 /\ hd[1] = a /\ hd[2] = b /\ hd[3] = c /\ hd[4] = d /\ hd[5] = e
OBVIOUS

\* The bytes of a new record, and the terminator after it.
IsRecord(r, hd, ns, key, data) ==
  LET s == Len(ns)  t == Len(key)  n == Len(data)
  IN /\ r \in Seq(Byte) /\ Len(r) = 5 + s + t + n + 1
     /\ \A i \in 1 .. 5 : r[i] = hd[i]
     /\ \A i \in 1 .. s : r[5 + i] = ns[i]
     /\ \A i \in 1 .. t : r[5 + s + i] = key[i]
     /\ \A i \in 1 .. n : r[5 + s + t + i] = data[i]
     /\ r[5 + s + t + n + 1] = 0

LEMMA RecordBytes ==
  ASSUME NEW ns \in Seq(Byte), NEW key \in Seq(Byte), NEW data \in Seq(Byte), NEW hd \in Seq(Byte),
         Len(hd) = 5
  PROVE  IsRecord(hd \o ns \o key \o data \o <<0>>, hd, ns, key, data)
<1> DEFINE s == Len(ns)  t == Len(key)  n == Len(data)  z == <<0>>
           a == hd \o ns  b == a \o key  c == b \o data  r == c \o z
<1>0. s \in Nat /\ t \in Nat /\ n \in Nat
  OBVIOUS
<1>1. z \in Seq(Byte) /\ Len(z) = 1 /\ z[1] = 0
  <2>1. 0 \in Byte
    BY DEF Byte
  <2> QED
    BY <2>1
<1> HIDE DEF z
<1>2. /\ a \in Seq(Byte) /\ Len(a) = 5 + s
      /\ \A i \in 1 .. 5 : a[i] = hd[i]
      /\ \A i \in 1 .. s : a[5 + i] = ns[i]
  <2>1. IsCat(a, hd, ns) /\ Len(ns) = s
    BY CatAt
  <2> HIDE DEF a, s
  <2> QED
    BY <2>1 DEF IsCat
<1> HIDE DEF a, s
<1>3. /\ b \in Seq(Byte) /\ Len(b) = 5 + s + t
      /\ \A i \in 1 .. 5 + s : b[i] = a[i]
      /\ \A i \in 1 .. t : b[5 + s + i] = key[i]
  <2>0. a \in Seq(Byte) /\ Len(a) = 5 + s
    BY <1>2
  <2>1. IsCat(b, a, key) /\ Len(key) = t
    BY <2>0, CatAt
  <2> HIDE DEF b, t
  <2> QED
    BY <2>0, <2>1 DEF IsCat
<1> HIDE DEF b, t
<1>4. /\ c \in Seq(Byte) /\ Len(c) = 5 + s + t + n
      /\ \A i \in 1 .. 5 + s + t : c[i] = b[i]
      /\ \A i \in 1 .. n : c[5 + s + t + i] = data[i]
  <2>0. b \in Seq(Byte) /\ Len(b) = 5 + s + t
    BY <1>3
  <2>1. IsCat(c, b, data) /\ Len(data) = n
    BY <2>0, CatAt
  <2> HIDE DEF c, n
  <2> QED
    BY <2>0, <2>1 DEF IsCat
<1> HIDE DEF c, n
<1>5. /\ r \in Seq(Byte) /\ Len(r) = 5 + s + t + n + 1
      /\ \A i \in 1 .. 5 + s + t + n : r[i] = c[i]
      /\ r[5 + s + t + n + 1] = 0
  <2>0. c \in Seq(Byte) /\ Len(c) = 5 + s + t + n
    BY <1>4
  <2>1. IsCat(r, c, z)
    BY <1>1, <2>0, CatAt
  <2> HIDE DEF r
  <2>2. /\ r \in Seq(Byte) /\ Len(r) = Len(c) + Len(z) /\ \A i \in 1 .. Len(c) : r[i] = c[i]
        /\ \A i \in 1 .. Len(z) : r[Len(c) + i] = z[i]
    BY <2>1 DEF IsCat
  <2>3. r[Len(c) + 1] = 0
    BY <1>1, <2>2
  <2> QED
    BY <1>1, <2>0, <2>2, <2>3
<1> HIDE DEF r
<1>6. ASSUME NEW i \in 1 .. 5  PROVE r[i] = hd[i]
  <2>1. i \in 1 .. 5 + s /\ i \in 1 .. 5 + s + t /\ i \in 1 .. 5 + s + t + n
    BY <1>0
  <2>2. a[i] = hd[i]
    BY <1>2
  <2>3. b[i] = a[i]
    BY <1>3, <2>1
  <2>4. c[i] = b[i]
    BY <1>4, <2>1
  <2>5. r[i] = c[i]
    BY <1>5, <2>1
  <2> QED
    BY <2>2, <2>3, <2>4, <2>5
<1>7. ASSUME NEW i \in 1 .. s  PROVE r[5 + i] = ns[i]
  <2> DEFINE j == 5 + i
  <2>1. j \in 1 .. 5 + s /\ j \in 1 .. 5 + s + t /\ j \in 1 .. 5 + s + t + n
    BY <1>0
  <2>2. a[j] = ns[i]
    BY <1>2
  <2> HIDE DEF j
  <2>3. r[j] = ns[i]
    BY <1>3, <1>4, <1>5, <2>1, <2>2
  <2> QED
    BY <2>3 DEF j
<1>8. ASSUME NEW i \in 1 .. t  PROVE r[5 + s + i] = key[i]
  <2> DEFINE j == 5 + s + i
  <2>1. j \in 1 .. 5 + s + t /\ j \in 1 .. 5 + s + t + n
    BY <1>0
  <2>2. b[j] = key[i]
    BY <1>3
  <2> HIDE DEF j
  <2>3. r[j] = key[i]
    BY <1>4, <1>5, <2>1, <2>2
  <2> QED
    BY <2>3 DEF j
<1>9. ASSUME NEW i \in 1 .. n  PROVE r[5 + s + t + i] = data[i]
  <2> DEFINE j == 5 + s + t + i
  <2>1. j \in 1 .. 5 + s + t + n
    BY <1>0
  <2>2. c[j] = data[i]
    BY <1>4
  <2> HIDE DEF j
  <2>3. r[j] = data[i]
    BY <1>5, <2>1, <2>2
  <2> QED
    BY <2>3 DEF j
<1> QED
  BY <1>0, <1>5, <1>6, <1>7, <1>8, <1>9 DEF IsRecord, r, c, b, a, z, s, t, n

\* There is room for a record that may be stored; and it is there, at e.
Room(g, ns, key, v) ==
  /\ ns \in Seq(Byte) /\ key \in Seq(Byte) /\ v \in [type : Byte, data : Seq(Byte)]
  /\ Len(v.data) <= 65535 /\ Len(ns) \in Byte \ {0} /\ Len(key) \in Byte
  /\ Fits(g, ns, key, v)
Adds(g, h, e) ==
  /\ h \in Region /\ (Formatted(g) => Formatted(h)) /\ Terminated(h)
  /\ Walk(h) = Walk(g) \cup {e} /\ e \notin Walk(g)
  /\ Moved(g, Walk(g), h, Walk(h) \ {e})

\* The last part of hearthPut(): where each byte goes (Preferences.cpp:276).
LEMMA AppendedAt ==
  ASSUME NEW g \in Region, NEW ns, NEW key, NEW v, Room(g, ns, key, v)
  PROVE  LET h == Appended(g, ns, key, v)  e == EndOffset(g)
             s == Len(ns)  t == Len(key)  n == Len(v.data)
         IN /\ h \in Region /\ e + 5 + s + t + n < Size /\ n \in Nat
            /\ \A k \in 0 .. Size - 1 : k < e => Rd(h, k) = Rd(g, k)
            /\ NsLen(h, e) = s /\ KeyLen(h, e) = t /\ Type(h, e) = v.type /\ DataLen(h, e) = n
            /\ \A i \in 1 .. s : Rd(h, e + 5 + i - 1) = ns[i]
            /\ \A i \in 1 .. t : Rd(h, e + 5 + s + i - 1) = key[i]
            /\ \A i \in 1 .. n : Rd(h, e + 5 + s + t + i - 1) = v.data[i]
            /\ Rd(h, e + 5 + s + t + n) = 0
<1> USE DEF Room
<1> DEFINE s == Len(ns)  t == Len(key)  n == Len(v.data)  e == EndOffset(g)
           hd == <<s, t, v.type, n % 256, n \div 256>>
           r == hd \o ns \o key \o v.data \o <<0>>
           h == Appended(g, ns, key, v)
<1>0. v.data \in Seq(Byte) /\ v.type \in Byte
  OBVIOUS
<1>1. s \in Byte /\ t \in Byte /\ s \in Nat /\ t \in Nat /\ n \in Nat /\ n <= 65535
  BY <1>0
<1>2. h = Wr(g, e, r)
  BY DEF Appended
<1>3. e + 5 + s + t + n + 1 <= Size /\ e \in Nat /\ Size \in Nat
  <2>1. e \in Header .. Size
    BY WalkFacts
  <2>2. e + Need(ns, key, v) + 1 <= Size /\ Need(ns, key, v) = 5 + s + t + n
    BY DEF Fits, Need, RecHdr
  <2> HIDE DEF e, s, t, n
  <2>3. s \in Nat /\ t \in Nat /\ n \in Nat /\ e \in Nat /\ Size \in Nat
    BY <1>1, <2>1, Sizes
  <2> QED
    BY <2>2, <2>3
<1> HIDE DEF e, h
<1>4. n % 256 \in Byte /\ n \div 256 \in Byte /\ (n % 256) + 256 * (n \div 256) = n
  <2> HIDE DEF n, s, t
  <2>0. n \in Nat /\ n <= 65535
    BY <1>1
  <2>1. n % 256 \in 0 .. 255 /\ (n % 256) + 256 * (n \div 256) = n
    BY <2>0
  <2> DEFINE lo == n % 256  hi == n \div 256
  <2>2. hi \in Int
    BY <2>0
  <2>3. lo \in 0 .. 255 /\ lo + 256 * hi = n
    BY <2>1
  <2> HIDE DEF lo, hi
  <2>4. hi \in 0 .. 255
    BY <2>0, <2>2, <2>3
  <2>5. lo \in Byte /\ hi \in Byte /\ lo + 256 * hi = n
    BY <2>3, <2>4 DEF Byte
  <2> QED
    BY <2>5 DEF lo, hi
<1>5. hd \in Seq(Byte) /\ Len(hd) = 5 /\ hd[1] = s /\ hd[2] = t /\ hd[3] = v.type
      /\ hd[4] = n % 256 /\ hd[5] = n \div 256
  <2> DEFINE lo == n % 256  hi == n \div 256  ty == v.type
  <2>1. s \in Byte /\ t \in Byte /\ ty \in Byte /\ lo \in Byte /\ hi \in Byte
    BY <1>0, <1>1, <1>4
  <2>2. hd = <<s, t, ty, lo, hi>>
    OBVIOUS
  <2> HIDE DEF s, t, lo, hi, ty, hd
  <2>3. hd \in Seq(Byte) /\ Len(hd) = 5 /\ hd[1] = s /\ hd[2] = t /\ hd[3] = ty
        /\ hd[4] = lo /\ hd[5] = hi
    BY <2>1, <2>2, FiveBytes
  <2> QED
    BY <2>3 DEF lo, hi, ty
<1> HIDE DEF hd
<1>6. /\ r \in Seq(Byte) /\ Len(r) = 5 + s + t + n + 1
      /\ \A i \in 1 .. 5 : r[i] = hd[i]
      /\ \A i \in 1 .. s : r[5 + i] = ns[i]
      /\ \A i \in 1 .. t : r[5 + s + i] = key[i]
      /\ \A i \in 1 .. n : r[5 + s + t + i] = v.data[i]
      /\ r[5 + s + t + n + 1] = 0
  <2>1. IsRecord(r, hd, ns, key, v.data)
    BY <1>0, <1>5, RecordBytes
  <2> HIDE DEF r
  <2> QED
    BY <2>1 DEF IsRecord
<1> HIDE DEF r, s, t, n
<1>7. /\ h \in Region
      /\ \A k \in 0 .. Size - 1 :
           Rd(h, k) = IF e <= k /\ k < e + (5 + s + t + n + 1) THEN r[k - e + 1] ELSE Rd(g, k)
  <2>1. e + Len(r) <= Size
    BY <1>1, <1>3, <1>6
  <2>2. /\ Wr(g, e, r) \in Region
        /\ \A k \in 0 .. Size - 1 :
             Rd(Wr(g, e, r), k) = IF e <= k /\ k < e + Len(r) THEN r[k - e + 1] ELSE Rd(g, k)
    <3>1. r \in Seq(Byte) /\ e \in Nat
      BY <1>3, <1>6
    <3> QED
      BY <2>1, <3>1, WrAt
  <2> QED
    BY <1>2, <1>6, <2>2
<1>8. ASSUME NEW i \in 1 .. 5 + s + t + n + 1  PROVE Rd(h, e + i - 1) = r[i]
  <2> DEFINE k == e + i - 1
  <2>1. k \in 0 .. Size - 1 /\ e <= k /\ k < e + (5 + s + t + n + 1) /\ k - e + 1 = i
    BY <1>1, <1>3
  <2> HIDE DEF k
  <2>2. Rd(h, k) = r[i]
    BY <1>7, <2>1
  <2> QED
    BY <2>2 DEF k
<1>9. /\ Rd(h, e) = s /\ Rd(h, e + 1) = t /\ Rd(h, e + 2) = v.type
      /\ Rd(h, e + 3) = n % 256 /\ Rd(h, e + 4) = n \div 256
  <2>1. {1, 2, 3, 4, 5} \subseteq 1 .. 5 + s + t + n + 1 /\ {1, 2, 3, 4, 5} \subseteq 1 .. 5
    BY <1>1
  <2>2. \A i \in {1, 2, 3, 4, 5} : Rd(h, e + i - 1) = hd[i]
    BY <1>6, <1>8, <2>1
  <2>3. e + 1 - 1 = e /\ e + 2 - 1 = e + 1 /\ e + 3 - 1 = e + 2 /\ e + 4 - 1 = e + 3 /\ e + 5 - 1 = e + 4
    BY <1>3
  <2>4. Rd(h, e + 1 - 1) = hd[1] /\ Rd(h, e + 2 - 1) = hd[2] /\ Rd(h, e + 3 - 1) = hd[3]
        /\ Rd(h, e + 4 - 1) = hd[4] /\ Rd(h, e + 5 - 1) = hd[5]
    BY <2>2
  <2> QED
    BY <1>5, <2>3, <2>4
<1>10. NsLen(h, e) = s /\ KeyLen(h, e) = t /\ Type(h, e) = v.type /\ DataLen(h, e) = n
  BY <1>4, <1>9 DEF NsLen, KeyLen, Type, DataLen
<1>11. ASSUME NEW i \in 1 .. s  PROVE Rd(h, e + 5 + i - 1) = ns[i]
  <2> DEFINE j == 5 + i
  <2>1. j \in 1 .. 5 + s + t + n + 1 /\ e + j - 1 = e + 5 + i - 1
    BY <1>1, <1>3
  <2>2. r[j] = ns[i]
    BY <1>6
  <2> HIDE DEF j
  <2>3. Rd(h, e + j - 1) = ns[i]
    BY <1>8, <2>1, <2>2
  <2> QED
    BY <2>1, <2>3
<1>12. ASSUME NEW i \in 1 .. t  PROVE Rd(h, e + 5 + s + i - 1) = key[i]
  <2> DEFINE j == 5 + s + i
  <2>1. j \in 1 .. 5 + s + t + n + 1 /\ e + j - 1 = e + 5 + s + i - 1
    BY <1>1, <1>3
  <2>2. r[j] = key[i]
    BY <1>6
  <2> HIDE DEF j
  <2>3. Rd(h, e + j - 1) = key[i]
    BY <1>8, <2>1, <2>2
  <2> QED
    BY <2>1, <2>3
<1>13. ASSUME NEW i \in 1 .. n  PROVE Rd(h, e + 5 + s + t + i - 1) = v.data[i]
  <2> DEFINE j == 5 + s + t + i
  <2>1. j \in 1 .. 5 + s + t + n + 1 /\ e + j - 1 = e + 5 + s + t + i - 1
    BY <1>1, <1>3
  <2>2. r[j] = v.data[i]
    BY <1>6
  <2> HIDE DEF j
  <2>3. Rd(h, e + j - 1) = v.data[i]
    BY <1>8, <2>1, <2>2
  <2> QED
    BY <2>1, <2>3
<1>14. Rd(h, e + 5 + s + t + n) = 0
  <2> DEFINE j == 5 + s + t + n + 1
  <2>1. j \in 1 .. 5 + s + t + n + 1 /\ e + j - 1 = e + 5 + s + t + n
    BY <1>1, <1>3
  <2>2. r[j] = 0
    BY <1>6
  <2> HIDE DEF j
  <2>3. Rd(h, e + j - 1) = 0
    BY <1>8, <2>1, <2>2
  <2> QED
    BY <2>1, <2>3
<1>15. \A k \in 0 .. Size - 1 : k < e => Rd(h, k) = Rd(g, k)
  BY <1>3, <1>7
<1>16. e + 5 + s + t + n < Size
  BY <1>1, <1>3
<1> QED
  BY <1>1, <1>7, <1>10, <1>11, <1>12, <1>13, <1>14, <1>15, <1>16 DEF h, e, s, t, n

\* The new record is the last of the walk, under its name and with its value.
LEMMA AppendedRecord ==
  ASSUME NEW g \in Region, NEW ns, NEW key, NEW v, Room(g, ns, key, v)
  PROVE  LET h == Appended(g, ns, key, v)  e == EndOffset(g)
         IN /\ Here(h, e) /\ Matches(h, e, ns, key) /\ Value(h)[e] = v
            /\ e + Total(h, e) < Size /\ Rd(h, e + Total(h, e)) = 0
<1> USE DEF Room
<1> DEFINE s == Len(ns)  t == Len(key)  n == Len(v.data)  e == EndOffset(g)
           h == Appended(g, ns, key, v)
<1>1. /\ h \in Region /\ e + 5 + s + t + n < Size /\ n \in Nat
      /\ NsLen(h, e) = s /\ KeyLen(h, e) = t /\ Type(h, e) = v.type /\ DataLen(h, e) = n
      /\ \A i \in 1 .. s : Rd(h, e + 5 + i - 1) = ns[i]
      /\ \A i \in 1 .. t : Rd(h, e + 5 + s + i - 1) = key[i]
      /\ \A i \in 1 .. n : Rd(h, e + 5 + s + t + i - 1) = v.data[i]
      /\ Rd(h, e + 5 + s + t + n) = 0
  BY AppendedAt
<1>2. e \in Nat /\ Size \in Nat /\ s \in Nat /\ t \in Nat /\ s # 0
  <2>1. e \in Header .. Size
    BY WalkFacts
  <2>2. s \in Nat /\ t \in Nat /\ s # 0
    OBVIOUS
  <2> QED
    BY <2>1, <2>2, Sizes
<1>3. v.data \in Seq(Byte) /\ v = [type |-> v.type, data |-> v.data]
  OBVIOUS
<1>4. n = Len(v.data) /\ s = Len(ns) /\ t = Len(key)
  OBVIOUS
<1> HIDE DEF e, h, s, t, n
<1>5. Total(h, e) = 5 + s + t + n /\ DataOff(h, e) = e + 5 + s + t
  BY <1>1, <1>2 DEF Total, DataOff, RecHdr
<1>6. Here(h, e)
  BY <1>1, <1>2, <1>5 DEF Here, RecHdr
<1>7. ASSUME NEW a \in Nat, NEW x \in Seq(Byte), e + 5 + a + Len(x) < Size,
             \A i \in 1 .. Len(x) : Rd(h, e + 5 + a + i - 1) = x[i]
      PROVE  Bytes(h, e + 5 + a, Len(x)) = x
  <2> DEFINE m == Len(x)  f == e + 5 + a  b == Bytes(h, f, m)
  <2>1. m \in Nat /\ f \in Nat /\ f + m <= Size
    BY <1>2, <1>7
  <2>2. \A i \in 1 .. m : Rd(h, f + i - 1) = x[i]
    BY <1>7
  <2>3. Len(x) = m
    OBVIOUS
  <2> HIDE DEF f, m
  <2>4. /\ b \in Seq(Byte) /\ Len(b) = m
        /\ \A i \in 1 .. m : b[i] = Rd(h, f + i - 1)
    BY <1>1, <2>1, BytesAt
  <2> HIDE DEF b
  <2>5. b = x
    BY <2>2, <2>3, <2>4, SeqEqual
  <2> QED
    BY <2>5 DEF b, f, m
<1>8. Bytes(h, e + RecHdr, s) = ns
  <2>1. /\ 0 \in Nat /\ e + 5 + 0 + Len(ns) < Size /\ e + 5 + 0 = e + RecHdr
        /\ \A i \in 1 .. Len(ns) : Rd(h, e + 5 + 0 + i - 1) = ns[i]
    BY <1>1, <1>2, <1>4 DEF RecHdr
  <2>2. Bytes(h, e + 5 + 0, Len(ns)) = ns
    BY <1>7, <2>1
  <2> QED
    BY <1>4, <2>1, <2>2
<1>9. Bytes(h, e + RecHdr + s, t) = key
  <2>1. /\ s \in Nat /\ e + 5 + s + Len(key) < Size /\ e + 5 + s = e + RecHdr + s
        /\ \A i \in 1 .. Len(key) : Rd(h, e + 5 + s + i - 1) = key[i]
    BY <1>1, <1>2, <1>4 DEF RecHdr
  <2>2. Bytes(h, e + 5 + s, Len(key)) = key
    BY <1>7, <2>1
  <2> QED
    BY <1>4, <2>1, <2>2
<1>10. Bytes(h, DataOff(h, e), n) = v.data
  <2> DEFINE a == s + t
  <2>1. /\ a \in Nat /\ e + 5 + a + Len(v.data) < Size /\ e + 5 + a = e + 5 + s + t
        /\ \A i \in 1 .. Len(v.data) : Rd(h, e + 5 + a + i - 1) = v.data[i]
    <3>1. \A i \in 1 .. n : e + 5 + s + t + i - 1 = e + 5 + a + i - 1
      BY <1>1, <1>2
    <3> QED
      BY <1>1, <1>2, <1>4, <3>1
  <2> HIDE DEF a
  <2>2. Bytes(h, e + 5 + a, Len(v.data)) = v.data
    BY <1>3, <1>7, <2>1
  <2> QED
    BY <1>4, <1>5, <2>1, <2>2
<1>11. Matches(h, e, ns, key)
  BY <1>1, <1>4, <1>8, <1>9 DEF Matches, MatchesSpace
<1>12. Value(h)[e] = v
  <2>1. e \in 0 .. Size
    BY <1>1, <1>2
  <2> QED
    BY <1>1, <1>3, <1>10, <2>1 DEF Value
<1>13. e + Total(h, e) < Size /\ Rd(h, e + Total(h, e)) = 0
  <2>1. e + (5 + s + t + n) = e + 5 + s + t + n
    BY <1>1, <1>2
  <2> QED
    BY <1>1, <1>5, <2>1
<1> QED
  BY <1>6, <1>11, <1>12, <1>13 DEF h, e

LEMMA AppendedWalk ==
  ASSUME NEW g \in Region, NEW ns, NEW key, NEW v, Room(g, ns, key, v)
  PROVE  Adds(g, Appended(g, ns, key, v), EndOffset(g))
<1> DEFINE e == EndOffset(g)  h == Appended(g, ns, key, v)  O == Looks(g)
           z == e + Total(h, e)  P == O \cup {z}
<1>1. /\ h \in Region
      /\ \A k \in 0 .. Size - 1 : k < e => Rd(h, k) = Rd(g, k)
  BY AppendedAt
<1>2. Here(h, e) /\ z < Size /\ Rd(h, z) = 0
  BY AppendedRecord
<1>3. /\ e \in Header .. Size /\ e \in O /\ O = Walk(g) \cup {e} /\ ~Here(g, e)
      /\ \A o \in Walk(g) : /\ o \in Header .. Size /\ o \in Nat /\ Here(g, o)
                            /\ Total(g, o) \in Nat /\ Total(g, o) >= 5
                            /\ o + Total(g, o) <= e /\ o + Total(g, o) \in O /\ o < e
  BY WalkFacts
<1>4. Chain(g, O)
  BY LooksChain
<1> HIDE DEF h, O, e
<1>5. e \in Nat /\ e >= 1 /\ e <= Size /\ Size \in Nat /\ Header .. Size \subseteq 0 .. Size
  BY <1>3, Sizes
<1>6. z \in Nat /\ z > e
  <2>1. e \in 0 .. Size
    BY <1>5
  <2>2. z \in 0 .. Size /\ z >= e + 5
    BY <1>1, <1>2, <2>1, HereInside
  <2> QED
    BY <1>5, <2>2
<1> HIDE DEF z
<1>7. ~Here(h, z)
  BY <1>2 DEF Here, NsLen
<1>8. ASSUME NEW o \in Walk(g)  PROVE Alike(g, o, h, o)
  <2> DEFINE t == Total(g, o)
  <2>1. t \in Nat /\ o + t <= e /\ o \in Nat
    BY <1>3
  <2>2. Total(g, o) = t
    OBVIOUS
  <2> HIDE DEF t
  <2>3. \A k \in 0 .. t - 1 : Rd(g, o + k) = Rd(h, o + k)
    <3> TAKE k \in 0 .. t - 1
    <3>1. o + k \in 0 .. Size - 1 /\ o + k < e
      BY <1>5, <2>1
    <3> QED
      BY <1>1, <3>1
  <2>4. o + t <= Size
    BY <1>5, <2>1
  <2> QED
    BY <2>2, <2>3, <2>4 DEF Alike
<1>9. ASSUME NEW o \in Walk(g)  PROVE Here(h, o) /\ Total(h, o) = Total(g, o)
  <2>1. o \in 0 .. Size /\ Here(g, o) /\ Alike(g, o, h, o)
    BY <1>3, <1>5, <1>8
  <2> QED
    BY <1>1, <2>1, AlikeRecords
<1>10. Chain(h, P)
  <2>0. /\ O \subseteq Header .. Size /\ Header \in O
        /\ \A o \in O : o # Header => \E p \in O : Here(g, p) /\ o = p + Total(g, p)
    BY <1>4 DEF Chain
  <2>1. P \subseteq Header .. Size /\ Header \in P
    <3>1. z \in Header .. Size
      BY <1>2, <1>5, <1>6, Sizes
    <3> QED
      BY <2>0, <3>1
  <2>2. \A o \in P : Here(h, o) => o + Total(h, o) \in P
    <3>1. e + Total(h, e) = z
      BY DEF z
    <3>2. \A o \in Walk(g) : o + Total(h, o) \in O
      BY <1>3, <1>9
    <3> HIDE DEF P
    <3>3. O \subseteq P /\ z \in P /\ \A o \in P : o \in Walk(g) \/ o = e \/ o = z
      BY <1>3 DEF P
    <3> QED
      BY <1>7, <3>1, <3>2, <3>3
  <2>3. \A o \in P : o # Header => \E p \in P : Here(h, p) /\ o = p + Total(h, p)
    <3> TAKE o \in P
    <3> HAVE o # Header
    <3>1. CASE o = z
      BY <1>2, <1>3, <3>1 DEF z
    <3>2. CASE o # z
      <4>1. o \in O
        BY <3>2
      <4>2. PICK p \in O : Here(g, p) /\ o = p + Total(g, p)
        BY <2>0, <4>1
      <4>3. p \in Walk(g)
        BY <4>2 DEF Walk, O
      <4> QED
        BY <1>9, <4>2, <4>3
    <3> QED
      BY <3>1, <3>2
  <2> QED
    BY <2>1, <2>2, <2>3 DEF Chain
<1>11. EndOffset(h) = z /\ Walk(h) = P \ {z}
  <2>1. z \in P
    OBVIOUS
  <2> HIDE DEF P
  <2> QED
    BY <1>1, <1>7, <1>10, <2>1, ChainEnds
<1>12. Walk(h) = Walk(g) \cup {e} /\ e \notin Walk(g)
  <2>1. z \notin O /\ e \notin Walk(g)
    <3>1. \A o \in O : o \in Nat /\ o <= e
      BY <1>3, <1>5
    <3> QED
      BY <1>3, <1>5, <1>6, <3>1
  <2> QED
    BY <1>3, <1>11, <2>1
<1>13. Moved(g, Walk(g), h, Walk(h) \ {e})
  <2> DEFINE A == Walk(g)  f == [o \in A |-> o]
  <2>1. f \in [A -> A] /\ \A o \in A : f[o] = o
    OBVIOUS
  <2> HIDE DEF f
  <2>2. \A p \in A : \E o \in A : p = f[o]
    BY <2>1
  <2>3. \A o \in A : Alike(g, o, h, f[o])
    BY <1>8, <2>1
  <2>4. Walk(h) \ {e} = A
    BY <1>12
  <2> HIDE DEF A
  <2> QED
    BY <2>1, <2>2, <2>3, <2>4 DEF Moved, A
<1>14. Formatted(g) => Formatted(h)
  <2>1. 0 \in 0 .. Size - 1 /\ 0 < e
    BY <1>5, Sizes
  <2>2. Rd(h, 0) = Rd(g, 0)
    BY <1>1, <2>1
  <2> QED
    BY <2>2 DEF Formatted
<1>15. Terminated(h)
  BY <1>2, <1>11 DEF Terminated
<1> QED
  BY <1>1, <1>12, <1>13, <1>14, <1>15 DEF h, e, Adds

\* A name that had no record has the value given; the others keep theirs.
LEMMA AppendedNames ==
  ASSUME NEW g \in Region, Formatted(g), Unique(g), NEW n \in Names, NEW v \in Contents,
         Fits(g, n[1], n[2], v), \A o \in Walk(g) : ~Matches(g, o, n[1], n[2])
  PROVE  LET h == Appended(g, n[1], n[2], v)
         IN /\ h \in Region /\ Formatted(h) /\ Terminated(h) /\ Unique(h) /\ Get(h)[n] = v
            /\ \A m \in Names \ {n} : Get(h)[m] = Get(g)[m]
<1> DEFINE h == Appended(g, n[1], n[2], v)  e == EndOffset(g)
<1>1. Room(g, n[1], n[2], v)
  BY NameParts, PrefsAssumption DEF Room
<1>2. Adds(g, h, e)
  BY <1>1, AppendedWalk
<1>3. /\ h \in Region /\ Formatted(h) /\ Terminated(h)
      /\ Walk(h) = Walk(g) \cup {e} /\ e \notin Walk(g)
      /\ Moved(g, Walk(g), h, Walk(h) \ {e})
  BY <1>2 DEF Adds
<1>4. Matches(h, e, n[1], n[2]) /\ Value(h)[e] = v
  BY <1>1, AppendedRecord
<1> HIDE DEF h, e
<1> DEFINE B == Walk(h) \ {e}
<1>5. B \in SUBSET Walk(h) /\ Walk(g) \in SUBSET Walk(g) /\ e \in Walk(h)
  BY <1>3
<1>6. \A p, q \in B : Name(h, p) = Name(h, q) => p = q
  BY <1>3, <1>5, MovedUnique
<1>7. ASSUME NEW p \in B  PROVE Name(h, p) # Name(h, e)
  <2> SUFFICES ASSUME Name(h, p) = Name(h, e)  PROVE FALSE
    OBVIOUS
  <2>1. Name(h, e) = <<Len(n[1]), n[1] \o n[2]>>
    BY <1>3, <1>4, <1>5, NamedFor
  <2>2. Matches(h, p, n[1], n[2])
    BY <1>3, <1>5, <2>1, NamedFor
  <2>3. PICK m \in [Walk(g) -> B] : /\ \A q \in B : \E o \in Walk(g) : q = m[o]
                                    /\ \A o \in Walk(g) : Alike(g, o, h, m[o])
    BY <1>3 DEF Moved
  <2>4. PICK o \in Walk(g) : p = m[o]
    BY <2>3
  <2>5. Alike(g, o, h, p) /\ p \in Walk(h)
    BY <2>3, <2>4
  <2>6. Matches(g, o, n[1], n[2])
    BY <1>3, <2>2, <2>5, AlikeOffsets
  <2> QED
    BY <2>6
<1>8. Unique(h)
  <2>1. \A p \in Walk(h) : p \in B \/ p = e
    OBVIOUS
  <2> HIDE DEF B
  <2> QED
    BY <1>6, <1>7, <2>1 DEF Unique
<1>9. Get(h)[n] = v
  BY <1>3, <1>4, <1>5, <1>8, Hit
<1>10. ASSUME NEW m \in Names \ {n}  PROVE Get(h)[m] = Get(g)[m]
  <2>1. ~Matches(h, e, m[1], m[2])
    <3> SUFFICES ASSUME Matches(h, e, m[1], m[2])  PROVE FALSE
      OBVIOUS
    <3>1. m[1] = n[1] /\ m[2] = n[2]
      BY <1>4 DEF Matches, MatchesSpace
    <3>2. m = <<m[1], m[2]>> /\ n = <<n[1], n[2]>>
      BY DEF Names
    <3> QED
      BY <3>1, <3>2
  <2>2. \A o \in Walk(g) \ Walk(g) : ~Matches(g, o, m[1], m[2])
    OBVIOUS
  <2>3. \A o \in Walk(h) \ B : ~Matches(h, o, m[1], m[2])
    BY <2>1
  <2>4. m \in Names
    OBVIOUS
  <2> HIDE DEF B
  <2> QED
    BY <1>3, <1>5, <1>8, <2>2, <2>3, <2>4, MovedGet DEF B
<1> QED
  BY <1>3, <1>8, <1>9, <1>10 DEF h

\* A value of the same shape, written where the old one lies.
LEMMA OverwrittenNames ==
  ASSUME NEW g \in Region, Formatted(g), Terminated(g), Unique(g), NEW n \in Names,
         NEW v \in Contents, NEW x \in Walk(g), Matches(g, x, n[1], n[2]), SameShape(g, x, v)
  PROVE  LET h == Wr(g, DataOff(g, x), v.data)
         IN /\ h \in Region /\ Formatted(h) /\ Terminated(h) /\ Unique(h) /\ Get(h)[n] = v
            /\ \A m \in Names \ {n} : Get(h)[m] = Get(g)[m]
<1> DEFINE h == Wr(g, DataOff(g, x), v.data)  A == Walk(g) \ {x}  B == Walk(h) \ {x}
<1>1. v \in [type : Byte, data : Seq(Byte)] /\ v.data \in Seq(Byte)
  BY PrefsAssumption
<1>2. Len(v.data) = DataLen(g, x) /\ v.type = Type(g, x) /\ v = [type |-> v.type, data |-> v.data]
  <2>1. Len(v.data) = DataLen(g, x) /\ v.type = Type(g, x)
    BY DEF SameShape
  <2> QED
    BY <1>1, <2>1
<1>3. /\ h \in Region /\ Formatted(h) /\ Terminated(h)
      /\ Walk(h) = Walk(g) /\ HeadAlike(g, x, h, x)
      /\ Value(h)[x] = [type |-> Type(g, x), data |-> v.data]
      /\ Moved(g, A, h, B)
  BY <1>1, <1>2, Overwritten
<1> HIDE DEF h
<1>4. x \in Nat
  BY WalkFacts
<1>5. /\ Name(g, x) = Name(h, x)
      /\ \A m \in Names : Matches(g, x, m[1], m[2]) <=> Matches(h, x, m[1], m[2])
  BY <1>3, <1>4, HeadNames, NameParts
<1>6. A \in SUBSET Walk(g) /\ B \in SUBSET Walk(h) /\ x \in Walk(h)
  BY <1>3
<1>7. \A p, q \in B : Name(h, p) = Name(h, q) => p = q
  BY <1>3, <1>6, MovedUnique
<1>8. ASSUME NEW p \in B  PROVE Name(h, p) # Name(h, x)
  <2> SUFFICES ASSUME Name(h, p) = Name(h, x)  PROVE FALSE
    OBVIOUS
  <2>1. PICK m \in [A -> B] : /\ \A q \in B : \E o \in A : q = m[o]
                              /\ \A o \in A : Alike(g, o, h, m[o])
    BY <1>3 DEF Moved
  <2>2. PICK o \in A : p = m[o]
    BY <2>1
  <2>3. Alike(g, o, h, p) /\ p \in Walk(h) /\ o \in Walk(g) /\ o # x
    BY <2>1, <2>2
  <2>4. Name(g, o) = Name(h, p)
    BY <1>3, <2>3, AlikeOffsets
  <2> QED
    BY <1>5, <2>3, <2>4 DEF Unique
<1>9. Unique(h)
  <2>1. \A p \in Walk(h) : p \in B \/ p = x
    OBVIOUS
  <2> HIDE DEF B
  <2> QED
    BY <1>7, <1>8, <2>1 DEF Unique
<1>10. Get(h)[n] = v
  <2>1. Get(h)[n] = Value(h)[x]
    BY <1>3, <1>5, <1>6, <1>9, Hit
  <2> QED
    BY <1>2, <1>3, <2>1
<1>11. ASSUME NEW m \in Names \ {n}  PROVE Get(h)[m] = Get(g)[m]
  <2>1. ~Matches(g, x, m[1], m[2])
    <3> SUFFICES ASSUME Matches(g, x, m[1], m[2])  PROVE FALSE
      OBVIOUS
    <3>1. m[1] = n[1] /\ m[2] = n[2]
      BY DEF Matches, MatchesSpace
    <3>2. m = <<m[1], m[2]>> /\ n = <<n[1], n[2]>>
      BY DEF Names
    <3> QED
      BY <3>1, <3>2
  <2>2. ~Matches(h, x, m[1], m[2])
    BY <1>5, <2>1
  <2>3. \A o \in Walk(g) \ A : ~Matches(g, o, m[1], m[2])
    BY <2>1
  <2>4. \A o \in Walk(h) \ B : ~Matches(h, o, m[1], m[2])
    BY <2>2
  <2>5. m \in Names
    OBVIOUS
  <2> HIDE DEF A, B
  <2> QED
    BY <1>3, <1>6, <1>9, <2>3, <2>4, <2>5, MovedGet
<1> QED
  BY <1>3, <1>9, <1>10, <1>11 DEF h

\* ensureFormatted(): an empty list (Preferences.cpp:61).
LEMMA LaidOut ==
  ASSUME NEW g \in Region
  PROVE  LET h == Wr(g, 0, <<Magic, 0>>)
         IN /\ h \in Region /\ Formatted(h) /\ Terminated(h) /\ Unique(h)
            /\ \A n \in Names : Get(h)[n] = Absent
<1> DEFINE z == <<Magic, 0>>  h == Wr(g, 0, z)
<1>0. Size \in Nat /\ Size > 1 /\ Header = 1
  BY Sizes
<1>1. z \in Seq(Byte) /\ Len(z) = 2 /\ z[1] = Magic /\ z[2] = 0
  <2>1. Magic \in Byte /\ 0 \in Byte
    BY DEF Magic, Byte
  <2> QED
    BY <2>1
<1> HIDE DEF z
<1>2. /\ h \in Region
      /\ \A k \in 0 .. Size - 1 :
           Rd(h, k) = IF 0 <= k /\ k < 0 + Len(z) THEN z[k - 0 + 1] ELSE Rd(g, k)
  <2>1. 0 \in Nat /\ 0 + Len(z) <= Size
    BY <1>0, <1>1
  <2> QED
    BY <1>1, <2>1, WrAt
<1> HIDE DEF h
<1>3. Rd(h, 0) = Magic /\ Rd(h, 1) = 0
  <2>1. /\ 0 \in 0 .. Size - 1 /\ 1 \in 0 .. Size - 1 /\ 0 - 0 + 1 = 1 /\ 1 - 0 + 1 = 2
        /\ 0 < 0 + Len(z) /\ 1 < 0 + Len(z)
    BY <1>0, <1>1
  <2>2. Rd(h, 0) = z[0 - 0 + 1]
    BY <1>2, <2>1
  <2>3. Rd(h, 1) = z[1 - 0 + 1]
    BY <1>2, <2>1
  <2> QED
    BY <1>1, <2>1, <2>2, <2>3
<1>4. ~Here(h, Header)
  BY <1>0, <1>3 DEF Here, NsLen
<1>5. Chain(h, {Header})
  <2>1. Header \in Header .. Size
    BY <1>0
  <2> QED
    BY <1>4, <2>1 DEF Chain
<1>6. EndOffset(h) = Header /\ Walk(h) = {}
  <2>1. /\ EndOffset(h) \in {Header} /\ Walk(h) = {Header} \ {EndOffset(h)}
    BY <1>2, <1>5, ChainEnds
  <2> QED
    BY <2>1
<1>7. \A n \in Names : Get(h)[n] = Absent
  BY <1>2, <1>6, Miss
<1>8. Formatted(h) /\ Terminated(h) /\ Unique(h)
  BY <1>0, <1>3, <1>6 DEF Formatted, Terminated, Unique
<1> QED
  BY <1>2, <1>7, <1>8 DEF h, z

---------------------------------------------------------------------------
(* Clearing a namespace, splice by splice.                                 *)

\* The values of a loop: before it and after each pass.
Run(X, base, n, step, f) ==
  f \in [0 .. n -> X] /\ f[0] = base /\ \A i \in 1 .. n : f[i] = step[f[i - 1]]

\* A loop whose body is a function has a run.
LEMMA Rounds ==
  ASSUME NEW X, NEW base \in X, NEW n \in Nat, NEW step \in [X -> X]
  PROVE  \E f : Run(X, base, n, step, f)
<1> DEFINE T == {k \in 0 .. n : \E f \in [0 .. k -> X] :
                   f[0] = base /\ \A i \in 1 .. k : f[i] = step[f[i - 1]]}
<1>1. 0 \in T
  <2> DEFINE f == [i \in 0 .. 0 |-> base]
  <2>1. f \in [0 .. 0 -> X] /\ f[0] = base
    OBVIOUS
  <2>2. \A i \in 1 .. 0 : FALSE
    OBVIOUS
  <2> HIDE DEF f
  <2> QED
    BY <2>1, <2>2
<1>2. ASSUME NEW k \in 1 .. n, k - 1 \in T  PROVE k \in T
  <2>1. PICK f \in [0 .. k - 1 -> X] : f[0] = base /\ \A i \in 1 .. k - 1 : f[i] = step[f[i - 1]]
    BY <1>2
  <2> DEFINE g == [i \in 0 .. k |-> IF i < k THEN f[i] ELSE step[f[k - 1]]]
  <2>2. k - 1 \in 0 .. k - 1 /\ f[k - 1] \in X /\ step[f[k - 1]] \in X
    BY <2>1
  <2>3. \A i \in 0 .. k : i < k => i \in 0 .. k - 1
    OBVIOUS
  <2>4. g \in [0 .. k -> X] /\ g[0] = base
    BY <2>1, <2>2, <2>3
  <2>5. ASSUME NEW i \in 1 .. k  PROVE g[i] = step[g[i - 1]]
    <3>1. i - 1 \in 0 .. k /\ i - 1 < k /\ i \in 0 .. k /\ g[i - 1] = f[i - 1]
      OBVIOUS
    <3>2. CASE i < k
      <4>1. i \in 1 .. k - 1 /\ g[i] = f[i]
        BY <3>1, <3>2
      <4> QED
        BY <2>1, <3>1, <4>1
    <3>3. CASE i = k
      BY <3>1, <3>3
    <3> QED
      BY <3>2, <3>3
  <2> HIDE DEF g
  <2> QED
    BY <2>4, <2>5
<1> HIDE DEF T
<1>3. T \in SUBSET (0 .. n)
  BY DEF T
<1>4. n \in T
  BY <1>1, <1>2, <1>3, Climb
<1> QED
  BY <1>4 DEF T, Run

LEMMA FirstIn ==
  ASSUME NEW T \in SUBSET Nat, T # {}
  PROVE  First(T) \in T
<1>1. PICK m \in T : \A k \in T : ~(k < m)
  BY Least
<1>2. \A k \in T : m <= k
  BY <1>1
<1> QED
  BY <1>2 DEF First

\* One pass of the loop in clear().
Round(g, ns) == IF Owned(g, ns) = {} THEN g ELSE SpliceOut(g, First(Owned(g, ns)))

LEMMA OwnedFirst ==
  ASSUME NEW g \in Region, NEW ns, Owned(g, ns) # {}
  PROVE  First(Owned(g, ns)) \in Walk(g) /\ MatchesSpace(g, First(Owned(g, ns)), ns)
<1>1. Owned(g, ns) \in SUBSET Nat
  BY WalkFacts DEF Owned
<1>2. First(Owned(g, ns)) \in Owned(g, ns)
  BY <1>1, FirstIn
<1> QED
  BY <1>2 DEF Owned

LEMMA RoundIn ==
  ASSUME NEW g \in Region, NEW ns
  PROVE  Round(g, ns) \in Region
<1>1. CASE Owned(g, ns) = {}
  BY <1>1 DEF Round
<1>2. CASE Owned(g, ns) # {}
  <2>1. First(Owned(g, ns)) \in Walk(g)
    BY <1>2, OwnedFirst
  <2> QED
    BY <1>2, <2>1, Spliced DEF Round
<1> QED
  BY <1>1, <1>2

\* clear(): the region after each pass (Preferences.cpp:195).
LEMMA ClearRun ==
  ASSUME NEW g \in Region, NEW ns
  PROVE  /\ Most \in Nat
         /\ \E h \in [0 .. Most -> Region] :
              /\ h[0] = g /\ Cleared(g, ns) = h[Most]
              /\ \A i \in 1 .. Most : h[i] = Round(h[i - 1], ns)
<1>0. Most \in Nat
  BY Sizes DEF Most
<1> DEFINE step == [x \in Region |-> Round(x, ns)]
<1>1. step \in [Region -> Region]
  BY RoundIn
<1>2. \A x \in Region : step[x] = Round(x, ns)
  OBVIOUS
<1> HIDE DEF step
<1>3. PICK f \in [0 .. Most -> Region] : f[0] = g /\ \A i \in 1 .. Most : f[i] = step[f[i - 1]]
  <2>1. PICK f : Run(Region, g, Most, step, f)
    BY <1>0, <1>1, Rounds
  <2> QED
    BY <2>1 DEF Run
<1>4. ASSUME NEW i \in 1 .. Most  PROVE f[i] = Round(f[i - 1], ns)
  <2>1. i - 1 \in 0 .. Most
    BY <1>0
  <2> QED
    BY <1>2, <1>3, <2>1
<1> DEFINE Eq(w) ==
      w = [i \in 0 .. Most |->
             IF i = 0 THEN g
             ELSE LET b == w[i - 1]
                  IN IF Owned(b, ns) = {} THEN b ELSE SpliceOut(b, First(Owned(b, ns)))]
<1>5. Eq(f)
  <2>1. \A i \in 0 .. Most : i # 0 => i \in 1 .. Most
    BY <1>0
  <2>2. f = [i \in 0 .. Most |-> IF i = 0 THEN g ELSE Round(f[i - 1], ns)]
    BY <1>3, <1>4, <2>1
  <2> QED
    BY <2>2 DEF Round
<1> DEFINE w == CHOOSE w : Eq(w)
<1>6. Eq(w)
  BY <1>5
<1>7. Cleared(g, ns) = w[Most]
  BY DEF Cleared
<1> HIDE DEF w
<1>8. w = [i \in 0 .. Most |-> IF i = 0 THEN g ELSE Round(w[i - 1], ns)]
  BY <1>6 DEF Round
<1>9. w[0] = g /\ \A i \in 1 .. Most : w[i] = Round(w[i - 1], ns)
  <2>1. 0 \in 0 .. Most /\ \A i \in 1 .. Most : i \in 0 .. Most /\ i # 0
    BY <1>0
  <2> QED
    BY <1>8, <2>1
<1> DEFINE T == {i \in 0 .. Most : w[i] \in Region}
<1>10. T = 0 .. Most
  <2>1. 0 \in T /\ T \in SUBSET (0 .. Most)
    BY <1>0, <1>9
  <2>2. ASSUME NEW i \in 1 .. Most, i - 1 \in T  PROVE i \in T
    BY <1>0, <1>9, <2>2, RoundIn
  <2> HIDE DEF T
  <2> QED
    BY <1>0, <2>1, <2>2, Climb
<1>11. w \in [0 .. Most -> Region]
  BY <1>8, <1>10
<1> QED
  BY <1>0, <1>7, <1>9, <1>11

LEMMA RoundNames ==
  ASSUME NEW g \in Region, Formatted(g), Terminated(g), Unique(g), NEW ns \in Spaces
  PROVE  /\ Round(g, ns) \in Region /\ Formatted(Round(g, ns)) /\ Terminated(Round(g, ns))
         /\ Unique(Round(g, ns))
         /\ Owned(g, ns) = {} => Round(g, ns) = g
         /\ Owned(g, ns) # {} => EndOffset(Round(g, ns)) + 5 <= EndOffset(g)
         /\ \A n \in Names : n[1] # ns => Get(Round(g, ns))[n] = Get(g)[n]
<1>1. CASE Owned(g, ns) = {}
  <2>1. Round(g, ns) = g
    BY <1>1 DEF Round
  <2> QED
    BY <1>1, <2>1
<1>2. CASE Owned(g, ns) # {}
  <2> DEFINE x == First(Owned(g, ns))
  <2>1. x \in Walk(g) /\ MatchesSpace(g, x, ns)
    BY <1>2, OwnedFirst
  <2>2. Round(g, ns) = SpliceOut(g, x)
    BY <1>2 DEF Round
  <2> HIDE DEF x
  <2>3. /\ Round(g, ns) \in Region /\ Formatted(Round(g, ns)) /\ Terminated(Round(g, ns))
        /\ EndOffset(Round(g, ns)) + Total(g, x) = EndOffset(g)
    BY <2>1, <2>2, Spliced
  <2>4. EndOffset(Round(g, ns)) + 5 <= EndOffset(g)
    <3>1. EndOffset(Round(g, ns)) \in Header .. Size /\ Total(g, x) \in Nat /\ Total(g, x) >= 5
      BY <2>1, <2>3, WalkFacts
    <3>2. EndOffset(Round(g, ns)) \in Nat
      BY <3>1, Sizes
    <3> QED
      BY <2>3, <3>1, <3>2
  <2>5. ASSUME NEW n \in Names, n[1] # ns  PROVE ~Matches(g, x, n[1], n[2])
    BY <2>1, <2>5 DEF Matches, MatchesSpace
  <2>6. Unique(Round(g, ns)) /\ \A n \in Names : n[1] # ns => Get(Round(g, ns))[n] = Get(g)[n]
    BY <2>1, <2>2, <2>5, SplicedNames
  <2> QED
    BY <1>2, <2>3, <2>4, <2>6
<1> QED
  BY <1>1, <1>2

\* clear(): the namespace is gone, and only it (Preferences.cpp:195).
LEMMA ClearedNames ==
  ASSUME NEW g \in Region, Formatted(g), Terminated(g), Unique(g), NEW ns \in Spaces
  PROVE  LET h == Cleared(g, ns)
         IN /\ h \in Region /\ Formatted(h) /\ Terminated(h) /\ Unique(h)
            /\ \A n \in Names : Get(h)[n] = IF n[1] = ns THEN Absent ELSE Get(g)[n]
<1>0. Most \in Nat /\ 5 * Most > Size - 5 /\ Size \in Nat
  BY Sizes DEF Most
<1>1. PICK h \in [0 .. Most -> Region] :
        /\ h[0] = g /\ Cleared(g, ns) = h[Most]
        /\ \A i \in 1 .. Most : h[i] = Round(h[i - 1], ns)
  BY ClearRun
<1> DEFINE Sofar(i, b) ==
      /\ b \in Region /\ Formatted(b) /\ Terminated(b) /\ Unique(b)
      /\ \/ Owned(b, ns) = {}
         \/ EndOffset(b) + 5 * i <= EndOffset(g)
      /\ \A n \in Names : n[1] # ns => Get(b)[n] = Get(g)[n]
    T == {i \in 0 .. Most : Sofar(i, h[i])}
<1>2. Sofar(0, g)
  <2>1. EndOffset(g) \in Nat
    BY WalkFacts, Sizes
  <2> QED
    BY <2>1
<1>3. ASSUME NEW i \in 1 .. Most, NEW b \in Region, Sofar(i - 1, b)  PROVE Sofar(i, Round(b, ns))
  <2>1. /\ Round(b, ns) \in Region /\ Formatted(Round(b, ns)) /\ Terminated(Round(b, ns))
        /\ Unique(Round(b, ns))
        /\ Owned(b, ns) = {} => Round(b, ns) = b
        /\ Owned(b, ns) # {} => EndOffset(Round(b, ns)) + 5 <= EndOffset(b)
        /\ \A n \in Names : n[1] # ns => Get(Round(b, ns))[n] = Get(b)[n]
    BY <1>3, RoundNames
  <2>2. Owned(Round(b, ns), ns) = {} \/ EndOffset(Round(b, ns)) + 5 * i <= EndOffset(g)
    <3>1. CASE Owned(b, ns) = {}
      BY <2>1, <3>1
    <3>2. CASE Owned(b, ns) # {}
      <4>1. EndOffset(Round(b, ns)) \in Nat /\ EndOffset(b) \in Nat /\ EndOffset(g) \in Nat
        BY <2>1, WalkFacts, Sizes
      <4>2. /\ EndOffset(Round(b, ns)) + 5 <= EndOffset(b)
            /\ EndOffset(b) + 5 * (i - 1) <= EndOffset(g)
        BY <1>3, <2>1, <3>2
      <4> QED
        BY <4>1, <4>2
    <3> QED
      BY <3>1, <3>2
  <2>3. \A n \in Names : n[1] # ns => Get(Round(b, ns))[n] = Get(g)[n]
    BY <1>3, <2>1
  <2> QED
    BY <2>1, <2>2, <2>3
<1> HIDE DEF Sofar
<1>4. T = 0 .. Most
  <2>1. 0 \in T /\ T \in SUBSET (0 .. Most)
    BY <1>0, <1>1, <1>2
  <2>2. ASSUME NEW i \in 1 .. Most, i - 1 \in T  PROVE i \in T
    <3>1. i \in 0 .. Most /\ i - 1 \in 0 .. Most /\ h[i - 1] \in Region /\ Sofar(i - 1, h[i - 1])
      BY <1>0, <1>1, <2>2
    <3>2. Sofar(i, Round(h[i - 1], ns))
      BY <1>3, <3>1
    <3> QED
      BY <1>1, <3>1, <3>2
  <2> HIDE DEF T
  <2> QED
    BY <1>0, <2>1, <2>2, Climb
<1> DEFINE b == h[Most]
<1>5. Sofar(Most, b)
  BY <1>0, <1>4
<1>6. b = Cleared(g, ns)
  BY <1>1
<1> HIDE DEF b, T
<1>7. Owned(b, ns) = {}
  <2> SUFFICES ASSUME Owned(b, ns) # {}  PROVE FALSE
    OBVIOUS
  <2>1. b \in Region /\ EndOffset(b) + 5 * Most <= EndOffset(g)
    BY <1>5 DEF Sofar
  <2>2. PICK x \in Walk(b) : TRUE
    BY DEF Owned
  <2>3. x \in Header .. Size /\ Total(b, x) \in Nat /\ Total(b, x) >= 5 /\ x + Total(b, x) <= EndOffset(b)
    BY <2>1, <2>2, WalkFacts
  <2>4. EndOffset(b) \in Nat /\ EndOffset(g) \in Nat /\ EndOffset(g) < Size
    BY <2>1, WalkFacts, Sizes DEF Terminated
  <2>5. x \in Nat /\ x >= 1
    BY <2>3, Sizes
  <2>6. EndOffset(b) >= 6
    BY <2>3, <2>4, <2>5
  <2> QED
    BY <1>0, <2>1, <2>4, <2>6
<1>8. ASSUME NEW n \in Names  PROVE Get(b)[n] = IF n[1] = ns THEN Absent ELSE Get(g)[n]
  <2>1. CASE n[1] = ns
    <3>1. \A o \in Walk(b) : ~Matches(b, o, n[1], n[2])
      BY <1>7, <2>1 DEF Owned, Matches
    <3>2. b \in Region
      BY <1>5 DEF Sofar
    <3>3. Get(b)[n] = Absent
      BY <3>1, <3>2, Miss
    <3> QED
      BY <2>1, <3>3
  <2>2. CASE n[1] # ns
    BY <1>5, <2>2 DEF Sofar
  <2> QED
    BY <2>1, <2>2
<1> QED
  BY <1>5, <1>6, <1>8 DEF Sofar

---------------------------------------------------------------------------
(* The operations on a region that is laid out.                            *)

Good(g) == g \in Region /\ Formatted(g) /\ Terminated(g) /\ Unique(g)

\* The record a name is found by, if there is one.
LEMMA Found ==
  ASSUME NEW g \in Region, NEW n \in Names, Find(g, n[1], n[2]) # {}
  PROVE  LET x == First(Find(g, n[1], n[2]))
         IN /\ x \in Walk(g) /\ Matches(g, x, n[1], n[2])
            /\ \A m \in Names \ {n} : ~Matches(g, x, m[1], m[2])
<1> DEFINE hit == Find(g, n[1], n[2])  x == First(hit)
<1>1. x \in hit
  <2>1. hit \in SUBSET Nat
    BY WalkFacts DEF Find
  <2> QED
    BY <2>1, FirstIn
<1> HIDE DEF x
<1>2. x \in Walk(g) /\ Matches(g, x, n[1], n[2])
  BY <1>1 DEF Find
<1>3. ASSUME NEW m \in Names \ {n}, Matches(g, x, m[1], m[2])  PROVE FALSE
  <2>1. m[1] = n[1] /\ m[2] = n[2]
    BY <1>2, <1>3 DEF Matches, MatchesSpace
  <2>2. m = <<m[1], m[2]>> /\ n = <<n[1], n[2]>>
    BY DEF Names
  <2> QED
    BY <2>1, <2>2
<1> QED
  BY <1>2, <1>3 DEF x

\* A name that is found has a value.
LEMMA FoundValue ==
  ASSUME NEW g, Good(g), NEW n \in Names
  PROVE  Find(g, n[1], n[2]) = {} <=> Get(g)[n] = Absent
<1>0. g \in Region
  BY DEF Good
<1>1. CASE Find(g, n[1], n[2]) = {}
  BY <1>1 DEF Get
<1>2. CASE Find(g, n[1], n[2]) # {}
  <2>1. PICK x \in Walk(g) : Matches(g, x, n[1], n[2])
    BY <1>2 DEF Find
  <2>2. Get(g)[n] = Value(g)[x]
    BY <2>1, Hit DEF Good
  <2>3. x \in 0 .. Size /\ x \in Nat
    BY <1>0, WalkFacts, Sizes
  <2>4. Value(g)[x].type = Type(g, x)
    BY <2>3 DEF Value
  <2>5. Type(g, x) \in Byte /\ Absent.type = -1
    <3>1. x + 2 \in Nat
      BY <2>3
    <3> QED
      BY <1>0, <3>1, RdByte DEF Type, Absent
  <2> QED
    BY <1>2, <2>2, <2>4, <2>5 DEF Byte
<1> QED
  BY <1>1, <1>2

\* The region a record of that name was spliced out of, if it had one.
Without(g, n) ==
  IF Find(g, n[1], n[2]) = {} THEN g ELSE SpliceOut(g, First(Find(g, n[1], n[2])))

LEMMA WithoutName ==
  ASSUME NEW g, Good(g), NEW n \in Names
  PROVE  /\ Good(Without(g, n)) /\ Get(Without(g, n))[n] = Absent
         /\ \A m \in Names \ {n} : Get(Without(g, n))[m] = Get(g)[m]
         /\ \A o \in Walk(Without(g, n)) : ~Matches(Without(g, n), o, n[1], n[2])
<1>0. g \in Region
  BY DEF Good
<1>1. CASE Find(g, n[1], n[2]) = {}
  <2>1. Without(g, n) = g /\ \A o \in Walk(g) : ~Matches(g, o, n[1], n[2])
    BY <1>1 DEF Without, Find
  <2> QED
    BY <1>0, <2>1, Miss
<1>2. CASE Find(g, n[1], n[2]) # {}
  <2> DEFINE x == First(Find(g, n[1], n[2]))
  <2>1. /\ x \in Walk(g) /\ Matches(g, x, n[1], n[2])
        /\ \A m \in Names \ {n} : ~Matches(g, x, m[1], m[2])
    BY <1>0, <1>2, Found
  <2>2. Without(g, n) = SpliceOut(g, x)
    BY <1>2 DEF Without
  <2> HIDE DEF x
  <2>3. Good(Without(g, n))
    BY <2>1, <2>2, Spliced, SplicedNames DEF Good
  <2>4. /\ \A m \in Names : ~Matches(g, x, m[1], m[2]) => Get(SpliceOut(g, x))[m] = Get(g)[m]
        /\ \A p \in Walk(SpliceOut(g, x)) : ~Matches(SpliceOut(g, x), p, n[1], n[2])
        /\ Get(SpliceOut(g, x))[n] = Absent
    BY <2>1, SplicedNames DEF Good
  <2> QED
    BY <2>1, <2>2, <2>3, <2>4
<1> QED
  BY <1>1, <1>2

---------------------------------------------------------------------------
(* The steps, by what they do to the names.                                *)

Others(n) == \A m \in Names \ {n} : Get(region')[m] = Get(region)[m]

\* hearthPut() (Preferences.cpp:229).
LEMMA PutNames ==
  ASSUME Good(region), space \in Spaces, NEW key \in Keys, NEW v \in Contents, Put(key, v),
         NEW n, n = <<space, key>>
  PROVE  /\ Good(region') /\ Others(n)
         /\ \/ Get(region')[n] = v /\ Commit
            \/ Get(region')[n] = Absent /\ CommitUnseen /\ result' = "failed"
<1>1. n \in Names /\ n[1] = space /\ n[2] = key
  BY DEF Names
<1> DEFINE hit == Find(region, n[1], n[2])  base == Without(region, n)
<1>2. \/ /\ hit # {} /\ SameShape(region, First(hit), v)
         /\ region' = Wr(region, DataOff(region, First(hit)), v.data) /\ Commit
      \/ /\ Fits(base, n[1], n[2], v)
         /\ region' = Appended(base, n[1], n[2], v) /\ Commit
      \/ region' = base /\ CommitUnseen /\ result' = "failed"
  BY <1>1 DEF Put, Without
<1>3. CASE /\ hit # {} /\ SameShape(region, First(hit), v)
           /\ region' = Wr(region, DataOff(region, First(hit)), v.data) /\ Commit
  <2> DEFINE x == First(hit)
  <2>1. x \in Walk(region) /\ Matches(region, x, n[1], n[2])
    BY <1>1, <1>3, Found DEF Good
  <2>2. SameShape(region, x, v) /\ region' = Wr(region, DataOff(region, x), v.data)
    BY <1>3
  <2> HIDE DEF x, hit
  <2>3. Good(region') /\ Get(region')[n] = v /\ Others(n)
    BY <1>1, <2>1, <2>2, OverwrittenNames DEF Good, Others
  <2> QED
    BY <1>1, <1>3, <2>3
<1>4. CASE /\ Fits(base, n[1], n[2], v)
           /\ region' = Appended(base, n[1], n[2], v) /\ Commit
  <2>1. /\ Good(base) /\ \A m \in Names \ {n} : Get(base)[m] = Get(region)[m]
        /\ \A o \in Walk(base) : ~Matches(base, o, n[1], n[2])
    BY <1>1, WithoutName
  <2> HIDE DEF base
  <2>2. Good(region') /\ Get(region')[n] = v /\ \A m \in Names \ {n} : Get(region')[m] = Get(base)[m]
    BY <1>1, <1>4, <2>1, AppendedNames DEF Good
  <2>3. Others(n)
    BY <2>1, <2>2 DEF Others
  <2> QED
    BY <1>1, <1>4, <2>2, <2>3
<1>5. CASE region' = base /\ CommitUnseen /\ result' = "failed"
  <2>1. /\ Good(base) /\ \A m \in Names \ {n} : Get(base)[m] = Get(region)[m]
        /\ Get(base)[n] = Absent
    BY <1>1, WithoutName
  <2> HIDE DEF base
  <2>2. Good(region') /\ Get(region')[n] = Absent /\ Others(n)
    BY <1>5, <2>1 DEF Others
  <2> QED
    BY <1>1, <1>5, <2>2
<1> QED
  BY <1>2, <1>3, <1>4, <1>5

\* hearthPrefsRemove().
LEMMA RemoveNames ==
  ASSUME Good(region), space \in Spaces, Remove
  PROVE  \E n \in Names :
           /\ call' = [op |-> "remove", name |-> n]
           /\ \/ Get(region)[n] = Absent /\ Refuse
              \/ /\ Get(region)[n] # Absent /\ Get(region')[n] = Absent /\ Others(n)
                 /\ Good(region') /\ Commit /\ UNCHANGED <<space, readOnly>>
<1>1. PICK key \in Keys :
        /\ call' = [op |-> "remove", name |-> <<space, key>>]
        /\ IF Find(region, space, key) = {} THEN Refuse
           ELSE /\ region' = SpliceOut(region, First(Find(region, space, key)))
                /\ Commit /\ UNCHANGED <<space, readOnly>>
  BY DEF Remove
<1> DEFINE n == <<space, key>>
<1>2. n \in Names /\ n[1] = space /\ n[2] = key /\ call' = [op |-> "remove", name |-> n]
  BY <1>1 DEF Names
<1> HIDE DEF n
<1> DEFINE hit == Find(region, n[1], n[2])
<1>3. CASE hit = {}
  <2>1. Refuse
    BY <1>1, <1>2, <1>3
  <2>2. Get(region)[n] = Absent
    BY <1>2, <1>3, FoundValue
  <2> QED
    BY <1>2, <2>1, <2>2
<1>4. CASE hit # {}
  <2>1. region' = SpliceOut(region, First(hit)) /\ Commit /\ UNCHANGED <<space, readOnly>>
    BY <1>1, <1>2, <1>4
  <2>2. region' = Without(region, n)
    BY <1>4, <2>1 DEF Without
  <2>3. Good(region') /\ Get(region')[n] = Absent /\ Others(n)
    BY <1>2, <2>2, WithoutName DEF Others
  <2>4. Get(region)[n] # Absent
    BY <1>2, <1>4, FoundValue
  <2> QED
    BY <1>2, <2>1, <2>3, <2>4
<1> QED
  BY <1>3, <1>4

\* hearthPrefsClear().
LEMMA ClearNames ==
  ASSUME Good(region), space \in Spaces, Clear
  PROVE  /\ Good(region') /\ Commit /\ UNCHANGED <<space, readOnly>>
         /\ \A n \in Names :
              Get(region')[n] = IF n[1] = space THEN Absent ELSE Get(region)[n]
<1>1. region' = Cleared(region, space) /\ Commit /\ UNCHANGED <<space, readOnly>>
  BY DEF Clear
<1> QED
  BY <1>1, ClearedNames DEF Good

\* begin().
LEMMA BeginNames ==
  ASSUME region \in Region, Formatted(region) => Good(region), EnsureFormatted
  PROVE  /\ Good(region')
         /\ \A n \in Names : Get(region')[n] = Get(region)[n]
         /\ \/ UNCHANGED <<region, flash, failures>>
            \/ CommitUnseen
<1>1. CASE Formatted(region)
  BY <1>1 DEF EnsureFormatted
<1>2. CASE ~Formatted(region)
  <2>1. region' = Wr(region, 0, <<Magic, 0>>) /\ CommitUnseen
    BY <1>2 DEF EnsureFormatted
  <2>2. Good(region') /\ \A n \in Names : Get(region')[n] = Absent
    BY <2>1, LaidOut DEF Good
  <2>3. \A n \in Names : Get(region)[n] = Absent
    BY <1>2 DEF Get
  <2> QED
    BY <2>1, <2>2, <2>3
<1> QED
  BY <1>1, <1>2

---------------------------------------------------------------------------
(* The invariant: what is laid out is well made, and an open handle is on  *)
(* a region that is laid out.                                              *)

Sound(g) == g \in Region /\ (Formatted(g) => Good(g))

Inv ==
  /\ Sound(region) /\ Sound(flash)
  /\ space # Closed => Formatted(region)
  /\ space \in Spaces \cup {Closed} /\ readOnly \in BOOLEAN /\ result \in {"ok", "failed"}
  /\ failures \in 0 .. MaxCommitFailures

\* While a handle is open.
LEMMA Opened ==
  ASSUME Inv, space # Closed
  PROVE  Good(region) /\ space \in Spaces
BY DEF Inv, Sound

\* A commit saves the region there is then.
LEMMA Committed ==
  ASSUME Inv, CommitUnseen, Good(region')
  PROVE  Sound(region)' /\ Sound(flash)' /\ (failures \in 0 .. MaxCommitFailures)'
<1>1. region' \in Region /\ MaxCommitFailures \in Nat
  BY PrefsAssumption DEF Good
<1>2. Sound(region')
  BY <1>1 DEF Sound
<1>3. flash' = region' \/ flash' = flash
  BY DEF CommitUnseen
<1>4. Sound(flash')
  BY <1>2, <1>3 DEF Inv
<1>5. failures' \in 0 .. MaxCommitFailures
  BY <1>1 DEF CommitUnseen, Inv
<1> QED
  BY <1>2, <1>4, <1>5

LEMMA Saves ==
  ASSUME Commit
  PROVE  CommitUnseen /\ result' \in {"ok", "failed"}
BY DEF Commit, CommitUnseen

LEMMA StartsSound ==
  ASSUME Init
  PROVE  Inv
<1>1. Size \in Nat /\ Size > 1 /\ MaxCommitFailures \in Nat
  BY PrefsAssumption DEF Header
<1>2. Erased \in Region
  BY DEF Erased, Region, Byte
<1>3. ~Formatted(Erased)
  <2>1. Erased[0 + 1] = 255 /\ 0 < Size
    BY <1>1 DEF Erased
  <2> QED
    BY <2>1 DEF Formatted, Rd, Magic
<1>4. Sound(Erased)
  BY <1>2, <1>3 DEF Sound
<1>5. region = Erased /\ flash = Erased
  BY DEF Init
<1>6. Sound(region) /\ Sound(flash)
  BY <1>4, <1>5
<1>7. failures \in 0 .. MaxCommitFailures
  BY <1>1 DEF Init
<1>8. space = Closed /\ readOnly = FALSE /\ result = "ok"
  BY DEF Init
<1> QED
  BY <1>6, <1>7, <1>8 DEF Inv

LEMMA StepSound ==
  ASSUME Inv, [Next]_vars
  PROVE  Inv'
<1>0. Closed \notin Spaces
  BY PrefsAssumption DEF Closed
<1>1. CASE Begin
  <2>1. /\ EnsureFormatted /\ space' \in Spaces /\ readOnly' \in BOOLEAN /\ result' = "ok"
    BY <1>1 DEF Begin
  <2>2. Good(region') /\ (UNCHANGED <<region, flash, failures>> \/ CommitUnseen)
    BY <2>1, BeginNames DEF Inv, Sound
  <2>3. Sound(region)' /\ Sound(flash)' /\ (failures \in 0 .. MaxCommitFailures)'
    <3>1. CASE UNCHANGED <<region, flash, failures>>
      BY <3>1 DEF Inv
    <3>2. CASE CommitUnseen
      BY <2>2, <3>2, Committed
    <3> QED
      BY <2>2, <3>1, <3>2
  <2>4. Formatted(region')
    BY <2>2 DEF Good
  <2> QED
    BY <2>1, <2>3, <2>4 DEF Inv
<1>2. CASE End
  BY <1>2 DEF End, Inv
<1>3. CASE Clear
  <2>1. Good(region) /\ space \in Spaces
    BY <1>3, Opened DEF Clear, Writable
  <2>2. Good(region') /\ Commit /\ UNCHANGED <<space, readOnly>>
    BY <1>3, <2>1, ClearNames
  <2>3. Sound(region)' /\ Sound(flash)' /\ (failures \in 0 .. MaxCommitFailures)'
    BY <2>2, Saves, Committed
  <2>4. Formatted(region')
    BY <2>2 DEF Good
  <2> QED
    BY <2>2, <2>3, <2>4, Saves DEF Inv
<1>4. CASE Remove
  <2>1. Good(region) /\ space \in Spaces
    BY <1>4, Opened DEF Remove, Writable
  <2>2. Refuse \/ (Good(region') /\ Commit /\ UNCHANGED <<space, readOnly>>)
    BY <1>4, <2>1, RemoveNames
  <2>3. CASE Refuse
    BY <2>3 DEF Refuse, Inv
  <2>4. CASE Good(region') /\ Commit /\ UNCHANGED <<space, readOnly>>
    <3>1. Sound(region)' /\ Sound(flash)' /\ (failures \in 0 .. MaxCommitFailures)'
      BY <2>4, Saves, Committed
    <3>2. Formatted(region')
      BY <2>4 DEF Good
    <3> QED
      BY <2>4, <3>1, <3>2, Saves DEF Inv
  <2> QED
    BY <2>2, <2>3, <2>4
<1>5. CASE PutAny
  <2>1. Good(region) /\ space \in Spaces
    BY <1>5, Opened DEF PutAny, Writable
  <2>2. PICK key \in Keys, v \in Contents : Put(key, v) /\ UNCHANGED <<space, readOnly>>
    BY <1>5 DEF PutAny
  <2>3. Good(region') /\ CommitUnseen /\ result' \in {"ok", "failed"}
    BY <2>1, <2>2, PutNames, Saves
  <2>4. Sound(region)' /\ Sound(flash)' /\ (failures \in 0 .. MaxCommitFailures)'
    BY <2>3, Committed
  <2>5. Formatted(region')
    BY <2>3 DEF Good
  <2> QED
    BY <2>2, <2>3, <2>4, <2>5 DEF Inv
<1>6. CASE NotWritable
  BY <1>6 DEF NotWritable, Refuse, Inv
<1>7. CASE PowerLoss
  BY <1>7 DEF PowerLoss, Inv
<1>8. CASE UNCHANGED vars
  BY <1>8 DEF vars, Inv
<1> QED
  BY <1>1, <1>2, <1>3, <1>4, <1>5, <1>6, <1>7, <1>8 DEF Next

LEMMA AlwaysSound == Spec => []Inv
BY StartsSound, StepSound, PTL DEF Spec

\* Whatever was put, removed or cleared, with commits that fail and the power
\* lost between, a region that is laid out ends in its terminator, inside it
\* (Preferences.cpp:134, 159).
THEOREM PrefsTypeOK == Spec => []TypeOK
<1>1. Inv => TypeOK
  BY DEF Inv, TypeOK, Sound, Good, Terminated, Region
<1> QED
  BY <1>1, AlwaysSound, PTL

\* No name is in the list twice, whatever a splice left behind the terminator
\* (Preferences.cpp:159).
THEOREM PrefsOneRecordEach == Spec => []OneRecordEach
<1>1. Inv => OneRecordEach
  BY DEF Inv, OneRecordEach, Sound, Good, Unique, Name
<1> QED
  BY <1>1, AlwaysSound, PTL

---------------------------------------------------------------------------
(* The refinement.                                                         *)

LEMMA GetShape ==
  ASSUME NEW g, NEW h, \A n \in Names : Get(h)[n] = Get(g)[n]
  PROVE  Get(h) = Get(g)
BY DEF Get

LEMMA StoreStarts ==
  ASSUME Init
  PROVE  Store!Init
<1>1. region = Erased /\ flash = Erased /\ call = [op |-> "none"] /\ result = "ok"
  BY DEF Init
<1>2. ~Formatted(Erased)
  <2>1. Size \in Nat /\ 0 < Size
    BY Sizes
  <2>2. Erased[0 + 1] = 255
    BY <2>1 DEF Erased
  <2> QED
    BY <2>1, <2>2 DEF Formatted, Rd, Magic
<1>3. Get(Erased) = [n \in Names |-> Absent]
  BY <1>2 DEF Get
<1> QED
  BY <1>1, <1>3 DEF Store!Init, Store!Nothing

\* A commit is what the store calls saved.
LEMMA StoreSaves ==
  ASSUME Commit
  PROVE  Store!Saved
<1>1. \/ flash' = region' /\ result' = "ok"
      \/ result' = "failed" /\ flash' = flash
  BY DEF Commit
<1>2. flash' = region' => Get(flash)' = Get(region)'
  OBVIOUS
<1>3. flash' = flash => Get(flash)' = Get(flash)
  OBVIOUS
<1> QED
  BY <1>1, <1>2, <1>3 DEF Store!Saved

\* One that is not looked at keeps the old names or the new.
LEMMA StoreKeeps ==
  ASSUME CommitUnseen
  PROVE  Get(flash)' \in {Get(flash), Get(region)'}
<1>1. flash' = region' \/ flash' = flash
  BY DEF CommitUnseen
<1>2. flash' = region' => Get(flash)' = Get(region)'
  OBVIOUS
<1>3. flash' = flash => Get(flash)' = Get(flash)
  OBVIOUS
<1> QED
  BY <1>1, <1>2, <1>3

\* What a put or a remove of one name does to the map.
LEMMA StoreOne ==
  ASSUME NEW n \in Names, NEW w, Others(n), Get(region')[n] = w
  PROVE  Get(region)' = [Get(region) EXCEPT ![n] = w]
<1>1. Get(region)' = Get(region')
  OBVIOUS
<1>2. Get(region') = [m \in Names |-> Get(region')[m]] /\ Get(region) = [m \in Names |-> Get(region)[m]]
  BY DEF Get
<1> HIDE DEF Get
<1>3. \A m \in Names : Get(region')[m] = IF m = n THEN w ELSE Get(region)[m]
  BY DEF Others
<1>4. [Get(region) EXCEPT ![n] = w] = [m \in Names |-> IF m = n THEN w ELSE Get(region)[m]]
  BY <1>2
<1> QED
  BY <1>1, <1>2, <1>3, <1>4

\* begin(): laying the store out changes what no get answers.
LEMMA StoreBegins ==
  ASSUME Inv, Begin
  PROVE  Store!Begin
<1>0. Get(region)' = Get(region') /\ Get(flash)' = Get(flash')
  OBVIOUS
<1>1. EnsureFormatted /\ call' = [op |-> "begin"] /\ result' = "ok"
  BY DEF Begin
<1>2. \A n \in Names : Get(region')[n] = Get(region)[n]
  BY <1>1, BeginNames DEF Inv, Sound
<1>3. Get(region)' = Get(region)
  BY <1>0, <1>2, GetShape
<1>4. CASE Formatted(region)
  <2>1. Get(flash)' = Get(flash)
    BY <1>0, <1>1, <1>4 DEF EnsureFormatted
  <2> QED
    BY <1>1, <1>3, <2>1 DEF Store!Begin
<1>5. CASE ~Formatted(region)
  <2>1. CommitUnseen
    BY <1>1, <1>5 DEF EnsureFormatted
  <2>2. Get(flash)' \in {Get(flash), Get(region)}
    BY <1>3, <2>1, StoreKeeps
  <2>3. Get(region) = [n \in Names |-> Absent]
    BY <1>5 DEF Get
  <2> QED
    BY <1>1, <1>3, <2>2, <2>3 DEF Store!Begin, Store!Nothing
<1> QED
  BY <1>4, <1>5

\* clear().
LEMMA StoreClears ==
  ASSUME Inv, Clear
  PROVE  Store!Clear(space) /\ space \in Spaces
<1>0. Get(region)' = Get(region')
  OBVIOUS
<1>1. Good(region) /\ space \in Spaces
  BY Opened DEF Clear, Writable
<1>2. /\ Commit
      /\ \A n \in Names : Get(region')[n] = IF n[1] = space THEN Absent ELSE Get(region)[n]
  BY <1>1, ClearNames
<1>3. Store!Saved
  BY <1>2, StoreSaves
<1>4. Get(region)' = [n \in Names |-> IF n[1] = space THEN Absent ELSE Get(region)[n]]
  <2>1. Get(region') = [n \in Names |-> Get(region')[n]]
    BY DEF Get
  <2>2. [n \in Names |-> Get(region')[n]]
          = [n \in Names |-> IF n[1] = space THEN Absent ELSE Get(region)[n]]
    BY <1>2
  <2> QED
    BY <1>0, <2>1, <2>2
<1>5. call' = [op |-> "clear", space |-> space]
  BY DEF Clear
<1> QED
  BY <1>1, <1>3, <1>4, <1>5 DEF Store!Clear

\* remove().
LEMMA StoreRemoves ==
  ASSUME Inv, Remove
  PROVE  \E n \in Names : Store!Remove(n)
<1>0. Get(region)' = Get(region') /\ Get(flash)' = Get(flash')
  OBVIOUS
<1>1. Good(region) /\ space \in Spaces
  BY Opened DEF Remove, Writable
<1>2. PICK n \in Names :
        /\ call' = [op |-> "remove", name |-> n]
        /\ \/ Get(region)[n] = Absent /\ Refuse
           \/ /\ Get(region)[n] # Absent /\ Get(region')[n] = Absent /\ Others(n)
              /\ Good(region') /\ Commit /\ UNCHANGED <<space, readOnly>>
  BY <1>1, RemoveNames
<1>3. CASE Get(region)[n] = Absent /\ Refuse
  <2>1. result' = "failed" /\ region' = region /\ flash' = flash
    BY <1>3 DEF Refuse
  <2>2. Get(region)' = Get(region) /\ Get(flash)' = Get(flash)
    BY <1>0, <2>1
  <2> QED
    BY <1>2, <1>3, <2>1, <2>2 DEF Store!Remove
<1>4. CASE Get(region)[n] # Absent /\ Get(region')[n] = Absent /\ Others(n) /\ Commit
  <2>1. Store!Saved
    BY <1>4, StoreSaves
  <2>2. Get(region)' = [Get(region) EXCEPT ![n] = Absent]
    BY <1>4, StoreOne
  <2> QED
    BY <1>2, <1>4, <2>1, <2>2 DEF Store!Remove
<1> QED
  BY <1>2, <1>3, <1>4

\* hearthPut(): the name asked for, and the value.
LEMMA StorePuts ==
  ASSUME Inv, PutAny
  PROVE  \E n \in Names, v \in Contents : Store!Put(n, v)
<1>1. Good(region) /\ space \in Spaces
  BY Opened DEF PutAny, Writable
<1>2. PICK key \in Keys, v \in Contents :
        call' = [op |-> "put", name |-> <<space, key>>, value |-> v] /\ Put(key, v)
  BY DEF PutAny
<1> DEFINE n == <<space, key>>
<1>3. n \in Names /\ n = <<space, key>> /\ call' = [op |-> "put", name |-> n, value |-> v]
  BY <1>1, <1>2 DEF Names
<1> HIDE DEF n
<1>4. /\ Others(n)
      /\ \/ Get(region')[n] = v /\ Commit
         \/ Get(region')[n] = Absent /\ CommitUnseen /\ result' = "failed"
  BY <1>1, <1>2, <1>3, PutNames
<1>5. CASE Get(region')[n] = v /\ Commit
  <2>1. Store!Saved
    BY <1>5, StoreSaves
  <2>2. Get(region)' = [Get(region) EXCEPT ![n] = v]
    BY <1>3, <1>4, <1>5, StoreOne
  <2> QED
    BY <1>3, <2>1, <2>2 DEF Store!Put
<1>6. CASE Get(region')[n] = Absent /\ CommitUnseen /\ result' = "failed"
  <2>1. Get(flash)' \in {Get(flash), Get(region)'}
    BY <1>6, StoreKeeps
  <2>2. Get(region)' = [Get(region) EXCEPT ![n] = Absent]
    BY <1>3, <1>4, <1>6, StoreOne
  <2> QED
    BY <1>3, <1>6, <2>1, <2>2 DEF Store!Put
<1> QED
  BY <1>4, <1>5, <1>6

LEMMA StoreSteps ==
  ASSUME Inv, [Next]_vars
  PROVE  [Store!Next]_Store!vars
<1>0. Get(region)' = Get(region') /\ Get(flash)' = Get(flash')
  OBVIOUS
<1>1. CASE Begin
  BY <1>1, StoreBegins DEF Store!Next
<1>2. CASE End
  <2>1. UNCHANGED <<region, flash>> /\ call' = [op |-> "end"] /\ result' = "ok"
    BY <1>2 DEF End
  <2>2. Get(region)' = Get(region) /\ Get(flash)' = Get(flash)
    BY <1>0, <2>1
  <2> QED
    BY <2>1, <2>2 DEF Store!Next, Store!End
<1>3. CASE NotWritable
  <2>1. UNCHANGED <<region, flash>> /\ call' = [op |-> "refused"] /\ result' = "failed"
    BY <1>3 DEF NotWritable, Refuse
  <2>2. Get(region)' = Get(region) /\ Get(flash)' = Get(flash)
    BY <1>0, <2>1
  <2> QED
    BY <2>1, <2>2 DEF Store!Next, Store!Refused
<1>4. CASE Clear
  BY <1>4, StoreClears DEF Store!Next
<1>5. CASE Remove
  BY <1>5, StoreRemoves DEF Store!Next
<1>6. CASE PutAny
  BY <1>6, StorePuts DEF Store!Next
<1>7. CASE PowerLoss
  <2>1. region' = flash /\ flash' = flash /\ call' = [op |-> "none"] /\ result' = "ok"
    BY <1>7 DEF PowerLoss
  <2>2. Get(region)' = Get(flash) /\ Get(flash)' = Get(flash)
    BY <1>0, <2>1
  <2> QED
    BY <2>1, <2>2 DEF Store!Next, Store!PowerLoss
<1>8. CASE UNCHANGED vars
  <2>1. region' = region /\ flash' = flash /\ call' = call /\ result' = result
    BY <1>8 DEF vars
  <2>2. Get(region)' = Get(region) /\ Get(flash)' = Get(flash)
    BY <1>0, <2>1
  <2> QED
    BY <2>1, <2>2 DEF Store!vars
<1> QED
  BY <1>1, <1>2, <1>3, <1>4, <1>5, <1>6, <1>7, <1>8 DEF Next

\* The list of records implements a map from names to values: a put that
\* returned success made its own name the value it was given and changed no
\* other, so that until the next put, remove or clear of it, or a power loss, a
\* get answers that value; and what an operation that succeeded left is there
\* after a power loss (Preferences.cpp:195, 219, 229).
THEOREM PrefsKeepsWhatItSays == Spec => KeepsWhatItSays
<1>1. Init => Store!Init
  BY StoreStarts
<1>2. Inv /\ [Next]_vars => [Store!Next]_Store!vars
  BY StoreSteps
<1> QED
  BY <1>1, <1>2, AlwaysSound, PTL DEF Spec, KeepsWhatItSays, Store!Spec

=============================================================================
