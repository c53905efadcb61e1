----------------------------- MODULE HearthPrefs -----------------------------
(***************************************************************************)
(* Preferences (Preferences.cpp): records back to back in one flash        *)
(* sector, found by a walk from its start, overwritten in place when a     *)
(* value keeps its type and length, and spliced out and appended when it   *)
(* does not.  The sector is worked on in a copy in RAM and saved as a      *)
(* whole (PreferencesEEPROM.cpp).                                          *)
(*                                                                         *)
(* The region is modelled byte by byte, from one header byte on (the magic *)
(* and the version), since what can go wrong is in the lengths.  A name is *)
(* a sequence of characters; a value is a type and its bytes.              *)
(***************************************************************************)
EXTENDS Integers, Sequences, FiniteSets

CONSTANTS
  Size,        \* HEARTH_PREFS_SIZE
  Spaces,      \* namespace names
  Keys,        \* key names
  Contents,    \* values put: [type, data]
  MaxCommitFailures  \* bound: EEPROM.commit() calls that fail

Byte == 0 .. 255
Names == Spaces \X Keys

Header  == 1    \* kHeaderLen, as one byte

ASSUME PrefsAssumption ==
  /\ Size \in Nat /\ Size > Header /\ MaxCommitFailures \in Nat
  /\ \A n \in Spaces \cup Keys : n \in Seq(Byte) /\ Len(n) \in Byte \ {0}
  /\ Contents \subseteq [type : Byte, data : Seq(Byte)]
  /\ \A c \in Contents : Len(c.data) <= 65535

Magic   == 72
RecHdr  == 5    \* kRecordHdr
STR     == 8    \* PT_STR
Absent  == [type |-> -1, data |-> <<>>]
Closed  == <<>>

VARIABLES
  region,    \* the RAM copy
  flash,     \* [external] the sector
  space,     \* _name, Closed when not _started
  readOnly,  \* _readOnly
  call,      \* history: the last operation, with its arguments
  result,    \* what it returned
  failures   \* bound: commits that failed

vars == <<region, flash, space, readOnly, call, result, failures>>

(* The codec.  Offsets count from 0, as in the code.                       *)

\* hearthPrefsStoreRead() and hearthPrefsStoreWrite() of a run of bytes:
\* reads past the end answer 0, writes past it are dropped.
Rd(g, off) == IF off < Size THEN g[off + 1] ELSE 0
Wr(g, off, bytes) ==
  SubSeq(SubSeq(g, 1, off) \o bytes \o SubSeq(g, off + Len(bytes) + 1, Size), 1, Size)
Bytes(g, off, n) == SubSeq(g, off + 1, off + n)

Formatted(g) == Rd(g, 0) = Magic

\* readRecord(): the fields of the record at off, and whether there is one
\* there, inside the region.
NsLen(g, off)   == Rd(g, off)
KeyLen(g, off)  == Rd(g, off + 1)
Type(g, off)    == Rd(g, off + 2)
DataLen(g, off) == Rd(g, off + 3) + 256 * Rd(g, off + 4)
DataOff(g, off) == off + RecHdr + NsLen(g, off) + KeyLen(g, off)
Total(g, off)   == RecHdr + NsLen(g, off) + KeyLen(g, off) + DataLen(g, off)

Here(g, off) == off + RecHdr <= Size /\ NsLen(g, off) # 0 /\ off + Total(g, off) <= Size

\* Where a walk looks, from off on.
Looks(g) ==
  LET w[off \in 0 .. Size] == {off} \cup IF Here(g, off) THEN w[off + Total(g, off)] ELSE {}
  IN w[Header]

\* The records it reads, by their offsets, and endOffset(): where it stops.
Walk(g) == {off \in Looks(g) : Here(g, off)}
EndOffset(g) == CHOOSE off \in Looks(g) : ~Here(g, off)

First(offs) == CHOOSE off \in offs : \A o \in offs : off <= o

\* Mutant: the name is compared as one run of characters.
MatchesRun(g, off, ns, key) ==
  Bytes(g, off + RecHdr, NsLen(g, off) + KeyLen(g, off)) = ns \o key

\* matches(), and the part of it that clear() repeats.
MatchesSpace(g, off, ns) == NsLen(g, off) = Len(ns) /\ Bytes(g, off + RecHdr, Len(ns)) = ns

Matches(g, off, ns, key) ==
  /\ MatchesSpace(g, off, ns) /\ KeyLen(g, off) = Len(key)
  /\ Bytes(g, off + RecHdr + Len(ns), Len(key)) = key

\* find(): the records of that name; it takes the first.
Find(g, ns, key) == {off \in Walk(g) : Matches(g, off, ns, key)}

\* spliceOut(): the bytes after the record move down, and a new terminator.
SpliceOut(g, off) ==
  LET src == off + Total(g, off)
  IN Wr(g, off, Bytes(g, src, EndOffset(g) - src) \o <<0>>)

\* clear(): a record of the namespace goes, and the walk restarts; a record
\* is a header at least.
Owned(g, ns) == {off \in Walk(g) : MatchesSpace(g, off, ns)}

Most == Size \div RecHdr

Cleared(g, ns) ==
  LET h[i \in 0 .. Most] ==
        IF i = 0 THEN g
        ELSE LET b == h[i - 1]
             IN IF Owned(b, ns) = {} THEN b ELSE SpliceOut(b, First(Owned(b, ns)))
  IN h[Most]

---------------------------------------------------------------------------
(* The store.                                                              *)

Erased == [i \in 1 .. Size |-> 255]

Init ==
  /\ region = Erased /\ flash = Erased
  /\ space = Closed /\ readOnly = FALSE /\ failures = 0
  /\ call = [op |-> "none"] /\ result = "ok"

\* hearthPrefsStoreCommit(): [external] the sector is written, or it is not.
Commit ==
  \/ flash' = region' /\ result' = "ok" /\ UNCHANGED failures
  \/ /\ failures < MaxCommitFailures /\ failures' = failures + 1
     /\ result' = "failed" /\ UNCHANGED flash

Refuse == result' = "failed" /\ UNCHANGED <<region, flash, space, readOnly, failures>>

\* A commit whose answer is not looked at.
CommitUnseen ==
  \/ flash' = region' /\ UNCHANGED failures
  \/ failures < MaxCommitFailures /\ failures' = failures + 1 /\ UNCHANGED flash

\* ensureFormatted().
EnsureFormatted ==
  IF Formatted(region) THEN UNCHANGED <<region, flash, failures>>
  ELSE region' = Wr(region, 0, <<Magic, 0>>) /\ CommitUnseen

Begin == \E ns \in Spaces, ro \in BOOLEAN :
  /\ EnsureFormatted
  /\ space' = ns /\ readOnly' = ro
  /\ call' = [op |-> "begin"] /\ result' = "ok"

End ==
  /\ space # Closed
  /\ space' = Closed /\ UNCHANGED <<region, flash, readOnly, failures>>
  /\ call' = [op |-> "end"] /\ result' = "ok"

Writable == space # Closed /\ ~readOnly

Clear ==
  /\ Writable /\ call' = [op |-> "clear", space |-> space]
  /\ region' = Cleared(region, space) /\ Commit /\ UNCHANGED <<space, readOnly>>

Remove == Writable /\ \E key \in Keys :
  LET hit == Find(region, space, key)
  IN /\ call' = [op |-> "remove", name |-> <<space, key>>]
     /\ IF hit = {} THEN Refuse
        ELSE region' = SpliceOut(region, First(hit)) /\ Commit /\ UNCHANGED <<space, readOnly>>

\* A new record, with room left for the terminator after it.
Need(ns, key, v) == RecHdr + Len(ns) + Len(key) + Len(v.data)

\* Mutant: no room is asked for the terminator.
FitsExactly(g, ns, key, v) == EndOffset(g) + Need(ns, key, v) <= Size

Fits(g, ns, key, v) == EndOffset(g) + Need(ns, key, v) + 1 <= Size

Appended(g, ns, key, v) ==
  Wr(g, EndOffset(g), <<Len(ns), Len(key), v.type, Len(v.data) % 256, Len(v.data) \div 256>>
                        \o ns \o key \o v.data \o <<0>>)

SameShape(g, off, v) == DataLen(g, off) = Len(v.data) /\ Type(g, off) = v.type

\* Mutant: a value of another shape is appended, and the old one left.
PutAppends(key, v) ==
  LET hit == Find(region, space, key)
  IN IF hit # {} /\ SameShape(region, First(hit), v)
       THEN region' = Wr(region, DataOff(region, First(hit)), v.data) /\ Commit
     ELSE IF Fits(region, space, key, v)
       THEN region' = Appended(region, space, key, v) /\ Commit
     ELSE region' = region /\ CommitUnseen /\ result' = "failed"

\* hearthPut(): in place, or out and appended.  With no room the old value
\* is gone already, and that is saved.
Put(key, v) ==
  LET hit  == Find(region, space, key)
      base == IF hit = {} THEN region ELSE SpliceOut(region, First(hit))
  IN IF hit # {} /\ SameShape(region, First(hit), v)
       THEN region' = Wr(region, DataOff(region, First(hit)), v.data) /\ Commit
     ELSE IF Fits(base, space, key, v)
       THEN region' = Appended(base, space, key, v) /\ Commit
     ELSE region' = base /\ CommitUnseen /\ result' = "failed"

PutAny == Writable /\ \E key \in Keys, v \in Contents :
  /\ call' = [op |-> "put", name |-> <<space, key>>, value |-> v]
  /\ Put(key, v) /\ UNCHANGED <<space, readOnly>>

\* clear(), remove() or a put on a handle that is closed or read-only.
NotWritable == ~Writable /\ call' = [op |-> "refused"] /\ Refuse

\* [external] The copy in RAM is gone, and the handle with it.
PowerLoss ==
  /\ region' = flash /\ space' = Closed /\ readOnly' = FALSE
  /\ call' = [op |-> "none"] /\ result' = "ok"
  /\ UNCHANGED <<flash, failures>>

Next == Begin \/ End \/ Clear \/ Remove \/ PutAny \/ NotWritable \/ PowerLoss
Spec == Init /\ [][Next]_vars

---------------------------------------------------------------------------
(* The getters, over a region.                                             *)

\* hearthGet() for each name: its value, or Absent.  A region nobody laid out
\* is begun as an empty one.
Value(g) ==
  [off \in 0 .. Size |->
     [type |-> Type(g, off), data |-> Bytes(g, DataOff(g, off), DataLen(g, off))]]

Get(g) ==
  [n \in Names |->
     LET hit == Find(g, n[1], n[2])
     IN IF ~Formatted(g) \/ hit = {} THEN Absent ELSE Value(g)[First(hit)]]

---------------------------------------------------------------------------
\* The types of the state; a region that is laid out ends in a terminator.
TypeOK ==
  /\ {region, flash} \subseteq [1 .. Size -> Byte]
  /\ space \in Spaces \cup {Closed} /\ readOnly \in BOOLEAN /\ result \in {"ok", "failed"}
  /\ failures \in 0 .. MaxCommitFailures
  /\ \A g \in {region, flash} :
       Formatted(g) => EndOffset(g) < Size /\ Rd(g, EndOffset(g)) = 0

\* No name is in the list twice, in RAM or in flash: what a splice leaves
\* behind the terminator never comes back (Preferences.cpp:159).
OneRecordEach == \A g \in {region, flash} : Formatted(g) =>
  LET name(o) == <<NsLen(g, o), Bytes(g, o + RecHdr, NsLen(g, o) + KeyLen(g, o))>>
  IN \A o, p \in Walk(g) : name(o) = name(p) => o = p

Store == INSTANCE HearthKeyStore
  WITH Values <- Contents,
       now    <- Get(region),
       kept   <- Get(flash)

\* After a put that returned success a get of that name answers the value it
\* was given, and no other call changes it but a remove of the name or a clear
\* of its namespace; what an operation that succeeded left survives a power
\* loss.  A put that failed leaves its own name at the new value in RAM, or
\* lost, and no other name changed (Preferences.h:23, test_preferences.cpp).
KeepsWhatItSays == Store!Spec
============================================================================
