------------------------- MODULE HearthFlash_proofs -------------------------
(***************************************************************************)
(* What holds of the flashers for any image, any sequence number width,    *)
(* any number of retries and of calls, on a line that loses, delays and    *)
(* keeps.                                                                  *)
(*                                                                         *)
(* XMODEM stops and waits: the host has nothing under way while it reads,  *)
(* so what may be in the two queues at each place is a short list, and the *)
(* loader's verdict speaks of the slot as it still is.  The SMP queues     *)
(* have no bound.  There the offsets carry the argument: in one call they  *)
(* never return to zero once a reply has moved them, so a slot of two      *)
(* blocks or more is never started over under a reply that is on its way.  *)
(***************************************************************************)
EXTENDS HearthFlash, SequenceTheorems, TLAPS

XPlaces == {"menu", "preamble", "asked", "reply", "eot", "done"}
SPlaces == {"entry", "echo", "echoed", "uploading"}
EPlaces == {"connect", "reconnect", "again", "raise", "erase", "write"}
Outside == {"start", "returned"}

Words == {"one", "two", "menu", "ready", "preamble", "C", "ACK", "NAK", "CAN", "done", "block",
          "eot", "start", "cont", "echo", "upload"}
Msgs == [k : Words, seq : Int, n : Int]

Kinds ==
  /\ {rx, tx, acc} \subseteq Seq(Msgs) /\ slot \in Seq(Int)
  /\ {seq, o, got} \subseteq Int /\ call \in Nat \ {0}

\* Where each family can be, and the lines and the co-processor there.
Lines ==
  /\ fam \in {"xmodem", "smp", "esp"}
  /\ pc \in XPlaces => fam = "xmodem"
  /\ pc \in SPlaces => fam = "smp"
  /\ pc \in EPlaces => fam = "esp"
  /\ pc = "send" => fam # "esp"
  /\ pc \in XPlaces \cup SPlaces \cup EPlaces \cup Outside \cup {"send"}
  /\ pc \notin Outside => pins
  /\ pc \in Outside \/ fam = "esp" \/ (fam = "xmodem" /\ pc # "menu") => ~strap
  /\ pc \in Outside /\ (~pins \/ fam # "xmodem" \/ (pc = "returned" /\ rc # "OK")) => ~InLoader
  /\ fam = "smp" => dev \in {"app", "stuck", "smp"}
  /\ fam = "xmodem" => dev \in {"app", "stuck", "menu", "upload"}
  /\ fam = "esp" \/ (fam = "smp" /\ pc \in Outside) => tx = <<>>

\* XMODEM: what the host can have left to read at each place ...
Heard ==
  /\ pc = "start"    => rx \in {<<>>, <<Byte("ready")>>}
  /\ pc = "menu"     => rx \in {<<>>, <<Byte("ready")>>, <<Byte("menu")>>,
                                <<Byte("ready"), Byte("ready")>>, <<Byte("ready"), Byte("menu")>>}
  /\ pc = "preamble" => rx \in {<<>>, <<Byte("preamble"), Byte("C")>>, <<Byte("C")>>}
  /\ pc = "asked"    => rx \in {<<>>, <<Byte("C")>>}
  /\ pc = "send"     => rx = <<>>
  /\ pc = "reply"    => rx \in {<<>>, <<Byte("ACK")>>, <<Byte("NAK")>>, <<Byte("CAN")>>}
  /\ pc = "eot"      => rx \in {<<>>, <<Byte("ACK"), Byte("menu")>>, <<Byte("menu")>>,
                                <<Byte("ACK"), Byte("done"), Byte("menu")>>,
                                <<Byte("done"), Byte("menu")>>}
  /\ pc = "done"     => rx \in {<<>>, <<Byte("done"), Byte("menu")>>, <<Byte("menu")>>}
  /\ pc = "returned" => rx \in {<<>>, <<Byte("ready")>>, <<Byte("menu")>>,
                                <<Byte("menu"), Byte("ready")>>}
  /\ pc = "returned" /\ rc # "OK" => rx \in {<<>>, <<Byte("ready")>>}
  /\ rx \in {<<Byte("ACK"), Byte("done"), Byte("menu")>>, <<Byte("done"), Byte("menu")>>}
       => slot = Image

\* ... and what it can have under way: nothing, while there is something to read.
Said ==
  /\ pc \in {"menu", "asked", "send", "done"} => tx = <<>>
  /\ pc = "preamble" => tx \in {<<>>, <<Byte("one")>>}
  /\ pc = "reply"    => tx = <<>> \/ \E s, n \in Int : tx = <<Msg("block", s, n)>>
  /\ pc = "eot"      => tx \in {<<>>, <<Byte("eot")>>}
  /\ pc \in Outside  => tx \in {<<>>, <<Byte("two")>>}
  /\ ~pins \/ (pc = "returned" /\ rc # "OK") => tx = <<>>
  /\ tx # <<>> => rx = <<>> \/ (pc = "returned" /\ rx = <<Byte("menu")>>)

Xmodems == fam = "xmodem" => Heard /\ Said

\* SMP, in a call on a clean port.
Starting == pc \in {"entry", "echo", "echoed"}
Upload(i) == tx[i].k = "upload"

\* A reply of this call: an echo's, an error, or where the device is or has been.
Own(n) == n = NoOff \/ (n \in 1 .. Blocks /\ got > 0 /\ (n = Blocks => got = Blocks))

Written ==
  /\ got \in 0 .. Blocks /\ o \in 0 .. Blocks - 1
  /\ got > 0 => slot = [i \in 1 .. got |-> i]
  /\ Starting => got = 0 /\ o = 0
  /\ o > 0 => got > 0
  /\ got > 1 => o > 0

Asked ==
  /\ \A i \in DOMAIN tx : Upload(i) =>
       ~Starting /\ tx[i].n \in 0 .. Blocks - 1 /\ (tx[i].n > 0 => o > 0) /\ (got > 1 => tx[i].n > 0)
  /\ \A i, j \in DOMAIN tx : i < j /\ Upload(i) /\ Upload(j) /\ tx[i].n > 0 => tx[j].n > 0

Replied == Len(acc) <= 1 /\ \A i \in DOMAIN rx : rx[i].k = "cont" => Own(rx[i].n)

Smps ==
  fam = "smp" => /\ pc = "start" => o = 0 /\ (Clean => rx = <<>>)
                 /\ Clean /\ pc \notin Outside => Written /\ Asked /\ Replied

FlashInv == Kinds /\ Lines /\ Xmodems /\ Smps /\ WholeWhenOk /\ OutOfLoader

\* A line read, and lines added.
LEMMA Shorter ==
  ASSUME NEW s \in Seq(Msgs), s # <<>>
  PROVE  /\ Tail(s) \in Seq(Msgs) /\ Head(s) \in Msgs /\ 1 \in DOMAIN s /\ Head(s) = s[1]
         /\ \A i \in DOMAIN Tail(s) : i \in Int /\ i + 1 \in DOMAIN s /\ Tail(s)[i] = s[i + 1]
<1>1. Len(s) \in Nat /\ Len(s) >= 1 /\ DOMAIN s = 1 .. Len(s)
  BY EmptySeq, LenProperties
<1>2. Tail(s) \in Seq(Msgs) /\ Len(Tail(s)) = Len(s) - 1 /\ Head(s) = s[1]
  BY HeadTailProperties
<1>3. \A i \in 1 .. Len(s) - 1 : Tail(s)[i] = s[i + 1]
  BY HeadTailProperties
<1>4. DOMAIN Tail(s) = 1 .. Len(s) - 1
  BY <1>2, LenProperties
<1>5. s[1] \in Msgs
  BY <1>1, ElementOfSeq
<1> QED
  BY <1>1, <1>2, <1>3, <1>4, <1>5

LEMMA Longer ==
  ASSUME NEW s \in Seq(Msgs), NEW m \in Msgs
  PROVE  /\ Append(s, m) \in Seq(Msgs) /\ DOMAIN s \subseteq DOMAIN Append(s, m)
         /\ \A i \in DOMAIN Append(s, m) :
              \/ i \in DOMAIN s /\ Append(s, m)[i] = s[i]
              \/ (\A j \in DOMAIN s : j < i) /\ Append(s, m)[i] = m
         /\ \A i, j \in DOMAIN Append(s, m) : i < j => i \in DOMAIN s
<1>1. Len(s) \in Nat /\ DOMAIN s = 1 .. Len(s)
  BY LenProperties
<1>2. /\ Append(s, m) \in Seq(Msgs) /\ Len(Append(s, m)) = Len(s) + 1
      /\ \A i \in 1 .. Len(s) : Append(s, m)[i] = s[i]
      /\ Append(s, m)[Len(s) + 1] = m
  BY AppendProperties
<1>3. DOMAIN Append(s, m) = 1 .. Len(s) + 1
  BY <1>2, LenProperties
<1> QED
  BY <1>1, <1>2, <1>3

LEMMA Joined ==
  ASSUME NEW s \in Seq(Msgs), NEW t \in Seq(Msgs)
  PROVE  /\ s \o t \in Seq(Msgs)
         /\ \A i \in DOMAIN (s \o t) : \/ \E j \in DOMAIN s : (s \o t)[i] = s[j]
                                       \/ \E j \in DOMAIN t : (s \o t)[i] = t[j]
<1>1. Len(s) \in Nat /\ Len(t) \in Nat /\ DOMAIN s = 1 .. Len(s) /\ DOMAIN t = 1 .. Len(t)
  BY LenProperties
<1>2. /\ s \o t \in Seq(Msgs) /\ Len(s \o t) = Len(s) + Len(t)
      /\ \A i \in 1 .. Len(s) + Len(t) : (s \o t)[i] = IF i <= Len(s) THEN s[i] ELSE t[i - Len(s)]
  BY ConcatProperties
<1>3. DOMAIN (s \o t) = 1 .. Len(s) + Len(t)
  BY <1>2, LenProperties
<1>4. \A i \in DOMAIN (s \o t) : IF i <= Len(s) THEN i \in DOMAIN s ELSE i - Len(s) \in DOMAIN t
  BY <1>1, <1>3
<1> QED
  BY <1>2, <1>3, <1>4

LEMMA Bytes ==
  /\ \A k \in Words : Byte(k) \in Msgs /\ Byte(k).k = k /\ <<Byte(k)>> \in Seq(Msgs)
  /\ \A k \in Words, s, n \in Int : Msg(k, s, n) \in Msgs /\ Msg(k, s, n).k = k /\ Msg(k, s, n).n = n
  /\ <<>> \in Seq(Msgs)
  BY DEF Byte, Msg, Msgs

LEMMA Prompts ==
  /\ Byte("menu") \in Msgs /\ Byte("menu").k = "menu" /\ <<Byte("menu")>> \in Seq(Msgs)
  /\ Byte("ready") \in Msgs /\ Byte("ready").k = "ready" /\ <<Byte("ready")>> \in Seq(Msgs)
<1>1. "menu" \in Words /\ "ready" \in Words
  BY DEF Words
<1> QED
  BY <1>1, Bytes

LEMMA FlashInit == Init => FlashInv
<1> SUFFICES ASSUME Init  PROVE FlashInv
  OBVIOUS
<1> USE DEF Init
<1>1. Kinds /\ Lines
  BY FlashAssumption DEF Kinds, Lines, FlashAssumption, Old, XPlaces, SPlaces, EPlaces, Outside, InLoader
<1>2. Xmodems /\ Smps
  BY DEF Xmodems, Heard, Said, Smps, Outside
<1> QED
  BY <1>1, <1>2 DEF FlashInv, WholeWhenOk, OutOfLoader

\* The short lists of XMODEM.
LEMMA Single ==
  ASSUME NEW a
  PROVE  /\ Head(<<a>>) = a /\ Tail(<<a>>) = <<>> /\ <<a>> # <<>> /\ <<a>>[1] = a /\ DOMAIN <<a>> = {1}
         /\ <<>> \o <<a>> = <<a>> /\ <<a>> \o <<>> = <<a>> /\ Append(<<>>, a) = <<a>>
  OBVIOUS

LEMMA Pair ==
  ASSUME NEW a, NEW b
  PROVE  /\ Head(<<a, b>>) = a /\ Tail(<<a, b>>) = <<b>> /\ <<a, b>> # <<>>
         /\ <<a>> \o <<b>> = <<a, b>> /\ <<>> \o <<a, b>> = <<a, b>>
<1>1. Head(<<a, b>>) = a /\ Tail(<<a, b>>) = <<b>> /\ <<a, b>> # <<>>
  OBVIOUS
<1>2. <<a>> \o <<b>> = <<a, b>>
  <2>1. <<a>> \in Seq({a, b}) /\ <<b>> \in Seq({a, b}) /\ <<a, b>> \in Seq({a, b})
    OBVIOUS
  <2>2. Len(<<a>>) = 1 /\ Len(<<b>>) = 1 /\ Len(<<a, b>>) = 2
    OBVIOUS
  <2>3. /\ <<a>> \o <<b>> \in Seq({a, b}) /\ Len(<<a>> \o <<b>>) = 2
        /\ \A i \in 1 .. 2 : (<<a>> \o <<b>>)[i] = IF i <= 1 THEN <<a>>[i] ELSE <<b>>[i - 1]
    BY <2>1, <2>2, ConcatProperties
  <2>4. \A i \in 1 .. 2 : (<<a>> \o <<b>>)[i] = <<a, b>>[i]
    BY <2>3
  <2> QED
    BY <2>1, <2>2, <2>3, <2>4, SeqEqual
<1>3. <<>> \o <<a, b>> = <<a, b>>
  OBVIOUS
<1> QED
  BY <1>1, <1>2, <1>3

LEMMA Triple ==
  ASSUME NEW a, NEW b, NEW c
  PROVE  /\ Head(<<a, b, c>>) = a /\ Tail(<<a, b, c>>) = <<b, c>> /\ <<a, b, c>> # <<>>
         /\ <<>> \o <<a, b, c>> = <<a, b, c>> /\ <<a, b>> \o <<c>> = <<a, b, c>>
<1>1. /\ Head(<<a, b, c>>) = a /\ Tail(<<a, b, c>>) = <<b, c>> /\ <<a, b, c>> # <<>>
      /\ <<>> \o <<a, b, c>> = <<a, b, c>>
  OBVIOUS
<1>2. <<a, b>> \o <<c>> = <<a, b, c>>
  <2>1. <<a, b>> \in Seq({a, b, c}) /\ <<c>> \in Seq({a, b, c}) /\ <<a, b, c>> \in Seq({a, b, c})
    OBVIOUS
  <2>2. Len(<<a, b>>) = 2 /\ Len(<<c>>) = 1 /\ Len(<<a, b, c>>) = 3
    OBVIOUS
  <2>3. /\ <<a, b>> \o <<c>> \in Seq({a, b, c}) /\ Len(<<a, b>> \o <<c>>) = 3
        /\ \A i \in 1 .. 3 : (<<a, b>> \o <<c>>)[i] = IF i <= 2 THEN <<a, b>>[i] ELSE <<c>>[i - 2]
    BY <2>1, <2>2, ConcatProperties
  <2>4. \A i \in 1 .. 3 : (<<a, b>> \o <<c>>)[i] = <<a, b, c>>[i]
    BY <2>3
  <2> QED
    BY <2>1, <2>2, <2>3, <2>4, SeqEqual
<1> QED
  BY <1>1, <1>2

---------------------------------------------------------------------------
\* A reset, and what the co-processor prints at it.
LEMMA Resets ==
  ASSUME Kinds, NEW asserted \in BOOLEAN, NEW unread \in Seq(Msgs), Reset(asserted, unread)
  PROVE  /\ rx' \in Seq(Msgs) /\ got' = 0 /\ tx' = <<>> /\ slot' = slot
         /\ \A i \in DOMAIN rx' : \/ \E j \in DOMAIN unread : rx'[i] = unread[j]
                                  \/ rx'[i].k \in {"menu", "ready"}
         /\ rx' \in {unread, unread \o <<Byte("menu")>>, unread \o <<Byte("ready")>>}
         /\ dev' \in {"app", "stuck", Loader} /\ (~asserted => dev' \in {"app", "stuck"})
         /\ dev' # "menu" => rx' \in {unread, unread \o <<Byte("ready")>>}
<1> USE DEF Reset
<1>1. dev' \in {"app", "stuck", Loader} /\ (~asserted => dev' \in {"app", "stuck"})
  BY DEF Boots
<1>2. \/ rx' = unread \o <<Byte("menu")>> /\ dev' = "menu"
      \/ rx' = unread \o <<Byte("ready")>>
      \/ rx' = unread \o <<>>
  OBVIOUS
<1>3. unread \o <<>> = unread
  BY ConcatEmptySeq
<1>4. /\ <<Byte("menu")>> \in Seq(Msgs) /\ <<Byte("menu")>>[1].k = "menu" /\ DOMAIN <<Byte("menu")>> = {1}
      /\ <<Byte("ready")>> \in Seq(Msgs) /\ <<Byte("ready")>>[1].k = "ready" /\ DOMAIN <<Byte("ready")>> = {1}
  BY Prompts, Single
<1>5. CASE rx' = unread \o <<Byte("menu")>> /\ dev' = "menu"
  <2>1. /\ rx' \in Seq(Msgs)
        /\ \A i \in DOMAIN rx' : \/ \E j \in DOMAIN unread : rx'[i] = unread[j]
                                 \/ \E j \in DOMAIN <<Byte("menu")>> : rx'[i] = <<Byte("menu")>>[j]
    BY <1>4, <1>5, Joined
  <2> QED
    BY <1>1, <1>4, <1>5, <2>1
<1>6. CASE rx' = unread \o <<Byte("ready")>>
  <2>1. /\ rx' \in Seq(Msgs)
        /\ \A i \in DOMAIN rx' : \/ \E j \in DOMAIN unread : rx'[i] = unread[j]
                                 \/ \E j \in DOMAIN <<Byte("ready")>> : rx'[i] = <<Byte("ready")>>[j]
    BY <1>4, <1>6, Joined
  <2> QED
    BY <1>1, <1>4, <1>6, <2>1
<1>7. CASE rx' = unread
  BY <1>1, <1>7
<1> QED
  BY <1>2, <1>3, <1>5, <1>6, <1>7

\* Every way out of flash() but the good end of XMODEM and the refusals.
LEMMA FlashExit ==
  ASSUME FlashInv, NEW code, NEW unread \in Seq(Msgs), Exit(code, unread),
         pc \notin Outside, fam = "xmodem" => unread = <<>>,
         code = "OK" /\ Clean => slot = Image
  PROVE  FlashInv'
<1> USE DEF FlashInv, Exit, Return, progress, Outside
<1>0. Reset(FALSE, unread)
  OBVIOUS
<1>1. /\ rx' \in Seq(Msgs) /\ got' = 0 /\ tx' = <<>> /\ slot' = slot
      /\ rx' \in {unread, unread \o <<Byte("ready")>>} /\ dev' \in {"app", "stuck"}
  BY <1>0, Resets
<1>2. Kinds'
  BY <1>1, EmptySeq DEF Kinds
<1>3. Lines' /\ OutOfLoader'
  BY <1>1 DEF Lines, OutOfLoader, InLoader, XPlaces, SPlaces, EPlaces
<1>4. Xmodems'
  <2>1. fam = "xmodem" => rx' \in {<<>>, <<Byte("ready")>>}
    BY <1>1
  <2> QED
    BY <1>1, <2>1 DEF Xmodems, Heard, Said, Byte, Msg
<1>5. Smps' /\ WholeWhenOk'
  BY <1>1 DEF Smps, WholeWhenOk, Clean, Image
<1> QED
  BY <1>2, <1>3, <1>4, <1>5

\* The strap and the reset at the start of a call, or of the next attempt of it.
LEMMA FlashEnter ==
  ASSUME FlashInv, XEnter \/ SEnter \/ EConnect
  PROVE  FlashInv'
<1> USE DEF FlashInv, Enter, Outside
<1>0. /\ Reset(TRUE, rx) /\ pins /\ UNCHANGED <<fam, pins, ownPort, call, rc, o, seq>>
      /\ strap' = (fam # "esp") /\ acc' \in {acc, <<>>}
  BY DEF XEnter, SEnter, EConnect
<1>1. /\ rx' \in Seq(Msgs) /\ got' = 0 /\ tx' = <<>> /\ slot' = slot
      /\ \A i \in DOMAIN rx' : \/ \E j \in DOMAIN rx : rx'[i] = rx[j]
                               \/ rx'[i].k \in {"menu", "ready"}
      /\ rx' \in {rx, rx \o <<Byte("menu")>>, rx \o <<Byte("ready")>>}
      /\ dev' \in {"app", "stuck", Loader}
  BY <1>0, Resets DEF Kinds
<1>2. Kinds'
  <2>1. acc' \in Seq(Msgs) /\ tx' \in Seq(Msgs)
    BY <1>0, <1>1, EmptySeq DEF Kinds
  <2>2. seq' \in Int /\ o' \in Int /\ got' \in Int /\ slot' \in Seq(Int) /\ call' \in Nat \ {0}
    BY <1>0, <1>1 DEF Kinds
  <2> QED
    BY <1>1, <2>1, <2>2 DEF Kinds
<1>3. pc' \notin Outside
  BY DEF XEnter, SEnter, EConnect
<1>4. WholeWhenOk' /\ OutOfLoader'
  BY <1>3 DEF WholeWhenOk, OutOfLoader
<1>5. Lines'
  BY <1>0, <1>1 DEF Lines, XEnter, SEnter, EConnect, XPlaces, SPlaces, EPlaces, Loader
<1>6. Xmodems'
  <2>1. CASE XEnter
    <3>1. rx \in {<<>>, <<Byte("ready")>>} /\ pc' = "menu" /\ fam' = "xmodem"
      BY <2>1 DEF Xmodems, Heard, XEnter
    <3>2. rx' \in {<<>>, <<Byte("ready")>>, <<Byte("menu")>>,
                   <<Byte("ready"), Byte("ready")>>, <<Byte("ready"), Byte("menu")>>}
      <4>1. CASE rx = <<>>
        BY <1>1, <4>1, Single
      <4>2. CASE rx = <<Byte("ready")>>
        <5>1. <<Byte("ready")>> \o <<Byte("menu")>> = <<Byte("ready"), Byte("menu")>>
          BY Pair
        <5>2. <<Byte("ready")>> \o <<Byte("ready")>> = <<Byte("ready"), Byte("ready")>>
          BY Pair
        <5> QED
          BY <1>1, <4>2, <5>1, <5>2
      <4> QED
        BY <3>1, <4>1, <4>2
    <3> QED
      BY <1>1, <3>1, <3>2 DEF Xmodems, Heard, Said, Byte, Msg
  <2>2. CASE SEnter \/ EConnect
    BY <1>0, <2>2 DEF Xmodems, SEnter, EConnect
  <2> QED
    BY <2>1, <2>2
<1>7. Smps'
  <2>1. CASE SEnter /\ Clean
    <3>1. o = 0
      BY <2>1 DEF SEnter, Smps, Written, Starting
    <3>2. \A i \in DOMAIN rx : rx[i].k = "cont" => rx[i].n = NoOff
      <4>1. CASE pc = "start"
        BY <2>1, <4>1 DEF SEnter, Smps
      <4>2. CASE pc = "entry"
        BY <2>1, <4>2 DEF SEnter, Smps, Written, Starting, Replied, Own
      <4> QED
        BY <2>1, <4>1, <4>2 DEF SEnter
    <3>3. pc' = "echo" /\ acc' = <<>>
      BY <2>1 DEF SEnter
    <3>4. Written'
      BY <1>0, <1>1, <3>1, FlashAssumption DEF Written, FlashAssumption
    <3>5. Asked' /\ Replied'
      BY <1>1, <3>2, <3>3 DEF Asked, Replied, Own, Upload
    <3> QED
      BY <3>3, <3>4, <3>5 DEF Smps
  <2>2. CASE ~(SEnter /\ Clean)
    BY <1>0, <2>2 DEF Smps, Clean, XEnter, EConnect, SEnter
  <2> QED
    BY <2>1, <2>2
<1> QED
  BY <1>2, <1>4, <1>5, <1>6, <1>7

---------------------------------------------------------------------------
LEMMA Successor == ASSUME NEW s \in Int  PROVE Succ(s) \in Int
  BY FlashAssumption DEF Succ, FlashAssumption

\* What is left to read when XMODEM has read a byte, or the line has lost it.
LEMMA XTook ==
  ASSUME Heard, fam = "xmodem", rx # <<>>
  PROVE  /\ pc = "start" => Tail(rx) = <<>>
         /\ pc = "menu" => /\ Tail(rx) \in {<<>>, <<Byte("ready")>>, <<Byte("menu")>>}
                           /\ Head(rx).k = "menu" => Tail(rx) = <<>>
         /\ pc = "preamble" => /\ Tail(rx) \in {<<>>, <<Byte("C")>>}
                               /\ Head(rx).k = "preamble" => Tail(rx) = <<Byte("C")>>
         /\ pc \in {"asked", "send", "reply"} => Tail(rx) = <<>>
         /\ pc = "eot" => /\ Tail(rx) \in {<<>>, <<Byte("menu")>>, <<Byte("done"), Byte("menu")>>}
                          /\ Tail(rx) = <<Byte("done"), Byte("menu")>> => slot = Image
                          /\ Head(rx).k = "ACK" => Tail(rx) # <<>>
         /\ pc = "done" => /\ Tail(rx) \in {<<>>, <<Byte("menu")>>}
                           /\ Head(rx).k = "done" => Tail(rx) = <<Byte("menu")>> /\ slot = Image
         /\ pc = "returned" => Tail(rx) \in {<<>>, <<Byte("ready")>>}
         /\ pc = "returned" /\ rc # "OK" => Tail(rx) = <<>>
<1>1. \A a, b : Byte(a).k = a /\ (Byte(a) = Byte(b) => a = b)
  BY DEF Byte, Msg
<1>2. \A a : Head(<<a>>) = a /\ Tail(<<a>>) = <<>> /\ <<a>> # <<>>
  BY Single
<1>3. \A a, b : Head(<<a, b>>) = a /\ Tail(<<a, b>>) = <<b>> /\ <<a, b>> # <<>>
  BY Pair
<1>4. \A a, b, c : Head(<<a, b, c>>) = a /\ Tail(<<a, b, c>>) = <<b, c>> /\ <<a, b, c>> # <<>>
  BY Triple
<1>5. CASE pc \in {"start", "menu"}
  <2>1. CASE rx \in {<<Byte("ready")>>, <<Byte("menu")>>}
    <3>1. Tail(rx) = <<>>
      BY <1>2, <2>1
    <3> QED
      BY <1>5, <3>1
  <2>2. CASE rx \in {<<Byte("ready"), Byte("ready")>>, <<Byte("ready"), Byte("menu")>>} /\ pc = "menu"
    <3>1. Tail(rx) \in {<<Byte("ready")>>, <<Byte("menu")>>} /\ Head(rx).k = "ready"
      BY <1>1, <1>3, <2>2
    <3> QED
      BY <2>2, <3>1
  <2> QED
    BY <1>5, <2>1, <2>2 DEF Heard
<1>6. CASE pc \in {"preamble", "asked"}
  <2>1. CASE rx = <<Byte("C")>>
    <3>1. Tail(rx) = <<>> /\ Head(rx).k = "C"
      BY <1>1, <1>2, <2>1
    <3> QED
      BY <1>6, <3>1
  <2>2. CASE rx = <<Byte("preamble"), Byte("C")>> /\ pc = "preamble"
    <3>1. Tail(rx) = <<Byte("C")>>
      BY <1>3, <2>2
    <3> QED
      BY <2>2, <3>1
  <2> QED
    BY <1>6, <2>1, <2>2 DEF Heard
<1>7. CASE pc \in {"send", "reply", "returned"}
  BY <1>1, <1>2, <1>3, <1>7, ZenonT(30) DEF Heard
<1>8. CASE pc = "eot"
  <2>1. CASE rx = <<Byte("ACK"), Byte("menu")>>
    <3>1. Tail(rx) = <<Byte("menu")>> /\ <<Byte("menu")>> # <<Byte("done"), Byte("menu")>>
      BY <1>3, <2>1
    <3> QED
      BY <1>2, <1>8, <3>1
  <2>2. CASE rx = <<Byte("menu")>>
    <3>1. Tail(rx) = <<>> /\ Head(rx).k = "menu" /\ <<>> # <<Byte("done"), Byte("menu")>>
      BY <1>1, <1>2, <2>2
    <3> QED
      BY <1>8, <3>1
  <2>3. CASE rx = <<Byte("ACK"), Byte("done"), Byte("menu")>>
    <3>1. Tail(rx) = <<Byte("done"), Byte("menu")>> /\ slot = Image
      BY <1>4, <2>3 DEF Heard
    <3> QED
      BY <1>3, <1>8, <3>1
  <2>4. CASE rx = <<Byte("done"), Byte("menu")>>
    <3>1. Tail(rx) = <<Byte("menu")>> /\ slot = Image /\ Head(rx).k = "done"
      BY <1>1, <1>3, <2>4 DEF Heard
    <3> QED
      BY <1>8, <3>1
  <2> QED
    BY <1>8, <2>1, <2>2, <2>3, <2>4 DEF Heard
<1>9. CASE pc = "done"
  <2>1. CASE rx = <<Byte("menu")>>
    <3>1. Tail(rx) = <<>> /\ Head(rx).k = "menu"
      BY <1>1, <1>2, <2>1
    <3> QED
      BY <1>9, <3>1
  <2>2. CASE rx = <<Byte("done"), Byte("menu")>>
    <3>1. Tail(rx) = <<Byte("menu")>> /\ slot = Image
      BY <1>3, <2>2 DEF Heard
    <3> QED
      BY <1>9, <3>1
  <2> QED
    BY <1>9, <2>1, <2>2 DEF Heard
<1> QED
  BY <1>5, <1>6, <1>7, <1>8, <1>9

\* The conversation up to the first block.
LEMMA XBegin ==
  ASSUME FlashInv, XMenu \/ XPreamble \/ XAsked \/ XSend
  PROVE  FlashInv'
<1> USE DEF FlashInv, Quiet, progress, device, Took, Outside, XMenu, XPreamble, XAsked, XSend
<1>1. /\ fam = "xmodem" /\ pins /\ UNCHANGED <<fam, pins, ownPort, call, rc, dev, slot, got, o, acc>>
      /\ Heard /\ Said /\ pc' \notin Outside /\ strap' \in {strap, FALSE}
  BY DEF Lines, XPlaces, Xmodems
<1>2. seq' \in Int /\ rx' \in Seq(Msgs)
  <2>1. seq' \in {seq, 1} /\ (rx' = rx \/ (rx # <<>> /\ rx' = Tail(rx)))
    OBVIOUS
  <2>2. rx # <<>> => Tail(rx) \in Seq(Msgs)
    BY Shorter DEF Kinds
  <2>3. seq \in Int /\ rx \in Seq(Msgs)
    BY DEF Kinds
  <2> HIDE DEF XMenu, XPreamble, XAsked, XSend, FlashInv
  <2> QED
    BY <2>1, <2>2, <2>3
<1>3. tx = <<>> /\ (XMenu \/ XPreamble \/ XAsked => rx' = Tail(rx) /\ rx # <<>>)
  BY <1>1 DEF Said
<1>4. /\ tx' \in Seq(Msgs)
      /\ XMenu => tx' = <<Byte("one")>>
      /\ XSend => \E s, n \in Int : tx' = <<Msg("block", s, n)>>
      /\ XPreamble \/ XAsked => tx' = <<>>
  <2>1. CASE XMenu
    BY <1>3, <2>1, Bytes, Single DEF Words
  <2>2. CASE XPreamble \/ XAsked
    BY <1>3, <2>2, Bytes
  <2>3. CASE XSend
    <3>1. Msg("block", seq, o + 1) \in Msgs /\ seq \in Int /\ o + 1 \in Int
      <4>1. seq \in Int /\ o + 1 \in Int
        BY DEF Kinds
      <4>2. "block" \in Words
        BY DEF Words
      <4> QED
        BY <4>1, <4>2, Bytes
    <3>2. tx' = <<Msg("block", seq, o + 1)>> /\ <<Msg("block", seq, o + 1)>> \in Seq(Msgs)
      BY <1>3, <2>3, <3>1, Single DEF Block
    <3> QED
      BY <2>3, <3>1, <3>2
  <2> QED
    BY <2>1, <2>2, <2>3
<1>5. Kinds'
  BY <1>1, <1>2, <1>4 DEF Kinds
<1>6. Lines'
  BY <1>1 DEF Lines, XPlaces, SPlaces, EPlaces, InLoader
<1>7. Xmodems'
  <2>1. /\ XMenu => pc' = "preamble" /\ rx' = <<>>
        /\ XPreamble => pc' = "asked" /\ rx' = <<Byte("C")>>
        /\ XAsked => pc' = "send" /\ rx' = <<>>
        /\ XSend => pc' = "reply" /\ rx' = <<>>
    BY <1>1, <1>3, XTook DEF Heard
  <2>2. <<>> # <<Byte("done"), Byte("menu")>> /\ <<Byte("C")>> # <<Byte("done"), Byte("menu")>>
        /\ <<>> # <<Byte("ACK"), Byte("done"), Byte("menu")>>
        /\ <<Byte("C")>> # <<Byte("ACK"), Byte("done"), Byte("menu")>>
    OBVIOUS
  <2>3. Heard'
    BY <1>1, <2>1, <2>2 DEF Heard
  <2>4. Said'
    BY <1>1, <1>4, <2>1 DEF Said
  <2> QED
    BY <2>3, <2>4 DEF Xmodems
<1>8. Smps' /\ WholeWhenOk' /\ OutOfLoader'
  BY <1>1 DEF Smps, WholeWhenOk, OutOfLoader
<1> QED
  BY <1>5, <1>6, <1>7, <1>8

\* No other list is the one that ends a good upload.
LEMMA Distinct ==
  ASSUME NEW r \in {<<>>, <<Byte("menu")>>, <<Byte("ready")>>, <<Byte("C")>>, <<Byte("ACK")>>, <<Byte("NAK")>>,
                    <<Byte("CAN")>>, <<Byte("preamble"), Byte("C")>>, <<Byte("ACK"), Byte("menu")>>}
  PROVE  r \notin {<<Byte("ACK"), Byte("done"), Byte("menu")>>, <<Byte("done"), Byte("menu")>>}
<1>1. \A a, b : Byte(a) = Byte(b) => a = b
  BY DEF Byte, Msg
<1>2. \A a, b, c : <<a>> # <<b, c>> /\ <<>> # <<a, b>> /\ <<>> # <<a, b, c>>
  OBVIOUS
<1>3. \A a, b, c, d : /\ <<a>> # <<b, c, d>>
                      /\ <<a, b>> = <<c, d>> => a = c
  OBVIOUS
<1>4. \A a, b, c, d, e : <<a, b>> # <<c, d, e>>
  OBVIOUS
<1> QED
  BY <1>1, <1>2, <1>3, <1>4

\* The answer to a block: the same block again, the next one, or the end.
LEMMA XReplied ==
  ASSUME FlashInv, XAck \/ XNak
  PROVE  FlashInv'
<1> USE DEF FlashInv, Quiet, progress, device, Took, Outside
<1>1. /\ pc = "reply" /\ rx # <<>> /\ rx' = Tail(rx) /\ UNCHANGED <<fam, pins, ownPort, call, rc, dev, slot, got, acc, strap>>
      /\ \/ pc' = "reply" /\ UNCHANGED <<o, seq>> /\ tx' = Block
         \/ o' = o + 1 /\ seq' = Succ(seq) /\ pc' = "eot" /\ tx' = Append(tx, Byte("eot"))
         \/ o' = o + 1 /\ seq' = Succ(seq) /\ pc' = "send" /\ tx' = tx
  BY DEF XAck, XNak, XAdvance
<1>2. fam = "xmodem" /\ Heard /\ Said /\ pins /\ {rx, tx, acc} \subseteq Seq(Msgs) /\ slot \in Seq(Int)
      /\ {seq, o, got} \subseteq Int /\ call \in Nat \ {0}
  BY <1>1 DEF Lines, XPlaces, Xmodems, Kinds
<1> HIDE DEF FlashInv
<1>3. rx' = <<>> /\ tx = <<>> /\ <<>> \in Seq(Msgs)
  BY <1>1, <1>2, XTook, EmptySeq DEF Said
<1>4. /\ Msg("block", seq, o + 1) \in Msgs /\ o + 1 \in Int /\ Succ(seq) \in Int
      /\ Byte("eot") \in Msgs
  <2>1. "block" \in Words /\ "eot" \in Words
    BY DEF Words
  <2>2. seq \in Int /\ o + 1 \in Int
    BY <1>2
  <2>3. Succ(seq) \in Int
    BY <2>2, Successor
  <2> QED
    BY <2>1, <2>2, <2>3, Bytes
<1>5. /\ tx' \in Seq(Msgs)
      /\ pc' = "reply" => \E s, n \in Int : tx' = <<Msg("block", s, n)>>
      /\ pc' = "eot" => tx' = <<Byte("eot")>>
      /\ pc' = "send" => tx' = <<>>
  <2>1. CASE pc' = "reply" /\ tx' = Block
    <3>1. tx' = <<Msg("block", seq, o + 1)>> /\ <<Msg("block", seq, o + 1)>> \in Seq(Msgs)
      BY <1>3, <1>4, <2>1, Single DEF Block
    <3> QED
      BY <1>2, <1>4, <2>1, <3>1
  <2>2. CASE pc' = "eot" /\ tx' = Append(tx, Byte("eot"))
    <3>1. tx' = <<Byte("eot")>> /\ <<Byte("eot")>> \in Seq(Msgs)
      BY <1>3, <1>4, <2>2, Single
    <3> QED
      BY <2>2, <3>1
  <2>3. CASE pc' = "send" /\ tx' = tx
    BY <1>3, <2>3
  <2> QED
    BY <1>1, <2>1, <2>2, <2>3
<1>6. pc' \in {"reply", "eot", "send"} /\ seq' \in Int /\ o' \in Int
  BY <1>1, <1>2, <1>4
<1>7. Kinds'
  BY <1>1, <1>2, <1>3, <1>5, <1>6 DEF Kinds
<1>8. Lines'
  BY <1>1, <1>2, <1>6 DEF FlashInv, Lines, XPlaces, SPlaces, EPlaces, InLoader
<1>9. Xmodems'
  <2>1. Heard'
    BY <1>3, <1>6, Distinct DEF Heard
  <2>2. Said'
    BY <1>1, <1>2, <1>3, <1>5, <1>6 DEF Said
  <2> QED
    BY <2>1, <2>2 DEF Xmodems
<1>10. Smps' /\ WholeWhenOk' /\ OutOfLoader'
  BY <1>1, <1>2, <1>6 DEF Smps, WholeWhenOk, OutOfLoader
<1> QED
  BY <1>7, <1>8, <1>9, <1>10 DEF FlashInv

\* The end of the upload, and the bytes no wait looks for.
LEMMA XEnd ==
  ASSUME FlashInv, XEotTaken \/ XDone \/ XSkip
  PROVE  FlashInv'
<1> USE DEF FlashInv, Quiet, progress, device, Took, Outside, Return
<1>1. /\ rx # <<>> /\ rx' = Tail(rx)
      /\ UNCHANGED <<fam, pins, ownPort, call, dev, slot, got, acc, o, seq, strap>>
      /\ \/ pc = "eot" /\ pc' = "done" /\ tx' = tx /\ rc' = rc /\ Head(rx).k = "ACK"
         \/ pc = "done" /\ pc' = "returned" /\ tx' = Append(tx, Byte("two")) /\ rc' = "OK" /\ Head(rx).k = "done"
         \/ pc \in XPlaces /\ pc' = pc /\ tx' = tx /\ rc' = rc
  BY DEF XEotTaken, XDone, XSkip, XWants, XPlaces
<1>2. fam = "xmodem" /\ Heard /\ Said /\ pins /\ {rx, tx, acc} \subseteq Seq(Msgs) /\ slot \in Seq(Int)
      /\ {seq, o, got} \subseteq Int /\ call \in Nat \ {0} /\ (pc # "menu" => ~strap)
  BY <1>1 DEF Lines, XPlaces, Xmodems, Kinds
<1>3. pc \notin Outside
  BY <1>1 DEF XPlaces
<1>4. tx = <<>> /\ <<>> \in Seq(Msgs)
  BY <1>1, <1>2, <1>3, EmptySeq DEF Said
<1> HIDE DEF FlashInv
<1>5. Tail(rx) \in Seq(Msgs)
  BY <1>1, <1>2, Shorter
<1>6. /\ tx' \in {<<>>, <<Byte("two")>>} /\ tx' \in Seq(Msgs)
      /\ pc' # "returned" => tx' = <<>>
  <2>1. Append(tx, Byte("two")) = <<Byte("two")>> /\ <<Byte("two")>> \in Seq(Msgs)
    <3>1. "two" \in Words
      BY DEF Words
    <3> QED
      BY <1>4, <3>1, Bytes, Single
  <2> QED
    BY <1>1, <1>3, <1>4, <2>1
<1>7. Kinds'
  BY <1>1, <1>2, <1>5, <1>6 DEF Kinds
<1>8. Lines'
  BY <1>1, <1>2, <1>3 DEF FlashInv, Lines, XPlaces, SPlaces, EPlaces, InLoader
<1>9. Heard' /\ (pc' = "returned" => slot = Image /\ rx' = <<Byte("menu")>>)
  <2>1. CASE pc = "eot" /\ pc' = "done"
    BY <1>1, <1>2, <2>1, XTook, Distinct DEF Heard
  <2>2. CASE pc = "done" /\ pc' = "returned"
    BY <1>1, <1>2, <2>2, XTook, Distinct DEF Heard
  <2>3. CASE pc \in XPlaces /\ pc' = pc
    <3>1. /\ rx' \in {<<>>, <<Byte("menu")>>, <<Byte("ready")>>, <<Byte("C")>>, <<Byte("done"), Byte("menu")>>}
          /\ rx' = <<Byte("done"), Byte("menu")>> => slot' = Image
      BY <1>1, <1>2, <2>3, XTook, Distinct DEF XPlaces
    <3>2. rx' \in {<<Byte("ACK"), Byte("done"), Byte("menu")>>, <<Byte("done"), Byte("menu")>>} => slot' = Image
      BY <3>1, Distinct
    <3> HIDE DEF Outside
    <3> QED
      BY <1>1, <1>2, <2>3, <3>2, XTook DEF Heard, XPlaces
  <2> QED
    BY <1>1, <2>1, <2>2, <2>3
<1>10. Said'
  <2>1. CASE pc' = "returned"
    BY <1>1, <1>2, <1>6, <1>9, <1>3, <2>1 DEF Said, XPlaces
  <2>2. CASE pc' # "returned"
    BY <1>1, <1>2, <1>3, <1>6, <2>2 DEF Said, XPlaces
  <2> QED
    BY <2>1, <2>2
<1>11. Smps' /\ WholeWhenOk' /\ OutOfLoader'
  BY <1>1, <1>2, <1>3, <1>9 DEF Smps, WholeWhenOk, OutOfLoader, Image, XPlaces
<1> QED
  BY <1>7, <1>8, <1>9, <1>10, <1>11, <1>2 DEF FlashInv, Xmodems

\* The ways out of the three conversations, and the call after them.
LEMMA FlashLeaves ==
  ASSUME FlashInv, SourceFails \/ XCan \/ XTimeout \/ EConnectFails \/ EWriteFails \/ EVerify
  PROVE  FlashInv'
<1>1. rx \in Seq(Msgs) /\ (rx # <<>> => Tail(rx) \in Seq(Msgs))
  BY Shorter DEF FlashInv, Kinds
<1>2. CASE SourceFails
  <2>1. Exit("SOURCE", rx) /\ pc \in {"send", "write"}
    BY <1>2 DEF SourceFails
  <2>2. fam = "xmodem" => rx = <<>>
    BY <2>1 DEF FlashInv, Lines, Xmodems, Heard, EPlaces
  <2> QED
    BY <1>1, <2>1, <2>2, FlashExit DEF Outside
<1>3. CASE XCan
  <2>1. Exit("PROTOCOL", Tail(rx)) /\ pc = "reply" /\ rx # <<>>
    BY <1>3 DEF XCan
  <2>2. fam = "xmodem" => Tail(rx) = <<>>
    BY <2>1, XTook DEF FlashInv, Xmodems
  <2> QED
    BY <1>1, <2>1, <2>2, FlashExit DEF Outside
<1>4. CASE XTimeout
  <2>1. pc \in XPlaces /\ rx = <<>> /\ \E code \in {"ENTER", "PROTOCOL"} : Exit(code, rx)
    BY <1>4 DEF XTimeout, XWants, XPlaces
  <2> QED
    BY <1>1, <2>1, FlashExit DEF Outside, XPlaces
<1>5. CASE EConnectFails \/ EWriteFails \/ EVerify
  <2>1. pc \in EPlaces /\ \E code : Exit(code, rx) /\ (code = "OK" => slot = Image)
    BY <1>5 DEF EConnectFails, EWriteFails, EVerify, EPlaces
  <2>2. fam = "esp" /\ pc \notin Outside
    BY <2>1 DEF FlashInv, Lines, EPlaces, Outside
  <2> QED
    BY <1>1, <2>1, <2>2, FlashExit
<1> QED
  BY <1>2, <1>3, <1>4, <1>5

LEMMA FlashCalls ==
  ASSUME FlashInv, Refused \/ CallAgain
  PROVE  FlashInv'
<1> USE DEF FlashInv, progress, device, Outside
<1>1. CASE Refused
  <2>1. /\ pc = "start" /\ pc' = "returned" /\ rc' \in {"ENTER", "SOURCE"}
        /\ UNCHANGED <<fam, pins, ownPort, call, o, seq, acc, strap, dev, slot, got, tx, rx>>
        /\ ~pins \/ fam = "smp"
    BY <1>1 DEF Refused, Return
  <2>2. Kinds'
    BY <2>1 DEF Kinds
  <2>3. Lines' /\ OutOfLoader'
    BY <2>1 DEF Lines, OutOfLoader, XPlaces, SPlaces, EPlaces, InLoader
  <2>4. Xmodems'
    BY <2>1 DEF Xmodems, Heard, Said
  <2>5. Smps' /\ WholeWhenOk'
    BY <2>1 DEF Smps, WholeWhenOk
  <2> QED
    BY <2>2, <2>3, <2>4, <2>5
<1>2. CASE CallAgain
  <2>1. /\ pc = "returned" /\ pc' = "start" /\ o' = 0 /\ seq' = 0 /\ acc' = <<>>
        /\ rx' = (IF ownPort \/ rc = "OK" THEN <<>> ELSE rx) /\ call' = call + 1
        /\ UNCHANGED <<fam, pins, ownPort, rc, strap, dev, slot, got, tx>>
    BY <1>2 DEF CallAgain
  <2>2. Kinds'
    BY <2>1, EmptySeq DEF Kinds
  <2>3. Lines' /\ OutOfLoader' /\ WholeWhenOk'
    BY <2>1 DEF Lines, OutOfLoader, WholeWhenOk, XPlaces, SPlaces, EPlaces, InLoader
  <2>4. Xmodems'
    <3>1. CASE ownPort \/ rc = "OK"
      BY <2>1, <3>1, Distinct DEF Xmodems, Heard, Said
    <3>2. CASE ~ownPort /\ rc # "OK"
      <4>1. fam = "xmodem" => rx \in {<<>>, <<Byte("ready")>>} /\ tx = <<>>
        BY <2>1, <3>2 DEF Xmodems, Heard, Said
      <4> QED
        BY <2>1, <3>2, <4>1, Distinct DEF Xmodems, Heard, Said
    <3> QED
      BY <3>1, <3>2
  <2>5. Smps'
    BY <2>1 DEF Smps, Clean, Kinds
  <2> QED
    BY <2>2, <2>3, <2>4, <2>5
<1> QED
  BY <1>1, <1>2

---------------------------------------------------------------------------
\* The ESP loader: an exchange is a step, and only the verdict looks at the slot.
LEMMA EspSteps ==
  ASSUME FlashInv, EConnected \/ ERaise \/ EErase \/ EEraseFails \/ EWrite
  PROVE  FlashInv'
<1>1. CASE pc = "erase" /\ ~raised /\ EEraseFails
  <2>1. Exit("WRITE", rx) /\ fam = "esp"
    BY <1>1 DEF EEraseFails, FlashInv, Lines, EPlaces
  <2> QED
    BY <1>1, <2>1, FlashExit DEF Outside, FlashInv, Kinds
<1>2. CASE ~(pc = "erase" /\ ~raised /\ EEraseFails)
  <2>1. /\ pc \in EPlaces /\ pc' \in EPlaces /\ UNCHANGED <<fam, pins, ownPort, call, rc, seq, acc, got, tx, rx, strap, dev>>
        /\ o' \in {o, o + 1} /\ slot' \in {slot, <<>>, Append(slot, o + 1)}
    BY <1>2 DEF EConnected, ERaise, EErase, EEraseFails, EWrite, Elsewhere, EPlaces
  <2>2. fam = "esp" /\ pins /\ pc' \notin Outside
    BY <2>1 DEF FlashInv, Lines, EPlaces, Outside
  <2>3. Kinds'
    <3>1. o' \in Int /\ o + 1 \in Int /\ slot \in Seq(Int)
      BY <2>1 DEF FlashInv, Kinds
    <3>2. slot' \in Seq(Int)
      <4>1. Append(slot, o + 1) \in Seq(Int)
        BY <3>1, AppendProperties
      <4>2. <<>> \in Seq(Int)
        BY EmptySeq
      <4> QED
        BY <2>1, <3>1, <4>1, <4>2
    <3> QED
      BY <2>1, <3>1, <3>2 DEF FlashInv, Kinds
  <2>4. Lines'
    BY <2>1, <2>2 DEF FlashInv, Lines, XPlaces, SPlaces, EPlaces, Outside
  <2>5. Xmodems' /\ Smps' /\ WholeWhenOk' /\ OutOfLoader'
    BY <2>1, <2>2 DEF Xmodems, Smps, WholeWhenOk, OutOfLoader, Outside
  <2> QED
    BY <2>3, <2>4, <2>5 DEF FlashInv
<1> QED
  BY <1>1, <1>2

\* SMP: a number, a request; a wait that is over.
LEMMA SmpSends ==
  ASSUME FlashInv, SEcho \/ SEchoTimeout \/ SSend \/ STimeout
  PROVE  FlashInv'
<1>1. CASE (SEchoTimeout \/ STimeout) /\ pc' = "returned"
  <2>1. \E code \in {"ENTER", "PROTOCOL"} : Exit(code, rx)
    BY <1>1 DEF SEchoTimeout, STimeout
  <2>2. fam = "smp" /\ pc \notin Outside
    BY <1>1 DEF SEchoTimeout, STimeout, FlashInv, Lines, SPlaces, Outside
  <2> QED
    BY <2>1, <2>2, FlashExit DEF FlashInv, Kinds
<1>2. CASE (SEchoTimeout \/ STimeout) /\ pc' # "returned"
  <2>1. /\ \/ pc = "echoed" /\ pc' \in {"echo", "entry"}
           \/ pc = "uploading" /\ pc' = "send"
        /\ UNCHANGED <<fam, pins, ownPort, call, rc, o, seq, acc, tx, rx, strap, slot, got, dev>>
    BY <1>2 DEF SEchoTimeout, STimeout, Exit, Return, Quiet, device
  <2>2. Kinds' /\ Lines'
    BY <2>1 DEF FlashInv, Kinds, Lines, SPlaces, XPlaces, EPlaces, Outside, InLoader
  <2>3. Xmodems' /\ WholeWhenOk' /\ OutOfLoader'
    BY <2>1 DEF FlashInv, Lines, SPlaces, Xmodems, WholeWhenOk, OutOfLoader
  <2>4. Smps'
    <3>1. Clean /\ fam = "smp" => Written /\ Asked /\ Replied
      BY <2>1 DEF FlashInv, Smps, Outside
    <3>2. Starting <=> Starting'
      BY <2>1 DEF Starting
    <3>3. Written => Written'
      BY <2>1, <3>2 DEF Written
    <3>4. Asked => Asked'
      BY <2>1, <3>2 DEF Asked, Upload
    <3>5. Replied => Replied'
      BY <2>1 DEF Replied, Own
    <3> QED
      BY <2>1, <3>1, <3>3, <3>4, <3>5 DEF Smps, Clean
  <2> QED
    BY <2>2, <2>3, <2>4 DEF FlashInv
<1>3. CASE SEcho \/ SSend
  <2>1. /\ fam = "smp" /\ UNCHANGED <<fam, pins, ownPort, call, rc, o, acc, rx, strap, slot, got, dev>>
        /\ \/ pc = "echo" /\ pc' = "echoed" /\ seq' = Succ(seq) /\ tx' = Append(tx, Msg("echo", seq', NoOff))
           \/ pc = "send" /\ pc' = "uploading" /\ seq' = seq /\ tx' = Append(tx, Msg("upload", seq, o))
    BY <1>3 DEF SEcho, SSend, Write, EchoMap, UploadMap, Quiet, device, progress, FlashInv, Lines, SPlaces
  <2>2. seq \in Int /\ o \in Int /\ tx \in Seq(Msgs) /\ seq' \in Int
    <3>1. seq \in Int /\ o \in Int /\ tx \in Seq(Msgs)
      BY DEF FlashInv, Kinds
    <3> QED
      BY <2>1, <3>1, Successor
  <2> DEFINE m == IF pc = "echo" THEN Msg("echo", seq', NoOff) ELSE Msg("upload", seq, o)
  <2>3. /\ m \in Msgs /\ tx' = Append(tx, m)
        /\ pc = "echo" => m.k # "upload"
        /\ pc = "send" => m.n = o
    <3>1. "echo" \in Words /\ "upload" \in Words /\ NoOff \in Int /\ "echo" # "upload"
      BY DEF Words, NoOff
    <3>2. /\ Msg("echo", seq', NoOff) \in Msgs /\ Msg("echo", seq', NoOff).k = "echo"
          /\ Msg("upload", seq, o) \in Msgs /\ Msg("upload", seq, o).n = o
      BY <2>2, <3>1, Bytes
    <3> QED
      BY <2>1, <3>1, <3>2
  <2> HIDE DEF m
  <2>4. /\ tx' \in Seq(Msgs)
        /\ \A i \in DOMAIN tx' : \/ i \in DOMAIN tx /\ tx'[i] = tx[i]
                                 \/ (\A j \in DOMAIN tx : j < i) /\ tx'[i] = m
        /\ \A i, j \in DOMAIN tx' : i < j => i \in DOMAIN tx
        /\ \A i \in DOMAIN tx : i \in Int
    <3>1. DOMAIN tx \subseteq Int
      BY <2>2, LenProperties
    <3> QED
      BY <2>2, <2>3, <3>1, Longer
  <2>5. Kinds'
    BY <2>1, <2>2, <2>4 DEF FlashInv, Kinds
  <2>6. Lines'
    BY <2>1 DEF FlashInv, Lines, SPlaces, XPlaces, EPlaces, Outside, InLoader
  <2>7. Xmodems' /\ WholeWhenOk' /\ OutOfLoader'
    BY <2>1 DEF Xmodems, WholeWhenOk, OutOfLoader
  <2>8. Smps'
    <3>1. SUFFICES ASSUME Clean  PROVE Written' /\ Asked' /\ Replied'
      BY <2>1 DEF Smps, Clean
    <3>2. Written /\ Asked /\ Replied
      BY <2>1, <3>1 DEF FlashInv, Smps, Outside
    <3>3. (Starting <=> Starting') /\ (Starting <=> pc = "echo")
      BY <2>1 DEF Starting
    <3>4. Written' /\ Replied'
      BY <2>1, <3>2, <3>3 DEF Written, Replied, Own
    <3>5. \A i \in DOMAIN tx' : Upload(i)' =>
            \/ i \in DOMAIN tx /\ tx'[i] = tx[i] /\ Upload(i)
            \/ ~Starting /\ tx'[i].n = o
      BY <2>1, <2>3, <2>4, <3>3 DEF Upload
    <3>6. \A i \in DOMAIN tx' : Upload(i)' => ~Starting /\ tx'[i].n \in 0 .. Blocks - 1
                                               /\ (tx'[i].n > 0 => o > 0) /\ (got > 1 => tx'[i].n > 0)
      BY <3>2, <3>5 DEF Asked, Written
    <3>7. ASSUME NEW i \in DOMAIN tx', NEW j \in DOMAIN tx', i < j, Upload(i)', Upload(j)', tx'[i].n > 0
          PROVE  tx'[j].n > 0
      <4>1. i \in DOMAIN tx /\ i \in Int
        BY <2>4, <3>7
      <4>2. tx'[i] = tx[i] /\ Upload(i)
        <5>1. ~ \A k \in DOMAIN tx : k < i
          BY <4>1
        <5> QED
          BY <2>4, <3>7, <4>1, <5>1 DEF Upload
      <4> QED
        BY <2>4, <3>2, <3>5, <3>7, <4>1, <4>2 DEF Asked
    <3>8. Asked'
      BY <2>1, <3>3, <3>6, <3>7 DEF Asked
    <3> QED
      BY <3>4, <3>8
  <2> QED
    BY <2>5, <2>6, <2>7, <2>8 DEF FlashInv
<1> QED
  BY <1>1, <1>2, <1>3

LEMMA Lengths ==
  /\ \A n \in Nat : n <= 1 => n \in {0, 1}
  /\ \A n \in {0, 1} : n <= 1 /\ n # 2
  /\ \A n \in {0, 1, 2} : n # 2 => n <= 1
  OBVIOUS

\* A line is a whole reply only as its continuation.
LEMMA Decoded ==
  ASSUME FlashInv, rx # <<>>
  PROVE  /\ rx \in Seq(Msgs) /\ Tail(rx) \in Seq(Msgs) /\ Head(rx) \in Msgs
         /\ 1 \in DOMAIN rx /\ Head(rx) = rx[1]
         /\ \A i \in DOMAIN Tail(rx) : i + 1 \in DOMAIN rx /\ Tail(rx)[i] = rx[i + 1]
         /\ Fed(Head(rx)) \in Seq(Msgs)
         /\ Len(acc) <= 1 => /\ Complete(Head(rx)) => Head(rx).k = "cont"
                             /\ ~Complete(Head(rx)) => Len(Fed(Head(rx))) <= 1
<1>1. rx \in Seq(Msgs) /\ acc \in Seq(Msgs)
  BY DEF FlashInv, Kinds
<1>2. /\ Tail(rx) \in Seq(Msgs) /\ Head(rx) \in Msgs /\ 1 \in DOMAIN rx /\ Head(rx) = rx[1]
      /\ \A i \in DOMAIN Tail(rx) : i + 1 \in DOMAIN rx /\ Tail(rx)[i] = rx[i + 1]
  BY <1>1, Shorter
<1>3. Head(rx).k = "start" => Fed(Head(rx)) = <<Head(rx)>>
  BY DEF Fed
<1>4. Head(rx).k = "cont" => Fed(Head(rx)) \in {Append(acc, Head(rx)), <<>>}
  BY DEF Fed
<1>5. Head(rx).k \notin {"start", "cont"} => Fed(Head(rx)) = acc
  BY DEF Fed
<1>6. /\ Append(acc, Head(rx)) \in Seq(Msgs) /\ Len(Append(acc, Head(rx))) = Len(acc) + 1
      /\ Len(acc) \in Nat
  BY <1>1, <1>2, AppendProperties, LenProperties
<1>7. <<Head(rx)>> \in Seq(Msgs) /\ Len(<<Head(rx)>>) = 1 /\ <<>> \in Seq(Msgs) /\ Len(<<>>) = 0
  BY <1>2
<1>8. Fed(Head(rx)) \in Seq(Msgs)
  BY <1>1, <1>3, <1>4, <1>5, <1>6, <1>7
<1>9. Len(acc) <= 1 => \/ Head(rx).k = "cont" /\ Len(Fed(Head(rx))) \in {0, 1, 2}
                      \/ Len(Fed(Head(rx))) \in {0, 1}
  <2>1. CASE Head(rx).k = "start"
    BY <1>3, <1>7, <2>1
  <2>2. CASE Head(rx).k = "cont"
    <3>1. Len(Fed(Head(rx))) \in {Len(acc) + 1, 0}
      BY <1>4, <1>6, <1>7, <2>2
    <3>2. Len(acc) <= 1 => Len(acc) + 1 \in {1, 2}
      BY <1>6
    <3> QED
      BY <2>2, <3>1, <3>2
  <2>3. CASE Head(rx).k \notin {"start", "cont"}
    <3>1. Len(Fed(Head(rx))) = Len(acc)
      BY <1>5, <2>3
    <3>2. Len(acc) <= 1 => Len(acc) \in {0, 1}
      BY <1>6, Lengths, Zenon
    <3> QED
      BY <3>1, <3>2
  <2> QED
    BY <2>1, <2>2, <2>3
<1>10. Len(acc) <= 1 => /\ Len(Fed(Head(rx))) = 2 => Head(rx).k = "cont"
                        /\ Len(Fed(Head(rx))) # 2 => Len(Fed(Head(rx))) <= 1
  BY <1>9, Lengths, Zenon
<1> QED
  BY <1>1, <1>2, <1>8, <1>10 DEF Complete

\* A reply read: it ends the upload, or moves it on.
LEMMA SmpReplied ==
  ASSUME FlashInv, SReply \/ SEchoReply
  PROVE  FlashInv'
<1>1. /\ fam = "smp" /\ pc \in {"uploading", "echoed"} /\ rx # <<>> /\ Complete(Head(rx))
      /\ Kinds /\ Lines /\ pc \notin Outside
  BY DEF SReply, SEchoReply, Answered, FlashInv, Lines, SPlaces, Outside
<1>2. /\ rx \in Seq(Msgs) /\ Tail(rx) \in Seq(Msgs) /\ Head(rx) \in Msgs
      /\ 1 \in DOMAIN rx /\ Head(rx) = rx[1]
      /\ \A i \in DOMAIN Tail(rx) : i + 1 \in DOMAIN rx /\ Tail(rx)[i] = rx[i + 1]
      /\ Len(acc) <= 1 /\ Complete(Head(rx)) => Head(rx).k = "cont"
  BY <1>1, Decoded
<1>3. Head(rx).n \in Int
  BY <1>2 DEF Msgs
<1>4. Clean => Written /\ Asked /\ Replied /\ Own(Head(rx).n)
  <2>1. SUFFICES ASSUME Clean  PROVE Written /\ Asked /\ Replied /\ Own(Head(rx).n)
    OBVIOUS
  <2>2. Written /\ Asked /\ Replied
    BY <1>1, <2>1 DEF FlashInv, Smps
  <2> QED
    BY <1>1, <1>2, <2>2 DEF Replied
<1>5. CASE pc' = "returned"
  <2>1. /\ pc = "uploading"
        /\ Exit("PROTOCOL", Tail(rx)) \/ (Head(rx).n >= Blocks /\ Exit("OK", Tail(rx)))
    BY <1>5 DEF SReply, SEchoReply, SAdvanced
  <2>2. Head(rx).n >= Blocks /\ Clean => slot = Image
    <3>1. SUFFICES ASSUME Head(rx).n >= Blocks, Clean  PROVE slot = Image
      OBVIOUS
    <3>2. Head(rx).n \in 1 .. Blocks /\ got > 0 /\ (Head(rx).n = Blocks => got = Blocks)
      BY <1>4, <3>1, FlashAssumption DEF Own, NoOff, FlashAssumption
    <3>3. got = Blocks
      BY <3>1, <3>2, FlashAssumption DEF FlashAssumption
    <3> QED
      BY <1>4, <3>1, <3>2, <3>3 DEF Written, Image
  <2> QED
    BY <1>1, <1>2, <2>1, <2>2, FlashExit
<1>6. CASE pc' # "returned"
  <2>1. /\ UNCHANGED <<fam, pins, ownPort, call, rc, tx, strap, slot, got, dev>>
        /\ seq' = Succ(seq) /\ acc' = <<>> /\ pc' = "send" /\ rx' = Tail(rx)
        /\ \/ pc = "uploading" /\ o' = Head(rx).n /\ Head(rx).n # NoOff /\ ~(Head(rx).n >= Blocks)
           \/ pc = "echoed" /\ o' = 0
    BY <1>6 DEF SReply, SEchoReply, SAdvanced, Exit, Return, Quiet, device
  <2>2. Kinds'
    <3>1. seq' \in Int /\ o' \in Int /\ acc' \in Seq(Msgs)
      <4>1. seq \in Int /\ <<>> \in Seq(Msgs)
        BY <1>1, EmptySeq DEF Kinds
      <4>2. Succ(seq) \in Int
        BY <4>1, Successor
      <4> QED
        BY <1>3, <2>1, <4>1, <4>2
    <3> QED
      BY <1>1, <1>2, <2>1, <3>1 DEF Kinds
  <2>3. Lines'
    BY <1>1, <2>1 DEF Lines, SPlaces, XPlaces, EPlaces, Outside, InLoader
  <2>4. Xmodems' /\ WholeWhenOk' /\ OutOfLoader'
    BY <1>1, <2>1 DEF Xmodems, WholeWhenOk, OutOfLoader
  <2>5. Smps'
    <3>1. SUFFICES ASSUME Clean  PROVE Written' /\ Asked' /\ Replied'
      BY <2>1 DEF Smps, Clean
    <3>2. Written /\ Asked /\ Replied /\ Own(Head(rx).n)
      BY <1>4, <3>1
    <3>3. ~Starting' /\ (Starting <=> pc = "echoed")
      BY <1>1, <2>1 DEF Starting
    <3>4. \/ pc = "uploading" /\ o' \in 1 .. Blocks - 1 /\ got > 0
          \/ pc = "echoed" /\ o' = 0 /\ got = 0
      BY <1>3, <2>1, <3>2, <3>3, FlashAssumption DEF Own, Written, FlashAssumption
    <3>5. Written'
      BY <2>1, <3>2, <3>3, <3>4, FlashAssumption DEF Written, FlashAssumption
    <3>6. Asked'
      BY <2>1, <3>2, <3>3, <3>4 DEF Asked, Upload
    <3>7. Replied'
      BY <1>2, <2>1, <3>2 DEF Replied, Own
    <3> QED
      BY <3>5, <3>6, <3>7
  <2> QED
    BY <2>2, <2>3, <2>4, <2>5 DEF FlashInv
<1> QED
  BY <1>5, <1>6

\* A line that completes no reply, or another request's.
LEMMA SmpLine ==
  ASSUME FlashInv, SLine
  PROVE  FlashInv'
<1>1. /\ fam = "smp" /\ pc \in {"uploading", "echoed"} /\ rx # <<>> /\ Kinds /\ Lines /\ pc \notin Outside
      /\ UNCHANGED <<fam, pins, ownPort, call, rc, pc, o, seq, tx, strap, slot, got, dev>> /\ rx' = Tail(rx)
      /\ acc' = (IF Complete(Head(rx)) THEN <<>> ELSE Fed(Head(rx)))
  BY DEF SLine, Quiet, device, FlashInv, Lines, SPlaces, Outside
<1>2. /\ Tail(rx) \in Seq(Msgs) /\ Fed(Head(rx)) \in Seq(Msgs)
      /\ \A i \in DOMAIN Tail(rx) : i + 1 \in DOMAIN rx /\ Tail(rx)[i] = rx[i + 1]
      /\ Len(acc) <= 1 /\ ~Complete(Head(rx)) => Len(Fed(Head(rx))) <= 1
  BY <1>1, Decoded
<1>3. acc' \in Seq(Msgs) /\ (Len(acc) <= 1 => Len(acc') <= 1)
  <2>1. <<>> \in Seq(Msgs) /\ Len(<<>>) = 0
    BY EmptySeq
  <2> QED
    BY <1>1, <1>2, <2>1
<1>4. Kinds' /\ Lines'
  BY <1>1, <1>2, <1>3 DEF Kinds, Lines, InLoader
<1>5. Xmodems' /\ WholeWhenOk' /\ OutOfLoader'
  BY <1>1 DEF Xmodems, WholeWhenOk, OutOfLoader, Outside
<1>6. Smps'
  <2>1. SUFFICES ASSUME Clean  PROVE Written' /\ Asked' /\ Replied'
    BY <1>1 DEF Smps, Clean, Outside
  <2>2. Written /\ Asked /\ Replied
    BY <1>1, <2>1 DEF FlashInv, Smps
  <2>3. Written' /\ Asked'
    BY <1>1, <2>2 DEF Written, Asked, Upload, Starting
  <2>4. Replied'
    BY <1>1, <1>2, <1>3, <2>2 DEF Replied, Own
  <2> QED
    BY <2>3, <2>4
<1> QED
  BY <1>4, <1>5, <1>6 DEF FlashInv

---------------------------------------------------------------------------
\* XMODEM's loader: one answer to what was sent, and the prompt after the end.
LEMMA MenuAnswers ==
  ASSUME FlashInv, DevUploadMenu \/ DevBlock \/ DevEot \/ DevRun
  PROVE  FlashInv'
<1>1. /\ tx # <<>> /\ tx' = Tail(tx) /\ dev \in {"menu", "upload"} /\ pins
      /\ UNCHANGED <<fam, pins, ownPort, call, rc, pc, o, seq, acc, strap>> /\ Kinds /\ Lines /\ Xmodems
      /\ dev' \in {"menu", "upload", "app", "stuck"}
  BY DEF DevUploadMenu, DevBlock, DevEot, DevRun, Hears, HostWaits, progress, FlashInv, Boots, Lines, InLoader, Outside
<1>2. fam = "xmodem"
  BY <1>1 DEF Lines
<1>3. Heard /\ Said
  BY <1>1, <1>2 DEF Xmodems
<1>4. \A a : Byte(a).k = a
  BY DEF Byte, Msg
<1>5. /\ Tail(tx) \in Seq(Msgs) /\ <<>> \in Seq(Msgs)
      /\ \A a : Head(<<a>>) = a /\ Tail(<<a>>) = <<>> /\ <<>> \o <<a>> = <<a>>
      /\ \A a, b : <<>> \o <<a, b>> = <<a, b>> /\ <<a>> \o <<b>> = <<a, b>>
      /\ \A a, b, c : <<>> \o <<a, b, c>> = <<a, b, c>>
  BY <1>1, Shorter, EmptySeq, Single, Pair, Triple DEF Kinds
<1>6. /\ \A k \in {"preamble", "C", "ACK", "NAK", "CAN", "done", "menu", "ready"} : Byte(k) \in Msgs
      /\ \A a, b, c \in Msgs : <<a>> \in Seq(Msgs) /\ <<a, b>> \in Seq(Msgs) /\ <<a, b, c>> \in Seq(Msgs)
  <2>1. {"preamble", "C", "ACK", "NAK", "CAN", "done", "menu", "ready"} \subseteq Words
    BY DEF Words
  <2> QED
    BY <2>1, Bytes
<1>7. Smps'
  BY <1>1, <1>2 DEF Smps
<1>8. CASE DevUploadMenu
  <2>1. Head(tx).k = "one" /\ rx' = rx \o <<Byte("preamble"), Byte("C")>> /\ dev' = "upload" /\ got' = 0 /\ slot' = slot
    BY <1>8 DEF DevUploadMenu, Hears, Says
  <2>2. pc = "preamble" /\ tx = <<Byte("one")>>
    BY <1>1, <1>3, <1>4, <1>5, <2>1 DEF Said, Lines, XPlaces, SPlaces, EPlaces, Outside, Msg
  <2>3. rx' = <<Byte("preamble"), Byte("C")>> /\ tx' = <<>>
    BY <1>1, <1>3, <1>5, <2>1, <2>2 DEF Said, Outside
  <2>4. Kinds' /\ Lines'
    BY <1>1, <1>2, <1>5, <1>6, <2>1, <2>2, <2>3 DEF Kinds, Lines, XPlaces, SPlaces, EPlaces, Outside
  <2>5. Heard' /\ Said'
    BY <1>1, <2>2, <2>3, Distinct DEF Heard, Said, Outside
  <2> QED
    BY <1>1, <1>7, <2>2, <2>4, <2>5 DEF FlashInv, Xmodems, WholeWhenOk, OutOfLoader
<1>9. CASE DevBlock
  <2>1. /\ Head(tx).k = "block" /\ dev' = dev
        /\ \E a \in {"ACK", "NAK", "CAN"} : rx' = rx \o <<Byte(a)>>
        /\ \/ UNCHANGED <<slot, got>>
           \/ slot' = (IF got = 0 THEN <<>> ELSE slot) \o <<Head(tx).n>> /\ got' = got + 1
    BY <1>9 DEF DevBlock, Hears, Says
  <2>2. pc = "reply"
    BY <1>1, <1>3, <1>4, <1>5, <2>1 DEF Said, Lines, XPlaces, SPlaces, EPlaces, Outside
  <2>3. rx = <<>> /\ tx' = <<>>
    BY <1>1, <1>3, <1>5, <2>2 DEF Said, Outside
  <2>4. rx' \in {<<Byte("ACK")>>, <<Byte("NAK")>>, <<Byte("CAN")>>}
    BY <1>5, <2>1, <2>3
  <2>5. slot' \in Seq(Int) /\ got' \in Int
    <3>1. Head(tx) \in Msgs
      BY <1>1, Shorter DEF Kinds
    <3>2. <<Head(tx).n>> \in Seq(Int) /\ <<>> \in Seq(Int) /\ slot \in Seq(Int) /\ got \in Int
      BY <1>1, <3>1 DEF Kinds, Msgs
    <3>3. (IF got = 0 THEN <<>> ELSE slot) \o <<Head(tx).n>> \in Seq(Int)
      BY <3>2, ConcatProperties
    <3>4. got + 1 \in Int
      BY <3>2
    <3> QED
      BY <2>1, <3>2, <3>3, <3>4
  <2>6. Kinds' /\ Lines'
    BY <1>1, <1>2, <1>5, <1>6, <2>1, <2>2, <2>3, <2>4, <2>5 DEF Kinds, Lines, XPlaces, SPlaces, EPlaces, Outside
  <2>7. Heard' /\ Said'
    BY <1>1, <2>2, <2>3, <2>4, Distinct DEF Heard, Said, Outside
  <2> QED
    BY <1>1, <1>7, <2>2, <2>6, <2>7 DEF FlashInv, Xmodems, WholeWhenOk, OutOfLoader
<1>10. CASE DevEot
  <2>1. /\ Head(tx).k = "eot" /\ dev' = "menu" /\ UNCHANGED <<slot, got>>
        /\ \/ slot = Image /\ rx' = rx \o (<<Byte("ACK")>> \o <<Byte("done")>> \o <<Byte("menu")>>)
           \/ rx' = rx \o (<<Byte("ACK")>> \o <<>> \o <<Byte("menu")>>)
    BY <1>10 DEF DevEot, Hears, Says
  <2>2. pc = "eot"
    BY <1>1, <1>3, <1>4, <1>5, <2>1 DEF Said, Lines, XPlaces, SPlaces, EPlaces, Outside, Msg
  <2>3. rx = <<>> /\ tx' = <<>>
    BY <1>1, <1>3, <1>5, <2>2 DEF Said, Outside
  <2>4. \/ slot = Image /\ rx' = <<Byte("ACK"), Byte("done"), Byte("menu")>>
        \/ rx' = <<Byte("ACK"), Byte("menu")>>
    <3>1. <<Byte("ACK")>> \o <<>> = <<Byte("ACK")>>
      BY Single
    <3>2. <<Byte("ACK"), Byte("done")>> \o <<Byte("menu")>> = <<Byte("ACK"), Byte("done"), Byte("menu")>>
      BY Triple
    <3> QED
      BY <1>5, <2>1, <2>3, <3>1, <3>2
  <2>5. Kinds'
    <3>1. rx' \in Seq(Msgs)
      BY <1>6, <2>4
    <3> QED
      BY <1>1, <1>5, <2>1, <2>3, <3>1 DEF Kinds
  <2>7. Lines'
    BY <1>1, <1>2, <2>1, <2>2, <2>3 DEF Lines, XPlaces, SPlaces, EPlaces, Outside
  <2>6. Heard' /\ Said'
    BY <1>1, <2>1, <2>2, <2>3, <2>4, Distinct DEF Heard, Said, Outside, Image
  <2> QED
    BY <1>1, <1>7, <2>2, <2>5, <2>6, <2>7 DEF FlashInv, Xmodems, WholeWhenOk, OutOfLoader
<1>11. CASE DevRun
  <2>1. /\ Head(tx).k = "two" /\ dev' \in {"app", "stuck"} /\ UNCHANGED <<slot, got>>
        /\ rx' = rx \o <<Byte("ready")>>
    BY <1>11 DEF DevRun, Hears, Says, Boots
  <2>2. pc \in Outside /\ tx = <<Byte("two")>>
    BY <1>1, <1>3, <1>4, <1>5, <2>1 DEF Said, Lines, XPlaces, SPlaces, EPlaces, Outside, Msg
  <2>3. rx \in {<<>>, <<Byte("menu")>>} /\ (pc = "start" => rx = <<>>) /\ tx' = <<>> /\ ~(pc = "returned" /\ rc # "OK")
    BY <1>1, <1>3, <1>5, <2>2 DEF Said, Outside
  <2>4. rx' \in {<<Byte("ready")>>, <<Byte("menu"), Byte("ready")>>} /\ (pc = "start" => rx' = <<Byte("ready")>>)
    BY <1>5, <2>1, <2>3
  <2>5. Kinds'
    BY <1>1, <1>5, <1>6, <2>1, <2>3, <2>4 DEF Kinds
  <2>6. Lines' /\ OutOfLoader'
    BY <1>1, <1>2, <2>1, <2>2, <2>3 DEF FlashInv, OutOfLoader, Lines, XPlaces, SPlaces, EPlaces, Outside, InLoader
  <2>7. Heard' /\ Said'
    <3>1. \A a, b : Byte(a) = Byte(b) => a = b
      BY DEF Byte, Msg
    <3>2. <<Byte("menu"), Byte("ready")>> \notin {<<Byte("ACK"), Byte("done"), Byte("menu")>>, <<Byte("done"), Byte("menu")>>}
      BY <3>1
    <3> QED
      BY <1>1, <2>2, <2>3, <2>4, <3>2, Distinct DEF Heard, Said, Outside
  <2>8. WholeWhenOk'
    BY <1>1, <2>1 DEF FlashInv, WholeWhenOk, Clean, Image
  <2> QED
    BY <1>1, <1>7, <2>5, <2>6, <2>7, <2>8 DEF FlashInv, Xmodems
<1> QED
  BY <1>8, <1>9, <1>10, <1>11

LEMMA Counted ==
  ASSUME NEW n \in Nat
  PROVE  [i \in 1 .. n |-> i] \o <<n + 1>> = [i \in 1 .. n + 1 |-> i]
<1> DEFINE s == [i \in 1 .. n |-> i]
<1> DEFINE t == [i \in 1 .. n + 1 |-> i]
<1>1. s \in Seq(Int) /\ Len(s) = n /\ t \in Seq(Int) /\ Len(t) = n + 1
  OBVIOUS
<1>2. <<n + 1>> \in Seq(Int) /\ Len(<<n + 1>>) = 1
  OBVIOUS
<1> HIDE DEF s, t
<1>3. /\ s \o <<n + 1>> \in Seq(Int) /\ Len(s \o <<n + 1>>) = n + 1
      /\ \A i \in 1 .. n + 1 : (s \o <<n + 1>>)[i] = IF i <= n THEN s[i] ELSE <<n + 1>>[i - n]
  BY <1>1, <1>2, ConcatProperties
<1>4. \A i \in 1 .. n + 1 : (s \o <<n + 1>>)[i] = t[i]
  BY <1>3 DEF s, t
<1>5. s \o <<n + 1>> = t
  BY <1>1, <1>3, <1>4, SeqEqual
<1> QED
  BY <1>5 DEF s, t

\* The serial recovery: an echo, and a chunk written, refused or told its place.
LEMMA RecoveryAnswers ==
  ASSUME FlashInv, DevEcho \/ DevChunk
  PROVE  FlashInv'
<1>1. /\ tx # <<>> /\ tx' = Tail(tx) /\ dev = "smp" /\ dev' = dev /\ Kinds /\ Lines
      /\ UNCHANGED <<fam, pins, ownPort, call, rc, pc, o, seq, acc, strap>>
      /\ \/ Head(tx).k = "echo" /\ UNCHANGED <<slot, got>> /\ rx' = rx \o Reply(Head(tx).seq, NoOff)
         \/ /\ Head(tx).k = "upload"
            /\ \/ /\ Head(tx).n \in {0, got} /\ got' = Head(tx).n + 1
                  /\ slot' = (IF Head(tx).n = 0 THEN <<>> ELSE slot) \o <<Head(tx).n + 1>>
               \/ Head(tx).n \notin {0, got} /\ UNCHANGED <<slot, got>>
            /\ \E n \in {got', NoOff} : rx' = rx \o Reply(Head(tx).seq, n)
  BY DEF DevEcho, DevChunk, Hears, Says, HostWaits, progress, FlashInv
<1>2. /\ Tail(tx) \in Seq(Msgs) /\ Head(tx) \in Msgs /\ 1 \in DOMAIN tx /\ Head(tx) = tx[1]
      /\ \A i \in DOMAIN Tail(tx) : i \in Int /\ i + 1 \in DOMAIN tx /\ Tail(tx)[i] = tx[i + 1]
      /\ \A i \in DOMAIN Tail(tx) : 1 < i + 1
  <2>1. /\ Tail(tx) \in Seq(Msgs) /\ Head(tx) \in Msgs /\ 1 \in DOMAIN tx /\ Head(tx) = tx[1]
        /\ \A i \in DOMAIN Tail(tx) : i \in Int /\ i + 1 \in DOMAIN tx /\ Tail(tx)[i] = tx[i + 1]
    BY <1>1, Shorter DEF Kinds
  <2>2. DOMAIN Tail(tx) = 1 .. Len(Tail(tx)) /\ Len(Tail(tx)) \in Nat
    BY <2>1, LenProperties
  <2>3. \A i \in 1 .. Len(Tail(tx)) : 1 < i + 1
    BY <2>2
  <2> QED
    BY <2>1, <2>2, <2>3
<1>3. Head(tx).n \in Int /\ Head(tx).seq \in Int /\ NoOff \in Int /\ got \in Int
  BY <1>1, <1>2 DEF Msgs, Kinds, NoOff
<1>4. fam = "smp" /\ pc \notin Outside /\ pc \notin XPlaces /\ pc # "returned"
  <2>1. fam = "smp"
    BY <1>1 DEF Lines
  <2> QED
    BY <1>1, <2>1 DEF Lines, Outside, XPlaces
<1>5. slot' \in Seq(Int) /\ got' \in Int
  <2>1. slot \in Seq(Int) /\ got \in Int /\ Head(tx).n + 1 \in Int
    BY <1>1, <1>3 DEF Kinds
  <2>2. <<Head(tx).n + 1>> \in Seq(Int) /\ <<>> \in Seq(Int)
    BY <2>1
  <2>3. (IF Head(tx).n = 0 THEN <<>> ELSE slot) \o <<Head(tx).n + 1>> \in Seq(Int)
    BY <2>1, <2>2, ConcatProperties
  <2> QED
    BY <1>1, <2>1, <2>3
<1>6. PICK n \in {got', NoOff} : rx' = rx \o Reply(Head(tx).seq, n) /\ (Head(tx).k = "echo" => n = NoOff)
  BY <1>1
<1>7. /\ Reply(Head(tx).seq, n) \in Seq(Msgs)
      /\ \A i \in DOMAIN Reply(Head(tx).seq, n) : Reply(Head(tx).seq, n)[i].n = n
  <2>1. /\ Msg("start", Head(tx).seq, n) \in Msgs /\ Msg("start", Head(tx).seq, n).n = n
        /\ Msg("cont", Head(tx).seq, n) \in Msgs /\ Msg("cont", Head(tx).seq, n).n = n
    <3>1. "start" \in Words /\ "cont" \in Words
      BY DEF Words
    <3>2. n \in Int
      BY <1>3, <1>5
    <3> QED
      BY <1>3, <3>1, <3>2, Bytes
  <2>2. \A a, b : a \in Msgs /\ b \in Msgs =>
          <<a, b>> \in Seq(Msgs) /\ \A i \in DOMAIN <<a, b>> : <<a, b>>[i] = a \/ <<a, b>>[i] = b
    OBVIOUS
  <2> QED
    BY <2>1, <2>2 DEF Reply
<1>8. /\ rx' \in Seq(Msgs)
      /\ \A i \in DOMAIN rx' : (\E j \in DOMAIN rx : rx'[i] = rx[j]) \/ rx'[i].n = n
  <2> DEFINE t == Reply(Head(tx).seq, n)
  <2>1. t \in Seq(Msgs) /\ (\A i \in DOMAIN t : t[i].n = n) /\ rx \in Seq(Msgs) /\ rx' = rx \o t
    BY <1>1, <1>6, <1>7 DEF Kinds
  <2> HIDE DEF t
  <2>2. /\ rx \o t \in Seq(Msgs)
        /\ \A i \in DOMAIN (rx \o t) : \/ \E j \in DOMAIN rx : (rx \o t)[i] = rx[j]
                                       \/ \E j \in DOMAIN t : (rx \o t)[i] = t[j]
    BY <2>1, Joined
  <2> QED
    BY <2>1, <2>2
<1>9. Kinds' /\ Lines'
  BY <1>1, <1>2, <1>4, <1>5, <1>8 DEF Kinds, Lines, Outside
<1>10. Xmodems' /\ WholeWhenOk' /\ OutOfLoader'
  BY <1>1, <1>4 DEF Xmodems, WholeWhenOk, OutOfLoader
<1>11. Smps'
  <2>1. SUFFICES ASSUME Clean  PROVE Written' /\ Asked' /\ Replied'
    BY <1>1, <1>4 DEF Smps, Clean, Outside
  <2>2. Written /\ Asked /\ Replied
    BY <1>4, <2>1 DEF FlashInv, Smps
  <2>3. Starting' <=> Starting
    BY <1>1 DEF Starting
  <2>4. CASE Head(tx).k = "echo"
    <3>1. UNCHANGED <<slot, got>> /\ n = NoOff
      BY <1>1, <1>6, <2>4
    <3>2. Written'
      BY <1>1, <2>2, <2>3, <3>1 DEF Written
    <3>3. Replied'
      BY <1>1, <1>8, <2>2, <3>1 DEF Replied, Own
    <3>4. Asked'
      BY <1>1, <1>2, <2>2, <2>3, <3>1 DEF Asked, Upload
    <3> QED
      BY <3>2, <3>3, <3>4
  <2>5. CASE Head(tx).k = "upload"
    <3>1. /\ ~Starting /\ Head(tx).n \in 0 .. Blocks - 1 /\ (Head(tx).n > 0 => o > 0)
          /\ (got > 1 => Head(tx).n > 0)
      BY <1>2, <2>2, <2>5 DEF Asked, Upload
    <3>2. Blocks \in Nat /\ Blocks > 0
      BY FlashAssumption DEF FlashAssumption
    <3>3. CASE Head(tx).n \notin {0, got} /\ UNCHANGED <<slot, got>>
      <4>1. got > 0 /\ n \in {got, NoOff}
        BY <1>6, <2>2, <3>1, <3>3 DEF Written
      <4>2. Own(n)
        BY <2>2, <4>1 DEF Written, Own
      <4>3. Written'
        BY <1>1, <2>2, <2>3, <3>3 DEF Written
      <4>4. Replied'
        BY <1>1, <1>8, <2>2, <3>3, <4>2 DEF Replied, Own
      <4>5. Asked'
        BY <1>1, <1>2, <2>2, <2>3, <3>3 DEF Asked, Upload
      <4> QED
        BY <4>3, <4>4, <4>5
    <3>4. CASE /\ Head(tx).n \in {0, got} /\ got' = Head(tx).n + 1
               /\ slot' = (IF Head(tx).n = 0 THEN <<>> ELSE slot) \o <<Head(tx).n + 1>>
      <4>1. got' \in 1 .. Blocks
        BY <3>1, <3>2, <3>4
      <4>2. slot' = [i \in 1 .. got' |-> i]
        <5>1. CASE Head(tx).n = 0
          <6>1. slot' = <<1>> /\ got' = 1
            BY <3>4, <5>1
          <6>2. <<1>> = [i \in 1 .. 1 |-> i]
            OBVIOUS
          <6> QED
            BY <6>1, <6>2
        <5>2. CASE Head(tx).n # 0
          <6>1. slot = [i \in 1 .. got |-> i] /\ got \in Nat /\ slot' = slot \o <<got + 1>> /\ got' = got + 1
            BY <2>2, <3>1, <3>4, <5>2 DEF Written
          <6> QED
            BY <6>1, Counted
        <5> QED
          BY <5>1, <5>2
      <4>3. got' > 1 => o > 0
        BY <3>1, <3>4
      <4>4. Written'
        BY <1>1, <2>2, <2>3, <3>1, <4>1, <4>2, <4>3 DEF Written
      <4>5. \A m : Own(m) => Own(m)'
        BY <1>3, <2>2, <3>1, <3>2, <3>4, <4>1 DEF Own, Written
      <4>6. Own(n)'
        BY <1>6, <4>1 DEF Own
      <4>7. Replied'
        BY <1>1, <1>8, <2>2, <4>5, <4>6 DEF Replied
      <4>8. \A i \in DOMAIN tx' : i + 1 \in DOMAIN tx /\ tx'[i] = tx[i + 1] /\ (Upload(i)' => Upload(i + 1))
        BY <1>1, <1>2 DEF Upload
      <4>9. \A i \in DOMAIN tx' : Upload(i)' /\ got' > 1 => tx'[i].n > 0
        BY <1>1, <1>2, <2>2, <2>5, <3>1, <3>4, <4>8 DEF Asked, Upload
      <4>10. \A i, j \in DOMAIN tx' : i < j /\ Upload(i)' /\ Upload(j)' /\ tx'[i].n > 0 => tx'[j].n > 0
        <5>1. \A i, j \in DOMAIN tx' : i < j => i + 1 < j + 1
          BY <1>1, <1>2
        <5> QED
          BY <2>2, <4>8, <5>1 DEF Asked
      <4>11. Asked'
        BY <1>1, <2>2, <2>3, <4>8, <4>9, <4>10 DEF Asked
      <4> QED
        BY <4>4, <4>7, <4>11
    <3> QED
      BY <1>1, <2>5, <3>3, <3>4
  <2> QED
    BY <1>1, <2>4, <2>5
<1> QED
  BY <1>9, <1>10, <1>11 DEF FlashInv

\* The line loses the next byte, either way.
LEMMA LineLoses ==
  ASSUME FlashInv, Lose
  PROVE  FlashInv'
<1>1. /\ UNCHANGED <<fam, pins, ownPort, call, rc, pc, o, seq, acc, strap, dev, slot, got>> /\ Kinds /\ Lines
      /\ \/ tx # <<>> /\ tx' = Tail(tx) /\ rx' = rx
         \/ rx # <<>> /\ rx' = Tail(rx) /\ tx' = tx
  BY DEF Lose, HostWaits, progress, FlashInv
<1>2. /\ tx # <<>> => /\ Tail(tx) \in Seq(Msgs)
                      /\ \A i \in DOMAIN Tail(tx) : i \in Int /\ i + 1 \in DOMAIN tx /\ Tail(tx)[i] = tx[i + 1]
      /\ rx # <<>> => /\ Tail(rx) \in Seq(Msgs)
                      /\ \A i \in DOMAIN Tail(rx) : i \in Int /\ i + 1 \in DOMAIN rx /\ Tail(rx)[i] = rx[i + 1]
  BY <1>1, Shorter DEF Kinds
<1>4. Kinds' /\ Lines'
  BY <1>1, <1>2 DEF Kinds, Lines, InLoader
<1>5. WholeWhenOk' /\ OutOfLoader'
  BY <1>1 DEF FlashInv, WholeWhenOk, OutOfLoader, Clean, Image, InLoader
<1>6. Xmodems'
  <2>1. SUFFICES ASSUME fam = "xmodem"  PROVE Heard' /\ Said'
    BY <1>1 DEF Xmodems
  <2>2. Heard /\ Said
    BY <2>1 DEF FlashInv, Xmodems
  <2>3. CASE tx # <<>> /\ tx' = Tail(tx) /\ rx' = rx
    <3>1. Tail(tx) = <<>>
      <4>1. \A a : Tail(<<a>>) = <<>>
        BY Single
      <4> QED
        BY <1>1, <2>1, <2>2, <2>3, <4>1 DEF Said, Lines, XPlaces, SPlaces, EPlaces, Outside
    <3>2. Heard'
      BY <1>1, <2>2, <2>3 DEF Heard, Image
    <3> QED
      BY <1>1, <2>2, <2>3, <3>1, <3>2 DEF Said, Outside
  <2>4. CASE rx # <<>> /\ rx' = Tail(rx) /\ tx' = tx
    <3>1. pc \in XPlaces \cup Outside \cup {"send"}
      BY <1>1, <2>1 DEF Lines, XPlaces, SPlaces, EPlaces, Outside
    <3>2. pc = "returned" /\ rx = <<Byte("menu")>> => rx' = <<>>
      BY <2>4, Single
    <3>3. rx' \in {<<Byte("ACK"), Byte("done"), Byte("menu")>>, <<Byte("done"), Byte("menu")>>} => slot' = Image
      <4>1. /\ rx' \in {<<>>, <<Byte("menu")>>, <<Byte("ready")>>, <<Byte("C")>>, <<Byte("done"), Byte("menu")>>}
            /\ rx' = <<Byte("done"), Byte("menu")>> => slot' = Image
        BY <1>1, <2>1, <2>2, <2>4, <3>1, XTook, Distinct DEF XPlaces, Outside
      <4> QED
        BY <4>1, Distinct
    <3>4. Heard'
      BY <1>1, <2>1, <2>2, <2>4, <3>1, <3>3, XTook DEF Heard, XPlaces, Outside, Image
    <3>5. Said'
      BY <1>1, <2>2, <2>4, <3>2 DEF Said, Outside
    <3> QED
      BY <3>4, <3>5
  <2> QED
    BY <1>1, <2>3, <2>4
<1>7. Smps'
  <2>1. SUFFICES ASSUME fam = "smp"
                 PROVE  /\ pc = "start" => o = 0 /\ (Clean => rx' = <<>>)
                        /\ Clean /\ pc \notin Outside => Written' /\ Asked' /\ Replied'
    BY <1>1 DEF Smps, Clean
  <2>2. pc = "start" => o = 0 /\ (Clean => rx' = <<>>)
    <3>1. pc = "start" => tx = <<>>
      BY <1>1, <2>1 DEF Lines, Outside
    <3> QED
      BY <1>1, <2>1, <3>1 DEF FlashInv, Smps
  <2>3. ASSUME Clean, pc \notin Outside  PROVE Written' /\ Asked' /\ Replied'
    <3>1. Written /\ Asked /\ Replied
      BY <2>1, <2>3 DEF FlashInv, Smps
    <3>2. Starting' <=> Starting
      BY <1>1 DEF Starting
    <3>3. Written'
      BY <1>1, <3>1, <3>2 DEF Written
    <3>4. Replied'
      BY <1>1, <1>2, <3>1 DEF Replied, Own
    <3>5. Asked'
      <4>1. CASE tx' = tx
        BY <1>1, <3>1, <3>2, <4>1 DEF Asked, Upload
      <4>2. CASE tx # <<>> /\ tx' = Tail(tx)
        <5>1. \A i \in DOMAIN tx' : i + 1 \in DOMAIN tx /\ tx'[i] = tx[i + 1] /\ (Upload(i)' => Upload(i + 1))
          BY <1>2, <4>2 DEF Upload
        <5>2. \A i, j \in DOMAIN tx' : i < j => i + 1 < j + 1
          BY <1>2, <4>2
        <5>3. \A i \in DOMAIN tx' : Upload(i)' =>
                ~Starting' /\ tx'[i].n \in 0 .. Blocks - 1 /\ (tx'[i].n > 0 => o' > 0) /\ (got' > 1 => tx'[i].n > 0)
          BY <1>1, <3>1, <3>2, <5>1 DEF Asked
        <5>4. \A i, j \in DOMAIN tx' : i < j /\ Upload(i)' /\ Upload(j)' /\ tx'[i].n > 0 => tx'[j].n > 0
          BY <3>1, <5>1, <5>2 DEF Asked
        <5> QED
          BY <5>3, <5>4 DEF Asked
      <4> QED
        BY <1>1, <4>1, <4>2
    <3> QED
      BY <3>3, <3>4, <3>5
  <2> QED
    BY <2>2, <2>3
<1> QED
  BY <1>4, <1>5, <1>6, <1>7 DEF FlashInv

---------------------------------------------------------------------------
LEMMA FlashStep == FlashInv /\ [Next]_vars => FlashInv'
<1> SUFFICES ASSUME FlashInv, [Next]_vars  PROVE FlashInv'
  OBVIOUS
<1>1. CASE Refused \/ CallAgain
  BY <1>1, FlashCalls
<1>2. CASE SourceFails \/ XCan \/ XTimeout \/ EConnectFails \/ EWriteFails \/ EVerify
  BY <1>2, FlashLeaves
<1>3. CASE XEnter \/ SEnter \/ EConnect
  BY <1>3, FlashEnter
<1>4. CASE XMenu \/ XPreamble \/ XAsked \/ XSend
  BY <1>4, XBegin
<1>5. CASE XAck \/ XNak
  BY <1>5, XReplied
<1>6. CASE XEotTaken \/ XDone \/ XSkip
  BY <1>6, XEnd
<1>7. CASE SEcho \/ SEchoTimeout \/ SSend \/ STimeout
  BY <1>7, SmpSends
<1>8. CASE SReply \/ SEchoReply
  BY <1>8, SmpReplied
<1>9. CASE SLine
  BY <1>9, SmpLine
<1>10. CASE EConnected \/ ERaise \/ EErase \/ EEraseFails \/ EWrite
  BY <1>10, EspSteps
<1>11. CASE DevUploadMenu \/ DevBlock \/ DevEot \/ DevRun
  BY <1>11, MenuAnswers
<1>12. CASE DevEcho \/ DevChunk
  BY <1>12, RecoveryAnswers
<1>13. CASE Lose
  BY <1>13, LineLoses
<1>14. CASE UNCHANGED vars
  <2>1. UNCHANGED <<fam, pins, ownPort, call, rc, pc, o, seq, acc, strap, dev, slot, got, tx, rx>>
    BY <1>14 DEF vars, progress, device
  <2>2. Kinds' /\ Lines' /\ WholeWhenOk' /\ OutOfLoader'
    BY <2>1 DEF FlashInv, Kinds, Lines, InLoader, WholeWhenOk, OutOfLoader, Clean, Image
  <2>3. Xmodems'
    BY <2>1 DEF FlashInv, Xmodems, Heard, Said, Image
  <2>4. Smps'
    BY <2>1 DEF FlashInv, Smps, Written, Asked, Replied, Own, Upload, Starting, Clean
  <2> QED
    BY <2>2, <2>3, <2>4 DEF FlashInv
<1> QED
  BY <1>1, <1>2, <1>3, <1>4, <1>5, <1>6, <1>7, <1>8, <1>9, <1>10, <1>11, <1>12, <1>13, <1>14
     DEF Next, Host, Device, Xmodem, Smp, Esp

LEMMA FlashAlways == Spec => []FlashInv
<1>1. Init => FlashInv
  BY FlashInit
<1>2. FlashInv /\ [Next]_vars => FlashInv'
  BY FlashStep
<1> QED
  BY <1>1, <1>2, PTL DEF Spec

\* A flash() that returns HEARTH_FLASH_OK on a clean port leaves the whole
\* image in the application slot (HearthFlasherXmodem.cpp, HearthFlasherSmp.cpp
\* and HearthFlasherEsp.cpp: every `return HEARTH_FLASH_OK`), for an image of
\* any length, whatever the line loses or delays, and whatever a call before kept
\* back on a port that XMODEM or the ESP loader uses.
THEOREM FlashWholeWhenOk == Spec => []WholeWhenOk
<1>1. FlashInv => WholeWhenOk
  BY DEF FlashInv
<1> QED
  BY FlashAlways, <1>1, PTL

\* Every return of flash() leaves the strap released, and a return that is not
\* HEARTH_FLASH_OK has reset the co-processor out of its bootloader (B668).
THEOREM FlashOutOfLoader == Spec => []OutOfLoader
<1>1. FlashInv => OutOfLoader
  BY DEF FlashInv
<1> QED
  BY FlashAlways, <1>1, PTL
=============================================================================
