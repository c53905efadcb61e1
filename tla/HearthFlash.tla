---------------------------- MODULE HearthFlash ----------------------------
(***************************************************************************)
(* The three flashers: HearthFlasherXmodem (Gecko bootloader),             *)
(* HearthFlasherSmp (MCUboot serial recovery) and HearthFlasherEsp (ROM    *)
(* loader).  flash() takes the co-processor into its bootloader with the   *)
(* strap and the reset line, sends the image over a serial line that loses *)
(* and delays, and leaves the co-processor to run what it then holds.      *)
(*                                                                         *)
(* The image is the sequence 1..Blocks.  The XMODEM and SMP conversations  *)
(* go through the queues tx and rx; of the ESP loader, whose wire protocol *)
(* is vendored code, an exchange is one step.  The co-processor's side is  *)
(* external: a bootloader that answers as the flashers expect it to, or    *)
(* not at all.                                                             *)
(***************************************************************************)
EXTENDS Integers, Sequences

CONSTANTS
  Families,       \* the flashers to run, of {"xmodem", "smp", "esp"}
  Blocks,         \* blocks (XMODEM), chunks (SMP) or writes (ESP) of the image
  SeqMod,         \* the sequence number's modulus, 256 in the code
  Retries,        \* HEARTH_XMODEM_RETRIES
  EntryAttempts,  \* HEARTH_SMP_ENTRY_ATTEMPTS
  EchoAttempts,   \* HEARTH_SMP_ECHO_ATTEMPTS
  MaxTimeouts,    \* HEARTH_SMP_MAX_CONSEC_TIMEOUTS
  MaxNoProgress,  \* HEARTH_SMP_MAX_NO_PROGRESS
  Calls           \* flash() calls, one after the other on the same port

ASSUME FlashAssumption ==
  /\ Families \subseteq {"xmodem", "smp", "esp"}
  /\ {Blocks, Calls, EntryAttempts, EchoAttempts} \subseteq Nat \ {0}
  /\ {Retries, MaxTimeouts, MaxNoProgress} \subseteq Nat
  /\ SeqMod \in Nat \ {0, 1}

VARIABLES
  fam,       \* the flasher forModel() returned
  pins,      \* the sketch gave it a reset and a strap pin
  ownPort,   \* the link runs on HEARTH_SERIAL_PORT, which may be re-clocked
  pc,        \* where flash() is
  call,      \* calls made
  rc,        \* what the last flash() returned
  o,         \* blocks the host takes as sent
  seq,       \* XMODEM: the block's number; SMP: the last number taken
  tries,     \* NAKs of this block; echoes sent; timeouts in a row
  stall,     \* SMP: replies in a row that did not advance
  acc,       \* SMP: the decoder's reply under assembly
  raised,    \* ESP: the fast rate was set
  strap, hostRate,       \* the lines the host drives
  dev, romRate,          \* the co-processor: what runs, and at which rate
  slot, got,             \* its application slot, and blocks of this upload
  tx, rx                 \* bytes in flight, each way

progress == <<o, seq, tries, stall, acc, raised>>
device == <<dev, romRate, slot, got>>
vars == <<fam, pins, ownPort, pc, call, rc, progress, strap, hostRate, device, tx, rx>>

Msg(k, s, n) == [k |-> k, seq |-> s, n |-> n]
Byte(k) == Msg(k, 0, 0)
Image == [i \in 1..Blocks |-> i]
Old == <<0>>             \* the application the co-processor came with
NoOff == -1              \* an SMP reply that carries no offset, or an error
Loader == CASE fam = "xmodem" -> "menu" [] fam = "smp" -> "smp" [] OTHER -> "rom"
InLoader == dev \in {"menu", "upload", "smp", "rom"}
Succ(s) == (s + 1) % SeqMod

Init ==
  /\ fam \in Families /\ pins \in BOOLEAN /\ ownPort \in BOOLEAN
  /\ pc = "start" /\ call = 1 /\ rc = "none"
  /\ o = 0 /\ seq = 0 /\ tries = 0 /\ stall = 0 /\ acc = <<>> /\ raised = FALSE
  /\ strap = FALSE /\ hostRate = "low"
  /\ dev = "app" /\ romRate = "low" /\ slot = Old /\ got = 0
  /\ tx = <<>> /\ rx = <<>>

----------------------------------------------------------------------------
(* The lines of the co-processor, and the ways out of flash().             *)

\* What a reset without the strap starts: an application needs a whole image.
Boots == IF slot \in {Old, Image} THEN "app" ELSE "stuck"

\* hearthCoprocReset(): the strap is sampled here, and may be missed.  The
\* menu and the application's +MTREADY are printed at once.
Reset(asserted, unread) ==
  /\ dev' \in {Boots} \cup (IF asserted THEN {Loader} ELSE {})
  /\ romRate' = "low" /\ got' = 0 /\ tx' = <<>>
  /\ rx' = unread \o (CASE dev' = "menu" -> <<Byte("menu")>>
                    [] dev' = "app" -> <<Byte("ready")>>
                    [] OTHER -> <<>>)
  /\ UNCHANGED slot

Return(code) ==
  /\ pc' = "returned" /\ rc' = code
  /\ UNCHANGED <<fam, pins, ownPort, call, progress, hostRate>>

\* Mutant: the failure before B668, the strap still asserted.
ExitStrapped(code, unread) == UNCHANGED strap /\ Reset(strap, unread) /\ Return(code)

\* xmodemFail(), smpFail(), espFail() and smpExitRecovery().
Exit(code, unread) == strap' = FALSE /\ Reset(FALSE, unread) /\ Return(code)

\* The pin check, and SMP's look at the image header, come before any line
\* is driven.
Refused ==
  /\ pc = "start"
  /\ \/ ~pins /\ Return("ENTER")
     \/ pins /\ fam = "smp" /\ Return("SOURCE")
  /\ UNCHANGED <<strap, device, tx, rx>>

\* HearthByteSource::read() fails under the next block.
SourceFails == (pc = "send" \/ (pc = "write" /\ o < Blocks)) /\ Exit("SOURCE", rx)

\* Mutant: the port is not re-clocked, and keeps what was left on it.
CallAgainUnread ==
  /\ pc = "returned" /\ call < Calls
  /\ call' = call + 1 /\ pc' = "start"
  /\ rx' = IF rc = "OK" THEN <<>> ELSE rx
  /\ o' = 0 /\ seq' = 0 /\ tries' = 0 /\ stall' = 0 /\ acc' = <<>> /\ raised' = FALSE
  /\ hostRate' = "low"
  /\ UNCHANGED <<fam, pins, ownPort, rc, strap, device, tx>>

\* The caller re-clocks its port (which empties it), reads it when the flash
\* was good, and tries again.
CallAgain ==
  /\ pc = "returned" /\ call < Calls
  /\ call' = call + 1 /\ pc' = "start"
  /\ rx' = IF ownPort \/ rc = "OK" THEN <<>> ELSE rx
  /\ o' = 0 /\ seq' = 0 /\ tries' = 0 /\ stall' = 0 /\ acc' = <<>> /\ raised' = FALSE
  /\ hostRate' = "low"
  /\ UNCHANGED <<fam, pins, ownPort, rc, strap, device, tx>>

\* Strap and reset lines as each flasher's entry drives them.
Enter(then) ==
  /\ pins
  /\ strap' = (fam # "esp")
  /\ Reset(TRUE, rx)
  /\ pc' = then
  /\ UNCHANGED <<fam, pins, ownPort, call, rc, o, seq, tries, stall, hostRate>>

Quiet == UNCHANGED <<fam, pins, ownPort, call, rc, raised, strap, hostRate, device>>
Took(k) == rx # <<>> /\ Head(rx).k = k /\ rx' = Tail(rx)

----------------------------------------------------------------------------
(* HearthFlasherXmodem::flash().                                           *)

XEnter == fam = "xmodem" /\ pc = "start" /\ Enter("menu") /\ UNCHANGED <<acc, raised>>

XMenu ==
  /\ pc = "menu" /\ Took("menu")
  /\ strap' = FALSE /\ tx' = Append(tx, Byte("one")) /\ pc' = "preamble"
  /\ UNCHANGED <<fam, pins, ownPort, call, rc, progress, hostRate, device>>

XPreamble ==
  /\ pc = "preamble" /\ Took("preamble")
  /\ pc' = "asked" /\ UNCHANGED <<progress, tx>> /\ Quiet

XAsked ==
  /\ pc = "asked" /\ (Took("C") \/ Took("NAK"))
  /\ pc' = "send" /\ seq' = 1
  /\ UNCHANGED <<o, tries, stall, acc, tx>> /\ Quiet

Block == Append(tx, Msg("block", seq, o + 1))

XSend ==
  /\ fam = "xmodem" /\ pc = "send"
  /\ tx' = Block /\ pc' = "reply"
  /\ UNCHANGED <<progress, rx>> /\ Quiet

\* The end of the block loop's body: the next block, or the EOT.
XAdvance ==
  /\ o' = o + 1 /\ seq' = Succ(seq) /\ tries' = 0
  /\ IF o' = Blocks THEN pc' = "eot" /\ tx' = Append(tx, Byte("eot"))
                    ELSE pc' = "send" /\ UNCHANGED tx
  /\ UNCHANGED <<stall, acc>> /\ Quiet

XAck == pc = "reply" /\ Took("ACK") /\ XAdvance

\* The last NAK ends the retry loop with err still HEARTH_FLASH_OK, and the
\* block loop goes on with the next block.
XNak ==
  /\ pc = "reply" /\ Took("NAK")
  /\ IF tries < Retries
       THEN /\ tries' = tries + 1 /\ tx' = Block
            /\ UNCHANGED <<pc, o, seq, stall, acc>> /\ Quiet
       ELSE XAdvance

XCan == pc = "reply" /\ rx # <<>> /\ Head(rx).k = "CAN" /\ Exit("PROTOCOL", Tail(rx))

XEotTaken ==
  /\ pc = "eot" /\ Took("ACK")
  /\ pc' = "done" /\ UNCHANGED <<progress, tx>> /\ Quiet

XDone ==
  /\ pc = "done" /\ Took("done")
  /\ tx' = Append(tx, Byte("two")) /\ Return("OK")
  /\ UNCHANGED <<strap, device>>

\* The bytes each wait looks for; it reads over the others.
XWants ==
  CASE pc = "menu" -> {"menu"} [] pc = "preamble" -> {"preamble"}
    [] pc = "asked" -> {"C", "NAK"} [] pc = "reply" -> {"ACK", "NAK", "CAN"}
    [] pc = "eot" -> {"ACK"} [] pc = "done" -> {"done"} [] OTHER -> {}

XSkip ==
  /\ XWants # {} /\ rx # <<>> /\ Head(rx).k \notin XWants
  /\ rx' = Tail(rx) /\ UNCHANGED <<pc, progress, tx>> /\ Quiet

XTimeout ==
  /\ XWants # {} /\ rx = <<>>
  /\ Exit(IF pc \in {"menu", "preamble", "asked"} THEN "ENTER" ELSE "PROTOCOL", rx)

Xmodem == XEnter \/ XMenu \/ XPreamble \/ XAsked \/ XSend \/ XAck \/ XNak \/ XCan
            \/ XEotTaken \/ XDone \/ XSkip \/ XTimeout

----------------------------------------------------------------------------
(* HearthFlasherSmp::flash(): smpEnterRecovery() and smpUpload().          *)

SEnter == fam = "smp" /\ pc \in {"start", "entry"} /\ Enter("echo") /\ acc' = <<>> /\ UNCHANGED raised

\* smpWriteFrameLines(): length, frame and check sum, as marked lines.
Write(frame) == tx' = Append(tx, frame)

\* The two requests: an echo, and the chunk at an offset.
EchoMap(s)      == Msg("echo", s, NoOff)
UploadMap(s, n) == Msg("upload", s, n)

SEcho ==
  /\ pc = "echo"
  /\ seq' = Succ(seq) /\ Write(EchoMap(seq')) /\ pc' = "echoed"
  /\ UNCHANGED <<o, tries, stall, acc, rx>> /\ Quiet

\* Three echoes to an entry, three entries.
SEchoTimeout ==
  /\ pc = "echoed" /\ rx = <<>>
  /\ IF tries + 1 = EntryAttempts * EchoAttempts
       THEN Exit("ENTER", rx)
       ELSE /\ tries' = tries + 1
            /\ pc' = IF tries' % EchoAttempts = 0 THEN "entry" ELSE "echo"
            /\ UNCHANGED <<o, seq, stall, acc, tx, rx>> /\ Quiet

\* One number per offset, also when it is sent again.
SSend ==
  /\ fam = "smp" /\ pc = "send"
  /\ Write(UploadMap(seq, o)) /\ pc' = "uploading"
  /\ UNCHANGED <<progress, rx>> /\ Quiet

\* Mutant: a timeout that is not counted.
STimeoutFree ==
  /\ pc = "uploading" /\ rx = <<>>
  /\ pc' = "send"
  /\ UNCHANGED <<progress, tx, rx>> /\ Quiet

STimeout ==
  /\ pc = "uploading" /\ rx = <<>>
  /\ IF tries = MaxTimeouts
       THEN Exit("PROTOCOL", rx)
       ELSE /\ tries' = tries + 1 /\ pc' = "send"
            /\ UNCHANGED <<o, seq, stall, acc, tx, rx>> /\ Quiet

\* SmpSerialDecoder::feedLine(): a start line begins a reply, whatever was
\* there; a continuation completes the reply it belongs to, and spoils
\* another (the check sum); any other line is read over.
Fed(line) ==
  CASE line.k = "start" -> <<line>>
    [] line.k = "cont" -> IF acc # <<>> /\ acc[1].seq = line.seq /\ acc[1].n = line.n
                            THEN Append(acc, line) ELSE <<>>
    [] OTHER -> acc
Complete(line) == Len(Fed(line)) = 2

\* smpReadFrame(): the line completes the reply to the request just sent.
Answered == Complete(Head(rx)) /\ Head(rx).seq = seq

\* Where a reply takes the upload: the co-processor's own next offset.
SAdvanced(n) ==
  IF n = NoOff \/ (n <= o /\ stall = MaxNoProgress)
    THEN Exit("PROTOCOL", Tail(rx))
    ELSE IF n >= Blocks
    THEN Exit("OK", Tail(rx))
    ELSE /\ o' = n /\ seq' = Succ(seq) /\ tries' = 0
         /\ stall' = (IF n <= o THEN stall + 1 ELSE 0)
         /\ acc' = <<>> /\ pc' = "send" /\ rx' = Tail(rx)
         /\ UNCHANGED tx /\ Quiet

SReply ==
  /\ pc = "uploading" /\ rx # <<>>
  /\ Answered
  /\ SAdvanced(Head(rx).n)

\* Any reply with the right number will do: this build does not know echo.
SEchoReply ==
  /\ pc = "echoed" /\ rx # <<>>
  /\ Answered
  /\ o' = 0 /\ seq' = Succ(seq) /\ tries' = 0 /\ acc' = <<>>
  /\ pc' = "send" /\ rx' = Tail(rx)
  /\ UNCHANGED <<stall, tx>> /\ Quiet

\* A line that completes no reply, or a reply to another request.
SLine ==
  /\ pc \in {"echoed", "uploading"} /\ rx # <<>>
  /\ ~Answered
  /\ acc' = (IF Complete(Head(rx)) THEN <<>> ELSE Fed(Head(rx)))
  /\ rx' = Tail(rx)
  /\ UNCHANGED <<pc, o, seq, tries, stall, tx>> /\ Quiet

Smp == SEnter \/ SEcho \/ SEchoTimeout \/ SSend \/ STimeout \/ SReply \/ SEchoReply \/ SLine

----------------------------------------------------------------------------
(* HearthFlasherEsp::flash().                                              *)

Answers == dev = "rom" /\ hostRate = romRate
Elsewhere == UNCHANGED <<fam, pins, ownPort, call, rc, seq, tries, stall, acc, got, tx, rx>>

\* esp_loader_connect() drives the lines, then speaks to what came up; after
\* a failed start at the fast rate, once more at the ROM's own.
EConnect ==
  /\ fam = "esp" /\ pc \in {"start", "again"}
  /\ Enter(IF pc = "start" THEN "connect" ELSE "reconnect")
  /\ UNCHANGED <<acc, raised>>

EConnected ==
  /\ pc \in {"connect", "reconnect"} /\ Answers
  /\ pc' = (IF pc = "connect" /\ ownPort THEN "raise" ELSE "erase")
  /\ raised' = FALSE
  /\ Elsewhere /\ UNCHANGED <<o, strap, hostRate, dev, romRate, slot>>

\* No answer, or another chip.
EConnectFails ==
  \/ pc = "connect" /\ \E code \in {"ENTER", "PROTOCOL"} : Exit(code, rx)
  \/ pc = "reconnect" /\ Exit("WRITE", rx)

\* The loader switches when it takes the command; the host only when it has
\* the answer.
ERaise ==
  /\ pc = "raise" /\ pc' = "erase"
  /\ romRate' \in (IF dev = "rom" THEN {"low", "fast"} ELSE {romRate})
  /\ hostRate' \in {"low", romRate'}
  /\ raised' = (hostRate' = "fast")
  /\ Elsewhere /\ UNCHANGED <<o, strap, dev, slot>>

\* esp_loader_flash_start() erases; its answer may be lost.
EErase ==
  /\ pc = "erase" /\ Answers
  /\ pc' = "write" /\ slot' = <<>>
  /\ Elsewhere /\ UNCHANGED <<o, raised, strap, hostRate, dev, romRate>>

EEraseFails ==
  /\ pc = "erase"
  /\ IF raised
       THEN /\ slot' \in {slot} \cup (IF Answers THEN {<<>>} ELSE {})
            /\ hostRate' = "low" /\ pc' = "again"
            /\ Elsewhere /\ UNCHANGED <<o, raised, strap, dev, romRate>>
       ELSE Exit("WRITE", rx)

\* esp_loader_flash_write(), the image's next block.
EWrite ==
  /\ pc = "write" /\ o < Blocks /\ Answers
  /\ slot' = Append(slot, o + 1) /\ o' = o + 1
  /\ Elsewhere /\ UNCHANGED <<pc, raised, strap, hostRate, dev, romRate>>

EWriteFails == pc = "write" /\ o < Blocks /\ Exit("WRITE", rx)

\* esp_loader_flash_verify(), then esp_loader_reset_target().
EVerify ==
  /\ pc = "write" /\ o = Blocks
  /\ \/ Answers /\ slot = Image /\ Exit("OK", rx)
     \/ Exit("VERIFY", rx)

Esp == EConnect \/ EConnected \/ EConnectFails \/ ERaise \/ EErase \/ EEraseFails
         \/ EWrite \/ EWriteFails \/ EVerify

----------------------------------------------------------------------------
(* The co-processor's bootloaders, and the line.                           *)

Hears(k) == tx # <<>> /\ Head(tx).k = k /\ tx' = Tail(tx)
Says(s) == rx' = rx \o s
HostWaits == UNCHANGED <<fam, pins, ownPort, pc, call, rc, progress, strap, hostRate, romRate>>

DevUploadMenu ==
  /\ dev = "menu" /\ Hears("one") /\ Says(<<Byte("preamble"), Byte("C")>>)
  /\ dev' = "upload" /\ got' = 0 /\ UNCHANGED slot /\ HostWaits

\* A block in order is written; a damaged one, or one out of order, refused.
DevBlock ==
  /\ dev = "upload" /\ Hears("block")
  /\ \/ /\ Head(tx).seq = Succ(got)
        /\ slot' = (IF got = 0 THEN <<>> ELSE slot) \o <<Head(tx).n>>
        /\ got' = got + 1 /\ Says(<<Byte("ACK")>>)
     \/ \E no \in {"NAK", "CAN"} : Says(<<Byte(no)>>) /\ UNCHANGED <<slot, got>>
  /\ UNCHANGED dev /\ HostWaits

DevEot ==
  /\ dev = "upload" /\ Hears("eot")
  /\ Says(<<Byte("ACK")>> \o (IF got > 0 /\ slot = Image THEN <<Byte("done")>> ELSE <<>>)
            \o <<Byte("menu")>>)
  /\ dev' = "menu" /\ UNCHANGED <<slot, got>> /\ HostWaits

DevRun ==
  /\ dev = "menu" /\ Hears("two")
  /\ dev' = Boots /\ Says(<<Byte("ready")>>)
  /\ UNCHANGED <<slot, got>> /\ HostWaits

Reply(s, n) == <<Msg("start", s, n), Msg("cont", s, n)>>

DevEcho == dev = "smp" /\ Hears("echo") /\ Says(Reply(Head(tx).seq, NoOff))
             /\ UNCHANGED <<dev, slot, got>> /\ HostWaits

\* Offset 0 starts over; a chunk at the next offset is written; the answer to
\* any other only says which offset is next.  A flash error carries none.
DevChunk ==
  /\ dev = "smp" /\ Hears("upload")
  /\ LET n == Head(tx).n
     IN \/ /\ n \in {0, got}
           /\ slot' = (IF n = 0 THEN <<>> ELSE slot) \o <<n + 1>> /\ got' = n + 1
        \/ n \notin {0, got} /\ UNCHANGED <<slot, got>>
  /\ \E n \in {got', NoOff} : Says(Reply(Head(tx).seq, n))
  /\ UNCHANGED dev /\ HostWaits

\* Lost on the way, or sent to nobody who listens.
Lose ==
  /\ \/ tx # <<>> /\ tx' = Tail(tx) /\ UNCHANGED rx
     \/ rx # <<>> /\ rx' = Tail(rx) /\ UNCHANGED tx
  /\ UNCHANGED <<dev, slot, got>> /\ HostWaits

Device == DevUploadMenu \/ DevBlock \/ DevEot \/ DevRun \/ DevEcho \/ DevChunk \/ Lose

----------------------------------------------------------------------------

Host == Refused \/ SourceFails \/ CallAgain \/ Xmodem \/ Smp \/ Esp

Next == Host \/ Device

\* flash() is a loop of its own: only its clock and the bytes it has read
\* move it on, and nothing is assumed of the co-processor or of the line.
Spec == Init /\ [][Next]_vars
FairSpec == Spec /\ WF_vars(Host)

----------------------------------------------------------------------------

Codes == {"none", "OK", "ENTER", "SOURCE", "WRITE", "VERIFY", "PROTOCOL"}

TypeOK ==
  /\ fam \in Families /\ {pins, ownPort} \subseteq BOOLEAN /\ rc \in Codes /\ call \in 1..Calls
  /\ o \in 0..Blocks /\ seq \in 0..(SeqMod - 1) /\ stall \in 0..MaxNoProgress
  /\ fam = "xmodem" => tries <= Retries
  /\ fam = "smp" => tries < (IF pc \in {"send", "uploading"} THEN MaxTimeouts + 1
                                                             ELSE EntryAttempts * EchoAttempts)
                    \/ pc = "returned"
  /\ Len(acc) <= 1 /\ raised \in BOOLEAN /\ strap \in BOOLEAN
  /\ {hostRate, romRate} \subseteq {"low", "fast"}
  /\ dev \in {"app", "stuck", "menu", "upload", "smp", "rom"}
  /\ got \in 0..Blocks /\ Len(slot) <= Blocks

\* An SMP conversation can begin with replies to an earlier call on the port: a
\* port of the sketch's is not emptied, and every call counts its requests from
\* the same number (HearthFlasherSmp.cpp:851).
Clean == fam = "smp" => ownPort \/ call = 1

\* A flash() that returns HEARTH_FLASH_OK on a clean port leaves the whole image
\* in the application slot, whatever the line lost, delayed or kept (smpUpload()
\* believes the offset of a reply; the apply then retains this very part as the
\* one that runs).
WholeWhenOk == pc = "returned" /\ rc = "OK" /\ Clean => slot = Image

\* Every way out of flash() leaves the strap released, and a failed one has
\* reset the co-processor out of its bootloader (B668).
OutOfLoader == pc = "returned" => ~strap /\ (rc # "OK" => ~InLoader)

\* flash() returns, though the co-processor never answers again: the loop()
\* of the sketch stands still until it does.
FlashReturns == pc = "start" ~> pc = "returned"
=============================================================================
