# Hearth: a TLA+ verification project

Hearth is an Arduino library (host side, C++) that drives a Matter
co-processor over a serial AT link. The host keeps no Matter stack: every
attribute, command, event and firmware update is a line on one UART, and the
co-processor may answer late, raise events in the middle of an answer, or
reboot at any moment. The library runs on the sketch's own thread; what looks
concurrent is *nesting*: a read loop dispatches an event to a callback, a
callback calls the library, a command's tail runs deferred work that sends
commands with tails of their own. The power may also go at any moment of an
update. Those two, nesting and restarts, are what the models are about.

Paths below are relative to the repository (`src/Hearth.cpp` and so on).

## 1. The system

| component | state | operations | talks to |
|---|---|---|---|
| AT link (`HearthLink`) | line accumulator, busy latch, URC handler | `command`, `poll`, `waitReady`, `flushInput` | the UART; Hearth core through the URC handler |
| Hearth core (`Hearth.cpp`) | `_lastError`, verdict queue, deferred-work flag, event-mask flag, expected-reboot arm, reconcile latch | `hearthCommand`, `poll`, four drains, URC dispatch | link below, endpoints and sketch callbacks above |
| Reconcile (`ArduinoMatter::begin`) | round, latch, arm | query, compare, clear, write, apply, wait, re-query | core; endpoint registry; the co-processor's stored composition |
| Endpoint registry (`MatterEndPoint.cpp`) | ordered declarations, `reconciled`, each object's id | declare, undeclare, adopt id | reconcile; every endpoint class |
| Endpoint classes (some sixty) | one cached value per attribute | setter, change handler, forwarded command | core; sketch callbacks |
| Water heater, EVSE | pending push; pending proposal, row buffer, cached schedule | forwarded commands, deferred work, reconcile sync | core's verdict queue and deferred walk |
| Charging schedule, row transfer | rows per day | merge, add, validate, fetch, send | EVSE and the energy endpoints |
| Energy control, measurement push | local caches, accumulators | push on change, resend after reconcile | core |
| Update: download | transfer mode, pending block, staged file, link rate, verdict | `+MTOTA` route, pull loop, verify, verdict | core's update drain; stage files |
| Update: apply | phase, attempt, job | flash, confirm, retain, roll back, stage host, reboot, first boot | flashers; stage files; the boot loader |
| Stage files | `staged.ota`, `ota.state`, `manifest`, retained image and meta, `host-prev.bin` | write, rename, remove | file system |
| Bundle parser | none between calls | parse, verify signature | update |
| Flashers (ESP, SMP, XMODEM) | packet number, retries, boot strap | send image with acknowledgements | co-processor boot loader |
| Thread | event-mask flag, role callback | subscribe, resubscribe after reboot, dataset queries | core |
| Preferences | key-value log in one flash sector | put, get, remove, clear | EEPROM emulation |
| Boot pin, colour, compatibility shims; vendored code; tools, examples, tests | | | |

`PROJECT.json` lists the same components with their files and how far each is
modelled.

### What is hard about it

* **One stream, several readers.** A callback that runs inside a read loop may
  call the library. The busy latch must refuse it, and nothing may be lost
  because of the refusal.
* **No request ids on the wire.** An answer belongs to the command in flight
  because nothing else is. After a timeout the next answer may be the last
  command's.
* **Tails.** Each `hearthCommand()` ends in drains. Drains send commands; so
  verdicts, pushes, fetches and merges nest in orders the source order does
  not show, and values read before a call may be stale after it.
* **Windows.** A forwarded command is open for a limited time on the
  co-processor. The host learns of its end by a line that may come too late.
* **Reboots.** Spontaneous ones lose the command in flight, the event mask and
  RAM state; the one an apply asks for has to be told from the others.
* **Power losses.** An update spans several boots of two processors, three
  phases and six files, none of them written together.

What makes each component correct: the link, one reader and an answer to its
own command; the core, verdicts kept, sent once and before what depends on
them; the EVSE, a cache that is the device's schedule; reconcile, ids that
address the endpoint they say, with a bounded number of reboots; the download,
one transfer in a file, a whole bundle or none, one rate at both ends of the
link and a requestor that is on again; the apply, bounded attempts, no torn
rollback, a recorded version that really runs, and rest in the end; the
flashers, a whole image or a failure that leaves the boot loader; the schedule,
two passes that agree and a cache that is the store; preferences, a map of
names to values; the endpoint classes, a cache that agrees with the device and
flags that do not outlive what they speak of.

## 2. The modules

| module | models | composed with |
|---|---|---|
| `HearthLink` | `HearthLink.cpp` over whole lines | |
| `HearthLink_proofs` | theorems about it | extends `HearthLink` |
| `HearthForward` | `hearthCommand`, `poll` and their drains; the verdict queue; heater and EVSE deferred work; the EVSE's reconcile sync | abstracts the link to what `HearthLink` shows |
| `HearthForward_proofs` | theorems about it | extends `HearthForward` |
| `HearthDownload` | `HearthUpdate.cpp` from a `+MTOTA:` line to the verdict and the APPLY; the link rate; `begin()` and `end()` of the update | abstracts the link as above; hands a staged bundle to `HearthApply` |
| `HearthDownload_proofs` | theorems about it | extends `HearthDownload` |
| `HearthApply` | `HearthUpdate.cpp` from `hearthApply()` to the first boot, with every file write | takes a verified bundle; a flash is one step, whose outcomes are those of `HearthFlash` |
| `HearthApply_proofs` | theorems about it | extends `HearthApply` |
| `HearthFlash` | the XMODEM, SMP and ESP flashers | what `HearthApply` calls |
| `HearthFlash_proofs` | theorems about it | extends `HearthFlash` |
| `HearthReconcile` | `ArduinoMatter::begin()`, the registry, the expected-reboot arm, the event resubscription | abstracts the link as above |
| `HearthReconcile_proofs` | theorems about it, and about an endpoint of any class | extends `HearthReconcile` and `HearthEndpointInv`, which share no variable |
| `HearthEndpointTypes` | the endpoint classes, one entry of a catalogue each | |
| `HearthEndpoints` | an endpoint object and the endpoint it stands for: setters, reports, forwarded commands, reboots, what is sent again | extends `HearthEndpointTypes`; a reconcile is what `HearthReconcile` shows |
| `HearthEndpointInv` | the inductive invariant of `HearthEndpoints` | extends `HearthEndpoints` |
| `HearthSchedule` | charging schedules, their merge, the row transfer, the EVSE's pushes and proposals | the races of a verdict are `HearthForward` |
| `HearthSchedule_proofs` | theorems about it | extends `HearthSchedule` |
| `HearthPrefs` | `Preferences.cpp` byte by byte, on the sector of `PreferencesEEPROM.cpp` | implements `HearthKeyStore` |
| `HearthPrefs_proofs` | theorems about it, the refinement among them | extends `HearthPrefs` |
| `HearthKeyStore` | what Preferences promises: a map, and the copy a power loss leaves | |
| `MCHearthApply`, `MCHearthReconcile`, `MCHearthPrefs`, `MCHearthSchedule` | bundles, stored compositions, names and values, proposals for TLC | extend their modules |

**HearthLink.** `calls` is the C++ call stack of the link, `busy` the latch,
`rx` the lines on their way to the host. A line is what it says (`OK`,
`ERROR`, `+MTERR`, a URC, a result) and, for the properties alone, the command
it answers and the event it announces; no guard of the host reads those two.
The three readers are the `Command*`, `Poll*` and `WaitReady*` actions, one
for each way their loop body ends. `ClaimsAttr` is the rule that gives a
`+MTATTR` line to an attribute read in flight. The co-processor's actions are
external: it serves commands in order, answers late, raises events, reboots.

**HearthForward.** `stack` is the call stack of the library: frames stand at
`poll`, `cmd`, `link`, the drains (`resp`, `deferred`, `tail`), the registry
walk (`heater`, `evse`, `fetched`, `merge`), the sync (`sync`, `synced`), the
update's drain (`update`) or inside the link (`read`, `await`, `acted`,
`served`). A frame inside the link makes `Busy` true, which is what the drains
check. Of the update's drain only this much is here: a `BLOCK` line gives it
work, it sends a command through `hearthCommand()` like any other, and it does
not run inside itself. One such command stands for however many it sends. The
event-mask drain puts `_lastError` back as it found it and is left out. `forwards` holds each command
the co-processor forwarded and how its window ended, `wire` the verdicts and
pushes in the order they were sent. A schedule is modelled per day by *whose*
rows it holds, which is all that tells a right merge from a wrong one.

**HearthApply.** `pc` is the next durable step. Each write of a file, of the
boot loader's slot or of a flash memory is an action, and `PowerLoss` may come
between any two; it clears everything but the files, the flash memories and
the slot, and starts again at `begin`. A write may fail (`MaxFaults`), and the
model follows the code in whether anyone looks at the result. A bundle is its
product version; `FwOf` says which Hearth part it carries, which may be an
older one.

**HearthReconcile.** `pc` is the command `begin()` is at and `at` where
`hearthCommand()` or `poll()` is inside it, so an event, an expiry or a reboot
can fall between any two. `drain` is the exchange of the event-mask drain.
The co-processor keeps its composition in flash and its session, event mask and
resent state in RAM.

**HearthDownload.** A `+MTOTA:` line sets fields of `upd` wherever it is read
(`Deliver`): while nothing runs, inside the exchange of a command or in its
tail. `pc` is the command the drain waits for and `cmd` the pull's local
sequence number and attempt, so a line can change the fields between any two
commands of the drain while the drain goes on with what it had read.
`cp` is the co-processor's requestor. A block names its transfer and its
number; that is all that tells a right file from a mixed one. `QUERY` stands
for the three queries of `begin()` as one exchange. `blind` marks the
behaviours in which the co-processor reboots where the code looks for no
reboot, or an `AT+MTBAUD` is lost.

**HearthFlash.** `fam` chooses the flasher. XMODEM and SMP talk through two
queues that lose and keep bytes; of the ESP loader, whose wire protocol is
vendored, each call is a step with every outcome it may have. An image is
`1..Blocks`. `strap` and the boot the reset chooses are state of their own,
since the way out of a failure is what the flashers must get right.

**HearthEndpointTypes and HearthEndpoints.** A class is an entry of
`Catalogue`: what `begin()` leaves in its fields, which attribute each field
shows, what its setter calls send and when they skip it, what its
`attributeChangeCB()` hears, which fields have a "has been set" flag, what its
`hearthOnReconciled()` sends again and which flags that takes down, and the
commands a controller may forward to it. `HearthEndpoints` is what all of them
do with it. `EPInit` picks the class, and `used`, a group of fields that some
setter of the class relates: fields no setter relates do not interact. The
history variable `why` collects what may have set a field and its attribute
apart. `WellFormedCatalogue` is what all classes have in common: a setter's
writes are of its own fields and stand alone or, in the fan's case, follow one
another; what a command carries beside a new value is the cache's; a flag goes
down with the reconcile unless what it speaks of is sent again.

**HearthSchedule.** A schedule is a sequence of entries (a set of days and a
target), as in the code; each pass over it is a function of the rows done. `Fits` and
`Merged` are `mergeByDayFits()` and `mergeByDay()`; `Accepted` is `addTarget()` entry by entry. A push and a
reconcile are command by command, and what a command's return leads to is a step
of its own: the cache is cleared after `apply(0)` has returned (`ApplyNone`,
`ClearCache`), the count is read again after the last row (`StageEnds`), and a
reconcile clears, reads and rebuilds (`ResyncClear`, `ResyncRead`,
`ResyncRebuild`). A controller's proposal comes between any two of these, since
the drains of every command may run it; it fills the row buffer from its start
(`Refilled`) and is merged if the sketch allows it. `Overtaken` says where that
sets cache and store apart.

**HearthPrefs and HearthKeyStore.** The region is a function from offsets to
bytes and every put, overwrite, splice and clear writes bytes, since what can
go wrong is in the lengths. A record is known by its offset; `Walk` is the set of
those the code's loop comes to, `EndOffset` where it stops. The refinement
mapping reads the region with that walk: `now <- Get(region)`,
`kept <- Get(flash)`. The store's steps are named by the call they are, with its
arguments, and both modules keep the last call and its result (`call`,
`result`): a put of `n` and `v` has to leave `v` under `n`, or nothing where there
was no room, and every other name alone; a put that leaves the old value or
changes another name is no step of the store.

## 3. What is checked

| run | question | properties |
|---|---|---|
| `link` | whose answer does a command take, does every event reach the handler once and in order, does every call return? | `OneReader`, `OwnAnswer`, `EventsDelivered`, `EventsInOrder`, `CallsReturn` |
| `forward` | are verdicts kept and sent before their pushes; is `lastError()` the caller's own; is every command answered? | `VerdictBeforePush`, `VerdictKept`, `LastErrorOwn`, `ForwardsResolved` |
| `apply` | do power losses and failed writes leave attempts and reboots bounded, the retained image whole, the claimed and recorded versions right; does it rest? | `AttemptsBounded`, `RetainedConsistent`, `RebootsBounded`, `DeclaredInForce`, `RecordedRuns`, `Settles` |
| `reconcile` | do endpoints hold the right ids, are applies bounded, is a reboot taken for the right one, does the subscription follow? | `AdoptedIds`, `AppliesBounded`, `ArmScoped`, `SeenMeansApplied`, `StateResent`, `BeginEnds`, `SubscriptionFollows` |
| `download` | can two transfers mix in a file, can a part of a bundle be staged, do the two ends of the link agree on the rate, does the requestor come back? | `OneTransfer`, `StagedWhole`, `RatesAgree`, `RequestorOn` |
| `flash` | does OK mean the whole image, is every failure out of the boot loader, does every call return? | `WholeWhenOk`, `OutOfLoader`, `FlashReturns` |
| `endpoints` | for each class, does the cache agree with the device; is a setter ever skipped for a value the device no longer holds; does what is sent again arrive? | `Agree`, `WrittenMeansHeld`, `PushedHolds` |
| `schedule` | do the two passes of a merge agree, is the cache the store, can a failed push wedge the next? | `FitsAsAdded`, `CacheIsStore`, `NeverWedged`, `ResyncWhole` |
| `prefs` | is the record log a map of names to values, through failed commits and power losses? | `OneRecordEach`, `KeepsWhatItSays` |

`KeepsWhatItSays` is the refinement `HearthPrefs => HearthKeyStore!Spec`. A
module's `TypeOK` is a property of the `link` and `prefs` runs; the other
modules have one (`EPTypeOK` in `HearthEndpoints`) to be checked by adding it to
the `INVARIANTS` of the module's configuration. The mutants in `PROJECT.json`
are one plausible bug for each property, each of which TLC finds.

Three more runs show a documented promise that the code does not keep. Each is
a finding in `PROJECT.json`, which quotes the promise:

| run | what happens |
|---|---|
| `evse_race` (`CacheMatchesDevice`) | A second SetTargets arrives during the exchange of the first one's verdict. The verdict command's own tail fetches, answers and merges it, and then the first one is merged over it. |
| `healthy_downgraded` (`HealthyNotDowngraded`) | A resumed apply has no pre-apply version; its failure tail therefore takes a healthy co-processor for one to roll back and flashes an older image. |
| `refused_applied` (`AppliedConsented`) | An APPLY is noted and its transfer ends before the drain gets to it. A second bundle is staged and refused by the sketch's hook, its transfer ends, and the next drain applies it: nothing takes the noted APPLY down with the transfer it was for (`HearthUpdate.cpp:511`). |

### Seen while modelling, without a run

In the code against its own comments or documentation:

* A proposal is merged into the host's cache whatever `AT+MTCMDRESP` was
  answered, so also when the window had closed and the device denied it
  (`MatterEvse.cpp:440`, `MatterEvse.h:165`).
* The update's drain at the end of `hearthCommand()` (`Hearth.cpp:374`, `:404`)
  sends commands of its own, which set `_lastError` (`HearthUpdate.cpp:92`), and
  saves nothing, where the comments at the other drains say that background
  traffic can never clobber the caller's `lastError()` (`Hearth.cpp:359`, `:1014`).
  A sketch whose command was refused while a block is waiting reads the pull's
  outcome. `LastErrorOwn` names the exception; the value `hearthCommand()` returns
  and `lastLinkRc()` are the command's own. The `resp`, `push` and `fetch` commands
  cannot do it.
* A controller's schedule that is merged between two commands of the host's own
  work can set the cache and the store apart, without any fault. The merge is
  called "deterministic and race-free" (`MatterEvse.h:149`), of the row buffer
  it is said that its two uses "never run concurrently" (`MatterEvse.h:192`), and
  the re-push of the cache is called "provably the IDENTITY" (`MatterEvse.cpp:284`).
  - Between `apply()` and the cache's part of it (`MatterEvse.cpp:266`, `:194`):
    the store takes the push and then the proposal, the cache the proposal and
    then the push, or the `clear()`.
  - While the cache itself is being pushed: the rows staged so far are those
    of before, the rest and the count those of after, and the merge is skipped
    (`MatterEvse.cpp:298`). The apply is refused for its count, or the store takes
    a schedule that is neither, or, if the proposal emptied the cache, all of it
    is cleared.
  - Between a reconcile's `clear()` and its rebuild (`MatterEvse.cpp:351`): the
    proposal is merged into the empty cache and fetched over the start of the
    row buffer, and the rows are added to that. With `mon: a, tue: b` in the
    store, a proposal of `mon: c` leaves the cache with `mon: c, mon: c, tue: b`.

  `CacheIsStore`, `NeverWedged` and `ResyncWhole` name these and hold in every
  other order. Two proposals in each other's exchanges are the run `evse_race`.
* A power loss between staging the old sketch and recording it lets the old
  sketch confirm itself as the new version (`HearthUpdate.cpp:2343`).
* An apply that failed because its record could not be written leaves the
  earlier record, and resumes at the next boot (`HearthUpdate.cpp:1610`).
* A bundle with nothing to apply is recorded but not declared, so the provider
  offers it until the host reboots (`HearthUpdate.cpp:1778`).
* `getString(key, String)` always returns the default
  (`Preferences.cpp:456`). A put that has no room for its value loses the old
  one, as a comment says (`Preferences.cpp:265`), where the header says that
  nothing is evicted (`Preferences.h:40`). `HearthKeyStore` states what the
  code does (the second half of `Put`).
* The XMODEM sender goes on to the next block after its last NAK
  (`HearthFlasherXmodem.cpp:271`); the receiver then refuses the block out of order, so
  `WholeWhenOk` still holds. The fallback to the ROM's own rate is not used
  when it was the rate change's answer that was lost.
* A reply to an SMP request of an earlier, failed `flash()` can be taken for the
  answer of the next call. Every call numbers its requests from 0
  (`HearthFlasherSmp.cpp:851`), and a port that is the sketch's own is not
  emptied in between, where the comment at `smpReadFrame()` says that "the stale
  reply to an already-abandoned request must not be mistaken for this one"
  (`HearthFlasherSmp.cpp:654`). The offset of such a reply can carry the upload
  past blocks it never sent. `WholeWhenOk` therefore speaks of a *clean* port:
  the first call, or a port the apply opens for itself.
* A repeated setter is skipped when the cache is equal, also when `begin()`
  cached a value that was never written (`MatterDoorLock.h:75`): most classes
  cache `begin(initialState)` without a write.

Cases that follow from the code and that nothing promises otherwise: two
accepted boosts may be pushed to the heater in the other order
(`MatterWaterHeater.cpp:508`); after two power losses the new sketch can save
itself as its own fallback; a co-processor reflashed by hand is compared by the
version it ran before; an aborted second `begin()` leaves the ids of the first,
where `Hearth.cpp:1403` says they are at 0; an APPLY read in the tail of the
verdict's own exchange is dropped and the provider must send it again; an
`+MTOTA` ERROR leaves the pending block; a reboot of the co-processor during a
download uses up the flag that asks for the re-probe (`HearthUpdate.cpp:365`);
a sync whose `+MTROW` lines are all lost counts as an empty schedule; the
water heater's local-temperature flag outlives a reboot
(`MatterWaterHeater.cpp:350`), which `WrittenMeansHeld` leaves out
(`sticks`), as it leaves out a battery source's readings, which a call that
writes nothing flags (`noted`); smoke alarm, operational state and water valve
send nothing again after a reboot; a Cancel that is accepted but answered late
leaves the energy management cache as if it had happened; a report that falls
between a setter's echo and its OK is overwritten by the setter (`crossed`).

### Bounds, and why they are enough

* `link`: two commands, because an answer that slips needs one command to time
  out and one to take its answer; two URCs, the least that can be out of order;
  one boot, and one poll or wait, which a command's callback may make or which
  may carry the callback that makes a command.
* `forward`: two forwarded commands, or one and one block of a download
  (`MaxEvents`), since the co-processor forwards one at a
  time and every order known to go wrong is of two; a queue of one so that it
  fills; one day, since days do not interact in what is checked; from `begin()`
  on, so that the walk also runs under the sync. `evse_race` is the smallest
  that shows its case. Three commands do not fit the time: the chain of three
  is left to the structure (a walk's frame never outlives the one below it).
* `apply`: two offers, so that the second finds files of the first; two power
  losses, so that a recovery is interrupted; one failed write and one hand
  reflash. One bundle has a Hearth part only, the other both parts with an
  older Hearth part.
* `reconcile`: two endpoints of two types, so that order matters; two `begin()`
  calls, so that the latch and the second resend matter; one reboot of the
  co-processor's own beside the one an apply takes; a callback registered and
  removed. The co-processor starts empty, right, or in the other order.
* `download`: two transfers, so that one's line can meet the other's file; two
  blocks, so that there is a first and a last; one lost exchange of a pull, an
  acknowledgement or a verdict, two damaged answers (so that a retry fails
  too), one reboot, one failed write, one refusal and one `end()`. The
  co-processor reboots by itself only outside a transfer: during one the
  re-probe is lost, as said above. `refused_applied` needs no fault at all.
* `flash`: three blocks (a first, a middle and a last), sequence numbers
  modulo 2 where the code has 256, so that they come round within one image,
  two retries of each kind, and two calls so that the second finds what the first left on the
  line.
* `endpoints`: two setter calls, one report or forwarded command and one loss,
  refusal, late verdict or reboot. A value is one of two, or "another". Of
  classes identical by definition, or contained in another, the run takes one:
  the plugs and mounted controls are lights, air purifier and extractor hood
  are the fan, the cabinets on their own are contained in the owned one and the cook
  surface, washer, dryer and dishwasher in the microwave oven, the remaining sensors are the temperature or contact sensor, the
  meters and the heat pump are the electrical sensor, and device energy
  management is contained in battery storage. Any of them can be added to
  `Classes`.
* `schedule`: two days of two targets, so that a target can belong to one day,
  the other or both, and a day's limit is reached; proposals of nothing and of
  a full pair of days, any number of them, each allowed or denied; one target
  built by the sketch, which a merge can make more of in the cache; one refused
  command or lost line.
* `prefs`: nineteen bytes hold two records but not three, so a put fits,
  splices or finds no room; the names run into one another when namespace and
  key are written back to back; two types of one length and two lengths.

### Fairness, and why the code justifies it

* `HearthLink`: weak fairness of a reader's loop body and of a callback's
  return. `millis()` advances, so a timeout is always enabled in the end.
  Nothing is assumed of the co-processor.
* `HearthForward`: the sketch keeps calling the library (the repository's
  README asks for it), the host's own steps go on, and the co-processor
  answers. A callback's return has strong fairness because a callback may
  itself call the library, which disables the return for as long as that call
  lasts. Forwarding and expiry are not fair: nothing makes a window close, so
  `ForwardsResolved` is the host's own doing.
* `HearthApply`: the host runs on. Nobody has to offer a bundle, and power
  losses, faults and reflashes are bounded and never forced.
* `HearthReconcile`: the sketch keeps polling, the co-processor answers and
  boots. Strong fairness of the end of the 15 s wait, because each poll of the
  wait disables it for a moment, and of taking the event mask, because it may
  refuse some of the time but not for ever.
* `HearthDownload`: the host's steps go on, an exchange is served or lost in
  the end, the co-processor drops a transfer nobody continues, and a device
  that is not commissioned is commissioned some time (the requestor is off
  until then). No transfer has to start.
* `HearthFlash`: the flasher's own loop goes on, where a wait that has read
  everything times out because `millis()` advances. Nothing is assumed of the
  co-processor.
* `HearthEndpoints`, `HearthSchedule` and `HearthPrefs` are safety only.

`CHECK_DEADLOCK FALSE` is set where the system may really stop: every bounded
call was made, or the device is at rest with nothing on offer.

## 4. What is proved

TLAPS proves these for every value of the constants: any number of commands,
calls, blocks, transfers, endpoints, power losses and reboots. They rest on the
assumptions each module names about its constants and on nothing else:
`BoundsAssumption`, `ForwardAssumption`, `DownloadAssumption` and
`EndpointAssumption` (bounds are natural numbers, options are among those the
code has and classes are of the catalogue, a bundle has a block),
`FlashAssumption` (an image has a block, an entry has an attempt, a sequence
number has two values at least), `ApplyAssumption` (versions are positive;
bundles and host parts are among them), `ReconcileAssumption` (finitely many
endpoints, each with a type; the stored compositions are made of those types),
`ScheduleAssumption` (finitely many days), `ProposalsAssumption` (the
device lets through only proposals that keep the rules of a schedule, as
`HearthChargingSchedule.h:16` says it does), `PrefsAssumption` (the sector is
longer than its header, names are of 1 to 255 bytes, where `nameOk()` lets
through 1 to 15, and values of at most 65535, which `hearthPut()` asks) and
`CatalogueAssumption` (`WellFormedCatalogue`). The last is about the catalogue
itself and about no constant: the `endpoints` run evaluates it over every class,
those the run does not take as well.

Every safety property of every passing run is stated by a theorem of these:

| module | theorems |
|---|---|
| `HearthLink_proofs` | `LinkTypeOK`, `LinkOneReader`, `LinkEventsInOrder`, `LinkEventsDelivered`, `LinkOwnAnswer` |
| `HearthForward_proofs` | `ForwardVerdictBeforePush`, `ForwardVerdictKept`, `ForwardLastErrorOwn` |
| `HearthApply_proofs` | `ApplyRetainedConsistent`, `ApplyAttemptsBounded`, `ApplyRebootsBounded`, `ApplyDeclaredInForce`, `ApplyRecordedRuns` |
| `HearthReconcile_proofs` | `ReconcileSeenMeansApplied`, `ReconcileArmScoped`, `ReconcileAdoptedIds`, `ReconcileAppliesBounded`, `ReconcileStateResent`, `EndpointAgree`, `EndpointWrittenMeansHeld`, `EndpointPushedHolds` |
| `HearthDownload_proofs` | `DownloadOneTransfer`, `DownloadStagedWhole`, `DownloadRatesAgree` |
| `HearthFlash_proofs` | `FlashWholeWhenOk`, `FlashOutOfLoader` |
| `HearthSchedule_proofs` | `FitsIsAccepted`, `MergeAccepts`, `ScheduleFitsAsAdded`, `ScheduleCacheIsStore`, `ScheduleNeverWedged`, `ScheduleResyncWhole` |
| `HearthPrefs_proofs` | `PrefsTypeOK`, `PrefsOneRecordEach`, `PrefsKeepsWhatItSays` |

### The link

* `LinkTypeOK`, `LinkOneReader`. The inductive invariant is
  `TypeOK /\ OneReader /\ FramesNamed`. That the type alone is not enough is
  the point: an action takes the top of the stack for the reader, so typing its
  results needs the top to be the only frame, and that there is only one frame
  needs the latch to be up exactly while one exists. `FramesNamed` says that a
  `command` frame has a command to answer.
* `LinkEventsInOrder`. Strengthened to `StreamOrder`: the handled lines, then
  the lines still in the stream, form one increasing sequence. Every action
  either moves the head of the stream to the handler, drops it, or appends an
  event newer than all of them.
* `LinkEventsDelivered`. The four places an event can be in are followed line
  by line: a reader takes the head only, and what it takes is either handed
  over or accounted for.
* `LinkOwnAnswer`. `AnswerInv` is `OwnAnswer /\ Numbered /\ InFlight`. As long as
  no command timed out, everything between host and co-processor that ends a
  command belongs to the one in flight, and a terminal is the last line of it
  (`Sole`): the request on its way, the command being served and its lines in
  the stream exclude each other, so reading a terminal leaves nothing behind
  that the next command could take.

### Forwarding

One invariant, `ForwardInv`, for the three theorems. The call stack is what
makes it hard: a drain may run in any frame and a callback may call the library
again. Every step is first described index by index (`Going`, `Calling`,
`Returning`, `GoingCalling`), whatever it does to the rest of the state; the
invariants then say what the label of a frame tells of the frames around it.

* `StackInv`: above a frame inside the link there are only calls of a callback
  (`Nested`); a frame that waits for its callee is nowhere a frame may not be
  left (`Callers`); the callee of a fetch fetches for its caller (`Fetching`);
  the sketch's own call is at the bottom (`OneApp`).
* `ForwardVerdictBeforePush`. A push that is waiting belongs to a command whose
  verdict is gone or still in the queue (`PushAfter`), the walk begins with an
  empty queue unless the link is taken (`Drained`), and a push under way belongs to a
  verdict that is gone (`PushSent`).
* `ForwardVerdictKept`. A command in an open window is in exactly one of five
  places: its line in the stream, the queue, the hand of the EVSE, a frame, the
  wire (`OnceInv`), and each step moves it to the next. `FetchClosed` is what
  the walk needs: a fetch is refused only for a command whose window is closed,
  so dropping the proposal drops no verdict.
* `ForwardLastErrorOwn`. `OwnInv` follows `lastError` by where the frame at the
  bottom stands, through the commands of its own tail and the reset after them.
  A walk may begin with an error that is already another's, a callback's or the
  update's, and puts that one back (`Good`, `Found`).

### The apply

* `ApplyRetainedConsistent`. `StageInv` says what each place in the rotation
  may count on (no meta while the image is being written, a whole image before
  the meta is), and which bundle is staged while a Hearth part is applied.
* `ApplyAttemptsBounded`. `Attempts` relates the count of flashes to the attempt
  number in the job and in the state file at every place of the loop: the record
  is always at least the flashes made, so a power loss can only skip an attempt.
  It holds without failed writes (`faults = 0`), and the code gives no more: a
  record that cannot be written is not counted.
* `ApplyRebootsBounded`. `LapInv` ties the count to the phase of the state file
  a boot finds: `HOST` after one reboot at most, `HOST_CONFIRM` after two. It
  too is for `faults = 0`: a state file that cannot be written takes the
  board through the same phase again.
* `ApplyDeclaredInForce`. `ClaimInv` says at each place which version the
  co-processor was last told, the target while the apply runs and the version in
  force once it failed. `deaf` marks the declarations it did not hear, which the
  code does not repeat before the next boot.
* `ApplyRecordedRuns`, an action property. `RunsInv` keeps apart what was
  confirmed and what was only flashed or staged (`FwRuns`, always; `SketchRuns`,
  while no power was lost). The second half needs the order of versions: a host
  part that is not selected is the one that runs. With a power loss between
  staging the old sketch and recording it the code gives no more, as said in
  section 3.

### Reconcile

* `ReconcileSeenMeansApplied`, `ReconcileArmScoped`. The question is which
  reboot a `+MTREADY` speaks of. `ReadyFirst` answers it from the order of the
  stream: an apply needs an open session, a session does not outlive a reboot,
  and the answer to the command that opened it comes after the `+MTREADY` of
  every earlier reboot; so when the apply can be accepted, no older `+MTREADY`
  is left to be read. `Asking` says that the stream holds at most one answer,
  to the command the library is at, and `Applied` ties an accepted apply to the
  place `begin()` is at and to the arm.
* `ReconcileAdoptedIds`, `ReconcileAppliesBounded`, `ReconcileStateResent`.
  `AdoptInv` adds what the loop has learned: the answer of a query is the
  stored composition (`Queried`), the endpoints the resend has passed have the
  ids they are stored under, and the co-processor holds their state unless it
  rebooted (`Resending`), and wherever `begin()` may still apply, it has applied
  no more often than objects were destroyed, or what is stored is already
  what is declared (`Budget`).

### The endpoints

One invariant for the three theorems, `EndpointInv` of the module
`HearthEndpointInv`. They hold for any set of classes of the catalogue, any
group of fields, and any number of calls, events and faults; TLC checks the
invariant with `EndpointInv` in the configuration of the `endpoints` run and
`HearthEndpointInv` for its module. None of the three is inductive by itself,
since each speaks of an endpoint at rest: the invariant says what the lines on
the wire are about to do.

* `EndpointAgree`. The reports not read yet and the OK of the command in flight
  come in the order the co-processor sent them. A field without a reason to
  differ *tracks* its attribute (`Tracks`, `Tracking`): either they are equal and no
  report of it is under way, or the last report under way is of the value the
  attribute has. Between a command that was applied and its OK the field need not
  track, for the OK will set it (`Lands`); then nothing else may change the
  attribute without leaving a reason, and no report of it may come after the OK
  (`Undisturbed`). A command no answer will come to has left a reason
  (`Unanswered`), and the cached values that a command carries beside the new one
  are still those of the cache (`Beside`).
* The fan is the hard case. One call makes two writes, and the first one's report
  also sets the field of the second (`hears`); a report in the wrong field
  would break `Tracking`. `Strays` says that this happens only between the two,
  before the first one's OK, which sets both fields, and `Followed` that the second
  write then changes nothing.
* `EndpointPushedHolds`. `Pushed` follows the push after a reconcile write by write: what is
  owed and still differs because of the reboot is yet to be sent (`Coming`),
  and the attempt at each write is made whatever became of the one before.
* `EndpointWrittenMeansHeld`. A flag that is up is backed (`Backed`): the field is
  not stale, or it is to be sent again, its flag is about to go, or a verdict or a report
  that will mend it is under way. That a report mends it whatever happened before
  is `Reported`; that an applied write does is `Landing`. A field that is sent
  again must be one the push does not leave out, which is `Sendable`: the
  push skips a group with a value that was never set.

### The download

One invariant, `DownloadInv`. A step is mostly the end of one command and the
start of the next, which leave the wire alone; the others are taken one by one.

* `DownloadOneTransfer`. A block of another transfer is reached only through
  that transfer's first block, and the line that announces it is read before
  the answer that would let the co-processor go on from it (`Alien`).
* `DownloadStagedWhole`. A file no check has passed exists only from the end of
  the download to the verdict (`StagedInv`).
* `DownloadRatesAgree`, under the hypothesis `"BAUD" \notin Lossy`: no exchange of
  `AT+MTBAUD` is lost, which is what the runs have too. The code has no way to
  see such a loss, and the two ends then differ until the re-probe; every other
  exchange may be lost. While the switch is answered the co-processor runs at
  the new rate, and otherwise at the host's (`RatesInv`).

### The flashers

* `FlashWholeWhenOk`. XMODEM stops and waits: what may be in the two queues at
  each place is a short list (`Heard`, `Said`), in which the loader's "done" is
  about the slot as it still is. The SMP queues have no bound. There the offsets
  carry the argument: within a call they never return to zero once a reply moved
  them, so a slot of two blocks or more is never started over under a reply on
  its way, and a reply's offset is one the device has really reached (`Smps`). The
  sequence number plays no part in it, so its width may be anything. `Clean` is
  a premise of the property and not of the theorem.
* `FlashOutOfLoader`. By the place, which says what the strap and the boot loader
  can be there (`Lines`).

### The schedule

The passes over a schedule are loops, written as functions of the number of rows
done. That such a function exists and what it keeps is shown by going up the
rows (`Runs`, `Climb`: a set that holds 0 and with each row the next holds them
all), which needs no induction over an operator.

* `FitsIsAccepted`, about the operators alone. After i rows the groups of the
  validate pass hold how many entries each bitmap has, and its verdict is that
  `addTarget()` takes each of the i (`GroupsTell`): the count of a bitmap that is
  there already says that no other shares a day with it.
* `MergeAccepts`. What `addTarget()` asks entry by entry comes to three rules
  on the whole list (`Ruled`): no empty bitmap, no day in two bitmaps, no more
  than the limit on a bitmap. The bound on all entries follows from these, since
  an entry is known by a day of its own and its rank (`RuledBound`). Narrowing
  keeps the three (`NarrowedRuled`: two entries that are alike after it were
  alike before), and under a covering mask what stays and what comes share no
  day (`ConcatRuled`). Hence the comments at `MatterEvse.cpp:281` and `:437`, that
  such a merge cannot be refused.
* `ScheduleNeverWedged`, `ScheduleCacheIsStore`, `ScheduleFitsAsAdded`. One
  invariant, `Inv`: the rows staged are the schedule being pushed as far as the
  push has come (`StagedSoFar`), and as long as nothing is `unsure` the store is
  the cache, or, from an apply to the cache's part of it and from a reconcile's
  clear to its rebuild (`Pending`), what that part will make of it (`InStep`). A
  proposal keeps this outside `Pending`, since store and cache merge alike, and
  raises `unsure` inside it. Under a push of the cache itself it changes the rows
  still to come: there `StagedSoFar` claims nothing (`Undisturbed`), and `unsure`
  and `clean` say so.
* `ScheduleResyncWhole`, an action property. A read as long as its total has lost
  no line (`ArrivingWhole`), a reconcile that nothing came between still has an
  empty cache and the rows of the store in its buffer (`ReadWhole`), and a schedule
  that keeps the rules is rebuilt whole (`RebuildTakes`, from `RebuildsAccepted`).

### Preferences

The code has no index: where a record is follows from the lengths of those before
it, and the refinement mapping reads with the same walk. So the proof is about
what a write does to a walk.

* A walk as a set of offsets (`Chain`): it begins at the header, each record leads
  to the next offset, and every other offset is led to by a record. A region has one
  such set (`ChainUnique`), so to know the walk of a region that was written it is
  enough to give the set and show that it is a chain. Records do not overlap
  (`ChainApart`), and the walk stops at its last offset (`ChainEnds`).
* The three writes. A splice moves the records behind the gap down by its length
  (`Spliced`), a value written in place leaves the walk as it was (`Overwritten`), an
  append puts a record where the terminator was and a terminator behind it
  (`AppendedWalk`); each carries all other records over with their bytes (`Moved`,
  `Alike`), hence their names and values. `clear()` is a loop of splices, which
  ends with the namespace gone because a record is five bytes at least
  (`ClearedNames`).
* The invariant `Inv`: a region that is laid out has its terminator inside
  (`Terminated`) and no name twice (`Unique`), in RAM and in flash, and an open handle
  is on a region that is laid out. The last is what the operations need: only
  `begin()` looks at the magic. `PrefsTypeOK` and `PrefsOneRecordEach` follow from it.
* `PrefsKeepsWhatItSays`, the refinement `Spec => HearthKeyStore!Spec`. One lemma for
  each operation says what it does to the names (`PutNames`, `RemoveNames`,
  `ClearNames`, `BeginNames`), and `StoreSteps` shows that it is the store's step of
  the same call with the same arguments.
  A name is compared length by length; that two names whose characters run into
  each other stay apart is `Named`.

### Only model-checked

* Liveness: everything under fairness is out of the prover's reach, and so is
  `ENABLED`.
* `WellFormedCatalogue`, what the entries of the catalogue have in common: a
  statement about each of its records, with no variable in it, which TLC
  evaluates record by record.

## 5. What is not modelled

* Parsing, formatting and the byte level of the wire (a line that is too long
  is discarded by the code and has no event in the model).
* The signature, the bundle's layout and vendored code: `HearthDownload` takes
  a whole bundle of one transfer for verified and anything else for refused.
* Timing, but for which of two deadlines comes first where the code lets it
  vary.
* The `begin()` of the composed appliances (oven, cooktop, refrigerator), which
  declare their parts one after the other and may fail half-way, and parent
  indexes in the registry, which a removed endpoint leaves counting from the
  old order (`MatterEndPoint.cpp:296`).
* Thread data, Wi-Fi and role names, `identify()` and reads of an attribute a
  class does not cache: single exchanges that change no state of the host.
* The EVSE's enable, disable and diagnostics commands beyond the shape of a
  forwarded command.
* `end()` from a callback in the middle of the update's drain, and a second
  `begin()` without it; `Hearth.begin(Stream&)` called again and
  `hearthClearDeclarations()`, which restart the reconcile by design; more than
  one co-processor model.
* Boot pin, colour conversion and platform shims; tools, examples and the
  host tests, which are read as documentation.

A failed re-opening of the staged bundle in the apply is modelled as one of its
faults. The co-processor's firmware is not in this repository: its actions are
what the library's code and comments rely on, and are marked external in the
map.

## 6. Plan

1. *Done:* the link, forwarding, the update from announcement to first boot,
   the flashers, reconcile, the endpoint classes, the schedule and preferences.
2. *Done:* every safety property of the runs of `HearthLink`, `HearthForward`,
   `HearthDownload`, `HearthApply`, `HearthFlash`, `HearthReconcile`,
   `HearthEndpoints`, `HearthSchedule` and `HearthPrefs` as a theorem, and the
   refinement of `HearthKeyStore`.
3. Abstract specifications of a forwarded command (open, then resolved once)
   that `HearthForward` implements, and of an update (old or new, never
   neither) that `HearthApply` implements.
4. Parents in the registry, with the composed appliances' `begin()`.

## 7. Running it

    tlc -config HearthForward.cfg HearthForward
    tlc -config MCHearthApply.cfg MCHearthApply
    tlc -config HearthDownload.cfg HearthDownload
    tlc -config RefusedApplied.cfg HearthDownload
    tlapm HearthLink_proofs.tla
    tlapm HearthForward_proofs.tla
    tlapm HearthDownload_proofs.tla
    tlapm HearthApply_proofs.tla
    tlapm HearthFlash_proofs.tla
    tlapm HearthReconcile_proofs.tla
    tlapm HearthSchedule_proofs.tla
    tlapm HearthPrefs_proofs.tla

The largest runs take two to three minutes with two workers, the longest proofs
(`HearthReconcile_proofs`) eleven and (`HearthForward_proofs`) five.
