# Verification of the BES2600 SDK

The repository is the firmware SDK of the BES2600 (best1305) Bluetooth earbud chip with the STDF application framework
on top of it.  This directory holds TLA+ models of the parts in which the program's own concurrency, failure and
recovery logic lives, the TLC runs that check them, and TLAPS proofs.  `PROJECT.json` lists the components, the runs,
the source lines every definition stands for, a mutation per property, the findings and the hazards.

Check a run with `tlc -config StdfOs_safety.cfg MCStdfOs`, a proof with `tlapm StdfOs_proofs.tla`.

## 1. The system

| Component | Code | State | Operations | Talks to |
|---|---|---|---|---|
| Message service | `stdf/stdf_os` | table of delayed messages, "latest" flags, one RTX one-shot timer, mailbox | send, send later, cancel first/all, timer callback, message thread | every STDF module, RTX timers, mutex, mail queue |
| Flash layer | `services/norflash_api` | per module: list of pending operations, operation in flight; one current module | async/sync erase and write, read, flush, flush disable/enable | NV record, log dump, OTA; flash driver; sleep hook |
| NV record | `services/nv_section/userdata_section` | record in RAM, `is_update`, flush state, `written_size` | change, flush (step or whole), rebuild, boot | flash layer; BT, BLE, factory and power-off code; sleep hook |
| Log dump | `services/nv_section/log_section` | ring of sector buffers, sequence numbers | trace output, flush, flush at a crash, restart | flash layer, trace |
| PMU, charger | `stdf/stdf_hal`, `stdf/stdf_bsp/charger` | plug state, raw and debounced | plug interrupts, debounce messages | message service, PHY |
| PHY state | `stdf/stdf_app/stdf_app_phy.c` | case closed, in case, in ear | events, announcements | message service, SDK bridge |
| vbus, protocol | `stdf_hal_vbus.c`, `stdf_app_protocal.c` | receive buffer, last frame header | DMA interrupt, frame check, response | message service, case protocol |
| Key | `stdf/stdf_bsp/key`, `stdf_app_key.c` | edge awaited, press count, times of the last press and release | pin interrupt, press, release and gesture messages | message service, application |
| SDK bridge | `stdf/stdf_sdk` | state of the case's user interface, and the one it is heading for | announcements of the physical state | PHY, role-switching library |
| Hardware timer list | `utils/hwtimer_list` | delta list, fired list | start, stop, restart, interrupt | HAL timers |
| Application thread, battery, lights, OTA, audio, BT, BLE, TWS | `apps`, `services` | see `PROJECT.json` | | |

Interaction is by mailbox messages between threads (STDF, application thread), by direct calls under
`int_lock_global` (flash), by hooks called from the idle thread with interrupts locked (flash layer, NV record, log
dump), and by interrupt handlers that post messages (PMU, charger, vbus, key).

What is hard in it:

- **Interleaving.**  The delay table is used by every thread, and the timer callback visits it in three separate
  critical sections.  The synchronous NV flush gives the interrupt lock up between its sections while the state it
  tests is shared with the sleep hook and other threads.
- **Suspension.**  A flash operation may be suspended by the driver at any point and resumed at a later flush; requests
  arrive in between and must not touch it.
- **Crashes.**  Power may fail within an erase or a program operation; the NV record must boot from one of its two copies.
- **Limits.**  Delay table, mailbox, operation list and the one write buffer are all fixed in size, and each caller has its own retry.
- **Copies of one fact.**  Whether the earbud is in the case is recorded by the PMU, the charger, the PHY module and the
  user interface, each told by messages that others overtake; a cancelled message may have been posted already.
- **Numbers.**  The millisecond clock wraps; copy loops test with `==`; the timer list counts in differences.

The correctness properties of the components follow from that: a delayed message is handled exactly once or has another
known end and never waits for a timer nobody started; what was accepted for the flash gets there in order and is read
back meanwhile; the NV record never goes back to an older version and is saved in the end; the copies of the earbud's
state agree once nothing is on its way; a press of the key counts for one gesture; the log is a ring that loses the
oldest first and keeps what a crash dumped; a software timer expires once per start, on time, and not after its stop.

## 2. Modules

| Module | What it models |
|---|---|
| `StdfOs` | the message service with timer thread, message thread and clock |
| `MCStdfOs` | the keys' symmetry for TLC |
| `StdfOs_proofs`, `HwtimerList_proofs`, `StdfApp_proofs`, `StdfKey_proofs`, `NorflashApi_proofs`, `NvRecord_proofs`, `LogSection_proofs` | the theorems about these modules, see section 4 |
| `SequenceLemmas` | facts these proofs share: sequences, least numbers, induction and recursion over the naturals |
| `DelayedMessages` | what the message service promises its callers; `StdfOs` implements it |
| `NorflashApi` | the flash layer over one suspendable flash device |
| `NvRecord` | the NV record with threads, sleep hook, power failures, over the operations it has pending in the flash layer |
| `StdfApp`, `MCStdfApp` | PMU, charger, vbus and protocol, PHY state and SDK bridge, composed on the message service; the frames for TLC |
| `StdfKey` | the key driver with its pin, interrupt and delayed messages |
| `LogSection` | the log dump section with trace, sleep hook, flash, crash flush and restarts |
| `HwtimerList` | the software timers on the one hardware timer |
| `OneShotTimers` | what the software timers promise their users; `HwtimerList` implements it |

Definitions called "seeded fault" are used by no specification; each replaces the operator its name ends in by a
plausible mistake, and the property it is listed with in `PROJECT.json` must then fail.

### StdfOs

`table` and `latest` are `stdf_os_delay_msg_data[]` and its flags, `timer` the RTX timer and `pending` the callbacks its
expiry has queued for the timer thread, `mail` and `handling` the mail queue and the mail in the handler.  Each section
between `ENTER_CRITICAL` and `EXIT_CRITICAL` is one action.  The callback is
`TimeoutTake` (take the flagged entry), `TimeoutPost` (mailbox), `TimeoutScan` (the next earliest), `TimeoutRestart`.
A message is its `(handler, msg_id)` key and the number of the call that sent it.  `wanted` and `outcome` are history.
`Tick` advances the OS tick and the millisecond counter together.  The mutex' 500 ms assertion is not modelled;
`stdf_os_delay_msg_send` and the count functions have no callers.

`DelayedMessages` has neither slots nor time: messages wait, expire one at a time, queue up and are handled.  It names
the ways in which a message may be lost (a full table refuses it, a sweep right after an expiry takes others along, an
assertion takes the queue) and allows no other.  `Service` in `StdfOs` is the refinement mapping: `waiting` is what the
table holds, `expired` the callback's local copy, `sweeping` the callback between its post and its scan.

### NorflashApi

Every entry point runs under `int_lock_global` and is one action: `EraseAsync`, `WriteAsync`, `EraseSync`, `WriteSync`,
`Flush`, `FlushDisable`, `FlushEnable`.  A module's list is a sequence of nodes, newest first; `cur` and `state` say
which one is in flight.  A flush step completes the tail (`FlushDone`), suspends it (`FlushSuspended`, any prefix of a
write, any damage of an erase) or finds nothing (`FlushEmpty`).  A sector is a function from cells to the set of bits
programmed: an erase empties it, a program only adds.  `expected` is what the accepted requests add up to.  A node that
was freed and is still linked is kept with `freed`, and the model stops there, since what the program does next depends
on who gets the slot.  Reads are the operator `View`.  Registration is in `Init`, `InUse` the sectors found programmed; address and length checks and the
completion callback are left out.

### NvRecord

The record is a version number, the same on all pages; a copy is valid when its pages agree (magic number and CRC in
the code).  `state` is `NV_STATE` as a copy and a step.  `pend` is this module's part of the flash layer's list, with
the merging of `_e_opera_add` and `_w_opera_add`; that another module has the last slot, the write buffer or the device
is a choice in `EraseResults`, `WriteResults` and `Flushed`.  The asynchronous flush is one action since its callers
hold the interrupt lock (the sleep hook; `nv_record_extension_update_tws_ble_info`).  The synchronous flush is a step
per locked section and per unlocked assignment after it, by thread: `SyncTop` .. `SyncDone`.  The state is tested twice
without the lock, to choose the copy (`SyncTop`) and to choose the step on entry to that copy's flush (`SyncEnter`).  Threads have fixed
priorities (application thread above the BT thread) and the flush never blocks: a thread moves only when none above it is in a flush, and the
sleep hook only when none is in it.  `Crash` is a power failure, also in the middle of the oldest operation, followed
by `nv_record_extension_init`.  The 20 minute interval of the sleep hook is a free choice of when.
`app_nvrecord_rebuild` is two steps, since nothing keeps other threads out between them: `Clear` erases both copies with
the interrupts locked (`nv_record_sector_clear`), `RebuildSave` changes the record in RAM and calls the flush.  In
between, a thread above may change the record or flush it, and the power may fail; it may also fail within the clear, in
either erase (`HalfCleared`).  The flush state is not touched by the clear.  The product rebuilds in one place, when it
starts in engineering mode, so one rebuild is under way at a time; `nv_record_rebuild`, the reset to the defaults, is an
`Update` and a `StartFlush`.  That the erases run behind what is pending holds
while flushing is allowed, which is a subject of `NorflashApi`.  A thread between the two steps counts as outside the
flush for `raced`: it has started none.
The fast-pair record's flush outside the lock is not built without `GFPS_ENABLED` and is left out.
`durable` is the version below which no boot may fall.  A main copy that is complete moves it up; a boot sets it to what
it loads, or to the older of two valid copies (`Lasting`): nothing makes them equal before the next flush erases main.
`overtaken` and `raced` mark the two situations in which the code
really breaks a property, see section 5.

### StdfApp

The STDF modules that follow the earbud in and out of its case, each a handful of variables (`pmu`, `chg`, `phy`, `vbus`
and, behind the bridge, `sdk`), and one action per handler of the one message thread that serves them all.  Interrupts
(`Plug`, `Move`, `FrameEnd`), the ear sensor and the timer thread (`Expire`) post at any time.  The two handlers that
wait in the middle are two actions each: `SyRead` / `SyDecide` (I2C) and `Receive` / `TxDone` (response; a command
that the table of `stdf_app_ccp.c` does not list gets none).  The message
service is used as `StdfOs` shows it: `mail` is first in first out, `delayed` can be cancelled only until it is posted,
and `Expire` may lose others.  The receive buffer holds a set: one frame, or, while the next is written over it, both,
of which a handler may read either.  `Announce` folds the bridge's tests over the states an event announces.
History: `late`, `overtaken`, `overrun` and `discarded` mark the situations section 5 names.

### StdfKey

`gpio` is the pin with its edge interrupt, `isr` the interrupt handler in three steps (it reads the pin twice and then sets
the edge, which clears what has been latched), `key` the press count and the two times as ticks since.  A handler decides in one
action (`Press`, `Release`, `Deliver`) and then makes its cancel and send calls one by one (`Call`), since a gesture can
expire between two of them.  The delay table has one entry per gesture.  `TimerRun` is the timer thread, which has the
higher priority and comes before anything but a call that already holds the mutex.  History: `stamp` numbers the press
a gesture was sent for, `raced`, `late` and `missed` mark the exceptions.

### LogSection

`ring` is the ring of sector buffers with the writer's and the flush's place and the next sequence number, `fstate` and
`offs` the state of the flash side, `queue` the operations the flash layer has accepted, `flash` the sequence number in
each sector's header.  Output and sleep hook run with interrupts locked and are one step each; `FlashRuns` works
between them, `Reset` strikes anywhere and loses RAM and queue, `CrashStart`, `CrashEnd` and `RemainRound` are the crash
notification and the loop that writes the rest.  The assertion of the output handler (`log_section.c:487`) is part of
`TypeOK`.  The flash layer is reduced to what one module sees of it: `Run` does the oldest of the accepted operations,
`Done` any number of them in their order; suspension, merging and the competition of modules are in `NorflashApi`.
History: `slipped`, the boot in which the flush pointer overtook the writer.

### HwtimerList

`active`, `fired` and `free` are the lists, `time` the difference to the timer before, `hw` the hardware timer, which counts
from the load less one tick.  Every operation holds the interrupt lock and is an action; the interrupt handler is
`IrqEnter` (cleared, lock not yet taken), `IrqFirst` (fired timers split off, hardware restarted), `IrqPop` and
`CallbackReturn` with the lock released in between.  Callers and callbacks may do anything while it is.  History: `due`,
the ticks left until the time asked for, and `drift`, by how much the code's reckoning may be off.  `OneShotTimers`
forgets lists and ticks; `Status` is the mapping, in which a fired timer is still armed until it is called.

## 3. Runs

| Run | Checks | Bounds | Size |
|---|---|---|---|
| `stdfos_safety` | `TypeOK`, `NoStrandedEntry`, `LatestIsEarliest`, `TimerNotLate`, `ExactlyOnePlace`, `DelayEnds`, `ImplementsService` | 2 keys, 2 table slots, 2 mails, 3 sends, delays to 2, 4 idle ms | 250,000 states |
| `stdfos_discard`, `stdfos_assert` | findings | 2 sends | |
| `norflash_safety` | `TypeOK`, `OneInFlight`, `PendingAddsUp`, `ReadYourWrites`, `InFlightUntouched` | 2 modules, 2 sectors of 2 cells (one in use, one erased at the start), 3 nodes, 1 buffer, 4 requests | 843,000 |
| `norflash_live` | `Drains` | the same with one-cell sectors | 102,000 |
| `nvrecord_safety` | `TypeOK`, `NoRollback`, `RestMeansSaved`, `CleanWrites`, `ComesToRest` | 2 threads, 2 pages, 2 changes, 1 power failure | 419,000 |
| `nvrecord_assert` | finding | 2 threads, 2 pages, 1 change, none | |
| `stdfapp_safety` | `TypeOK`, `QuietAgreement`, `FrameIntact`, `DebouncedByLatest`, `StaysInStep`, `Settles` | any 3 events (plug, case, ear, frame), 4 kinds of frames | 350,000 |
| `stdfkey_safety` | `TypeOK`, `OnePressOneGesture`, `HoldEnds`, `KeyFollowed` | 6 changes of the pin, 5 gestures, any time between them | 2.1 million |
| `log_safety` | `TypeOK`, `SeqUnique`, `CrashLogKept`, `OldestErased`, `CrashFlushEnds`, `FullSectorLeaves` | 2 buffers, 3 sectors, 3 boots, 6 sequence numbers | 134,000 |
| `log_hang` | finding | 1 boot's output | |
| `hwtimer_safety` | `TypeOK`, `ListsAgree`, `OnSchedule`, `HardwareFollows`, `TimersEnd`, `ImplementsTimers` | 3 timers, 3 starts to 4 ticks, a handler up to 2 ticks late | 163,000 |

Why the bounds suffice to make the interesting cases happen:

- Three messages for two slots and two mails fill both the table and the mailbox, let a cancel and a send fall between
  the callback's sections, and let two entries be due at once.  The millisecond clock does not wrap in `stdfos_safety`
  (modulus 1000); what happens when it does is in section 5.
- Four requests with three nodes and one buffer exhaust both, in either order; two sectors let a merge pass an
  unrelated node, two cells let a suspended write be half done.  The product has six nodes and one buffer
  (`FLASH_API_NORMAL`, set in `services/norflash_api/Makefile`).
- Two pages instead of sixteen have a first and a last page and a torn one between; two changes let one arrive during
  the flush of the other, or a rebuild and a change.  The power failure may hit the first boot's own flush, a rewrite of
  either copy, a clear or what follows it; a second one finds nothing new, since a boot establishes the invariant of
  section 4 from any contents of the flash, and the theorems hold for any number of them.
- Three events are a bounce of the plug (in, out, in), an earbud put into the case and taken out again while its register
  is read, or a frame that follows another before it was handled, each against the boot's delayed INIT message.
- Six changes of the pin are a triple click, or a click, a long press and what follows.  The delays are in ticks of
  about half a second, with the order of the product's (pause below hold); the long long press is left out of this run
  since it is sent and cancelled together with the long one.
- Two buffers as in the product; three flash sectors let the ring wrap within a boot, and three boots let the number of
  the second depend on what the first lost.
- Three timers give a list with a head, a middle and an end; one without a callback goes the handler's other way.

`hwtimer_safety` checks for deadlock: the timers can always be freed and allocated again.  The other systems rest when
the bounds on sends, requests, changes, events or boots are used up, and stop at a failed assertion or a crash; their
runs do not check it.

### Fairness

- `StdfOs`: weak fairness of the tick, the timer thread and the message thread.  They wait for nothing
  but the mutex, which is held for a scan of the table, and every thread above the message thread waits for messages of
  its own most of the time.  No caller is assumed to do anything.
- `NorflashApi`: weak fairness of `Flush` (the sleep hook calls it whenever the system idles) and strong fairness of a
  flush step that completes: the driver suspends only while an interrupt is pending, so not for ever, and the CP's
  callback says yes once the CP has started.
- `NvRecord`: weak fairness of the flush step of the sleep hook or of the running thread, and strong fairness of three
  outcomes of it that depend on others: a request finds room in the list, a wait for room ends, the oldest operation
  completes.  The retry loops repeat these without bound, and `Drains` is the reason why room comes back.
- `StdfApp`: weak fairness of the message thread, the timer and the end of a frame, which the DMA reports in any case.
- `LogSection`: weak fairness of the sleep hook and of the flash layer, which the idle thread calls again and again, and
  of the crash flush, the only code left running then.
- `HwtimerList`: weak fairness of the clock, the interrupt and its steps; a callback returns.
- `StdfKey` states safety only.

## 4. Proofs

Every theorem holds for all values of the constants that satisfy the module's assumption: bounds and lengths are natural
numbers, sizes are not zero, tables of times have one for each index.  Where a theorem needs more, it says so below.
An invariant that is not inductive has a strengthening, which TLC checked on the runs' instances before it was proved.

### The message service

`StdfOs_proofs`, for any set of keys, any table and mailbox size, any delays and clock modulus:

- `TypeCorrect`: `Spec => []TypeOK`.
- `NeverStranded`: `Spec => []NoStrandedEntry`.  With the types the invariant is inductive.  The argument: deleting an
  entry restarts the timer if the flagged one went and others are left, adding one starts it if it was stopped, and
  the only steps that stop the timer for good with entries in the table are the tick that queues a callback and the
  callback's own sections, of which `TimeoutRestart` starts it again.
- `FlagOnEarliest`: `Spec => []LatestIsEarliest`.  Inductive with the types.  The argument goes through
  `LatestOK`, the same statement about a table and a set of flags, for which lemmas say what each helper does:
  `TimerStartLatest` (the scan flags the earliest), `DeinitLatest` and `DeleteLatest` (removing entries keeps
  the flag or moves it).
- `Implements`: `Spec => ImplementsService`, the refinement.  The steps are the actions one by one: each posts, expires,
  drops or cancels the same message in `DelayedMessages`, or changes nothing it sees.  The mapping forgets slots, and a
  set of messages loses one exactly if no other slot holds the same; hence the strengthening `ServiceInv`, by which the
  waiting messages were all sent by different calls and the callback holds none between its sections.

Its second part goes on from there:

- `OnePlace`: `Spec => []ExactlyOnePlace`.  That a message is in one place only follows from the numbers of the calls:
  `PlaceInv` says that no two places (slots, callback, mails, handler) hold the same number, that each is of a call made,
  and that the open ones are exactly those held somewhere.
- `FiresInTime`: `Spec => []TimerNotLate`.  `TimeInv` adds that no entry is due further away than its delay.  Until the
  clock wraps only: the property has that as its premise, since what happens at the wrap is one of the hazards.

### The software timers

`HwtimerList_proofs`, for any set of timers with or without callbacks and any number and length of starts:

- `ListsKept`: `Spec => []ListsAgree`.  It does not follow from itself: the interrupt overwrites the fired list, so nothing
  may be left in it, and a start takes whatever the free list holds.  `Good` is inductive: the active, the fired and the
  free list hold the timers of their state and nothing else, each once (`Listed`), only the interrupt handler's loop has
  a fired list, and only there is a timer being called back.  Lemmas say what each operation does to a listed sequence: `TailListed`,
  `CutListed` (the expired part is a first part, however long), `InsertListed`, `RemoveListed`.
- `Implements`: `Spec => ImplementsTimers`, from `Good` and the mapping `Status` step by step.  A failed assertion ends
  the program: no action is enabled after it, so `Good` is needed only until then.
- `OnTime`: `Spec => []OnSchedule`.  A timer's expiry is the sum of the differences up to it, so each operation on the
  list is a statement about sums: inserting splits one difference in two, removing adds one to the next, expiring cuts
  the front and moves the overshoot to the new head.  `Law` bounds, for every timer in the list, how far that sum is
  from `due`; with it no difference is ever negative, which the code's unsigned subtraction rests on.
- `HardwareKept`: `Spec => []HardwareFollows`, and `TypeCorrect`, both from `Timed`, which joins `Good` and `Law` and by
  which no assertion fails.

### The STDF clients

`StdfApp_proofs`, for any frames, side and number of events:

- `FrameKept`: `Spec => []FrameIntact`, and `LatestDebounce`: `Spec => DebouncedByLatest`.  Both speak of the head of
  the mailbox only and are not inductive.  `FrameInv` and `DebounceInv` say the same of every
  message that is waiting, wherever it is: a frame's mail goes with the buffer it was posted for, and no frame is coming in
  meanwhile; a debounce message in mailbox or delay table is of the latest plug event.  With the kinds of messages there
  are (`Types`) that is inductive; `Handled` is what all the handlers that do neither have in common.
- `TypeCorrect`: `Spec => []TypeOK`, with the same list of kinds.
- `CopiesAgree`: `Spec => []QuietAgreement`.  The property says nothing while a message is on its way; `Agree`
  does, for each copy of the plug state: it is right already, or the last message about it that is waiting will put it
  right.  A handler that takes the last such message makes the copy right, one that takes another leaves a last one.
- `InStep`: `Spec => StaysInStep`.  The announced states are folded over a function of fixed finite domain, so the
  fold is unrolled: what is proved is what each of the announcements does to each state of the user interface.

### The key driver

`StdfKey_proofs`, for any times and bounds:

- `TypeCorrect`, and `NeverLost`: `Spec => []KeyFollowed`.  `FollowInv` follows the pin through the driver: the edge the
  interrupt waits for is the opposite of the level it read last, and the last message it sent says that level.
- `HoldsEnd`: `Spec => []HoldEnds`.  `HoldInv`: after a release a long press or a repetition is left only in the
  table, and then the call that cancels it is among those the handler is about to make.
- `PressesCountOnce`: `Spec => OnePressOneGesture`, which needs `PressAssumption`: the multi-press
  time is no longer than the long-press time (500 and 1500 ms in the product).  Without it TLC has a
  counterexample, in which a press whose release was missed joins a long press and a click.
  `GestureInv` keeps apart the presses of the gestures handled, of those in the mailbox in their order, and of those
  still counted; the times in it say that what the handler is about to post is of presses nobody used.

### The flash layer

`NorflashApi_proofs`, for any modules, sectors, cells, contents, slots, buffers and requests:

- `TypeCorrect` and `OneAtATime`: `TypeOK` and `OneInFlight` are inductive together (`Inv`): an operation is in flight
  only for the current module, as the locked tail of its list, and the pending operations have slots of their own.
- `LeftAlone`: `Spec => InFlightUntouched`.  An erase that is accepted drops nodes behind the head and a write merges into
  one in the middle; both stop at a locked node.
- `AddsUp`: `EraseLens = {1} => (Spec => []PendingAddsUp)`.
- `ReadsBack`: `EraseLens = {1} => (Spec => []ReadYourWrites)`.

The last two are about what a list of operations of any length does to a flash, defined by recursion over the list.  The
recursion's equation is proved (`RecursionThere` in `SequenceLemmas`), then by induction over the length what a list does
to one bit (`Shows`): the newest operations that touch it decide.  `ContentInv` is the invariant: for each module and
sector its pending operations take the flash to what its requests add up to, and each write's buffer `Fits`, that is, holds
nothing outside the range written that would not be there without it and, unless it is stale, is exactly what the sector
holds after it.  The cases are the ways in which a list changes: the tail completes (`GoodCut`), is suspended
half done (`GoodPaused`), an erase drops what it makes pointless (`GoodErase`), a write is added (`GoodNewWrite`) or merged into
one behind others (`GoodMerge`).  The hypothesis is that erases are of one sector each, as all callers in the
repository make them.  Without it the property is false, as TLC shows: nodes are matched by their start address only, which
is listed as a hazard (`norflash_api.cpp:338`).

### The NV record

`NvRecord_proofs`, for any number of threads, pages, changes and power failures:

- `TypeCorrect`: `Spec => []TypeOK`, with it that the copy loop stops at the last page and the assertion after the write
  never fails, as long as no flush is started inside another one.
- `OneCopyWhole`: `Spec => []NoRollback`.
- `RestIsSaved`: `Spec => []RestMeansSaved`.
- `WritesAreClean`: `Spec => []CleanWrites`.

They share the invariant `NvInv` (`InvariantHolds`): the types, and, unless the flush is `raced`, one place `l` where the
only thread in a flush is (`Where`) and one version `z`, the one being written, for which the state is `Ready`:

- `Control`: what the thread is about to do fits the state of the flush, also after the sleep hook has moved it on.
- `Shape`: once a copy's erase was accepted, what is pending is of that copy only, at most two operations, and of these
  only the oldest may be an erase or under way (`Few`); the writes give `z` to pages that were given already
  (`Fitting`); and every page given holds `z` or will, every other is blank once the erase is done (`Landing`).
  Otherwise nothing is pending.
- `MainPhase`: while main is rewritten the backup is whole and no older than `durable` (`Fallback`), so the boot has
  that; at rest the two copies are what `RestMeansSaved` says.
- `BakPhase`: while the backup is rewritten main is all `z`.

Both give way while a rebuild is between its clear and its flush (`Rebuilding`): the state may then be idle with nothing
on the flash, and the change that will repair it is still to come.  `OneRebuild` says that there is one rebuild at most
and that its change is allowed for; a rebuild waits outside the flush (`Apart`) while another thread is in it.

None of the four properties is inductive: that a power failure is survived depends on where in the flush it comes, and
where that is on what the threads and the sleep hook did before.  Lemmas say what becomes of the shape when the flash runs
(`FlushKeeps`, whether it completes or is suspended), an erase is accepted (`EraseOpens`), a write is added or merged
(`WriteKeeps`), everything has run (`AllLanded`), and what of the copies is left by a power failure (`CrashLeaves`).  Then
there is one lemma per step of the synchronous flush (`TopStep` and `EnterStep` to `DoneStep`), and `AsyncGood`,
`UpdateGood`, `ClearGood`, `StartGood` and `BootGood`.  The last needs no invariant: a boot establishes it from any contents of the
flash, also after a race.

### The log section

`LogSection_proofs`, for any number of buffers and sectors, sector size, queue length, outputs and boots:

- `TypeCorrect` and `UniqueNumbers`: `Spec => []TypeOK` and `Spec => []SeqUnique`.
- `OldestFirst`: `Spec => OldestErased`.
- `CrashKept`: `Buffers <= Sectors => (Spec => []CrashLogKept)`.

The first three share the invariant `LogInv`.  `NamesOK`: the numbers on the flash, in the accepted writes and in the
buffers in use all differ, and the next one is above them.  `OrderOK`, as long as no buffer has slipped: `Ordered`, that is,
from the sector of the oldest accepted operation on round the ring the flash's numbers climb, each operation
follows the one before (a sector is erased, then written, then the next is erased), the step due follows the last, and
what is written is newer than all before it; and `RingOrder`, that the buffers that wait lie between the flush's pointer and
the writer's with climbing numbers.  That is inductive because it holds of any number of operations done (`RunSome`), of
an operation accepted (`AppendHolds`), and of whatever a power loss leaves: the flash of a stopped system climbs from
some sector on, and then from the sector behind its newest too, which is where the boot goes on (`GoOn`).  An output splits
into rounds of the loop, each of which starts, fills or closes a buffer; `Keeps` is what each of them leaves true.

`CrashKept` adds `Kept`: what was in use at the crash is in the ring still or on the flash, no further behind its place
than the number of buffers it has taken since.  So the erase for the next buffer spares it, if there are at least as many
sectors as buffers; with fewer the dump would overwrite itself.  The product has two buffers (`log_section.h:36`) and a
section of four sectors or more.

### Only model-checked

Every invariant, action property and refinement that a passing run checks is stated by a theorem.  What is left to TLC are
the liveness properties (`DelayEnds`, `Drains`, `ComesToRest`, `Settles`, `CrashFlushEnds`, `FullSectorLeaves`, `TimersEnd`):
fairness and `ENABLED` are beyond the prover.

## 5. Findings

Each is a run that TLC must find violated; the counterexample is a short trace.

- `stdfos_discard`: of several delayed messages due together, the callback posts the flagged one and throws the others
  away (`stdf_os_delay_msg.c:256-285`).
- `stdfos_assert`: cancelling the only entry after the timer expired and before its callback runs trips the assertion
  at `stdf_os_delay_msg.c:243`.  A send in that moment has the same end one expiry later, and lets the callback deliver
  an entry before its time.
- `nvrecord_assert`: a thread that flushes while a lower one is between two sections of its own flush leaves
  `written_size` past `NV_EXTENSION_SIZE` (`nvrecord_extension.c:917`).

- `log_hang`: when the flush takes the full buffer the writer stands on, its pointer passes the writer; a crash after more
  output finds it on a free buffer and its loop never ends (`log_section.c:325`).

Other situations in which the code departs from a property have no run of their own; the passing properties except
exactly them, by a history variable or a condition, and fail without the exception (but the third, as noted):

| Situation | Where | Excepted by |
|---|---|---|
| Run times are compared as plain numbers: a message is early or late when the millisecond clock wraps (every 2^28 ms, about three days) | `stdf_os_delay_msg.c:342` | the clock does not wrap in the runs |
| An erase that drops two adjacent pending operations behind the list head leaves the second linked although it is freed | `norflash_api.cpp:345` | `Sane` |
| A write queued while an earlier one of the sector is suspended gets a buffer read from the half-written flash, and reads answer from it.  It takes two buffers (`FLASH_API_HIGHPERFORMANCE` has four), so not in the runs: with `BuffLen = 2` TLC finds it at once | `norflash_api.cpp:492` | `stale` |
| `continue` in the `do .. while(bresult)` loop ends it while flushing is disallowed, and a synchronous request overtakes what is pending, although :1056 says "flush all of cur module opera" | `norflash_api.cpp:1061` | `bypassed` |
| A flush started inside another one finishes it | `nvrecord_extension.c:661` | `raced` |
| A change announced between the synchronous write and `is_update = false` is forgotten until the next one | `nvrecord_extension.c:681` | `overtaken` |
| A debounce message already posted ends a later debounce early, also the other direction's, as a `case` lacks its `break` | `stdf_hal_pmu.c:83`, `:167` | `late` |
| The case bit changes while the charger's handler holds an older value | `stdf_bsp_charger.c:176` | `overtaken` |
| A frame that begins while another's message is waiting overwrites it | `stdf_hal_vbus.c:117` | `overrun` |
| From the ear into the open case OUT_CASE_EAR is announced and IN_CASE_OPEN is not | `stdf_app_phy.c:371` | `StaysInStep` leaves IN_CASE out |
| INIT overwrites what events before it have recorded | `stdf_app_phy.c:159` | properties of PHY and charger start with INIT |
| The pin changes while the key's interrupt handler runs, and the edge is lost or reported the wrong way round; a key held down at the boot is not seen until it is released | `stdf_bsp_key.c:132` | `missed` |
| A gesture is posted between the calls of the handler that would cancel it; a bounce gives two releases in a row: a press counts twice | `stdf_bsp_key.c:265` | `raced` |
| A repetition posted before the release was handled goes on with the key up (for a user who asks for repetitions) | `stdf_bsp_key.c:388` | `late` |
| A boot that finds two valid but different copies loads main and leaves the older backup as it is: a power failure in the next rewrite of main goes back to it | `nvrecord_extension.c:444` | `Lasting` |
| The full buffer under the writer is handed over | `log_section.c:281` | `slipped` |

## 6. Plan

Done: the message service and what it promises, the flash layer, the NV record, the STDF clients, the key driver, the
log section, the software timers.  Next, in this order:

1. **Abstract specifications.**  `FlashStore` (per module the accepted requests, applied in order) implemented by
   `NorflashApi`, and used by `NvRecord` and `LogSection` in place of their own short version of it.
2. **More of the code.**  OTA reception and its resume point as a client of the flash layer; the battery's status machine;
   the application thread's mailbox as an instance of the message service; the circular queue as operators against a sequence.

## 7. Not modelled

The Bluetooth, BLE and role-switching stacks are prebuilt libraries.  Audio is real-time signal processing.  The RTX
kernel, the CMSIS and HAL code and the vendored libraries are taken as they are used: timers, mutex and mail queue in
`StdfOs`, erase, program and suspend in `NorflashApi` and `NvRecord`.  `PROJECT.json` gives the reason component by
component, and under `hazards` what in the planned components waits for a property.
