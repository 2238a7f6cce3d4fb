------------------------------- MODULE NvRecord -------------------------------
(***************************************************************************)
(* The NV record extension                                                 *)
(* (services/nv_section/userdata_section/nvrecord_extension.c): one sector *)
(* of settings mirrored in RAM and kept twice in flash, a main and a       *)
(* backup copy, flushed by a state machine that the sleep hook drives one  *)
(* step per idle period and that any thread can drive to its end.          *)
(*                                                                         *)
(* The callers of the asynchronous flush hold int_lock_global, so it is    *)
(* one action.  The synchronous flush gives the lock up between its        *)
(* sections; threads have fixed priorities and it never blocks, so a       *)
(* thread in it runs again once every thread above it is out of it, and    *)
(* the sleep hook runs when none is in it.  The record is a version        *)
(* number, the same on every page.  The list of pending flash operations   *)
(* (norflash_api) holds this module's operations, newest first; other      *)
(* modules compete for its slots and for the device.                       *)
(***************************************************************************)
EXTENDS Integers, FiniteSets, Sequences

CONSTANTS
  Tasks,      \* threads that use the record, by priority: 1 is the lowest
  NPages,     \* NV_EXTENSION_SIZE / NV_EXTENSION_PAGE_SIZE
  MaxUpdates, \* bound: changes made to the record
  MaxCrashes  \* bound: restarts

ASSUME ConstAssumption ==
  /\ IsFiniteSet(Tasks) /\ Tasks # {} /\ Tasks = 1 .. Cardinality(Tasks)
  /\ NPages \in Nat \ {0} /\ MaxUpdates \in Nat /\ MaxCrashes \in Nat

VARIABLES
  ram,     \* version in local_extension_data
  upd,     \* nv_flush_state.is_update
  state,   \* nv_flush_state.state: the copy and how far its flush has come
  written, \* nv_flush_state.written_size, in pages
  pend,    \* pending flash operations, newest first
  flash,   \* content of the two copies
  pc,      \* where each thread is in nv_record_extension_flush(false), or in a rebuild
  at,      \* and which copy it is at (.._flush_main or .._flush_bak)
  updates, \* changes made so far
  crashes, \* restarts so far
  durable, \* history: version the flash may not fall behind
  overtaken, \* history: a change slipped in before is_update was cleared
  raced    \* history: a flush was started inside another one

nvs == <<upd, state, written>>
history == <<durable, overtaken, raced>>
vars == <<ram, upd, state, written, pend, flash, pc, at, updates, crashes,
          durable, overtaken, raced>>

Copies == {"main", "bak"}
PageSet == 0 .. NPages - 1
Blank == -1
Junk == -2
Versions == 0 .. MaxUpdates
Content == [PageSet -> Versions \cup {Blank, Junk}]
Node == [copy : Copies, type : {"W", "E"}, data : Content, pages : SUBSET PageSet,
         lock : BOOLEAN]
Labels == {"out", "cleared", "top", "enter", "erase", "erflush", "erased", "test",
           "write", "wrflush", "written", "drain", "done", "failed"}

(* NV_STATE: IDLE is the start of main, MAIN_DONE the start of bak, and     *)
(* BAK_DONE is left at once for IDLE                                        *)
Idle == <<"main", "START">>
AfterCopy(c) == IF c = "main" THEN <<"bak", "START">> ELSE Idle

Sector(v) == [p \in PageSet |-> v]

-------------------------------------------------------------------------------
(* The flash layer as this module uses it *)

(* Programming a page that is neither erased nor the same mixes the two *)
Programmed(old, new) ==
  CASE new = Blank -> old
    [] new # Blank /\ old \in {Blank, new} -> new
    [] OTHER -> Junk

Effect(n, f) ==
  [f EXCEPT ![n.copy] =
     [p \in PageSet |-> IF n.type = "E" THEN Blank
                        ELSE IF p \in n.pages THEN Programmed(@[p], n.data[p])
                        ELSE @[p]]]

(* What a list of operations does, from the oldest on *)
EffectAll(list, f) ==
  LET run[k \in 0 .. Len(list)] ==
        IF k = 0 THEN f ELSE Effect(list[Len(list) + 1 - k], run[k - 1])
  IN  run[Len(list)]

(* What an operation may have done when it is suspended ... *)
Partial(n, f) ==
  IF n.type = "E"
  THEN {[f EXCEPT ![n.copy] = d] : d \in {f[n.copy], Sector(Blank), Sector(Junk)}}
  ELSE {Effect([n EXCEPT !.pages = {p \in @ : p < k}], f) : k \in PageSet}

(* ... and when the power fails: one page may be half programmed *)
Torn(n, f) ==
  Partial(n, f) \cup
  IF n.type = "E" THEN {}
  ELSE {[Effect([n EXCEPT !.pages = {p \in @ : p < k}], f)
           EXCEPT ![n.copy][k] = Junk] : k \in n.pages}

Oldest == pend[Len(pend)]

(* norflash_api_flush: another module's turn, or the oldest operation runs  *)
(* to its end, or is suspended                                              *)
Flushed ==
  {[pend |-> pend, flash |-> flash]} \cup
  IF pend = <<>> THEN {}
  ELSE {[pend |-> SubSeq(pend, 1, Len(pend) - 1), flash |-> Effect(Oldest, flash)]} \cup
       {[pend |-> [pend EXCEPT ![Len(pend)].lock = TRUE], flash |-> f] :
          f \in Partial(Oldest, flash)}

Flush == \E r \in Flushed : pend' = r.pend /\ flash' = r.flash

(* The nodes of a list at the indices S, in their order *)
Keep(list, S) ==
  LET kept[k \in 0 .. Len(list)] ==
        IF k = 0 THEN <<>>
        ELSE IF k \in S THEN Append(kept[k - 1], list[k]) ELSE kept[k - 1]
  IN  kept[Len(list)]

(* norflash_api_erase, async: pending operations of the copy are dropped,   *)
(* an erase under way is joined, else a node is needed                      *)
EraseResults(c) ==
  LET kept == Keep(pend, {i \in DOMAIN pend : pend[i].copy # c \/ pend[i].lock})
      joined == \E i \in DOMAIN pend : pend[i].copy = c /\ pend[i].lock /\ pend[i].type = "E"
      node == [copy |-> c, type |-> "E", data |-> Sector(Blank), pages |-> {},
               lock |-> FALSE]
  IN  IF joined THEN {[ok |-> TRUE, pend |-> kept]}
      ELSE {[ok |-> TRUE, pend |-> <<node>> \o kept]} \cup
           (IF kept = pend THEN {[ok |-> FALSE, pend |-> pend]} ELSE {})

(* norflash_api_write of some pages, async: merged into the newest pending  *)
(* write of the copy that is not under way, if no erase is newer, else a    *)
(* node is needed                                                           *)
WriteResults(c, pages, data) ==
  LET stops(i) == /\ pend[i].copy = c
                  /\ ~ (pend[i].type = "W" /\ pend[i].lock)
      hit == {i \in DOMAIN pend : stops(i) /\ \A j \in 1 .. i - 1 : ~ stops(j)}
      merge == {i \in hit : pend[i].type = "W"}
      over(base) == [p \in PageSet |-> IF p \in pages THEN data[p] ELSE base[p]]
      merged(n) == [n EXCEPT !.data = over(@), !.pages = @ \cup pages]
      node == [copy |-> c, type |-> "W", pages |-> pages, lock |-> FALSE,
               data |-> over(IF hit = {} THEN flash[c] ELSE Sector(Blank))]
  IN  IF merge # {}
      THEN LET i == CHOOSE j \in merge : TRUE
           IN  {[ok |-> TRUE, pend |-> [pend EXCEPT ![i] = merged(@)]]}
      ELSE {[ok |-> TRUE, pend |-> <<node>> \o pend], [ok |-> FALSE, pend |-> pend]}

(* norflash_api_read: the newest pending operation on the copy, else flash *)
View(c) ==
  LET hit == {i \in DOMAIN pend :
                pend[i].copy = c /\ \A j \in 1 .. i - 1 : pend[j].copy # c}
  IN  IF hit = {} THEN flash[c] ELSE pend[CHOOSE i \in hit : TRUE].data

-------------------------------------------------------------------------------

(* nv_record_data_is_valid *)
Valid(sector) == \E v \in Versions : sector = Sector(v)

(* What nv_record_extension_init loads from a flash; Blank: nothing valid *)
Loaded(f) ==
  CASE Valid(f["main"]) -> f["main"][0]
    [] ~ Valid(f["main"]) /\ Valid(f["bak"]) -> f["bak"][0]
    [] OTHER -> Blank

BootThread == Cardinality(Tasks)

(* Seeded faults are variants of the operator whose name they end in; no    *)
(* specification uses them.  Here an invalid backup copy is not repaired.   *)
CarelessBoot(f) ==
  LET mainOk == Valid(f["main"])
  IN  /\ ram' = IF Loaded(f) = Blank THEN 0 ELSE Loaded(f)
      /\ upd' = (~ mainOk)
      /\ state' = Idle
      /\ pc' = [t \in Tasks |-> IF t = BootThread /\ upd' THEN "top" ELSE "out"]
      /\ at' = [t \in Tasks |-> "main"]

(* nv_record_extension_init, run by the boot thread before the others use  *)
(* the record: load the main copy, else the backup, else the defaults; one  *)
(* that is invalid is flushed, two that are valid are left as they are      *)
Boot(f) ==
  LET mainOk == Valid(f["main"])
      bakOk == Valid(f["bak"])
  IN  /\ ram' = IF Loaded(f) = Blank THEN 0 ELSE Loaded(f)
      /\ upd' = (~ mainOk \/ ~ bakOk)
      /\ state' = IF mainOk /\ ~ bakOk THEN AfterCopy("main") ELSE Idle
      /\ pc' = [t \in Tasks |-> IF t = BootThread /\ upd' THEN "top" ELSE "out"]
      /\ at' = [t \in Tasks |-> "main"]

(* A device fresh from the factory, just before its first boot flush *)
Init ==
  /\ ram = 0 /\ upd = TRUE /\ state = Idle /\ written = 0
  /\ pend = <<>>
  /\ flash = [c \in Copies |-> Sector(Blank)]
  /\ pc = [t \in Tasks |-> IF t = BootThread THEN "top" ELSE "out"]
  /\ at = [t \in Tasks |-> "main"]
  /\ updates = 0 /\ crashes = 0
  /\ durable = Blank /\ overtaken = FALSE /\ raced = FALSE

-------------------------------------------------------------------------------
(* Threads and the sleep hook *)

Inside(t) == pc[t] \notin {"out", "failed"}
Halted == \E t \in Tasks : pc[t] = "failed"

(* Between the clearing and the saving of a rebuild *)
Rebuilding == \E t \in Tasks : pc[t] = "cleared"

(* Thread t has the processor: none above it is in a flush or a rebuild *)
Runs(t) == ~ Halted /\ \A u \in Tasks : u > t => ~ Inside(u)
Asleep == ~ Halted /\ \A t \in Tasks : ~ Inside(t)
Preempts(t) == \E u \in Tasks \ {t} : Inside(u) /\ pc[u] # "cleared"

(* Changes that may still begin: a rebuild under way is one *)
UpdatesLeft == updates + (IF Rebuilding THEN 1 ELSE 0) < MaxUpdates

(* A thread changes the record in RAM (nv_record_pre_write_operation,       *)
(* nv_record_post_write_operation) and calls nv_record_extension_update     *)
Update(t) ==
  /\ Runs(t) /\ pc[t] = "out" /\ UpdatesLeft
  /\ updates' = updates + 1
  /\ ram' = updates'
  /\ upd' = TRUE
  /\ UNCHANGED <<state, written, pend, flash, pc, at, crashes, history>>

(* nv_record_flash_flush *)
StartFlush(t) ==
  /\ Runs(t) /\ pc[t] = "out"
  /\ ~ (state = Idle /\ ~ upd)
  /\ pc' = [pc EXCEPT ![t] = "top"]
  /\ raced' = (raced \/ Preempts(t))
  /\ UNCHANGED <<ram, nvs, pend, flash, at, updates, crashes, durable, overtaken>>

(* nv_record_sector_clear: both copies are erased synchronously, behind     *)
(* what is pending                                                          *)
SectorClear ==
  /\ pend' = <<>>
  /\ flash' = [c \in Copies |-> Sector(Blank)]
  /\ durable' = Blank

(* app_nvrecord_rebuild, which is called in one place: the flash is cleared *)
MayClear(t) == Runs(t) /\ pc[t] = "out" /\ UpdatesLeft /\ ~ Rebuilding

Clear(t) ==
  /\ MayClear(t)
  /\ SectorClear
  /\ pc' = [pc EXCEPT ![t] = "cleared"]
  /\ raced' = (raced \/ Preempts(t))
  /\ UNCHANGED <<ram, nvs, at, updates, crashes, overtaken>>

(* ... and then the record in RAM, which is kept, is changed and flushed *)
RebuildSave(t) ==
  /\ Runs(t) /\ pc[t] = "cleared"
  /\ updates' = updates + 1
  /\ ram' = updates'
  /\ upd' = TRUE
  /\ pc' = [pc EXCEPT ![t] = "top"]
  /\ raced' = (raced \/ Preempts(t))
  /\ UNCHANGED <<state, written, pend, flash, at, crashes, durable, overtaken>>

(* Another module calls norflash_api_flush *)
OtherFlush ==
  /\ ~ Halted
  /\ Flush
  /\ UNCHANGED <<ram, nvs, pc, at, updates, crashes, history>>

-------------------------------------------------------------------------------
(* nv_record_extension_flush(true) *)

MayErase(step) == step \in {"START", "ERASING"}
MayWrite(step) == step \in {"ERASED", "WRITTING"}

(* written_size == NV_EXTENSION_SIZE.  Seeded fault: tested too late *)
LateAllCopied(w) == w > NPages
AllCopied(w) == w = NPages

(* Seeded fault: an erase that found the list full counts as made *)
HastyAsyncErase(c) ==
  \E r \in EraseResults(c) :
    /\ pend' = r.pend
    /\ state' = <<c, "ERASED">>
    /\ UNCHANGED <<flash, upd, written, overtaken>>

(* The erase is queued, or the list is full and is flushed once *)
AsyncErase(c) ==
  /\ \E r \in EraseResults(c) :
       IF r.ok
       THEN pend' = r.pend /\ state' = <<c, "ERASED">> /\ UNCHANGED flash
       ELSE state' = <<c, "ERASING">> /\ Flush
  /\ UNCHANGED <<upd, written, overtaken>>

(* The record as it is now, with its checksum, is queued for main *)
AsyncWriteMain ==
  \E r \in WriteResults("main", PageSet, Sector(ram)) :
    IF r.ok
    THEN /\ pend' = r.pend /\ state' = <<"main", "WRITTEN">>
         /\ upd' = FALSE /\ overtaken' = FALSE
         /\ UNCHANGED <<flash, written>>
    ELSE state' = <<"main", "WRITTING">> /\ Flush /\ UNCHANGED <<upd, written, overtaken>>

(* The pages not copied yet are copied from main to bak; once the first of  *)
(* them has a node, the others are merged into it                           *)
AsyncWriteBak ==
  LET w == IF state[2] = "ERASED" THEN 0 ELSE written
  IN  /\ IF AllCopied(w)
         THEN state' = <<"bak", "WRITTEN">> /\ written' = w /\ UNCHANGED <<pend, flash>>
         ELSE \E r \in WriteResults("bak", w .. NPages - 1, View("main")) :
                IF r.ok
                THEN /\ pend' = r.pend /\ state' = <<"bak", "WRITTEN">>
                     /\ written' = NPages /\ UNCHANGED flash
                ELSE state' = <<"bak", "WRITTING">> /\ written' = w /\ Flush
      /\ UNCHANGED <<upd, overtaken>>

(* Seeded fault: the copy counts as done while operations are pending *)
NothingToWaitFor == Len(pend) >= 0

(* norflash_api_get_used_buffer_count(..) == 0 *)
NothingPending == pend = <<>>

(* What is on the flash once main is complete may not be lost any more *)
CopyDone(c) ==
  /\ state' = AfterCopy(c)
  /\ durable' = IF c = "main" THEN Loaded(flash) ELSE durable

(* One call: one step of the state machine *)
AsyncFlush ==
  LET c == state[1]
      step == state[2]
  IN  /\ ~ (state = Idle /\ ~ upd)
      /\ \/ MayErase(step) /\ AsyncErase(c) /\ UNCHANGED durable
         \/ MayWrite(step) /\ c = "main" /\ AsyncWriteMain /\ UNCHANGED durable
         \/ MayWrite(step) /\ c = "bak" /\ AsyncWriteBak /\ UNCHANGED durable
         \/ /\ ~ MayErase(step) /\ ~ MayWrite(step) /\ NothingPending
            /\ CopyDone(c)
            /\ UNCHANGED <<upd, written, pend, flash, overtaken>>
         \/ /\ ~ MayErase(step) /\ ~ MayWrite(step) /\ ~ NothingPending
            /\ Flush
            /\ UNCHANGED <<nvs, durable, overtaken>>
      /\ UNCHANGED <<ram, pc, at, updates, crashes>>

(* nv_record_flash_flush_in_sleep, when its interval has passed or a flush  *)
(* is under way                                                             *)
SleepHook == Asleep /\ AsyncFlush /\ UNCHANGED raced

(* nv_record_execute_async_flush by a thread that has just changed the      *)
(* record and still holds the lock (nv_record_extension_update_tws_ble_info) *)
AsyncCall(t) ==
  /\ Runs(t) /\ pc[t] = "out"
  /\ AsyncFlush
  /\ raced' = (raced \/ Preempts(t))

-------------------------------------------------------------------------------
(* nv_record_extension_flush(false), by thread t *)

Goto(t, label) == pc' = [pc EXCEPT ![t] = label]

(* The loop in nv_record_extension_flush: nothing to do, or call the flush  *)
(* of the copy the state names                                              *)
SyncTop(t) ==
  /\ pc[t] = "top"
  /\ IF state = Idle /\ ~ upd
     THEN Goto(t, "out") /\ at' = [at EXCEPT ![t] = "main"]
     ELSE Goto(t, "enter") /\ at' = [at EXCEPT ![t] = state[1]]
  /\ UNCHANGED <<nvs, pend, flash, durable, overtaken>>

(* Is there anything to erase: asked of the shared state again *)
SyncEnter(t) ==
  /\ pc[t] = "enter"
  /\ Goto(t, IF state[1] = at[t] /\ MayErase(state[2]) THEN "erase" ELSE "test")
  /\ UNCHANGED <<nvs, pend, flash, at, durable, overtaken>>

(* A locked section: the erase *)
SyncErase(t) ==
  /\ pc[t] = "erase"
  /\ \E r \in EraseResults(at[t]) :
       pend' = r.pend /\ Goto(t, IF r.ok THEN "erased" ELSE "erflush")
  /\ UNCHANGED <<nvs, flash, at, durable, overtaken>>

(* After it, without the lock *)
SyncErased(t) ==
  /\ pc[t] = "erased"
  /\ state' = <<at[t], "ERASED">>
  /\ Goto(t, "test")
  /\ UNCHANGED <<upd, written, pend, flash, at, durable, overtaken>>

(* Is there anything to write: asked of the shared state *)
SyncTest(t) ==
  /\ pc[t] = "test"
  /\ IF state[1] = at[t] /\ MayWrite(state[2])
     THEN /\ Goto(t, "write")
          /\ IF state = <<"bak", "ERASED">>
             THEN state' = <<"bak", "WRITTING">> /\ written' = 0
             ELSE UNCHANGED <<state, written>>
     ELSE Goto(t, "drain") /\ UNCHANGED <<state, written>>
  /\ UNCHANGED <<upd, pend, flash, at, durable, overtaken>>

(* A locked section: the record is queued for main ... *)
SyncWriteMain(t) ==
  /\ pc[t] = "write" /\ at[t] = "main"
  /\ \E r \in WriteResults("main", PageSet, Sector(ram)) :
       pend' = r.pend /\ Goto(t, IF r.ok THEN "written" ELSE "wrflush")
  /\ UNCHANGED <<nvs, flash, at, durable, overtaken>>

(* ... or one page is read from main and queued for bak.  Beyond the last   *)
(* page norflash_api_write refuses the address and the assertion fails.     *)
SyncWriteBak(t) ==
  /\ pc[t] = "write" /\ at[t] = "bak"
  /\ IF AllCopied(written)
     THEN state' = <<"bak", "WRITTEN">> /\ Goto(t, "drain") /\ UNCHANGED pend
     ELSE IF written >= NPages
     THEN Goto(t, "failed") /\ UNCHANGED <<state, pend>>
     ELSE /\ \E r \in WriteResults("bak", {written}, View("main")) :
               pend' = r.pend /\ Goto(t, IF r.ok THEN "written" ELSE "wrflush")
          /\ UNCHANGED state
  /\ UNCHANGED <<upd, written, flash, at, durable, overtaken>>

(* After it, without the lock; a change made meanwhile is forgotten *)
SyncWritten(t) ==
  /\ pc[t] = "written"
  /\ IF at[t] = "main"
     THEN /\ state' = <<"main", "WRITTEN">> /\ upd' = FALSE
          /\ overtaken' = (View("main") # Sector(ram))
          /\ Goto(t, "drain")
          /\ UNCHANGED written
     ELSE /\ written' = written + 1
          /\ Goto(t, "write")
          /\ UNCHANGED <<state, upd, overtaken>>
  /\ UNCHANGED <<pend, flash, at, durable>>

(* Seeded fault: the room that is made is not seen *)
BlindSyncMakeRoom(t) ==
  /\ pc[t] \in {"erflush", "wrflush"}
  /\ Flush
  /\ UNCHANGED <<nvs, pc, at, durable, overtaken>>

(* A locked section: one norflash_api_flush, until                          *)
(* norflash_api_get_free_buffer_count finds room again                      *)
SyncMakeRoom(t) ==
  /\ pc[t] \in {"erflush", "wrflush"}
  /\ Flush
  /\ \/ Goto(t, IF pc[t] = "erflush" THEN "erase" ELSE "write")
     \/ UNCHANGED pc
  /\ UNCHANGED <<nvs, at, durable, overtaken>>

(* A locked section: one norflash_api_flush, until nothing is pending *)
SyncDrain(t) ==
  /\ pc[t] = "drain"
  /\ Flush
  /\ IF pend' = <<>> THEN Goto(t, "done") ELSE UNCHANGED pc
  /\ UNCHANGED <<nvs, at, durable, overtaken>>

(* After it, without the lock *)
SyncDone(t) ==
  /\ pc[t] = "done"
  /\ CopyDone(at[t])
  /\ Goto(t, "top")
  /\ UNCHANGED <<upd, written, pend, flash, at, overtaken>>

SyncStep(t) ==
  \/ SyncTop(t) \/ SyncEnter(t) \/ SyncErase(t) \/ SyncErased(t) \/ SyncTest(t)
  \/ SyncWriteMain(t) \/ SyncWriteBak(t) \/ SyncWritten(t)
  \/ SyncMakeRoom(t) \/ SyncDrain(t) \/ SyncDone(t)

Sync(t) == Runs(t) /\ SyncStep(t) /\ UNCHANGED <<ram, updates, crashes, raced>>

-------------------------------------------------------------------------------

(* What the flash may hold if the power fails now *)
CrashResults ==
  {flash} \cup IF pend = <<>> THEN {} ELSE Torn(Oldest, flash)

(* ... or within a clear that has not come to its end: in the erase of main, *)
(* or in that of bak                                                        *)
HalfCleared ==
  LET drained == EffectAll(pend, flash)
      mainLost(d) == [drained EXCEPT !["main"] = Sector(d)]
  IN  {mainLost(Blank), mainLost(Junk),
       [mainLost(Blank) EXCEPT !["bak"] = Sector(Junk)]}

(* Of two valid copies only the older is safe from then on: nothing makes   *)
(* them equal before the next flush erases main.                            *)
Lasting(f) ==
  IF Valid(f["main"]) /\ Valid(f["bak"]) /\ f["bak"][0] < f["main"][0]
  THEN f["bak"][0] ELSE Loaded(f)

(* The power fails, also in the middle of a flash operation or of a clear,  *)
(* and the device boots.                                                    *)
Crash ==
  /\ crashes < MaxCrashes
  /\ crashes' = crashes + 1
  /\ \E f \in CrashResults \cup (IF \E t \in Tasks : MayClear(t)
                                THEN HalfCleared ELSE {}) :
       /\ flash' = f
       /\ Boot(f)
       /\ durable' = Lasting(f)
  /\ pend' = <<>> /\ written' = 0
  /\ overtaken' = FALSE /\ raced' = FALSE
  /\ UNCHANGED updates

Next ==
  \/ SleepHook \/ OtherFlush \/ Crash
  \/ \E t \in Tasks : Update(t) \/ StartFlush(t) \/ AsyncCall(t) \/ Sync(t)
                      \/ Clear(t) \/ RebuildSave(t)

Spec == Init /\ [][Next]_vars

(* A flush step of the sleep hook or of the thread that has the processor, *)
(* which may have a rebuild to save first                                  *)
FlushStep == SleepHook \/ \E t \in Tasks : Sync(t) \/ RebuildSave(t)

(* One that finds room in the list *)
Accepted ==
  \/ SleepHook /\ state' # state /\ state'[2] \notin {"ERASING", "WRITTING"}
  \/ \E t \in Tasks : /\ pc[t] \in {"erase", "write"} /\ Sync(t)
                      /\ pc'[t] \notin {"erflush", "wrflush"}

(* One that waits for room no longer *)
Room == \E t \in Tasks : pc[t] \in {"erflush", "wrflush"} /\ Sync(t) /\ pc' # pc

(* One that runs the oldest operation to its end *)
OneLess == pend # <<>> /\ FlushStep /\ Len(pend') < Len(pend)

(* The thread in the loop runs on, and the sleep hook when all are out of   *)
(* it; the list is not full for ever, and neither the driver nor the other  *)
(* modules keep the oldest operation from its end for ever.                 *)
Fairness == WF_vars(FlushStep) /\ SF_vars(Accepted) /\ SF_vars(Room) /\ SF_vars(OneLess)

FairSpec == Spec /\ Fairness

-------------------------------------------------------------------------------
(* Properties *)

(* Types; and, as long as no flush is started inside another, the copy loop *)
(* never passes the last page.                                              *)
TypeOK ==
  /\ ram \in Versions /\ upd \in BOOLEAN
  /\ state \in Copies \X {"START", "ERASING", "ERASED", "WRITTING", "WRITTEN"}
  /\ written \in Nat /\ (raced \/ written <= NPages)
  /\ pend \in Seq(Node)
  /\ flash \in [Copies -> Content]
  /\ pc \in [Tasks -> Labels] /\ (raced \/ ~ Halted)
  /\ at \in [Tasks -> Copies]
  /\ updates \in 0 .. MaxUpdates /\ crashes \in 0 .. MaxCrashes
  /\ durable \in Versions \cup {Blank}
  /\ overtaken \in BOOLEAN /\ raced \in BOOLEAN

(* Whenever the power fails, also half way through an erase or a program,   *)
(* the next boot loads a record no older than the last one whose main copy  *)
(* was complete: one copy is always whole while the other is rewritten.     *)
NoRollback == raced \/ \A f \in CrashResults : Loaded(f) >= durable

(* When the flush machine is idle with no change announced, nothing is      *)
(* pending, main holds the record as it is in RAM, and bak holds a whole    *)
(* record that is safe to fall back to: the same, unless the two are what a *)
(* boot has found.  A change made between a synchronous write and the       *)
(* is_update = false after it is the exception for main.                    *)
RestMeansSaved ==
  (state = Idle /\ ~ upd /\ ~ raced /\ \A t \in Tasks : ~ Inside(t)) =>
    /\ pend = <<>>
    /\ overtaken \/ flash["main"] = Sector(ram)
    /\ Valid(flash["bak"]) /\ flash["bak"][0] >= durable
    /\ flash["bak"] = flash["main"] \/ durable = Lasting(flash)

(* A copy is erased before it is programmed: when everything pending has    *)
(* run, every page a pending write names holds what that write was given,   *)
(* never the mix of it and what was there before.                           *)
CleanWrites ==
  raced \/ \A i \in DOMAIN pend :
    LET n == pend[i]
    IN  n.type = "W" =>
          \A p \in n.pages : EffectAll(pend, flash)[n.copy][p] = n.data[p]

(* Once changes and crashes stop, an announced change is saved and the      *)
(* flush comes to rest, whatever the sleep hook and the threads share.      *)
ComesToRest ==
  (upd \/ state # Idle) ~> ((~ upd /\ state = Idle) \/ raced)

(* Stated by the ASSERT of nvrecord_extension.c:932 ("norflash_api_write    *)
(* err"): the pages copied to bak are all inside it.                        *)
BakWriteAccepted == ~ Halted
===============================================================================
