------------------------------ MODULE NorflashApi ------------------------------
(***************************************************************************)
(* The asynchronous flash layer (services/norflash_api/norflash_api.cpp):  *)
(* per module a list of pending erase and write operations, newest at the  *)
(* head, flushed from the tail one step at a time from the idle hook.  A   *)
(* flush step may be suspended by the flash driver and resumed later.      *)
(*                                                                         *)
(* Every entry point runs under int_lock_global, so each is one action;    *)
(* norflash_api_flush_all and the retry loops of the callers are sequences *)
(* of these actions.  All modules share one flash device.                  *)
(* A sector is a few cells, a cell the set of bits programmed so far: {}   *)
(* is erased, programming only adds bits.  The list is a sequence of       *)
(* nodes, each naming the slot of opera_info_list it occupies; a node that *)
(* was freed but is still reachable keeps its place with freed = TRUE, and *)
(* the model stops there: what the program does next is undefined.         *)
(***************************************************************************)
EXTENDS Integers, FiniteSets, Sequences, Functions

CONSTANTS
  Modules,    \* 0 .. NORFLASH_API_MODULE_ID_COUNT - 1, all registered
  Sectors,    \* sector numbers of a module's region, from 0
  Cells,      \* cells of a sector, from 0
  Bits,       \* bits of a cell
  InUse,      \* sectors that hold something at the start
  EraseLens,  \* erase lengths in use, in sectors
  OpraLen,    \* NORFLASH_API_OPRA_LIST_LEN
  BuffLen,    \* NORFLASH_API_WRITE_BUFF_LEN
  MaxOps      \* bound: erase and write requests made

ASSUME ConstAssumption ==
  /\ \A S \in {Modules, Sectors, Cells} :
       IsFiniteSet(S) /\ S # {} /\ S = 0 .. Cardinality(S) - 1
  /\ InUse \subseteq Sectors /\ EraseLens \subseteq 1 .. Cardinality(Sectors)
  /\ OpraLen \in Nat \ {0} /\ BuffLen \in Nat \ {0} /\ MaxOps \in Nat

VARIABLES
  mod,       \* mod_info: list, cur (slot of cur_opera_info, 0 if NULL), state
  curMod,    \* norflash_api_info.cur_mod, NoMod if NULL
  curModId,  \* norflash_api_info.cur_mod_id
  allowedCb, \* is a flush-allowed callback registered (one user, the CP)
  flash,     \* content of the flash, per module and sector
  ops,       \* requests made so far
  expected,  \* history: content the accepted requests add up to
  bypassed   \* history: modules a synchronous request ran ahead of

vars == <<mod, curMod, curModId, allowedCb, flash, ops, expected, bypassed>>

NoMod == -1
Slots == 1 .. OpraLen
Sector == [Cells -> SUBSET Bits]
Erased == [c \in Cells |-> {}]
Node == [slot : Slots, type : {"W", "E"}, addr : Sectors, len : EraseLens \cup {1},
         from : Cells, to : 1 .. Cardinality(Cells), data : Sector,
         lock : BOOLEAN, freed : BOOLEAN, stale : BOOLEAN]

Nodes == UNION {Range(mod[m].list) : m \in Modules}

(* Seeded faults, each a variant of the operator whose name it ends in; no *)
(* specification uses them.  This one does not mark an erase's slot used.  *)
WriteOnlyFreeSlots == Slots \ {n.slot : n \in {k \in Nodes : k.type = "W"}}

(* What _norflash_api_malloc can hand out *)
FreeSlots == Slots \ {n.slot : n \in Nodes}
Least(S) == CHOOSE k \in S : \A j \in S : k <= j
FreeBuffs == BuffLen - Cardinality({n \in Nodes : n.type = "W"})

(* The first of the indices S, as a set of at most one *)
First(S) == {i \in S : \A j \in S : i <= j}

(* Nodes of a sector, and those that are writes *)
Of(list, s) == {i \in DOMAIN list : list[i].addr = s}
WritesOf(list, s) == {i \in Of(list, s) : list[i].type = "W"}

(* Content of a sector after v is copied over cells from .. to - 1 *)
Overlay(data, from, to, v) ==
  [c \in Cells |-> IF c \in from .. to - 1 THEN v ELSE data[c]]

(* What an operation does to a module's sectors when it runs to its end *)
Effect(n, sectors) ==
  [s \in Sectors |->
     IF n.type = "E"
     THEN IF s \in n.addr .. n.addr + n.len - 1 THEN Erased ELSE sectors[s]
     ELSE IF s = n.addr
          THEN [c \in Cells |-> IF c \in n.from .. n.to - 1
                                THEN sectors[s][c] \cup n.data[c] ELSE sectors[s][c]]
          ELSE sectors[s]]

(* What it may have done when the flash driver suspends it: an erase leaves *)
(* anything in the sectors it is at, a write has come to some cell          *)
Partial(n, sectors) ==
  IF n.type = "E"
  THEN {x \in [Sectors -> Sector] :
          \A s \in Sectors \ (n.addr .. n.addr + n.len - 1) : x[s] = sectors[s]}
  ELSE {Effect([n EXCEPT !.to = k], sectors) : k \in n.from .. n.to - 1}

(* What the k oldest operations of a list do, from the tail on, and all of them *)
Run(list, sectors) ==
  LET run[k \in 0 .. Len(list)] ==
        IF k = 0 THEN sectors ELSE Effect(list[Len(list) + 1 - k], run[k - 1])
  IN  run
EffectAll(list, sectors) == Run(list, sectors)[Len(list)]

(* The nodes of a list at the indices S, in their order *)
Keep(list, S) ==
  LET kept[k \in 0 .. Len(list)] ==
        IF k = 0 THEN <<>>
        ELSE IF k \in S THEN Append(kept[k - 1], list[k]) ELSE kept[k - 1]
  IN  kept[Len(list)]

-------------------------------------------------------------------------------

Init ==
  /\ mod = [m \in Modules |-> [list |-> <<>>, cur |-> 0, state |-> "IDLE"]]
  /\ curMod = NoMod
  /\ curModId = Cardinality(Modules) - 1  \* the code's COUNT: 0 comes next
  /\ allowedCb = FALSE
  /\ flash = [m \in Modules |->
                [s \in Sectors |-> [c \in Cells |-> IF s \in InUse THEN Bits ELSE {}]]]
  /\ ops = 0
  /\ expected = flash
  /\ bypassed = {}

Sane == \A n \in Nodes : ~ n.freed

(* A request is counted, and none is made on a corrupted list *)
Request == Sane /\ ops < MaxOps /\ ops' = ops + 1

(* Seeded fault: a pending erase is overlooked *)
WriteOnlyView(m, s) ==
  LET hit == First(WritesOf(mod[m].list, s))
  IN  IF hit = {} THEN flash[m][s] ELSE mod[m].list[CHOOSE i \in hit : TRUE].data

(* norflash_api_read: the newest operation on the sector, else the flash *)
View(m, s) ==
  LET hit == First(Of(mod[m].list, s))
  IN  IF hit = {} THEN flash[m][s]
      ELSE LET n == mod[m].list[CHOOSE i \in hit : TRUE]
           IN  IF n.type = "W" THEN n.data ELSE Erased

(* Seeded fault: an erase is merged into whatever is under way *)
LockedIsErase(list, s) == \E i \in DOMAIN list : list[i].addr = s /\ list[i].lock

(* An erase of the sector is under way: a new one is merged into it *)
EraseUnderWay(list, s) ==
  \E i \in DOMAIN list : list[i].addr = s /\ list[i].lock /\ list[i].type = "E"

(* Unlocked nodes of the sector, and those of them whose unlinking fails: a *)
(* node right behind one just freed is unlinked through that freed          *)
(* predecessor and so stays reachable, unless the list head was moved past  *)
(* both                                                                     *)
Matches(list, s) == {i \in Of(list, s) : ~ list[i].lock}
Missed(list, s) ==
  {i \in Matches(list, s) : i - 1 \in Matches(list, s) /\ ~ (1 .. i \subseteq Matches(list, s))}

(* A new erase *)
EraseNode(k, s, len) ==
  [slot |-> k, type |-> "E", addr |-> s, len |-> len, from |-> 0, to |-> 1,
   data |-> Erased, lock |-> FALSE, freed |-> FALSE, stale |-> FALSE]

(* _e_opera_add: every unlocked node of the sector is freed *)
EOperaAdd(list, s, len) ==
  LET missed == Missed(list, s)
      gone == Matches(list, s) \ missed
      marked == [i \in DOMAIN list |-> [list[i] EXCEPT !.freed = i \in missed]]
      rest == Keep(marked, DOMAIN list \ gone)
      free == FreeSlots \cup {list[i].slot : i \in gone}
  IN  IF EraseUnderWay(list, s) THEN [list |-> rest, ok |-> TRUE]
      ELSE IF free = {} THEN [list |-> rest, ok |-> FALSE]
      ELSE [list |-> <<EraseNode(Least(free), s, len)>> \o rest, ok |-> TRUE]

(* Seeded fault: a write under way is merged into *)
LockBlindWriteHit(list, s) == First(Of(list, s))

(* Where the search of _w_opera_add ends: a write not under way or an erase *)
WriteHit(list, s) ==
  First(Of(list, s) \ {i \in WritesOf(list, s) : list[i].lock})

(* A write with another one of the same sector merged into it *)
Merged(n, from, to, v) ==
  [n EXCEPT !.data = Overlay(@, from, to, v),
            !.from = IF @ <= from THEN @ ELSE from,
            !.to = IF @ >= to THEN @ ELSE to]

(* A new write, its buffer filled with base *)
WriteNode(k, s, from, to, v, base, stale) ==
  [slot |-> k, type |-> "W", addr |-> s, len |-> 1, from |-> from, to |-> to,
   data |-> Overlay(base, from, to, v), lock |-> FALSE, freed |-> FALSE, stale |-> stale]

(* _w_opera_add: merged into the newest unlocked write of the sector, if no *)
(* erase is newer; else a new node whose buffer starts erased after a       *)
(* pending erase, and from the flash as it is now otherwise                 *)
WOperaAdd(m, s, from, to, v) ==
  LET list == mod[m].list
      hit == WriteHit(list, s)
      merge == {i \in hit : list[i].type = "W"}
      base == IF hit = {} THEN flash[m][s] ELSE Erased
      stale == hit = {} /\ Of(list, s) # {}
  IN  IF merge # {}
      THEN [list |-> [list EXCEPT ![CHOOSE i \in merge : TRUE] = Merged(@, from, to, v)],
            ok |-> TRUE]
      ELSE IF FreeSlots = {} \/ FreeBuffs <= 0
      THEN [list |-> list, ok |-> FALSE]
      ELSE [list |-> <<WriteNode(Least(FreeSlots), s, from, to, v, base, stale)>> \o list,
            ok |-> TRUE]

(* Bits are only ever cleared to 0 between two erases: what NOR clients do *)
Writable(m, s, from, to, v) ==
  \A c \in from .. to - 1 : expected[m][s][c] \subseteq v

(* Content the module's sectors are to have once a request is accepted *)
WithErase(m, s, len) == Effect([type |-> "E", addr |-> s, len |-> len], expected[m])
WithWrite(m, s, from, to, v) == [expected[m] EXCEPT ![s] = Overlay(@, from, to, v)]

(* norflash_api_erase, async *)
EraseAsync(m, s, len) ==
  LET r == EOperaAdd(mod[m].list, s, len)
  IN  /\ Request
      /\ mod' = [mod EXCEPT ![m].list = r.list]
      /\ expected' = IF r.ok THEN [expected EXCEPT ![m] = WithErase(m, s, len)] ELSE expected
      /\ UNCHANGED <<curMod, curModId, allowedCb, flash, bypassed>>

(* norflash_api_write, async *)
WriteAsync(m, s, from, to, v) ==
  LET r == WOperaAdd(m, s, from, to, v)
  IN  /\ Request
      /\ Writable(m, s, from, to, v)
      /\ mod' = [mod EXCEPT ![m].list = r.list]
      /\ expected' = IF r.ok THEN [expected EXCEPT ![m] = WithWrite(m, s, from, to, v)]
                              ELSE expected
      /\ UNCHANGED <<curMod, curModId, allowedCb, flash, bypassed>>

-------------------------------------------------------------------------------
(* Flushing *)

(* _get_tail, when no operation is current: the tail becomes it, locked *)
Started(r) ==
  IF r.cur # 0 \/ r.list = <<>> THEN r
  ELSE [r EXCEPT !.cur = r.list[Len(r.list)].slot, !.list[Len(r.list)].lock = TRUE]

CurIndex(r) == CHOOSE i \in DOMAIN r.list : r.list[i].slot = r.cur
CurNode(r) == r.list[CurIndex(r)]

(* Completed: _opera_del cuts the list at the node *)
Deleted(r) ==
  [list |-> SubSeq(r.list, 1, CurIndex(r) - 1), cur |-> 0, state |-> "IDLE"]

(* _flush_is_allowed answers yes: its callback, if any, is dropped.  With a *)
(* callback registered the answer no is possible too.                       *)
Allowed == allowedCb' = FALSE
NotAllowed == allowedCb /\ UNCHANGED allowedCb

(* Seeded fault: the module under way is not returned to first *)
RestlessNextMod(m) ==
  LET n == Cardinality(Modules)
      dist(k) == (k - curModId - 1 + n) % n
  IN  /\ mod[m].list # <<>>
      /\ \A k \in Modules : mod[k].list # <<>> => dist(m) <= dist(k)

(* _get_cur_mod: the module under way, else the next one with something to *)
(* do, in a circle from the one last served                                *)
IsNextMod(m) ==
  LET n == Cardinality(Modules)
      dist(k) == (k - curModId - 1 + n) % n
  IN  IF curMod # NoMod THEN m = curMod
      ELSE /\ mod[m].list # <<>>
           /\ \A k \in Modules : mod[k].list # <<>> => dist(m) <= dist(k)

(* norflash_api_flush, one _opera_flush step on module m: the current       *)
(* operation runs to its end ...                                            *)
FlushDone(m) ==
  LET r == Started(mod[m])
  IN  /\ r.list # <<>>
      /\ flash' = [flash EXCEPT ![m] = Effect(CurNode(r), @)]
      /\ mod' = [mod EXCEPT ![m] = Deleted(r)]
      /\ curMod' = m

(* ... or is suspended by the driver (FLASH_SUSPEND) ... *)
FlushSuspended(m) ==
  LET r == Started(mod[m])
  IN  /\ r.list # <<>>
      /\ \E p \in Partial(CurNode(r), flash[m]) : flash' = [flash EXCEPT ![m] = p]
      /\ mod' = [mod EXCEPT ![m] =
           [r EXCEPT !.state = IF CurNode(r).type = "W" THEN "WRITTING_SUSPEND"
                                                        ELSE "ERASE_SUSPEND"]]
      /\ curMod' = m

(* Seeded fault: cur_mod is not reset *)
StickyFlushEmpty(m) ==
  /\ mod[m].list = <<>>
  /\ curMod' = m
  /\ UNCHANGED <<mod, flash>>

(* ... or there is none left and the module is released *)
FlushEmpty(m) ==
  /\ mod[m].list = <<>>
  /\ curMod' = NoMod
  /\ UNCHANGED <<mod, flash>>

(* norflash_api_flush serving module m *)
Serve(m) ==
  /\ Sane
  /\ Allowed
  /\ IsNextMod(m)
  /\ curModId' = m
  /\ UNCHANGED <<ops, expected, bypassed>>

(* norflash_api_flush, called from the sleep hook and from waiting clients; *)
(* when flushing is not allowed it does nothing and reports 0               *)
Flush ==
  \/ \E m \in Modules : Serve(m) /\ (FlushDone(m) \/ FlushSuspended(m) \/ FlushEmpty(m))
  \/ /\ Sane
     /\ Allowed
     /\ ~ \E m \in Modules : IsNextMod(m)
     /\ UNCHANGED <<mod, flash, curMod, curModId, ops, expected, bypassed>>

(* The first part of a synchronous request of module m: an operation of     *)
(* another module that is suspended is run to its end                       *)
OthersDone(m) ==
  IF curMod \in Modules \ {m} /\ mod[curMod].state # "IDLE"
  THEN [mods |-> [mod EXCEPT ![curMod] = Deleted(@)],
        flash |-> [flash EXCEPT ![curMod] = Effect(CurNode(mod[curMod]), @)],
        ran |-> TRUE]
  ELSE [mods |-> mod, flash |-> flash, ran |-> FALSE]

(* A synchronous request of module m: n is the operation it passes to the   *)
(* driver, e the content wanted.  Flushes before it wait until they are     *)
(* allowed, except that "continue" in the do-while loop goes to its         *)
(* condition: with nothing run so far, a no from _flush_is_allowed ends the *)
(* loop before the module's list is flushed.  The driver then refuses the   *)
(* operation if one is suspended (hal_norflash.c BAD_OP).                   *)
SyncRequest(m, n, e) ==
  LET o == OthersDone(m)
      accepted == expected' = [expected EXCEPT ![m] = e]
  IN  /\ Request
      /\ \/ /\ Allowed
            /\ mod' = [o.mods EXCEPT ![m] = [list |-> <<>>, cur |-> 0, state |-> "IDLE"]]
            /\ flash' = [o.flash EXCEPT ![m] = Effect(n, EffectAll(mod[m].list, @))]
            /\ accepted
            /\ UNCHANGED bypassed
         \/ /\ NotAllowed
            /\ ~ o.ran
            /\ mod[m].state = "IDLE"
            /\ flash' = [flash EXCEPT ![m] = Effect(n, @)]
            /\ accepted
            /\ bypassed' = IF mod[m].list = <<>> THEN bypassed ELSE bypassed \cup {m}
            /\ UNCHANGED mod
         \/ /\ NotAllowed
            /\ mod[m].state # "IDLE"
            /\ UNCHANGED <<mod, flash, expected, bypassed>>
      /\ UNCHANGED <<curMod, curModId>>

(* norflash_api_erase and norflash_api_write with async = false *)
EraseSync(m, s, len) ==
  SyncRequest(m, [type |-> "E", addr |-> s, len |-> len], WithErase(m, s, len))

WriteSync(m, s, from, to, v) ==
  /\ Writable(m, s, from, to, v)
  /\ SyncRequest(m, [type |-> "W", addr |-> s, from |-> from, to |-> to,
                     data |-> [c \in Cells |-> v]],
                 WithWrite(m, s, from, to, v))

(* norflash_api_flush_disable and norflash_api_flush_enable by the CP user *)
FlushDisable ==
  /\ Sane /\ ~ allowedCb /\ ops < MaxOps
  /\ allowedCb' = TRUE
  /\ UNCHANGED <<mod, curMod, curModId, flash, ops, expected, bypassed>>

FlushEnable ==
  /\ Sane /\ allowedCb
  /\ allowedCb' = FALSE
  /\ UNCHANGED <<mod, curMod, curModId, flash, ops, expected, bypassed>>

-------------------------------------------------------------------------------

Next ==
  \/ Flush
  \/ FlushDisable
  \/ FlushEnable
  \/ \E m \in Modules, s \in Sectors :
       \/ \E len \in EraseLens :
            /\ s % len = 0
            /\ EraseAsync(m, s, len) \/ EraseSync(m, s, len)
       \/ \E from \in Cells, to \in 1 .. Cardinality(Cells), v \in SUBSET Bits :
            /\ from < to
            /\ WriteAsync(m, s, from, to, v) \/ WriteSync(m, s, from, to, v)

Spec == Init /\ [][Next]_vars

(* The sleep hook calls norflash_api_flush whenever the system is idle, the *)
(* driver does not suspend one operation for ever, and the CP's callback    *)
(* (cp_accel_init_done) says yes once the CP has started.                   *)
Fairness ==
  /\ WF_vars(Flush)
  /\ \A m \in Modules : SF_vars(Serve(m) /\ FlushDone(m))

FairSpec == Spec /\ Fairness

-------------------------------------------------------------------------------
(* Properties *)

(* Types; and the nodes of all lists are in different slots of              *)
(* opera_info_list.                                                        *)
TypeOK ==
  /\ mod \in [Modules -> [list : Seq(Node), cur : Slots \cup {0},
                          state : {"IDLE", "WRITTING_SUSPEND", "ERASE_SUSPEND"}]]
  /\ curMod \in Modules \cup {NoMod} /\ curModId \in Modules
  /\ allowedCb \in BOOLEAN
  /\ flash \in [Modules -> [Sectors -> Sector]]
  /\ expected \in [Modules -> [Sectors -> Sector]]
  /\ ops \in 0 .. MaxOps /\ bypassed \subseteq Modules
  /\ \A m, k \in Modules : \A i \in DOMAIN mod[m].list, j \in DOMAIN mod[k].list :
       mod[m].list[i].slot = mod[k].list[j].slot => m = k /\ i = j

(* The operation in flight is the tail of its module's list, locked, and    *)
(* nothing else is locked; one operation at most is in flight in the whole  *)
(* device, and norflash_api_flush will come back to its module.  Requests   *)
(* arriving between suspend and resume, also synchronous ones of another    *)
(* module, must keep it so: _opera_del cuts the list at that node.          *)
OneInFlight ==
  /\ \A m \in Modules :
       LET r == mod[m]
       IN  /\ r.state # "IDLE" <=> r.cur # 0
           /\ r.cur # 0 => curMod = m /\ r.list # <<>>
           /\ \A i \in DOMAIN r.list :
                r.list[i].lock <=> r.cur # 0 /\ i = Len(r.list)
           /\ r.cur # 0 => r.list[Len(r.list)].slot = r.cur

(* What is on the flash plus what is pending, flushed in order, is what the *)
(* accepted requests add up to: merging a write, dropping the operations an *)
(* erase makes pointless, suspending, and a synchronous request that first  *)
(* flushes the list never lose or reorder an accepted request.  A module    *)
(* whose list a synchronous request ran ahead of is excepted.               *)
PendingAddsUp ==
  Sane => \A m \in Modules \ bypassed :
            EffectAll(mod[m].list, flash[m]) = expected[m]

StaleView(m, s) ==
  \E i \in First(Of(mod[m].list, s)) : mod[m].list[i].stale

(* norflash_api_read returns the content accepted so far whatever is still  *)
(* pending or half done, unless the write it reads from was queued while an *)
(* earlier write of the sector was suspended.                               *)
ReadYourWrites ==
  Sane => \A m \in Modules \ bypassed, s \in Sectors :
            StaleView(m, s) \/ View(m, s) = expected[m][s]

(* The operation the driver is working on is not changed under its hands:  *)
(* until it completes, no request merges into it, frees it or moves it.    *)
InFlightUntouched ==
  [][\A m \in Modules :
       mod[m].cur # 0 => \/ mod'[m].cur = 0
                         \/ /\ mod'[m].cur = mod[m].cur
                            /\ mod'[m].list # <<>>
                            /\ mod'[m].list[Len(mod'[m].list)] = CurNode(mod[m])]_vars

(* Once the requests stop (there are MaxOps of them), the pending           *)
(* operations of every module are flushed: a module left current or         *)
(* suspended never keeps the others waiting for ever.                       *)
Drains == \A m \in Modules : mod[m].list # <<>> ~> (mod[m].list = <<>> \/ ~ Sane)
===============================================================================
