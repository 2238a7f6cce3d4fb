------------------------------ MODULE LogSection ------------------------------
(***************************************************************************)
(* The log dump section (log_section.c): the trace output is collected in  *)
(* a ring of sector buffers, the sleep hook hands full buffers to the      *)
(* asynchronous flash layer, and a crash writes all of them before the     *)
(* system stops.  The log is a ring of flash sectors; each starts with a   *)
(* header that holds its sequence number, from which the next boot finds   *)
(* the place to go on.                                                     *)
(*                                                                         *)
(* Output and sleep hook run with interrupts locked, so each is one step;  *)
(* the flash works in between.  The flash layer is what NorflashApi shows  *)
(* of it: one module's operations in order, accepted into RAM or refused   *)
(* when that is full, lost when the power goes.  Lengths are in units; the *)
(* header is one.                                                          *)
(***************************************************************************)
EXTENDS Integers, Sequences

CONSTANTS
  Buffers,     \* LOG_DUMP_SECTOR_BUFFER_COUNT
  Sectors,     \* sectors of the flash region
  SectorSize,  \* LOG_DUMP_SECTOR_SIZE
  QueueLen,    \* operations the flash layer keeps for this module
  MaxSeq,      \* bound: output stops at this sequence number
  MaxBoots     \* bound: boots

ASSUME LogAssumption ==
  /\ Buffers \in Nat \ {0, 1} /\ Sectors \in Nat \ {0, 1}
  /\ SectorSize \in Nat \ {0, 1} /\ QueueLen \in Nat \ {0}
  /\ MaxSeq \in Nat /\ MaxBoots \in Nat

VARIABLES
  mode,    \* "off", "run", "crash" (CRASH_START seen), "flushing" (CRASH_END) or "dead"
  ring,    \* data_buffer_list, log_dump_w_seqnum, log_dump_f_seqnum and cur_dump_seqnum
  fstate,  \* log_dump_flash_state
  offs,    \* log_dump_flash_offs
  queue,   \* operations the flash layer has accepted
  flash,   \* the sequence number in each sector's header, or Blank
  boots,   \* number of boots
  hist     \* history, see below

vars == <<mode, ring, fstate, offs, queue, flash, boots, hist>>

Blank == -1
Index == 0 .. Buffers - 1
FreeBuffer == [state |-> "FREE", offset |-> 0, seq |-> Blank]

(* History.  slipped: the last boot in which the flash took the buffer the  *)
(* writer stood on, full and already given up; crash: the buffers in use    *)
(* when the crash ended.                                                    *)
NoHistory == [slipped |-> 0, crash |-> {}]

Succ(i) == IF i + 1 = Buffers THEN 0 ELSE i + 1
SectorAt(o) == o \div SectorSize
Headers == {flash[s] : s \in DOMAIN flash} \ {Blank}

(* The flash after each of some operations, an erase or a sector's log, and *)
(* after the first n of those accepted                                      *)
Run(fl, ops) ==
  LET run[k \in 0 .. Len(ops)] ==
        IF k = 0 THEN fl ELSE [run[k - 1] EXCEPT ![ops[k].sector] = ops[k].seq]
  IN  run
Done(n) == Run(flash, queue)[n]

Init ==
  /\ mode = "off"
  /\ ring = [buf |-> [i \in Index |-> FreeBuffer], w |-> 0, f |-> 0, seq |-> 0]
  /\ fstate = "IDLE" /\ offs = 0 /\ queue = <<>>
  /\ flash = [s \in 0 .. Sectors - 1 |-> Blank]
  /\ boots = 0 /\ hist = NoHistory

-----------------------------------------------------------------------------
(* Seeded fault: a start goes on in the newest sector *)
SameSector ==
  IF Headers = {} THEN <<0, 0>>
  ELSE LET s == CHOOSE t \in DOMAIN flash : \A u \in DOMAIN flash : flash[t] >= flash[u]
       IN <<flash[s] + 1, s>>

(* _get_seqnum: the sequence number and the sector to go on with.  The      *)
(* search starts from 0, so it finds no sector when all it sees is number 0 *)
GetSeqnum ==
  IF Headers = {} THEN <<0, 0>>
  ELSE LET s == IF Headers = {0} THEN 0
                ELSE CHOOSE t \in DOMAIN flash : \A u \in DOMAIN flash : flash[t] >= flash[u]
       IN <<(IF Headers = {0} THEN 0 ELSE flash[s]) + 1,
            IF s + 1 >= Sectors THEN 0 ELSE s + 1>>

(* log_dump_init *)
Boot ==
  /\ mode = "off" /\ boots < MaxBoots
  /\ mode' = "run" /\ boots' = boots + 1
  /\ ring' = [buf |-> [i \in Index |-> FreeBuffer], w |-> 0, f |-> 0, seq |-> GetSeqnum[1]]
  /\ offs' = GetSeqnum[2] * SectorSize
  /\ fstate' = "IDLE"
  /\ hist' = [hist EXCEPT !.crash = {}]
  /\ UNCHANGED <<queue, flash>>

(* Seeded fault: the sequence number does not go up with the first buffer *)
StaleNumber(r) ==
  IF r.buf[r.w].state = "WRITTING" THEN r
  ELSE [r EXCEPT !.buf[r.w] = [state |-> "WRITTING", offset |-> 1, seq |-> r.seq],
                 !.seq = IF r.w = 0 THEN @ ELSE @ + 1]

(* The writer's buffer, started afresh with a header if it is free or full *)
Opened(r) ==
  IF r.buf[r.w].state = "WRITTING" THEN r
  ELSE [r EXCEPT !.buf[r.w] = [state |-> "WRITTING", offset |-> 1, seq |-> r.seq],
                 !.seq = @ + 1]

Room(r) == SectorSize - Opened(r).buf[r.w].offset

(* One round of the loop: a full buffer is closed and the writer moves on;  *)
(* if it meets the flush, the oldest buffer is given up                     *)
Put(r, n) ==
  LET o == Opened(r)
      full == o.buf[r.w].offset + n = SectorSize
      w1 == Succ(r.w)
      added == [o EXCEPT !.buf[r.w].offset = @ + n,
                         !.buf[r.w].state = IF full THEN "WRITTEN" ELSE @]
  IN IF ~full THEN added
     ELSE [added EXCEPT !.w = w1, !.f = IF w1 = @ THEN Succ(@) ELSE @]

(* log_dump_output_handler: an output shorter than a sector, from the       *)
(* trace that runs after log_dump_init                                      *)
Output(n) ==
  /\ mode \in {"run", "crash"} /\ ring.seq < MaxSeq
  /\ ring' = IF n <= Room(ring) THEN Put(ring, n)
             ELSE Put(Put(ring, Room(ring)), n - Room(ring))
  /\ UNCHANGED <<mode, fstate, offs, queue, flash, boots, hist>>

(* The ASSERT of the output handler: the buffer the writer moves to is FREE *)
(* or WRITTEN.  An output moves at most once, from the buffer it finds the  *)
(* writer on; so the ASSERT holds if no other buffer is being filled.       *)
WriterBufferOK == \A i \in Index : i # ring.w => ring.buf[i].state \in {"FREE", "WRITTEN"}

-----------------------------------------------------------------------------
EraseOp == [sector |-> SectorAt(offs), seq |-> Blank]
WriteOp == [sector |-> SectorAt(offs), seq |-> ring.buf[ring.f].seq]

(* _flash_api_erase and _flash_api_write: async is accepted or refused, and *)
(* a refusal makes the flash layer work on its oldest operation, if this    *)
(* module is the one it serves; sync first finishes what was accepted       *)
Accepted(op, async) ==
  IF async THEN /\ Len(queue) < QueueLen
                /\ queue' = Append(queue, op) /\ flash' = flash
           ELSE /\ flash' = [Done(Len(queue)) EXCEPT ![op.sector] = op.seq]
                /\ queue' = <<>>

Refused ==
  /\ Len(queue) = QueueLen
  /\ \E n \in {0, 1} : queue' = SubSeq(queue, n + 1, Len(queue)) /\ flash' = Done(n)

(* _log_dump_flush(buff_state, is_async) *)
FlushErase(async) ==
  /\ fstate = "IDLE" /\ offs % SectorSize = 0
  /\ \/ Accepted(EraseOp, async) /\ fstate' = "ERASED"
     \/ async /\ Refused /\ fstate' = fstate
  /\ UNCHANGED <<ring, offs, hist>>

(* Seeded faults: the flush pointer stays, and the state becomes the one    *)
(* the enumeration has for a finished write                                 *)
StayingHanded ==
  /\ ring' = [ring EXCEPT !.buf[ring.f].state = "FREE"]
  /\ offs' = LET o == offs + ring.buf[ring.f].offset
             IN IF o >= Sectors * SectorSize THEN 0 ELSE o
  /\ fstate' = "IDLE"
WrittenHanded ==
  /\ ring' = [ring EXCEPT !.buf[ring.f].state = "FREE", !.f = Succ(@)]
  /\ offs' = LET o == offs + ring.buf[ring.f].offset
             IN IF o >= Sectors * SectorSize THEN 0 ELSE o
  /\ fstate' = "WRITTEN"

(* A buffer the flash has taken is free, and the next one is due *)
Handed ==
  /\ ring' = [ring EXCEPT !.buf[ring.f].state = "FREE", !.f = Succ(@)]
  /\ offs' = LET o == offs + ring.buf[ring.f].offset
             IN IF o >= Sectors * SectorSize THEN 0 ELSE o
  /\ fstate' = "IDLE"

FlushWrite(allowed, async) ==
  /\ fstate \in {"ERASED", "WRITTING"}
  /\ ring.buf[ring.f].state \in allowed /\ ring.buf[ring.f].offset > 0
  /\ \/ /\ Accepted(WriteOp, async)
        /\ Handed
        /\ hist' = [hist EXCEPT !.slipped =
             IF ring.f = ring.w /\ ring.buf[ring.f].state = "WRITTEN" THEN boots ELSE @]
     \/ /\ async /\ Refused
        /\ fstate' = "WRITTING"
        /\ UNCHANGED <<ring, offs, hist>>

(* log_dump_flush, called by the sleep hook with interrupts locked *)
SleepHook ==
  /\ mode = "run"
  /\ FlushErase(TRUE) \/ FlushWrite({"WRITTEN"}, TRUE)
  /\ UNCHANGED <<mode, boots>>

(* The flash layer works off its oldest operation *)
FlashRuns ==
  /\ mode = "run" /\ queue # <<>>
  /\ flash' = Done(1) /\ queue' = Tail(queue)
  /\ UNCHANGED <<mode, ring, fstate, offs, boots, hist>>

-----------------------------------------------------------------------------
(* log_dump_notify_handler: CRASH_ASSERT_START or CRASH_FAULT_START makes    *)
(* the flash accesses synchronous; output goes on                            *)
CrashStart ==
  /\ mode = "run" /\ mode' = "crash"
  /\ UNCHANGED <<ring, fstate, offs, queue, flash, boots, hist>>

(* CRASH_END: _log_dump_flush_remain *)
CrashEnd ==
  /\ mode = "crash" /\ mode' = "flushing"
  /\ hist' = [hist EXCEPT !.crash =
       {ring.buf[i].seq : i \in {j \in Index : ring.buf[j].state # "FREE"}}]
  /\ UNCHANGED <<ring, fstate, offs, queue, flash, boots>>

(* Seeded fault: the loop only waits for the full buffers *)
HastyRemaining == \E i \in Index : ring.buf[i].state = "WRITTEN"

Remaining == \E i \in Index : ring.buf[i].state # "FREE"

RemainRound ==
  /\ mode = "flushing" /\ Remaining
  /\ FlushErase(FALSE) \/ FlushWrite({"WRITTING", "WRITTEN"}, FALSE)
  /\ UNCHANGED <<mode, boots>>

(* _flash_api_flush, and the system stops or waits for the watchdog *)
RemainDone ==
  /\ mode = "flushing" /\ ~Remaining
  /\ flash' = Done(Len(queue)) /\ queue' = <<>>
  /\ mode' = "dead"
  /\ UNCHANGED <<ring, fstate, offs, boots, hist>>

(* A reset or power loss at any time; RAM is gone, and of the operation     *)
(* under way as much as the header's page has happened or has not           *)
Reset ==
  /\ mode # "off"
  /\ mode' = "off"
  /\ \E n \in {0, 1} : n <= Len(queue) /\ flash' = Done(n)
  /\ queue' = <<>>
  /\ UNCHANGED <<ring, fstate, offs, boots, hist>>

Next ==
  \/ Boot
  \/ \E n \in 1 .. SectorSize - 1 : Output(n)
  \/ SleepHook
  \/ FlashRuns
  \/ CrashStart
  \/ CrashEnd
  \/ RemainRound
  \/ RemainDone
  \/ Reset

Spec == Init /\ [][Next]_vars

(* The idle thread calls the sleep hook and the flash layer's hook again    *)
(* and again; the crash flush is a loop of the only code left running       *)
FairSpec ==
  /\ Spec
  /\ WF_vars(SleepHook) /\ WF_vars(FlashRuns)
  /\ WF_vars(RemainRound) /\ WF_vars(RemainDone)

-----------------------------------------------------------------------------
Buffer == [state : {"FREE", "WRITTING", "WRITTEN"}, offset : 0 .. SectorSize,
           seq : Nat \cup {Blank}]

(* Types, and the output handler's ASSERT that the writer never moves to a   *)
(* buffer that is still being filled                                         *)
TypeOK ==
  /\ mode \in {"off", "run", "crash", "flushing", "dead"}
  /\ ring \in [buf : [Index -> Buffer], w : Index, f : Index, seq : Nat]
  /\ WriterBufferOK
  /\ fstate \in {"IDLE", "ERASED", "WRITTING"}
  /\ offs \in 0 .. Sectors * SectorSize - 1
  /\ queue \in Seq([sector : 0 .. Sectors - 1, seq : Nat \cup {Blank}])
  /\ Len(queue) <= QueueLen
  /\ flash \in [0 .. Sectors - 1 -> Nat \cup {Blank}]
  /\ boots \in 0 .. MaxBoots
  /\ hist.slipped \in 0 .. MaxBoots

(* A sequence number names one sector's log: while the system runs, no two   *)
(* sectors of the flash, accepted writes and buffers in use hold the same    *)
(* one, and the next number is above them all, over every boot, crash and    *)
(* lost write before (_get_seqnum, output handler).                          *)
NumbersOf(i) == {ring.buf[j].seq : j \in {k \in {i} : ring.buf[k].state # "FREE"}}
SeqUnique ==
  mode # "off" =>
    /\ \A s, t \in DOMAIN flash : s # t /\ flash[s] = flash[t] => flash[s] = Blank
    /\ \A i, j \in Index : i # j => NumbersOf(i) \cap NumbersOf(j) = {}
    /\ \A i \in Index : \A n \in NumbersOf(i) : n < ring.seq /\ n \notin Headers
    /\ \A n \in Headers : n < ring.seq
    /\ \A k \in DOMAIN queue : queue[k].seq < ring.seq /\ queue[k].seq \notin Headers

(* The log is a ring: what a step takes from the flash is older than all it  *)
(* leaves, whatever was lost at the last power loss and wherever the last    *)
(* crash left off; unless a buffer has once slipped behind a newer one.      *)
OldestErased ==
  [][ hist.slipped = 0 =>
        \A a \in Headers \ Headers' : \A b \in Headers \cap Headers' : a < b ]_vars

(* After a crash the flash holds every buffer that was in use when the       *)
(* crash dump ended, the partly filled one too (_log_dump_flush_remain).     *)
CrashLogKept == mode = "dead" => hist.crash \subseteq Headers

(* The crash flush ends (_log_dump_flush_remain loops until every buffer is  *)
(* free), unless a buffer has slipped since the start.                       *)
CrashFlushEnds == (mode = "flushing" /\ hist.slipped # boots) ~> mode # "flushing"

(* A full buffer does not wait for ever while the system runs: the sleep     *)
(* hook hands it over, or the writer takes it again for newer output.        *)
FullSectorLeaves ==
  \A i \in Index : \A n \in 0 .. MaxSeq :
    (mode = "run" /\ ring.buf[i].state = "WRITTEN" /\ ring.buf[i].seq = n)
      ~> ~(mode = "run" /\ ring.buf[i].state = "WRITTEN" /\ ring.buf[i].seq = n)

(* What "flush end." after the loop of _log_dump_flush_remain says: every    *)
(* crash flush ends.                                                         *)
CrashFlushAlwaysEnds == mode = "flushing" ~> mode # "flushing"
===============================================================================
