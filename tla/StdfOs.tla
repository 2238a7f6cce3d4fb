-------------------------------- MODULE StdfOs --------------------------------
(***************************************************************************)
(* The message service of the STDF framework: the delayed-message table    *)
(* (stdf_os_delay_msg.c), the RTX one-shot timer that drives it, and the   *)
(* mailbox with its single consumer thread (stdf_os_msg.c).                *)
(*                                                                         *)
(* Every section between ENTER_CRITICAL and EXIT_CRITICAL holds the one    *)
(* mutex and is one action; what runs between two sections is a step of    *)
(* its own, so the timer thread can be overtaken by any sender there.  A   *)
(* message is a (handler, msg_id) pair, the key, plus the number of the    *)
(* call that sent it, which stands for the payload.                        *)
(***************************************************************************)
EXTENDS Naturals, FiniteSets, Sequences

CONSTANTS
  Keys,      \* the (handler, msg_id) pairs in use
  MaxNum,    \* STDF_OS_DELAY_MSG_MAX_NUM, entries of the delay table
  MailMax,   \* STDF_OS_MSG_MAILBOX_MAX, mails the mailbox holds
  MaxDelay,  \* bound: longest delay a caller asks for, in ms
  MaxSends,  \* bound: messages ever sent
  MaxNow,    \* bound: idle time simulated, in ms
  ClockMod   \* GET_CURRENT_MS() counts modulo this

ASSUME ConstAssumption ==
  /\ MaxNum \in Nat \ {0}
  /\ MailMax \in Nat \ {0}
  /\ MaxDelay \in Nat
  /\ MaxSends \in Nat
  /\ MaxNow \in Nat
  /\ ClockMod \in Nat \ {0}

VARIABLES
  table,     \* stdf_os_delay_msg_data: per slot {} or the one entry it holds
  latest,    \* slots whose "latest" flag is set
  timer,     \* the RTX one-shot timer: running, and the tick it is due at
  pending,   \* timer callbacks queued for the timer thread
  cb,        \* where stdf_os_delay_msg_timer_timeout stands
  cbMsg,     \* its local handler/msg_id/payload: {} or one message
  mail,      \* mails put and not yet taken by the message thread
  handling,  \* {} or the mail whose handler is running (still allocated)
  now,       \* the hardware millisecond counter, before it wraps
  failed,    \* the STDF_ASSERT that stopped the system, or "none"
  sent,      \* number of send calls made
  outcome    \* history: what became of each message

vars == <<table, latest, timer, pending, cb, cbMsg, mail, handling, now,
          failed, sent, outcome>>

Slot == 0 .. MaxNum - 1
Msg == [key : Keys, seq : 1 .. MaxSends]
(* "wanted" is history: the time asked for, on the clock that never wraps *)
Entry == [msg : Msg, runTime : Nat, wanted : Nat]

Used(tab) == {i \in Slot : tab[i] # {}}
EntryAt(tab, i) == CHOOSE e \in tab[i] : TRUE
MsgAt(tab, i) == EntryAt(tab, i).msg
RunTime(tab, i) == EntryAt(tab, i).runTime
Wanted(tab, i) == EntryAt(tab, i).wanted

CurrentMs == now % ClockMod
Alive == failed = "none"

(* get_latest: the lowest used slot with the flag, as a set of at most one *)
GetLatest(tab, lat) ==
  LET flagged == lat \cap Used(tab)
  IN  {i \in flagged : \A j \in flagged : i <= j}

(* deinit of a set of slots *)
Deinit(tab, S) == [i \in Slot |-> IF i \in S THEN {} ELSE tab[i]]

(* the slot the scans select: least run time, then least index *)
IsEarliest(tab, S, i) ==
  /\ i \in S
  /\ \A j \in S : \/ RunTime(tab, i) < RunTime(tab, j)
                  \/ RunTime(tab, i) = RunTime(tab, j) /\ i <= j

Stopped == [running |-> FALSE, due |-> 0]

(* Ticks until the timer is due: never zero, a late entry waits one tick *)
TimerDelay(runTime) ==
  IF runTime <= CurrentMs THEN 1 ELSE runTime - CurrentMs

(* Seeded faults, each a variant of the operator whose name it ends in; no  *)
(* specification uses them.  This one lacks the test for an empty table.    *)
UncheckedTimerStart(tab, lat, t) ==
  \E i \in 0 .. MaxNum :
    /\ IF Used(tab) = {} THEN i = MaxNum ELSE IsEarliest(tab, Used(tab), i)
    /\ latest' = (lat \ GetLatest(tab, lat)) \cup {i}
    /\ timer' = [running |-> TRUE, due |-> now + 1]

(* Seeded fault: the old flag is not cleared *)
StickyTimerStart(tab, lat, t) ==
  IF Used(tab) = {}
  THEN latest' = lat /\ timer' = t
  ELSE \E i \in Slot :
         /\ IsEarliest(tab, Used(tab), i)
         /\ latest' = lat \cup {i}
         /\ timer' = [running |-> TRUE,
                      due |-> now + TimerDelay(RunTime(tab, i))]

(* timer_start on table tab, flags lat and timer t: mark the earliest entry *)
(* and (re)start the timer for it; nothing at all if the table is empty     *)
TimerStart(tab, lat, t) ==
  \/ /\ Used(tab) = {}
     /\ latest' = lat
     /\ timer' = t
  \/ \E i \in Slot :
       /\ IsEarliest(tab, Used(tab), i)
       /\ latest' = (lat \ GetLatest(tab, lat)) \cup {i}
       /\ timer' = [running |-> TRUE,
                    due |-> now + TimerDelay(RunTime(tab, i))]

(* mailbox_put: a full pool empties the queue into the log and asserts *)
MailboxPut(m) ==
  IF Len(mail) + Cardinality(handling) < MailMax
  THEN mail' = Append(mail, m) /\ UNCHANGED failed
  ELSE mail' = <<>> /\ failed' = "mailbox_full"

-------------------------------------------------------------------------------

Init ==
  /\ table = [i \in Slot |-> {}]
  /\ latest = {}
  /\ timer = Stopped
  /\ pending = 0
  /\ cb = "idle"
  /\ cbMsg = {}
  /\ mail = <<>>
  /\ handling = {}
  /\ now = 0
  /\ failed = "none"
  /\ sent = 0
  /\ outcome = [n \in 1 .. MaxSends |-> "open"]

(* One millisecond; the tick interrupt stops an expired one-shot timer and *)
(* queues its callback for the timer thread.                               *)
Tick ==
  /\ Alive
  /\ now < MaxNow \/ timer.running
  /\ now' = now + 1
  /\ IF timer.running /\ timer.due = now + 1
     THEN timer' = Stopped /\ pending' = pending + 1
     ELSE UNCHANGED <<timer, pending>>
  /\ UNCHANGED <<table, latest, cb, cbMsg, mail, handling, failed, sent, outcome>>

(* MessageSend, from a thread or an interrupt *)
MessageSend(k) ==
  /\ Alive
  /\ sent < MaxSends
  /\ sent' = sent + 1
  /\ MailboxPut([key |-> k, seq |-> sent + 1])
  /\ UNCHANGED <<table, latest, timer, pending, cb, cbMsg, handling, now, outcome>>

(* Seeded fault: a running timer is left as it is *)
LazyDelayAdd(i, m, delay) ==
  LET tab == [table EXCEPT ![i] = {[msg |-> m, runTime |-> CurrentMs + delay,
                                    wanted |-> now + delay]}]
  IN  /\ table' = tab
      /\ IF timer.running THEN UNCHANGED <<latest, timer>>
                          ELSE TimerStart(tab, latest, timer)

(* stdf_os_delay_msg_add into slot i: the entry is written with the timer  *)
(* stopped, then the timer is started for the earliest entry               *)
DelayAdd(i, m, delay) ==
  LET tab == [table EXCEPT ![i] = {[msg |-> m, runTime |-> CurrentMs + delay,
                                    wanted |-> now + delay]}]
  IN  /\ table' = tab
      /\ TimerStart(tab, latest, Stopped)

(* stdf_os_delay_msg_send_later; with delay 0, stdf_os_delay_msg_send.  A  *)
(* full table refuses the message with a log line only.                    *)
SendLater(k, delay) ==
  /\ Alive
  /\ sent < MaxSends
  /\ sent' = sent + 1
  /\ \/ \E i \in Slot \ Used(table) :
          /\ \A j \in Slot \ Used(table) : i <= j
          /\ DelayAdd(i, [key |-> k, seq |-> sent + 1], delay)
          /\ UNCHANGED outcome
     \/ /\ Used(table) = Slot
        /\ outcome' = [outcome EXCEPT ![sent + 1] = "refused"]
        /\ UNCHANGED <<table, latest, timer>>
  /\ UNCHANGED <<pending, cb, cbMsg, mail, handling, now, failed>>

(* Messages of the table's slots S *)
SeqsAt(tab, S) == {MsgAt(tab, i).seq : i \in S}

(* Removing slots S: only when the flagged entry goes is the timer stopped *)
(* and started again for what is left.                                     *)
Delete(S) ==
  LET tab == Deinit(table, S)
  IN  /\ table' = tab
      /\ outcome' = [n \in 1 .. MaxSends |->
                       IF n \in SeqsAt(table, S) THEN "cancelled" ELSE outcome[n]]
      /\ IF GetLatest(table, latest) \cap S # {}
         THEN TimerStart(tab, latest \ S, Stopped)
         ELSE UNCHANGED <<latest, timer>>

Matching(k) == {i \in Used(table) : MsgAt(table, i).key = k}

(* stdf_os_delay_msg_cancel_first *)
CancelFirst(k) ==
  /\ Alive
  /\ \E i \in Slot : IsEarliest(table, Matching(k), i) /\ Delete({i})
  /\ UNCHANGED <<pending, cb, cbMsg, mail, handling, now, failed, sent>>

(* stdf_os_delay_msg_cancel_all: delate_first repeated under one lock *)
CancelAll(k) ==
  /\ Alive
  /\ Matching(k) # {}
  /\ Delete(Matching(k))
  /\ UNCHANGED <<pending, cb, cbMsg, mail, handling, now, failed, sent>>

-------------------------------------------------------------------------------
(* stdf_os_delay_msg_timer_timeout on the timer thread *)

(* Seeded fault: the entry's flag is cleared but the entry is kept *)
KeepingTimeoutTake ==
  /\ Alive
  /\ cb = "idle"
  /\ pending > 0
  /\ pending' = pending - 1
  /\ \E i \in GetLatest(table, latest) :
       /\ cbMsg' = {MsgAt(table, i)}
       /\ latest' = latest \ {i}
  /\ cb' = "post"
  /\ UNCHANGED <<table, timer, mail, handling, now, failed, sent, outcome>>

(* first critical section: take the flagged entry out of the table *)
TimeoutTake ==
  /\ Alive
  /\ cb = "idle"
  /\ pending > 0
  /\ pending' = pending - 1
  /\ \/ /\ GetLatest(table, latest) = {}
        /\ failed' = "latest_index"
        /\ UNCHANGED <<table, latest, cb, cbMsg>>
     \/ \E i \in GetLatest(table, latest) :
          /\ cbMsg' = {MsgAt(table, i)}
          /\ table' = Deinit(table, {i})
          /\ latest' = latest \ {i}
          /\ cb' = "post"
          /\ UNCHANGED failed
  /\ UNCHANGED <<timer, mail, handling, now, sent, outcome>>

(* outside the mutex: post it *)
TimeoutPost ==
  /\ Alive
  /\ cb = "post"
  /\ \E m \in cbMsg : MailboxPut(m)
  /\ cbMsg' = {}
  /\ cb' = "scan"
  /\ UNCHANGED <<table, latest, timer, pending, handling, now, sent, outcome>>

(* second critical section: every other due entry is copied over the last  *)
(* one and cleared; the loop always runs to the end of the table, so the   *)
(* index test after it fails and none of them is posted                    *)
TimeoutScan ==
  /\ Alive
  /\ cb = "scan"
  /\ LET due == {i \in Used(table) : RunTime(table, i) <= CurrentMs}
     IN  /\ table' = Deinit(table, due)
         /\ latest' = latest \ due
         /\ outcome' = [n \in 1 .. MaxSends |->
                          IF n \in SeqsAt(table, due) THEN "discarded" ELSE outcome[n]]
  /\ cb' = "restart"
  /\ UNCHANGED <<timer, pending, cbMsg, mail, handling, now, failed, sent>>

(* Seeded fault: the timer is not started again *)
ForgetfulTimeoutRestart ==
  /\ Alive
  /\ cb = "restart"
  /\ cb' = "idle"
  /\ UNCHANGED <<latest, timer, table, pending, cbMsg, mail, handling, now, failed,
                 sent, outcome>>

(* third critical section: restart the timer unless a sender already has *)
TimeoutRestart ==
  /\ Alive
  /\ cb = "restart"
  /\ cb' = "idle"
  /\ IF timer.running THEN UNCHANGED <<latest, timer>>
                      ELSE TimerStart(table, latest, timer)
  /\ UNCHANGED <<table, pending, cbMsg, mail, handling, now, failed, sent, outcome>>

-------------------------------------------------------------------------------
(* stdf_os_msg_thread *)

MailboxGet ==
  /\ Alive
  /\ handling = {}
  /\ mail # <<>>
  /\ handling' = {Head(mail)}
  /\ mail' = Tail(mail)
  /\ UNCHANGED <<table, latest, timer, pending, cb, cbMsg, now, failed, sent, outcome>>

(* the handler has returned; the mail goes back to the pool *)
MailboxFree ==
  /\ Alive
  /\ \E m \in handling : outcome' = [outcome EXCEPT ![m.seq] = "handled"]
  /\ handling' = {}
  /\ UNCHANGED <<table, latest, timer, pending, cb, cbMsg, mail, now, failed, sent>>

-------------------------------------------------------------------------------

Next ==
  \/ Tick
  \/ \E k \in Keys : \/ MessageSend(k)
                     \/ \E d \in 0 .. MaxDelay : SendLater(k, d)
                     \/ CancelFirst(k)
                     \/ CancelAll(k)
  \/ TimeoutTake \/ TimeoutPost \/ TimeoutScan \/ TimeoutRestart
  \/ MailboxGet \/ MailboxFree

Spec == Init /\ [][Next]_vars

(* The tick interrupt, the timer thread and the message thread keep        *)
(* running: they wait for nothing but the mutex, which is held for a scan  *)
(* of the table.  Callers owe nothing.                                     *)
Fairness ==
  /\ WF_vars(Tick)
  /\ WF_vars(TimeoutTake) /\ WF_vars(TimeoutPost)
  /\ WF_vars(TimeoutScan) /\ WF_vars(TimeoutRestart)
  /\ WF_vars(MailboxGet) /\ WF_vars(MailboxFree)

FairSpec == Spec /\ Fairness

-------------------------------------------------------------------------------
(* Properties *)

TableOK(tab) ==
  /\ DOMAIN tab = Slot
  /\ \A i \in Slot : /\ tab[i] \subseteq Entry
                     /\ \A e, f \in tab[i] : e = f

(* Types; in particular no slot of the delay table ever holds two entries. *)
TypeOK ==
  /\ TableOK(table)
  /\ latest \subseteq Slot
  /\ timer \in [running : BOOLEAN, due : Nat]
  /\ pending \in Nat
  /\ cb \in {"idle", "post", "scan", "restart"}
  /\ cbMsg \subseteq Msg
  /\ mail \in Seq(Msg)
  /\ handling \subseteq Msg
  /\ now \in Nat
  /\ failed \in {"none", "latest_index", "mailbox_full"}
  /\ sent \in 0 .. MaxSends
  /\ outcome \in [1 .. MaxSends ->
                  {"open", "handled", "cancelled", "refused", "discarded"}]

(* No delayed message is ever stranded: while the table holds an entry, the *)
(* timer is running, or a callback that will restart it is queued or under  *)
(* way.  Senders, cancellers and the callback each stop and start the one   *)
(* timer, and the callback starts it only if it finds it stopped.           *)
NoStrandedEntry ==
  Alive /\ Used(table) # {} => timer.running \/ pending > 0 \/ cb # "idle"

(* The flag names the entry the timer is armed for: never two flags, never  *)
(* one on a free slot, and the flagged entry is due no later than any other *)
(* one, whatever was added or cancelled since (get_latest takes the first   *)
(* flag it meets).                                                          *)
LatestIsEarliest ==
  \A i \in latest : /\ i \in Used(table)
                    /\ \A j \in latest : i = j
                    /\ \A j \in Used(table) : RunTime(table, i) <= RunTime(table, j)

(* While the clock does not wrap, a running timer fires no later than the   *)
(* earliest entry is due, or at the next tick if that time has passed.      *)
TimerNotLate ==
  timer.running =>
    \A i \in Used(table) : timer.due <= Wanted(table, i) \/ timer.due = now + 1

Holders(n) ==
  Cardinality({i \in Used(table) : MsgAt(table, i).seq = n})
    + Cardinality({m \in cbMsg : m.seq = n})
    + Cardinality({i \in DOMAIN mail : mail[i].seq = n})
    + Cardinality({m \in handling : m.seq = n})

(* A message that was sent and has no outcome yet is in exactly one place   *)
(* (table, callback, mailbox or handler) and one that has an outcome is     *)
(* nowhere: nothing is delivered twice, after its cancellation, or dropped  *)
(* between two of the callback's critical sections.                         *)
ExactlyOnePlace ==
  Alive => \A n \in 1 .. MaxSends :
             Holders(n) = IF n <= sent /\ outcome[n] = "open" THEN 1 ELSE 0

Delayed(n) == \E i \in Used(table) : MsgAt(table, i).seq = n

(* Every delayed message leaves the table (posted, cancelled or discarded)  *)
(* unless an assertion stops the system first.                              *)
DelayEnds == \A n \in 1 .. MaxSends : Delayed(n) ~> (~ Delayed(n) \/ ~ Alive)

(* The service in its callers' terms, see DelayedMessages *)
Service == INSTANCE DelayedMessages WITH
  waiting <- {MsgAt(table, i) : i \in Used(table)},
  expired <- cbMsg,
  sweeping <- (cb = "scan"),
  queue <- mail,
  handled <- handling,
  up <- Alive

(* The table, its flags and the timer callback with its three critical       *)
(* sections do what the service promises: nothing is delivered twice, out of *)
(* order, after its cancellation or without having been sent, and what is    *)
(* lost is lost only where DelayedMessages says so.                          *)
ImplementsService == Service!Spec

(* Stated by stdf_os_delay_msg.c:256 ("check if other handle need to call"): *)
(* a due entry found by the scan is called, so none is ever thrown away.     *)
NoneDiscarded == \A n \in 1 .. MaxSends : outcome[n] # "discarded"

(* Stated by the assertion at stdf_os_delay_msg.c:243: when the timer        *)
(* callback runs, one entry of the table carries the flag.                   *)
LatestIndexAssertion == failed # "latest_index"
===============================================================================
