---------------------------- MODULE StdfOs_proofs ----------------------------
(***************************************************************************)
(* Proofs about StdfOs for every number of keys, slots, mails and sends    *)
(* and for every clock modulus.  Each of the two safety invariants is      *)
(* inductive together with the types; they do not need each other.  The    *)
(* last part shows that the module implements DelayedMessages.             *)
(***************************************************************************)
EXTENDS StdfOs, TLAPS, FiniteSetTheorems, SequenceTheorems

TimerType == [running : BOOLEAN, due : Nat]

(* The millisecond clock is a natural number. *)
LEMMA CurrentMsNat == ASSUME now \in Nat PROVE CurrentMs \in Nat
BY ConstAssumption DEF CurrentMs

(* What a used slot holds. *)
LEMMA EntryType ==
  ASSUME NEW tab, TableOK(tab), NEW i \in Used(tab)
  PROVE  /\ i \in Slot
         /\ EntryAt(tab, i) \in tab[i]
         /\ EntryAt(tab, i) \in Entry
         /\ MsgAt(tab, i) \in Msg
         /\ RunTime(tab, i) \in Nat
         /\ Wanted(tab, i) \in Nat
<1>1. i \in Slot /\ tab[i] # {}
  BY DEF Used
<1>2. EntryAt(tab, i) \in tab[i]
  BY <1>1 DEF EntryAt
<1>3. EntryAt(tab, i) \in Entry
  BY <1>1, <1>2 DEF TableOK
<1>. QED
  BY <1>1, <1>2, <1>3 DEF MsgAt, RunTime, Wanted, Entry

(* Clearing slots keeps the table well formed. *)
LEMMA DeinitTable ==
  ASSUME NEW tab, TableOK(tab), NEW S
  PROVE  /\ TableOK(Deinit(tab, S))
         /\ Used(Deinit(tab, S)) = Used(tab) \ S
         /\ \A i \in Used(tab) \ S : Deinit(tab, S)[i] = tab[i]
BY DEF TableOK, Deinit, Used

(* timer_start leaves well typed flags and timer. *)
LEMMA TimerStartType ==
  ASSUME NEW tab, TableOK(tab), NEW lat \in SUBSET Slot, NEW t \in TimerType,
         now \in Nat, TimerStart(tab, lat, t)
  PROVE  latest' \in SUBSET Slot /\ timer' \in TimerType
<1>1. CASE Used(tab) = {} /\ latest' = lat /\ timer' = t
  BY <1>1
<1>2. CASE \E i \in Slot : /\ IsEarliest(tab, Used(tab), i)
                           /\ latest' = (lat \ GetLatest(tab, lat)) \cup {i}
                           /\ timer' = [running |-> TRUE,
                                due |-> now + TimerDelay(RunTime(tab, i))]
  <2>1. PICK i \in Slot : /\ IsEarliest(tab, Used(tab), i)
                          /\ latest' = (lat \ GetLatest(tab, lat)) \cup {i}
                          /\ timer' = [running |-> TRUE,
                                due |-> now + TimerDelay(RunTime(tab, i))]
    BY <1>2
  <2>2. RunTime(tab, i) \in Nat
    BY <2>1, EntryType DEF IsEarliest
  <2>3. TimerDelay(RunTime(tab, i)) \in Nat
    BY <2>2, CurrentMsNat DEF TimerDelay
  <2>. QED
    BY <2>1, <2>3 DEF TimerType
<1>. QED
  BY <1>1, <1>2 DEF TimerStart

(* timer_start leaves the timer running if there is anything to run it for. *)
LEMMA TimerStartRuns ==
  ASSUME NEW tab, NEW lat, NEW t, TimerStart(tab, lat, t), Used(tab) # {}
  PROVE  timer'.running
BY DEF TimerStart

(* mailbox_put leaves a well typed queue. *)
LEMMA MailboxPutType ==
  ASSUME TypeOK, NEW m \in Msg, MailboxPut(m)
  PROVE  /\ mail' \in Seq(Msg)
         /\ failed' \in {"none", "latest_index", "mailbox_full"}
<1>1. mail \in Seq(Msg) /\ Append(mail, m) \in Seq(Msg) /\ <<>> \in Seq(Msg)
  BY DEF TypeOK
<1>. QED
  BY <1>1 DEF MailboxPut, TypeOK

(* Deleting slots keeps the types; the flags that remain lie in the table. *)
LEMMA DeleteType ==
  ASSUME TypeOK, NEW S \in SUBSET Used(table), Delete(S)
  PROVE  /\ TableOK(table')
         /\ latest' \in SUBSET Slot
         /\ timer' \in TimerType
         /\ outcome' \in [1 .. MaxSends ->
               {"open", "handled", "cancelled", "refused", "discarded"}]
<1>. DEFINE tab == Deinit(table, S)
<1>1. TableOK(tab) /\ table' = tab
  BY DeinitTable DEF TypeOK, Delete
<1>2. Stopped \in TimerType /\ latest \ S \in SUBSET Slot /\ now \in Nat
  BY DEF Stopped, TimerType, TypeOK
<1>3. latest' \in SUBSET Slot /\ timer' \in TimerType
  <2>1. CASE GetLatest(table, latest) \cap S # {}
    <3>1. TimerStart(tab, latest \ S, Stopped)
      BY <2>1 DEF Delete
    <3>. QED
      BY <1>1, <1>2, <3>1, TimerStartType
  <2>2. CASE GetLatest(table, latest) \cap S = {}
    BY <2>2 DEF Delete, TypeOK, TimerType
  <2>. QED
    BY <2>1, <2>2
<1>. QED
  BY <1>1, <1>3 DEF Delete, TypeOK

(* Adding an entry keeps the types. *)
LEMMA DelayAddType ==
  ASSUME TypeOK, NEW i \in Slot, NEW m \in Msg, NEW d \in Nat, DelayAdd(i, m, d)
  PROVE  /\ TableOK(table')
         /\ latest' \in SUBSET Slot
         /\ timer' \in TimerType
<1>. DEFINE e == [msg |-> m, runTime |-> CurrentMs + d, wanted |-> now + d]
            tab == [table EXCEPT ![i] = {e}]
<1>1. e \in Entry
  BY CurrentMsNat DEF Entry, TypeOK
<1>2. TableOK(tab)
  BY <1>1 DEF TableOK, TypeOK
<1>3. table' = tab /\ TimerStart(tab, latest, Stopped)
  BY DEF DelayAdd
<1>4. Stopped \in TimerType /\ latest \in SUBSET Slot /\ now \in Nat
  BY DEF Stopped, TimerType, TypeOK
<1>5. latest' \in SUBSET Slot /\ timer' \in TimerType
  <2>. HIDE DEF tab
  <2>. QED
    BY <1>2, <1>3, <1>4, TimerStartType
<1>. QED
  BY <1>2, <1>3, <1>5

(* The state stdf_os_delay_msg_init leaves has the declared types. *)
LEMMA InitType == Init => TypeOK
BY ConstAssumption DEF Init, TypeOK, TableOK, Stopped, Msg

(* Every step preserves the types: one case per action. *)
LEMMA NextType == TypeOK /\ [Next]_vars => TypeOK'
<1>. SUFFICES ASSUME TypeOK, [Next]_vars PROVE TypeOK'
  OBVIOUS
<1>. USE ConstAssumption
<1>1. CASE Tick
  <2>1. timer' \in TimerType /\ pending' \in Nat /\ now' \in Nat
    <3>1. timer \in TimerType /\ Stopped \in TimerType /\ pending \in Nat /\ now \in Nat
      BY DEF TypeOK, Stopped, TimerType
    <3>2. \/ timer' = Stopped /\ pending' = pending + 1
          \/ UNCHANGED <<timer, pending>>
      BY <1>1 DEF Tick
    <3>3. now' = now + 1
      BY <1>1 DEF Tick
    <3>. QED
      BY <3>1, <3>2, <3>3
  <2>2. UNCHANGED <<table, latest, cb, cbMsg, mail, handling, failed, sent, outcome>>
    BY <1>1 DEF Tick
  <2>. QED
    BY <2>1, <2>2 DEF TypeOK, TimerType
<1>2. ASSUME NEW k \in Keys, MessageSend(k) PROVE TypeOK'
  <2>1. [key |-> k, seq |-> sent + 1] \in Msg /\ sent' \in 0 .. MaxSends
    BY <1>2 DEF MessageSend, TypeOK, Msg
  <2>. QED
    BY <1>2, <2>1, MailboxPutType DEF MessageSend, TypeOK
<1>3. ASSUME NEW k \in Keys, NEW d \in 0 .. MaxDelay, SendLater(k, d)
      PROVE  TypeOK'
  <2>1. [key |-> k, seq |-> sent + 1] \in Msg /\ sent' \in 0 .. MaxSends
    BY <1>3 DEF SendLater, TypeOK, Msg
  <2>2. CASE \E i \in Slot \ Used(table) :
               /\ \A j \in Slot \ Used(table) : i <= j
               /\ DelayAdd(i, [key |-> k, seq |-> sent + 1], d)
               /\ UNCHANGED outcome
    <3>1. TableOK(table') /\ latest' \in SUBSET Slot /\ timer' \in TimerType
      BY <2>1, <2>2, DelayAddType
    <3>. QED
      BY <1>3, <2>1, <2>2, <3>1 DEF SendLater, TypeOK, TimerType
  <2>3. CASE /\ Used(table) = Slot
             /\ outcome' = [outcome EXCEPT ![sent + 1] = "refused"]
             /\ UNCHANGED <<table, latest, timer>>
    BY <1>3, <2>1, <2>3 DEF SendLater, TypeOK
  <2>. QED
    BY <1>3, <2>2, <2>3 DEF SendLater
<1>4. ASSUME NEW k \in Keys, CancelFirst(k) PROVE TypeOK'
  <2>1. PICK i \in Slot : IsEarliest(table, Matching(k), i) /\ Delete({i})
    BY <1>4 DEF CancelFirst
  <2>2. {i} \in SUBSET Used(table)
    BY <2>1 DEF IsEarliest, Matching
  <2>. QED
    BY <1>4, <2>1, <2>2, DeleteType DEF CancelFirst, TypeOK, TimerType
<1>5. ASSUME NEW k \in Keys, CancelAll(k) PROVE TypeOK'
  <2>1. Matching(k) \in SUBSET Used(table)
    BY DEF Matching
  <2>. QED
    BY <1>5, <2>1, DeleteType DEF CancelAll, TypeOK, TimerType
<1>6. CASE TimeoutTake
  <2>1. pending' \in Nat
    BY <1>6 DEF TimeoutTake, TypeOK
  <2>2. CASE GetLatest(table, latest) = {} /\ failed' = "latest_index"
             /\ UNCHANGED <<table, latest, cb, cbMsg>>
    BY <1>6, <2>1, <2>2 DEF TimeoutTake, TypeOK
  <2>3. ASSUME NEW i \in GetLatest(table, latest),
               cbMsg' = {MsgAt(table, i)}, table' = Deinit(table, {i}),
               latest' = latest \ {i}, cb' = "post", UNCHANGED failed
        PROVE  TypeOK'
    <3>1. MsgAt(table, i) \in Msg
      BY EntryType DEF GetLatest, TypeOK
    <3>2. TableOK(table')
      BY <2>3, DeinitTable DEF TypeOK
    <3>. QED
      BY <1>6, <2>1, <2>3, <3>1, <3>2 DEF TimeoutTake, TypeOK
  <2>. QED
    BY <1>6, <2>2, <2>3 DEF TimeoutTake
<1>7. CASE TimeoutPost
  <2>1. PICK m \in cbMsg : MailboxPut(m)
    BY <1>7 DEF TimeoutPost
  <2>2. m \in Msg
    BY DEF TypeOK
  <2>. QED
    BY <1>7, <2>1, <2>2, MailboxPutType DEF TimeoutPost, TypeOK
<1>8. CASE TimeoutScan
  <2>1. TableOK(table')
    BY <1>8, DeinitTable DEF TimeoutScan, TypeOK
  <2>. QED
    BY <1>8, <2>1 DEF TimeoutScan, TypeOK
<1>9. CASE TimeoutRestart
  <2>1. latest' \in SUBSET Slot /\ timer' \in TimerType
    <3>1. CASE timer.running
      BY <1>9, <3>1 DEF TimeoutRestart, TypeOK, TimerType
    <3>2. CASE ~ timer.running
      BY <1>9, <3>2, TimerStartType DEF TimeoutRestart, TypeOK, TimerType
    <3>. QED
      BY <3>1, <3>2
  <2>. QED
    BY <1>9, <2>1 DEF TimeoutRestart, TypeOK, TimerType
<1>10. CASE MailboxGet
  BY <1>10 DEF MailboxGet, TypeOK
<1>11. CASE MailboxFree
  BY <1>11 DEF MailboxFree, TypeOK
<1>12. CASE UNCHANGED vars
  BY <1>12 DEF vars, TypeOK
<1>. QED
  BY <1>1, <1>2, <1>3, <1>4, <1>5, <1>6, <1>7, <1>8, <1>9, <1>10, <1>11, <1>12
  DEF Next

(* The variables keep their types, whatever the senders, the cancellers and *)
(* the two service threads do.                                              *)
THEOREM TypeCorrect == Spec => []TypeOK
<1>. QED
  BY InitType, NextType, PTL DEF Spec

-------------------------------------------------------------------------------
(* No stranded entry: NoStrandedEntry is inductive once the types are known, *)
(* because every step that leaves the timer stopped with entries in the      *)
(* table is the tick that queues a callback, or lies inside the callback.    *)

(* An empty table strands nothing. *)
LEMMA InitStranded == Init => NoStrandedEntry
BY DEF Init, NoStrandedEntry, Used

(* Deleting entries restarts the timer or leaves it as it was. *)
LEMMA DeleteStranded ==
  ASSUME TypeOK, NoStrandedEntry, NEW S, Delete(S), UNCHANGED <<pending, cb, failed>>
  PROVE  NoStrandedEntry'
<1>. DEFINE tab == Deinit(table, S)
<1>1. table' = tab /\ Used(tab) = Used(table) \ S
  BY DeinitTable DEF Delete, TypeOK
<1>2. CASE GetLatest(table, latest) \cap S # {}
  <2>1. TimerStart(tab, latest \ S, Stopped)
    BY <1>2 DEF Delete
  <2>2. Used(tab) # {} => timer'.running
    BY <2>1, TimerStartRuns
  <2>. QED
    BY <1>1, <2>2 DEF NoStrandedEntry, Used
<1>3. CASE GetLatest(table, latest) \cap S = {}
  <2>1. timer' = timer
    BY <1>3 DEF Delete
  <2>2. Used(table)' # {} => Used(table) # {}
    BY <1>1 DEF Used
  <2>. QED
    BY <2>1, <2>2 DEF NoStrandedEntry, Alive
<1>. QED
  BY <1>2, <1>3

(* No step stops the timer for good while the table holds an entry. *)
LEMMA NextStranded == TypeOK /\ NoStrandedEntry /\ [Next]_vars => NoStrandedEntry'
<1>. SUFFICES ASSUME TypeOK, NoStrandedEntry, [Next]_vars PROVE NoStrandedEntry'
  OBVIOUS
<1>1. CASE Tick
  <2>1. CASE timer' = Stopped /\ pending' = pending + 1
    BY <2>1 DEF NoStrandedEntry, TypeOK
  <2>2. CASE UNCHANGED <<timer, pending>>
    BY <1>1, <2>2 DEF Tick, NoStrandedEntry, Alive, Used
  <2>. QED
    BY <1>1, <2>1, <2>2 DEF Tick
<1>2. ASSUME NEW k \in Keys, MessageSend(k) PROVE NoStrandedEntry'
  BY <1>2 DEF MessageSend, MailboxPut, NoStrandedEntry, Alive, Used
<1>3. ASSUME NEW k \in Keys, NEW d \in 0 .. MaxDelay, SendLater(k, d)
      PROVE  NoStrandedEntry'
  <2>1. ASSUME NEW i \in Slot, DelayAdd(i, [key |-> k, seq |-> sent + 1], d)
        PROVE  timer'.running
    <3>. DEFINE tab == [table EXCEPT ![i] =
                          {[msg |-> [key |-> k, seq |-> sent + 1],
                            runTime |-> CurrentMs + d, wanted |-> now + d]}]
    <3>1. i \in Used(tab)
      BY DEF Used, TypeOK, TableOK
    <3>2. TimerStart(tab, latest, Stopped)
      BY <2>1 DEF DelayAdd
    <3>. HIDE DEF tab
    <3>. QED
      BY <3>1, <3>2, TimerStartRuns
  <2>2. CASE UNCHANGED <<table, latest, timer>>
    BY <1>3, <2>2 DEF SendLater, NoStrandedEntry, Alive, Used
  <2>. QED
    BY <1>3, <2>1, <2>2 DEF SendLater, NoStrandedEntry
<1>4. ASSUME NEW k \in Keys, CancelFirst(k) PROVE NoStrandedEntry'
  BY <1>4, DeleteStranded DEF CancelFirst
<1>5. ASSUME NEW k \in Keys, CancelAll(k) PROVE NoStrandedEntry'
  BY <1>5, DeleteStranded DEF CancelAll
<1>6. CASE TimeoutTake
  BY <1>6 DEF TimeoutTake, NoStrandedEntry, Alive
<1>7. CASE TimeoutPost
  BY <1>7 DEF TimeoutPost, NoStrandedEntry
<1>8. CASE TimeoutScan
  BY <1>8 DEF TimeoutScan, NoStrandedEntry
<1>9. CASE TimeoutRestart
  <2>1. CASE timer.running
    BY <1>9, <2>1 DEF TimeoutRestart, NoStrandedEntry
  <2>2. CASE ~ timer.running
    <3>1. Used(table) # {} => timer'.running
      BY <1>9, <2>2, TimerStartRuns DEF TimeoutRestart
    <3>. QED
      BY <1>9, <3>1 DEF TimeoutRestart, NoStrandedEntry, Used
  <2>. QED
    BY <2>1, <2>2
<1>10. CASE MailboxGet
  BY <1>10 DEF MailboxGet, NoStrandedEntry, Alive, Used
<1>11. CASE MailboxFree
  BY <1>11 DEF MailboxFree, NoStrandedEntry, Alive, Used
<1>12. CASE UNCHANGED vars
  BY <1>12 DEF vars, NoStrandedEntry, Alive, Used
<1>. QED
  BY <1>1, <1>2, <1>3, <1>4, <1>5, <1>6, <1>7, <1>8, <1>9, <1>10, <1>11, <1>12
  DEF Next

(* A delayed message always has a timer or a callback coming for it. *)
THEOREM NeverStranded == Spec => []NoStrandedEntry
<1>. QED
  BY InitStranded, NextStranded, TypeCorrect, PTL DEF Spec

-------------------------------------------------------------------------------
(* The flag names the earliest entry.  LatestOK is LatestIsEarliest of any   *)
(* table and flags; FlagOK is what timer_start needs of the old flags.       *)

FlagOK(tab, lat) == \A i \in lat : i \in Used(tab) /\ \A j \in lat : i = j

LatestOK(tab, lat) ==
  \A i \in lat : /\ i \in Used(tab)
                 /\ \A j \in lat : i = j
                 /\ \A j \in Used(tab) : RunTime(tab, i) <= RunTime(tab, j)

(* With at most one flag, get_latest returns it. *)
LEMMA GetLatestAll ==
  ASSUME NEW tab, NEW lat \in SUBSET Slot, FlagOK(tab, lat)
  PROVE  GetLatest(tab, lat) = lat
<1>1. \A i \in lat : i <= i
  BY ConstAssumption DEF Slot
<1>. QED
  BY <1>1 DEF GetLatest, FlagOK

(* timer_start moves the one flag to the earliest entry. *)
LEMMA TimerStartLatest ==
  ASSUME NEW tab, TableOK(tab), NEW lat \in SUBSET Slot, FlagOK(tab, lat), NEW t,
         TimerStart(tab, lat, t)
  PROVE  LatestOK(tab, latest')
<1>1. CASE Used(tab) = {} /\ latest' = lat /\ timer' = t
  BY <1>1 DEF LatestOK, FlagOK
<1>2. CASE \E i \in Slot : /\ IsEarliest(tab, Used(tab), i)
                           /\ latest' = (lat \ GetLatest(tab, lat)) \cup {i}
                           /\ timer' = [running |-> TRUE,
                                due |-> now + TimerDelay(RunTime(tab, i))]
  <2>1. PICK i \in Slot : /\ IsEarliest(tab, Used(tab), i)
                          /\ latest' = (lat \ GetLatest(tab, lat)) \cup {i}
    BY <1>2
  <2>2. latest' = {i}
    BY <2>1, GetLatestAll
  <2>3. \A j \in Used(tab) : RunTime(tab, j) \in Nat
    BY EntryType
  <2>4. \A j \in Used(tab) : RunTime(tab, i) <= RunTime(tab, j)
    BY <2>1, <2>3 DEF IsEarliest
  <2>. QED
    BY <2>1, <2>2, <2>4 DEF LatestOK, IsEarliest
<1>. QED
  BY <1>1, <1>2 DEF TimerStart

(* Clearing entries and flags, or only entries without a flag. *)
LEMMA DeinitLatest ==
  ASSUME NEW tab, TableOK(tab), NEW lat \in SUBSET Slot, LatestOK(tab, lat), NEW S
  PROVE  /\ LatestOK(Deinit(tab, S), lat \ S)
         /\ FlagOK(Deinit(tab, S), lat \ S)
<1>1. /\ Used(Deinit(tab, S)) = Used(tab) \ S
      /\ \A i \in Used(tab) \ S : Deinit(tab, S)[i] = tab[i]
  BY DeinitTable
<1>2. \A i \in Used(tab) \ S : RunTime(Deinit(tab, S), i) = RunTime(tab, i)
  BY <1>1 DEF RunTime, EntryAt
<1>. QED
  BY <1>1, <1>2 DEF LatestOK, FlagOK

(* Deleting entries moves the flag to the earliest of those that stay. *)
LEMMA DeleteLatest ==
  ASSUME TypeOK, LatestIsEarliest, NEW S, Delete(S)
  PROVE  LatestIsEarliest'
<1>. DEFINE tab == Deinit(table, S)
<1>1. /\ TableOK(table) /\ TableOK(tab) /\ table' = tab
      /\ latest \in SUBSET Slot /\ LatestOK(table, latest)
  BY DeinitTable DEF Delete, TypeOK, LatestIsEarliest, LatestOK
<1>2. LatestOK(tab, latest \ S) /\ FlagOK(tab, latest \ S)
  BY <1>1, DeinitLatest
<1>3. GetLatest(table, latest) = latest
  BY <1>1, GetLatestAll DEF LatestOK, FlagOK
<1>4. LatestOK(tab, latest')
  <2>1. CASE latest \cap S # {}
    <3>1. TimerStart(tab, latest \ S, Stopped)
      BY <1>3, <2>1 DEF Delete
    <3>2. latest \ S \in SUBSET Slot
      BY <1>1
    <3>. HIDE DEF tab
    <3>. QED
      BY <1>1, <1>2, <3>1, <3>2, TimerStartLatest
  <2>2. CASE latest \cap S = {}
    <3>1. latest' = latest /\ latest = latest \ S
      BY <1>3, <2>2 DEF Delete
    <3>. QED
      BY <1>2, <3>1
  <2>. QED
    BY <2>1, <2>2
<1>. QED
  BY <1>1, <1>4 DEF LatestIsEarliest, LatestOK, Used, RunTime, EntryAt

(* Every step keeps the flag on the earliest entry, or on none. *)
LEMMA NextLatest == TypeOK /\ LatestIsEarliest /\ [Next]_vars => LatestIsEarliest'
<1>. SUFFICES ASSUME TypeOK, LatestIsEarliest, [Next]_vars PROVE LatestIsEarliest'
  OBVIOUS
<1>0. /\ TableOK(table) /\ latest \in SUBSET Slot
      /\ LatestOK(table, latest) /\ FlagOK(table, latest)
  BY DEF TypeOK, LatestIsEarliest, LatestOK, FlagOK
<1>a. ASSUME LatestOK(table', latest') PROVE LatestIsEarliest'
  BY <1>a DEF LatestIsEarliest, LatestOK, Used, RunTime, EntryAt
<1>b. ASSUME UNCHANGED <<table, latest>> PROVE LatestIsEarliest'
  BY <1>0, <1>a, <1>b
<1>1. CASE Tick
  BY <1>1, <1>b DEF Tick
<1>2. ASSUME NEW k \in Keys, MessageSend(k) PROVE LatestIsEarliest'
  BY <1>2, <1>b DEF MessageSend
<1>3. ASSUME NEW k \in Keys, NEW d \in 0 .. MaxDelay, SendLater(k, d)
      PROVE  LatestIsEarliest'
  <2>. DEFINE m == [key |-> k, seq |-> sent + 1]
              e == [msg |-> m, runTime |-> CurrentMs + d, wanted |-> now + d]
  <2>1. ASSUME NEW i \in Slot \ Used(table), DelayAdd(i, m, d), sent < MaxSends
        PROVE  LatestIsEarliest'
    <3>. DEFINE tab == [table EXCEPT ![i] = {e}]
    <3>1. m \in Msg
      BY <2>1, ConstAssumption DEF Msg, TypeOK
    <3>2. e \in Entry
      BY <3>1, CurrentMsNat, ConstAssumption DEF Entry, TypeOK
    <3>. HIDE DEF e
    <3>3. TableOK(tab) /\ Used(table) \subseteq Used(tab)
      BY <1>0, <3>2 DEF TableOK, Used
    <3>4. FlagOK(tab, latest)
      BY <1>0, <3>3 DEF FlagOK
    <3>5. table' = tab /\ TimerStart(tab, latest, Stopped)
      BY <2>1 DEF DelayAdd, e
    <3>. HIDE DEF tab
    <3>. QED
      BY <1>0, <1>a, <3>3, <3>4, <3>5, TimerStartLatest
  <2>. QED
    BY <1>3, <1>b, <2>1 DEF SendLater
<1>4. ASSUME NEW k \in Keys, CancelFirst(k) PROVE LatestIsEarliest'
  BY <1>4, DeleteLatest DEF CancelFirst
<1>5. ASSUME NEW k \in Keys, CancelAll(k) PROVE LatestIsEarliest'
  BY <1>5, DeleteLatest DEF CancelAll
<1>6. CASE TimeoutTake
  <2>1. ASSUME NEW i, table' = Deinit(table, {i}), latest' = latest \ {i}
        PROVE  LatestIsEarliest'
    BY <1>0, <1>a, <2>1, DeinitLatest
  <2>. QED
    BY <1>6, <1>b, <2>1 DEF TimeoutTake
<1>7. CASE TimeoutPost
  BY <1>7, <1>b DEF TimeoutPost
<1>8. CASE TimeoutScan
  <2>. DEFINE due == {i \in Used(table) : RunTime(table, i) <= CurrentMs}
  <2>1. table' = Deinit(table, due) /\ latest' = latest \ due
    BY <1>8 DEF TimeoutScan
  <2>. HIDE DEF due
  <2>. QED
    BY <1>0, <1>a, <2>1, DeinitLatest
<1>9. CASE TimeoutRestart
  <2>1. CASE timer.running
    BY <1>9, <1>b, <2>1 DEF TimeoutRestart
  <2>2. CASE ~ timer.running
    <3>1. TimerStart(table, latest, timer) /\ table' = table
      BY <1>9, <2>2 DEF TimeoutRestart
    <3>2. LatestOK(table, latest')
      BY <1>0, <3>1, TimerStartLatest
    <3>. QED
      BY <1>a, <3>1, <3>2
  <2>. QED
    BY <2>1, <2>2
<1>10. CASE MailboxGet
  BY <1>10, <1>b DEF MailboxGet
<1>11. CASE MailboxFree
  BY <1>11, <1>b DEF MailboxFree
<1>12. CASE UNCHANGED vars
  BY <1>12, <1>b DEF vars
<1>. QED
  BY <1>1, <1>2, <1>3, <1>4, <1>5, <1>6, <1>7, <1>8, <1>9, <1>10, <1>11, <1>12
  DEF Next

(* There is at most one flag, it is on a used slot, and no entry is due     *)
(* before the flagged one.                                                  *)
THEOREM FlagOnEarliest == Spec => []LatestIsEarliest
<1>1. Init => LatestIsEarliest
  BY DEF Init, LatestIsEarliest
<1>. QED
  BY <1>1, NextLatest, TypeCorrect, PTL DEF Spec

-------------------------------------------------------------------------------
(* The service.  Two facts tie the callback and the table to it: a message   *)
(* is taken out only between the callback's first two sections, and no two   *)
(* slots hold messages of one send call, so that freeing a slot takes one    *)
(* message from those that wait.                                             *)

CallbackPhase == cb # "post" => cbMsg = {}

SeqAt(tab, i) == MsgAt(tab, i).seq

SeqsDiffer(tab, n) ==
  /\ \A i \in Used(tab) : SeqAt(tab, i) <= n
  /\ \A i, j \in Used(tab) : SeqAt(tab, i) = SeqAt(tab, j) => i = j

ServiceInv == CallbackPhase /\ SeqsDiffer(table, sent)

(* The messages a table holds *)
Waiting(tab) == {MsgAt(tab, i) : i \in Used(tab)}

(* Freeing slots leaves the messages of the others. *)
LEMMA DeinitSeqs ==
  ASSUME NEW tab, TableOK(tab), NEW S, NEW n, SeqsDiffer(tab, n)
  PROVE  SeqsDiffer(Deinit(tab, S), n)
<1>. DEFINE d == Deinit(tab, S)
<1>1. Used(d) = Used(tab) \ S /\ \A i \in Used(d) : d[i] = tab[i]
  BY DeinitTable
<1>2. \A i \in Used(d) : i \in Used(tab) /\ SeqAt(d, i) = SeqAt(tab, i)
  BY <1>1 DEF SeqAt, MsgAt, EntryAt
<1>. HIDE DEF d
<1>3. SeqsDiffer(d, n)
  BY <1>2 DEF SeqsDiffer
<1>. QED
  BY <1>3 DEF d

(* Freeing slots takes their messages from those that wait. *)
LEMMA DeinitWaiting ==
  ASSUME NEW tab, TableOK(tab), NEW S
  PROVE  Waiting(Deinit(tab, S)) = {MsgAt(tab, i) : i \in Used(tab) \ S}
<1>. DEFINE d == Deinit(tab, S)
<1>1. Used(d) = Used(tab) \ S /\ \A i \in Used(d) : d[i] = tab[i]
  BY DeinitTable
<1>2. \A i \in Used(d) : MsgAt(d, i) = MsgAt(tab, i)
  BY <1>1 DEF MsgAt, EntryAt
<1>. HIDE DEF d
<1>3. Waiting(d) = {MsgAt(tab, i) : i \in Used(tab) \ S}
  BY <1>1, <1>2 DEF Waiting
<1>. QED
  BY <1>3 DEF d

(* stdf_os_delay_msg_add fills one slot and leaves the others. *)
LEMMA DelayAddWaiting ==
  ASSUME TypeOK, NEW i \in Slot, table[i] = {}, NEW m \in Msg, NEW d \in 0 .. MaxDelay,
         DelayAdd(i, m, d)
  PROVE  /\ Used(table') = Used(table) \cup {i}
         /\ MsgAt(table', i) = m
         /\ \A j \in Used(table) : j # i /\ MsgAt(table', j) = MsgAt(table, j)
<1>. DEFINE e == [msg |-> m, runTime |-> CurrentMs + d, wanted |-> now + d]
<1>1. table' = [table EXCEPT ![i] = {e}]
  BY DEF DelayAdd
<1>2. table'[i] = {e} /\ \A j \in Slot \ {i} : table'[j] = table[j]
  BY <1>1 DEF TypeOK, TableOK
<1>3. Used(table') = Used(table) \cup {i}
  BY <1>2 DEF Used
<1>4. EntryAt(table', i) = e
  BY <1>2 DEF EntryAt
<1>5. MsgAt(table', i) = m
  BY <1>4 DEF MsgAt
<1>6. \A j \in Used(table) : j \in Slot \ {i}
  BY DEF Used
<1>. QED
  BY <1>2, <1>3, <1>5, <1>6 DEF MsgAt, EntryAt

(* Every step preserves the two facts. *)
LEMMA NextServiceInv == TypeOK /\ ServiceInv /\ [Next]_vars => ServiceInv'
<1>. SUFFICES ASSUME TypeOK, ServiceInv, [Next]_vars PROVE ServiceInv'
  OBVIOUS
<1>1. CASE UNCHANGED <<table, sent, cb, cbMsg>>
  BY <1>1 DEF ServiceInv, CallbackPhase, SeqsDiffer, SeqAt, Used, MsgAt, EntryAt
<1>2. ASSUME NEW S, table' = Deinit(table, S), sent' = sent PROVE SeqsDiffer(table, sent)'
  <2>1. SeqsDiffer(Deinit(table, S), sent)
    BY DeinitSeqs DEF TypeOK, ServiceInv
  <2>. QED
    BY <1>2, <2>1
<1>3. ASSUME NEW k \in Keys, MessageSend(k) PROVE ServiceInv'
  <2>1. \A i \in Used(table) : SeqAt(table, i) \in Nat
    BY EntryType DEF TypeOK, SeqAt, Msg
  <2>2. sent' = sent + 1 /\ sent \in Nat /\ UNCHANGED <<table, cb, cbMsg>>
    BY <1>3, ConstAssumption DEF MessageSend, TypeOK
  <2>3. SeqsDiffer(table, sent + 1)
    BY <2>1, <2>2 DEF SeqsDiffer, ServiceInv
  <2>. QED
    BY <2>2, <2>3 DEF ServiceInv, CallbackPhase
<1>4. ASSUME NEW k \in Keys, NEW d \in 0 .. MaxDelay, SendLater(k, d) PROVE ServiceInv'
  <2>. DEFINE m == [key |-> k, seq |-> sent + 1]
  <2>1. /\ sent' = sent + 1 /\ sent \in Nat /\ UNCHANGED <<cb, cbMsg>>
        /\ m \in Msg /\ m.seq = sent + 1
    BY <1>4, ConstAssumption DEF SendLater, TypeOK, Msg
  <2>2. \A i \in Used(table) : SeqAt(table, i) \in Nat /\ SeqAt(table, i) <= sent
    BY EntryType DEF TypeOK, SeqAt, Msg, ServiceInv, SeqsDiffer
  <2>. HIDE DEF m
  <2>3. CASE UNCHANGED table
    <3>1. SeqsDiffer(table, sent + 1)
      BY <2>1, <2>2 DEF SeqsDiffer, ServiceInv
    <3>. QED
      BY <2>1, <2>3, <3>1 DEF ServiceInv, CallbackPhase
  <2>4. ASSUME NEW i \in Slot \ Used(table), DelayAdd(i, m, d) PROVE ServiceInv'
    <3>1. table[i] = {}
      BY DEF Used
    <3>2. /\ Used(table') = Used(table) \cup {i}
          /\ MsgAt(table', i) = m
          /\ \A j \in Used(table) : j # i /\ MsgAt(table', j) = MsgAt(table, j)
      BY <2>1, <2>4, <3>1, DelayAddWaiting
    <3>3. /\ SeqAt(table', i) = sent + 1
          /\ \A j \in Used(table) : SeqAt(table', j) = SeqAt(table, j)
      BY <2>1, <3>2 DEF SeqAt
    <3>4. SeqsDiffer(table', sent')
      BY <2>1, <2>2, <3>2, <3>3 DEF SeqsDiffer, ServiceInv
    <3>. QED
      BY <2>1, <3>4 DEF ServiceInv, CallbackPhase
  <2>. QED
    BY <1>4, <2>3, <2>4 DEF SendLater, m
<1>5. ASSUME NEW k \in Keys, CancelFirst(k) \/ CancelAll(k) PROVE ServiceInv'
  <2>1. PICK S : Delete(S)
    BY <1>5 DEF CancelFirst, CancelAll
  <2>2. sent' = sent /\ UNCHANGED <<cb, cbMsg>>
    BY <1>5 DEF CancelFirst, CancelAll
  <2>3. table' = Deinit(table, S)
    BY <2>1 DEF Delete
  <2>4. SeqsDiffer(table, sent)'
    BY <1>2, <2>2, <2>3
  <2>. QED
    BY <2>2, <2>4 DEF ServiceInv, CallbackPhase
<1>6. CASE TimeoutTake
  <2>1. CASE UNCHANGED <<table, latest, cb, cbMsg>>
    BY <1>1, <1>6, <2>1 DEF TimeoutTake
  <2>2. ASSUME NEW i, table' = Deinit(table, {i}), cb' = "post" PROVE ServiceInv'
    <3>1. SeqsDiffer(table, sent)'
      BY <1>2, <1>6, <2>2 DEF TimeoutTake
    <3>. QED
      BY <2>2, <3>1 DEF ServiceInv, CallbackPhase
  <2>. QED
    BY <1>6, <2>1, <2>2 DEF TimeoutTake
<1>7. CASE TimeoutPost
  <2>1. cbMsg' = {} /\ UNCHANGED <<table, sent>>
    BY <1>7 DEF TimeoutPost
  <2>. QED
    BY <2>1 DEF ServiceInv, CallbackPhase, SeqsDiffer, SeqAt, Used, MsgAt, EntryAt
<1>8. CASE TimeoutScan
  <2>1. PICK S : table' = Deinit(table, S)
    BY <1>8 DEF TimeoutScan
  <2>2. cb = "scan" /\ cb' = "restart" /\ cbMsg' = cbMsg /\ sent' = sent
    BY <1>8 DEF TimeoutScan
  <2>3. SeqsDiffer(table, sent)'
    BY <1>2, <2>1, <2>2
  <2>. QED
    BY <2>2, <2>3 DEF ServiceInv, CallbackPhase
<1>9. CASE TimeoutRestart
  <2>1. cb = "restart" /\ cbMsg' = cbMsg /\ UNCHANGED <<table, sent>>
    BY <1>9 DEF TimeoutRestart
  <2>. QED
    BY <2>1 DEF ServiceInv, CallbackPhase, SeqsDiffer, SeqAt, Used, MsgAt, EntryAt
<1>10. CASE Tick \/ MailboxGet \/ MailboxFree \/ UNCHANGED vars
  BY <1>1, <1>10 DEF Tick, MailboxGet, MailboxFree, vars
<1>. QED
  BY <1>3, <1>4, <1>5, <1>6, <1>7, <1>8, <1>9, <1>10 DEF Next

(* Both facts hold in every reachable state. *)
LEMMA ServiceInvariant == Spec => []ServiceInv
<1>1. Init => ServiceInv
  BY DEF Init, ServiceInv, CallbackPhase, SeqsDiffer, Used
<1>. QED
  BY <1>1, NextServiceInv, TypeCorrect, PTL DEF Spec

(* The service starts with nothing sent. *)
LEMMA ServiceInit == Init => Service!Init
BY DEF Init, Service!Init, Used, Alive

(* mailbox_put posts the message or ends the service. *)
LEMMA PutIsEnqueue ==
  ASSUME Alive, NEW m, MailboxPut(m)
  PROVE  Service!Enqueue(m) \/ Service!Fail
BY DEF Alive, MailboxPut, Service!Enqueue, Service!Fail

(* Freeing one slot takes its message, and no other, from those that wait. *)
LEMMA FreeOne ==
  ASSUME TypeOK, ServiceInv, NEW i \in Used(table), table' = Deinit(table, {i})
  PROVE  /\ MsgAt(table, i) \in Waiting(table)
         /\ Waiting(table') = Waiting(table) \ {MsgAt(table, i)}
<1>1. Waiting(table') = {MsgAt(table, j) : j \in Used(table) \ {i}}
  BY DeinitWaiting DEF TypeOK
<1>2. \A j \in Used(table) : MsgAt(table, j) = MsgAt(table, i) => j = i
  BY DEF ServiceInv, SeqsDiffer, SeqAt
<1>. QED
  BY <1>1, <1>2 DEF Waiting

(* Every step is one of the service's or none. *)
LEMMA ServiceNext ==
  ASSUME TypeOK, ServiceInv, Next
  PROVE  Service!Next \/ UNCHANGED Service!vars
<1>. DEFINE W == Waiting(table)
<1>1. CASE Tick \/ TimeoutRestart
  <2>1. /\ UNCHANGED <<table, cbMsg, mail, handling, failed, sent>>
        /\ (cb' = "scan") = (cb = "scan")
    BY <1>1 DEF Tick, TimeoutRestart
  <2>. QED
    BY <2>1 DEF Service!vars, Alive, Used, MsgAt, EntryAt
<1>2. ASSUME NEW k \in Keys, MessageSend(k) PROVE Service!Next
  <2>1. Service!Enqueue(Service!Fresh(k)) \/ Service!Fail
    BY <1>2, PutIsEnqueue DEF MessageSend, Service!Fresh
  <2>2. Service!Send(k)
    BY <1>2, <2>1 DEF MessageSend, Service!Send, Used, MsgAt, EntryAt
  <2>. QED
    BY <2>2 DEF Service!Next
<1>3. ASSUME NEW k \in Keys, NEW d \in 0 .. MaxDelay, SendLater(k, d) PROVE Service!Next
  <2>. DEFINE m == [key |-> k, seq |-> sent + 1]
  <2>1. /\ Alive /\ sent < MaxSends /\ sent' = sent + 1
        /\ UNCHANGED <<cb, cbMsg, mail, handling, failed>>
        /\ m \in Msg
    BY <1>3, ConstAssumption DEF SendLater, Msg, TypeOK
  <2>2. Waiting(table') \in {W, W \cup {m}}
    <3>1. CASE UNCHANGED table
      BY <3>1
    <3>2. ASSUME NEW i \in Slot \ Used(table), DelayAdd(i, m, d)
          PROVE  Waiting(table') = W \cup {m}
      <4>1. table[i] = {}
        BY DEF Used
      <4>. HIDE DEF m
      <4>2. /\ Used(table') = Used(table) \cup {i}
            /\ MsgAt(table', i) = m
            /\ \A j \in Used(table) : j # i /\ MsgAt(table', j) = MsgAt(table, j)
        BY <2>1, <3>2, <4>1, DelayAddWaiting
      <4>. QED
        BY <4>2 DEF Waiting
    <3>. QED
      BY <1>3, <3>1, <3>2 DEF SendLater
  <2>3. Service!SendLater(k)
    BY <2>1, <2>2 DEF Service!SendLater, Service!Fresh, Waiting, Alive
  <2>. QED
    BY <2>3 DEF Service!Next
<1>4. ASSUME NEW k \in Keys, CancelFirst(k) PROVE Service!Next
  <2>1. PICK i \in Matching(k) : table' = Deinit(table, {i})
    BY <1>4 DEF CancelFirst, Delete, IsEarliest
  <2>2. i \in Used(table) /\ MsgAt(table, i).key = k
    BY <2>1 DEF Matching
  <2>3. MsgAt(table, i) \in W /\ Waiting(table') = W \ {MsgAt(table, i)}
    BY <2>1, <2>2, FreeOne
  <2>4. /\ Alive /\ UNCHANGED <<cb, cbMsg, mail, handling, failed, sent>>
    BY <1>4 DEF CancelFirst
  <2>5. Service!CancelFirst(k)
    BY <2>2, <2>3, <2>4 DEF Service!CancelFirst, Service!WithKey, Waiting, Alive
  <2>. QED
    BY <2>5 DEF Service!Next
<1>5. ASSUME NEW k \in Keys, CancelAll(k) PROVE Service!Next
  <2>1. table' = Deinit(table, Matching(k))
    BY <1>5 DEF CancelAll, Delete
  <2>2. Waiting(table') = {MsgAt(table, i) : i \in Used(table) \ Matching(k)}
    BY <2>1, DeinitWaiting DEF TypeOK
  <2>3. Waiting(table') = W \ {m \in W : m.key = k}
    BY <2>2 DEF Waiting, Matching
  <2>4. /\ Alive /\ UNCHANGED <<cb, cbMsg, mail, handling, failed, sent>>
    BY <1>5 DEF CancelAll
  <2>5. Service!CancelAll(k)
    BY <2>3, <2>4 DEF Service!CancelAll, Service!WithKey, Waiting, Alive
  <2>. QED
    BY <2>5 DEF Service!Next
<1>6. CASE TimeoutTake
  <2>1. Alive /\ cb = "idle" /\ cbMsg = {} /\ UNCHANGED <<mail, handling, sent>>
    BY <1>6 DEF TimeoutTake, ServiceInv, CallbackPhase
  <2>2. CASE failed' = "latest_index" /\ UNCHANGED <<table, latest, cb, cbMsg>>
    <3>1. Service!Trip
      BY <2>1, <2>2 DEF Service!Trip, Alive, Used, MsgAt, EntryAt
    <3>. QED
      BY <3>1 DEF Service!Next
  <2>3. ASSUME NEW i \in GetLatest(table, latest), cbMsg' = {MsgAt(table, i)},
               table' = Deinit(table, {i}), cb' = "post", UNCHANGED failed
        PROVE  Service!Next
    <3>1. i \in Used(table)
      BY DEF GetLatest
    <3>2. MsgAt(table, i) \in W /\ Waiting(table') = W \ {MsgAt(table, i)}
      BY <2>3, <3>1, FreeOne
    <3>3. Service!Expire
      BY <2>1, <2>3, <3>2 DEF Service!Expire, Waiting, Alive
    <3>. QED
      BY <3>3 DEF Service!Next
  <2>. QED
    BY <1>6, <2>2, <2>3 DEF TimeoutTake
<1>7. CASE TimeoutPost
  <2>1. \E m \in cbMsg : Service!Enqueue(m) \/ Service!Fail
    BY <1>7, PutIsEnqueue DEF TimeoutPost
  <2>2. Service!Post
    BY <1>7, <2>1 DEF TimeoutPost, Service!Post, Used, MsgAt, EntryAt
  <2>. QED
    BY <2>2 DEF Service!Next
<1>8. CASE TimeoutScan
  <2>1. PICK S : table' = Deinit(table, S)
    BY <1>8 DEF TimeoutScan
  <2>2. Waiting(table') = {MsgAt(table, i) : i \in Used(table) \ S}
    BY <2>1, DeinitWaiting DEF TypeOK
  <2>3. Waiting(table') \in SUBSET W
    BY <2>2 DEF Waiting
  <2>4. /\ Alive /\ cb = "scan" /\ cb' = "restart"
        /\ UNCHANGED <<cbMsg, mail, handling, failed, sent>>
    BY <1>8 DEF TimeoutScan
  <2>5. Service!Sweep
    BY <2>3, <2>4 DEF Service!Sweep, Waiting, Alive
  <2>. QED
    BY <2>5 DEF Service!Next
<1>9. CASE MailboxGet
  <2>1. Service!Take
    BY <1>9 DEF MailboxGet, Service!Take, Used, MsgAt, EntryAt, Alive
  <2>. QED
    BY <2>1 DEF Service!Next
<1>10. CASE MailboxFree
  <2>1. Service!Return
    BY <1>10 DEF MailboxFree, Service!Return, Used, MsgAt, EntryAt, Alive
  <2>. QED
    BY <2>1 DEF Service!Next
<1>. QED
  BY <1>1, <1>2, <1>3, <1>4, <1>5, <1>6, <1>7, <1>8, <1>9, <1>10 DEF Next

(* For every number of slots, mails and messages: the table, the flags, the *)
(* timer and the callback's three sections implement the message service.   *)
THEOREM Implements == Spec => ImplementsService
<1>1. TypeOK /\ ServiceInv /\ [Next]_vars => [Service!Next]_(Service!vars)
  <2>. SUFFICES ASSUME TypeOK, ServiceInv, [Next]_vars
                PROVE  [Service!Next]_(Service!vars)
    OBVIOUS
  <2>1. CASE UNCHANGED vars
    BY <2>1 DEF vars, Service!vars, Used, MsgAt, EntryAt, Alive
  <2>. QED
    BY <2>1, ServiceNext
<1>. QED
  BY <1>1, ServiceInit, TypeCorrect, ServiceInvariant, PTL
  DEF Spec, Service!Spec, ImplementsService

-------------------------------------------------------------------------------
(* Where a message is, and when the timer fires *)

(* The messages in each of the four places, and those still open, by number *)
TableSeqs(tab) == SeqsAt(tab, Used(tab))
Seqs(S) == {m.seq : m \in S}
MailSeqs(q) == {q[i].seq : i \in 1 .. Len(q)}
Open(n, out) == {k \in 1 .. n : out[k] = "open"}

Apart(T, C, M, H) ==
  /\ T \cap C = {} /\ T \cap M = {} /\ T \cap H = {}
  /\ C \cap M = {} /\ C \cap H = {} /\ M \cap H = {}

Distinct(q) == \A i, j \in 1 .. Len(q) : q[i].seq = q[j].seq => i = j

AtMostOne(S) == \A x, y \in S : x = y

(* Every open message is in one of the four places, and the places share    *)
(* none; a message not sent yet has no outcome.                             *)
Placed(T, C, M, H, O) == Apart(T, C, M, H) /\ T \cup C \cup M \cup H = O

Singles == Distinct(mail) /\ AtMostOne(cbMsg) /\ AtMostOne(handling)

Unsent(n, out) == \A k \in 1 .. MaxSends : k > n => out[k] = "open"

PlaceInv ==
  Alive => /\ Placed(TableSeqs(table), Seqs(cbMsg), MailSeqs(mail), Seqs(handling),
                     Open(sent, outcome))
           /\ Singles
           /\ Unsent(sent, outcome)

(* Freeing slots takes the numbers of their messages out of the table. *)
LEMMA FreedSeqs ==
  ASSUME TypeOK, ServiceInv, NEW S \in SUBSET Used(table), table' = Deinit(table, S)
  PROVE  /\ SeqsAt(table, S) \subseteq TableSeqs(table)
         /\ TableSeqs(table') = TableSeqs(table) \ SeqsAt(table, S)
<1>1. Used(table') = Used(table) \ S /\ \A i \in Used(table') : table'[i] = table[i]
  BY DeinitTable DEF TypeOK
<1>2. \A i \in Used(table') : MsgAt(table', i) = MsgAt(table, i)
  BY <1>1 DEF MsgAt, EntryAt
<1>3. \A i, j \in Used(table) : MsgAt(table, i).seq = MsgAt(table, j).seq => i = j
  BY DEF ServiceInv, SeqsDiffer, SeqAt
<1>. QED
  BY <1>1, <1>2, <1>3 DEF TableSeqs, SeqsAt

(* A new mail adds its number to the queue. *)
LEMMA AppendSeqs ==
  ASSUME NEW q \in Seq(Msg), NEW m \in Msg
  PROVE  /\ MailSeqs(Append(q, m)) = MailSeqs(q) \cup {m.seq}
         /\ Distinct(q) /\ m.seq \notin MailSeqs(q) => Distinct(Append(q, m))
<1>1. /\ Len(q) \in Nat /\ Len(Append(q, m)) = Len(q) + 1
      /\ Append(q, m)[Len(q) + 1] = m
      /\ \A i \in 1 .. Len(q) : Append(q, m)[i] = q[i]
  OBVIOUS
<1>2. 1 .. Len(q) + 1 = (1 .. Len(q)) \cup {Len(q) + 1}
  BY <1>1
<1>3. MailSeqs(Append(q, m)) = MailSeqs(q) \cup {m.seq}
  BY <1>1, <1>2 DEF MailSeqs
<1>4. ASSUME Distinct(q), m.seq \notin MailSeqs(q) PROVE Distinct(Append(q, m))
  <2>1. \A i \in 1 .. Len(q) : q[i].seq # m.seq
    BY <1>4 DEF MailSeqs
  <2>. QED
    BY <1>1, <1>2, <1>4, <2>1 DEF Distinct
<1>. QED
  BY <1>3, <1>4

(* Taking the first mail removes its number from the queue. *)
LEMMA HeadSeqs ==
  ASSUME NEW q \in Seq(Msg), q # <<>>, Distinct(q)
  PROVE  /\ Head(q).seq \in MailSeqs(q)
         /\ MailSeqs(Tail(q)) = MailSeqs(q) \ {Head(q).seq}
         /\ Distinct(Tail(q))
<1>1. /\ Len(q) \in Nat /\ Len(q) >= 1 /\ Head(q) = q[1]
      /\ Len(Tail(q)) = Len(q) - 1
      /\ \A i \in 1 .. Len(Tail(q)) : Tail(q)[i] = q[i + 1]
  BY EmptySeq, LenProperties, HeadTailProperties
<1>2. \A i \in 1 .. Len(q) : i = 1 \/ (i - 1 \in 1 .. Len(Tail(q)) /\ Tail(q)[i - 1] = q[i])
  BY <1>1
<1>3. \A i \in 1 .. Len(Tail(q)) : i + 1 \in 1 .. Len(q) /\ i + 1 # 1
  BY <1>1
<1>4. Head(q).seq \in MailSeqs(q)
  BY <1>1 DEF MailSeqs
<1>5. MailSeqs(Tail(q)) = MailSeqs(q) \ {Head(q).seq}
  <2>1. ASSUME NEW n \in MailSeqs(Tail(q)) PROVE n \in MailSeqs(q) \ {Head(q).seq}
    <3>1. PICK i \in 1 .. Len(Tail(q)) : n = Tail(q)[i].seq
      BY DEF MailSeqs
    <3>2. n = q[i + 1].seq
      BY <1>1, <3>1
    <3>3. 1 \in 1 .. Len(q)
      BY <1>1
    <3>. QED
      BY <1>1, <1>3, <3>2, <3>3 DEF MailSeqs, Distinct
  <2>2. ASSUME NEW n \in MailSeqs(q), n # Head(q).seq PROVE n \in MailSeqs(Tail(q))
    <3>1. PICK i \in 1 .. Len(q) : n = q[i].seq
      BY DEF MailSeqs
    <3>2. i # 1
      BY <1>1, <2>2, <3>1
    <3>. QED
      BY <1>2, <3>1, <3>2 DEF MailSeqs
  <2>. QED
    BY <2>1, <2>2
<1>6. Distinct(Tail(q))
  <2>1. SUFFICES ASSUME NEW i \in 1 .. Len(Tail(q)), NEW j \in 1 .. Len(Tail(q)),
                        Tail(q)[i].seq = Tail(q)[j].seq
                 PROVE  i = j
    BY DEF Distinct
  <2>2. q[i + 1].seq = q[j + 1].seq
    BY <1>1, <2>1
  <2>3. i + 1 = j + 1
    BY <1>3, <2>2 DEF Distinct
  <2>. QED
    BY <2>3
<1>. QED
  BY <1>4, <1>5, <1>6

(* mailbox_put queues a message that was nowhere in the queue, or ends it all. *)
LEMMA PutSeqs ==
  ASSUME TypeOK, NEW m \in Msg, MailboxPut(m), Alive', Distinct(mail),
         m.seq \notin MailSeqs(mail)
  PROVE  MailSeqs(mail') = MailSeqs(mail) \cup {m.seq} /\ Distinct(mail')
<1>1. mail \in Seq(Msg)
  BY DEF TypeOK
<1>2. mail' = Append(mail, m)
  BY DEF MailboxPut, Alive
<1>. QED
  BY <1>1, <1>2, AppendSeqs

(* The outcomes once the messages D have met one *)
Closed(out, D, what) == [n \in 1 .. MaxSends |-> IF n \in D THEN what ELSE out[n]]

(* Messages that meet their outcome are no longer open. *)
LEMMA ClosedSeqs ==
  ASSUME NEW out, NEW D, NEW s \in 0 .. MaxSends, NEW what, what # "open"
  PROVE  /\ Open(s, Closed(out, D, what)) = Open(s, out) \ D
         /\ D \subseteq 1 .. s /\ Unsent(s, out) => Unsent(s, Closed(out, D, what))
<1>1. s \in Nat /\ MaxSends \in Nat /\ s <= MaxSends
  BY ConstAssumption
<1>2. \A n \in 1 .. s : n \in 1 .. MaxSends
  BY <1>1
<1>3. Open(s, Closed(out, D, what)) = Open(s, out) \ D
  BY <1>2 DEF Open, Closed
<1>4. ASSUME D \subseteq 1 .. s, Unsent(s, out) PROVE Unsent(s, Closed(out, D, what))
  BY <1>1, <1>4 DEF Unsent, Closed
<1>. QED
  BY <1>3, <1>4

(* One more send call opens one more message, unless it is refused. *)
LEMMA OneMore ==
  ASSUME TypeOK, sent < MaxSends, Unsent(sent, outcome)
  PROVE  /\ sent + 1 \notin Open(sent, outcome)
         /\ Open(sent + 1, outcome) = Open(sent, outcome) \cup {sent + 1}
         /\ Unsent(sent + 1, outcome)
         /\ LET out == [outcome EXCEPT ![sent + 1] = "refused"]
            IN  /\ Open(sent + 1, out) = Open(sent, outcome)
                /\ Unsent(sent + 1, out)
<1>1. /\ sent \in Nat /\ MaxSends \in Nat /\ sent + 1 \in 1 .. MaxSends
      /\ outcome \in [1 .. MaxSends -> {"open", "handled", "cancelled", "refused", "discarded"}]
  BY ConstAssumption DEF TypeOK
<1>2. 1 .. sent + 1 = (1 .. sent) \cup {sent + 1} /\ sent + 1 \notin 1 .. sent
  BY <1>1
<1>3. outcome[sent + 1] = "open"
  BY <1>1 DEF Unsent
<1>4. \A k \in 1 .. MaxSends : k > sent + 1 => k > sent /\ k # sent + 1
  BY <1>1
<1>5. \A k \in 1 .. sent : k \in 1 .. MaxSends /\ k # sent + 1
  BY <1>1
<1>6. Open(sent + 1, [outcome EXCEPT ![sent + 1] = "refused"]) = Open(sent, outcome)
  BY <1>1, <1>2, <1>5 DEF Open
<1>7. Unsent(sent + 1, [outcome EXCEPT ![sent + 1] = "refused"])
  BY <1>1, <1>4 DEF Unsent
<1>. QED
  BY <1>2, <1>3, <1>4, <1>6, <1>7 DEF Open, Unsent

(* Every step keeps every open message in exactly one place. *)
LEMMA NextPlaceInv == TypeOK /\ ServiceInv /\ PlaceInv /\ [Next]_vars => PlaceInv'
<1>. SUFFICES ASSUME TypeOK, ServiceInv, PlaceInv, [Next]_vars, Alive' PROVE PlaceInv'
  BY DEF PlaceInv
<1>. DEFINE T == TableSeqs(table)
            C == Seqs(cbMsg)
            M == MailSeqs(mail)
            H == Seqs(handling)
            O == Open(sent, outcome)
            P == /\ Placed(TableSeqs(table'), Seqs(cbMsg'), MailSeqs(mail'),
                           Seqs(handling'), Open(sent', outcome'))
                 /\ Distinct(mail') /\ AtMostOne(cbMsg') /\ AtMostOne(handling')
                 /\ Unsent(sent', outcome')
<1>0. ASSUME P PROVE PlaceInv'
  BY <1>0 DEF PlaceInv, Singles, TableSeqs, SeqsAt, Used, MsgAt, EntryAt, Seqs,
              MailSeqs, Open, Distinct, Unsent
<1>a. CASE UNCHANGED <<table, cbMsg, mail, handling, sent, outcome, failed>>
  BY <1>a, <1>0 DEF PlaceInv, Singles, Alive
<1>b. ASSUME Alive
      PROVE  /\ Apart(T, C, M, H) /\ T \cup C \cup M \cup H = O
             /\ Singles /\ Unsent(sent, outcome)
  BY <1>b DEF PlaceInv, Placed
<1>c. /\ sent \in 0 .. MaxSends /\ sent \in Nat /\ mail \in Seq(Msg)
      /\ cbMsg \subseteq Msg /\ handling \subseteq Msg
  BY ConstAssumption DEF TypeOK
<1>1. ASSUME NEW k \in Keys, MessageSend(k) PROVE P
  <2>. DEFINE m == [key |-> k, seq |-> sent + 1]
  <2>1. /\ Alive /\ sent < MaxSends /\ sent' = sent + 1 /\ MailboxPut(m)
        /\ UNCHANGED <<table, cbMsg, handling, outcome>>
        /\ m \in Msg /\ m.seq = sent + 1
    BY <1>1, <1>c, ConstAssumption DEF MessageSend, Msg
  <2>. HIDE DEF m
  <2>2. sent + 1 \notin O /\ Open(sent', outcome') = O \cup {sent + 1} /\ Unsent(sent', outcome')
    BY <1>b, <2>1, OneMore
  <2>3. MailSeqs(mail') = M \cup {sent + 1} /\ Distinct(mail')
    <3>1. sent + 1 \notin M
      BY <1>b, <2>1, <2>2
    <3>. QED
      BY <1>b, <2>1, <3>1, PutSeqs DEF Singles
  <2>. HIDE DEF T, C, M, H, O
  <2>4. Placed(T, C, M \cup {sent + 1}, H, O \cup {sent + 1})
    BY <1>b, <2>1, <2>2 DEF Placed, Apart
  <2>. QED
    BY <1>b, <2>1, <2>2, <2>3, <2>4 DEF Singles, T, C, H
<1>2. ASSUME NEW k \in Keys, NEW d \in 0 .. MaxDelay, SendLater(k, d) PROVE P
  <2>. DEFINE m == [key |-> k, seq |-> sent + 1]
  <2>1. /\ Alive /\ sent < MaxSends /\ sent' = sent + 1
        /\ UNCHANGED <<cbMsg, mail, handling>>
        /\ m \in Msg /\ m.seq = sent + 1
    BY <1>2, <1>c, ConstAssumption DEF SendLater, Msg
  <2>. HIDE DEF m
  <2>2. CASE /\ outcome' = [outcome EXCEPT ![sent + 1] = "refused"]
             /\ UNCHANGED table
    <3>1. Open(sent', outcome') = O /\ Unsent(sent', outcome')
      BY <1>b, <2>1, <2>2, OneMore
    <3>. QED
      BY <1>b, <2>1, <2>2, <3>1 DEF Placed, Singles
  <2>3. ASSUME NEW i \in Slot \ Used(table), DelayAdd(i, m, d), UNCHANGED outcome PROVE P
    <3>1. sent + 1 \notin O /\ Open(sent', outcome') = O \cup {sent + 1} /\ Unsent(sent', outcome')
      BY <1>b, <2>1, <2>3, OneMore
    <3>2. table[i] = {}
      BY DEF Used
    <3>3. /\ Used(table') = Used(table) \cup {i}
          /\ MsgAt(table', i) = m
          /\ \A j \in Used(table) : j # i /\ MsgAt(table', j) = MsgAt(table, j)
      BY <2>1, <2>3, <3>2, DelayAddWaiting
    <3>4. TableSeqs(table') = T \cup {sent + 1}
      BY <2>1, <3>3 DEF TableSeqs, SeqsAt
    <3>. HIDE DEF T, C, M, H, O
    <3>5. Placed(T \cup {sent + 1}, C, M, H, O \cup {sent + 1})
      BY <1>b, <2>1, <3>1 DEF Placed, Apart
    <3>. QED
      BY <1>b, <2>1, <3>1, <3>4, <3>5 DEF Singles, C, M, H
  <2>. QED
    BY <1>2, <2>2, <2>3 DEF SendLater, m
<1>d. ASSUME NEW S \in SUBSET Used(table), table' = Deinit(table, S), Alive,
             NEW what, what # "open",
             outcome' = Closed(outcome, SeqsAt(table, S), what),
             UNCHANGED <<cbMsg, mail, handling, sent>>
      PROVE  P
  <2>. DEFINE D == SeqsAt(table, S)
  <2>1. D \subseteq T /\ TableSeqs(table') = T \ D
    BY <1>d, FreedSeqs
  <2>2. D \subseteq 1 .. sent
    BY <1>b, <1>d, <2>1 DEF Open
  <2>3. Open(sent', outcome') = O \ D /\ Unsent(sent', outcome')
    BY <1>b, <1>c, <1>d, <2>2, ClosedSeqs
  <2>. HIDE DEF D
  <2>. HIDE DEF T, C, M, H, O
  <2>4. Placed(T \ D, C, M, H, O \ D)
    BY <1>b, <1>d, <2>1 DEF Placed, Apart
  <2>. QED
    BY <1>b, <1>d, <2>1, <2>3, <2>4 DEF Singles, C, M, H
<1>3. ASSUME NEW k \in Keys, CancelFirst(k) PROVE P
  <2>1. PICK i \in Slot : IsEarliest(table, Matching(k), i) /\ Delete({i})
    BY <1>3 DEF CancelFirst
  <2>2. {i} \in SUBSET Used(table)
    BY <2>1 DEF IsEarliest, Matching
  <2>. QED
    BY <1>3, <1>d, <2>1, <2>2 DEF CancelFirst, Delete, Closed
<1>4. ASSUME NEW k \in Keys, CancelAll(k) PROVE P
  <2>1. Matching(k) \in SUBSET Used(table)
    BY DEF Matching
  <2>. QED
    BY <1>4, <1>d, <2>1 DEF CancelAll, Delete, Closed
<1>5. ASSUME TimeoutTake PROVE P
  <2>1. PICK i \in GetLatest(table, latest) : /\ cbMsg' = {MsgAt(table, i)}
                                              /\ table' = Deinit(table, {i})
    BY <1>5 DEF TimeoutTake, Alive
  <2>2. /\ Alive /\ cbMsg = {} /\ UNCHANGED <<mail, handling, sent, outcome>>
        /\ {i} \in SUBSET Used(table)
    BY <1>5, <2>1 DEF TimeoutTake, ServiceInv, CallbackPhase, GetLatest
  <2>. DEFINE s == MsgAt(table, i).seq
  <2>3. SeqsAt(table, {i}) = {s} /\ Seqs(cbMsg') = {s} /\ C = {}
    BY <2>1, <2>2 DEF SeqsAt, Seqs
  <2>4. s \in T /\ TableSeqs(table') = T \ {s}
    BY <2>1, <2>2, <2>3, FreedSeqs
  <2>. HIDE DEF s, T, M, H, O
  <2>5. Placed(T \ {s}, {s}, M, H, O)
    BY <1>b, <2>2, <2>3, <2>4 DEF Placed, Apart
  <2>. QED
    BY <1>b, <2>1, <2>2, <2>3, <2>4, <2>5 DEF Singles, AtMostOne, M, H, O
<1>6. ASSUME TimeoutPost PROVE P
  <2>1. PICK m \in cbMsg : MailboxPut(m)
    BY <1>6 DEF TimeoutPost
  <2>2. /\ Alive /\ cbMsg' = {} /\ UNCHANGED <<table, handling, sent, outcome>> /\ m \in Msg
    BY <1>6, <1>c DEF TimeoutPost
  <2>3. C = {m.seq} /\ Seqs(cbMsg') = {}
    BY <1>b, <2>2 DEF Seqs, Singles, AtMostOne
  <2>4. m.seq \notin M
    BY <1>b, <2>2, <2>3 DEF Apart
  <2>5. MailSeqs(mail') = M \cup {m.seq} /\ Distinct(mail')
    BY <1>b, <2>1, <2>2, <2>4, PutSeqs DEF Singles
  <2>. HIDE DEF T, C, M, H, O
  <2>6. Placed(T, {}, M \cup {m.seq}, H, O)
    BY <1>b, <2>2, <2>3 DEF Placed, Apart
  <2>. QED
    BY <1>b, <2>2, <2>3, <2>5, <2>6 DEF Singles, AtMostOne, T, H, O
<1>7. ASSUME TimeoutScan PROVE P
  <2>. DEFINE due == {i \in Used(table) : RunTime(table, i) <= CurrentMs}
  <2>1. due \in SUBSET Used(table)
    OBVIOUS
  <2>2. /\ Alive /\ table' = Deinit(table, due)
        /\ outcome' = Closed(outcome, SeqsAt(table, due), "discarded")
        /\ UNCHANGED <<cbMsg, mail, handling, sent>>
    BY <1>7 DEF TimeoutScan, Closed
  <2>. HIDE DEF due
  <2>. QED
    BY <1>d, <2>1, <2>2
<1>8. ASSUME MailboxGet PROVE P
  <2>1. /\ Alive /\ handling = {} /\ mail # <<>> /\ handling' = {Head(mail)}
        /\ mail' = Tail(mail) /\ UNCHANGED <<table, cbMsg, sent, outcome>>
    BY <1>8 DEF MailboxGet
  <2>. DEFINE s == Head(mail).seq
  <2>2. s \in M /\ MailSeqs(mail') = M \ {s} /\ Distinct(mail')
    BY <1>b, <1>c, <2>1, HeadSeqs DEF Singles
  <2>3. H = {} /\ Seqs(handling') = {s}
    BY <2>1 DEF Seqs
  <2>. HIDE DEF s, T, C, M, H, O
  <2>4. Placed(T, C, M \ {s}, {s}, O)
    BY <1>b, <2>1, <2>2, <2>3 DEF Placed, Apart
  <2>. QED
    BY <1>b, <2>1, <2>2, <2>3, <2>4 DEF Singles, AtMostOne, T, C, O
<1>9. ASSUME MailboxFree PROVE P
  <2>1. PICK m \in handling : outcome' = [outcome EXCEPT ![m.seq] = "handled"]
    BY <1>9 DEF MailboxFree
  <2>2. Alive /\ handling' = {} /\ UNCHANGED <<table, cbMsg, mail, sent>>
    BY <1>9 DEF MailboxFree
  <2>3. H = {m.seq} /\ Seqs(handling') = {}
    BY <1>b, <2>2 DEF Seqs, Singles, AtMostOne
  <2>. DEFINE D == {m.seq}
  <2>4. outcome' = Closed(outcome, D, "handled")
    BY <2>1 DEF TypeOK, Closed
  <2>5. D \subseteq 1 .. sent
    BY <1>b, <2>2, <2>3 DEF Open
  <2>6. Open(sent', outcome') = O \ D /\ Unsent(sent', outcome')
    <3>1. \A what : what # "open" =>
            /\ Open(sent, Closed(outcome, D, what)) = O \ D
            /\ D \subseteq 1 .. sent /\ Unsent(sent, outcome)
                 => Unsent(sent, Closed(outcome, D, what))
      BY <1>c, ClosedSeqs
    <3>2. "handled" # "open"
      OBVIOUS
    <3>. QED
      BY <1>b, <2>2, <2>4, <2>5, <3>1, <3>2
  <2>. HIDE DEF T, C, M, H, O
  <2>7. Placed(T, C, M, {}, O \ {m.seq})
    BY <1>b, <2>2, <2>3 DEF Placed, Apart
  <2>. QED
    BY <1>b, <2>2, <2>3, <2>6, <2>7 DEF Singles, AtMostOne, T, C, M
<1>10. CASE Tick \/ TimeoutRestart \/ UNCHANGED vars
  BY <1>a, <1>10 DEF Tick, TimeoutRestart, vars
<1>. HIDE DEF P
<1>. QED
  BY <1>0, <1>1, <1>2, <1>3, <1>4, <1>5, <1>6, <1>7, <1>8, <1>9, <1>10 DEF Next

(* A set without two elements has the cardinality 0 or 1. *)
LEMMA SmallSet ==
  ASSUME NEW S, AtMostOne(S)
  PROVE  Cardinality(S) = IF S = {} THEN 0 ELSE 1
<1>1. CASE S = {}
  BY <1>1, FS_EmptySet
<1>2. CASE S # {}
  <2>1. PICK x : S = {x}
    BY <1>2 DEF AtMostOne
  <2>. QED
    BY <1>2, <2>1, FS_Singleton
<1>. QED
  BY <1>1, <1>2

(* If the places are apart and hold what is open, a message is in one place  *)
(* or in none.                                                              *)
LEMMA PlacedOnce == TypeOK /\ ServiceInv /\ PlaceInv => ExactlyOnePlace
<1>. SUFFICES ASSUME TypeOK, ServiceInv, PlaceInv, Alive, NEW n \in 1 .. MaxSends
              PROVE  Holders(n) = IF n <= sent /\ outcome[n] = "open" THEN 1 ELSE 0
  BY DEF ExactlyOnePlace
<1>. DEFINE t == {i \in Used(table) : MsgAt(table, i).seq = n}
            c == {m \in cbMsg : m.seq = n}
            q == {i \in DOMAIN mail : mail[i].seq = n}
            h == {m \in handling : m.seq = n}
            card(S) == IF S = {} THEN 0 ELSE 1
<1>1. /\ Placed(TableSeqs(table), Seqs(cbMsg), MailSeqs(mail), Seqs(handling),
                Open(sent, outcome))
      /\ Singles
  BY DEF PlaceInv
<1>2. DOMAIN mail = 1 .. Len(mail)
  BY LenProperties DEF TypeOK
<1>3. AtMostOne(t) /\ AtMostOne(c) /\ AtMostOne(q) /\ AtMostOne(h)
  BY <1>1, <1>2 DEF AtMostOne, Singles, Distinct, ServiceInv, SeqsDiffer, SeqAt
<1>4. /\ t # {} <=> n \in TableSeqs(table)
      /\ c # {} <=> n \in Seqs(cbMsg)
      /\ q # {} <=> n \in MailSeqs(mail)
      /\ h # {} <=> n \in Seqs(handling)
  BY <1>2 DEF TableSeqs, SeqsAt, Seqs, MailSeqs
<1>5. n \in Open(sent, outcome) <=> n <= sent /\ outcome[n] = "open"
  BY ConstAssumption DEF Open, TypeOK
<1>6. Holders(n) = Cardinality(t) + Cardinality(c) + Cardinality(q) + Cardinality(h)
  BY DEF Holders
<1>. HIDE DEF t, c, q, h
<1>7. Holders(n) = card(t) + card(c) + card(q) + card(h)
  BY <1>3, <1>6, SmallSet
<1>8. CASE n \in Open(sent, outcome)
  <2>1. \/ t # {} /\ c = {} /\ q = {} /\ h = {}
        \/ t = {} /\ c # {} /\ q = {} /\ h = {}
        \/ t = {} /\ c = {} /\ q # {} /\ h = {}
        \/ t = {} /\ c = {} /\ q = {} /\ h # {}
    BY <1>1, <1>4, <1>8 DEF Placed, Apart
  <2>. QED
    BY <1>5, <1>7, <1>8, <2>1
<1>9. CASE n \notin Open(sent, outcome)
  <2>1. t = {} /\ c = {} /\ q = {} /\ h = {}
    BY <1>1, <1>4, <1>9 DEF Placed
  <2>. QED
    BY <1>5, <1>7, <1>9, <2>1
<1>. QED
  BY <1>8, <1>9

(* For every number of keys, slots, mails and send calls, while no assertion *)
(* has stopped the system: a message sent and not yet handled, cancelled,    *)
(* refused or discarded is in exactly one of table, callback, mailbox and    *)
(* handler, and every other message is in none.                              *)
THEOREM OnePlace == Spec => []ExactlyOnePlace
<1>1. Init => PlaceInv
  <2>. SUFFICES ASSUME Init PROVE PlaceInv
    OBVIOUS
  <2>1. Used(table) = {} /\ cbMsg = {} /\ handling = {} /\ mail = <<>> /\ sent = 0
    BY DEF Init, Used
  <2>2. TableSeqs(table) = {} /\ Seqs(cbMsg) = {} /\ Seqs(handling) = {}
    BY <2>1 DEF TableSeqs, SeqsAt, Seqs
  <2>3. MailSeqs(mail) = {} /\ Distinct(mail) /\ Open(sent, outcome) = {}
    BY <2>1 DEF MailSeqs, Distinct, Open
  <2>4. Unsent(sent, outcome)
    BY DEF Init, Unsent
  <2>. QED
    BY <2>1, <2>2, <2>3, <2>4 DEF PlaceInv, Placed, Apart, Singles, AtMostOne
<1>. QED
  BY <1>1, NextPlaceInv, PlacedOnce, TypeCorrect, ServiceInvariant, PTL DEF Spec

-------------------------------------------------------------------------------
(* The timer.  Until the millisecond clock wraps, the run time of an entry   *)
(* is the time its sender asked for, and every step that changes the table   *)
(* leaves the timer due by the least run time, or at the next tick.          *)

TimesOK(tab) == \A i \in Used(tab) : RunTime(tab, i) = Wanted(tab, i)

DueOK(tab, t, n) ==
  t.running => /\ t.due > n
               /\ \A i \in Used(tab) : t.due <= RunTime(tab, i) \/ t.due = n + 1

TimeInv == now < ClockMod => TimesOK(table) /\ DueOK(table, timer, now)

(* timer_start arms the timer for the earliest entry. *)
LEMMA TimerStartDue ==
  ASSUME TypeOK, now < ClockMod, NEW tab, TableOK(tab), NEW lat, NEW t,
         TimerStart(tab, lat, t), ~ t.running
  PROVE  DueOK(tab, timer', now)
<1>1. CASE Used(tab) = {} /\ timer' = t
  BY <1>1 DEF DueOK
<1>2. ASSUME NEW i \in Slot, IsEarliest(tab, Used(tab), i),
             timer' = [running |-> TRUE, due |-> now + TimerDelay(RunTime(tab, i))]
      PROVE  DueOK(tab, timer', now)
  <2>1. now \in Nat /\ CurrentMs = now
    BY ConstAssumption DEF TypeOK, CurrentMs
  <2>2. \A j \in Used(tab) : RunTime(tab, j) \in Nat /\ RunTime(tab, i) <= RunTime(tab, j)
    BY <1>2, EntryType DEF IsEarliest
  <2>3. RunTime(tab, i) \in Nat
    BY <1>2, <2>2 DEF IsEarliest
  <2>4. timer'.due = IF RunTime(tab, i) <= now THEN now + 1 ELSE RunTime(tab, i)
    BY <1>2, <2>1, <2>3 DEF TimerDelay
  <2>. QED
    BY <2>1, <2>2, <2>3, <2>4 DEF DueOK
<1>. QED
  BY <1>1, <1>2 DEF TimerStart

(* Freeing slots keeps the times of the others. *)
LEMMA DeinitDue ==
  ASSUME NEW tab, TableOK(tab), NEW S, TimesOK(tab)
  PROVE  /\ TimesOK(Deinit(tab, S))
         /\ \A t, n : DueOK(tab, t, n) => DueOK(Deinit(tab, S), t, n)
<1>. DEFINE d == Deinit(tab, S)
<1>1. Used(d) = Used(tab) \ S /\ \A i \in Used(d) : d[i] = tab[i]
  BY DeinitTable
<1>2. \A i \in Used(d) : i \in Used(tab) /\ RunTime(d, i) = RunTime(tab, i)
                         /\ Wanted(d, i) = Wanted(tab, i)
  BY <1>1 DEF RunTime, Wanted, EntryAt
<1>. HIDE DEF d
<1>3. TimesOK(d) /\ \A t, n : DueOK(tab, t, n) => DueOK(d, t, n)
  BY <1>2 DEF TimesOK, DueOK
<1>. QED
  BY <1>3 DEF d

(* Deleting entries leaves the timer due in time for those that stay. *)
LEMMA DeleteDue ==
  ASSUME TypeOK, now < ClockMod, TimesOK(table), DueOK(table, timer, now),
         NEW S, Delete(S)
  PROVE  TimesOK(table') /\ DueOK(table', timer', now)
<1>. DEFINE tab == Deinit(table, S)
<1>1. /\ table' = tab /\ TableOK(tab) /\ TimesOK(tab) /\ DueOK(tab, timer, now)
  BY DeinitTable, DeinitDue DEF Delete, TypeOK
<1>2. \/ timer' = timer
      \/ TimerStart(tab, latest \ S, Stopped)
  BY DEF Delete
<1>3. ~ Stopped.running
  BY DEF Stopped
<1>. HIDE DEF tab
<1>. QED
  BY <1>1, <1>2, <1>3, TimerStartDue

(* Adding an entry leaves the timer due in time for it and for the others. *)
LEMMA DelayAddDue ==
  ASSUME TypeOK, now < ClockMod, TimesOK(table), NEW i \in Slot, NEW m \in Msg,
         NEW d \in 0 .. MaxDelay, DelayAdd(i, m, d)
  PROVE  TimesOK(table') /\ DueOK(table', timer', now)
<1>. DEFINE e == [msg |-> m, runTime |-> CurrentMs + d, wanted |-> now + d]
            tab == [table EXCEPT ![i] = {e}]
<1>1. CurrentMs = now /\ now \in Nat /\ d \in Nat
  BY ConstAssumption DEF CurrentMs, TypeOK
<1>2. e \in Entry /\ e.runTime = e.wanted
  BY <1>1 DEF Entry
<1>3. table' = tab /\ TimerStart(tab, latest, Stopped) /\ ~ Stopped.running
  BY DEF DelayAdd, Stopped
<1>. HIDE DEF e
<1>4. TableOK(tab) /\ tab[i] = {e} /\ \A j \in Slot \ {i} : tab[j] = table[j]
  BY <1>2 DEF TypeOK, TableOK
<1>. HIDE DEF tab
<1>5. DueOK(tab, timer', now)
  BY <1>3, <1>4, TimerStartDue
<1>6. EntryAt(tab, i) = e
  BY <1>4 DEF EntryAt
<1>7. TimesOK(tab)
  BY <1>2, <1>4, <1>6 DEF TimesOK, Used, RunTime, Wanted, EntryAt
<1>. QED
  BY <1>3, <1>5, <1>7

(* Every step keeps the timer due in time. *)
LEMMA NextTimeInv == TypeOK /\ TimeInv /\ [Next]_vars => TimeInv'
<1>. SUFFICES ASSUME TypeOK, TimeInv, [Next]_vars, now' < ClockMod
              PROVE  TimesOK(table') /\ DueOK(table', timer', now')
  BY DEF TimeInv, TimesOK, DueOK, Used, RunTime, Wanted, EntryAt
<1>2. CASE Tick
  <2>1. now \in Nat /\ now' = now + 1 /\ table' = table /\ timer.due \in Nat
    BY <1>2 DEF Tick, TypeOK
  <2>2. TimesOK(table) /\ DueOK(table, timer, now)
    BY <2>1, ConstAssumption DEF TimeInv
  <2>3. \A i \in Used(table) : RunTime(table, i) \in Nat
    BY EntryType DEF TypeOK
  <2>4. CASE timer' = Stopped
    BY <2>1, <2>2, <2>4 DEF DueOK, Stopped
  <2>5. CASE timer' = timer /\ ~ (timer.running /\ timer.due = now + 1)
    BY <2>1, <2>2, <2>3, <2>5 DEF DueOK
  <2>. QED
    BY <1>2, <2>4, <2>5 DEF Tick
<1>3. ASSUME now' = now
      PROVE  now < ClockMod /\ TimesOK(table) /\ DueOK(table, timer, now)
  BY <1>3 DEF TimeInv
<1>4. CASE UNCHANGED <<table, timer, now>>
  BY <1>3, <1>4
<1>5. ASSUME NEW k \in Keys, NEW d \in 0 .. MaxDelay, SendLater(k, d)
      PROVE  TimesOK(table') /\ DueOK(table', timer', now')
  <2>. DEFINE m == [key |-> k, seq |-> sent + 1]
  <2>1. m \in Msg /\ now' = now
    BY <1>5, ConstAssumption DEF SendLater, Msg, TypeOK
  <2>2. \/ UNCHANGED <<table, timer>>
        \/ \E i \in Slot : DelayAdd(i, m, d)
    BY <1>5 DEF SendLater
  <2>. HIDE DEF m
  <2>. QED
    BY <1>3, <2>1, <2>2, DelayAddDue
<1>6. ASSUME NEW k \in Keys, CancelFirst(k) \/ CancelAll(k)
      PROVE  TimesOK(table') /\ DueOK(table', timer', now')
  <2>1. now' = now /\ \E S : Delete(S)
    BY <1>6 DEF CancelFirst, CancelAll
  <2>. QED
    BY <1>3, <2>1, DeleteDue
<1>7. ASSUME NEW S, table' = Deinit(table, S), UNCHANGED <<timer, now>>
      PROVE  TimesOK(table') /\ DueOK(table', timer', now')
  BY <1>3, <1>7, DeinitDue DEF TypeOK
<1>8. CASE TimeoutTake
  BY <1>4, <1>7, <1>8 DEF TimeoutTake
<1>9. CASE TimeoutScan
  BY <1>7, <1>9 DEF TimeoutScan
<1>10. CASE TimeoutRestart
  <2>1. CASE timer.running
    BY <1>4, <1>10, <2>1 DEF TimeoutRestart
  <2>2. CASE ~ timer.running
    BY <1>3, <1>10, <2>2, TimerStartDue DEF TimeoutRestart, TypeOK
  <2>. QED
    BY <2>1, <2>2
<1>11. CASE \/ \E k \in Keys : MessageSend(k)
            \/ TimeoutPost \/ MailboxGet \/ MailboxFree \/ UNCHANGED vars
  BY <1>4, <1>11 DEF MessageSend, TimeoutPost, MailboxGet, MailboxFree, vars
<1>. QED
  BY <1>2, <1>5, <1>6, <1>8, <1>9, <1>10, <1>11 DEF Next

(* For every table size, delay and clock modulus, until the millisecond      *)
(* clock wraps: a running timer fires no later than any entry was asked for, *)
(* or at the next tick.  (What happens at the wrap is outside the claim.)    *)
THEOREM FiresInTime == Spec => [](now < ClockMod => TimerNotLate)
<1>1. Init => TimeInv
  BY DEF Init, TimeInv, TimesOK, DueOK, Used, Stopped
<1>2. TypeOK /\ TimeInv => (now < ClockMod => TimerNotLate)
  BY DEF TimeInv, TimesOK, DueOK, TimerNotLate
<1>. QED
  BY <1>1, <1>2, NextTimeInv, TypeCorrect, PTL DEF Spec
================================================================================
