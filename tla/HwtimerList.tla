----------------------------- MODULE HwtimerList -----------------------------
(***************************************************************************)
(* The software timers on the one hardware timer (hwtimer_list.c): a list  *)
(* of active timers in the order they expire, each with the ticks after    *)
(* the one before it, and a list of fired ones whose callbacks the         *)
(* interrupt handler still has to call.  Every operation holds the         *)
(* interrupt lock; the handler releases it around each callback, and       *)
(* between its entry and its first section an interrupt of higher priority *)
(* can still use the timers.                                               *)
(*                                                                         *)
(* The hardware counts down from the load less one tick and stops at zero  *)
(* (hal_timer.c).  The linked lists are sequences; a refused call changes  *)
(* nothing and is no step.                                                 *)
(***************************************************************************)
EXTENDS Integers, Sequences, SequencesExt

CONSTANTS
  Num,        \* HWTIMER_NUM
  Silent,     \* the timers allocated without a callback
  MaxTicks,   \* bound: ticks a timer is started with
  MaxStarts,  \* bound: starts
  MaxLate     \* bound: ticks an expired interrupt waits for its handler

ASSUME HwtimerAssumption ==
  /\ Num \in Nat \ {0} /\ Silent \subseteq 0 .. Num - 1
  /\ MaxTicks \in Nat \ {0} /\ MaxStarts \in Nat /\ MaxLate \in Nat

VARIABLES
  hw,      \* the hardware timer: enabled, value, ticks since its start, ticks
           \* since it expired, interrupt pending
  active,  \* hwtimer_list.active
  fired,   \* hwtimer_list.fired
  free,    \* hwtimer_list.free
  state,   \* per timer
  time,    \* per timer: ticks after the one before it; 0 outside the active
           \* list, where nothing reads it
  irq,     \* where hwtimer_handler stands: "out", "entered" (interrupt cleared),
           \* "pop" (lock held) or "call" (lock released for a callback)
  cur,     \* {} or the timer being called back
  failed,  \* the assertion that stopped the system, or "none"
  starts,  \* number of starts
  hist     \* history, see below

vars == <<hw, active, fired, free, state, time, irq, cur, failed, starts, hist>>

Timers == 0 .. Num - 1

(* History, per timer since its start: due, the ticks left until the time    *)
(* asked for; drift, the ticks it may be off: one for each start of the      *)
(* hardware, which is loaded with a tick less, another if it follows an      *)
(* expiry, which the code reckons from the list's ticks and not from the     *)
(* load, and the delay of an expiry it was started behind.                   *)
Zero == [t \in Timers |-> 0]
NoHistory == [due |-> Zero, drift |-> Zero]

LoadDelta == 1

(* hal_timer_start, hal_timer_stop *)
HwStart(h, load) ==
  [h EXCEPT !.on = TRUE, !.left = IF load > LoadDelta THEN load - LoadDelta ELSE LoadDelta,
            !.since = 0, !.late = 0]
HwStop == [on |-> FALSE, left |-> 0, since |-> 0, late |-> 0, pending |-> FALSE]

HwRestarted(h) ==
  LET cost == IF irq = "entered" \/ (hw.on /\ hw.left = 0) THEN 2 * LoadDelta ELSE LoadDelta
  IN [h EXCEPT !.drift = [t \in Timers |->
        IF Contains(active', t) THEN @[t] + cost ELSE @[t]]]

(* Ticks from the head's expiry to that of the k-th timer of a list *)
Sums(list, ticks) ==
  LET sum[k \in 1 .. Len(list)] == IF k = 1 THEN 0 ELSE sum[k - 1] + ticks[list[k]]
  IN  sum
After(k) == Sums(active, time)[k]

(* Ticks since the head's expiry, as the code sees it *)
Over == IF hw.since > time[Head(active)] THEN hw.since - time[Head(active)] ELSE 0

(* The handler or a caller that holds no lock *)
Unlocked == irq # "pop" /\ failed = "none"

Init ==
  /\ hw = HwStop
  /\ active = <<>> /\ fired = <<>> /\ free = [i \in 1 .. Num |-> i - 1]
  /\ state = [t \in Timers |-> "FREE"]
  /\ time = [t \in Timers |-> 0]
  /\ irq = "out" /\ cur = {}
  /\ failed = "none" /\ starts = 0 /\ hist = NoHistory

(* One tick of the system clock *)
Tick ==
  /\ failed = "none" /\ hw.on
  /\ hw.left = 0 => hw.late < MaxLate
  /\ hw' = [hw EXCEPT !.left = IF @ = 0 THEN 0 ELSE @ - 1, !.since = @ + 1,
                      !.late = IF hw.left = 0 THEN @ + 1 ELSE 0,
                      !.pending = @ \/ hw.left = 1]
  /\ hist' = [hist EXCEPT !.due = [t \in Timers |->
                IF state[t] = "ACTIVE" THEN @[t] - 1 ELSE @[t]]]
  /\ UNCHANGED <<active, fired, free, state, time, irq, cur, failed, starts>>

-----------------------------------------------------------------------------
(* hwtimer_alloc *)
Alloc ==
  /\ Unlocked /\ free # <<>>
  /\ free' = Tail(free)
  /\ state' = [state EXCEPT ![Head(free)] = "ALLOC"]
  /\ UNCHANGED <<hw, active, fired, time, irq, cur, failed, starts, hist>>

(* hwtimer_free *)
Free(t) ==
  /\ Unlocked /\ state[t] = "ALLOC"
  /\ state' = [state EXCEPT ![t] = "FREE"]
  /\ free' = <<t>> \o free
  /\ UNCHANGED <<hw, active, fired, time, irq, cur, failed, starts, hist>>

(* The history of a start *)
Asked(t, ticks, off) == [due |-> [hist.due EXCEPT ![t] = ticks],
                           drift |-> [hist.drift EXCEPT ![t] = off]]

(* The assertions of start and stop on the hardware's value *)
ValueOK == hw.left <= time[Head(active)] \/ hw.left <= LoadDelta

StartFirst(t, ticks) ==
  /\ active = <<>>
  /\ active' = <<t>>
  /\ time' = [time EXCEPT ![t] = ticks]
  /\ hw' = HwStart(hw, ticks)
  /\ hist' = HwRestarted(Asked(t, ticks, 0))

(* Due before the head: the head is now due that much after it *)
StartAhead(t, ticks) ==
  /\ active # <<>> /\ ValueOK /\ hw.left > ticks
  /\ active' = <<t>> \o active
  /\ time' = [time EXCEPT ![t] = ticks, ![Head(active)] = hw.left - ticks]
  /\ hw' = HwStart(HwStop, ticks)
  /\ hist' = HwRestarted(Asked(t, ticks, 0))

(* The place of a timer due rest ticks after the head: the first one behind  *)
(* the head whose occupant is due no earlier                                 *)
IsPlace(k, rest) ==
  /\ k <= Len(active) => After(k) >= rest
  /\ \A m \in 2 .. k - 1 : After(m) < rest

(* Seeded fault: the timer after the new one is left as it is *)
CarelessStartBehind(t, ticks) ==
  /\ active # <<>> /\ ValueOK /\ hw.left <= ticks
  /\ \E k \in 2 .. Len(active) + 1 :
       LET rest == ticks - hw.left
       IN /\ IsPlace(k, rest)
          /\ active' = InsertAt(active, k, t)
          /\ time' = [time EXCEPT ![t] = rest - After(k - 1)]
  /\ hw' = hw
  /\ hist' = Asked(t, ticks, hw.late)

(* Behind the head: after every timer that expires before it, and the next   *)
(* one's ticks are counted from it *)
StartBehind(t, ticks) ==
  /\ active # <<>> /\ ValueOK /\ hw.left <= ticks
  /\ \E k \in 2 .. Len(active) + 1 :
       LET rest == ticks - hw.left
           mine == rest - After(k - 1)
       IN /\ IsPlace(k, rest)
          /\ active' = InsertAt(active, k, t)
          /\ time' = [u \in Timers |-> IF u = t THEN mine
                                       ELSE IF k <= Len(active) /\ u = active[k]
                                            THEN time[u] - mine
                                       ELSE time[u]]
  /\ hw' = hw
  /\ hist' = Asked(t, ticks, hw.late)

(* hwtimer_start, hwtimer_update_then_start: __hwtimer_start_int *)
Start(t, ticks) ==
  /\ Unlocked /\ starts < MaxStarts /\ starts' = starts + 1
  /\ state[t] \in {"ALLOC", "CALLBACK"}
  /\ state' = [state EXCEPT ![t] = "ACTIVE"]
  /\ \/ /\ StartFirst(t, ticks) \/ StartAhead(t, ticks) \/ StartBehind(t, ticks)
        /\ UNCHANGED failed
     \/ /\ active # <<>> /\ ~ValueOK
        /\ failed' = "start" /\ UNCHANGED <<active, time, hw, hist>>
  /\ UNCHANGED <<fired, free, irq, cur>>

-----------------------------------------------------------------------------
(* The history of timers that leave the list *)
Dropped(S) == [f \in DOMAIN hist |-> [t \in Timers |-> IF t \in S THEN 0 ELSE hist[f][t]]]

(* Seeded fault: all that has passed is taken from the next timer *)
GreedyTimeLeft(k, over) == IF k = 2 THEN time[active[2]] - over ELSE time[active[k]]

(* What over ticks past the head's expiry leave of the k-th timer's ticks *)
TimeLeft(k, over) ==
  IF After(k) <= over THEN 0
  ELSE IF After(k - 1) <= over THEN After(k) - over
  ELSE time[active[k]]

(* Seeded fault: a stop of the only timer leaves the hardware running *)
IdleStopLast(t) ==
  /\ active = <<t>> /\ ValueOK
  /\ active' = <<>> /\ UNCHANGED <<hw, failed>> /\ time' = Zero
  /\ hist' = Dropped({t})

StopLast(t) ==
  /\ active = <<t>> /\ ValueOK
  /\ active' = <<>> /\ hw' = HwStop /\ time' = Zero
  /\ hist' = Dropped({t}) /\ UNCHANGED failed

(* Seeded fault: the hardware is not started for the next timer *)
HaltingStopHead(t) ==
  /\ Len(active) > 1 /\ Head(active) = t /\ ValueOK
  /\ active' = Tail(active)
  /\ time' = [time EXCEPT ![t] = 0, ![active[2]] = @ + hw.left]
  /\ hw' = HwStop
  /\ hist' = Dropped({t}) /\ UNCHANGED failed

(* The head goes; the hardware is started for the next with what the head    *)
(* had left, or, if it has expired, less what has passed since               *)
StopHead(t) ==
  /\ Len(active) > 1 /\ Head(active) = t /\ ValueOK
  /\ active' = Tail(active)
  /\ time' = [u \in Timers |->
       IF hw.left = 0
       THEN IF \E k \in 2 .. Len(active) : active[k] = u
            THEN TimeLeft(CHOOSE k \in 2 .. Len(active) : active[k] = u, Over)
            ELSE 0
       ELSE IF u = t THEN 0 ELSE IF u = active[2] THEN time[u] + hw.left ELSE time[u]]
  /\ hw' = HwStart(HwStop, time'[active[2]])
  /\ hist' = HwRestarted(Dropped({t}))
  /\ failed' = IF hw.left = 0 /\ hw.since + LoadDelta < time[t] THEN "stop" ELSE failed

StopInside(t) ==
  /\ \E k \in 2 .. Len(active) :
       /\ active[k] = t
       /\ active' = RemoveAt(active, k)
       /\ time' = [u \in Timers |-> IF u = t THEN 0
                                    ELSE IF k < Len(active) /\ u = active[k + 1]
                                         THEN time[u] + time[t]
                                    ELSE time[u]]
  /\ hist' = Dropped({t}) /\ UNCHANGED <<hw, failed>>

StopActive(t) ==
  /\ state[t] = "ACTIVE"
  /\ \/ StopLast(t) \/ StopHead(t) \/ StopInside(t)
     \/ /\ ~Contains(active, t) \/ (Head(active) = t /\ ~ValueOK)
        /\ failed' = "stop" /\ UNCHANGED <<active, time, hw, hist>>
  /\ UNCHANGED fired

(* The handler is between two callbacks: the timer loses its call *)
StopFired(t) ==
  /\ state[t] = "FIRED"
  /\ \/ \E k \in 1 .. Len(fired) :
          fired[k] = t /\ fired' = RemoveAt(fired, k) /\ UNCHANGED failed
     \/ /\ ~Contains(fired, t)
        /\ failed' = "stop" /\ UNCHANGED fired
  /\ UNCHANGED <<active, time, hw, hist>>

(* hwtimer_stop; a timer that is being called back is left as it is, and so  *)
(* is one for which an assertion fails                                       *)
Stop(t) ==
  /\ Unlocked
  /\ StopActive(t) \/ StopFired(t)
  /\ state' = IF failed' = "none" THEN [state EXCEPT ![t] = "ALLOC"] ELSE state
  /\ UNCHANGED <<free, irq, cur, starts>>

-----------------------------------------------------------------------------
(* hal_timer_common_irq_handler: the interrupt is cleared, then the handler  *)
(* is called and takes the lock                                              *)
IrqEnter ==
  /\ failed = "none" /\ irq = "out" /\ hw.pending
  /\ irq' = "entered"
  /\ hw' = [hw EXCEPT !.pending = FALSE]
  /\ UNCHANGED <<active, fired, free, state, time, cur, failed, starts, hist>>

(* A stop, or a stop and a start, has come in between *)
IrqStale ==
  /\ \/ active = <<>> /\ failed' = IF hw.on THEN "null" ELSE failed
     \/ /\ active # <<>> /\ time[Head(active)] > hw.since + LoadDelta
        /\ failed' = IF hw.on THEN failed ELSE "early"
  /\ irq' = "out"
  /\ UNCHANGED <<hw, active, fired, state, time, hist>>

(* The hardware goes on with the next timer, if there is one, less what has  *)
(* passed since the last of the n fired ones expired                         *)
GoOnBehind(n) ==
  IF active' = <<>>
  THEN hw' = HwStop /\ time' = Zero /\ hist' = Dropped(ToSet(fired'))
  ELSE LET left == After(n + 1) - Over
       IN /\ time' = [t \in Timers |-> IF Contains(fired', t) THEN 0
                                       ELSE IF t = Head(active') THEN left
                                       ELSE time[t]]
          /\ hw' = HwStart(hw, left)
          /\ hist' = HwRestarted(Dropped(ToSet(fired')))

(* The head and those that have expired with it *)
IrqFire ==
  /\ active # <<>> /\ time[Head(active)] <= hw.since + LoadDelta
  /\ \E n \in 1 .. Len(active) :
       /\ After(n) <= Over
       /\ n < Len(active) => After(n + 1) > Over
       /\ fired' = SubSeq(active, 1, n)
       /\ active' = SubSeq(active, n + 1, Len(active))
       /\ GoOnBehind(n)
  /\ state' = [t \in Timers |-> IF Contains(fired', t) THEN "FIRED" ELSE state[t]]
  /\ irq' = "pop" /\ failed' = failed

(* The first section of hwtimer_handler *)
IrqFirst ==
  /\ failed = "none" /\ irq = "entered"
  /\ IrqStale \/ IrqFire
  /\ UNCHANGED <<free, cur, starts>>

(* Seeded fault: a timer is called back in the state of those still in the  *)
(* fired list                                                               *)
LingeringIrqPop ==
  /\ failed = "none" /\ irq = "pop"
  /\ IF fired = <<>>
     THEN irq' = "out" /\ UNCHANGED <<fired, state, cur>>
     ELSE LET t == Head(fired)
          IN /\ fired' = Tail(fired)
             /\ IF t \notin Silent
                THEN irq' = "call" /\ cur' = {t} /\ state' = state
                ELSE /\ state' = [state EXCEPT ![t] = "ALLOC"]
                     /\ UNCHANGED <<irq, cur>>
  /\ UNCHANGED <<hw, active, free, time, failed, starts, hist>>

(* Next fired timer: called with the lock released, if it has a callback *)
IrqPop ==
  /\ failed = "none" /\ irq = "pop"
  /\ IF fired = <<>>
     THEN irq' = "out" /\ UNCHANGED <<fired, state, cur>>
     ELSE LET t == Head(fired)
          IN /\ fired' = Tail(fired)
             /\ IF t \notin Silent
                THEN irq' = "call" /\ cur' = {t} /\ state' = [state EXCEPT ![t] = "CALLBACK"]
                ELSE /\ state' = [state EXCEPT ![t] = "ALLOC"]
                     /\ UNCHANGED <<irq, cur>>
  /\ UNCHANGED <<hw, active, free, time, failed, starts, hist>>

(* Seeded fault: nobody looks whether the callback started its timer again *)
ForcedCallbackReturn ==
  /\ failed = "none" /\ irq = "call"
  /\ irq' = "pop" /\ cur' = {}
  /\ state' = [t \in Timers |-> IF t \in cur THEN "ALLOC" ELSE state[t]]
  /\ UNCHANGED <<hw, active, fired, free, time, failed, starts, hist>>

(* The callback returns, and may have started its timer again *)
CallbackReturn ==
  /\ failed = "none" /\ irq = "call"
  /\ irq' = "pop" /\ cur' = {}
  /\ state' = [t \in Timers |-> IF t \in cur /\ state[t] = "CALLBACK"
                                THEN "ALLOC" ELSE state[t]]
  /\ UNCHANGED <<hw, active, fired, free, time, failed, starts, hist>>

Next ==
  \/ Tick
  \/ Alloc
  \/ \E t \in Timers : \/ Free(t) \/ Stop(t)
                       \/ \E n \in 1 .. MaxTicks : Start(t, n)
  \/ IrqEnter \/ IrqFirst \/ IrqPop \/ CallbackReturn

Spec == Init /\ [][Next]_vars

(* The clock runs, the interrupt is taken and callbacks return *)
FairSpec ==
  /\ Spec
  /\ WF_vars(Tick) /\ WF_vars(IrqEnter) /\ WF_vars(IrqFirst)
  /\ WF_vars(IrqPop) /\ WF_vars(CallbackReturn)

-----------------------------------------------------------------------------
TypeOK ==
  /\ hw \in [on : BOOLEAN, left : Nat, since : Nat, late : 0 .. MaxLate, pending : BOOLEAN]
  /\ \A s \in {active, fired, free} : s \in Seq(Timers)
  /\ state \in [Timers -> {"FREE", "ALLOC", "ACTIVE", "FIRED", "CALLBACK"}]
  /\ time \in [Timers -> Nat]
  /\ irq \in {"out", "entered", "pop", "call"}
  /\ cur \subseteq Timers
  /\ failed \in {"none", "start", "stop", "null", "early"}
  /\ starts \in 0 .. MaxStarts

(* A timer is in the list its state names, once, and in no other, although   *)
(* callbacks and interrupts start, stop and free timers while the handler    *)
(* walks the fired list; the one being called is in none.                    *)
InOnce(s, t) == \E i \in DOMAIN s : \A j \in DOMAIN s : s[j] = t <=> j = i
ListsAgree ==
  failed = "none" => \A t \in Timers :
    /\ IF state[t] = "ACTIVE" THEN InOnce(active, t) ELSE ~Contains(active, t)
    /\ IF state[t] = "FIRED" THEN InOnce(fired, t) ELSE ~Contains(fired, t)
    /\ IF state[t] = "FREE" THEN InOnce(free, t) ELSE ~Contains(free, t)
    /\ state[t] = "CALLBACK" => cur = {t}

(* Each start and stop of another timer rewrites the differences in the     *)
(* list; still every timer that has not yet expired stands to expire at the  *)
(* time asked for, off by no more than its drift.                            *)
OnSchedule ==
  failed = "none" => \A k \in 1 .. Len(active) :
    LET left == hw.left - hw.late + After(k)
        t == active[k]
    IN /\ left <= Max({0, hist.due[t]}) + hist.drift[t]
       /\ left >= hist.due[t] - hist.drift[t]

(* The hardware timer runs whenever the list is not empty, and none of the   *)
(* handler's, start's and stop's assertions on it fails.                     *)
HardwareFollows ==
  /\ failed = "none"
  /\ hw.on <=> active # <<>>

(* A started timer does not stay in the lists for ever.                      *)
TimersEnd ==
  \A t \in Timers : state[t] \in {"ACTIVE", "FIRED"} ~> state[t] \notin {"ACTIVE", "FIRED"}

(* The timers in their users' terms, see OneShotTimers *)
Status ==
  [t \in Timers |->
     CASE state[t] = "FREE" -> "free"
       [] state[t] = "ALLOC" -> "idle"
       [] state[t] \in {"ACTIVE", "FIRED"} -> "armed"
       [] OTHER -> "calling"]
Service == INSTANCE OneShotTimers WITH st <- Status, running <- cur

(* The lists, the differences and the handler's two lock releases do what    *)
(* the timers promise: a stopped timer's callback never runs, a started      *)
(* one's runs once, whatever happens between its expiry and its call.        *)
ImplementsTimers == Service!Spec
===============================================================================
