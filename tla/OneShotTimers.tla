---------------------------- MODULE OneShotTimers ----------------------------
(***************************************************************************)
(* What the software timers promise their users, without lists and ticks:  *)
(* a callback runs only for a timer that was started and has not been      *)
(* stopped since, once per start, and never two at a time; a timer whose   *)
(* callback runs cannot be stopped or freed, only started again.           *)
(* HwtimerList implements it.                                              *)
(***************************************************************************)
CONSTANT Timers

VARIABLES
  st,       \* per timer "free", "idle", "armed" or "calling"
  running   \* {} or the timer whose callback runs

vars == <<st, running>>

Init == st = [t \in Timers |-> "free"] /\ running = {}

Becomes(t, from, to) == st[t] \in from /\ st' = [st EXCEPT ![t] = to]

Alloc(t) == Becomes(t, {"free"}, "idle") /\ UNCHANGED running
Free(t) == Becomes(t, {"idle"}, "free") /\ UNCHANGED running
Start(t) == Becomes(t, {"idle", "calling"}, "armed") /\ UNCHANGED running

(* Stopped, or run out with no callback to call *)
Stop(t) == Becomes(t, {"armed"}, "idle") /\ UNCHANGED running

Call(t) == running = {} /\ running' = {t} /\ Becomes(t, {"armed"}, "calling")

(* A timer started again by its own callback stays so *)
Return(t) ==
  /\ running = {t} /\ running' = {}
  /\ st' = [st EXCEPT ![t] = IF @ = "calling" THEN "idle" ELSE @]

Next ==
  \E t \in Timers :
    Alloc(t) \/ Free(t) \/ Start(t) \/ Stop(t) \/ Call(t) \/ Return(t)

Spec == Init /\ [][Next]_vars
===============================================================================
