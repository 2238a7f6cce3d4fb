-------------------------------- MODULE StdfKey --------------------------------
(***************************************************************************)
(* The STDF key driver (stdf_bsp_key.c): the interrupt of the key's pin,   *)
(* the press and release messages it posts, and the gestures, each a       *)
(* message that is sent with a delay and cancelled when the key moves.     *)
(*                                                                         *)
(* The delay table and its timer are those of StdfOs, cut down to one      *)
(* entry per gesture and no other client.  The timer thread's priority is  *)
(* above the message thread's, so its callback runs as soon as it is due;  *)
(* only a call of the message thread that holds the table's mutex comes    *)
(* first.  A handler is therefore a step for the decision, taken with the  *)
(* time it reads at its start, and one for each call it makes.  The PRESS  *)
(* and RELEASE events, which wait for nothing, are left out.               *)
(***************************************************************************)
EXTENDS Integers, Sequences, FiniteSets

CONSTANTS
  Mask,          \* the gestures registered for, event_mask
  MultTime,      \* STDF_BSP_KEY_MULT_PRESS_TIME
  LongTime,      \* STDF_BSP_KEY_LONG_PRESS_TIME
  LongLongTime,  \* STDF_BSP_KEY_LONG_LONG_PRESS_TIME
  ContTime,      \* STDF_BSP_KEY_CONTINUOUS_PRESS_TIME
  MaxEdges       \* bound: changes of the pin

Clicks == {"single", "double", "triple"}
Holds == {"long", "longlong", "continuous"}
Gestures == Clicks \cup Holds

ASSUME KeyAssumption ==
  /\ Mask \subseteq Gestures
  /\ {MultTime, LongTime, LongLongTime, ContTime} \subseteq Nat \ {0}
  /\ MaxEdges \in Nat

(* 500 and 1500 ms: two presses without a release between them (one that is *)
(* missed) then never join a long press and a click                         *)
ASSUME PressAssumption == MultTime <= LongTime

VARIABLES
  gpio,    \* the pin, the edge its interrupt waits for, an interrupt latched
  isr,     \* where the interrupt handler stands, what it read, the edge it sets
  mail,    \* the mailbox: what happened, and (history) for which press
  calls,   \* the calls the running handler still has to make
  key,     \* press_count and the ticks since last_press_time, last_release_time
  table,   \* ticks until the gesture's message is due, or Absent
  timer,   \* the flagged entry, the timer's ticks or 0
  callback,\* of the timer: "due", or "held up" by a call under way
  failed,  \* the callback's assertion on the flag
  edges,   \* number of changes of the pin
  hist     \* history, see below

vars == <<gpio, isr, mail, calls, key, table, timer, callback, failed,
          edges, hist>>
service == <<table, timer, failed>>

Absent == -1

Delay(g) ==
  CASE g \in Clicks -> MultTime
    [] g = "long" -> LongTime
    [] g = "longlong" -> LongLongTime
    [] g = "continuous" -> ContTime

(* History.  presses: PRESS messages handled; down: the last one handled    *)
(* was a PRESS; stamp: presses when the gesture was sent; clicked, held:    *)
(* the last press that a delivered click, a delivered long press used;      *)
(* missed: the pin has changed while the interrupt handler ran; late: a     *)
(* hold was posted when its release was handled, or meanwhile; raced: see   *)
(* OnePressOneGesture.                                                      *)
NoHistory == [presses |-> 0, down |-> FALSE, stamp |-> [g \in Gestures |-> 0],
              clicked |-> 0, held |-> 0, missed |-> FALSE, late |-> FALSE,
              raced |-> FALSE]

(* stdf_bsp_key_gpio_init, stdf_app_key_init; the key may be down already *)
Init ==
  /\ gpio \in [pin : BOOLEAN, edge : {"rise"}, latched : {FALSE}]
  /\ isr = [at |-> "out", pressed |-> FALSE, edge |-> "rise"]
  /\ mail = <<>> /\ calls = <<>>
  /\ key = [count |-> 0, press |-> LongTime, release |-> MultTime]
  /\ table = [g \in Gestures |-> Absent]
  /\ timer = [flag |-> {}, left |-> 0] /\ callback = "none"
  /\ failed = FALSE /\ edges = 0
  /\ hist = [NoHistory EXCEPT !.missed = gpio.pin]

Saturated(n, max) == IF n < max THEN n + 1 ELSE max

-------------------------------------------------------------------------------
(* The pin and its interrupt *)

Edge(pin) == IF pin THEN "fall" ELSE "rise"

(* An edge of the kind waited for is latched *)
Move ==
  /\ edges < MaxEdges /\ edges' = edges + 1
  /\ gpio' = [gpio EXCEPT !.pin = ~ @, !.latched = @ \/ gpio.edge = Edge(gpio.pin)]
  /\ hist' = [hist EXCEPT !.missed = @ \/ isr.at # "out"]
  /\ UNCHANGED <<isr, mail, calls, key, service, callback>>

(* stdf_bsp_key_irq_handler reads the pin for the message ... *)
IrqRead ==
  /\ isr.at = "out" /\ gpio.latched
  /\ isr' = [isr EXCEPT !.at = "read", !.pressed = gpio.pin]
  /\ gpio' = [gpio EXCEPT !.latched = FALSE]
  /\ hist' = [hist EXCEPT !.missed = FALSE]
  /\ UNCHANGED <<mail, calls, key, service, callback, edges>>

(* Seeded fault: waits for the same edge again *)
StuckIrqChoose ==
  /\ isr.at = "read"
  /\ isr' = [isr EXCEPT !.at = "chosen", !.edge = gpio.edge]
  /\ UNCHANGED <<gpio, mail, calls, key, service, callback, edges, hist>>

(* ... and again for the edge to wait for ... *)
IrqChoose ==
  /\ isr.at = "read"
  /\ isr' = [isr EXCEPT !.at = "chosen", !.edge = Edge(gpio.pin)]
  /\ UNCHANGED <<gpio, mail, calls, key, service, callback, edges, hist>>

(* ... which hal_gpio_setup_irq sets, clearing what is latched; the message *)
(* is posted *)
IrqArm ==
  /\ isr.at = "chosen"
  /\ isr' = [isr EXCEPT !.at = "out"]
  /\ gpio' = [gpio EXCEPT !.edge = isr.edge, !.latched = FALSE]
  /\ mail' = Append(mail, <<IF isr.pressed THEN "PRESS" ELSE "RELEASE", 0>>)
  /\ UNCHANGED <<calls, key, service, callback, edges, hist>>

-------------------------------------------------------------------------------
(* The delay table: stdf_os_delay_msg_timer_start flags an earliest entry   *)
(* and starts the timer for it                                              *)

Waiting(tab) == {g \in Gestures : tab[g] # Absent}

TimerStart(tab) ==
  IF Waiting(tab) = {} THEN timer' = [flag |-> {}, left |-> 0]
  ELSE \E g \in Waiting(tab) :
         /\ \A h \in Waiting(tab) : tab[g] <= tab[h]
         /\ timer' = [flag |-> {g}, left |-> IF tab[g] = 0 THEN 1 ELSE tab[g]]

Cancel(g) ==
  /\ table' = [table EXCEPT ![g] = Absent]
  /\ IF timer.flag = {g} THEN TimerStart(table') ELSE UNCHANGED timer

SendLater(g) ==
  /\ table' = [table EXCEPT ![g] = Delay(g)]
  /\ TimerStart(table')

(* The message thread makes its next call; if the timer has expired, it is  *)
(* the call that held the mutex then, and no second one comes first         *)
Call ==
  /\ isr.at = "out" /\ ~failed
  /\ calls # <<>> /\ calls' = Tail(calls)
  /\ callback # "held up"
  /\ callback' = IF callback = "due" THEN "held up" ELSE callback
  /\ LET c == Head(calls)
     IN IF c.op = "cancel"
        THEN Cancel(c.g) /\ UNCHANGED hist
        ELSE SendLater(c.g) /\ hist' = [hist EXCEPT !.stamp[c.g] = hist.presses]
  /\ UNCHANGED <<gpio, isr, mail, key, failed, edges>>

(* stdf_os_delay_msg_timer_timeout: the flagged entry is posted, the others *)
(* that are due are dropped, the timer is started unless a call has done so *)
TimerRun ==
  /\ isr.at = "out" /\ ~failed
  /\ callback # "none" /\ callback' = "none"
  /\ \/ timer.flag = {} /\ failed' = TRUE /\ UNCHANGED <<mail, table, timer, hist>>
     \/ \E g \in timer.flag :
          LET due == {h \in Gestures \ {g} : table[h] = 0}
          IN /\ mail' = Append(mail, <<g, hist.stamp[g]>>)
             /\ table' = [h \in Gestures |-> IF h \in due \cup {g} THEN Absent ELSE table[h]]
             /\ IF timer.left > 0 THEN timer' = [timer EXCEPT !.flag = {}]
                                  ELSE TimerStart(table')
             /\ hist' = [hist EXCEPT
                  !.raced = @ \/ table[g] > 0 \/ (g # "continuous" /\ calls # <<>>),
                  !.late = @ \/ (g \in Holds /\ calls # <<>>)]
             /\ UNCHANGED failed
  /\ UNCHANGED <<gpio, isr, calls, key, edges>>

(* Seeded fault: entries that wait for nothing count as well *)
BlindCountdown(n) == n - 1

Countdown(n) == IF n > 0 THEN n - 1 ELSE n

(* A tick; the interrupt and the timer's callback run within less           *)
Tick ==
  /\ isr.at = "out" /\ ~gpio.latched /\ callback = "none" /\ ~failed
  /\ table' = [g \in Gestures |-> Countdown(table[g])]
  /\ timer' = [timer EXCEPT !.left = IF @ > 0 THEN @ - 1 ELSE 0]
  /\ callback' = IF timer.left = 1 THEN "due" ELSE "none"
  /\ key' = [key EXCEPT !.press = Saturated(@, LongTime),
                        !.release = Saturated(@, MultTime)]
  /\ UNCHANGED <<gpio, isr, mail, calls, failed, edges, hist>>

-------------------------------------------------------------------------------
(* The handlers of the message thread: stdf_bsp_key_event_reset, _set,      *)
(* which do nothing for a gesture that nobody registered for                *)

Make(op, g) == IF g \in Mask THEN <<[op |-> op, g |-> g]>> ELSE <<>>
Reset(g) == Make("cancel", g)
Set(g) == Make("cancel", g) \o Make("send", g)

ResetClicks == Reset("single") \o Reset("double") \o Reset("triple")

(* Seeded fault: a release leaves the repetitions alone *)
LongOnlyResetHolds == Reset("long") \o Reset("longlong")

ResetHolds == Reset("long") \o Reset("longlong") \o Reset("continuous")

(* Seeded fault: a press leaves the clicks alone *)
HoldsOnlyPressCalls == Set("long") \o Set("longlong")

PressCalls == Set("long") \o Set("longlong") \o ResetClicks

ReleaseCalls(n) ==
  ResetHolds \o
    CASE n = 1 -> ResetClicks \o Set("single")
      [] n = 2 -> ResetClicks \o Set("double")
      [] n = 3 -> ResetClicks \o Set("triple")
      [] n > 3 -> Reset("triple")
      [] OTHER -> <<>>

(* A handler starts; the timer thread comes first *)
Take(what) ==
  /\ isr.at = "out" /\ ~failed /\ callback = "none" /\ calls = <<>>
  /\ mail # <<>> /\ Head(mail)[1] = what
  /\ mail' = Tail(mail)
  /\ UNCHANGED <<gpio, isr, service, callback, edges>>

(* stdf_bsp_key_state_changed *)
Press ==
  /\ Take("PRESS")
  /\ key' = [key EXCEPT !.count = IF key.release >= MultTime THEN 1 ELSE @ + 1,
                        !.press = 0]
  /\ calls' = PressCalls
  /\ hist' = [hist EXCEPT !.presses = @ + 1, !.down = TRUE]

Release ==
  /\ Take("RELEASE")
  /\ LET n == IF key.press >= LongTime THEN 0 ELSE key.count
     IN /\ key' = [key EXCEPT !.count = n, !.release = 0]
        /\ calls' = ReleaseCalls(n)
  /\ hist' = [hist EXCEPT !.down = FALSE, !.raced = @ \/ ~hist.down,
                          !.late = \E i \in DOMAIN mail : mail[i][1] \in Holds]

(* stdf_bsp_key_event_msg_handler; the callback itself leaves the driver    *)
(* alone                                                                    *)
Deliver(g) ==
  /\ Take(g)
  /\ calls' = IF g \in {"long", "continuous"}
              THEN Reset("continuous") \o Set("continuous") ELSE <<>>
  /\ LET s == Head(mail)[2]
     IN hist' = [hist EXCEPT !.clicked = IF g \in Clicks THEN s ELSE @,
                             !.held = IF g = "long" THEN s ELSE @]
  /\ UNCHANGED key

Next ==
  \/ Move \/ IrqRead \/ IrqChoose \/ IrqArm
  \/ Call \/ TimerRun \/ Tick
  \/ Press \/ Release \/ \E g \in Gestures : Deliver(g)

Spec == Init /\ [][Next]_vars

-------------------------------------------------------------------------------
(* Properties *)

(* Types; in particular no free entry of the table counts down, and the     *)
(* flag is on an entry that waits.                                          *)
TypeOK ==
  /\ gpio \in [pin : BOOLEAN, edge : {"rise", "fall"}, latched : BOOLEAN]
  /\ isr \in [at : {"out", "read", "chosen"}, pressed : BOOLEAN,
              edge : {"rise", "fall"}]
  /\ \A i \in DOMAIN mail : mail[i] \in ({"PRESS", "RELEASE"} \cup Gestures) \X (0 .. MaxEdges)
  /\ \A i \in DOMAIN calls : calls[i] \in [op : {"cancel", "send"}, g : Mask]
  /\ key \in [count : 0 .. MaxEdges, press : 0 .. LongTime, release : 0 .. MultTime]
  /\ \A g \in Gestures : table[g] \in Absent .. Delay(g)
  /\ timer.left \in Nat /\ timer.flag \subseteq Waiting(table)
  /\ callback \in {"none", "due", "held up"} /\ failed \in BOOLEAN
  /\ edges \in 0 .. MaxEdges

Presses(g) == CASE g = "single" -> 1 [] g = "double" -> 2 [] g = "triple" -> 3

(* No press counts twice: a click of n presses that is delivered is of      *)
(* presses after those of the click and the long press delivered before it, *)
(* and a long press is of none that a click had, whatever the mailbox held  *)
(* and however late the handlers ran: the driver measures pauses when it    *)
(* handles the messages, cancels gestures it takes back, and lets the delay *)
(* decide between them.  Excepted (raced) once a gesture was posted early,  *)
(* or while a handler was between its calls, and once two releases came in  *)
(* a row.                                                                   *)
OnePressOneGesture ==
  [][\A g \in Gestures : Deliver(g) /\ ~hist.raced =>
       LET s == Head(mail)[2]
       IN /\ g \in Clicks => s - Presses(g) >= hist.clicked /\ s - Presses(g) >= hist.held
          /\ g = "long" => s > hist.clicked /\ s > hist.held]_vars

(* Nothing repeats or is held once the key is up: when its release has been *)
(* handled, no long press or repetition waits in the table or the mailbox,  *)
(* although each repetition sends the next one.  Excepted (late) if one had *)
(* been posted when the release was handled, or was posted between two      *)
(* calls of its handler: a repetition then goes on with the key up.         *)
HoldEnds ==
  ~hist.down /\ calls = <<>> /\ ~hist.late =>
    \A g \in Holds : /\ table[g] = Absent
                     /\ \A i \in DOMAIN mail : mail[i][1] # g

(* The driver does not lose the key: when nothing is on its way, the last   *)
(* message handled says what the pin says and the interrupt waits for the   *)
(* next change, though each edge is armed by hand and the pin may bounce    *)
(* before the interrupt is taken.  Excepted (missed) if it changed while    *)
(* the handler ran, between its two readings or before the edge was set.    *)
KeyFollowed ==
  mail = <<>> /\ calls = <<>> /\ isr.at = "out" /\ ~gpio.latched /\ ~hist.missed =>
    hist.down = gpio.pin /\ gpio.edge = Edge(gpio.pin)
===============================================================================
