-------------------------------- MODULE StdfApp --------------------------------
(***************************************************************************)
(* The clients of the STDF message service that follow the earbud in and   *)
(* out of its case: the PMU debouncing (stdf_hal_pmu.c), the charger       *)
(* (stdf_bsp_charger.c), the one-wire bus and its protocol                 *)
(* (stdf_hal_vbus.c, stdf_app_protocal.c, stdf_app_ccp.c), the physical    *)
(* state (stdf_app_phy.c) and the bridge to the role-switching user        *)
(* interface (stdf_sdk_api.c).                                             *)
(*                                                                         *)
(* All of them run on the one message thread, a handler per mail; the      *)
(* interrupts (PMU, SY5501, bus DMA) and the timer thread post at any      *)
(* time.  Two handlers wait in the middle and are two actions each: the    *)
(* I2C read of the SY5501 and the transmission of a response.  The message *)
(* service is what StdfOs shows of it: first in, first out, a delayed      *)
(* message cannot be cancelled once it is posted, and may be thrown away   *)
(* when another one is due.  Delays have no length here.  Messages whose   *)
(* handler only writes the log are left out.                               *)
(***************************************************************************)
EXTENDS Naturals, Sequences

CONSTANTS
  Frames,     \* frames the case may send: [cmd, side, fcs]
  EarSide,    \* "left", "right" or "unknown"
  MaxEvents   \* bound: plugs, moves, ear events and frames

ASSUME AppAssumption ==
  /\ Frames \subseteq [cmd : {"open", "close", "other", "unknown"},
                       side : {"both", "left", "right"}, fcs : 0 .. 2]
  /\ EarSide \in {"left", "right", "unknown"}
  /\ MaxEvents \in Nat

VARIABLES
  world,    \* plugged: 5 V at the contacts; inCase: the SY5501's case bit
  pmu,      \* stdf_hal_pmu_data
  chg,      \* stdf_bsp_charger_plug_in, stdf_bsp_charger_in_case
  phy,      \* stdf_app_phy_data
  sdk,      \* box_state and box_state_future of the user interface
  vbus,     \* reception, the contents of recv_buf, the frame on the wire
  mail,     \* the mailbox
  delayed,  \* the delay table
  busy,     \* what the message thread waits for in the middle of a handler
  events,   \* number of events so far
  hist      \* history, see below

vars == <<world, pmu, chg, phy, sdk, vbus, mail, delayed, busy, events, hist>>

(* n numbers the plug event that started a debounce; frame is history: the *)
(* frame whose reception posted the mail                                   *)
Mail(to, id) == [to |-> to, id |-> id, n |-> 0, frame |-> {}]
Debounce(id, n) == [Mail("pmu", id) EXCEPT !.n = n]
PhyInitMsg == Mail("phy", "init")

DebounceIds == {"plug_in_debounced", "plug_out_debounced"}

(* History.  plugs: plug mails handled; late: a debounce message was       *)
(* already in the mailbox when a plug mail was handled; overtaken: the     *)
(* case bit changed while the handler held an older value of it; overrun:  *)
(* a frame began while another one's mail was waiting; discarded: a        *)
(* delayed message was thrown away.                                        *)
NoHistory == [plugs |-> 0, late |-> FALSE, overtaken |-> FALSE,
              overrun |-> FALSE, discarded |-> FALSE]

(* stdf_app_phy_get_state *)
State(p) ==
  IF p.inCase THEN (IF p.caseClose THEN "close" ELSE "open")
              ELSE (IF p.inEar THEN "ear" ELSE "out")

(* What the user interface is heading for *)
Aim(s) == IF s.future # "unknown" THEN s.future ELSE s.box

(* The tests of stdf_sdk_api_phy_set_state_*, after a boot that was not     *)
(* asked to enter pairing; a state they refuse is only logged               *)
Near(s, state) == s.future = state \/ s.box = state
Accepts(s, state) ==
  \/ s.box = "unknown"
  \/ state = "close" /\ Near(s, "open")
  \/ state = "open" /\ (Near(s, "close") \/ Near(s, "out"))
  \/ state = "out" /\ \/ s.future = "open"
                      \/ s.future = "unknown" /\ s.box = "open"
                      \/ Near(s, "ear")
  \/ state = "ear" /\ Near(s, "out")
SetState(s, state) == IF Accepts(s, state) THEN [s EXCEPT !.future = state] ELSE s

(* The states, never more than three, are set one after the other *)
Announce(s, states) ==
  LET Set(r, i) == IF i <= Len(states) THEN SetState(r, states[i]) ELSE r
  IN  Set(Set(Set(s, 1), 2), 3)

-------------------------------------------------------------------------------

(* After stdf_init: everything registered, the INIT message delayed *)
Init ==
  /\ world \in [plugged : BOOLEAN, inCase : BOOLEAN]
  /\ pmu = [plugIn |-> world.plugged, debounced |-> world.plugged]
  /\ chg = [plugIn |-> world.plugged, inCase |-> world.inCase]
  /\ phy = [initialized |-> FALSE, caseClose |-> FALSE, inCase |-> FALSE, inEar |-> FALSE]
  /\ sdk = [box |-> "unknown", future |-> "unknown"]
  /\ vbus = [rx |-> "idle", buf |-> {}, coming |-> {}]
  /\ mail = <<>>
  /\ delayed = {PhyInitMsg}
  /\ busy = [at |-> "idle", read |-> FALSE]
  /\ events = 0
  /\ hist = NoHistory

Event == events < MaxEvents /\ events' = events + 1
Post(m) == mail' = Append(mail, m)

-------------------------------------------------------------------------------
(* Interrupts, the timer thread and the outside *)

(* stdf_hal_pmu_irq_handler *)
Plug ==
  /\ Event
  /\ world' = [world EXCEPT !.plugged = ~ @]
  /\ Post(Mail("pmu", IF world.plugged THEN "plug_out" ELSE "plug_in"))
  /\ UNCHANGED <<pmu, chg, phy, sdk, vbus, delayed, busy, hist>>

(* stdf_bsp_charger_sy5501_irq_callback *)
Move ==
  /\ Event
  /\ world' = [world EXCEPT !.inCase = ~ @]
  /\ Post(Mail("charger", "sy5501_event"))
  /\ hist' = [hist EXCEPT !.overtaken = @ \/ busy.at = "sy5501"]
  /\ UNCHANGED <<pmu, chg, phy, sdk, vbus, delayed, busy>>

(* stdf_app_phy_event_in_ear, stdf_app_phy_event_out_ear *)
Ear ==
  /\ Event
  /\ \E id \in {"in_ear", "out_ear"} : Post(Mail("phy", id))
  /\ UNCHANGED <<world, pmu, chg, phy, sdk, vbus, delayed, busy, hist>>

(* The first bytes of a frame are written over what the buffer holds *)
FrameBegin ==
  /\ Event
  /\ vbus.rx = "idle"
  /\ \E f \in Frames :
       vbus' = [rx |-> "frame", buf |-> vbus.buf \cup {f}, coming |-> {f}]
  /\ hist' = [hist EXCEPT !.overrun = @ \/ \E i \in DOMAIN mail : mail[i].to = "protocal"]
  /\ UNCHANGED <<world, pmu, chg, phy, sdk, mail, delayed, busy>>

(* Seeded fault: a frame cut short by a line error is passed on as well *)
CarelessFrameEnd ==
  /\ vbus.rx = "frame"
  /\ vbus' = [vbus EXCEPT !.rx = "idle", !.coming = {}]
  /\ Post([Mail("protocal", "receive_data") EXCEPT !.frame = vbus.coming])
  /\ UNCHANGED <<world, pmu, chg, phy, sdk, delayed, busy, events, hist>>

(* stdf_hal_vbus_rx_dma_handler; either way reception starts again at the  *)
(* beginning of the one buffer                                             *)
FrameEnd ==
  /\ vbus.rx = "frame"
  /\ \/ /\ vbus' = [rx |-> "idle", buf |-> vbus.coming, coming |-> {}]
        /\ Post([Mail("protocal", "receive_data") EXCEPT !.frame = vbus.coming])
     \/ /\ vbus' = [vbus EXCEPT !.rx = "idle", !.coming = {}]   \* length or line error
        /\ UNCHANGED mail
  /\ UNCHANGED <<world, pmu, chg, phy, sdk, delayed, busy, events, hist>>

(* The timer callback posts one delayed message; the others that are due   *)
(* at the same time are lost                                               *)
Expire ==
  /\ \E m \in delayed, lost \in SUBSET delayed :
       /\ m \notin lost
       /\ Post(m)
       /\ delayed' = (delayed \ {m}) \ lost
       /\ hist' = [hist EXCEPT !.discarded = @ \/ lost # {}]
  /\ UNCHANGED <<world, pmu, chg, phy, sdk, vbus, busy, events>>

(* The user interface has worked off its events *)
BoxSettles ==
  /\ sdk.future # "unknown"
  /\ sdk' = [box |-> sdk.future, future |-> "unknown"]
  /\ UNCHANGED <<world, pmu, chg, phy, vbus, mail, delayed, busy, events, hist>>

-------------------------------------------------------------------------------
(* The message thread: a mail is taken and its handler runs *)

Handles(to, id) ==
  /\ busy.at = "idle"
  /\ mail # <<>>
  /\ Head(mail).to = to
  /\ Head(mail).id = id

Finish(posts) == mail' = Tail(mail) \o posts

(* Seeded fault: only the message of the own direction is cancelled *)
OwnDebounce(id) == {m \in delayed : m.id = id}

(* MessageCancelAll of both debounce messages *)
BothDebounces(id) == {m \in delayed : m.id \in DebounceIds}

(* stdf_hal_pmu_plug_in_handler, stdf_hal_pmu_plug_out_handler *)
PmuPlug(id, plugIn, later) ==
  /\ Handles("pmu", id)
  /\ pmu' = [pmu EXCEPT !.plugIn = plugIn]
  /\ delayed' = (delayed \ BothDebounces(later)) \cup {Debounce(later, hist.plugs + 1)}
  /\ hist' = [hist EXCEPT !.plugs = @ + 1,
                          !.late = @ \/ \E i \in DOMAIN mail : mail[i].id \in DebounceIds]
  /\ Finish(<<>>)
  /\ UNCHANGED <<world, chg, phy, sdk, vbus, busy, events>>

PmuPlugIn == PmuPlug("plug_in", TRUE, "plug_in_debounced")
PmuPlugOut == PmuPlug("plug_out", FALSE, "plug_out_debounced")

(* stdf_hal_pmu_plug_in_debounced_handler; its case falls through to        *)
(* stdf_hal_pmu_plug_out_debounced_handler                                  *)
Settled(id) ==
  /\ pmu.plugIn # pmu.debounced
  /\ id = "plug_out_debounced" => ~ pmu.plugIn

(* A change calls stdf_bsp_charger_pmu_callback *)
PmuDebounced ==
  /\ \E id \in DebounceIds :
       /\ Handles("pmu", id)
       /\ IF Settled(id)
          THEN /\ pmu' = [pmu EXCEPT !.debounced = pmu.plugIn]
               /\ chg' = [chg EXCEPT !.plugIn = pmu.plugIn]
               /\ Finish(<<Mail("charger", IF pmu.plugIn THEN "plug_in" ELSE "plug_out")>>)
          ELSE Finish(<<>>) /\ UNCHANGED <<pmu, chg>>
  /\ UNCHANGED <<world, phy, sdk, vbus, delayed, busy, events, hist>>

(* stdf_bsp_charger_plug_in_handler; the phy module turns the message into *)
(* CASE_CLOSE by way of CHG_PLUG_IN                                        *)
ChargerPlugIn ==
  /\ Handles("charger", "plug_in")
  /\ chg' = [chg EXCEPT !.plugIn = TRUE]
  /\ Finish(<<Mail("phy", "chg_plug_in")>>)
  /\ UNCHANGED <<world, pmu, phy, sdk, vbus, delayed, busy, events, hist>>

(* stdf_bsp_charger_plug_out_handler *)
ChargerPlugOut ==
  /\ Handles("charger", "plug_out")
  /\ chg' = [chg EXCEPT !.plugIn = FALSE]
  /\ Finish(<<>>)
  /\ UNCHANGED <<world, pmu, phy, sdk, vbus, delayed, busy, events, hist>>

(* stdf_bsp_charger_sy5501_event_handler: the register is read over I2C ... *)
SyRead ==
  /\ Handles("charger", "sy5501_event")
  /\ busy' = [at |-> "sy5501", read |-> world.inCase]
  /\ Finish(<<>>)
  /\ UNCHANGED <<world, pmu, chg, phy, sdk, vbus, delayed, events, hist>>

(* Seeded fault: the value is compared the wrong way round *)
InvertedSyDecide ==
  /\ busy.at = "sy5501"
  /\ mail' = IF busy.read = chg.inCase
             THEN Append(mail, Mail("charger", IF busy.read THEN "in_case" ELSE "out_case"))
             ELSE mail
  /\ busy' = [at |-> "idle", read |-> FALSE]
  /\ UNCHANGED <<world, pmu, chg, phy, sdk, vbus, delayed, events, hist>>

(* ... and compared with the state on record *)
SyDecide ==
  /\ busy.at = "sy5501"
  /\ mail' = IF busy.read # chg.inCase
             THEN Append(mail, Mail("charger", IF busy.read THEN "in_case" ELSE "out_case"))
             ELSE mail
  /\ busy' = [at |-> "idle", read |-> FALSE]
  /\ UNCHANGED <<world, pmu, chg, phy, sdk, vbus, delayed, events, hist>>

(* stdf_bsp_charger_in_case_handler, stdf_bsp_charger_out_case_handler *)
ChargerCase ==
  /\ \E in \in BOOLEAN :
       /\ Handles("charger", IF in THEN "in_case" ELSE "out_case")
       /\ chg' = [chg EXCEPT !.inCase = in]
       /\ Finish(<<Mail("phy", IF in THEN "case_plug_in" ELSE "case_plug_out")>>)
  /\ UNCHANGED <<world, pmu, phy, sdk, vbus, delayed, busy, events, hist>>

-------------------------------------------------------------------------------
(* stdf_app_phy_msg_handler *)

(* The charger's messages are turned into the module's own *)
PhyForward ==
  /\ \E pair \in {<<"chg_plug_in", "case_close">>, <<"case_plug_out", "out_case">>,
                  <<"case_plug_in", "in_case">>} :
       /\ Handles("phy", pair[1])
       /\ Finish(<<Mail("phy", pair[2])>>)
  /\ UNCHANGED <<world, pmu, chg, phy, sdk, vbus, delayed, busy, events, hist>>

(* Seeded fault: the step through the open case is left out *)
ShortWayOut(state) ==
  CASE state = "open" -> <<"open">>
    [] state = "out" -> <<"out">>
    [] state = "ear" -> <<"out", "ear">>
    [] OTHER -> <<>>

(* The states on the way from the closed case to state *)
WayOut(state) ==
  CASE state = "open" -> <<"open">>
    [] state = "out" -> <<"open", "out">>
    [] state = "ear" -> <<"open", "out", "ear">>
    [] OTHER -> <<>>

(* stdf_app_phy_imsg_init_handler *)
PhyInit ==
  /\ Handles("phy", "init")
  /\ phy' = [initialized |-> TRUE, caseClose |-> chg.plugIn, inCase |-> chg.inCase,
             inEar |-> TRUE]
  /\ sdk' = Announce(sdk, IF State(phy') = "close" THEN <<"close">> ELSE WayOut(State(phy')))
  /\ Finish(<<>>)
  /\ UNCHANGED <<world, pmu, chg, vbus, delayed, busy, events, hist>>

(* A message with its effect on the recorded state; what is announced       *)
(* depends on the state before and after, and is nothing before INIT        *)
PhyEvent(id, new, announced) ==
  /\ Handles("phy", id)
  /\ phy' = new
  /\ sdk' = IF phy.initialized THEN Announce(sdk, announced) ELSE sdk
  /\ Finish(<<>>)
  /\ UNCHANGED <<world, pmu, chg, vbus, delayed, busy, events, hist>>

(* The states on the way from old to the closed case; closing the lid can  *)
(* only end there from the open case, the longer ways are never taken      *)
WayIn(old) ==
  CASE old = "ear" -> <<"out", "open", "close">>
    [] old = "out" -> <<"open", "close">>
    [] old = "open" -> <<"close">>
    [] OTHER -> <<>>

PhyCaseClose ==
  LET new == [phy EXCEPT !.caseClose = TRUE]
  IN  PhyEvent("case_close", new,
               IF State(new) = "close" THEN WayIn(State(phy)) ELSE <<>>)

PhyCaseOpen ==
  LET new == [phy EXCEPT !.caseClose = FALSE]
  IN  PhyEvent("case_open", new,
               IF State(phy) = "close" THEN WayOut(State(new)) ELSE <<>>)

PhyOutCase ==
  LET new == [phy EXCEPT !.inCase = FALSE]
  IN  PhyEvent("out_case", new,
               CASE State(phy) = "close" -> WayOut(State(new))
                 [] State(phy) = "open" -> Tail(WayOut(State(new)))
                 [] OTHER -> <<>>)

(* only an earbud that was out of the ear is announced to be in the case *)
PhyInCase ==
  LET new == [phy EXCEPT !.inCase = TRUE]
  IN  PhyEvent("in_case", new,
               CASE State(new) # "open" -> <<>>
                 [] State(phy) = "ear" -> <<"out">>
                 [] State(phy) = "out" -> <<"out", "open">>
                 [] OTHER -> <<>>)

PhyOutEar ==
  LET new == [phy EXCEPT !.inEar = FALSE]
  IN  PhyEvent("out_ear", new, IF State(phy) = "ear" /\ State(new) = "out" THEN <<"out">>
                                                                      ELSE <<>>)

PhyInEar ==
  LET new == [phy EXCEPT !.inEar = TRUE]
  IN  PhyEvent("in_ear", new, IF State(phy) = "out" /\ State(new) = "ear" THEN <<"ear">>
                                                                      ELSE <<>>)

-------------------------------------------------------------------------------
(* stdf_app_protocal_msg_handler *)

(* The frame check: for this side, and at least one good check byte *)
FrameOK(f) ==
  /\ EarSide = "left" => f.side # "right"
  /\ EarSide = "right" => f.side # "left"
  /\ f.fcs > 0

(* A command of stdf_app_ccp_config_table is dispatched; any other is taken *)
(* and gets no response.                                                    *)
Answered(f) == FrameOK(f) /\ f.cmd # "unknown"

(* The command's handler in stdf_app_ccp.c posts and responds; for the      *)
(* response reception is stopped.  Of a buffer that is being overwritten    *)
(* either frame may be read, or one that is refused.                        *)
Receive ==
  /\ Handles("protocal", "receive_data")
  /\ \/ \E f \in vbus.buf :
          /\ Answered(f)
          /\ Finish(CASE f.cmd = "open" -> <<Mail("phy", "case_open")>>
                      [] f.cmd = "close" -> <<Mail("phy", "case_close")>>
                      [] OTHER -> <<>>)
          /\ vbus' = [vbus EXCEPT !.rx = "off", !.coming = {}]
          /\ busy' = [at |-> "tx", read |-> FALSE]
     \/ /\ (\E f \in vbus.buf : ~ Answered(f)) \/ \E f, g \in vbus.buf : f # g
        /\ Finish(<<>>)
        /\ UNCHANGED <<vbus, busy>>
  /\ UNCHANGED <<world, pmu, chg, phy, sdk, delayed, events, hist>>

(* Seeded fault: reception is not started again after a response *)
DeafTxDone ==
  /\ busy.at = "tx"
  /\ busy' = [at |-> "idle", read |-> FALSE]
  /\ UNCHANGED <<world, pmu, chg, phy, sdk, vbus, mail, delayed, events, hist>>

(* stdf_hal_vbus_tx_handle: sent, reception on *)
TxDone ==
  /\ busy.at = "tx"
  /\ busy' = [at |-> "idle", read |-> FALSE]
  /\ vbus' = [vbus EXCEPT !.rx = "idle"]
  /\ UNCHANGED <<world, pmu, chg, phy, sdk, mail, delayed, events, hist>>

-------------------------------------------------------------------------------

MessageThread ==
  \/ PmuPlugIn \/ PmuPlugOut \/ PmuDebounced
  \/ ChargerPlugIn \/ ChargerPlugOut \/ SyRead \/ SyDecide \/ ChargerCase
  \/ PhyForward \/ PhyInit \/ PhyCaseClose \/ PhyCaseOpen
  \/ PhyOutCase \/ PhyInCase \/ PhyOutEar \/ PhyInEar
  \/ Receive \/ TxDone

Next ==
  \/ Plug \/ Move \/ Ear \/ FrameBegin \/ FrameEnd
  \/ Expire \/ BoxSettles
  \/ MessageThread

Spec == Init /\ [][Next]_vars

(* The message thread and the timers run on; a frame ends. *)
FairSpec ==
  Spec /\ WF_vars(MessageThread) /\ WF_vars(Expire) /\ WF_vars(FrameEnd)

-------------------------------------------------------------------------------
(* Properties *)

(* What the modules send besides frames and debounce messages *)
PlainIds == {"plug_in", "plug_out", "sy5501_event", "in_case", "out_case", "init",
             "chg_plug_in", "case_plug_in", "case_plug_out", "case_close", "case_open",
             "in_ear", "out_ear"}

Message == [to : {"pmu", "charger", "phy", "protocal"},
            id : PlainIds \cup DebounceIds \cup {"receive_data"},
            n : Nat, frame : SUBSET Frames]

(* Types; in particular the buffer never holds more than the frames sent,  *)
(* and the thread waits in one place at a time.                            *)
TypeOK ==
  /\ world \in [plugged : BOOLEAN, inCase : BOOLEAN]
  /\ pmu \in [plugIn : BOOLEAN, debounced : BOOLEAN]
  /\ chg \in [plugIn : BOOLEAN, inCase : BOOLEAN]
  /\ phy \in [initialized : BOOLEAN, caseClose : BOOLEAN, inCase : BOOLEAN, inEar : BOOLEAN]
  /\ sdk.box \in {"unknown", "close", "open", "out", "ear"}
  /\ sdk.future \in {"unknown", "close", "open", "out", "ear"}
  /\ vbus \in [rx : {"off", "idle", "frame"}, buf : SUBSET Frames, coming : SUBSET Frames]
  /\ vbus.rx = "off" <=> busy.at = "tx"
  /\ \A i \in DOMAIN mail : mail[i] \in Message
  /\ \A m \in delayed : m \in Message
  /\ busy \in [at : {"idle", "sy5501", "tx"}, read : BOOLEAN]
  /\ events \in 0 .. MaxEvents

(* A change of the plug state is accepted only on the debounce message that *)
(* the latest plug event started, whatever bounced before: all others were  *)
(* cancelled.  The exception is one the timer had posted already; the code  *)
(* (and the missing break of its switch) lets it end the debounce early.    *)
DebouncedByLatest ==
  [][pmu'.debounced # pmu.debounced => Head(mail).n = hist.plugs \/ hist.late]_vars

Quiet == mail = <<>> /\ busy.at = "idle"

(* When nothing is on its way, PMU, charger and phy modules agree with the  *)
(* contacts and with each other, though every one keeps its own copy and    *)
(* learns of changes by messages that overtake a read of the register or    *)
(* the INIT message.                                                        *)
QuietAgreement ==
  Quiet =>
    /\ pmu.plugIn = world.plugged
    /\ delayed = {} => pmu.debounced = world.plugged \/ hist.discarded
    /\ chg.plugIn = pmu.debounced
    /\ chg.inCase = world.inCase \/ hist.overtaken
    /\ phy.initialized => phy.inCase = chg.inCase
    /\ phy.initialized \/ PhyInitMsg \in delayed \/ hist.discarded

(* The frame a handler reads is the one its mail was posted for, as long as *)
(* the case does not send again while that mail is waiting: one buffer      *)
(* serves both the bus and the message thread.                              *)
FrameIntact ==
  Handles("protocal", "receive_data") => vbus.buf = Head(mail).frame \/ hist.overrun

(* Once the user interface knows the state, every event but IN_CASE takes   *)
(* it to the new one: the states announced on the way are such that the     *)
(* bridge refuses none of them, also while older ones are being worked off. *)
StaysInStep ==
  [][/\ phy.initialized /\ phy # phy'
     /\ Aim(sdk) = State(phy)
     /\ ~ Handles("phy", "in_case")
     => Aim(sdk') = State(phy')]_vars

(* The mailbox is worked off, no handler waits for ever, and the bus is     *)
(* listened to again after every response.                                  *)
Settles == <>[](Quiet /\ delayed = {} /\ vbus.rx = "idle")
===============================================================================
