---------------------------- MODULE StdfApp_proofs ----------------------------
(***************************************************************************)
(* Proofs about StdfApp for every set of frames and number of events.       *)
(* First the two properties that say what a message in the mailbox may     *)
(* still be taken for when its handler runs (Inv).  Then the agreement of  *)
(* the copies that the modules keep of each other's state (Agree): each    *)
(* is right already, or the last mail about it will put it right.  Last    *)
(* the types, and the user interface's way from one state to the next.     *)
(***************************************************************************)
EXTENDS StdfApp, SequenceTheorems, TLAPS

Contents(s) == {s[i] : i \in 1 .. Len(s)}

(* Messages that are no frame and no debounce *)
Plain == {m \in Message : m.to # "protocal" /\ m.id \notin DebounceIds}

(* A message goes to the end of the mailbox. *)
LEMMA PostContents ==
  ASSUME mail \in Seq(Message), NEW m \in Message, Post(m)
  PROVE  mail' \in Seq(Message) /\ Contents(mail') = Contents(mail) \cup {m}
<1>1. Len(mail) \in Nat
  BY LenProperties
<1>2. /\ mail' = Append(mail, m) /\ mail' \in Seq(Message)
      /\ Len(mail') = Len(mail) + 1
      /\ \A i \in 1 .. Len(mail) : mail'[i] = mail[i]
      /\ mail'[Len(mail) + 1] = m
  BY DEF Post
<1>3. \A i \in 1 .. Len(mail') : i \in 1 .. Len(mail) \/ i = Len(mail) + 1
  BY <1>1, <1>2
<1>. QED
  BY <1>1, <1>2, <1>3 DEF Contents

(* What a handler that posts at most one plain message leaves *)
Handled ==
  /\ mail' \in Seq(Message)
  /\ Contents(mail') \subseteq Contents(mail) \cup Plain

LEMMA FinishHandled ==
  ASSUME mail \in Seq(Message), mail # <<>>,
         NEW p \in {<<>>} \cup {<<m>> : m \in Plain}, Finish(p)
  PROVE  Handled
<1>1. /\ Tail(mail) \in Seq(Message) /\ Len(Tail(mail)) = Len(mail) - 1
      /\ \A i \in 1 .. Len(Tail(mail)) : Tail(mail)[i] = mail[i + 1]
  BY HeadTailProperties
<1>2. Len(mail) \in Nat /\ Len(Tail(mail)) \in Nat
  BY <1>1, LenProperties
<1>3. Contents(Tail(mail)) \subseteq Contents(mail)
  <2>1. \A i \in 1 .. Len(Tail(mail)) : i + 1 \in 1 .. Len(mail)
    BY <1>1, <1>2
  <2>. QED
    BY <2>1, <1>1 DEF Contents
<1>4. p \in Seq(Message) /\ Len(p) \in Nat /\ \A i \in 1 .. Len(p) : p[i] \in Plain
  <2>1. CASE p = <<>>
    BY <2>1
  <2>2. ASSUME NEW m \in Plain, p = <<m>> PROVE p \in Seq(Message) /\ Len(p) = 1 /\ p[1] = m
    <3>1. m \in Message
      BY DEF Plain
    <3>. QED
      BY <2>2, <3>1
  <2>. QED
    BY <2>1, <2>2
<1>5. /\ mail' \in Seq(Message) /\ Len(mail') = Len(Tail(mail)) + Len(p)
      /\ \A i \in 1 .. Len(Tail(mail)) + Len(p) :
            mail'[i] = IF i <= Len(Tail(mail)) THEN Tail(mail)[i]
                       ELSE p[i - Len(Tail(mail))]
  BY <1>1, <1>4, ConcatProperties DEF Finish
<1>6. \A i \in 1 .. Len(mail') :
        \/ i \in 1 .. Len(Tail(mail)) /\ mail'[i] = Tail(mail)[i]
        \/ i - Len(Tail(mail)) \in 1 .. Len(p) /\ mail'[i] = p[i - Len(Tail(mail))]
  BY <1>2, <1>4, <1>5
<1>7. \A i \in 1 .. Len(mail') : mail'[i] \in Contents(Tail(mail)) \cup Plain
  BY <1>4, <1>6 DEF Contents
<1>. QED
  BY <1>3, <1>5, <1>7 DEF Handled, Contents

(* The messages the modules send are plain. *)
LEMMA PlainMail ==
  ASSUME NEW to \in {"pmu", "charger", "phy"}, NEW id \in PlainIds
  PROVE  Mail(to, id) \in Plain
BY DEF Mail, Plain, Message, PlainIds, DebounceIds

LEMMA DebounceMail ==
  ASSUME NEW id \in DebounceIds, NEW n \in Nat
  PROVE  /\ Debounce(id, n) \in Message
         /\ Debounce(id, n).to = "pmu" /\ Debounce(id, n).id = id /\ Debounce(id, n).n = n
<1>2. Debounce(id, n) = [to |-> "pmu", id |-> id, n |-> n, frame |-> {}]
  BY DEF Debounce, Mail
<1>. QED
  BY <1>2 DEF Message

-------------------------------------------------------------------------------
Types ==
  /\ mail \in Seq(Message)
  /\ delayed \subseteq Message /\ \A m \in delayed : m.to # "protocal"
  /\ pmu \in [plugIn : BOOLEAN, debounced : BOOLEAN]
  /\ vbus \in [rx : {"off", "idle", "frame"}, buf : SUBSET Frames, coming : SUBSET Frames]
  /\ hist \in [plugs : Nat, late : BOOLEAN, overtaken : BOOLEAN, overrun : BOOLEAN,
               discarded : BOOLEAN]

(* A frame's mail goes with the buffer it was posted for, and while the next *)
(* frame comes in there is none.                                             *)
FrameInv ==
  hist.overrun \/
    \A m \in Contents(mail) : m.to = "protocal" => vbus.rx # "frame" /\ m.frame = vbus.buf

(* Every debounce message that still waits is of the latest plug event. *)
DebounceInv ==
  hist.late \/
    \A m \in Contents(mail) \cup delayed : m.id \in DebounceIds => m.n = hist.plugs

Inv == Types /\ FrameInv /\ DebounceInv

LEMMA InitInv == Init => Inv
<1>. SUFFICES ASSUME Init PROVE Inv
  OBVIOUS
<1>1. PhyInitMsg \in Plain
  BY PlainMail DEF PhyInitMsg, PlainIds
<1>2. Contents(<<>>) = {} /\ <<>> \in Seq(Message)
  BY EmptySeq DEF Contents
<1>3. pmu \in [plugIn : BOOLEAN, debounced : BOOLEAN]
  BY DEF Init
<1>. QED
  BY <1>1, <1>2, <1>3 DEF Init, Inv, Types, FrameInv, DebounceInv, NoHistory, Plain

(* A handler that touches neither the bus nor the debouncing. *)
LEMMA QuietHandler ==
  ASSUME Inv, Handled, UNCHANGED <<vbus, delayed, hist>>,
         pmu' \in [plugIn : BOOLEAN, debounced : BOOLEAN]
  PROVE  Inv'
BY DEF Inv, Handled, Types, FrameInv, DebounceInv, Plain

(* So does a message that is posted from outside. *)
LEMMA QuietPost ==
  ASSUME Inv, NEW m \in Plain, Post(m), UNCHANGED <<pmu, vbus, delayed>>,
         hist' \in [plugs : {hist.plugs}, late : {hist.late}, overtaken : BOOLEAN,
                    overrun : {hist.overrun}, discarded : BOOLEAN]
  PROVE  Inv'
<1>1. mail' \in Seq(Message) /\ Contents(mail') = Contents(mail) \cup {m}
  BY PostContents DEF Inv, Types, Plain
<1>. QED
  BY <1>1 DEF Inv, Types, FrameInv, DebounceInv, Plain

LEMMA PlugInv == ASSUME Inv, Plug PROVE Inv'
<1>1. PICK id \in {"plug_out", "plug_in"} : Post(Mail("pmu", id))
  BY DEF Plug
<1>2. Mail("pmu", id) \in Plain
  BY PlainMail DEF PlainIds
<1>. QED
  BY <1>1, <1>2, QuietPost DEF Plug, Inv, Types

LEMMA MoveInv == ASSUME Inv, Move PROVE Inv'
<1>1. Mail("charger", "sy5501_event") \in Plain
  BY PlainMail DEF PlainIds
<1>2. hist' \in [plugs : {hist.plugs}, late : {hist.late}, overtaken : BOOLEAN,
                 overrun : {hist.overrun}, discarded : BOOLEAN]
  BY DEF Move, Inv, Types
<1>. QED
  BY <1>1, <1>2, QuietPost DEF Move

LEMMA EarInv == ASSUME Inv, Ear PROVE Inv'
<1>1. PICK id \in {"in_ear", "out_ear"} : Post(Mail("phy", id))
  BY DEF Ear
<1>2. Mail("phy", id) \in Plain
  BY PlainMail DEF PlainIds
<1>. QED
  BY <1>1, <1>2, QuietPost DEF Ear, Inv, Types

LEMMA FrameBeginInv == ASSUME Inv, FrameBegin PROVE Inv'
<1>1. PICK f \in Frames :
        vbus' = [rx |-> "frame", buf |-> vbus.buf \cup {f}, coming |-> {f}]
  BY DEF FrameBegin
<1>2. /\ hist' = [hist EXCEPT !.overrun = @ \/ \E i \in DOMAIN mail : mail[i].to = "protocal"]
      /\ UNCHANGED <<pmu, mail, delayed>>
  BY DEF FrameBegin
<1>3. hist'.overrun \/ \A m \in Contents(mail) : m.to # "protocal"
  <2>1. DOMAIN mail = 1 .. Len(mail)
    BY LenProperties DEF Inv, Types
  <2>2. hist'.overrun = (hist.overrun \/ \E i \in DOMAIN mail : mail[i].to = "protocal")
    BY <1>2 DEF Inv, Types
  <2>. QED
    BY <2>1, <2>2 DEF Contents
<1>. QED
  BY <1>1, <1>2, <1>3 DEF Inv, Types, FrameInv, DebounceInv

LEMMA FrameEndInv == ASSUME Inv, FrameEnd PROVE Inv'
<1>1. vbus.rx = "frame" /\ UNCHANGED <<pmu, delayed, hist>>
  BY DEF FrameEnd
<1>2. CASE vbus' = [rx |-> "idle", buf |-> vbus.coming, coming |-> {}]
           /\ Post([Mail("protocal", "receive_data") EXCEPT !.frame = vbus.coming])
  <2>. DEFINE m == [to |-> "protocal", id |-> "receive_data", n |-> 0, frame |-> vbus.coming]
  <2>1. m \in Message /\ Post(m)
    BY <1>2 DEF Mail, Message, Inv, Types
  <2>2. mail' \in Seq(Message) /\ Contents(mail') = Contents(mail) \cup {m}
    BY <2>1, PostContents DEF Inv, Types
  <2>. QED
    BY <1>1, <1>2, <2>2 DEF Inv, Types, FrameInv, DebounceInv, DebounceIds
<1>3. CASE vbus' = [vbus EXCEPT !.rx = "idle", !.coming = {}] /\ UNCHANGED mail
  BY <1>1, <1>3 DEF Inv, Types, FrameInv, DebounceInv
<1>. QED
  BY <1>2, <1>3 DEF FrameEnd

LEMMA ExpireInv == ASSUME Inv, Expire PROVE Inv'
<1>1. PICK m \in delayed, lost \in SUBSET delayed :
        /\ Post(m)
        /\ delayed' = (delayed \ {m}) \ lost
        /\ hist' = [hist EXCEPT !.discarded = @ \/ lost # {}]
  BY DEF Expire
<1>2. m \in Message
  BY DEF Inv, Types
<1>3. mail' \in Seq(Message) /\ Contents(mail') = Contents(mail) \cup {m}
  BY <1>1, <1>2, PostContents DEF Inv, Types
<1>. QED
  BY <1>1, <1>3 DEF Expire, Inv, Types, FrameInv, DebounceInv

LEMMA PmuPlugInv ==
  ASSUME Inv, NEW id, NEW plugIn \in BOOLEAN, NEW later \in DebounceIds,
         PmuPlug(id, plugIn, later)
  PROVE  Inv'
<1>. DEFINE d == Debounce(later, hist.plugs + 1)
<1>1. mail # <<>> /\ Finish(<<>>) /\ vbus' = vbus
  BY DEF PmuPlug, Handles
<1>2. Handled
  BY <1>1, FinishHandled DEF Inv, Types
<1>3. d \in Message /\ d.to = "pmu" /\ d.id = later /\ d.n = hist.plugs + 1
  BY DebounceMail DEF Inv, Types
<1>. HIDE DEF d
<1>4. /\ delayed' = {m \in delayed : m.id \notin DebounceIds} \cup {d}
      /\ pmu' = [pmu EXCEPT !.plugIn = plugIn]
      /\ hist' = [hist EXCEPT !.plugs = @ + 1,
                              !.late = @ \/ \E i \in DOMAIN mail : mail[i].id \in DebounceIds]
  BY DEF PmuPlug, BothDebounces, d
<1>5. hist'.late \/ \A m \in Contents(mail) : m.id \notin DebounceIds
  <2>1. DOMAIN mail = 1 .. Len(mail)
    BY LenProperties DEF Inv, Types
  <2>2. hist'.late = (hist.late \/ \E i \in DOMAIN mail : mail[i].id \in DebounceIds)
    BY <1>4 DEF Inv, Types
  <2>. QED
    BY <2>1, <2>2 DEF Contents
<1>6. Types'
  <2>1. pmu' \in [plugIn : BOOLEAN, debounced : BOOLEAN]
    BY <1>4 DEF Inv, Types
  <2>2. hist' \in [plugs : Nat, late : BOOLEAN, overtaken : BOOLEAN, overrun : BOOLEAN,
                   discarded : BOOLEAN]
    <3>. DEFINE late == hist.late \/ \E i \in DOMAIN mail : mail[i].id \in DebounceIds
    <3>1. late \in BOOLEAN /\ hist' = [hist EXCEPT !.plugs = @ + 1, !.late = late]
      BY <1>4
    <3>. HIDE DEF late
    <3>2. PICK b \in BOOLEAN : hist' = [hist EXCEPT !.plugs = @ + 1, !.late = b]
      BY <3>1, Zenon
    <3>3. hist.plugs + 1 \in Nat
      BY DEF Inv, Types
    <3>4. hist' = [plugs |-> hist.plugs + 1, late |-> b, overtaken |-> hist.overtaken,
                   overrun |-> hist.overrun, discarded |-> hist.discarded]
      BY <3>2 DEF Inv, Types
    <3>. QED
      BY <3>3, <3>4 DEF Inv, Types
  <2>3. delayed' \subseteq Message /\ \A m \in delayed' : m.to # "protocal"
    BY <1>3, <1>4 DEF Inv, Types
  <2>. QED
    BY <1>1, <1>2, <2>1, <2>2, <2>3 DEF Inv, Types, Handled
<1>7. FrameInv'
  BY <1>1, <1>2, <1>4 DEF Inv, Types, FrameInv, Handled, Plain
<1>8. DebounceInv'
  BY <1>2, <1>3, <1>4, <1>5 DEF Inv, Types, DebounceInv, Handled, Plain
<1>. QED
  BY <1>6, <1>7, <1>8 DEF Inv

(* A handler that posts one plain message or none *)
LEMMA QuietFinish ==
  ASSUME Inv, mail # <<>>, NEW p \in {<<>>} \cup {<<m>> : m \in Plain}, Finish(p),
         UNCHANGED <<vbus, delayed, hist>>,
         pmu' \in [plugIn : BOOLEAN, debounced : BOOLEAN]
  PROVE  Inv'
<1>1. Handled
  BY FinishHandled DEF Inv, Types
<1>. QED
  BY <1>1, QuietHandler

LEMMA PmuDebouncedInv == ASSUME Inv, PmuDebounced PROVE Inv'
<1>1. PICK id \in DebounceIds :
        /\ Handles("pmu", id)
        /\ IF Settled(id)
           THEN /\ pmu' = [pmu EXCEPT !.debounced = pmu.plugIn]
                /\ chg' = [chg EXCEPT !.plugIn = pmu.plugIn]
                /\ Finish(<<Mail("charger", IF pmu.plugIn THEN "plug_in" ELSE "plug_out")>>)
           ELSE Finish(<<>>) /\ UNCHANGED <<pmu, chg>>
  BY DEF PmuDebounced
<1>2. mail # <<>> /\ UNCHANGED <<vbus, delayed, hist>>
  BY <1>1 DEF PmuDebounced, Handles
<1>3. pmu' \in [plugIn : BOOLEAN, debounced : BOOLEAN]
  BY <1>1 DEF Inv, Types
<1>4. Mail("charger", IF pmu.plugIn THEN "plug_in" ELSE "plug_out") \in Plain
  BY PlainMail DEF PlainIds
<1>5. \E p \in {<<>>} \cup {<<m>> : m \in Plain} : Finish(p)
  BY <1>1, <1>4
<1>. QED
  BY <1>2, <1>3, <1>5, QuietFinish

LEMMA ChargerInv ==
  ASSUME Inv, ChargerPlugIn \/ ChargerPlugOut \/ SyRead \/ ChargerCase \/ PhyForward
  PROVE  Inv'
<1>1. mail # <<>> /\ UNCHANGED <<pmu, vbus, delayed, hist>>
  BY DEF ChargerPlugIn, ChargerPlugOut, SyRead, ChargerCase, PhyForward, Handles
<1>2. \A id \in PlainIds : Mail("phy", id) \in Plain
  BY PlainMail
<1>3. \E p \in {<<>>} \cup {<<m>> : m \in Plain} : Finish(p)
  <2>1. CASE ChargerPlugIn
    BY <2>1, <1>2 DEF ChargerPlugIn, PlainIds
  <2>2. CASE ChargerPlugOut \/ SyRead
    BY <2>2 DEF ChargerPlugOut, SyRead
  <2>3. CASE ChargerCase
    BY <2>3, <1>2 DEF ChargerCase, PlainIds
  <2>4. CASE PhyForward
    <3>1. PICK pair \in {<<"chg_plug_in", "case_close">>, <<"case_plug_out", "out_case">>,
                         <<"case_plug_in", "in_case">>} : Finish(<<Mail("phy", pair[2])>>)
      BY <2>4 DEF PhyForward
    <3>2. pair[2] \in PlainIds
      BY DEF PlainIds
    <3>. QED
      BY <3>1, <3>2, <1>2
  <2>. QED
    BY <2>1, <2>2, <2>3, <2>4
<1>. QED
  BY <1>1, <1>3, QuietFinish DEF Inv, Types

LEMMA SyDecideInv == ASSUME Inv, SyDecide PROVE Inv'
<1>1. UNCHANGED <<pmu, vbus, delayed, hist>>
  BY DEF SyDecide
<1>2. CASE UNCHANGED mail
  BY <1>1, <1>2 DEF Inv, Types, FrameInv, DebounceInv
<1>3. CASE \E id \in {"in_case", "out_case"} : Post(Mail("charger", id))
  <2>1. PICK id \in {"in_case", "out_case"} : Post(Mail("charger", id))
    BY <1>3
  <2>2. Mail("charger", id) \in Plain
    BY PlainMail DEF PlainIds
  <2>. QED
    BY <1>1, <2>1, <2>2, QuietPost DEF Inv, Types
<1>. QED
  BY <1>2, <1>3 DEF SyDecide, Post

LEMMA PhyInv ==
  ASSUME Inv,
         \/ PhyInit \/ PhyCaseClose \/ PhyCaseOpen
         \/ PhyOutCase \/ PhyInCase \/ PhyOutEar \/ PhyInEar
  PROVE  Inv'
<1>1. mail # <<>> /\ Finish(<<>>) /\ UNCHANGED <<pmu, vbus, delayed, hist>>
  BY DEF PhyInit, PhyCaseClose, PhyCaseOpen, PhyOutCase, PhyInCase, PhyOutEar, PhyInEar,
         PhyEvent, Handles
<1>. QED
  BY <1>1, QuietFinish DEF Inv, Types

(* The response stops reception; the buffer stays as it is. *)
LEMMA ReceiveInv == ASSUME Inv, Receive PROVE Inv'
<1>1. mail # <<>> /\ UNCHANGED <<pmu, delayed, hist>>
  BY DEF Receive, Handles
<1>2. \A id \in PlainIds : Mail("phy", id) \in Plain
  BY PlainMail
<1>3. \E p \in {<<>>} \cup {<<m>> : m \in Plain} : Finish(p)
  BY <1>2 DEF Receive, PlainIds
<1>4. Handled
  BY <1>1, <1>3, FinishHandled DEF Inv, Types
<1>5. vbus' \in {vbus, [vbus EXCEPT !.rx = "off", !.coming = {}]}
  BY DEF Receive
<1>. QED
  BY <1>1, <1>4, <1>5 DEF Inv, Types, FrameInv, DebounceInv, Handled, Plain

LEMMA TxDoneInv == ASSUME Inv, TxDone PROVE Inv'
BY DEF TxDone, Inv, Types, FrameInv, DebounceInv

-------------------------------------------------------------------------------
LEMMA NextInv == ASSUME Inv, [Next]_vars PROVE Inv'
<1>1. CASE Plug \/ Move \/ Ear
  BY <1>1, PlugInv, MoveInv, EarInv
<1>2. CASE FrameBegin \/ FrameEnd \/ Expire
  BY <1>2, FrameBeginInv, FrameEndInv, ExpireInv
<1>3. CASE BoxSettles \/ UNCHANGED vars
  BY <1>3 DEF BoxSettles, vars, Inv, Types, FrameInv, DebounceInv
<1>4. CASE MessageThread
  <2>1. CASE PmuPlugIn \/ PmuPlugOut
    BY <2>1, PmuPlugInv DEF PmuPlugIn, PmuPlugOut, DebounceIds
  <2>. QED
    BY <1>4, <2>1, PmuDebouncedInv, ChargerInv, SyDecideInv, PhyInv, ReceiveInv, TxDoneInv
       DEF MessageThread
<1>. QED
  BY <1>1, <1>2, <1>3, <1>4 DEF Next

(* For a mailbox of messages, its head is one of its contents. *)
LEMMA HeadInContents ==
  ASSUME Inv, mail # <<>>
  PROVE  Head(mail) \in Contents(mail)
<1>1. Head(mail) = mail[1] /\ Len(mail) \in Nat \ {0}
  BY HeadTailProperties, LenProperties, EmptySeq DEF Inv, Types
<1>. QED
  BY <1>1 DEF Contents

(* The frame a handler reads is the one its mail was posted for, as long as *)
(* no frame began while a mail was waiting (stdf_hal_vbus.c, the one        *)
(* recv_buf).                                                               *)
THEOREM FrameKept == Spec => []FrameIntact
<1>1. Inv => FrameIntact
  <2>. SUFFICES ASSUME Inv, Handles("protocal", "receive_data"), ~ hist.overrun
                PROVE  vbus.buf = Head(mail).frame
    BY DEF FrameIntact
  <2>1. Head(mail) \in Contents(mail) /\ Head(mail).to = "protocal"
    BY HeadInContents DEF Handles
  <2>. QED
    BY <2>1 DEF Inv, FrameInv
<1>. QED
  BY <1>1, InitInv, NextInv, PTL DEF Spec

(* The debounced plug state changes only on the message of the latest plug  *)
(* event, unless one was in the mailbox already when the next event came    *)
(* (stdf_hal_pmu.c, MessageCancelAll of both).                              *)
THEOREM LatestDebounce == Spec => DebouncedByLatest
<1>1. ASSUME Inv, [Next]_vars
      PROVE  [pmu'.debounced # pmu.debounced => Head(mail).n = hist.plugs \/ hist.late]_vars
  <2>. SUFFICES ASSUME Next, pmu'.debounced # pmu.debounced, ~ hist.late
                PROVE  Head(mail).n = hist.plugs
    BY <1>1
  <2>1. PmuDebounced
    <3>1. ASSUME NEW id, NEW b, NEW later, PmuPlug(id, b, later)
          PROVE  pmu'.debounced = pmu.debounced
      BY <3>1, <1>1 DEF PmuPlug, Inv, Types
    <3>2. \/ PmuPlugIn \/ PmuPlugOut \/ PmuDebounced \/ UNCHANGED pmu
      BY DEF Next, MessageThread, Plug, Move, Ear, FrameBegin, FrameEnd, Expire, BoxSettles,
             ChargerPlugIn, ChargerPlugOut, SyRead, SyDecide, ChargerCase, PhyForward,
             PhyInit, PhyCaseClose, PhyCaseOpen, PhyOutCase, PhyInCase, PhyOutEar, PhyInEar,
             PhyEvent, Receive, TxDone
    <3>. QED
      BY <3>1, <3>2 DEF PmuPlugIn, PmuPlugOut
  <2>2. mail # <<>> /\ Head(mail).id \in DebounceIds
    BY <2>1 DEF PmuDebounced, Handles
  <2>. QED
    BY <1>1, <2>2, HeadInContents DEF Inv, DebounceInv
<1>. QED
  BY <1>1, InitInv, NextInv, PTL DEF Spec, DebouncedByLatest

-------------------------------------------------------------------------------
(* What the mailbox says last.  A module that keeps a copy of another one's *)
(* state learns of a change by a mail; the copy is right if the last mail   *)
(* on its way says so, or if none is on its way and it is right already.    *)

Is(m, to, ids) == m.to = to /\ m.id \in ids

None(q, to, ids) == \A i \in 1 .. Len(q) : ~ Is(q[i], to, ids)

One(q, to, ids) ==
  \A i, j \in 1 .. Len(q) : Is(q[i], to, ids) /\ Is(q[j], to, ids) => i = j

Last(q, to, ids, good) ==
  \E i \in 1 .. Len(q) : /\ Is(q[i], to, good)
                         /\ \A j \in 1 .. Len(q) : j > i => ~ Is(q[j], to, ids)

(* A message at the end has the last word, unless it says nothing here. *)
LEMMA ToldAppend ==
  ASSUME NEW q \in Seq(Message), NEW m \in Message, NEW to, NEW ids,
         NEW good \in SUBSET ids
  PROVE  /\ Is(m, to, good) => Last(Append(q, m), to, ids, good)
         /\ None(q, to, ids) => One(Append(q, m), to, ids)
         /\ ~ Is(m, to, ids) =>
              /\ None(q, to, ids) => None(Append(q, m), to, ids)
              /\ One(q, to, ids) => One(Append(q, m), to, ids)
              /\ Last(q, to, ids, good) => Last(Append(q, m), to, ids, good)
<1>. DEFINE a == Append(q, m)
            n == Len(q) + 1
<1>1. /\ Len(a) = n /\ a[n] = m /\ \A i \in 1 .. Len(q) : a[i] = q[i] /\ i \in 1 .. n
      /\ n \in 1 .. n /\ \A i \in 1 .. n : i \in 1 .. Len(q) \/ i = n
      /\ \A i \in 1 .. n : ~ (i > n)
  <2>1. /\ Len(q) \in Nat /\ Len(Append(q, m)) = Len(q) + 1
        /\ Append(q, m)[Len(q) + 1] = m
        /\ \A i \in 1 .. Len(q) : Append(q, m)[i] = q[i]
    BY LenProperties
  <2>. QED
    BY <2>1
<1>. HIDE DEF a, n
<1>2. Is(m, to, good) => Last(a, to, ids, good)
  BY <1>1 DEF Last
<1>3. None(q, to, ids) => One(a, to, ids)
  BY <1>1 DEF None, One
<1>4. ASSUME ~ Is(m, to, ids), None(q, to, ids) PROVE None(a, to, ids)
  BY <1>1, <1>4 DEF None
<1>5. ASSUME ~ Is(m, to, ids), One(q, to, ids) PROVE One(a, to, ids)
  BY <1>1, <1>5 DEF One
<1>6. ASSUME ~ Is(m, to, ids), Last(q, to, ids, good) PROVE Last(a, to, ids, good)
  <2>1. PICK i \in 1 .. Len(q) : /\ Is(q[i], to, good)
                                 /\ \A j \in 1 .. Len(q) : j > i => ~ Is(q[j], to, ids)
    BY <1>6 DEF Last
  <2>2. \A j \in 1 .. n : j > i => ~ Is(a[j], to, ids)
    BY <1>1, <1>6, <2>1
  <2>. QED
    BY <1>1, <2>1, <2>2 DEF Last
<1>. QED
  BY <1>2, <1>3, <1>4, <1>5, <1>6 DEF a

(* A message that is taken was the last word if the others say nothing. *)
LEMMA ToldTail ==
  ASSUME NEW q \in Seq(Message), q # <<>>, NEW to, NEW ids, NEW good \in SUBSET ids
  PROVE  /\ None(q, to, ids) => None(Tail(q), to, ids) /\ ~ Is(Head(q), to, ids)
         /\ One(q, to, ids) => /\ One(Tail(q), to, ids)
                               /\ Is(Head(q), to, ids) => None(Tail(q), to, ids)
         /\ Last(q, to, ids, good) =>
              \/ Last(Tail(q), to, ids, good)
              \/ Is(Head(q), to, good) /\ None(Tail(q), to, ids)
<1>. DEFINE t == Tail(q)
<1>1. /\ Head(q) = q[1] /\ 1 \in 1 .. Len(q)
      /\ \A i \in 1 .. Len(t) : i + 1 \in 1 .. Len(q) /\ t[i] = q[i + 1] /\ i + 1 > 1 /\ i + 1 # 1
      /\ \A i, j \in 1 .. Len(t) : i + 1 = j + 1 => i = j
      /\ \A i \in 1 .. Len(q) :
           i # 1 => /\ i - 1 \in 1 .. Len(t) /\ t[i - 1] = q[i]
                    /\ \A j \in 1 .. Len(t) : j > i - 1 => j + 1 > i
  <2>1. /\ Len(q) \in Nat /\ Len(q) >= 1 /\ Head(q) = q[1]
        /\ Len(t) = Len(q) - 1 /\ \A i \in 1 .. Len(t) : t[i] = q[i + 1]
    BY EmptySeq, LenProperties, HeadTailProperties
  <2>. HIDE DEF t
  <2>. QED
    BY <2>1
<1>. HIDE DEF t
<1>2. None(q, to, ids) => None(t, to, ids) /\ ~ Is(Head(q), to, ids)
  BY <1>1 DEF None
<1>3. ASSUME One(q, to, ids) PROVE One(t, to, ids)
  <2>1. ASSUME NEW i \in 1 .. Len(t), NEW j \in 1 .. Len(t), Is(t[i], to, ids), Is(t[j], to, ids)
        PROVE  i = j
    <3>1. i + 1 = j + 1
      BY <1>1, <1>3, <2>1 DEF One
    <3>. QED
      BY <1>1, <3>1
  <2>. QED
    BY <2>1 DEF One
<1>4. ASSUME One(q, to, ids), Is(Head(q), to, ids) PROVE None(t, to, ids)
  BY <1>1, <1>4 DEF One, None
<1>5. ASSUME Last(q, to, ids, good)
      PROVE  Last(t, to, ids, good) \/ (Is(Head(q), to, good) /\ None(t, to, ids))
  <2>1. PICK i \in 1 .. Len(q) : /\ Is(q[i], to, good)
                                 /\ \A j \in 1 .. Len(q) : j > i => ~ Is(q[j], to, ids)
    BY <1>5 DEF Last
  <2>2. CASE i = 1
    BY <1>1, <2>1, <2>2 DEF None
  <2>3. CASE i # 1
    <3>1. /\ i - 1 \in 1 .. Len(t) /\ Is(t[i - 1], to, good)
      BY <1>1, <2>1, <2>3
    <3>2. \A j \in 1 .. Len(t) : j > i - 1 => ~ Is(t[j], to, ids)
      BY <1>1, <2>1, <2>3
    <3>. QED
      BY <3>1, <3>2 DEF Last
  <2>. QED
    BY <2>2, <2>3
<1>. QED
  BY <1>2, <1>3, <1>4, <1>5 DEF t

(* What the mailbox says to a module of some ids is as before. *)
Keep(to, ids) ==
  /\ None(mail, to, ids) => None(mail', to, ids)
  /\ One(mail, to, ids) => One(mail', to, ids)
  /\ \A good \in SUBSET ids : Last(mail, to, ids, good) => Last(mail', to, ids, good)

LEMMA PostKeep ==
  ASSUME mail \in Seq(Message), NEW m \in Message, Post(m)
  PROVE  /\ \A to, ids : ~ Is(m, to, ids) => Keep(to, ids)
         /\ \A x \in Contents(mail) : x \in Contents(mail')
         /\ m \in Contents(mail') /\ mail' = Append(mail, m)
<1>1. mail' = Append(mail, m)
  BY DEF Post
<1>2. \A to, ids : ~ Is(m, to, ids) => Keep(to, ids)
  BY <1>1, ToldAppend DEF Keep
<1>. QED
  BY <1>1, <1>2, PostContents

(* What Finish does *)
LEMMA FinishOps ==
  ASSUME mail \in Seq(Message), mail # <<>>, NEW p, Finish(p)
  PROVE  /\ Tail(mail) \in Seq(Message)
         /\ p = <<>> => mail' = Tail(mail)
         /\ \A m \in Message : p = <<m>> => mail' = Append(Tail(mail), m)
<1>1. Tail(mail) \in Seq(Message)
  BY HeadTailProperties
<1>. DEFINE t == Tail(mail)
<1>2. \A s \in Seq(Message) : s \o <<>> = s
  BY ConcatEmptySeq
<1>3. \A s \in Seq(Message), m \in Message : s \o <<m>> = Append(s, m)
  BY AppendIsConcat
<1>. QED
  BY <1>1, <1>2, <1>3 DEF Finish

LEMMA FinishKeep ==
  ASSUME mail \in Seq(Message), mail # <<>>,
         NEW p \in {<<>>} \cup {<<m>> : m \in Message}, Finish(p)
  PROVE  /\ \A to, ids : /\ ~ Is(Head(mail), to, ids)
                         /\ \A m \in Message : p = <<m>> => ~ Is(m, to, ids)
                         => Keep(to, ids)
         /\ \A x \in Contents(mail) : x # Head(mail) => x \in Contents(mail')
<1>. DEFINE t == Tail(mail)
<1>1. t \in Seq(Message) /\ (mail' = t \/ \E m \in Message : p = <<m>> /\ mail' = Append(t, m))
  BY FinishOps
<1>2. ASSUME NEW to, NEW ids, ~ Is(Head(mail), to, ids),
             \A m \in Message : p = <<m>> => ~ Is(m, to, ids)
      PROVE  Keep(to, ids)
  <2>1. /\ None(mail, to, ids) => None(t, to, ids)
        /\ One(mail, to, ids) => One(t, to, ids)
        /\ \A good \in SUBSET ids : Last(mail, to, ids, good) => Last(t, to, ids, good)
    <3>1. ASSUME NEW good \in SUBSET ids
          PROVE  /\ None(mail, to, ids) => None(t, to, ids)
                 /\ One(mail, to, ids) => One(t, to, ids)
                 /\ Last(mail, to, ids, good) => Last(t, to, ids, good)
      <4>1. ~ Is(Head(mail), to, good)
        BY <1>2 DEF Is
      <4>. QED
        BY <4>1, ToldTail
    <3>2. ids \in SUBSET ids
      OBVIOUS
    <3>. QED
      BY <3>1, <3>2
  <2>2. CASE mail' = t
    BY <2>1, <2>2 DEF Keep
  <2>3. CASE mail' # t
    <3>1. PICK m \in Message : p = <<m>> /\ mail' = Append(t, m)
      BY <1>1, <2>3
    <3>2. ~ Is(m, to, ids)
      BY <1>2, <3>1
    <3>. HIDE DEF t
    <3>3. /\ None(t, to, ids) => None(mail', to, ids)
          /\ One(t, to, ids) => One(mail', to, ids)
          /\ \A good \in SUBSET ids : Last(t, to, ids, good) => Last(mail', to, ids, good)
      BY <1>1, <3>1, <3>2, ToldAppend
    <3>. QED
      BY <2>1, <3>3 DEF Keep
  <2>. QED
    BY <2>2, <2>3
<1>3. ASSUME NEW x \in Contents(mail), x # Head(mail) PROVE x \in Contents(mail')
  <2>1. /\ Len(mail) \in Nat /\ Head(mail) = mail[1] /\ Len(t) = Len(mail) - 1
        /\ \A i \in 1 .. Len(t) : t[i] = mail[i + 1]
    BY HeadTailProperties, LenProperties
  <2>2. PICK i \in 1 .. Len(mail) : x = mail[i]
    BY DEF Contents
  <2>3. i - 1 \in 1 .. Len(t) /\ t[i - 1] = x
    <3>1. i # 1
      BY <1>3, <2>1, <2>2
    <3>. HIDE DEF t
    <3>. QED
      BY <2>1, <2>2, <3>1
  <2>4. x \in Contents(t)
    BY <2>3 DEF Contents
  <2>5. \A m \in Message : mail' = Append(t, m) => x \in Contents(mail')
    <3>1. ASSUME NEW m \in Message, mail' = Append(t, m) PROVE x \in Contents(mail')
      <4>. HIDE DEF t
      <4>1. i - 1 \in 1 .. Len(mail') /\ mail'[i - 1] = t[i - 1]
        BY <1>1, <2>3, <3>1, LenProperties
      <4>. QED
        BY <2>3, <4>1 DEF Contents
    <3>. QED
      BY <3>1
  <2>. QED
    BY <1>1, <2>4, <2>5
<1>. QED
  BY <1>2, <1>3

(* What a module is told and when: the ids by the value they carry *)
PlugIds == {"plug_in", "plug_out"}
CaseIds == {"in_case", "out_case"}
CasePlugIds == {"case_plug_in", "case_plug_out"}
WatchIds == CaseIds \cup {"sy5501_event"}
PlugId(b) == {IF b THEN "plug_in" ELSE "plug_out"}
CaseId(b) == {IF b THEN "in_case" ELSE "out_case"}
CasePlugId(b) == {IF b THEN "case_plug_in" ELSE "case_plug_out"}
SettleId(b) == {IF b THEN "plug_in_debounced" ELSE "plug_out_debounced"}

(* The PMU module on the contacts *)
PlugTold ==
  \/ Last(mail, "pmu", PlugIds, PlugId(world.plugged))
  \/ None(mail, "pmu", PlugIds) /\ pmu.plugIn = world.plugged

(* A debounce that is not over has its message on the way. *)
SettleTold ==
  pmu.plugIn # pmu.debounced => hist.discarded \/
    \E m \in Contents(mail) \cup delayed : Is(m, "pmu", SettleId(pmu.plugIn))

(* The charger on the PMU module *)
ChargerTold ==
  \/ Last(mail, "charger", PlugIds, PlugId(pmu.debounced))
  \/ None(mail, "charger", PlugIds) /\ chg.plugIn = pmu.debounced

(* The charger on the case bit: an interrupt's mail still makes it read the *)
(* bit; behind the last one the mails that it has posted itself say what    *)
(* the bit is, or there are none and it has read or knows it.               *)
CaseTold == hist.overtaken \/
  /\ \/ Last(mail, "charger", WatchIds, CaseId(world.inCase) \cup {"sy5501_event"})
     \/ /\ None(mail, "charger", WatchIds)
        /\ busy.at = "sy5501" \/ chg.inCase = world.inCase
  /\ busy.at = "sy5501" => busy.read = world.inCase

(* The physical state on the charger, in two hops *)
PhyTold ==
  \/ Last(mail, "phy", CasePlugIds, CasePlugId(chg.inCase))
  \/ None(mail, "phy", CasePlugIds) /\ Last(mail, "phy", CaseIds, CaseId(chg.inCase))
  \/ /\ None(mail, "phy", CasePlugIds) /\ None(mail, "phy", CaseIds)
     /\ phy.initialized => phy.inCase = chg.inCase

(* INIT is on its way once, until it has been handled. *)
InitTold ==
  /\ phy.initialized \/ hist.discarded \/ PhyInitMsg \in Contents(mail) \cup delayed
  /\ One(mail, "phy", {"init"})
  /\ PhyInitMsg \in delayed \/ phy.initialized => None(mail, "phy", {"init"})
  /\ phy.initialized => PhyInitMsg \notin delayed

DelayedOK == \A m \in delayed : m = PhyInitMsg \/ Is(m, "pmu", DebounceIds)

Agree == /\ PlugTold /\ SettleTold /\ ChargerTold /\ CaseTold /\ PhyTold
         /\ InitTold /\ DelayedOK

(* Records of this model, and the ids *)
AppTypes ==
  /\ world \in [plugged : BOOLEAN, inCase : BOOLEAN]
  /\ chg \in [plugIn : BOOLEAN, inCase : BOOLEAN]
  /\ phy \in [initialized : BOOLEAN, caseClose : BOOLEAN, inCase : BOOLEAN, inEar : BOOLEAN]
  /\ sdk \in [box : {"unknown", "close", "open", "out", "ear"},
              future : {"unknown", "close", "open", "out", "ear"}]
  /\ vbus.rx = "off" <=> busy.at = "tx"
  /\ busy \in [at : {"idle", "sy5501", "tx"}, read : BOOLEAN]
  /\ events \in 0 .. MaxEvents

(* The ids of one value are among those of both. *)
LEMMA Ids ==
  /\ \A b : /\ PlugId(b) \in SUBSET PlugIds /\ CaseId(b) \in SUBSET CaseIds
            /\ CasePlugId(b) \in SUBSET CasePlugIds
            /\ SettleId(b) \in SUBSET DebounceIds
            /\ CaseId(b) \cup {"sy5501_event"} \in SUBSET WatchIds
  /\ CaseIds \subseteq WatchIds /\ "sy5501_event" \in WatchIds
  /\ PhyInitMsg \in Message /\ PhyInitMsg.to = "phy" /\ PhyInitMsg.id = "init"
BY DEF PlugId, PlugIds, CaseId, CaseIds, CasePlugId, CasePlugIds, SettleId, DebounceIds,
       WatchIds, PhyInitMsg, Mail, Message, PlainIds

(* A message that is sent. *)
LEMMA SentMail ==
  ASSUME NEW to \in {"pmu", "charger", "phy"}, NEW id \in PlainIds
  PROVE  Mail(to, id) \in Message /\ Mail(to, id).to = to /\ Mail(to, id).id = id
BY PlainMail DEF Mail, Plain

-------------------------------------------------------------------------------
(* What each part depends on *)

LEMMA PlugFrame ==
  ASSUME PlugTold, Keep("pmu", PlugIds), world'.plugged = world.plugged,
         pmu'.plugIn = pmu.plugIn
  PROVE  PlugTold'
BY Ids DEF PlugTold, Keep

LEMMA SettleFrame ==
  ASSUME SettleTold, pmu'.plugIn = pmu.plugIn, pmu'.debounced = pmu.debounced,
         hist.discarded => hist'.discarded,
         hist'.discarded \/
         \A m \in Contents(mail) \cup delayed :
           Is(m, "pmu", DebounceIds) => m \in Contents(mail') \cup delayed'
  PROVE  SettleTold'
BY Ids DEF SettleTold, Is

LEMMA ChargerFrame ==
  ASSUME ChargerTold, Keep("charger", PlugIds), pmu'.debounced = pmu.debounced,
         chg'.plugIn = chg.plugIn
  PROVE  ChargerTold'
BY Ids DEF ChargerTold, Keep

LEMMA CaseFrame ==
  ASSUME CaseTold, Keep("charger", WatchIds), world'.inCase = world.inCase,
         chg'.inCase = chg.inCase, hist.overtaken => hist'.overtaken,
         (busy'.at = "sy5501") <=> (busy.at = "sy5501"), busy'.at = "sy5501" => busy'.read = busy.read
  PROVE  CaseTold'
BY Ids DEF CaseTold, Keep

LEMMA PhyFrame ==
  ASSUME PhyTold, Keep("phy", CasePlugIds), Keep("phy", CaseIds),
         chg'.inCase = chg.inCase, phy'.initialized = phy.initialized,
         phy'.inCase = phy.inCase
  PROVE  PhyTold'
BY Ids DEF PhyTold, Keep

LEMMA InitFrame ==
  ASSUME InitTold, Keep("phy", {"init"}), phy'.initialized = phy.initialized,
         hist.discarded => hist'.discarded,
         hist'.discarded \/
         (PhyInitMsg \in Contents(mail) \cup delayed => PhyInitMsg \in Contents(mail') \cup delayed'),
         PhyInitMsg \in delayed' => PhyInitMsg \in delayed
  PROVE  InitTold'
BY DEF InitTold, Keep

(* A message says nothing to the modules that keep copies. *)
Said(m) == \/ Is(m, "pmu", PlugIds \cup DebounceIds)
           \/ Is(m, "charger", WatchIds \cup PlugIds)
           \/ Is(m, "phy", CasePlugIds \cup CaseIds \cup {"init"})

LEMMA Unsaid ==
  ASSUME NEW m, ~ Said(m)
  PROVE  /\ ~ Is(m, "pmu", PlugIds) /\ ~ Is(m, "pmu", DebounceIds)
         /\ ~ Is(m, "charger", PlugIds) /\ ~ Is(m, "charger", WatchIds)
         /\ ~ Is(m, "phy", CasePlugIds) /\ ~ Is(m, "phy", CaseIds)
         /\ ~ Is(m, "phy", {"init"}) /\ m # PhyInitMsg
BY Ids DEF Said, Is

(* The mailbox says what it said. *)
KeepAll ==
  /\ Keep("pmu", PlugIds) /\ Keep("charger", PlugIds) /\ Keep("charger", WatchIds)
  /\ Keep("phy", CasePlugIds) /\ Keep("phy", CaseIds) /\ Keep("phy", {"init"})
  /\ \A m \in Contents(mail) : Said(m) => m \in Contents(mail')

LEMMA KeepSame == mail' = mail => KeepAll
BY DEF KeepAll, Keep

LEMMA KeepPost ==
  ASSUME mail \in Seq(Message), NEW m \in Message, Post(m), ~ Said(m)
  PROVE  KeepAll
<1>1. \A to, ids : ~ Is(m, to, ids) => Keep(to, ids)
  BY PostKeep
<1>2. \A x \in Contents(mail) : x \in Contents(mail')
  BY PostKeep
<1>. QED
  BY <1>1, <1>2, Unsaid DEF KeepAll

LEMMA KeepFinish ==
  ASSUME mail \in Seq(Message), mail # <<>>, ~ Said(Head(mail)),
         NEW p \in {<<>>} \cup {<<m>> : m \in Message}, Finish(p),
         \A m \in Message : p = <<m>> => ~ Said(m)
  PROVE  KeepAll
<1>1. \A to, ids : /\ ~ Is(Head(mail), to, ids)
                   /\ \A m \in Message : p = <<m>> => ~ Is(m, to, ids)
                   => Keep(to, ids)
  BY FinishKeep
<1>2. \A x \in Contents(mail) : x # Head(mail) => x \in Contents(mail')
  BY FinishKeep
<1>3. \A m \in Message : p = <<m>> =>
         /\ ~ Is(m, "pmu", PlugIds) /\ ~ Is(m, "pmu", DebounceIds)
         /\ ~ Is(m, "charger", PlugIds) /\ ~ Is(m, "charger", WatchIds)
         /\ ~ Is(m, "phy", CasePlugIds) /\ ~ Is(m, "phy", CaseIds)
         /\ ~ Is(m, "phy", {"init"})
  BY Unsaid
<1>. QED
  BY <1>1, <1>2, <1>3, Unsaid DEF KeepAll

(* A step that says nothing and changes no copy *)
LEMMA AgreeFrame ==
  ASSUME Agree, KeepAll, delayed' = delayed,
         world' = world, pmu' = pmu, chg' = chg,
         phy'.initialized = phy.initialized, phy'.inCase = phy.inCase,
         hist'.discarded = hist.discarded, hist'.overtaken = hist.overtaken,
         (busy'.at = "sy5501") <=> (busy.at = "sy5501"), busy'.at = "sy5501" => busy'.read = busy.read
  PROVE  Agree'
<1>1. \A m \in Contents(mail) \cup delayed :
        Said(m) => m \in Contents(mail') \cup delayed'
  BY DEF KeepAll
<1>2. Said(PhyInitMsg) /\ \A m : Is(m, "pmu", DebounceIds) => Said(m)
  BY Ids DEF Said, Is
<1>3. PlugTold' /\ ChargerTold'
  BY PlugFrame, ChargerFrame DEF Agree, KeepAll
<1>4. CaseTold' /\ PhyTold'
  BY CaseFrame, PhyFrame DEF Agree, KeepAll
<1>5. SettleTold'
  BY <1>1, <1>2, SettleFrame DEF Agree
<1>6. InitTold'
  BY <1>1, <1>2, InitFrame DEF Agree, KeepAll
<1>. QED
  BY <1>3, <1>4, <1>5, <1>6 DEF Agree, DelayedOK

-------------------------------------------------------------------------------
(* The steps *)

LEMMA InitAgree == Init => Agree /\ AppTypes
<1>. SUFFICES ASSUME Init PROVE Agree /\ AppTypes
  OBVIOUS
<1>1. mail = <<>> /\ Len(mail) = 0 /\ delayed = {PhyInitMsg} /\ busy = [at |-> "idle", read |-> FALSE]
  BY DEF Init
<1>2. /\ world \in [plugged : BOOLEAN, inCase : BOOLEAN]
      /\ pmu.plugIn = world.plugged /\ pmu.debounced = world.plugged
      /\ chg = [plugIn |-> world.plugged, inCase |-> world.inCase]
      /\ phy = [initialized |-> FALSE, caseClose |-> FALSE, inCase |-> FALSE, inEar |-> FALSE]
  BY DEF Init
<1>3. \A to, ids : None(mail, to, ids) /\ One(mail, to, ids)
  BY <1>1 DEF None, One
<1>4. PlugTold /\ SettleTold /\ ChargerTold
  BY <1>2, <1>3 DEF PlugTold, SettleTold, ChargerTold
<1>5. CaseTold
  BY <1>1, <1>2, <1>3 DEF CaseTold
<1>6. PhyTold /\ InitTold /\ DelayedOK
  BY <1>1, <1>2, <1>3 DEF PhyTold, InitTold, DelayedOK
<1>7. AppTypes
  BY <1>1, <1>2, AppAssumption DEF Init, AppTypes
<1>. QED
  BY <1>4, <1>5, <1>6, <1>7 DEF Agree

(* What a handler sees *)
LEMMA HeadOf ==
  ASSUME Inv, NEW to, NEW id, Handles(to, id)
  PROVE  /\ mail \in Seq(Message) /\ mail # <<>> /\ Head(mail) \in Contents(mail)
         /\ Head(mail).to = to /\ Head(mail).id = id /\ busy.at = "idle"
BY HeadInContents DEF Inv, Types, Handles

(* The contacts change. *)
LEMMA PlugAgree == ASSUME Inv, AppTypes, Agree, Plug PROVE Agree'
<1>. DEFINE id == IF world.plugged THEN "plug_out" ELSE "plug_in"
            m == Mail("pmu", id)
            b == ~ world.plugged
<1>1. Post(m) /\ mail \in Seq(Message) /\ id \in PlugIds
  BY DEF Plug, Inv, Types, PlugIds
<1>2. PlugId(b) = {id}
  BY DEF PlugId
<1>3. b \in BOOLEAN /\ world' = [world EXCEPT !.plugged = b] /\ world \in [plugged : BOOLEAN, inCase : BOOLEAN]
  BY DEF Plug, AppTypes
<1>4. UNCHANGED <<pmu, chg, phy, delayed, busy, hist>>
  BY DEF Plug
<1>. HIDE DEF b, id
<1>5. world'.plugged = b /\ world'.inCase = world.inCase
  BY <1>3
<1>6. id \in PlainIds
  BY <1>1 DEF PlugIds, PlainIds
<1>7. m \in Message /\ m.to = "pmu" /\ m.id = id
  BY <1>6, SentMail
<1>. HIDE DEF m
<1>8. /\ mail' = Append(mail, m)
      /\ \A to, ids : ~ Is(m, to, ids) => Keep(to, ids)
      /\ \A x \in Contents(mail) : x \in Contents(mail')
  BY <1>1, <1>7, PostKeep
<1>9. PlugTold'
  <2>1. Is(m, "pmu", PlugId(b)) /\ PlugId(b) \in SUBSET PlugIds
    BY <1>2, <1>7, Ids DEF Is
  <2>2. Last(mail', "pmu", PlugIds, PlugId(b))
    BY <1>1, <1>7, <1>8, <2>1, ToldAppend
  <2>. QED
    BY <1>5, <2>2 DEF PlugTold
<1>10. /\ Keep("charger", PlugIds) /\ Keep("charger", WatchIds)
       /\ Keep("phy", CasePlugIds) /\ Keep("phy", CaseIds) /\ Keep("phy", {"init"})
  BY <1>7, <1>8 DEF Is
<1>11. ChargerTold' /\ CaseTold' /\ PhyTold'
  BY <1>4, <1>5, <1>10, ChargerFrame, CaseFrame, PhyFrame DEF Agree
<1>12. SettleTold' /\ InitTold'
  BY <1>4, <1>8, <1>10, SettleFrame, InitFrame DEF Agree
<1>. QED
  BY <1>4, <1>9, <1>11, <1>12 DEF Agree, DelayedOK

(* The case bit changes; a handler that has read it is overtaken. *)
LEMMA MoveAgree == ASSUME Inv, AppTypes, Agree, Move PROVE Agree'
<1>. DEFINE m == Mail("charger", "sy5501_event")
            b == ~ world.inCase
            o == hist.overtaken \/ busy.at = "sy5501"
<1>1. Post(m) /\ mail \in Seq(Message) /\ m \in Message /\ m.to = "charger" /\ m.id = "sy5501_event"
  BY SentMail DEF Move, Inv, Types, PlainIds
<1>2. b \in BOOLEAN /\ world' = [world EXCEPT !.inCase = b] /\ world \in [plugged : BOOLEAN, inCase : BOOLEAN]
  BY DEF Move, AppTypes
<1>3. /\ o \in BOOLEAN /\ hist' = [hist EXCEPT !.overtaken = o]
      /\ hist \in [plugs : Nat, late : BOOLEAN, overtaken : BOOLEAN, overrun : BOOLEAN,
                   discarded : BOOLEAN]
  BY DEF Move, Inv, Types
<1>4. UNCHANGED <<pmu, chg, phy, delayed, busy>>
  BY DEF Move
<1>. HIDE DEF b, m, o
<1>5. world'.plugged = world.plugged /\ hist'.overtaken = o /\ hist'.discarded = hist.discarded
  BY <1>2, <1>3
<1>6. /\ mail' = Append(mail, m)
      /\ \A to, ids : ~ Is(m, to, ids) => Keep(to, ids)
      /\ \A x \in Contents(mail) : x \in Contents(mail')
  BY <1>1, PostKeep
<1>7. CaseTold'
  <2>. DEFINE good == CaseId(world'.inCase) \cup {"sy5501_event"}
  <2>1. Is(m, "charger", good) /\ good \in SUBSET WatchIds
    BY <1>1, Ids DEF Is
  <2>. HIDE DEF good
  <2>2. Last(mail', "charger", WatchIds, good)
    BY <1>1, <1>6, <2>1, ToldAppend
  <2>3. busy'.at = "sy5501" => hist'.overtaken
    BY <1>4, <1>5 DEF o
  <2>. QED
    BY <2>2, <2>3 DEF CaseTold, good
<1>8. Keep("pmu", PlugIds) /\ Keep("charger", PlugIds)
  <2>1. "sy5501_event" \notin PlugIds
    BY DEF PlugIds
  <2>. QED
    BY <1>1, <1>6, <2>1 DEF Is
<1>9. Keep("phy", CasePlugIds) /\ Keep("phy", CaseIds) /\ Keep("phy", {"init"})
  BY <1>1, <1>6 DEF Is
<1>10. PlugTold' /\ ChargerTold' /\ PhyTold'
  BY <1>4, <1>5, <1>8, <1>9, ChargerFrame, PlugFrame, PhyFrame DEF Agree
<1>11. SettleTold' /\ InitTold'
  BY <1>4, <1>5, <1>6, <1>9, SettleFrame, InitFrame DEF Agree
<1>. QED
  BY <1>4, <1>7, <1>10, <1>11 DEF Agree, DelayedOK

(* The steps that say nothing: the ear, the bus, the user interface, and    *)
(* the messages about the lid.                                              *)
LEMMA UnsaidMails ==
  /\ \A m \in Message : m.to = "protocal" => ~ Said(m)
  /\ \A m \in Message : /\ m.to = "phy"
                        /\ m.id \in {"in_ear", "out_ear", "case_close", "case_open", "chg_plug_in"}
                        => ~ Said(m)
BY DEF Said, Is, CasePlugIds, CaseIds

LEMMA OutsideAgree ==
  ASSUME Inv, AppTypes, Agree, Ear \/ FrameBegin \/ FrameEnd \/ BoxSettles \/ TxDone
  PROVE  Agree'
<1>1. mail \in Seq(Message) /\ vbus.coming \in SUBSET Frames
      /\ hist \in [plugs : Nat, late : BOOLEAN, overtaken : BOOLEAN, overrun : BOOLEAN,
                   discarded : BOOLEAN]
  BY DEF Inv, Types
<1>2. UNCHANGED <<world, pmu, chg, phy, delayed>>
  BY DEF Ear, FrameBegin, FrameEnd, BoxSettles, TxDone
<1>3. hist'.discarded = hist.discarded /\ hist'.overtaken = hist.overtaken
  BY <1>1 DEF Ear, FrameBegin, FrameEnd, BoxSettles, TxDone
<1>4. busy' = busy \/ (busy.at = "tx" /\ busy'.at = "idle")
  BY DEF Ear, FrameBegin, FrameEnd, BoxSettles, TxDone
<1>5. CASE mail' = mail
  BY <1>2, <1>3, <1>4, <1>5, KeepSame, AgreeFrame
<1>6. CASE Ear
  <2>1. PICK id \in {"in_ear", "out_ear"} : Post(Mail("phy", id))
    BY <1>6 DEF Ear
  <2>. DEFINE m == Mail("phy", id)
  <2>2. m \in Message /\ m.to = "phy" /\ m.id = id
    BY SentMail DEF PlainIds
  <2>. HIDE DEF m
  <2>3. ~ Said(m)
    BY <2>2, UnsaidMails
  <2>4. KeepAll
    BY <1>1, <2>1, <2>2, <2>3, KeepPost DEF m
  <2>. QED
    BY <1>2, <1>3, <1>4, <2>4, AgreeFrame
<1>7. CASE FrameEnd /\ mail' # mail
  <2>. DEFINE m == [to |-> "protocal", id |-> "receive_data", n |-> 0, frame |-> vbus.coming]
  <2>1. Post(m) /\ m \in Message /\ m.to = "protocal"
    BY <1>1, <1>7 DEF FrameEnd, Mail, Message
  <2>. HIDE DEF m
  <2>2. KeepAll
    BY <1>1, <2>1, UnsaidMails, KeepPost
  <2>. QED
    BY <1>2, <1>3, <1>4, <2>2, AgreeFrame
<1>. QED
  BY <1>5, <1>6, <1>7 DEF FrameBegin, BoxSettles, TxDone

(* A delayed message that is due goes to the mailbox. *)
LEMMA ExpireAgree == ASSUME Inv, AppTypes, Agree, Expire PROVE Agree'
<1>1. PICK m \in delayed, lost \in SUBSET delayed :
        /\ m \notin lost /\ Post(m)
        /\ delayed' = (delayed \ {m}) \ lost
        /\ hist' = [hist EXCEPT !.discarded = @ \/ lost # {}]
  BY DEF Expire
<1>2. UNCHANGED <<world, pmu, chg, phy, busy>>
  BY DEF Expire
<1>3. /\ mail \in Seq(Message) /\ m \in Message
      /\ m = PhyInitMsg \/ Is(m, "pmu", DebounceIds)
  BY DEF Inv, Types, Agree, DelayedOK
<1>. DEFINE d == hist.discarded \/ lost # {}
<1>4. /\ d \in BOOLEAN /\ hist' = [hist EXCEPT !.discarded = d]
      /\ hist \in [plugs : Nat, late : BOOLEAN, overtaken : BOOLEAN, overrun : BOOLEAN,
                   discarded : BOOLEAN]
  BY <1>1 DEF Inv, Types
<1>. HIDE DEF d
<1>5. hist'.discarded = d /\ hist'.overtaken = hist.overtaken
  BY <1>4
<1>6. /\ \A to, ids : ~ Is(m, to, ids) => Keep(to, ids)
      /\ \A x \in Contents(mail) : x \in Contents(mail')
      /\ m \in Contents(mail') /\ mail' = Append(mail, m)
  BY <1>1, <1>3, PostKeep
<1>7. hist'.discarded \/ \A x \in Contents(mail) \cup delayed : x \in Contents(mail') \cup delayed'
  <2>1. CASE lost = {}
    BY <1>1, <1>6, <2>1
  <2>2. CASE lost # {}
    BY <1>5, <2>2 DEF d
  <2>. QED
    BY <2>1, <2>2
<1>8. hist.discarded => hist'.discarded
  BY <1>5 DEF d
<1>9. \/ m.to = "phy" /\ m.id = "init"
      \/ m.to = "pmu" /\ m.id \in DebounceIds
  <2>1. CASE m = PhyInitMsg
    BY <2>1, Ids
  <2>2. CASE Is(m, "pmu", DebounceIds)
    BY <2>2 DEF Is
  <2>. QED
    BY <1>3, <2>1, <2>2
<1>10. /\ \A x \in DebounceIds : x \notin PlugIds
       /\ "init" \notin CasePlugIds /\ "init" \notin CaseIds
  BY DEF DebounceIds, PlugIds, CasePlugIds, CaseIds
<1>11. /\ Keep("pmu", PlugIds) /\ Keep("charger", PlugIds) /\ Keep("charger", WatchIds)
       /\ Keep("phy", CasePlugIds) /\ Keep("phy", CaseIds)
  BY <1>6, <1>9, <1>10 DEF Is
<1>12. PlugTold' /\ ChargerTold' /\ CaseTold' /\ PhyTold'
  BY <1>2, <1>5, <1>11, PlugFrame, ChargerFrame, CaseFrame, PhyFrame DEF Agree
<1>13. SettleTold'
  BY <1>2, <1>7, <1>8, SettleFrame DEF Agree
<1>14. InitTold'
  <2>1. CASE m.to = "pmu"
    <3>1. Keep("phy", {"init"})
      BY <1>6, <2>1 DEF Is
    <3>. QED
      BY <1>1, <1>2, <1>7, <1>8, <3>1, InitFrame DEF Agree
  <2>2. CASE m = PhyInitMsg
    <3>1. InitTold /\ PhyInitMsg \in delayed
      BY <1>1, <2>2 DEF Agree
    <3>2. None(mail, "phy", {"init"}) /\ ~ phy.initialized
      BY <3>1 DEF InitTold
    <3>3. One(mail', "phy", {"init"})
      BY <1>3, <1>6, <3>2, ToldAppend
    <3>4. PhyInitMsg \notin delayed' /\ PhyInitMsg \in Contents(mail')
      BY <1>1, <1>6, <2>2
    <3>. QED
      BY <1>2, <3>2, <3>3, <3>4 DEF InitTold
  <2>. QED
    BY <1>3, <2>1, <2>2 DEF Is
<1>15. DelayedOK'
  BY <1>1 DEF Agree, DelayedOK
<1>. QED
  BY <1>12, <1>13, <1>14, <1>15 DEF Agree

-------------------------------------------------------------------------------
(* The handlers: the mail that is taken, the one that is posted *)

LEMMA FinishTold ==
  ASSUME mail \in Seq(Message), mail # <<>>,
         NEW p \in {<<>>} \cup {<<m>> : m \in Message}, Finish(p),
         NEW to, NEW ids, NEW good \in SUBSET ids,
         \A m \in Message : p = <<m>> => ~ Is(m, to, ids),
         Last(mail, to, ids, good)
  PROVE  Last(mail', to, ids, good) \/ (Is(Head(mail), to, good) /\ None(mail', to, ids))
<1>. DEFINE t == Tail(mail)
<1>1. t \in Seq(Message) /\ (mail' = t \/ \E m \in Message : p = <<m>> /\ mail' = Append(t, m))
  BY FinishOps
<1>2. Last(t, to, ids, good) \/ (Is(Head(mail), to, good) /\ None(t, to, ids))
  BY ToldTail
<1>. HIDE DEF t
<1>3. CASE mail' = t
  BY <1>2, <1>3
<1>4. ASSUME NEW m \in Message, p = <<m>>, mail' = Append(t, m)
      PROVE  Last(mail', to, ids, good) \/ (Is(Head(mail), to, good) /\ None(mail', to, ids))
  <2>1. ~ Is(m, to, ids)
    BY <1>4
  <2>2. /\ None(t, to, ids) => None(mail', to, ids)
        /\ Last(t, to, ids, good) => Last(mail', to, ids, good)
    BY <1>1, <1>4, <2>1, ToldAppend
  <2>. QED
    BY <1>2, <2>2
<1>. QED
  BY <1>1, <1>3, <1>4

(* A message that is posted by a handler has the last word. *)
LEMMA FinishLast ==
  ASSUME mail \in Seq(Message), mail # <<>>, NEW m \in Message, Finish(<<m>>),
         NEW to, NEW ids, NEW good \in SUBSET ids, Is(m, to, good)
  PROVE  Last(mail', to, ids, good)
<1>1. Tail(mail) \in Seq(Message) /\ mail' = Append(Tail(mail), m)
  <2>1. \A x \in Message : <<m>> = <<x>> => mail' = Append(Tail(mail), x)
    BY FinishOps
  <2>. QED
    BY <2>1, HeadTailProperties
<1>. QED
  BY <1>1, ToldAppend

(* A handler that posts nothing *)
LEMMA FinishNone ==
  ASSUME mail \in Seq(Message), mail # <<>>, Finish(<<>>)
  PROVE  /\ \A to, ids : ~ Is(Head(mail), to, ids) => Keep(to, ids)
         /\ \A to, ids, good :
              /\ good \subseteq ids /\ Last(mail, to, ids, good)
              => Last(mail', to, ids, good) \/ (Is(Head(mail), to, good) /\ None(mail', to, ids))
         /\ \A x \in Contents(mail) : x # Head(mail) => x \in Contents(mail')
         /\ mail' = Tail(mail)
<1>1. /\ <<>> \in {<<>>} \cup {<<m>> : m \in Message}
      /\ \A m \in Message : <<>> # <<m>>
  OBVIOUS
<1>2. /\ \A to, ids : ~ Is(Head(mail), to, ids) => Keep(to, ids)
      /\ \A x \in Contents(mail) : x # Head(mail) => x \in Contents(mail')
  BY <1>1, FinishKeep
<1>3. ASSUME NEW to, NEW ids, NEW good, good \subseteq ids, Last(mail, to, ids, good)
      PROVE  Last(mail', to, ids, good) \/ (Is(Head(mail), to, good) /\ None(mail', to, ids))
  <2>1. good \in SUBSET ids
    BY <1>3
  <2>. QED
    BY <1>1, <1>3, <2>1, FinishTold
<1>4. mail' = Tail(mail)
  BY FinishOps
<1>. QED
  BY <1>2, <1>3, <1>4

(* A handler that posts one message *)
LEMMA FinishOne ==
  ASSUME mail \in Seq(Message), mail # <<>>, NEW m \in Message, Finish(<<m>>)
  PROVE  /\ \A to, ids : ~ Is(Head(mail), to, ids) /\ ~ Is(m, to, ids) => Keep(to, ids)
         /\ \A to, ids, good :
              /\ good \subseteq ids /\ Last(mail, to, ids, good) /\ ~ Is(m, to, ids)
              => Last(mail', to, ids, good) \/ (Is(Head(mail), to, good) /\ None(mail', to, ids))
         /\ \A to, ids, good : good \subseteq ids /\ Is(m, to, good) => Last(mail', to, ids, good)
         /\ \A x \in Contents(mail) : x # Head(mail) => x \in Contents(mail')
<1>1. /\ <<m>> \in {<<>>} \cup {<<x>> : x \in Message}
      /\ \A x \in Message : <<m>> = <<x>> => x = m
  OBVIOUS
<1>2. /\ \A to, ids : ~ Is(Head(mail), to, ids) /\ ~ Is(m, to, ids) => Keep(to, ids)
      /\ \A x \in Contents(mail) : x # Head(mail) => x \in Contents(mail')
  BY <1>1, FinishKeep
<1>3. ASSUME NEW to, NEW ids, NEW good, good \subseteq ids, Last(mail, to, ids, good),
             ~ Is(m, to, ids)
      PROVE  Last(mail', to, ids, good) \/ (Is(Head(mail), to, good) /\ None(mail', to, ids))
  <2>1. good \in SUBSET ids
    BY <1>3
  <2>. QED
    BY <1>1, <1>3, <2>1, FinishTold
<1>4. ASSUME NEW to, NEW ids, NEW good, good \subseteq ids, Is(m, to, good)
      PROVE  Last(mail', to, ids, good)
  <2>1. good \in SUBSET ids
    BY <1>4
  <2>. QED
    BY <1>4, <2>1, FinishLast
<1>. QED
  BY <1>2, <1>3, <1>4

(* Which ids are of which conversation *)
LEMMA Apart ==
  /\ \A id \in DebounceIds : id \notin PlugIds /\ id # "init"
  /\ \A id \in PlugIds : id \notin DebounceIds /\ id \notin WatchIds
  /\ \A id \in WatchIds : id \notin PlugIds
  /\ \A id \in CaseIds : id \notin CasePlugIds /\ id # "init"
  /\ \A id \in CasePlugIds : id \notin CaseIds /\ id # "init"
  /\ "init" \notin CasePlugIds /\ "init" \notin CaseIds
  /\ PlugIds \subseteq PlainIds /\ CaseIds \subseteq PlainIds /\ CasePlugIds \subseteq PlainIds
  /\ WatchIds \subseteq PlainIds
BY DEF DebounceIds, PlugIds, WatchIds, CaseIds, CasePlugIds, PlainIds

(* A plug event starts the debounce over. *)
LEMMA PmuPlugAgree ==
  ASSUME Inv, AppTypes, Agree, NEW id \in PlugIds, NEW plugIn \in BOOLEAN,
         NEW later \in DebounceIds, PlugId(plugIn) = {id}, SettleId(plugIn) = {later},
         PmuPlug(id, plugIn, later)
  PROVE  Agree'
<1>. DEFINE d == Debounce(later, hist.plugs + 1)
            h == Head(mail)
<1>1. /\ mail \in Seq(Message) /\ mail # <<>> /\ h \in Contents(mail)
      /\ h.to = "pmu" /\ h.id = id
  <2>1. Handles("pmu", id)
    BY DEF PmuPlug
  <2>. QED
    BY <2>1, HeadOf
<1>2. Finish(<<>>) /\ UNCHANGED <<world, chg, phy, busy>>
  BY DEF PmuPlug
<1>3. d \in Message /\ d.to = "pmu" /\ d.id = later
  BY DebounceMail DEF Inv, Types
<1>. HIDE DEF d
<1>4. /\ delayed' = {m \in delayed : m.id \notin DebounceIds} \cup {d}
      /\ pmu' = [pmu EXCEPT !.plugIn = plugIn]
      /\ pmu \in [plugIn : BOOLEAN, debounced : BOOLEAN]
  BY DEF PmuPlug, BothDebounces, d, Inv, Types
<1>5. pmu'.plugIn = plugIn /\ pmu'.debounced = pmu.debounced
  BY <1>4
<1>6. hist'.discarded = hist.discarded /\ hist'.overtaken = hist.overtaken
  <2>. DEFINE late == hist.late \/ \E i \in DOMAIN mail : mail[i].id \in DebounceIds
  <2>1. hist' = [hist EXCEPT !.plugs = @ + 1, !.late = late]
    BY DEF PmuPlug
  <2>. HIDE DEF late
  <2>. QED
    BY <2>1 DEF Inv, Types
<1>7. /\ \A to, ids : ~ Is(h, to, ids) => Keep(to, ids)
      /\ \A to, ids, good :
           /\ good \subseteq ids /\ Last(mail, to, ids, good)
           => Last(mail', to, ids, good) \/ (Is(h, to, good) /\ None(mail', to, ids))
      /\ \A x \in Contents(mail) : x # h => x \in Contents(mail')
  BY <1>1, <1>2, FinishNone
<1>. HIDE DEF h
<1>8. PlugTold'
  <2>1. Last(mail, "pmu", PlugIds, PlugId(world.plugged))
    <3>1. ~ None(mail, "pmu", PlugIds)
      <4>1. PICK i \in 1 .. Len(mail) : mail[i] = h
        BY <1>1 DEF Contents
      <4>. QED
        BY <1>1, <4>1 DEF None, Is
    <3>. QED
      BY <3>1 DEF Agree, PlugTold
  <2>2. PlugId(world.plugged) \subseteq PlugIds
    BY Ids
  <2>3. \/ Last(mail', "pmu", PlugIds, PlugId(world.plugged))
        \/ Is(h, "pmu", PlugId(world.plugged)) /\ None(mail', "pmu", PlugIds)
    BY <1>7, <2>1, <2>2
  <2>4. Is(h, "pmu", PlugId(world.plugged)) => plugIn = world.plugged
    BY <1>1 DEF Is, PlugId, AppTypes
  <2>. QED
    BY <1>2, <1>5, <2>3, <2>4 DEF PlugTold
<1>9. SettleTold'
  <2>1. d \in delayed' /\ Is(d, "pmu", SettleId(plugIn))
    BY <1>3, <1>4 DEF Is
  <2>. QED
    BY <1>5, <2>1 DEF SettleTold
<1>10. ChargerTold' /\ CaseTold' /\ PhyTold'
  <2>1. /\ Keep("charger", PlugIds) /\ Keep("charger", WatchIds)
        /\ Keep("phy", CasePlugIds) /\ Keep("phy", CaseIds)
    BY <1>1, <1>7 DEF Is
  <2>. QED
    BY <1>2, <1>5, <1>6, <2>1, ChargerFrame, CaseFrame, PhyFrame DEF Agree
<1>11. InitTold'
  <2>1. Keep("phy", {"init"})
    BY <1>1, <1>7 DEF Is
  <2>2. PhyInitMsg # h /\ PhyInitMsg # d /\ PhyInitMsg.id \notin DebounceIds
    BY <1>1, <1>3, Ids, Apart
  <2>3. PhyInitMsg \in delayed' <=> PhyInitMsg \in delayed
    BY <1>4, <2>2
  <2>. QED
    BY <1>2, <1>6, <1>7, <2>1, <2>2, <2>3, InitFrame DEF Agree
<1>12. DelayedOK'
  BY <1>3, <1>4 DEF Agree, DelayedOK, Is
<1>. QED
  BY <1>8, <1>9, <1>10, <1>11, <1>12 DEF Agree

(* A debounce ends, and the charger is told, or the message is too early. *)
LEMMA PmuDebouncedAgree == ASSUME Inv, AppTypes, Agree, PmuDebounced PROVE Agree'
<1>. DEFINE cid == IF pmu.plugIn THEN "plug_in" ELSE "plug_out"
            c == Mail("charger", cid)
            h == Head(mail)
<1>1. PICK id \in DebounceIds :
        /\ Handles("pmu", id)
        /\ IF Settled(id)
           THEN /\ pmu' = [pmu EXCEPT !.debounced = pmu.plugIn]
                /\ chg' = [chg EXCEPT !.plugIn = pmu.plugIn]
                /\ Finish(<<c>>)
           ELSE Finish(<<>>) /\ UNCHANGED <<pmu, chg>>
  BY DEF PmuDebounced
<1>2. /\ mail \in Seq(Message) /\ mail # <<>> /\ h \in Contents(mail)
      /\ h.to = "pmu" /\ h.id = id
  BY <1>1, HeadOf
<1>3. UNCHANGED <<world, phy, delayed, busy, hist>>
  BY DEF PmuDebounced
<1>4. PlugId(pmu.plugIn) = {cid} /\ cid \in PlugIds
  BY DEF PlugId, PlugIds
<1>5. c \in Message /\ c.to = "charger" /\ c.id = cid
  BY <1>4, Apart, SentMail
<1>. HIDE DEF c, cid, h
<1>6. /\ pmu \in [plugIn : BOOLEAN, debounced : BOOLEAN]
      /\ chg \in [plugIn : BOOLEAN, inCase : BOOLEAN]
  BY DEF Inv, Types, AppTypes
<1>7. ~ Is(h, "pmu", PlugIds) /\ h # PhyInitMsg
  BY <1>2, Apart, Ids DEF Is
<1>8. CASE Settled(id)
  <2>1. pmu'.plugIn = pmu.plugIn /\ pmu'.debounced = pmu.plugIn
        /\ chg'.plugIn = pmu.plugIn /\ chg'.inCase = chg.inCase
    BY <1>1, <1>6, <1>8
  <2>2. /\ \A to, ids : ~ Is(h, to, ids) /\ ~ Is(c, to, ids) => Keep(to, ids)
        /\ \A to, ids, good : good \subseteq ids /\ Is(c, to, good) => Last(mail', to, ids, good)
        /\ \A x \in Contents(mail) : x # h => x \in Contents(mail')
    BY <1>1, <1>2, <1>5, <1>8, FinishOne DEF h
  <2>3. ~ Is(c, "charger", WatchIds)
    BY <1>4, <1>5, Apart DEF Is
  <2>4. /\ Keep("pmu", PlugIds) /\ Keep("charger", WatchIds)
        /\ Keep("phy", CasePlugIds) /\ Keep("phy", CaseIds) /\ Keep("phy", {"init"})
    BY <1>2, <1>5, <1>7, <2>2, <2>3 DEF Is
  <2>5. PlugTold' /\ CaseTold' /\ PhyTold' /\ InitTold'
    BY <1>3, <1>7, <2>1, <2>2, <2>4, PlugFrame, CaseFrame, PhyFrame, InitFrame DEF Agree
  <2>6. SettleTold'
    BY <2>1 DEF SettleTold
  <2>7. ChargerTold'
    <3>1. Is(c, "charger", PlugId(pmu'.debounced)) /\ PlugId(pmu'.debounced) \subseteq PlugIds
      BY <1>4, <1>5, <2>1 DEF Is
    <3>2. Last(mail', "charger", PlugIds, PlugId(pmu'.debounced))
      BY <2>2, <3>1
    <3>. QED
      BY <3>2 DEF ChargerTold
  <2>. QED
    BY <1>3, <2>5, <2>6, <2>7 DEF Agree, DelayedOK
<1>9. CASE ~ Settled(id)
  <2>1. Finish(<<>>) /\ UNCHANGED <<pmu, chg>>
    BY <1>1, <1>9
  <2>2. /\ \A to, ids : ~ Is(h, to, ids) => Keep(to, ids)
        /\ \A x \in Contents(mail) : x # h => x \in Contents(mail')
    BY <1>2, <2>1, FinishNone DEF h
  <2>3. /\ Keep("pmu", PlugIds) /\ Keep("charger", PlugIds) /\ Keep("charger", WatchIds)
        /\ Keep("phy", CasePlugIds) /\ Keep("phy", CaseIds) /\ Keep("phy", {"init"})
    BY <1>2, <1>7, <2>2 DEF Is
  <2>4. PlugTold' /\ ChargerTold' /\ CaseTold' /\ PhyTold' /\ InitTold'
    BY <1>3, <1>7, <2>1, <2>2, <2>3, PlugFrame, ChargerFrame, CaseFrame, PhyFrame, InitFrame
       DEF Agree
  <2>5. SettleTold'
    <3>. SUFFICES ASSUME pmu.plugIn # pmu.debounced, ~ hist.discarded
                  PROVE  \E m \in Contents(mail') \cup delayed' : Is(m, "pmu", SettleId(pmu.plugIn))
      BY <1>3, <2>1 DEF SettleTold
    <3>1. PICK m \in Contents(mail) \cup delayed : Is(m, "pmu", SettleId(pmu.plugIn))
      BY DEF Agree, SettleTold
    <3>2. id = "plug_out_debounced" /\ pmu.plugIn
      BY <1>9 DEF Settled
    <3>3. m # h
      BY <1>2, <3>1, <3>2 DEF Is, SettleId
    <3>. QED
      BY <1>3, <2>2, <3>1, <3>3
  <2>. QED
    BY <1>3, <2>4, <2>5 DEF Agree, DelayedOK
<1>. QED
  BY <1>8, <1>9

(* The charger takes over what it is told. *)
LEMMA ChargerPlugAgree ==
  ASSUME Inv, AppTypes, Agree, ChargerPlugIn \/ ChargerPlugOut
  PROVE  Agree'
<1>. DEFINE h == Head(mail)
<1>1. PICK b \in BOOLEAN, id \in PlugIds :
        /\ PlugId(b) = {id} /\ Handles("charger", id) /\ chg' = [chg EXCEPT !.plugIn = b]
  BY DEF ChargerPlugIn, ChargerPlugOut, PlugId, PlugIds
<1>2. /\ mail \in Seq(Message) /\ mail # <<>> /\ h \in Contents(mail)
      /\ h.to = "charger" /\ h.id = id
  BY <1>1, HeadOf
<1>3. UNCHANGED <<world, pmu, phy, delayed, busy, hist>>
  BY DEF ChargerPlugIn, ChargerPlugOut
<1>4. PICK p \in {<<>>, <<Mail("phy", "chg_plug_in")>>} : Finish(p)
  BY DEF ChargerPlugIn, ChargerPlugOut
<1>5. chg'.plugIn = b /\ chg'.inCase = chg.inCase
  BY <1>1 DEF AppTypes
<1>. DEFINE c == Mail("phy", "chg_plug_in")
<1>6. c \in Message /\ c.to = "phy" /\ c.id = "chg_plug_in"
  BY SentMail DEF PlainIds
<1>. HIDE DEF c, h
<1>7. \A to, ids : ~ Is(c, to, ids) =>
        /\ ~ Is(h, to, ids) => Keep(to, ids)
        /\ \A good : /\ good \subseteq ids /\ Last(mail, to, ids, good)
             => Last(mail', to, ids, good) \/ (Is(h, to, good) /\ None(mail', to, ids))
  <2>1. CASE p = <<>>
    BY <1>2, <1>4, <2>1, FinishNone DEF h
  <2>2. CASE p = <<c>>
    BY <1>2, <1>4, <1>6, <2>2, FinishOne DEF h
  <2>. QED
    BY <1>4, <2>1, <2>2 DEF c
<1>8. \A x \in Contents(mail) : x # h => x \in Contents(mail')
  <2>1. CASE p = <<>>
    BY <1>2, <1>4, <2>1, FinishNone DEF h
  <2>2. CASE p = <<c>>
    BY <1>2, <1>4, <1>6, <2>2, FinishOne DEF h
  <2>. QED
    BY <1>4, <2>1, <2>2 DEF c
<1>9. /\ Keep("pmu", PlugIds) /\ Keep("charger", WatchIds)
      /\ Keep("phy", CasePlugIds) /\ Keep("phy", CaseIds) /\ Keep("phy", {"init"})
  <2>1. "chg_plug_in" \notin CasePlugIds /\ "chg_plug_in" \notin CaseIds /\ id \notin WatchIds
    BY Apart DEF CasePlugIds, CaseIds
  <2>. QED
    BY <1>2, <1>6, <1>7, <2>1 DEF Is
<1>10. ChargerTold'
  <2>1. Last(mail, "charger", PlugIds, PlugId(pmu.debounced))
    <3>1. ~ None(mail, "charger", PlugIds)
      <4>1. PICK i \in 1 .. Len(mail) : mail[i] = h
        BY <1>2 DEF Contents
      <4>. QED
        BY <1>2, <4>1 DEF None, Is
    <3>. QED
      BY <3>1 DEF Agree, ChargerTold
  <2>2. PlugId(pmu.debounced) \subseteq PlugIds /\ ~ Is(c, "charger", PlugIds)
    BY <1>6, Ids DEF Is
  <2>3. \/ Last(mail', "charger", PlugIds, PlugId(pmu.debounced))
        \/ Is(h, "charger", PlugId(pmu.debounced)) /\ None(mail', "charger", PlugIds)
    BY <1>7, <2>1, <2>2
  <2>4. Is(h, "charger", PlugId(pmu.debounced)) => b = pmu.debounced
    BY <1>1, <1>2 DEF Is, PlugId, Inv, Types
  <2>. QED
    BY <1>3, <1>5, <2>3, <2>4 DEF ChargerTold
<1>11. PlugTold' /\ CaseTold' /\ PhyTold'
  BY <1>3, <1>5, <1>9, PlugFrame, CaseFrame, PhyFrame DEF Agree
<1>12. SettleTold' /\ InitTold'
  <2>1. h # PhyInitMsg /\ \A m : Is(m, "pmu", DebounceIds) => m # h
    BY <1>2, Ids DEF Is
  <2>. QED
    BY <1>3, <1>8, <1>9, <2>1, SettleFrame, InitFrame DEF Agree
<1>. QED
  BY <1>3, <1>10, <1>11, <1>12 DEF Agree, DelayedOK

(* What a handler takes was on its way. *)
LEMMA HeadSpeaks ==
  ASSUME mail \in Seq(Message), NEW to, NEW ids, Head(mail) \in Contents(mail),
         Is(Head(mail), to, ids)
  PROVE  ~ None(mail, to, ids)
<1>1. PICK i \in 1 .. Len(mail) : mail[i] = Head(mail)
  BY DEF Contents
<1>. QED
  BY <1>1 DEF None

(* The register is read; the value is what the last interrupt was about. *)
LEMMA SyReadAgree == ASSUME Inv, AppTypes, Agree, SyRead PROVE Agree'
<1>. DEFINE h == Head(mail)
<1>1. /\ mail \in Seq(Message) /\ mail # <<>> /\ h \in Contents(mail)
      /\ h.to = "charger" /\ h.id = "sy5501_event"
  <2>1. Handles("charger", "sy5501_event")
    BY DEF SyRead
  <2>. QED
    BY <2>1, HeadOf
<1>2. /\ UNCHANGED <<world, pmu, chg, phy, delayed, hist>> /\ Finish(<<>>)
      /\ busy' = [at |-> "sy5501", read |-> world.inCase]
  BY DEF SyRead
<1>3. /\ \A to, ids : ~ Is(h, to, ids) => Keep(to, ids)
      /\ \A to, ids, good :
           /\ good \subseteq ids /\ Last(mail, to, ids, good)
           => Last(mail', to, ids, good) \/ (Is(h, to, good) /\ None(mail', to, ids))
      /\ \A x \in Contents(mail) : x # h => x \in Contents(mail')
  BY <1>1, <1>2, FinishNone
<1>4. ~ None(mail, "charger", WatchIds)
  BY <1>1, HeadSpeaks, Ids DEF Is
<1>. HIDE DEF h
<1>5. CaseTold'
  <2>. SUFFICES ASSUME ~ hist.overtaken
                PROVE  Last(mail', "charger", WatchIds, CaseId(world.inCase) \cup {"sy5501_event"})
                       \/ None(mail', "charger", WatchIds)
    BY <1>2 DEF CaseTold
  <2>1. Last(mail, "charger", WatchIds, CaseId(world.inCase) \cup {"sy5501_event"})
    BY <1>4 DEF Agree, CaseTold
  <2>2. CaseId(world.inCase) \cup {"sy5501_event"} \subseteq WatchIds
    BY Ids
  <2>. QED
    BY <1>3, <2>1, <2>2
<1>6. Keep("pmu", PlugIds) /\ Keep("charger", PlugIds)
  <2>1. "sy5501_event" \notin PlugIds
    BY DEF PlugIds
  <2>. QED
    BY <1>1, <1>3, <2>1 DEF Is
<1>7. Keep("phy", CasePlugIds) /\ Keep("phy", CaseIds) /\ Keep("phy", {"init"})
  BY <1>1, <1>3 DEF Is
<1>8. PlugTold' /\ ChargerTold' /\ PhyTold'
  BY <1>2, <1>6, <1>7, PlugFrame, ChargerFrame, PhyFrame DEF Agree
<1>9. SettleTold' /\ InitTold'
  <2>1. h # PhyInitMsg /\ \A m : Is(m, "pmu", DebounceIds) => m # h
    BY <1>1, Ids DEF Is
  <2>. QED
    BY <1>2, <1>3, <1>7, <2>1, SettleFrame, InitFrame DEF Agree
<1>. QED
  BY <1>2, <1>5, <1>8, <1>9 DEF Agree, DelayedOK

(* The value read differs from the record, or the record is right. *)
LEMMA SyDecideAgree == ASSUME Inv, AppTypes, Agree, SyDecide PROVE Agree'
<1>. DEFINE cid == IF busy.read THEN "in_case" ELSE "out_case"
            m == Mail("charger", cid)
<1>1. /\ busy.at = "sy5501" /\ busy' = [at |-> "idle", read |-> FALSE]
      /\ UNCHANGED <<world, pmu, chg, phy, delayed, hist>>
      /\ mail' = IF busy.read # chg.inCase THEN Append(mail, m) ELSE mail
  BY DEF SyDecide
<1>2. CaseId(busy.read) = {cid} /\ cid \in CaseIds
  BY DEF CaseId, CaseIds
<1>3. m \in Message /\ m.to = "charger" /\ m.id = cid
  BY <1>2, Apart, SentMail
<1>. HIDE DEF cid, m
<1>4. hist.overtaken \/ busy.read = world.inCase
  BY <1>1 DEF Agree, CaseTold
<1>5. /\ \A to, ids : ~ Is(m, to, ids) => Keep(to, ids)
      /\ \A x \in Contents(mail) : x \in Contents(mail')
  <2>1. CASE mail' = mail
    BY <2>1 DEF Keep
  <2>2. CASE Post(m)
    BY <1>3, <2>2, PostKeep DEF Inv, Types
  <2>. QED
    BY <1>1, <2>1, <2>2 DEF Post
<1>6. CaseTold'
  <2>. DEFINE good == CaseId(world.inCase) \cup {"sy5501_event"}
  <2>. SUFFICES ASSUME ~ hist.overtaken
                PROVE  \/ Last(mail', "charger", WatchIds, good)
                       \/ None(mail', "charger", WatchIds) /\ chg.inCase = world.inCase
    BY <1>1 DEF CaseTold
  <2>1. CASE busy.read = chg.inCase
    <3>1. mail' = mail /\ chg.inCase = world.inCase
      BY <1>1, <1>4, <2>1
    <3>. QED
      BY <3>1 DEF Agree, CaseTold
  <2>2. CASE busy.read # chg.inCase
    <3>1. Is(m, "charger", good) /\ good \in SUBSET WatchIds
      BY <1>2, <1>3, <1>4, Ids DEF Is
    <3>. HIDE DEF good
    <3>. QED
      BY <1>1, <1>3, <2>2, <3>1, ToldAppend DEF Inv, Types
  <2>. QED
    BY <2>1, <2>2
<1>7. Keep("pmu", PlugIds) /\ Keep("charger", PlugIds)
  <2>1. cid \notin PlugIds
    BY <1>2, Apart, Ids
  <2>. QED
    BY <1>3, <1>5, <2>1 DEF Is
<1>8. Keep("phy", CasePlugIds) /\ Keep("phy", CaseIds) /\ Keep("phy", {"init"})
  BY <1>3, <1>5 DEF Is
<1>9. PlugTold' /\ ChargerTold' /\ PhyTold'
  BY <1>1, <1>7, <1>8, PlugFrame, ChargerFrame, PhyFrame DEF Agree
<1>10. SettleTold' /\ InitTold'
  BY <1>1, <1>5, <1>8, SettleFrame, InitFrame DEF Agree
<1>. QED
  BY <1>1, <1>6, <1>9, <1>10 DEF Agree, DelayedOK

(* The charger takes over the case bit and passes it on. *)
LEMMA ChargerCaseAgree == ASSUME Inv, AppTypes, Agree, ChargerCase PROVE Agree'
<1>. DEFINE h == Head(mail)
<1>1. PICK in \in BOOLEAN :
        /\ Handles("charger", IF in THEN "in_case" ELSE "out_case")
        /\ chg' = [chg EXCEPT !.inCase = in]
        /\ Finish(<<Mail("phy", IF in THEN "case_plug_in" ELSE "case_plug_out")>>)
  BY DEF ChargerCase
<1>. DEFINE id == IF in THEN "in_case" ELSE "out_case"
            pid == IF in THEN "case_plug_in" ELSE "case_plug_out"
            m == Mail("phy", pid)
<1>2. /\ CaseId(in) = {id} /\ id \in CaseIds
      /\ CasePlugId(in) = {pid} /\ pid \in CasePlugIds
  BY DEF CaseId, CasePlugId, CaseIds, CasePlugIds
<1>3. /\ mail \in Seq(Message) /\ mail # <<>> /\ h \in Contents(mail)
      /\ h.to = "charger" /\ h.id = id /\ busy.at = "idle"
  BY <1>1, HeadOf
<1>4. UNCHANGED <<world, pmu, phy, delayed, busy, hist>>
  BY DEF ChargerCase
<1>5. chg'.plugIn = chg.plugIn /\ chg'.inCase = in
  BY <1>1 DEF AppTypes
<1>6. m \in Message /\ m.to = "phy" /\ m.id = pid
  BY <1>2, Apart, SentMail
<1>7. /\ \A to, ids : ~ Is(h, to, ids) /\ ~ Is(m, to, ids) => Keep(to, ids)
      /\ \A to, ids, good :
           /\ good \subseteq ids /\ Last(mail, to, ids, good) /\ ~ Is(m, to, ids)
           => Last(mail', to, ids, good) \/ (Is(h, to, good) /\ None(mail', to, ids))
      /\ \A to, ids, good : good \subseteq ids /\ Is(m, to, good) => Last(mail', to, ids, good)
      /\ \A x \in Contents(mail) : x # h => x \in Contents(mail')
  BY <1>1, <1>3, <1>6, FinishOne
<1>8. ~ None(mail, "charger", WatchIds)
  BY <1>2, <1>3, HeadSpeaks, Ids DEF Is
<1>. HIDE DEF h, m, id, pid
<1>9. CaseTold'
  <2>. DEFINE good == CaseId(world.inCase) \cup {"sy5501_event"}
  <2>. SUFFICES ASSUME ~ hist.overtaken
                PROVE  \/ Last(mail', "charger", WatchIds, good)
                       \/ None(mail', "charger", WatchIds) /\ in = world.inCase
    BY <1>3, <1>4, <1>5 DEF CaseTold
  <2>1. Last(mail, "charger", WatchIds, good)
    BY <1>8 DEF Agree, CaseTold
  <2>2. good \subseteq WatchIds /\ ~ Is(m, "charger", WatchIds)
    BY <1>6, Ids DEF Is
  <2>3. Last(mail', "charger", WatchIds, good)
        \/ (Is(h, "charger", good) /\ None(mail', "charger", WatchIds))
    BY <1>7, <2>1, <2>2
  <2>4. Is(h, "charger", good) => in = world.inCase
    BY <1>2, <1>3 DEF Is, CaseId, CaseIds, AppTypes
  <2>. QED
    BY <2>3, <2>4
<1>10. PhyTold'
  <2>1. Is(m, "phy", CasePlugId(in)) /\ CasePlugId(in) \subseteq CasePlugIds
    BY <1>2, <1>6 DEF Is
  <2>. QED
    BY <1>5, <1>7, <2>1 DEF PhyTold
<1>11. Keep("pmu", PlugIds) /\ Keep("charger", PlugIds)
  <2>1. id \notin PlugIds
    BY <1>2, Apart, Ids
  <2>. QED
    BY <1>3, <1>6, <1>7, <2>1 DEF Is
<1>12. Keep("phy", {"init"})
  BY <1>2, <1>3, <1>6, <1>7, Apart DEF Is
<1>13. PlugTold' /\ ChargerTold'
  BY <1>4, <1>5, <1>11, PlugFrame, ChargerFrame DEF Agree
<1>14. SettleTold' /\ InitTold'
  <2>1. h # PhyInitMsg /\ \A x : Is(x, "pmu", DebounceIds) => x # h
    BY <1>3, Ids DEF Is
  <2>. QED
    BY <1>4, <1>7, <1>12, <2>1, SettleFrame, InitFrame DEF Agree
<1>. QED
  BY <1>4, <1>9, <1>10, <1>13, <1>14 DEF Agree, DelayedOK

(* The module's own message is posted for the charger's. *)
LEMMA PhyForwardAgree == ASSUME Inv, AppTypes, Agree, PhyForward PROVE Agree'
<1>. DEFINE h == Head(mail)
<1>1. PICK pair \in {<<"chg_plug_in", "case_close">>, <<"case_plug_out", "out_case">>,
                     <<"case_plug_in", "in_case">>} :
        Handles("phy", pair[1]) /\ Finish(<<Mail("phy", pair[2])>>)
  BY DEF PhyForward
<1>2. /\ mail \in Seq(Message) /\ mail # <<>> /\ h \in Contents(mail) /\ h \in Message
      /\ h.to = "phy" /\ h.id = pair[1] /\ busy.at = "idle"
  BY <1>1, HeadOf DEF Contents
<1>3. UNCHANGED <<world, pmu, chg, phy, delayed, busy, hist>>
  BY DEF PhyForward
<1>. DEFINE m == Mail("phy", pair[2])
<1>4. m \in Message /\ m.to = "phy" /\ m.id = pair[2]
  <2>1. pair[2] \in PlainIds
    BY DEF PlainIds
  <2>. QED
    BY <2>1, SentMail
<1>5. Finish(<<m>>)
  BY <1>1
<1>. HIDE DEF h, m
<1>6. CASE pair = <<"chg_plug_in", "case_close">>
  <2>1. ~ Said(h) /\ ~ Said(m)
    BY <1>2, <1>4, <1>6, UnsaidMails
  <2>2. /\ <<m>> \in {<<>>} \cup {<<x>> : x \in Message}
        /\ \A x \in Message : <<m>> = <<x>> => ~ Said(x)
    BY <1>4, <2>1
  <2>3. KeepAll
    BY <1>2, <1>5, <2>1, <2>2, KeepFinish DEF h
  <2>. QED
    BY <1>3, <2>3, AgreeFrame
<1>7. CASE pair # <<"chg_plug_in", "case_close">>
  <2>1. PICK b \in BOOLEAN : CasePlugId(b) = {h.id} /\ CaseId(b) = {m.id}
    <3>1. CASE pair = <<"case_plug_out", "out_case">>
      <4>1. CasePlugId(FALSE) = {h.id} /\ CaseId(FALSE) = {m.id}
        BY <1>2, <1>4, <3>1 DEF CasePlugId, CaseId
      <4>. QED
        BY <4>1
    <3>2. CASE pair = <<"case_plug_in", "in_case">>
      <4>1. CasePlugId(TRUE) = {h.id} /\ CaseId(TRUE) = {m.id}
        BY <1>2, <1>4, <3>2 DEF CasePlugId, CaseId
      <4>. QED
        BY <4>1
    <3>. QED
      BY <1>7, <3>1, <3>2
  <2>2. h.id \in CasePlugIds /\ m.id \in CaseIds
    BY <2>1, Ids
  <2>3. /\ \A to, ids : ~ Is(h, to, ids) /\ ~ Is(m, to, ids) => Keep(to, ids)
        /\ \A to, ids, good :
             /\ good \subseteq ids /\ Last(mail, to, ids, good) /\ ~ Is(m, to, ids)
             => Last(mail', to, ids, good) \/ (Is(h, to, good) /\ None(mail', to, ids))
        /\ \A to, ids, good : good \subseteq ids /\ Is(m, to, good) => Last(mail', to, ids, good)
        /\ \A x \in Contents(mail) : x # h => x \in Contents(mail')
    BY <1>2, <1>4, <1>5, FinishOne DEF h
  <2>4. PhyTold'
    <3>1. ~ None(mail, "phy", CasePlugIds)
      BY <1>2, <2>2, HeadSpeaks DEF Is, h
    <3>2. Last(mail, "phy", CasePlugIds, CasePlugId(chg.inCase))
      BY <3>1 DEF Agree, PhyTold
    <3>3. CasePlugId(chg.inCase) \subseteq CasePlugIds /\ CaseId(b) \subseteq CaseIds
          /\ ~ Is(m, "phy", CasePlugIds)
      BY <2>2, Ids, Apart DEF Is
    <3>4. \/ Last(mail', "phy", CasePlugIds, CasePlugId(chg.inCase))
          \/ Is(h, "phy", CasePlugId(chg.inCase)) /\ None(mail', "phy", CasePlugIds)
      BY <2>3, <3>2, <3>3
    <3>5. Is(h, "phy", CasePlugId(chg.inCase)) => b = chg.inCase
      BY <2>1 DEF Is, CasePlugId, AppTypes
    <3>6. Last(mail', "phy", CaseIds, CaseId(b))
      BY <1>4, <2>1, <2>3, <3>3 DEF Is
    <3>. QED
      BY <1>3, <3>4, <3>5, <3>6 DEF PhyTold
  <2>5. Keep("pmu", PlugIds) /\ Keep("charger", PlugIds) /\ Keep("charger", WatchIds)
    BY <1>2, <1>4, <2>3 DEF Is
  <2>6. Keep("phy", {"init"})
    BY <2>2, <2>3, Apart DEF Is
  <2>7. PlugTold' /\ ChargerTold' /\ CaseTold'
    BY <1>3, <2>5, PlugFrame, ChargerFrame, CaseFrame DEF Agree
  <2>8. SettleTold' /\ InitTold'
    <3>1. h # PhyInitMsg /\ \A x : Is(x, "pmu", DebounceIds) => x # h
      BY <1>2, <2>2, Ids, Apart DEF Is
    <3>. QED
      BY <1>3, <2>3, <2>6, <3>1, SettleFrame, InitFrame DEF Agree
  <2>. QED
    BY <1>3, <2>4, <2>7, <2>8 DEF Agree, DelayedOK
<1>. QED
  BY <1>6, <1>7

(* INIT takes the charger's case bit and does not come again. *)
LEMMA PhyInitAgree == ASSUME Inv, AppTypes, Agree, PhyInit PROVE Agree'
<1>. DEFINE h == Head(mail)
<1>1. /\ mail \in Seq(Message) /\ mail # <<>> /\ h \in Contents(mail)
      /\ h.to = "phy" /\ h.id = "init"
  <2>1. Handles("phy", "init")
    BY DEF PhyInit
  <2>. QED
    BY <2>1, HeadOf
<1>2. /\ UNCHANGED <<world, pmu, chg, delayed, busy, hist>> /\ Finish(<<>>)
      /\ phy'.initialized = TRUE /\ phy'.inCase = chg.inCase
  BY DEF PhyInit
<1>3. /\ \A to, ids : ~ Is(h, to, ids) => Keep(to, ids)
      /\ \A x \in Contents(mail) : x # h => x \in Contents(mail')
      /\ mail' = Tail(mail)
  BY <1>1, <1>2, FinishNone
<1>4. Is(h, "phy", {"init"}) /\ ~ None(mail, "phy", {"init"})
  <2>1. Is(h, "phy", {"init"})
    BY <1>1 DEF Is
  <2>. QED
    BY <1>1, <2>1, HeadSpeaks
<1>5. InitTold'
  <2>1. One(mail, "phy", {"init"}) /\ PhyInitMsg \notin delayed
    BY <1>4 DEF Agree, InitTold
  <2>2. One(mail', "phy", {"init"}) /\ None(mail', "phy", {"init"})
    <3>1. {"init"} \in SUBSET {"init"}
      OBVIOUS
    <3>. QED
      BY <1>1, <1>3, <1>4, <2>1, <3>1, ToldTail
  <2>. QED
    BY <1>2, <2>1, <2>2 DEF InitTold
<1>. HIDE DEF h
<1>6. /\ Keep("pmu", PlugIds) /\ Keep("charger", PlugIds) /\ Keep("charger", WatchIds)
      /\ Keep("phy", CasePlugIds) /\ Keep("phy", CaseIds)
  BY <1>1, <1>3, Apart DEF Is
<1>7. PlugTold' /\ ChargerTold' /\ CaseTold'
  BY <1>2, <1>6, PlugFrame, ChargerFrame, CaseFrame DEF Agree
<1>8. PhyTold'
  BY <1>2, <1>6, Ids DEF Agree, PhyTold, Keep
<1>9. SettleTold'
  <2>1. \A x : Is(x, "pmu", DebounceIds) => x # h
    BY <1>1 DEF Is
  <2>. QED
    BY <1>2, <1>3, <2>1, SettleFrame DEF Agree
<1>. QED
  BY <1>2, <1>5, <1>7, <1>8, <1>9 DEF Agree, DelayedOK

(* The recorded case bit follows the charger's. *)
LEMMA PhyCaseAgree == ASSUME Inv, AppTypes, Agree, PhyOutCase \/ PhyInCase PROVE Agree'
<1>. DEFINE h == Head(mail)
<1>1. PICK b \in BOOLEAN, id \in CaseIds :
        /\ CaseId(b) = {id} /\ Handles("phy", id) /\ phy' = [phy EXCEPT !.inCase = b]
  BY DEF PhyOutCase, PhyInCase, PhyEvent, CaseId, CaseIds
<1>2. /\ mail \in Seq(Message) /\ mail # <<>> /\ h \in Contents(mail)
      /\ h.to = "phy" /\ h.id = id
  BY <1>1, HeadOf
<1>3. UNCHANGED <<world, pmu, chg, delayed, busy, hist>> /\ Finish(<<>>)
  BY DEF PhyOutCase, PhyInCase, PhyEvent
<1>4. phy'.initialized = phy.initialized /\ phy'.inCase = b
  BY <1>1 DEF AppTypes
<1>5. /\ \A to, ids : ~ Is(h, to, ids) => Keep(to, ids)
      /\ \A to, ids, good :
           /\ good \subseteq ids /\ Last(mail, to, ids, good)
           => Last(mail', to, ids, good) \/ (Is(h, to, good) /\ None(mail', to, ids))
      /\ \A x \in Contents(mail) : x # h => x \in Contents(mail')
  BY <1>2, <1>3, FinishNone
<1>6. ~ None(mail, "phy", CaseIds)
  BY <1>2, HeadSpeaks DEF Is
<1>. HIDE DEF h
<1>7. Keep("phy", CasePlugIds) /\ Keep("phy", {"init"})
  BY <1>2, <1>5, Apart DEF Is
<1>8. Keep("pmu", PlugIds) /\ Keep("charger", PlugIds) /\ Keep("charger", WatchIds)
  BY <1>2, <1>5 DEF Is
<1>9. PhyTold'
  <2>1. CASE Last(mail, "phy", CasePlugIds, CasePlugId(chg.inCase))
    BY <1>3, <1>7, <2>1, Ids DEF PhyTold, Keep
  <2>2. CASE None(mail, "phy", CasePlugIds) /\ Last(mail, "phy", CaseIds, CaseId(chg.inCase))
    <3>1. CaseId(chg.inCase) \subseteq CaseIds
      BY Ids
    <3>2. \/ Last(mail', "phy", CaseIds, CaseId(chg.inCase))
          \/ Is(h, "phy", CaseId(chg.inCase)) /\ None(mail', "phy", CaseIds)
      BY <1>5, <2>2, <3>1
    <3>3. Is(h, "phy", CaseId(chg.inCase)) => b = chg.inCase
      BY <1>1, <1>2 DEF Is, CaseId, AppTypes
    <3>4. None(mail', "phy", CasePlugIds)
      BY <1>7, <2>2 DEF Keep
    <3>. QED
      BY <1>3, <1>4, <3>2, <3>3, <3>4 DEF PhyTold
  <2>. QED
    BY <1>6, <2>1, <2>2 DEF Agree, PhyTold
<1>10. PlugTold' /\ ChargerTold' /\ CaseTold'
  BY <1>3, <1>8, PlugFrame, ChargerFrame, CaseFrame DEF Agree
<1>11. SettleTold' /\ InitTold'
  <2>1. h # PhyInitMsg /\ \A x : Is(x, "pmu", DebounceIds) => x # h
    BY <1>2, Ids, Apart DEF Is
  <2>. QED
    BY <1>3, <1>4, <1>5, <1>7, <2>1, SettleFrame, InitFrame DEF Agree
<1>. QED
  BY <1>3, <1>9, <1>10, <1>11 DEF Agree, DelayedOK

(* The lid and the ear concern nobody else. *)
LEMMA PhyOtherAgree ==
  ASSUME Inv, AppTypes, Agree, PhyCaseClose \/ PhyCaseOpen \/ PhyOutEar \/ PhyInEar
  PROVE  Agree'
<1>. DEFINE h == Head(mail)
<1>1. PICK id \in {"in_ear", "out_ear", "case_close", "case_open"} : Handles("phy", id)
  BY DEF PhyCaseClose, PhyCaseOpen, PhyOutEar, PhyInEar, PhyEvent
<1>2. mail \in Seq(Message) /\ mail # <<>> /\ h \in Message /\ h.to = "phy" /\ h.id = id
  BY <1>1, HeadOf DEF Contents
<1>3. UNCHANGED <<world, pmu, chg, delayed, busy, hist>> /\ Finish(<<>>)
  BY DEF PhyCaseClose, PhyCaseOpen, PhyOutEar, PhyInEar, PhyEvent
<1>4. phy'.initialized = phy.initialized /\ phy'.inCase = phy.inCase
  BY DEF PhyCaseClose, PhyCaseOpen, PhyOutEar, PhyInEar, PhyEvent, AppTypes
<1>5. KeepAll
  <2>1. ~ Said(h)
    BY <1>2, UnsaidMails
  <2>2. <<>> \in {<<>>} \cup {<<m>> : m \in Message} /\ \A m \in Message : <<>> # <<m>>
    OBVIOUS
  <2>. QED
    BY <1>2, <1>3, <2>1, <2>2, KeepFinish
<1>. QED
  BY <1>3, <1>4, <1>5, AgreeFrame

(* The case's commands concern the lid. *)
LEMMA ReceiveAgree == ASSUME Inv, AppTypes, Agree, Receive PROVE Agree'
<1>. DEFINE h == Head(mail)
<1>1. /\ mail \in Seq(Message) /\ mail # <<>> /\ h \in Message /\ h.to = "protocal"
      /\ busy.at = "idle"
  <2>1. Handles("protocal", "receive_data")
    BY DEF Receive
  <2>. QED
    BY <2>1, HeadOf DEF Contents
<1>2. UNCHANGED <<world, pmu, chg, phy, delayed, hist>>
  BY DEF Receive
<1>3. busy'.at # "sy5501"
  BY <1>1 DEF Receive
<1>4. PICK p \in {<<>>, <<Mail("phy", "case_open")>>, <<Mail("phy", "case_close")>>} : Finish(p)
  BY DEF Receive
<1>5. \A id \in {"case_open", "case_close"} :
        Mail("phy", id) \in Message /\ ~ Said(Mail("phy", id))
  <2>1. \A id \in {"case_open", "case_close"} :
          Mail("phy", id) \in Message /\ Mail("phy", id).to = "phy" /\ Mail("phy", id).id = id
    BY SentMail DEF PlainIds
  <2>. QED
    BY <2>1, UnsaidMails
<1>6. KeepAll
  <2>1. ~ Said(h)
    BY <1>1, UnsaidMails
  <2>2. /\ p \in {<<>>} \cup {<<m>> : m \in Message}
        /\ \A m \in Message : p = <<m>> => ~ Said(m)
    BY <1>4, <1>5
  <2>. QED
    BY <1>1, <1>4, <2>1, <2>2, KeepFinish
<1>. QED
  BY <1>1, <1>2, <1>3, <1>6, AgreeFrame

LEMMA NextAgree == ASSUME Inv, AppTypes, Agree, [Next]_vars PROVE Agree'
<1>1. CASE PmuPlugIn
  <2>1. PlugId(TRUE) = {"plug_in"} /\ SettleId(TRUE) = {"plug_in_debounced"}
        /\ "plug_in" \in PlugIds /\ "plug_in_debounced" \in DebounceIds
    BY DEF PlugId, SettleId, PlugIds, DebounceIds
  <2>. QED
    BY <1>1, <2>1, PmuPlugAgree DEF PmuPlugIn
<1>2. CASE PmuPlugOut
  <2>1. PlugId(FALSE) = {"plug_out"} /\ SettleId(FALSE) = {"plug_out_debounced"}
        /\ "plug_out" \in PlugIds /\ "plug_out_debounced" \in DebounceIds
    BY DEF PlugId, SettleId, PlugIds, DebounceIds
  <2>. QED
    BY <1>2, <2>1, PmuPlugAgree DEF PmuPlugOut
<1>3. CASE MessageThread
  BY <1>1, <1>2, <1>3, PmuDebouncedAgree, ChargerPlugAgree, SyReadAgree, SyDecideAgree,
     ChargerCaseAgree, PhyForwardAgree, PhyInitAgree, PhyCaseAgree, PhyOtherAgree,
     ReceiveAgree, OutsideAgree DEF MessageThread
<1>4. CASE UNCHANGED vars
  <2>1. KeepAll
    BY <1>4, KeepSame DEF vars
  <2>. QED
    BY <1>4, <2>1, AgreeFrame DEF vars
<1>. QED
  BY <1>3, <1>4, PlugAgree, MoveAgree, OutsideAgree, ExpireAgree DEF Next

-------------------------------------------------------------------------------
(* What the user interface is told *)

States == {"close", "open", "out", "ear"}
SdkType == [box : States \cup {"unknown"}, future : States \cup {"unknown"}]
Lists == {<<>>, <<"close">>, <<"open">>, <<"out">>, <<"ear">>,
          <<"open", "out">>, <<"open", "out", "ear">>, <<"out", "ear">>,
          <<"out", "open", "close">>, <<"open", "close">>, <<"out", "open">>}

(* One state after the other *)
LEMMA AnnounceSteps ==
  /\ \A s : Announce(s, <<>>) = s
  /\ \A s, a : Announce(s, <<a>>) = SetState(s, a)
  /\ \A s, a, b : Announce(s, <<a, b>>) = SetState(SetState(s, a), b)
  /\ \A s, a, b, c : Announce(s, <<a, b, c>>) = SetState(SetState(SetState(s, a), b), c)
BY DEF Announce

LEMMA SetStateType ==
  ASSUME NEW s \in SdkType, NEW a \in States
  PROVE  SetState(s, a) \in SdkType /\ SetState(s, a).box = s.box
BY DEF SetState, SdkType

LEMMA AnnounceType ==
  ASSUME NEW s \in SdkType, NEW l \in Lists
  PROVE  Announce(s, l) \in SdkType
<1>1. {"close", "open", "out", "ear"} \subseteq States
  BY DEF States
<1>2. \A r \in SdkType, a \in States : SetState(r, a) \in SdkType
  BY SetStateType
<1>3. ASSUME NEW a \in States PROVE Announce(s, <<a>>) \in SdkType
  <2>1. Announce(s, <<a>>) = SetState(s, a)
    BY DEF Announce
  <2>. QED
    BY <1>2, <2>1
<1>4. ASSUME NEW a \in States, NEW b \in States PROVE Announce(s, <<a, b>>) \in SdkType
  <2>1. Announce(s, <<a, b>>) = SetState(SetState(s, a), b)
    BY DEF Announce
  <2>2. SetState(s, a) \in SdkType
    BY <1>2
  <2>3. SetState(SetState(s, a), b) \in SdkType
    BY <1>2, <2>2
  <2>. QED
    BY <2>1, <2>3
<1>5. ASSUME NEW a \in States, NEW b \in States, NEW c \in States PROVE Announce(s, <<a, b, c>>) \in SdkType
  <2>1. Announce(s, <<a, b, c>>) = SetState(SetState(SetState(s, a), b), c)
    BY DEF Announce
  <2>2. SetState(s, a) \in SdkType
    BY <1>2
  <2>3. SetState(SetState(s, a), b) \in SdkType
    BY <1>2, <2>2
  <2>4. SetState(SetState(SetState(s, a), b), c) \in SdkType
    BY <1>2, <2>3
  <2>. QED
    BY <2>1, <2>4
<1>6. Announce(s, <<>>) \in SdkType
  BY AnnounceSteps
<1>. QED
  BY <1>1, <1>3, <1>4, <1>5, <1>6 DEF Lists

(* The next state on the way is accepted, settled or not. *)
Neighbours == {<<"close", "open">>, <<"open", "close">>, <<"open", "out">>,
               <<"out", "open">>, <<"out", "ear">>, <<"ear", "out">>}

LEMMA OneStep ==
  ASSUME NEW s \in SdkType, NEW a \in States, <<Aim(s), a>> \in Neighbours
  PROVE  SetState(s, a) \in SdkType /\ Aim(SetState(s, a)) = a
<1>1. Accepts(s, a)
  BY DEF Neighbours, Aim, Accepts, Near, States, SdkType
<1>2. SetState(s, a) = [s EXCEPT !.future = a]
  BY <1>1 DEF SetState
<1>. QED
  BY <1>2 DEF Aim, SdkType, States

(* A list whose states are neighbours is followed to its end. *)
LEMMA Ways ==
  ASSUME NEW s \in SdkType
  PROVE  /\ \A a \in States : <<Aim(s), a>> \in Neighbours => Aim(Announce(s, <<a>>)) = a
         /\ \A a, b \in States : <<Aim(s), a>> \in Neighbours /\ <<a, b>> \in Neighbours
                                 => Aim(Announce(s, <<a, b>>)) = b
         /\ \A a, b, c \in States : /\ <<Aim(s), a>> \in Neighbours /\ <<a, b>> \in Neighbours
                                    /\ <<b, c>> \in Neighbours
                                    => Aim(Announce(s, <<a, b, c>>)) = c
<1>1. \A r \in SdkType, a \in States :
        <<Aim(r), a>> \in Neighbours => SetState(r, a) \in SdkType /\ Aim(SetState(r, a)) = a
  BY OneStep
<1>. QED
  BY <1>1, AnnounceSteps

(* The ways out of the case *)
LEMMA WayOuts ==
  /\ WayOut("close") = <<>> /\ WayOut("open") = <<"open">>
  /\ WayOut("out") = <<"open", "out">> /\ WayOut("ear") = <<"open", "out", "ear">>
  /\ Tail(WayOut("out")) = <<"out">> /\ Tail(WayOut("ear")) = <<"out", "ear">>
  /\ Tail(WayOut("open")) = <<>>
BY DEF WayOut

(* A message of the physical state, by the state before and after *)
LEMMA EventWay ==
  ASSUME AppTypes, sdk \in SdkType, phy.initialized, phy # phy', Aim(sdk) = State(phy),
         PhyCaseClose \/ PhyCaseOpen \/ PhyOutCase \/ PhyOutEar \/ PhyInEar
  PROVE  Aim(sdk') = State(phy')
<1>1. /\ phy \in [initialized : BOOLEAN, caseClose : BOOLEAN, inCase : BOOLEAN, inEar : BOOLEAN]
      /\ State(phy) \in States
  BY DEF AppTypes, State, States
<1>2. \A a, b, c \in States :
        /\ sdk' = sdk => Aim(sdk') = State(phy)
        /\ sdk' = Announce(sdk, <<a>>) /\ <<State(phy), a>> \in Neighbours => Aim(sdk') = a
        /\ /\ sdk' = Announce(sdk, <<a, b>>) /\ <<State(phy), a>> \in Neighbours
           /\ <<a, b>> \in Neighbours
           => Aim(sdk') = b
        /\ /\ sdk' = Announce(sdk, <<a, b, c>>) /\ <<State(phy), a>> \in Neighbours
           /\ <<a, b>> \in Neighbours /\ <<b, c>> \in Neighbours
           => Aim(sdk') = c
  <2>1. ASSUME NEW a \in States, NEW b \in States, NEW c \in States
        PROVE  /\ <<State(phy), a>> \in Neighbours => Aim(Announce(sdk, <<a>>)) = a
               /\ <<State(phy), a>> \in Neighbours /\ <<a, b>> \in Neighbours
                  => Aim(Announce(sdk, <<a, b>>)) = b
               /\ /\ <<State(phy), a>> \in Neighbours /\ <<a, b>> \in Neighbours
                  /\ <<b, c>> \in Neighbours
                  => Aim(Announce(sdk, <<a, b, c>>)) = c
    BY Ways, Zenon
  <2>. QED
    BY <2>1, Zenon
<1>3. Announce(sdk, <<>>) = sdk
  BY AnnounceSteps
<1>4. CASE PhyCaseClose
  <2>1. /\ phy' = [phy EXCEPT !.caseClose = TRUE]
        /\ sdk' = Announce(sdk, IF State(phy') = "close" THEN WayIn(State(phy)) ELSE <<>>)
    BY <1>4 DEF PhyCaseClose, PhyEvent
  <2>2. CASE phy.inCase
    <3>1. State(phy') = "close" /\ State(phy) = "open"
      BY <1>1, <2>1, <2>2 DEF State
    <3>2. sdk' = Announce(sdk, <<"close">>)
      BY <2>1, <3>1 DEF WayIn
    <3>. QED
      BY <1>2, <3>1, <3>2 DEF States, Neighbours
  <2>3. CASE ~ phy.inCase
    <3>1. State(phy') # "close" /\ State(phy) = State(phy')
      BY <1>1, <2>1, <2>3 DEF State
    <3>. QED
      BY <1>1, <1>2, <1>3, <2>1, <3>1
  <2>. QED
    BY <2>2, <2>3
<1>5. CASE PhyCaseOpen
  <2>1. /\ phy' = [phy EXCEPT !.caseClose = FALSE]
        /\ sdk' = Announce(sdk, IF State(phy) = "close" THEN WayOut(State(phy')) ELSE <<>>)
    BY <1>5 DEF PhyCaseOpen, PhyEvent
  <2>2. CASE phy.inCase
    <3>1. State(phy') = "open" /\ State(phy) = "close"
      BY <1>1, <2>1, <2>2 DEF State
    <3>2. sdk' = Announce(sdk, <<"open">>)
      BY <2>1, <3>1, WayOuts
    <3>. QED
      BY <1>2, <3>1, <3>2 DEF States, Neighbours
  <2>3. CASE ~ phy.inCase
    <3>1. State(phy) # "close" /\ State(phy) = State(phy')
      BY <1>1, <2>1, <2>3 DEF State
    <3>. QED
      BY <1>1, <1>2, <1>3, <2>1, <3>1
  <2>. QED
    BY <2>2, <2>3
<1>6. CASE PhyOutCase
  <2>1. /\ phy' = [phy EXCEPT !.inCase = FALSE]
        /\ sdk' = Announce(sdk, CASE State(phy) = "close" -> WayOut(State(phy'))
                                  [] State(phy) = "open" -> Tail(WayOut(State(phy')))
                                  [] OTHER -> <<>>)
    BY <1>6 DEF PhyOutCase, PhyEvent
  <2>2. State(phy) \in {"close", "open"} /\ State(phy') \in {"out", "ear"}
    BY <1>1, <2>1 DEF State
  <2>3. CASE State(phy) = "close" /\ State(phy') = "out"
    <3>1. sdk' = Announce(sdk, <<"open", "out">>)
      BY <2>1, <2>3, WayOuts
    <3>. QED
      BY <1>2, <2>3, <3>1 DEF States, Neighbours
  <2>4. CASE State(phy) = "close" /\ State(phy') = "ear"
    <3>1. sdk' = Announce(sdk, <<"open", "out", "ear">>)
      BY <2>1, <2>4, WayOuts
    <3>. QED
      BY <1>2, <2>4, <3>1 DEF States, Neighbours
  <2>5. CASE State(phy) = "open" /\ State(phy') = "out"
    <3>1. sdk' = Announce(sdk, <<"out">>)
      BY <2>1, <2>5, WayOuts
    <3>. QED
      BY <1>2, <2>5, <3>1 DEF States, Neighbours
  <2>6. CASE State(phy) = "open" /\ State(phy') = "ear"
    <3>1. sdk' = Announce(sdk, <<"out", "ear">>)
      BY <2>1, <2>6, WayOuts
    <3>. QED
      BY <1>2, <2>6, <3>1 DEF States, Neighbours
  <2>. QED
    BY <2>2, <2>3, <2>4, <2>5, <2>6
<1>7. CASE PhyOutEar
  <2>1. /\ phy' = [phy EXCEPT !.inEar = FALSE]
        /\ sdk' = Announce(sdk, IF State(phy) = "ear" /\ State(phy') = "out" THEN <<"out">>
                                                                             ELSE <<>>)
    BY <1>7 DEF PhyOutEar, PhyEvent
  <2>2. CASE State(phy) = "ear"
    <3>1. State(phy') = "out"
      BY <1>1, <2>1, <2>2 DEF State
    <3>. QED
      BY <1>2, <2>1, <2>2, <3>1 DEF States, Neighbours
  <2>3. CASE State(phy) # "ear"
    <3>1. State(phy) = State(phy')
      BY <1>1, <2>1, <2>3 DEF State
    <3>. QED
      BY <1>1, <1>2, <1>3, <2>1, <2>3, <3>1
  <2>. QED
    BY <2>2, <2>3
<1>8. CASE PhyInEar
  <2>1. /\ phy' = [phy EXCEPT !.inEar = TRUE]
        /\ sdk' = Announce(sdk, IF State(phy) = "out" /\ State(phy') = "ear" THEN <<"ear">>
                                                                             ELSE <<>>)
    BY <1>8 DEF PhyInEar, PhyEvent
  <2>2. CASE State(phy) = "out"
    <3>1. State(phy') = "ear"
      BY <1>1, <2>1, <2>2 DEF State
    <3>. QED
      BY <1>2, <2>1, <2>2, <3>1 DEF States, Neighbours
  <2>3. CASE State(phy) # "out"
    <3>1. State(phy) = State(phy')
      BY <1>1, <2>1, <2>3 DEF State
    <3>. QED
      BY <1>1, <1>2, <1>3, <2>1, <2>3, <3>1
  <2>. QED
    BY <2>2, <2>3
<1>. QED
  BY <1>4, <1>5, <1>6, <1>7, <1>8

-------------------------------------------------------------------------------
(* The types that the safety invariants above do not need *)

LEMMA SdkTypes == AppTypes => sdk \in SdkType
<1>1. States \cup {"unknown"} = {"unknown", "close", "open", "out", "ear"}
  BY DEF States
<1>. QED
  BY <1>1 DEF AppTypes, SdkType

(* What is announced is a list of states. *)
LEMMA PhyTypes ==
  ASSUME AppTypes,
         \/ PhyInit \/ PhyCaseClose \/ PhyCaseOpen
         \/ PhyOutCase \/ PhyInCase \/ PhyOutEar \/ PhyInEar
  PROVE  /\ phy' \in [initialized : BOOLEAN, caseClose : BOOLEAN, inCase : BOOLEAN,
                      inEar : BOOLEAN]
         /\ sdk' \in SdkType
<1>1. phy' \in [initialized : BOOLEAN, caseClose : BOOLEAN, inCase : BOOLEAN, inEar : BOOLEAN]
  <2>. DEFINE P == [initialized : BOOLEAN, caseClose : BOOLEAN, inCase : BOOLEAN,
                    inEar : BOOLEAN]
  <2>1. phy \in P /\ chg \in [plugIn : BOOLEAN, inCase : BOOLEAN]
    BY DEF AppTypes
  <2>2. CASE PhyInit
    <3>1. phy' = [initialized |-> TRUE, caseClose |-> chg.plugIn, inCase |-> chg.inCase,
                  inEar |-> TRUE]
      BY <2>2 DEF PhyInit
    <3>. QED
      BY <2>1, <3>1
  <2>3. CASE PhyCaseClose \/ PhyCaseOpen \/ PhyOutCase \/ PhyInCase \/ PhyOutEar \/ PhyInEar
    <3>1. \E b \in BOOLEAN : \/ phy' = [phy EXCEPT !.caseClose = b]
                             \/ phy' = [phy EXCEPT !.inCase = b]
                             \/ phy' = [phy EXCEPT !.inEar = b]
      BY <2>3 DEF PhyCaseClose, PhyCaseOpen, PhyOutCase, PhyInCase, PhyOutEar, PhyInEar,
                  PhyEvent
    <3>. QED
      BY <2>1, <3>1
  <2>. QED
    BY <2>2, <2>3
<1>2. State(phy) \in States /\ State(phy') \in States
  BY DEF State, States
<1>3. sdk' = sdk \/ \E l \in Lists : sdk' = Announce(sdk, l)
  <2>1. WayOut(State(phy')) \in Lists /\ WayIn(State(phy)) \in Lists
    BY <1>2 DEF WayOut, WayIn, Lists, States
  <2>2. <<>> \in Lists /\ <<"close">> \in Lists /\ <<"out">> \in Lists /\ <<"ear">> \in Lists
        /\ <<"out", "open">> \in Lists
    BY DEF Lists
  <2>3. CASE PhyInit
    BY <2>1, <2>2, <2>3 DEF PhyInit
  <2>4. CASE PhyCaseClose
    BY <2>1, <2>2, <2>4 DEF PhyCaseClose, PhyEvent
  <2>5. CASE PhyCaseOpen
    BY <2>1, <2>2, <2>5 DEF PhyCaseOpen, PhyEvent
  <2>6. CASE PhyOutCase
    <3>1. phy' = [phy EXCEPT !.inCase = FALSE]
      BY <2>6 DEF PhyOutCase, PhyEvent
    <3>2. State(phy') \in {"out", "ear"}
      BY <3>1 DEF AppTypes, State
    <3>3. Tail(WayOut(State(phy'))) \in Lists
      BY <3>2, WayOuts DEF Lists
    <3>4. \/ sdk' = sdk
          \/ sdk' = Announce(sdk, CASE State(phy) = "close" -> WayOut(State(phy'))
                                    [] State(phy) = "open" -> Tail(WayOut(State(phy')))
                                    [] OTHER -> <<>>)
      BY <2>6, <3>1 DEF PhyOutCase, PhyEvent
    <3>. QED
      BY <2>1, <2>2, <3>3, <3>4
  <2>7. CASE PhyInCase
    BY <2>1, <2>2, <2>7 DEF PhyInCase, PhyEvent
  <2>8. CASE PhyOutEar \/ PhyInEar
    BY <2>1, <2>2, <2>8 DEF PhyOutEar, PhyInEar, PhyEvent
  <2>. QED
    BY <2>3, <2>4, <2>5, <2>6, <2>7, <2>8
<1>. QED
  BY <1>1, <1>3, SdkTypes, AnnounceType

LEMMA NextTypes == ASSUME Inv, AppTypes, [Next]_vars PROVE AppTypes'
<1>. DEFINE Rest == /\ chg \in [plugIn : BOOLEAN, inCase : BOOLEAN]
                    /\ events \in 0 .. MaxEvents
<1>1. world' \in [plugged : BOOLEAN, inCase : BOOLEAN]
  <2>1. \/ \E b \in BOOLEAN : world' = [world EXCEPT !.plugged = b]
        \/ \E b \in BOOLEAN : world' = [world EXCEPT !.inCase = b]
        \/ world' = world
    BY DEF Next, MessageThread, Plug, Move, Ear, FrameBegin, FrameEnd, Expire, BoxSettles,
           PmuPlugIn, PmuPlugOut, PmuPlug, PmuDebounced, ChargerPlugIn, ChargerPlugOut,
           SyRead, SyDecide, ChargerCase, PhyForward, PhyInit, PhyCaseClose, PhyCaseOpen,
           PhyOutCase, PhyInCase, PhyOutEar, PhyInEar, PhyEvent, Receive, TxDone, vars
  <2>. QED
    BY <2>1 DEF AppTypes
<1>2. chg' \in [plugIn : BOOLEAN, inCase : BOOLEAN]
  <2>1. \/ \E b \in BOOLEAN : chg' = [chg EXCEPT !.plugIn = b]
        \/ \E b \in BOOLEAN : chg' = [chg EXCEPT !.inCase = b]
        \/ chg' = chg
    <3>1. PmuDebounced => chg' = chg \/ chg' = [chg EXCEPT !.plugIn = pmu.plugIn]
      BY DEF PmuDebounced
    <3>2. pmu.plugIn \in BOOLEAN
      BY DEF Inv, Types
    <3>3. ChargerPlugIn \/ ChargerPlugOut => \E b \in BOOLEAN : chg' = [chg EXCEPT !.plugIn = b]
      BY DEF ChargerPlugIn, ChargerPlugOut
    <3>4. ChargerCase => \E b \in BOOLEAN : chg' = [chg EXCEPT !.inCase = b]
      BY DEF ChargerCase
    <3>5. PmuDebounced \/ ChargerPlugIn \/ ChargerPlugOut \/ ChargerCase \/ chg' = chg
      BY DEF Next, MessageThread, Plug, Move, Ear, FrameBegin, FrameEnd, Expire, BoxSettles,
             PmuPlugIn, PmuPlugOut, PmuPlug, SyRead, SyDecide, PhyForward, PhyInit,
             PhyCaseClose, PhyCaseOpen, PhyOutCase, PhyInCase, PhyOutEar, PhyInEar, PhyEvent,
             Receive, TxDone, vars
    <3>. QED
      BY <3>1, <3>2, <3>3, <3>4, <3>5
  <2>. QED
    BY <2>1 DEF AppTypes
<1>3. phy' \in [initialized : BOOLEAN, caseClose : BOOLEAN, inCase : BOOLEAN, inEar : BOOLEAN]
      /\ sdk' \in SdkType
  <2>1. \/ PhyInit \/ PhyCaseClose \/ PhyCaseOpen
        \/ PhyOutCase \/ PhyInCase \/ PhyOutEar \/ PhyInEar
        \/ BoxSettles
        \/ phy' = phy /\ sdk' = sdk
    BY DEF Next, MessageThread, Plug, Move, Ear, FrameBegin, FrameEnd, Expire,
           PmuPlugIn, PmuPlugOut, PmuPlug, PmuDebounced, ChargerPlugIn, ChargerPlugOut,
           SyRead, SyDecide, ChargerCase, PhyForward, Receive, TxDone, vars
  <2>2. phy \in [initialized : BOOLEAN, caseClose : BOOLEAN, inCase : BOOLEAN, inEar : BOOLEAN]
        /\ sdk \in SdkType
    BY SdkTypes DEF AppTypes
  <2>3. BoxSettles => phy' = phy /\ sdk' \in SdkType
    BY <2>2 DEF BoxSettles, SdkType
  <2>. QED
    BY <2>1, <2>2, <2>3, PhyTypes
<1>4. events' \in 0 .. MaxEvents
  <2>1. events \in 0 .. MaxEvents /\ MaxEvents \in Nat
    BY AppAssumption DEF AppTypes
  <2>2. Event \/ events' = events
    BY DEF Next, MessageThread, Plug, Move, Ear, FrameBegin, FrameEnd, Expire, BoxSettles,
           PmuPlugIn, PmuPlugOut, PmuPlug, PmuDebounced, ChargerPlugIn, ChargerPlugOut,
           SyRead, SyDecide, ChargerCase, PhyForward, PhyInit, PhyCaseClose, PhyCaseOpen,
           PhyOutCase, PhyInCase, PhyOutEar, PhyInEar, PhyEvent, Receive, TxDone, vars
  <2>. QED
    BY <2>1, <2>2 DEF Event
<1>5. /\ busy' \in [at : {"idle", "sy5501", "tx"}, read : BOOLEAN]
      /\ (vbus'.rx = "off") <=> (busy'.at = "tx")
  <2>. DEFINE B == [at : {"idle", "sy5501", "tx"}, read : BOOLEAN]
  <2>1. /\ busy \in B /\ world.inCase \in BOOLEAN
        /\ vbus \in [rx : {"off", "idle", "frame"}, buf : SUBSET Frames, coming : SUBSET Frames]
        /\ (vbus.rx = "off") <=> (busy.at = "tx")
    BY DEF AppTypes, Inv, Types
  <2>2. \/ FrameBegin \/ FrameEnd \/ SyRead \/ SyDecide \/ Receive \/ TxDone
        \/ busy' = busy /\ vbus' = vbus
    BY DEF Next, MessageThread, Plug, Move, Ear, Expire, BoxSettles,
           PmuPlugIn, PmuPlugOut, PmuPlug, PmuDebounced, ChargerPlugIn, ChargerPlugOut,
           ChargerCase, PhyForward, PhyInit, PhyCaseClose, PhyCaseOpen,
           PhyOutCase, PhyInCase, PhyOutEar, PhyInEar, PhyEvent, vars
  <2>3. CASE FrameBegin
    BY <2>1, <2>3 DEF FrameBegin
  <2>4. CASE FrameEnd
    <3>1. vbus.rx = "frame" /\ busy' = busy
      BY <2>4 DEF FrameEnd
    <3>2. \/ vbus' = [rx |-> "idle", buf |-> vbus.coming, coming |-> {}]
          \/ vbus' = [vbus EXCEPT !.rx = "idle", !.coming = {}]
      BY <2>4 DEF FrameEnd
    <3>3. vbus'.rx = "idle"
      <4>1. CASE vbus' = [rx |-> "idle", buf |-> vbus.coming, coming |-> {}]
        BY <4>1
      <4>2. CASE vbus' = [vbus EXCEPT !.rx = "idle", !.coming = {}]
        BY <4>2 DEF Inv, Types
      <4>. QED
        BY <3>2, <4>1, <4>2
    <3>. QED
      BY <2>1, <3>1, <3>3
  <2>5. CASE SyRead
    BY <2>1, <2>5 DEF SyRead, Handles
  <2>6. CASE SyDecide
    BY <2>1, <2>6 DEF SyDecide
  <2>7. CASE Receive
    <3>1. \/ busy' = busy /\ vbus' = vbus
          \/ /\ vbus' = [vbus EXCEPT !.rx = "off", !.coming = {}]
             /\ busy' = [at |-> "tx", read |-> FALSE]
      BY <2>7 DEF Receive
    <3>2. CASE busy' = busy /\ vbus' = vbus
      BY <2>1, <3>2
    <3>3. CASE /\ vbus' = [vbus EXCEPT !.rx = "off", !.coming = {}]
               /\ busy' = [at |-> "tx", read |-> FALSE]
      <4>1. vbus'.rx = "off" /\ busy'.at = "tx" /\ busy' \in B
        BY <2>1, <3>3
      <4>. QED
        BY <4>1
    <3>. QED
      BY <3>1, <3>2, <3>3
  <2>8. CASE TxDone
    BY <2>1, <2>8 DEF TxDone
  <2>. QED
    BY <2>1, <2>2, <2>3, <2>4, <2>5, <2>6, <2>7, <2>8
<1>. QED
  <2>1. States \cup {"unknown"} = {"unknown", "close", "open", "out", "ear"}
    BY DEF States
  <2>. QED
    BY <1>1, <1>2, <1>3, <1>4, <1>5, <2>1 DEF AppTypes, SdkType

(* All of it is inductive. *)
AppInv == Inv /\ AppTypes /\ Agree

LEMMA InitAppInv == Init => AppInv
BY InitInv, InitAgree DEF AppInv

LEMMA NextAppInv == AppInv /\ [Next]_vars => AppInv'
BY NextInv, NextTypes, NextAgree DEF AppInv

-------------------------------------------------------------------------------
(* Every variable keeps its type; reception is off exactly while a response *)
(* is being sent (stdf_hal_vbus.c), and the delay table and the mailbox     *)
(* hold messages of the modules only.                                       *)
THEOREM TypeCorrect == Spec => []TypeOK
<1>1. AppInv => TypeOK
  <2>. SUFFICES ASSUME AppInv PROVE TypeOK
    OBVIOUS
  <2>1. /\ mail \in Seq(Message) /\ delayed \subseteq Message
        /\ pmu \in [plugIn : BOOLEAN, debounced : BOOLEAN]
        /\ vbus \in [rx : {"off", "idle", "frame"}, buf : SUBSET Frames, coming : SUBSET Frames]
    BY DEF AppInv, Inv, Types
  <2>2. \A i \in DOMAIN mail : mail[i] \in Message
    BY <2>1, ElementOfSeq, LenProperties
  <2>3. /\ world \in [plugged : BOOLEAN, inCase : BOOLEAN]
        /\ chg \in [plugIn : BOOLEAN, inCase : BOOLEAN]
        /\ phy \in [initialized : BOOLEAN, caseClose : BOOLEAN, inCase : BOOLEAN, inEar : BOOLEAN]
        /\ sdk.box \in {"unknown", "close", "open", "out", "ear"}
        /\ sdk.future \in {"unknown", "close", "open", "out", "ear"}
        /\ busy \in [at : {"idle", "sy5501", "tx"}, read : BOOLEAN]
        /\ events \in 0 .. MaxEvents
    BY DEF AppInv, AppTypes
  <2>4. vbus.rx = "off" <=> busy.at = "tx"
    BY DEF AppInv, AppTypes
  <2>. QED
    BY <2>1, <2>2, <2>3, <2>4 DEF TypeOK
<1>. QED
  BY <1>1, InitAppInv, NextAppInv, PTL DEF Spec

(* When nothing is on its way, the PMU, charger and phy modules agree with  *)
(* the contacts and with each other: every copy was corrected by the last   *)
(* mail about it, whatever order the interrupts, the timer and the handlers *)
(* took.                                                                    *)
THEOREM CopiesAgree == Spec => []QuietAgreement
<1>1. AppInv => QuietAgreement
  <2>. SUFFICES ASSUME AppInv, mail = <<>>, busy.at = "idle"
                PROVE  /\ pmu.plugIn = world.plugged
                       /\ delayed = {} => pmu.debounced = world.plugged \/ hist.discarded
                       /\ chg.plugIn = pmu.debounced
                       /\ chg.inCase = world.inCase \/ hist.overtaken
                       /\ phy.initialized => phy.inCase = chg.inCase
                       /\ phy.initialized \/ PhyInitMsg \in delayed \/ hist.discarded
    BY DEF QuietAgreement, Quiet
  <2>1. Len(mail) = 0 /\ 1 .. Len(mail) = {} /\ Contents(mail) = {}
    BY DEF Contents
  <2>2. \A to, ids, good : ~ Last(mail, to, ids, good)
    BY <2>1 DEF Last
  <2>3. pmu.plugIn = world.plugged
    BY <2>2 DEF AppInv, Agree, PlugTold
  <2>4. delayed = {} => pmu.debounced = world.plugged \/ hist.discarded
    BY <2>1, <2>3 DEF AppInv, Agree, SettleTold
  <2>5. chg.plugIn = pmu.debounced
    BY <2>2 DEF AppInv, Agree, ChargerTold
  <2>6. chg.inCase = world.inCase \/ hist.overtaken
    BY <2>2 DEF AppInv, Agree, CaseTold
  <2>7. phy.initialized => phy.inCase = chg.inCase
    BY <2>2 DEF AppInv, Agree, PhyTold
  <2>8. phy.initialized \/ PhyInitMsg \in delayed \/ hist.discarded
    BY <2>1 DEF AppInv, Agree, InitTold
  <2>. QED
    BY <2>3, <2>4, <2>5, <2>6, <2>7, <2>8
<1>. QED
  BY <1>1, InitAppInv, NextAppInv, PTL DEF Spec

(* Once the user interface knows the state, every event but IN_CASE takes   *)
(* it to the new one (stdf_app_phy.c, stdf_sdk_api.c): each state announced *)
(* on the way is a neighbour of the one before, and INIT, which would start *)
(* over, does not come a second time.                                       *)
THEOREM InStep == Spec => StaysInStep
<1>1. ASSUME AppInv, [Next]_vars
      PROVE  [/\ phy.initialized /\ phy # phy'
              /\ Aim(sdk) = State(phy)
              /\ ~ Handles("phy", "in_case")
              => Aim(sdk') = State(phy')]_vars
  <2>. SUFFICES ASSUME Next, phy.initialized, phy # phy', Aim(sdk) = State(phy),
                       ~ Handles("phy", "in_case")
                PROVE  Aim(sdk') = State(phy')
    BY <1>1
  <2>1. \/ PhyInit \/ PhyInCase
        \/ PhyCaseClose \/ PhyCaseOpen \/ PhyOutCase \/ PhyOutEar \/ PhyInEar
    BY DEF Next, MessageThread, Plug, Move, Ear, FrameBegin, FrameEnd, Expire, BoxSettles,
           PmuPlugIn, PmuPlugOut, PmuPlug, PmuDebounced, ChargerPlugIn, ChargerPlugOut,
           SyRead, SyDecide, ChargerCase, PhyForward, Receive, TxDone
  <2>2. ~ PhyInCase
    BY DEF PhyInCase, PhyEvent
  <2>3. ~ PhyInit
    <3>. SUFFICES ASSUME PhyInit PROVE FALSE
      OBVIOUS
    <3>1. Handles("phy", "init")
      BY DEF PhyInit
    <3>2. mail \in Seq(Message) /\ Head(mail) \in Contents(mail) /\ Is(Head(mail), "phy", {"init"})
      BY <1>1, <3>1, HeadOf DEF AppInv, Is
    <3>3. None(mail, "phy", {"init"})
      BY <1>1 DEF AppInv, Agree, InitTold
    <3>. QED
      BY <3>2, <3>3, HeadSpeaks
  <2>4. AppTypes /\ sdk \in SdkType
    BY <1>1, SdkTypes DEF AppInv
  <2>. QED
    BY <2>1, <2>2, <2>3, <2>4, EventWay
<1>. QED
  BY <1>1, InitAppInv, NextAppInv, PTL DEF Spec, StaysInStep
===============================================================================
