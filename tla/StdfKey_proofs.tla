---------------------------- MODULE StdfKey_proofs ----------------------------
(***************************************************************************)
(* Proofs about StdfKey for every mask of gestures, every delay and any    *)
(* number of presses.  The types come first; then what the interrupt       *)
(* handler tells the driver, what is left of a hold after its release, and *)
(* which presses the delivered gestures are made of.                       *)
(***************************************************************************)
EXTENDS StdfKey, FiniteSetTheorems, SequenceTheorems, TLAPS

KeyNames == {"PRESS", "RELEASE"}

GpioType == [pin : BOOLEAN, edge : {"rise", "fall"}, latched : BOOLEAN]
IsrType == [at : {"out", "read", "chosen"}, pressed : BOOLEAN, edge : {"rise", "fall"}]
MailType == (KeyNames \cup Gestures) \X Nat
CallType == [op : {"cancel", "send"}, g : Mask]
KeyType == [count : Nat, press : 0 .. LongTime, release : 0 .. MultTime]
TimerType == [flag : SUBSET Gestures, left : Nat]
HistType == [presses : Nat, down : BOOLEAN, stamp : [Gestures -> Nat],
             clicked : Nat, held : Nat, missed : BOOLEAN, late : BOOLEAN,
             raced : BOOLEAN]

(* The four times are positive, and each gesture waits for one of them. *)
LEMMA Times ==
  /\ MultTime \in Nat /\ MultTime > 0 /\ LongTime \in Nat /\ LongTime > 0
  /\ LongLongTime \in Nat /\ LongLongTime > 0 /\ ContTime \in Nat /\ ContTime > 0
  /\ \A g \in Gestures : Delay(g) \in Nat /\ Delay(g) > 0
  /\ \A g \in Clicks : Delay(g) = MultTime
  /\ Delay("long") = LongTime
<1>1. /\ MultTime \in Nat /\ MultTime > 0 /\ LongTime \in Nat /\ LongTime > 0
      /\ LongLongTime \in Nat /\ LongLongTime > 0 /\ ContTime \in Nat /\ ContTime > 0
  BY KeyAssumption
<1>2. /\ \A g \in Clicks : Delay(g) = MultTime
      /\ Delay("long") = LongTime /\ Delay("longlong") = LongLongTime
      /\ Delay("continuous") = ContTime
  BY DEF Delay, Clicks
<1>3. \A g \in Gestures : g \in Clicks \/ g \in {"long", "longlong", "continuous"}
  BY DEF Gestures, Holds
<1>. QED
  BY <1>1, <1>2, <1>3

-------------------------------------------------------------------------------
(* The calls of a handler, as the set of those it still has to make *)

Ops(q) == {q[i] : i \in 1 .. Len(q)}
Op(op, g) == {c \in CallType : c.op = op /\ c.g = g}

(* One call is made if the gesture is registered for. *)
LEMMA MakeOps ==
  ASSUME NEW op \in {"cancel", "send"}, NEW g \in Gestures
  PROVE  Make(op, g) \in Seq(CallType) /\ Ops(Make(op, g)) = Op(op, g)
<1>1. CASE g \in Mask
  <2>. DEFINE c == [op |-> op, g |-> g]
  <2>1. c \in CallType /\ Make(op, g) = <<c>>
    BY <1>1 DEF CallType, Make
  <2>2. Op(op, g) = {c}
    BY <1>1 DEF Op, CallType
  <2>. HIDE DEF c
  <2>3. <<c>> \in Seq(CallType) /\ Len(<<c>>) = 1 /\ <<c>>[1] = c
    BY <2>1
  <2>4. Ops(<<c>>) = {c}
    BY <2>3 DEF Ops
  <2>. QED
    BY <2>1, <2>2, <2>3, <2>4
<1>2. CASE g \notin Mask
  <2>1. Make(op, g) = <<>> /\ Op(op, g) = {}
    BY <1>2 DEF Make, Op, CallType
  <2>2. <<>> \in Seq(CallType) /\ Ops(<<>>) = {}
    BY DEF Ops
  <2>. QED
    BY <2>1, <2>2
<1>. QED
  BY <1>1, <1>2

(* The calls of two handlers' parts, one after the other *)
LEMMA ConcatOps ==
  ASSUME NEW a \in Seq(CallType), NEW b \in Seq(CallType)
  PROVE  a \o b \in Seq(CallType) /\ Ops(a \o b) = Ops(a) \cup Ops(b)
<1>1. /\ a \o b \in Seq(CallType) /\ Len(a \o b) = Len(a) + Len(b)
      /\ Len(a) \in Nat /\ Len(b) \in Nat
      /\ \A i \in 1 .. Len(a) + Len(b) :
           (a \o b)[i] = IF i <= Len(a) THEN a[i] ELSE b[i - Len(a)]
  BY ConcatProperties, LenProperties
<1>2. \A i \in 1 .. Len(b) : /\ Len(a) + i \in 1 .. Len(a) + Len(b)
                             /\ (a \o b)[Len(a) + i] = b[i]
  BY <1>1
<1>3. \A i \in 1 .. Len(a) : i \in 1 .. Len(a) + Len(b) /\ (a \o b)[i] = a[i]
  BY <1>1
<1>4. \A i \in 1 .. Len(a) + Len(b) : i \in 1 .. Len(a) \/ i - Len(a) \in 1 .. Len(b)
  BY <1>1
<1>5. Ops(a \o b) \subseteq Ops(a) \cup Ops(b)
  BY <1>1, <1>4 DEF Ops
<1>6. Ops(a) \subseteq Ops(a \o b)
  BY <1>1, <1>3 DEF Ops
<1>7. Ops(b) \subseteq Ops(a \o b)
  <2>1. ASSUME NEW i \in 1 .. Len(b) PROVE b[i] \in Ops(a \o b)
    <3>1. Len(a) + i \in 1 .. Len(a \o b) /\ (a \o b)[Len(a) + i] = b[i]
      BY <1>1, <1>2
    <3>. QED
      BY <3>1 DEF Ops
  <2>. QED
    BY <2>1 DEF Ops
<1>. QED
  BY <1>1, <1>5, <1>6, <1>7

(* Making the next call leaves the others. *)
LEMMA TailOps ==
  ASSUME NEW q \in Seq(CallType), q # <<>>
  PROVE  /\ Head(q) \in CallType /\ Tail(q) \in Seq(CallType)
         /\ Ops(q) = {Head(q)} \cup Ops(Tail(q))
<1>1. /\ Len(q) \in Nat /\ Len(q) >= 1 /\ Head(q) = q[1] /\ Tail(q) \in Seq(CallType)
      /\ Head(q) \in CallType /\ Len(Tail(q)) = Len(q) - 1
      /\ \A i \in 1 .. Len(Tail(q)) : Tail(q)[i] = q[i + 1]
  BY EmptySeq, LenProperties, HeadTailProperties
<1>2. \A i \in 1 .. Len(q) : i = 1 \/ (i - 1 \in 1 .. Len(Tail(q)) /\ Tail(q)[i - 1] = q[i])
  BY <1>1
<1>3. 1 \in 1 .. Len(q) /\ \A i \in 1 .. Len(Tail(q)) : i + 1 \in 1 .. Len(q)
  BY <1>1
<1>4. Ops(q) \subseteq {Head(q)} \cup Ops(Tail(q))
  BY <1>1, <1>2 DEF Ops
<1>5. {Head(q)} \cup Ops(Tail(q)) \subseteq Ops(q)
  BY <1>1, <1>3 DEF Ops
<1>. QED
  BY <1>1, <1>4, <1>5

(* No call is left exactly when none is in the set. *)
LEMMA NoOps ==
  ASSUME NEW q \in Seq(CallType)
  PROVE  q = <<>> <=> Ops(q) = {}
<1>1. Len(q) \in Nat /\ (Len(q) = 0 <=> q = <<>>)
  BY EmptySeq, LenProperties
<1>. QED
  BY <1>1 DEF Ops

(* stdf_bsp_key_event_reset and _set *)
LEMMA ResetSetOps ==
  ASSUME NEW g \in Gestures
  PROVE  /\ Reset(g) \in Seq(CallType) /\ Ops(Reset(g)) = Op("cancel", g)
         /\ Set(g) \in Seq(CallType)
         /\ Ops(Set(g)) = Op("cancel", g) \cup Op("send", g)
<1>1. /\ Make("cancel", g) \in Seq(CallType) /\ Ops(Make("cancel", g)) = Op("cancel", g)
      /\ Make("send", g) \in Seq(CallType) /\ Ops(Make("send", g)) = Op("send", g)
  BY MakeOps
<1>. QED
  BY <1>1, ConcatOps DEF Reset, Set

(* The calls that take the clicks back, and those that take the holds back. *)
LEMMA ResetsOps ==
  /\ ResetClicks \in Seq(CallType)
  /\ Ops(ResetClicks) = {c \in CallType : c.op = "cancel" /\ c.g \in Clicks}
  /\ ResetHolds \in Seq(CallType)
  /\ Ops(ResetHolds) = {c \in CallType : c.op = "cancel" /\ c.g \in Holds}
<1>1. \A g \in Gestures : Reset(g) \in Seq(CallType) /\ Ops(Reset(g)) = Op("cancel", g)
  BY ResetSetOps
<1>2. \A g \in {"single", "double", "triple", "long", "longlong", "continuous"} : g \in Gestures
  BY DEF Gestures, Clicks, Holds
<1>3. \A a, b, c \in Gestures :
        /\ Reset(a) \o Reset(b) \o Reset(c) \in Seq(CallType)
        /\ Ops(Reset(a) \o Reset(b) \o Reset(c))
             = Op("cancel", a) \cup Op("cancel", b) \cup Op("cancel", c)
  <2>. SUFFICES ASSUME NEW a \in Gestures, NEW b \in Gestures, NEW c \in Gestures
                PROVE  /\ Reset(a) \o Reset(b) \o Reset(c) \in Seq(CallType)
                       /\ Ops(Reset(a) \o Reset(b) \o Reset(c))
                            = Op("cancel", a) \cup Op("cancel", b) \cup Op("cancel", c)
    OBVIOUS
  <2>1. /\ Reset(a) \o Reset(b) \in Seq(CallType)
        /\ Ops(Reset(a) \o Reset(b)) = Op("cancel", a) \cup Op("cancel", b)
    BY <1>1, ConcatOps
  <2>2. /\ Reset(c) \in Seq(CallType) /\ Ops(Reset(c)) = Op("cancel", c)
    BY <1>1
  <2>. DEFINE ab == Reset(a) \o Reset(b)
  <2>. HIDE DEF ab
  <2>3. ab \o Reset(c) \in Seq(CallType) /\ Ops(ab \o Reset(c)) = Ops(ab) \cup Ops(Reset(c))
    BY <2>1, <2>2, ConcatOps DEF ab
  <2>. QED
    BY <2>1, <2>2, <2>3 DEF ab
<1>4. /\ ResetClicks \in Seq(CallType)
      /\ Ops(ResetClicks)
           = Op("cancel", "single") \cup Op("cancel", "double") \cup Op("cancel", "triple")
  BY <1>2, <1>3 DEF ResetClicks
<1>5. /\ ResetHolds \in Seq(CallType)
      /\ Ops(ResetHolds)
           = Op("cancel", "long") \cup Op("cancel", "longlong") \cup Op("cancel", "continuous")
  BY <1>2, <1>3 DEF ResetHolds
<1>. QED
  BY <1>4, <1>5 DEF Op, Clicks, Holds

(* A press takes the clicks back and sends the long presses. *)
LEMMA PressOps ==
  /\ PressCalls \in Seq(CallType)
  /\ Ops(PressCalls) = {c \in CallType :
        \/ c.op = "cancel" /\ c.g \in Clicks \cup {"long", "longlong"}
        \/ c.op = "send" /\ c.g \in {"long", "longlong"}}
<1>1. \A g \in Gestures : /\ Set(g) \in Seq(CallType)
                          /\ Ops(Set(g)) = Op("cancel", g) \cup Op("send", g)
  BY ResetSetOps
<1>2. "long" \in Gestures /\ "longlong" \in Gestures
  BY DEF Gestures, Holds
<1>3. /\ Set("long") \o Set("longlong") \in Seq(CallType)
      /\ Ops(Set("long") \o Set("longlong"))
           = Ops(Set("long")) \cup Ops(Set("longlong"))
  BY <1>1, <1>2, ConcatOps
<1>4. /\ PressCalls \in Seq(CallType)
      /\ Ops(PressCalls) = Ops(Set("long")) \cup Ops(Set("longlong")) \cup Ops(ResetClicks)
  BY <1>3, ResetsOps, ConcatOps DEF PressCalls
<1>5. Ops(PressCalls) = Op("cancel", "long") \cup Op("send", "long")
                          \cup Op("cancel", "longlong") \cup Op("send", "longlong")
                          \cup {c \in CallType : c.op = "cancel" /\ c.g \in Clicks}
  BY <1>1, <1>2, <1>4, ResetsOps
<1>. QED
  BY <1>4, <1>5 DEF Op

(* A release takes the holds back and sends at most the click of its count. *)
LEMMA ReleaseOps ==
  ASSUME NEW n \in Nat
  PROVE  /\ ReleaseCalls(n) \in Seq(CallType)
         /\ \A c \in Ops(ReleaseCalls(n)) :
              c.op = "send" => c.g \in Clicks /\ Presses(c.g) = n
         /\ {c \in CallType : c.op = "cancel" /\ c.g \in Holds} \subseteq Ops(ReleaseCalls(n))
<1>. DEFINE clicks == CASE n = 1 -> ResetClicks \o Set("single")
                        [] n = 2 -> ResetClicks \o Set("double")
                        [] n = 3 -> ResetClicks \o Set("triple")
                        [] n > 3 -> Reset("triple")
                        [] OTHER -> <<>>
            Fits(q) == /\ q \in Seq(CallType)
                       /\ \A c \in Ops(q) : c.op = "send" => c.g \in Clicks /\ Presses(c.g) = n
<1>1. \A g \in Clicks : /\ Reset(g) \in Seq(CallType) /\ Ops(Reset(g)) = Op("cancel", g)
                        /\ Set(g) \in Seq(CallType)
                        /\ Ops(Set(g)) = Op("cancel", g) \cup Op("send", g)
  BY ResetSetOps DEF Gestures
<1>2. \A g \in Clicks : Presses(g) = n => Fits(ResetClicks \o Set(g))
  <2>. SUFFICES ASSUME NEW g \in Clicks, Presses(g) = n PROVE Fits(ResetClicks \o Set(g))
    OBVIOUS
  <2>1. /\ ResetClicks \o Set(g) \in Seq(CallType)
        /\ Ops(ResetClicks \o Set(g)) = Ops(ResetClicks) \cup Ops(Set(g))
    BY <1>1, ResetsOps, ConcatOps
  <2>2. \A c \in Ops(ResetClicks) : c.op # "send"
    BY ResetsOps
  <2>3. \A c \in Ops(Set(g)) : c.op = "send" => c.g = g
    BY <1>1 DEF Op
  <2>. QED
    BY <2>1, <2>2, <2>3
<1>3. "single" \in Clicks /\ "double" \in Clicks /\ "triple" \in Clicks
      /\ Presses("single") = 1 /\ Presses("double") = 2 /\ Presses("triple") = 3
  BY DEF Clicks, Presses
<1>4. Fits(Reset("triple"))
  BY <1>1, <1>3 DEF Op
<1>5. Fits(<<>>)
  BY DEF Ops
<1>6. Fits(clicks)
  <2>1. CASE n = 1
    BY <1>2, <1>3, <2>1
  <2>2. CASE n = 2
    BY <1>2, <1>3, <2>2
  <2>3. CASE n = 3
    BY <1>2, <1>3, <2>3
  <2>4. CASE n > 3
    BY <1>4, <2>4
  <2>5. CASE n = 0
    BY <1>5, <2>5
  <2>. QED
    BY <2>1, <2>2, <2>3, <2>4, <2>5
<1>7. ReleaseCalls(n) = ResetHolds \o clicks
  BY DEF ReleaseCalls
<1>. HIDE DEF clicks
<1>8. /\ ReleaseCalls(n) \in Seq(CallType)
      /\ Ops(ReleaseCalls(n)) = Ops(ResetHolds) \cup Ops(clicks)
  BY <1>6, <1>7, ResetsOps, ConcatOps
<1>. QED
  BY <1>6, <1>8, ResetsOps

-------------------------------------------------------------------------------
(* The mailbox *)

KeyMails(q) == {i \in 1 .. Len(q) : q[i][1] \in KeyNames}

(* A mail counts if it is of the pin *)
One(m) == IF m[1] \in KeyNames THEN 1 ELSE 0

(* What is in a mail. *)
LEMMA MailParts ==
  /\ \A m \in MailType : m[1] \in KeyNames \cup Gestures /\ m[2] \in Nat
  /\ \A a \in KeyNames \cup Gestures, n \in Nat :
       <<a, n>> \in MailType /\ <<a, n>>[1] = a /\ <<a, n>>[2] = n
BY DEF MailType

(* A mail that is posted comes last. *)
LEMMA MailAppend ==
  ASSUME NEW q \in Seq(MailType), NEW m \in MailType
  PROVE  /\ Append(q, m) \in Seq(MailType) /\ Len(q) \in Nat
         /\ Len(Append(q, m)) = Len(q) + 1
         /\ Append(q, m)[Len(q) + 1] = m
         /\ \A i \in 1 .. Len(q) : Append(q, m)[i] = q[i]
         /\ \A i \in 1 .. Len(q) + 1 : i \in 1 .. Len(q) \/ i = Len(q) + 1
<1>1. Len(q) \in Nat
  BY LenProperties
<1>. QED
  BY <1>1

(* The first mail is taken, the others move up. *)
LEMMA MailTail ==
  ASSUME NEW q \in Seq(MailType), q # <<>>
  PROVE  /\ Tail(q) \in Seq(MailType) /\ Head(q) \in MailType /\ Head(q) = q[1]
         /\ Len(q) \in Nat /\ 1 \in 1 .. Len(q) /\ Len(Tail(q)) = Len(q) - 1
         /\ \A i \in 1 .. Len(Tail(q)) : i + 1 \in 1 .. Len(q) /\ Tail(q)[i] = q[i + 1]
         /\ \A i \in 1 .. Len(q) :
              i # 1 => i - 1 \in 1 .. Len(Tail(q)) /\ Tail(q)[i - 1] = q[i]
<1>1. /\ Len(q) \in Nat /\ Len(q) >= 1 /\ Head(q) = q[1] /\ Tail(q) \in Seq(MailType)
      /\ Head(q) \in MailType /\ Len(Tail(q)) = Len(q) - 1
      /\ \A i \in 1 .. Len(Tail(q)) : Tail(q)[i] = q[i + 1]
  BY EmptySeq, LenProperties, HeadTailProperties
<1>. QED
  BY <1>1

(* A mailbox holds finitely many mails of the pin. *)
LEMMA KeyMailsFinite ==
  ASSUME NEW q \in Seq(MailType)
  PROVE  IsFiniteSet(KeyMails(q)) /\ Cardinality(KeyMails(q)) \in Nat
<1>1. Len(q) \in Int /\ KeyMails(q) \in SUBSET (1 .. Len(q))
  BY LenProperties DEF KeyMails
<1>2. IsFiniteSet(1 .. Len(q))
  BY <1>1, FS_Interval
<1>. QED
  BY <1>1, <1>2, FS_Subset, FS_CardinalityType

(* A posted mail counts if it is of the pin. *)
LEMMA AppendCount ==
  ASSUME NEW q \in Seq(MailType), NEW m \in MailType
  PROVE  /\ Cardinality(KeyMails(q)) \in Nat
         /\ Cardinality(KeyMails(Append(q, m)))
              = Cardinality(KeyMails(q)) + One(m)
<1>1. /\ Len(q) \in Nat /\ Len(Append(q, m)) = Len(q) + 1
      /\ Append(q, m)[Len(q) + 1] = m
      /\ \A i \in 1 .. Len(q) : Append(q, m)[i] = q[i]
      /\ \A i \in 1 .. Len(q) + 1 : i \in 1 .. Len(q) \/ i = Len(q) + 1
  BY MailAppend
<1>3. IsFiniteSet(KeyMails(q)) /\ Cardinality(KeyMails(q)) \in Nat
  BY KeyMailsFinite
<1>4. Len(q) + 1 \notin KeyMails(q)
  BY <1>1 DEF KeyMails
<1>5. CASE m[1] \in KeyNames
  <2>1. KeyMails(Append(q, m)) = KeyMails(q) \cup {Len(q) + 1}
    BY <1>1, <1>5 DEF KeyMails
  <2>. QED
    BY <1>3, <1>4, <1>5, <2>1, FS_AddElement DEF One
<1>6. CASE m[1] \notin KeyNames
  <2>1. KeyMails(Append(q, m)) = KeyMails(q)
    BY <1>1, <1>6 DEF KeyMails
  <2>. QED
    BY <1>3, <1>6, <2>1 DEF One
<1>. QED
  BY <1>3, <1>5, <1>6

(* The mail that is taken no longer counts. *)
LEMMA TailCount ==
  ASSUME NEW q \in Seq(MailType), q # <<>>
  PROVE  /\ Cardinality(KeyMails(q)) \in Nat
         /\ Cardinality(KeyMails(Tail(q))) \in Nat
         /\ Cardinality(KeyMails(q))
              = Cardinality(KeyMails(Tail(q))) + One(Head(q))
<1>. DEFINE T == KeyMails(Tail(q))
            S == KeyMails(q) \ {1}
            f == [i \in T |-> i + 1]
<1>1. /\ Tail(q) \in Seq(MailType) /\ Head(q) \in MailType /\ Head(q) = q[1]
      /\ Len(q) \in Nat /\ 1 \in 1 .. Len(q) /\ Len(Tail(q)) = Len(q) - 1
      /\ \A i \in 1 .. Len(Tail(q)) : i + 1 \in 1 .. Len(q) /\ Tail(q)[i] = q[i + 1]
      /\ \A i \in 1 .. Len(q) :
           i # 1 => i - 1 \in 1 .. Len(Tail(q)) /\ Tail(q)[i - 1] = q[i]
  BY MailTail
<1>2. IsFiniteSet(KeyMails(q)) /\ IsFiniteSet(T)
  BY <1>1, KeyMailsFinite
<1>3. f \in Bijection(T, S)
  <2>1. \A i \in T : i \in Nat /\ i >= 1 /\ i + 1 \in S
    BY <1>1 DEF KeyMails
  <2>2. \A j \in S : j - 1 \in T /\ (j - 1) + 1 = j
    BY <1>1 DEF KeyMails
  <2>. HIDE DEF T, S
  <2>3. f \in [T -> S] /\ \A i \in T : f[i] = i + 1
    BY <2>1
  <2>4. \A i, j \in T : f[i] = f[j] => i = j
    BY <2>1, <2>3
  <2>5. \A j \in S : \E i \in T : f[i] = j
    BY <2>2, <2>3
  <2>. HIDE DEF f
  <2>. QED
    BY <2>3, <2>4, <2>5 DEF Bijection, Injection, Surjection, IsInjective
<1>4. Cardinality(T) = Cardinality(S)
  BY <1>2, <1>3, FS_Bijection DEF ExistsBijection
<1>5. Cardinality(S) = IF 1 \in KeyMails(q) THEN Cardinality(KeyMails(q)) - 1
                                           ELSE Cardinality(KeyMails(q))
  BY <1>2, FS_RemoveElement
<1>6. 1 \in KeyMails(q) <=> Head(q)[1] \in KeyNames
  BY <1>1 DEF KeyMails
<1>7. Cardinality(KeyMails(q)) \in Nat /\ Cardinality(T) \in Nat
  BY <1>2, FS_CardinalityType
<1>. QED
  BY <1>4, <1>5, <1>6, <1>7 DEF One

-------------------------------------------------------------------------------
(* The history *)

Same(h) == /\ hist'.presses = h.presses /\ hist'.stamp = h.stamp
           /\ hist'.clicked = h.clicked /\ hist'.held = h.held

(* Whether the pin has moved while the interrupt handler runs *)
LEMMA HistMissed ==
  ASSUME hist \in HistType, NEW b \in BOOLEAN, hist' = [hist EXCEPT !.missed = b]
  PROVE  /\ hist' \in HistType /\ Same(hist) /\ hist'.missed = b
         /\ hist'.down = hist.down /\ hist'.late = hist.late /\ hist'.raced = hist.raced
BY DEF HistType, Same

(* A gesture is sent. *)
LEMMA HistStamp ==
  ASSUME hist \in HistType, NEW g \in Gestures,
         hist' = [hist EXCEPT !.stamp[g] = hist.presses]
  PROVE  /\ hist' \in HistType /\ hist'.missed = hist.missed
         /\ hist'.down = hist.down /\ hist'.late = hist.late /\ hist'.raced = hist.raced
         /\ hist'.presses = hist.presses
         /\ hist'.clicked = hist.clicked /\ hist'.held = hist.held
         /\ hist'.stamp = [hist.stamp EXCEPT ![g] = hist.presses]
BY DEF HistType

(* The timer has posted a gesture. *)
LEMMA HistPost ==
  ASSUME hist \in HistType, NEW r \in BOOLEAN, NEW l \in BOOLEAN,
         hist' = [hist EXCEPT !.raced = r, !.late = l]
  PROVE  /\ hist' \in HistType /\ Same(hist) /\ hist'.missed = hist.missed
         /\ hist'.down = hist.down /\ hist'.late = l /\ hist'.raced = r
BY DEF HistType, Same

(* A press is handled. *)
LEMMA HistPress ==
  ASSUME hist \in HistType, NEW p \in Nat,
         hist' = [hist EXCEPT !.presses = p, !.down = TRUE]
  PROVE  /\ hist' \in HistType /\ hist'.missed = hist.missed
         /\ hist'.down = TRUE /\ hist'.late = hist.late /\ hist'.raced = hist.raced
         /\ hist'.presses = p /\ hist'.stamp = hist.stamp
         /\ hist'.clicked = hist.clicked /\ hist'.held = hist.held
BY DEF HistType

(* A release is handled. *)
LEMMA HistRelease ==
  ASSUME hist \in HistType, NEW r \in BOOLEAN, NEW l \in BOOLEAN,
         hist' = [hist EXCEPT !.down = FALSE, !.raced = r, !.late = l]
  PROVE  /\ hist' \in HistType /\ Same(hist) /\ hist'.missed = hist.missed
         /\ hist'.down = FALSE /\ hist'.late = l /\ hist'.raced = r
BY DEF HistType, Same

(* A gesture is delivered. *)
LEMMA HistDeliver ==
  ASSUME hist \in HistType, NEW c \in Nat, NEW h \in Nat,
         hist' = [hist EXCEPT !.clicked = c, !.held = h]
  PROVE  /\ hist' \in HistType /\ hist'.missed = hist.missed
         /\ hist'.down = hist.down /\ hist'.late = hist.late /\ hist'.raced = hist.raced
         /\ hist'.presses = hist.presses /\ hist'.stamp = hist.stamp
         /\ hist'.clicked = c /\ hist'.held = h
BY DEF HistType

-------------------------------------------------------------------------------
(* The types, with what they rest on: the table holds registered gestures,  *)
(* at most one is flagged, a handled press took a change of the pin, and so *)
(* does one that is still on its way.                                       *)

TableOK(tab) ==
  /\ tab \in [Gestures -> Int]
  /\ \A g \in Gestures : /\ tab[g] >= Absent /\ tab[g] <= Delay(g)
                         /\ tab[g] # Absent => g \in Mask

TimerOK(tab, t) ==
  /\ t \in TimerType /\ t.flag \subseteq Waiting(tab)
  /\ \A g, h \in t.flag : g = h

MailOK == /\ mail \in Seq(MailType)
          /\ \A i \in 1 .. Len(mail) : mail[i][2] <= hist.presses

HistOK == /\ hist \in HistType
          /\ \A g \in Gestures : hist.stamp[g] <= hist.presses

KeyOK == key \in KeyType /\ key.count <= hist.presses

Busy == IF isr.at # "out" THEN 1 ELSE 0
Latched == IF gpio.latched THEN 1 ELSE 0

CountInv == hist.presses + Cardinality(KeyMails(mail)) + Busy + Latched <= edges

TypeInv ==
  /\ gpio \in GpioType /\ isr \in IsrType
  /\ MailOK /\ calls \in Seq(CallType) /\ KeyOK
  /\ TableOK(table) /\ TimerOK(table, timer)
  /\ callback \in {"none", "due", "held up"} /\ failed \in BOOLEAN
  /\ edges \in 0 .. MaxEdges /\ HistOK /\ CountInv

(* What counts counts one or none, and Absent is no number of ticks. *)
LEMMA Small ==
  /\ \A m : One(m) \in 0 .. 1
  /\ Busy \in 0 .. 1 /\ Latched \in 0 .. 1
  /\ Absent \in Int /\ Absent < 0 /\ Absent = 0 - 1
BY DEF One, Busy, Latched, Absent

(* The declared types follow. *)
LEMMA TypesFollow == TypeInv => TypeOK
<1>. SUFFICES ASSUME TypeInv PROVE TypeOK
  OBVIOUS
<1>1. hist.presses \in Nat /\ hist.presses <= edges /\ edges \in 0 .. MaxEdges /\ MaxEdges \in Nat
  <2>1. Cardinality(KeyMails(mail)) \in Nat
    BY KeyMailsFinite DEF TypeInv, MailOK
  <2>2. hist.presses \in Nat /\ edges \in 0 .. MaxEdges /\ MaxEdges \in Nat
    BY KeyAssumption DEF TypeInv, HistOK, HistType
  <2>3. Busy \in Nat /\ Latched \in Nat
    BY Small
  <2>4. hist.presses + Cardinality(KeyMails(mail)) + Busy + Latched <= edges
    BY DEF TypeInv, CountInv
  <2>. DEFINE p == hist.presses
              c == Cardinality(KeyMails(mail))
  <2>5. p + c + Busy + Latched <= edges /\ p \in Nat /\ c \in Nat
    BY <2>1, <2>2, <2>4
  <2>. HIDE DEF p, c
  <2>6. p <= edges
    BY <2>2, <2>3, <2>5
  <2>. QED
    BY <2>2, <2>6 DEF p
<1>2. \A i \in DOMAIN mail :
        mail[i] \in ({"PRESS", "RELEASE"} \cup Gestures) \X (0 .. MaxEdges)
  <2>. SUFFICES ASSUME NEW i \in DOMAIN mail
                PROVE  mail[i] \in ({"PRESS", "RELEASE"} \cup Gestures) \X (0 .. MaxEdges)
    OBVIOUS
  <2>1. i \in 1 .. Len(mail) /\ mail[i] \in MailType
    BY LenProperties, ElementOfSeq DEF TypeInv, MailOK
  <2>2. mail[i][2] \in Nat /\ mail[i][2] <= hist.presses
    BY <2>1, MailParts DEF TypeInv, MailOK
  <2>3. mail[i][2] \in 0 .. MaxEdges
    BY <1>1, <2>2
  <2>. QED
    BY <2>1, <2>3 DEF MailType, KeyNames
<1>3. \A i \in DOMAIN calls : calls[i] \in [op : {"cancel", "send"}, g : Mask]
  BY LenProperties, ElementOfSeq DEF TypeInv, CallType
<1>4. key \in [count : 0 .. MaxEdges, press : 0 .. LongTime, release : 0 .. MultTime]
  <2>1. key.count \in Nat /\ key.count <= hist.presses
    BY DEF TypeInv, KeyOK, KeyType
  <2>2. key.count \in 0 .. MaxEdges
    BY <1>1, <2>1
  <2>. QED
    BY <2>2 DEF TypeInv, KeyOK, KeyType
<1>5. \A g \in Gestures : table[g] \in Absent .. Delay(g)
  <2>1. \A g \in Gestures : /\ table[g] \in Int /\ Delay(g) \in Nat
                           /\ table[g] >= Absent /\ table[g] <= Delay(g)
    BY Times DEF TypeInv, TableOK
  <2>. QED
    BY <2>1, Small
<1>. QED
  BY <1>2, <1>3, <1>4, <1>5
  DEF TypeInv, TypeOK, GpioType, IsrType, TimerOK, TimerType

(* timer_start flags one entry that waits, if any does. *)
LEMMA TimerStartOK ==
  ASSUME NEW tab, TableOK(tab), TimerStart(tab)
  PROVE  TimerOK(tab, timer')
<1>1. CASE Waiting(tab) = {}
  BY <1>1 DEF TimerStart, TimerOK, TimerType
<1>2. CASE Waiting(tab) # {}
  <2>1. PICK g \in Waiting(tab) :
          timer' = [flag |-> {g}, left |-> IF tab[g] = 0 THEN 1 ELSE tab[g]]
    BY <1>2 DEF TimerStart
  <2>2. g \in Gestures /\ tab[g] \in Nat
    BY <2>1 DEF Waiting, TableOK, Absent
  <2>. QED
    BY <2>1, <2>2 DEF TimerOK, TimerType
<1>. QED
  BY <1>1, <1>2

(* Cancelling a gesture moves the flag if it was on it. *)
LEMMA CancelOK ==
  ASSUME TypeInv, NEW g \in Gestures, Cancel(g)
  PROVE  /\ TableOK(table') /\ TimerOK(table', timer')
         /\ table'[g] = Absent /\ \A h \in Gestures : h # g => table'[h] = table[h]
<1>1. table \in [Gestures -> Int] /\ table' = [table EXCEPT ![g] = Absent]
  BY DEF TypeInv, TableOK, Cancel
<1>2. table'[g] = Absent /\ \A h \in Gestures : h # g => table'[h] = table[h]
  BY <1>1
<1>3. TableOK(table')
  <2>1. TableOK(table) /\ table' \in [Gestures -> Int]
    BY <1>1, Small DEF TypeInv
  <2>2. Absent <= Delay(g) /\ Absent >= Absent
    BY Times, Small
  <2>. QED
    BY <1>2, <2>1, <2>2 DEF TableOK
<1>4. CASE timer.flag = {g}
  BY <1>2, <1>3, <1>4, TimerStartOK DEF Cancel
<1>5. CASE timer.flag # {g}
  <2>1. timer' = timer /\ TimerOK(table, timer)
    BY <1>5 DEF Cancel, TypeInv
  <2>2. g \notin timer.flag
    BY <1>5, <2>1 DEF TimerOK
  <2>. QED
    BY <1>2, <1>3, <2>1, <2>2 DEF TimerOK, Waiting
<1>. QED
  BY <1>2, <1>3, <1>4, <1>5

(* Sending a gesture starts the timer. *)
LEMMA SendOK ==
  ASSUME TypeInv, NEW g \in Mask, SendLater(g)
  PROVE  /\ TableOK(table') /\ TimerOK(table', timer')
         /\ table'[g] = Delay(g) /\ \A h \in Gestures : h # g => table'[h] = table[h]
<1>1. /\ table \in [Gestures -> Int] /\ table' = [table EXCEPT ![g] = Delay(g)]
      /\ g \in Gestures
  BY KeyAssumption DEF TypeInv, TableOK, SendLater
<1>2. table'[g] = Delay(g) /\ \A h \in Gestures : h # g => table'[h] = table[h]
  BY <1>1
<1>3. TableOK(table')
  <2>0. Delay(g) \in Int
    BY <1>1, Times
  <2>1. TableOK(table) /\ table' \in [Gestures -> Int]
    BY <1>1, <2>0 DEF TypeInv
  <2>2. Absent <= Delay(g) /\ Delay(g) <= Delay(g)
    BY <1>1, Times, Small
  <2>. QED
    BY <1>2, <2>1, <2>2 DEF TableOK
<1>. QED
  BY <1>2, <1>3, TimerStartOK DEF SendLater

-------------------------------------------------------------------------------
(* What the steps do to the history and the records with flags *)

Rest == hist'.down = hist.down /\ hist'.late = hist.late /\ hist'.raced = hist.raced

(* The pin moves. *)
LEMMA MoveStep ==
  ASSUME TypeInv, Move
  PROVE  /\ gpio' \in GpioType /\ gpio'.pin = ~ gpio.pin /\ gpio'.edge = gpio.edge
         /\ gpio.latched => gpio'.latched
         /\ gpio.edge = Edge(gpio.pin) => gpio'.latched
         /\ hist' \in HistType /\ Same(hist) /\ Rest
         /\ ~ hist'.missed => ~ hist.missed /\ isr.at = "out"
<1>. DEFINE l == gpio.latched \/ gpio.edge = Edge(gpio.pin)
            p == ~ gpio.pin
            m == hist.missed \/ isr.at # "out"
<1>1. gpio \in GpioType /\ hist \in HistType
  BY DEF TypeInv, HistOK
<1>2. l \in BOOLEAN /\ p \in BOOLEAN /\ gpio' = [gpio EXCEPT !.pin = p, !.latched = l]
  BY DEF Move
<1>3. m \in BOOLEAN /\ hist' = [hist EXCEPT !.missed = m]
  BY DEF Move
<1>. HIDE DEF l, p, m
<1>4. gpio' \in GpioType /\ gpio'.pin = p /\ gpio'.edge = gpio.edge /\ gpio'.latched = l
  BY <1>1, <1>2 DEF GpioType
<1>5. hist' \in HistType /\ Same(hist) /\ Rest /\ hist'.missed = m
  BY <1>1, <1>3, HistMissed DEF Rest
<1>. QED
  BY <1>4, <1>5 DEF l, p, m

(* The interrupt handler reads the pin. *)
LEMMA ReadStep ==
  ASSUME TypeInv, IrqRead
  PROVE  /\ isr' \in IsrType /\ isr'.at = "read" /\ isr'.pressed = gpio.pin
         /\ gpio' \in GpioType /\ gpio'.pin = gpio.pin /\ gpio'.edge = gpio.edge
         /\ gpio'.latched = FALSE
         /\ hist' \in HistType /\ Same(hist) /\ Rest /\ hist'.missed = FALSE
<1>1. gpio \in GpioType /\ isr \in IsrType /\ hist \in HistType
  BY DEF TypeInv, HistOK
<1>2. hist' = [hist EXCEPT !.missed = FALSE]
  BY DEF IrqRead
<1>3. hist' \in HistType /\ Same(hist) /\ Rest /\ hist'.missed = FALSE
  BY <1>1, <1>2, HistMissed DEF Rest
<1>. QED
  BY <1>1, <1>3 DEF IrqRead, GpioType, IsrType

(* It chooses the edge. *)
LEMMA ChooseStep ==
  ASSUME TypeInv, IrqChoose
  PROVE  /\ isr' \in IsrType /\ isr'.at = "chosen" /\ isr'.pressed = isr.pressed
         /\ isr'.edge = Edge(gpio.pin)
BY DEF TypeInv, IrqChoose, IsrType, Edge

(* It sets the edge and posts what it has read. *)
LEMMA ArmStep ==
  ASSUME TypeInv, IrqArm
  PROVE  /\ isr' \in IsrType /\ isr'.at = "out"
         /\ gpio' \in GpioType /\ gpio'.pin = gpio.pin /\ gpio'.edge = isr.edge
         /\ gpio'.latched = FALSE
         /\ \E m \in MailType : /\ m[1] = IF isr.pressed THEN "PRESS" ELSE "RELEASE"
                                /\ m[2] = 0 /\ mail' = Append(mail, m)
<1>1. gpio \in GpioType /\ isr \in IsrType
  BY DEF TypeInv
<1>2. /\ isr' \in IsrType /\ isr'.at = "out"
      /\ gpio' \in GpioType /\ gpio'.pin = gpio.pin /\ gpio'.edge = isr.edge
      /\ gpio'.latched = FALSE
  BY <1>1 DEF IrqArm, GpioType, IsrType
<1>. DEFINE w == IF isr.pressed THEN "PRESS" ELSE "RELEASE"
<1>3. w \in KeyNames /\ mail' = Append(mail, <<w, 0>>)
  BY DEF IrqArm, KeyNames
<1>. HIDE DEF w
<1>4. <<w, 0>> \in MailType /\ <<w, 0>>[1] = w /\ <<w, 0>>[2] = 0
  BY <1>3, MailParts
<1>5. \E m \in MailType : m[1] = w /\ m[2] = 0 /\ mail' = Append(mail, m)
  BY <1>3, <1>4
<1>. QED
  BY <1>2, <1>5 DEF w

(* The message thread makes a call. *)
LEMMA CallStep ==
  ASSUME TypeInv, Call
  PROVE  \E c \in CallType :
           /\ calls' \in Seq(CallType) /\ Ops(calls) = {c} \cup Ops(calls')
           /\ TableOK(table') /\ TimerOK(table', timer')
           /\ \A h \in Gestures : h # c.g => table'[h] = table[h]
           /\ hist' \in HistType /\ hist'.missed = hist.missed /\ Rest
           /\ hist'.presses = hist.presses
           /\ hist'.clicked = hist.clicked /\ hist'.held = hist.held
           /\ \/ c.op = "cancel" /\ table'[c.g] = Absent /\ hist'.stamp = hist.stamp
              \/ /\ c.op = "send" /\ table'[c.g] = Delay(c.g)
                 /\ hist'.stamp = [hist.stamp EXCEPT ![c.g] = hist.presses]
<1>. DEFINE c == Head(calls)
<1>1. calls \in Seq(CallType) /\ calls # <<>> /\ calls' = Tail(calls) /\ hist \in HistType
  BY DEF TypeInv, Call, HistOK
<1>2. c \in CallType /\ Tail(calls) \in Seq(CallType) /\ Ops(calls) = {c} \cup Ops(Tail(calls))
  BY <1>1, TailOps
<1>3. c.op \in {"cancel", "send"} /\ c.g \in Mask /\ c.g \in Gestures
  BY <1>2, KeyAssumption DEF CallType
<1>4. CASE c.op = "cancel"
  <2>1. Cancel(c.g) /\ hist' = hist
    BY <1>4 DEF Call
  <2>. HIDE DEF c
  <2>2. /\ TableOK(table') /\ TimerOK(table', timer') /\ table'[c.g] = Absent
        /\ \A h \in Gestures : h # c.g => table'[h] = table[h]
    BY <1>3, <2>1, CancelOK
  <2>. QED
    BY <1>1, <1>2, <1>4, <2>1, <2>2 DEF Rest
<1>5. CASE c.op = "send"
  <2>1. SendLater(c.g) /\ hist' = [hist EXCEPT !.stamp[c.g] = hist.presses]
    BY <1>5 DEF Call
  <2>. HIDE DEF c
  <2>2. /\ TableOK(table') /\ TimerOK(table', timer') /\ table'[c.g] = Delay(c.g)
        /\ \A h \in Gestures : h # c.g => table'[h] = table[h]
    BY <1>3, <2>1, SendOK
  <2>3. /\ hist' \in HistType /\ hist'.missed = hist.missed /\ Rest
        /\ hist'.presses = hist.presses
        /\ hist'.clicked = hist.clicked /\ hist'.held = hist.held
        /\ hist'.stamp = [hist.stamp EXCEPT ![c.g] = hist.presses]
    BY <1>1, <1>3, <2>1, HistStamp DEF Rest
  <2>. QED
    BY <1>1, <1>2, <1>5, <2>2, <2>3
<1>. QED
  BY <1>3, <1>4, <1>5

(* The timer posts the flagged gesture, or its callback asserts. *)
LEMMA TimerStep ==
  ASSUME TypeInv, TimerRun
  PROVE  \/ failed' = TRUE /\ UNCHANGED <<mail, table, timer, hist>>
         \/ /\ failed' = failed
            /\ \E g \in Gestures :
                 /\ table[g] # Absent /\ table'[g] = Absent
                 /\ mail' = Append(mail, <<g, hist.stamp[g]>>)
                 /\ <<g, hist.stamp[g]>> \in MailType
                 /\ TableOK(table') /\ TimerOK(table', timer')
                 /\ \A h \in Gestures : table'[h] \in {Absent, table[h]}
                 /\ hist' \in HistType /\ Same(hist)
                 /\ hist'.missed = hist.missed /\ hist'.down = hist.down
                 /\ ~ hist'.raced => /\ ~ hist.raced /\ table[g] = 0
                                     /\ g # "continuous" => calls = <<>>
                 /\ ~ hist'.late => ~ hist.late /\ (g \in Holds => calls = <<>>)
<1>1. /\ TableOK(table) /\ TimerOK(table, timer) /\ hist \in HistType
  BY DEF TypeInv, HistOK
<1>2. CASE failed' = TRUE /\ UNCHANGED <<mail, table, timer, hist>>
  BY <1>2
<1>3. CASE ~ (failed' = TRUE /\ UNCHANGED <<mail, table, timer, hist>>)
  <2>1. PICK g \in timer.flag :
          LET due == {h \in Gestures \ {g} : table[h] = 0}
          IN /\ mail' = Append(mail, <<g, hist.stamp[g]>>)
             /\ table' = [h \in Gestures |-> IF h \in due \cup {g} THEN Absent ELSE table[h]]
             /\ IF timer.left > 0 THEN timer' = [timer EXCEPT !.flag = {}]
                                  ELSE TimerStart(table')
             /\ hist' = [hist EXCEPT
                  !.raced = @ \/ table[g] > 0 \/ (g # "continuous" /\ calls # <<>>),
                  !.late = @ \/ (g \in Holds /\ calls # <<>>)]
             /\ UNCHANGED failed
    BY <1>3 DEF TimerRun
  <2>. DEFINE r == hist.raced \/ table[g] > 0 \/ (g # "continuous" /\ calls # <<>>)
              l == hist.late \/ (g \in Holds /\ calls # <<>>)
  <2>2. r \in BOOLEAN /\ l \in BOOLEAN /\ hist' = [hist EXCEPT !.raced = r, !.late = l]
    BY <2>1
  <2>3. g \in Gestures /\ table[g] # Absent
    BY <1>1 DEF TimerOK, Waiting
  <2>4. /\ table' \in [Gestures -> Int] /\ table'[g] = Absent
        /\ \A h \in Gestures : table'[h] \in {Absent, table[h]}
    BY <1>1, <2>1, <2>3, Small DEF TableOK
  <2>5. TableOK(table')
    <3>1. \A h \in Gestures : Absent <= Delay(h) /\ Absent >= Absent
      BY Times, Small
    <3>. QED
      BY <1>1, <2>4, <3>1 DEF TableOK
  <2>6. TimerOK(table', timer')
    <3>1. CASE timer.left > 0
      BY <1>1, <2>1, <3>1 DEF TimerOK, TimerType
    <3>2. CASE ~ (timer.left > 0)
      BY <2>1, <2>5, <3>2, TimerStartOK
    <3>. QED
      BY <3>1, <3>2
  <2>. HIDE DEF r, l
  <2>7. /\ hist' \in HistType /\ Same(hist) /\ hist'.missed = hist.missed
        /\ hist'.down = hist.down /\ hist'.late = l /\ hist'.raced = r
    BY <1>1, <2>2, HistPost
  <2>8. ~ r => ~ hist.raced /\ table[g] = 0 /\ (g # "continuous" => calls = <<>>)
    <3>1. table[g] \in Int /\ table[g] >= Absent
      BY <1>1, <2>3 DEF TableOK
    <3>2. ~ (table[g] > 0) => table[g] = 0
      BY <2>3, <3>1, Small
    <3>. QED
      BY <3>2 DEF r
  <2>9. ~ l => ~ hist.late /\ (g \in Holds => calls = <<>>)
    BY DEF l
  <2>10. <<g, hist.stamp[g]>> \in MailType
    BY <1>1, <2>3, MailParts DEF HistType
  <2>. QED
    BY <2>1, <2>3, <2>4, <2>5, <2>6, <2>7, <2>8, <2>9, <2>10
<1>. QED
  BY <1>2, <1>3

(* A tick passes. *)
LEMMA TickStep ==
  ASSUME TypeInv, Tick
  PROVE  /\ TableOK(table') /\ TimerOK(table', timer')
         /\ \A g \in Gestures :
              table'[g] = IF table[g] > 0 THEN table[g] - 1 ELSE table[g]
         /\ key' \in KeyType /\ key'.count = key.count
         /\ key'.press = Saturated(key.press, LongTime)
         /\ key'.release = Saturated(key.release, MultTime)
<1>1. TableOK(table) /\ TimerOK(table, timer) /\ key \in KeyType
  BY DEF TypeInv, KeyOK
<1>2. \A g \in Gestures :
        /\ table'[g] = IF table[g] > 0 THEN table[g] - 1 ELSE table[g]
        /\ table[g] \in Int /\ table[g] >= Absent /\ table[g] <= Delay(g) /\ Delay(g) \in Nat
  BY <1>1, Times DEF Tick, Countdown, TableOK
<1>3. \A g \in Gestures : /\ table'[g] \in Int /\ table'[g] >= Absent
                         /\ table'[g] <= Delay(g)
  BY <1>2, Small
<1>4. \A g \in Gestures : (table'[g] = Absent) <=> (table[g] = Absent)
  BY <1>2, Small
<1>5. table' \in [Gestures -> Int]
  <2>1. table' = [g \in Gestures |-> table'[g]]
    BY DEF Tick
  <2>. QED
    BY <1>3, <2>1
<1>6. TableOK(table')
  BY <1>1, <1>3, <1>4, <1>5 DEF TableOK
<1>7. timer' \in TimerType /\ timer'.flag = timer.flag
  BY <1>1 DEF Tick, TimerOK, TimerType
<1>8. TimerOK(table', timer')
  <2>1. Waiting(table') = Waiting(table)
    BY <1>4 DEF Waiting
  <2>. QED
    BY <1>1, <1>7, <2>1 DEF TimerOK
<1>9. /\ key' \in KeyType /\ key'.count = key.count
      /\ key'.press = Saturated(key.press, LongTime)
      /\ key'.release = Saturated(key.release, MultTime)
  <2>. DEFINE p == Saturated(key.press, LongTime)
              r == Saturated(key.release, MultTime)
  <2>1. p \in 0 .. LongTime /\ r \in 0 .. MultTime
    BY <1>1, Times DEF KeyType, Saturated
  <2>2. key' = [key EXCEPT !.press = p, !.release = r]
    BY DEF Tick
  <2>. HIDE DEF p, r
  <2>3. key' \in KeyType /\ key'.count = key.count /\ key'.press = p /\ key'.release = r
    BY <1>1, <2>1, <2>2 DEF KeyType
  <2>. QED
    BY <2>3 DEF p, r
<1>. QED
  BY <1>2, <1>6, <1>8, <1>9

(* A handler takes the first mail. *)
LEMMA TakeStep ==
  ASSUME TypeInv, NEW what, Take(what)
  PROVE  /\ calls = <<>> /\ mail # <<>> /\ Head(mail) = mail[1] /\ mail[1][1] = what
         /\ mail \in Seq(MailType) /\ mail' = Tail(mail) /\ callback = "none"
         /\ mail[1] \in MailType /\ mail[1][2] \in Nat
         /\ 1 \in 1 .. Len(mail) /\ mail[1][2] <= hist.presses
         /\ UNCHANGED <<gpio, isr, table, timer, failed, callback, edges>>
<1>1. mail \in Seq(MailType) /\ mail # <<>> /\ mail' = Tail(mail)
  BY DEF TypeInv, MailOK, Take
<1>2. Head(mail) = mail[1] /\ mail[1] \in MailType /\ 1 \in 1 .. Len(mail)
  BY <1>1, MailTail
<1>3. mail[1][2] \in Nat /\ mail[1][2] <= hist.presses
  BY <1>2, MailParts DEF TypeInv, MailOK
<1>. QED
  BY <1>1, <1>2, <1>3 DEF Take, service

(* stdf_bsp_key_state_changed, pressed *)
LEMMA PressStep ==
  ASSUME TypeInv, Press
  PROVE  /\ Take("PRESS")
         /\ key' \in KeyType /\ key'.press = 0 /\ key'.release = key.release
         /\ key'.count = IF key.release >= MultTime THEN 1 ELSE key.count + 1
         /\ calls' = PressCalls
         /\ hist' \in HistType /\ hist'.missed = hist.missed
         /\ hist'.down = TRUE /\ hist'.late = hist.late /\ hist'.raced = hist.raced
         /\ hist'.presses = hist.presses + 1 /\ hist'.stamp = hist.stamp
         /\ hist'.clicked = hist.clicked /\ hist'.held = hist.held
<1>1. key \in KeyType /\ hist \in HistType
  BY DEF TypeInv, KeyOK, HistOK
<1>0. hist.presses + 1 \in Nat
  BY <1>1 DEF HistType
<1>. DEFINE n == IF key.release >= MultTime THEN 1 ELSE key.count + 1
<1>2. n \in Nat /\ key' = [key EXCEPT !.count = n, !.press = 0]
  BY <1>1 DEF Press, KeyType
<1>. HIDE DEF n
<1>3. key' \in KeyType /\ key'.press = 0 /\ key'.release = key.release /\ key'.count = n
  <2>1. 0 \in 0 .. LongTime
    BY Times
  <2>. QED
    BY <1>1, <1>2, <2>1 DEF KeyType
<1>4. /\ hist' \in HistType /\ hist'.missed = hist.missed
      /\ hist'.down = TRUE /\ hist'.late = hist.late /\ hist'.raced = hist.raced
      /\ hist'.presses = hist.presses + 1 /\ hist'.stamp = hist.stamp
      /\ hist'.clicked = hist.clicked /\ hist'.held = hist.held
  BY <1>0, <1>1, HistPress DEF Press
<1>. QED
  BY <1>3, <1>4 DEF Press, n

(* stdf_bsp_key_state_changed, released *)
LEMMA ReleaseStep ==
  ASSUME TypeInv, Release
  PROVE  /\ Take("RELEASE")
         /\ key' \in KeyType /\ key'.press = key.press /\ key'.release = 0
         /\ key'.count = IF key.press >= LongTime THEN 0 ELSE key.count
         /\ key'.count \in Nat /\ calls' = ReleaseCalls(key'.count)
         /\ hist' \in HistType /\ Same(hist) /\ hist'.missed = hist.missed
         /\ hist'.down = FALSE
         /\ ~ hist'.raced => ~ hist.raced /\ hist.down
         /\ ~ hist'.late => \A i \in DOMAIN mail : mail[i][1] \notin Holds
<1>1. key \in KeyType /\ hist \in HistType
  BY DEF TypeInv, KeyOK, HistOK
<1>. DEFINE n == IF key.press >= LongTime THEN 0 ELSE key.count
            r == hist.raced \/ ~ hist.down
            l == \E i \in DOMAIN mail : mail[i][1] \in Holds
<1>2. n \in Nat /\ key' = [key EXCEPT !.count = n, !.release = 0] /\ calls' = ReleaseCalls(n)
  BY <1>1 DEF Release, KeyType
<1>3. r \in BOOLEAN /\ l \in BOOLEAN
      /\ hist' = [hist EXCEPT !.down = FALSE, !.raced = r, !.late = l]
  BY DEF Release
<1>4. ~ l => \A i \in DOMAIN mail : mail[i][1] \notin Holds
  OBVIOUS
<1>. HIDE DEF n, r, l
<1>5. key' \in KeyType /\ key'.press = key.press /\ key'.release = 0 /\ key'.count = n
  <2>1. 0 \in 0 .. MultTime
    BY Times
  <2>. QED
    BY <1>1, <1>2, <2>1 DEF KeyType
<1>6. /\ hist' \in HistType /\ Same(hist) /\ hist'.missed = hist.missed
      /\ hist'.down = FALSE /\ hist'.late = l /\ hist'.raced = r
  BY <1>1, <1>3, HistRelease
<1>7. Take("RELEASE")
  BY DEF Release
<1>8. ~ r => ~ hist.raced /\ hist.down
  BY DEF r
<1>9. n = IF key.press >= LongTime THEN 0 ELSE key.count
  BY DEF n
<1>. QED
  BY <1>2, <1>4, <1>5, <1>6, <1>7, <1>8, <1>9

(* stdf_bsp_key_event_msg_handler *)
LEMMA DeliverStep ==
  ASSUME TypeInv, NEW g \in Gestures, Deliver(g)
  PROVE  /\ Take(g) /\ key' = key
         /\ calls' \in Seq(CallType) /\ \A c \in Ops(calls') : c.g = "continuous"
         /\ hist' \in HistType /\ hist'.missed = hist.missed /\ Rest
         /\ hist'.presses = hist.presses /\ hist'.stamp = hist.stamp
         /\ hist'.clicked = (IF g \in Clicks THEN mail[1][2] ELSE hist.clicked)
         /\ hist'.held = (IF g = "long" THEN mail[1][2] ELSE hist.held)
         /\ g \notin {"long", "continuous"} => calls' = <<>>
<1>1. Take(g)
  BY DEF Deliver
<1>2. Head(mail) = mail[1] /\ mail[1][2] \in Nat
  BY <1>1, TakeStep
<1>3. "continuous" \in Gestures
  BY DEF Gestures, Holds
<1>. DEFINE C == "continuous"
            both == Reset(C) \o Set(C)
<1>4. both \in Seq(CallType) /\ \A c \in Ops(both) : c.g = C
  <2>1. /\ Reset(C) \in Seq(CallType) /\ Ops(Reset(C)) = Op("cancel", C)
        /\ Set(C) \in Seq(CallType) /\ Ops(Set(C)) = Op("cancel", C) \cup Op("send", C)
    BY <1>3, ResetSetOps
  <2>2. both \in Seq(CallType) /\ Ops(both) = Ops(Reset(C)) \cup Ops(Set(C))
    BY <2>1, ConcatOps
  <2>3. \A c \in Op("cancel", C) \cup Op("send", C) : c.g = C
    BY DEF Op
  <2>. QED
    BY <2>1, <2>2, <2>3
<1>5. calls' = IF g \in {"long", "continuous"} THEN both ELSE <<>>
  BY DEF Deliver
<1>6. <<>> \in Seq(CallType) /\ Ops(<<>>) = {}
  BY DEF Ops
<1>. HIDE DEF both
<1>7. /\ calls' \in Seq(CallType) /\ \A c \in Ops(calls') : c.g = "continuous"
      /\ g \notin {"long", "continuous"} => calls' = <<>>
  BY <1>4, <1>5, <1>6
<1>. DEFINE k == IF g \in Clicks THEN mail[1][2] ELSE hist.clicked
            h == IF g = "long" THEN mail[1][2] ELSE hist.held
<1>8. k \in Nat /\ h \in Nat /\ hist \in HistType
  BY <1>2 DEF TypeInv, HistOK, HistType
<1>9. hist' = [hist EXCEPT !.clicked = k, !.held = h]
  BY <1>2 DEF Deliver
<1>. HIDE DEF k, h
<1>10. /\ hist' \in HistType /\ hist'.missed = hist.missed /\ Rest
       /\ hist'.presses = hist.presses /\ hist'.stamp = hist.stamp
       /\ hist'.clicked = k /\ hist'.held = h
  BY <1>8, <1>9, HistDeliver DEF Rest
<1>. QED
  BY <1>1, <1>7, <1>10 DEF Deliver, k, h

-------------------------------------------------------------------------------
(* The types are kept *)

(* A mail is posted whose stamp counts the presses handled so far. *)
LEMMA PostOK ==
  ASSUME MailOK, hist \in HistType, NEW m \in MailType, m[2] <= hist.presses,
         mail' = Append(mail, m), hist'.presses = hist.presses
  PROVE  MailOK'
<1>1. mail \in Seq(MailType) /\ \A i \in 1 .. Len(mail) : mail[i][2] <= hist.presses
  BY DEF MailOK
<1>2. /\ mail' \in Seq(MailType) /\ Len(mail) \in Nat
      /\ Len(mail') = Len(mail) + 1 /\ mail'[Len(mail) + 1] = m
      /\ \A i \in 1 .. Len(mail) : mail'[i] = mail[i]
      /\ \A i \in 1 .. Len(mail) + 1 : i \in 1 .. Len(mail) \/ i = Len(mail) + 1
  BY <1>1, MailAppend
<1>3. \A i \in 1 .. Len(mail') : mail'[i][2] <= hist'.presses
  BY <1>1, <1>2
<1>. QED
  BY <1>2, <1>3 DEF MailOK

(* A mail is taken. *)
LEMMA TakeOK ==
  ASSUME MailOK, hist \in HistType, mail # <<>>, mail' = Tail(mail),
         hist'.presses \in Nat, hist'.presses >= hist.presses
  PROVE  MailOK'
<1>1. mail \in Seq(MailType) /\ \A i \in 1 .. Len(mail) : mail[i][2] <= hist.presses
  BY DEF MailOK
<1>2. /\ mail' \in Seq(MailType)
      /\ \A i \in 1 .. Len(mail') : i + 1 \in 1 .. Len(mail) /\ mail'[i] = mail[i + 1]
  BY <1>1, MailTail
<1>3. \A i \in 1 .. Len(mail) : mail[i] \in MailType /\ mail[i][2] \in Nat
  BY <1>1, ElementOfSeq, MailParts
<1>4. hist.presses \in Nat
  BY DEF HistType
<1>5. \A n, p, q \in Nat : n <= p /\ q >= p => n <= q
  OBVIOUS
<1>6. \A i \in 1 .. Len(mail') : mail'[i][2] <= hist'.presses
  BY <1>1, <1>2, <1>3, <1>4, <1>5
<1>. QED
  BY <1>2, <1>6 DEF MailOK

(* What CountInv adds up *)
LEMMA CountParts ==
  ASSUME TypeInv
  PROVE  /\ hist.presses \in Nat /\ edges \in Nat /\ MaxEdges \in Nat
         /\ Cardinality(KeyMails(mail)) \in Nat
         /\ Busy \in 0 .. 1 /\ Latched \in 0 .. 1
         /\ hist.presses + Cardinality(KeyMails(mail)) + Busy + Latched <= edges
<1>1. Cardinality(KeyMails(mail)) \in Nat
  BY KeyMailsFinite DEF TypeInv, MailOK
<1>2. hist.presses \in Nat
  BY DEF TypeInv, HistOK, HistType
<1>3. edges \in 0 .. MaxEdges /\ MaxEdges \in Nat
  BY KeyAssumption DEF TypeInv
<1>4. edges \in Nat
  BY <1>3
<1>. QED
  BY <1>1, <1>2, <1>3, <1>4, Small DEF TypeInv, CountInv

(* At the start nothing has happened. *)
LEMMA InitTypes == Init => TypeInv
<1>. SUFFICES ASSUME Init PROVE TypeInv
  OBVIOUS
<1>1. gpio \in GpioType /\ gpio.latched = FALSE /\ isr \in IsrType /\ isr.at = "out"
  BY DEF Init, GpioType, IsrType
<1>2. mail \in Seq(MailType) /\ calls \in Seq(CallType) /\ mail = <<>> /\ Len(mail) = 0
  BY DEF Init
<1>3. /\ hist \in HistType /\ hist.presses = 0 /\ \A g \in Gestures : hist.stamp[g] = 0
  <2>. DEFINE p == gpio.pin
              none == [g \in Gestures |-> 0]
  <2>1. p \in BOOLEAN /\ none \in [Gestures -> Nat]
    BY <1>1 DEF GpioType
  <2>2. /\ hist = [presses |-> 0, down |-> FALSE, stamp |-> none, clicked |-> 0,
                   held |-> 0, missed |-> p, late |-> FALSE, raced |-> FALSE]
    BY DEF Init, NoHistory
  <2>3. \A g \in Gestures : none[g] = 0
    OBVIOUS
  <2>. HIDE DEF p, none
  <2>. QED
    BY <2>1, <2>2, <2>3 DEF HistType
<1>4. key \in KeyType /\ key.count = 0
  <2>1. LongTime \in 0 .. LongTime /\ MultTime \in 0 .. MultTime
    BY Times
  <2>. QED
    BY <2>1 DEF Init, KeyType
<1>5. TableOK(table) /\ TimerOK(table, timer)
  <2>1. table \in [Gestures -> Int] /\ \A g \in Gestures : table[g] = Absent
    BY Small DEF Init
  <2>2. Absent >= Absent /\ \A g \in Gestures : Absent <= Delay(g)
    BY Small, Times
  <2>3. TableOK(table)
    BY <2>1, <2>2 DEF TableOK
  <2>. QED
    BY <2>3 DEF Init, TimerOK, TimerType
<1>6. edges = 0 /\ edges \in 0 .. MaxEdges
  BY KeyAssumption DEF Init
<1>7. CountInv
  <2>1. KeyMails(mail) = {}
    BY <1>2 DEF KeyMails
  <2>2. Cardinality(KeyMails(mail)) = 0
    BY <2>1, FS_EmptySet
  <2>3. Busy = 0 /\ Latched = 0
    BY <1>1 DEF Busy, Latched
  <2>. QED
    BY <1>3, <1>6, <2>2, <2>3 DEF CountInv
<1>8. MailOK /\ HistOK /\ KeyOK
  BY <1>2, <1>3, <1>4 DEF MailOK, HistOK, KeyOK
<1>9. callback = "none" /\ failed = FALSE
  BY DEF Init
<1>. QED
  BY <1>1, <1>2, <1>5, <1>6, <1>7, <1>8, <1>9 DEF TypeInv

(* The pin and its interrupt *)
LEMMA IrqTypes ==
  ASSUME TypeInv, Move \/ IrqRead \/ IrqChoose \/ IrqArm
  PROVE  TypeInv'
<1>. DEFINE p == hist.presses
            k == Cardinality(KeyMails(mail))
<1>1. /\ p \in Nat /\ edges \in Nat /\ MaxEdges \in Nat /\ k \in Nat
      /\ Busy \in 0 .. 1 /\ Latched \in 0 .. 1 /\ p + k + Busy + Latched <= edges
  BY CountParts
<1>2. /\ gpio \in GpioType /\ isr \in IsrType
      /\ MailOK /\ calls \in Seq(CallType) /\ KeyOK
      /\ TableOK(table) /\ TimerOK(table, timer)
      /\ callback \in {"none", "due", "held up"} /\ failed \in BOOLEAN
      /\ HistOK /\ hist \in HistType
  BY DEF TypeInv, HistOK
<1>3. UNCHANGED <<calls, key, table, timer, failed, callback>>
  BY DEF Move, IrqRead, IrqChoose, IrqArm, service
<1>4. ASSUME hist' \in HistType, Same(hist)
      PROVE  HistOK' /\ KeyOK' /\ hist'.presses = p /\ (mail' = mail => MailOK')
  BY <1>2, <1>3, <1>4 DEF HistOK, KeyOK, MailOK, Same
<1>5. hist' = hist => hist' \in HistType /\ Same(hist)
  BY <1>2 DEF Same
<1>6. CASE Move
  <2>1. gpio' \in GpioType /\ hist' \in HistType /\ Same(hist)
    BY <1>6, MoveStep
  <2>2. mail' = mail /\ isr' = isr /\ edges' = edges + 1 /\ edges < MaxEdges
    BY <1>6 DEF Move
  <2>3. Busy' = Busy /\ Latched' \in 0 .. 1 /\ Busy' \in 0 .. 1
    BY <2>2 DEF Busy, Latched
  <2>4. edges' \in 0 .. MaxEdges
    BY <1>1, <2>2
  <2>5. CountInv'
    <3>1. hist'.presses = p /\ Cardinality(KeyMails(mail')) = k
      BY <1>4, <2>1, <2>2
    <3>. DEFINE b == Busy
                l == Latched
                m == Latched'
    <3>2. /\ p \in Nat /\ k \in Nat /\ b \in 0 .. 1 /\ l \in 0 .. 1 /\ m \in 0 .. 1
          /\ p + k + b + l <= edges /\ edges \in Nat
      BY <1>1, <2>3
    <3>. HIDE DEF p, k, b, l, m
    <3>3. p + k + b + m <= edges + 1
      BY <3>2
    <3>4. p + k + Busy + Latched' <= edges + 1
      BY <3>3 DEF b, m
    <3>. QED
      BY <2>2, <2>3, <3>1, <3>4 DEF CountInv
  <2>. QED
    BY <1>2, <1>3, <1>4, <2>1, <2>2, <2>4, <2>5 DEF TypeInv
<1>7. CASE IrqRead
  <2>1. /\ isr' \in IsrType /\ isr'.at = "read" /\ gpio' \in GpioType
        /\ gpio'.latched = FALSE /\ hist' \in HistType /\ Same(hist)
    BY <1>7, ReadStep
  <2>2. mail' = mail /\ edges' = edges /\ isr.at = "out" /\ gpio.latched
    BY <1>7 DEF IrqRead
  <2>3. Busy' = 1 /\ Latched' = 0 /\ Busy = 0 /\ Latched = 1
    BY <2>1, <2>2 DEF Busy, Latched
  <2>5. CountInv'
    <3>1. hist'.presses = p /\ Cardinality(KeyMails(mail')) = k
      BY <1>4, <2>1, <2>2
    <3>. HIDE DEF p, k
    <3>2. p + k + Busy' + Latched' <= edges'
      BY <1>1, <2>2, <2>3
    <3>. QED
      BY <3>1, <3>2 DEF CountInv
  <2>. QED
    BY <1>2, <1>3, <1>4, <2>1, <2>2, <2>5 DEF TypeInv
<1>8. CASE IrqChoose
  <2>1. /\ isr' \in IsrType /\ isr'.at = "chosen"
    BY <1>8, ChooseStep
  <2>2. gpio' = gpio /\ mail' = mail /\ edges' = edges /\ isr.at = "read" /\ hist' = hist
    BY <1>8 DEF IrqChoose
  <2>3. Busy' = Busy /\ Latched' = Latched
    BY <2>1, <2>2 DEF Busy, Latched
  <2>5. CountInv'
    BY <2>2, <2>3 DEF CountInv, TypeInv
  <2>. QED
    BY <1>2, <1>3, <1>4, <1>5, <2>1, <2>2, <2>5 DEF TypeInv
<1>9. CASE IrqArm
  <2>1. PICK m \in MailType :
          /\ isr' \in IsrType /\ isr'.at = "out" /\ gpio' \in GpioType
          /\ gpio'.latched = FALSE /\ m[2] = 0 /\ mail' = Append(mail, m)
    BY <1>9, ArmStep
  <2>2. edges' = edges /\ isr.at = "chosen" /\ hist' = hist
    BY <1>9 DEF IrqArm
  <2>3. Busy' = 0 /\ Latched' = 0 /\ Busy = 1
    BY <2>1, <2>2 DEF Busy, Latched
  <2>4. MailOK'
    <3>1. m[2] <= hist.presses /\ hist'.presses = hist.presses
      BY <1>1, <2>1, <2>2
    <3>. QED
      BY <1>2, <2>1, <3>1, PostOK
  <2>5. CountInv'
    <3>1. hist'.presses = p /\ Cardinality(KeyMails(mail')) = k + One(m)
      BY <1>2, <2>1, <2>2, AppendCount DEF MailOK
    <3>2. One(m) \in 0 .. 1
      BY Small
    <3>. HIDE DEF p, k
    <3>3. p + (k + One(m)) + Busy' + Latched' <= edges'
      BY <1>1, <2>2, <2>3, <3>2
    <3>. QED
      BY <3>1, <3>3 DEF CountInv
  <2>. QED
    BY <1>2, <1>3, <1>4, <1>5, <2>1, <2>2, <2>4, <2>5 DEF TypeInv
<1>. QED
  BY <1>6, <1>7, <1>8, <1>9

(* The delay table *)
LEMMA TableTypes ==
  ASSUME TypeInv, Call \/ TimerRun \/ Tick
  PROVE  TypeInv'
<1>. DEFINE p == hist.presses
            k == Cardinality(KeyMails(mail))
<1>1. /\ p \in Nat /\ edges \in Nat /\ MaxEdges \in Nat /\ k \in Nat
      /\ Busy \in 0 .. 1 /\ Latched \in 0 .. 1 /\ p + k + Busy + Latched <= edges
  BY CountParts
<1>2. /\ gpio \in GpioType /\ isr \in IsrType
      /\ MailOK /\ calls \in Seq(CallType) /\ KeyOK
      /\ TableOK(table) /\ TimerOK(table, timer)
      /\ callback \in {"none", "due", "held up"} /\ failed \in BOOLEAN
      /\ edges \in 0 .. MaxEdges /\ HistOK /\ hist \in HistType /\ CountInv
  BY DEF TypeInv, HistOK
<1>3. UNCHANGED <<gpio, isr, edges>> /\ Busy' = Busy /\ Latched' = Latched
  BY DEF Call, TimerRun, Tick, Busy, Latched
<1>4. callback' \in {"none", "due", "held up"}
  BY <1>2 DEF Call, TimerRun, Tick
<1>5. CASE Call
  <2>1. PICK c \in CallType :
           /\ calls' \in Seq(CallType)
           /\ TableOK(table') /\ TimerOK(table', timer')
           /\ hist' \in HistType /\ hist'.presses = hist.presses
           /\ \/ hist'.stamp = hist.stamp
              \/ hist'.stamp = [hist.stamp EXCEPT ![c.g] = hist.presses]
    BY <1>5, CallStep
  <2>2. mail' = mail /\ key' = key /\ failed' = failed
    BY <1>5 DEF Call
  <2>3. \A g \in Gestures : hist'.stamp[g] <= hist'.presses
    <3>1. \A g \in Gestures : hist.stamp[g] <= hist.presses
      BY <1>2 DEF HistOK
    <3>2. hist.presses \in Nat /\ hist.stamp \in [Gestures -> Nat]
      BY <1>2 DEF HistType
    <3>3. \A g \in Gestures : hist'.stamp[g] \in {hist.stamp[g], hist.presses}
      BY <2>1, <3>2
    <3>. QED
      BY <2>1, <3>1, <3>2, <3>3
  <2>4. HistOK' /\ MailOK' /\ KeyOK' /\ CountInv'
    BY <1>2, <1>3, <2>1, <2>2, <2>3 DEF HistOK, MailOK, KeyOK, CountInv
  <2>. QED
    BY <1>2, <1>3, <1>4, <2>1, <2>2, <2>4 DEF TypeInv
<1>6. CASE TimerRun
  <2>1. calls' = calls /\ key' = key
    BY <1>6 DEF TimerRun
  <2>2. CASE failed' = TRUE /\ UNCHANGED <<mail, table, timer, hist>>
    <3>1. HistOK' /\ MailOK' /\ KeyOK' /\ CountInv'
      BY <1>2, <1>3, <2>1, <2>2 DEF HistOK, MailOK, KeyOK, CountInv
    <3>. QED
      BY <1>2, <1>3, <1>4, <2>1, <2>2, <3>1 DEF TypeInv
  <2>3. CASE ~ (failed' = TRUE /\ UNCHANGED <<mail, table, timer, hist>>)
    <3>1. /\ failed' = failed
          /\ \E g \in Gestures :
               /\ mail' = Append(mail, <<g, hist.stamp[g]>>)
               /\ <<g, hist.stamp[g]>> \in MailType
               /\ TableOK(table') /\ TimerOK(table', timer')
               /\ hist' \in HistType /\ Same(hist)
      BY <1>6, <2>3, TimerStep
    <3>2. PICK g \in Gestures :
            /\ mail' = Append(mail, <<g, hist.stamp[g]>>)
            /\ <<g, hist.stamp[g]>> \in MailType
      BY <3>1
    <3>. DEFINE m == <<g, hist.stamp[g]>>
    <3>3. m[1] = g /\ m[2] = hist.stamp[g] /\ hist.stamp[g] <= hist.presses
      BY <1>2 DEF HistOK
    <3>4. One(m) = 0
      BY <3>3 DEF One, KeyNames, Gestures, Clicks, Holds
    <3>5. hist'.presses = hist.presses /\ hist'.stamp = hist.stamp
      BY <3>1 DEF Same
    <3>. HIDE DEF m
    <3>6. MailOK'
      BY <1>2, <3>2, <3>3, <3>5, PostOK DEF m
    <3>7. Cardinality(KeyMails(mail')) = k + One(m)
      BY <1>2, <3>2, AppendCount DEF MailOK, m
    <3>8. CountInv'
      <4>1. Cardinality(KeyMails(mail')) = Cardinality(KeyMails(mail))
        BY <1>1, <3>4, <3>7
      <4>. QED
        BY <1>2, <1>3, <3>5, <4>1 DEF CountInv
    <3>9. HistOK' /\ KeyOK'
      BY <1>2, <2>1, <3>1, <3>5 DEF HistOK, KeyOK
    <3>. QED
      BY <1>2, <1>3, <1>4, <2>1, <3>1, <3>6, <3>8, <3>9 DEF TypeInv
  <2>. QED
    BY <2>2, <2>3
<1>7. CASE Tick
  <2>1. TableOK(table') /\ TimerOK(table', timer') /\ key' \in KeyType /\ key'.count = key.count
    BY <1>7, TickStep
  <2>2. UNCHANGED <<mail, calls, failed, hist>>
    BY <1>7 DEF Tick
  <2>3. HistOK' /\ MailOK' /\ KeyOK' /\ CountInv'
    BY <1>2, <1>3, <2>1, <2>2 DEF HistOK, MailOK, KeyOK, CountInv
  <2>. QED
    BY <1>2, <1>3, <1>4, <2>1, <2>2, <2>3 DEF TypeInv
<1>. QED
  BY <1>5, <1>6, <1>7

(* The handlers *)
LEMMA HandlerTypes ==
  ASSUME TypeInv, Press \/ Release \/ \E g \in Gestures : Deliver(g)
  PROVE  TypeInv'
<1>. DEFINE p == hist.presses
            k == Cardinality(KeyMails(mail))
            kk == Cardinality(KeyMails(mail'))
<1>1. /\ p \in Nat /\ edges \in Nat /\ MaxEdges \in Nat /\ k \in Nat
      /\ Busy \in 0 .. 1 /\ Latched \in 0 .. 1 /\ p + k + Busy + Latched <= edges
  BY CountParts
<1>2. /\ gpio \in GpioType /\ isr \in IsrType
      /\ MailOK /\ calls \in Seq(CallType) /\ KeyOK
      /\ TableOK(table) /\ TimerOK(table, timer)
      /\ callback \in {"none", "due", "held up"} /\ failed \in BOOLEAN
      /\ edges \in 0 .. MaxEdges /\ HistOK /\ hist \in HistType /\ CountInv
  BY DEF TypeInv, HistOK
<1>3. \E what : Take(what)
  BY DEF Press, Release, Deliver
<1>4. /\ UNCHANGED <<gpio, isr, table, timer, failed, callback, edges>>
      /\ mail # <<>> /\ mail' = Tail(mail) /\ Head(mail) = mail[1]
  BY <1>3, TakeStep
<1>5. Busy' = Busy /\ Latched' = Latched
  BY <1>4 DEF Busy, Latched
<1>6. kk \in Nat /\ k = kk + One(mail[1]) /\ One(mail[1]) \in 0 .. 1
  BY <1>2, <1>4, TailCount, Small DEF MailOK
<1>. HIDE DEF k, kk
<1>7. ASSUME calls' \in Seq(CallType), KeyOK', hist' \in HistType,
             \/ Same(hist)
             \/ hist'.presses = p /\ hist'.stamp = hist.stamp
             \/ /\ hist'.presses = p + 1 /\ hist'.stamp = hist.stamp
                /\ One(mail[1]) = 1
      PROVE  TypeInv'
  <2>1. /\ hist'.stamp = hist.stamp
        /\ hist'.presses = p \/ (hist'.presses = p + 1 /\ One(mail[1]) = 1)
    BY <1>7 DEF Same
  <2>2. hist'.presses \in Nat /\ hist'.presses >= p
    BY <1>1, <2>1
  <2>3. MailOK'
    BY <1>2, <1>4, <2>2, TakeOK
  <2>4. \A g \in Gestures : hist.stamp[g] \in Nat /\ hist.stamp[g] <= p
    BY <1>2 DEF HistOK, HistType
  <2>. DEFINE q == hist'.presses
  <2>. HIDE DEF p, q
  <2>5. \A g \in Gestures : hist.stamp[g] <= q
    BY <1>1, <2>2, <2>4 DEF q
  <2>6. HistOK'
    BY <1>7, <2>1, <2>5 DEF HistOK, q
  <2>7. q + kk + Busy + Latched <= edges
    <3>1. CASE q = p
      BY <1>1, <1>6, <3>1
    <3>2. CASE q = p + 1 /\ One(mail[1]) = 1
      BY <1>1, <1>6, <3>2
    <3>. QED
      BY <2>1, <3>1, <3>2 DEF q
  <2>8. CountInv'
    BY <1>4, <1>5, <2>7 DEF CountInv, q, kk
  <2>. QED
    BY <1>2, <1>4, <1>7, <2>3, <2>6, <2>8 DEF TypeInv
<1>8. key \in KeyType /\ key.count \in Nat /\ key.count <= p
  BY <1>2 DEF KeyOK, KeyType
<1>9. CASE Press
  <2>1. /\ Take("PRESS") /\ key' \in KeyType /\ calls' = PressCalls
        /\ key'.count = IF key.release >= MultTime THEN 1 ELSE key.count + 1
        /\ hist' \in HistType /\ hist'.presses = p + 1 /\ hist'.stamp = hist.stamp
    BY <1>9, PressStep
  <2>2. mail[1][1] = "PRESS"
    BY <2>1, TakeStep
  <2>3. One(mail[1]) = 1
    BY <2>2 DEF One, KeyNames
  <2>4. key'.count <= p + 1
    BY <1>1, <1>8, <2>1
  <2>5. KeyOK'
    BY <2>1, <2>4 DEF KeyOK
  <2>. QED
    BY <1>7, <2>1, <2>3, <2>5, PressOps
<1>10. CASE Release
  <2>1. /\ key' \in KeyType /\ key'.count \in Nat /\ calls' = ReleaseCalls(key'.count)
        /\ key'.count = IF key.press >= LongTime THEN 0 ELSE key.count
        /\ hist' \in HistType /\ Same(hist)
    BY <1>10, ReleaseStep
  <2>2. key'.count <= p /\ hist'.presses = p
    BY <1>1, <1>8, <2>1 DEF Same
  <2>3. KeyOK'
    BY <2>1, <2>2 DEF KeyOK
  <2>4. calls' \in Seq(CallType)
    BY <2>1, ReleaseOps
  <2>. QED
    BY <1>7, <2>1, <2>3, <2>4
<1>11. CASE \E g \in Gestures : Deliver(g)
  <2>1. /\ key' = key /\ calls' \in Seq(CallType)
        /\ hist' \in HistType /\ hist'.presses = p /\ hist'.stamp = hist.stamp
    BY <1>11, DeliverStep
  <2>2. KeyOK'
    BY <1>2, <2>1 DEF KeyOK
  <2>. QED
    BY <1>7, <2>1, <2>2
<1>. QED
  BY <1>9, <1>10, <1>11

(* The types hold throughout. *)
LEMMA NextTypes == TypeInv /\ [Next]_vars => TypeInv'
<1>. SUFFICES ASSUME TypeInv, [Next]_vars PROVE TypeInv'
  OBVIOUS
<1>1. CASE UNCHANGED vars
  BY <1>1 DEF vars, service, TypeInv, MailOK, KeyOK, HistOK, CountInv, Busy, Latched
<1>. QED
  BY <1>1, IrqTypes, TableTypes, HandlerTypes DEF Next

(* The driver keeps its types: in particular the flag of the timer stays on *)
(* a gesture that waits, whatever order cancels, sends and expiries take.   *)
THEOREM TypeCorrect == Spec => []TypeOK
<1>1. Spec => []TypeInv
  BY InitTypes, NextTypes, PTL DEF Spec
<1>. QED
  BY <1>1, TypesFollow, PTL

-------------------------------------------------------------------------------
(* The driver does not lose the key.  As long as the pin has not changed    *)
(* while the interrupt handler ran, the handler has read what the pin says; *)
(* and once it is out, with nothing latched, the last mail of the pin says  *)
(* what the pin says, or the last one handled does if none is left.         *)

Name(b) == IF b THEN "PRESS" ELSE "RELEASE"

Silent(q) == \A j \in 1 .. Len(q) : q[j][1] \notin KeyNames

Last(q, b) ==
  \E i \in 1 .. Len(q) : /\ q[i][1] = Name(b)
                         /\ \A j \in 1 .. Len(q) : j > i => q[j][1] \notin KeyNames

LastTold(q, d, b) == Last(q, b) \/ (d = b /\ Silent(q))

FollowInv ==
  ~ hist.missed =>
    /\ isr.at = "out" /\ ~ gpio.latched =>
         gpio.edge = Edge(gpio.pin) /\ LastTold(mail, hist.down, gpio.pin)
    /\ isr.at # "out" => isr.pressed = gpio.pin
    /\ isr.at = "chosen" => isr.edge = Edge(gpio.pin)

(* The mails that tell about the pin name the two levels. *)
LEMMA Names ==
  /\ \A b : Name(b) \in KeyNames
  /\ \A b, c \in BOOLEAN : Name(b) = Name(c) => b = c
  /\ \A g \in Gestures : g \notin KeyNames
BY DEF Name, KeyNames, Gestures, Clicks, Holds

(* A mail about the pin is the last word. *)
LEMMA ToldAppend ==
  ASSUME NEW q \in Seq(MailType), NEW m \in MailType, NEW b \in BOOLEAN, NEW d,
         m[1] = Name(b)
  PROVE  LastTold(Append(q, m), d, b)
<1>1. /\ Len(q) \in Nat
      /\ Len(Append(q, m)) = Len(q) + 1 /\ Append(q, m)[Len(q) + 1] = m
  BY MailAppend
<1>2. Len(q) + 1 \in 1 .. Len(Append(q, m))
  BY <1>1
<1>3. \A j \in 1 .. Len(Append(q, m)) : ~ (j > Len(q) + 1)
  BY <1>1
<1>. QED
  BY <1>1, <1>2, <1>3 DEF LastTold, Last

(* A gesture that is posted tells nothing about the pin. *)
LEMMA ToldPost ==
  ASSUME NEW q \in Seq(MailType), NEW m \in MailType, NEW b \in BOOLEAN, NEW d,
         m[1] \notin KeyNames, LastTold(q, d, b)
  PROVE  LastTold(Append(q, m), d, b)
<1>1. /\ Len(q) \in Nat
      /\ Len(Append(q, m)) = Len(q) + 1 /\ Append(q, m)[Len(q) + 1] = m
      /\ \A i \in 1 .. Len(q) : Append(q, m)[i] = q[i]
      /\ \A i \in 1 .. Len(q) + 1 : i \in 1 .. Len(q) \/ i = Len(q) + 1
  BY MailAppend
<1>2. Silent(q) => Silent(Append(q, m))
  BY <1>1 DEF Silent
<1>3. ASSUME Last(q, b) PROVE Last(Append(q, m), b)
  <2>1. PICK i \in 1 .. Len(q) :
          q[i][1] = Name(b) /\ \A j \in 1 .. Len(q) : j > i => q[j][1] \notin KeyNames
    BY <1>3 DEF Last
  <2>2. i \in 1 .. Len(Append(q, m)) /\ Append(q, m)[i][1] = Name(b)
    BY <1>1, <2>1
  <2>3. \A j \in 1 .. Len(Append(q, m)) : j > i => Append(q, m)[j][1] \notin KeyNames
    BY <1>1, <2>1
  <2>. QED
    BY <2>2, <2>3 DEF Last
<1>. QED
  BY <1>2, <1>3 DEF LastTold

(* Taking a mail that is not about the pin changes nothing; taking one that *)
(* is makes it the last one handled.                                        *)
LEMMA ToldTake ==
  ASSUME NEW q \in Seq(MailType), q # <<>>, NEW b \in BOOLEAN, NEW d \in BOOLEAN,
         NEW c \in BOOLEAN, LastTold(q, d, b),
         \/ q[1][1] \notin KeyNames /\ c = d
         \/ q[1][1] = Name(c)
  PROVE  LastTold(Tail(q), c, b)
<1>1. /\ Len(q) \in Nat /\ 1 \in 1 .. Len(q) /\ Len(Tail(q)) = Len(q) - 1
      /\ \A i \in 1 .. Len(Tail(q)) : i + 1 \in 1 .. Len(q) /\ Tail(q)[i] = q[i + 1]
      /\ \A i \in 1 .. Len(q) :
           i # 1 => i - 1 \in 1 .. Len(Tail(q)) /\ Tail(q)[i - 1] = q[i]
  BY MailTail
<1>2. CASE Silent(q) /\ d = b
  <2>1. Silent(Tail(q))
    BY <1>1, <1>2 DEF Silent
  <2>2. c = d
    BY <1>1, <1>2, Names DEF Silent
  <2>. QED
    BY <1>2, <2>1, <2>2 DEF LastTold
<1>3. CASE Last(q, b)
  <2>1. PICK i \in 1 .. Len(q) :
          q[i][1] = Name(b) /\ \A j \in 1 .. Len(q) : j > i => q[j][1] \notin KeyNames
    BY <1>3 DEF Last
  <2>2. CASE i = 1
    <3>1. c = b
      BY <2>1, <2>2, Names
    <3>2. Silent(Tail(q))
      <4>1. \A j \in 1 .. Len(Tail(q)) : j + 1 > i /\ j + 1 \in 1 .. Len(q)
        BY <1>1, <2>2
      <4>. QED
        BY <1>1, <2>1, <4>1 DEF Silent
    <3>. QED
      BY <3>1, <3>2 DEF LastTold
  <2>3. CASE i # 1
    <3>1. i - 1 \in 1 .. Len(Tail(q)) /\ Tail(q)[i - 1][1] = Name(b)
      BY <1>1, <2>1, <2>3
    <3>2. \A j \in 1 .. Len(Tail(q)) : j > i - 1 => j + 1 > i
      BY <1>1
    <3>3. \A j \in 1 .. Len(Tail(q)) : j > i - 1 => Tail(q)[j][1] \notin KeyNames
      BY <1>1, <2>1, <3>2
    <3>. QED
      BY <3>1, <3>3 DEF LastTold, Last
  <2>. QED
    BY <2>2, <2>3
<1>. QED
  BY <1>2, <1>3 DEF LastTold

(* At the start the pin is up, or a change is counted as missed. *)
LEMMA InitFollow == Init => FollowInv
<1>. SUFFICES ASSUME Init, ~ hist.missed PROVE FollowInv
  BY DEF FollowInv
<1>1. gpio.pin \in BOOLEAN /\ gpio.edge = "rise" /\ hist = [NoHistory EXCEPT !.missed = gpio.pin]
  BY DEF Init
<1>2. hist.missed = gpio.pin /\ hist.down = FALSE
  BY <1>1 DEF NoHistory
<1>3. mail = <<>> /\ isr.at = "out" /\ Len(mail) = 0
  BY DEF Init
<1>4. gpio.pin = FALSE
  <2>1. ~ gpio.pin
    BY <1>2
  <2>. QED
    BY <1>1, <2>1
<1>5. LastTold(mail, hist.down, gpio.pin)
  <2>1. Silent(mail)
    BY <1>3 DEF Silent
  <2>. QED
    BY <1>2, <1>4, <2>1 DEF LastTold
<1>. QED
  BY <1>1, <1>3, <1>4, <1>5 DEF FollowInv, Edge

(* A step that leaves the pin, its interrupt and the mailbox alone *)
LEMMA FollowAlone ==
  ASSUME FollowInv, UNCHANGED <<gpio, isr, mail>>,
         hist'.missed = hist.missed, hist'.down = hist.down
  PROVE  FollowInv'
BY DEF FollowInv

(* A handler that takes a mail *)
LEMMA FollowTake ==
  ASSUME TypeInv, FollowInv, NEW what, Take(what), hist'.missed = hist.missed,
         hist'.down \in BOOLEAN,
         \/ what \in Gestures /\ hist'.down = hist.down
         \/ what = Name(hist'.down)
  PROVE  FollowInv'
<1>1. /\ mail # <<>> /\ mail \in Seq(MailType) /\ mail[1][1] = what
      /\ mail' = Tail(mail) /\ gpio' = gpio /\ isr' = isr
  BY TakeStep
<1>2. gpio.pin \in BOOLEAN /\ hist.down \in BOOLEAN
  BY DEF TypeInv, GpioType, HistOK, HistType
<1>3. LastTold(mail, hist.down, gpio.pin) => LastTold(mail', hist'.down, gpio.pin)
  BY <1>1, <1>2, ToldTake, Names
<1>. QED
  BY <1>1, <1>3 DEF FollowInv

(* Every step keeps the driver on the key. *)
LEMMA NextFollow == TypeInv /\ FollowInv /\ [Next]_vars => FollowInv'
<1>. SUFFICES ASSUME TypeInv, FollowInv, [Next]_vars PROVE FollowInv'
  OBVIOUS
<1>1. gpio.pin \in BOOLEAN /\ isr.pressed \in BOOLEAN /\ mail \in Seq(MailType)
      /\ isr.at \in {"out", "read", "chosen"}
  BY DEF TypeInv, GpioType, IsrType, MailOK
<1>2. CASE Move
  <2>1. /\ gpio.latched => gpio'.latched
        /\ gpio.edge = Edge(gpio.pin) => gpio'.latched
        /\ ~ hist'.missed => ~ hist.missed /\ isr.at = "out"
    BY <1>2, MoveStep
  <2>2. isr' = isr
    BY <1>2 DEF Move
  <2>3. ASSUME ~ hist'.missed PROVE isr'.at = "out" /\ gpio'.latched
    <3>1. ~ hist.missed /\ isr.at = "out"
      BY <2>1, <2>3
    <3>2. ~ gpio.latched => gpio.edge = Edge(gpio.pin)
      BY <3>1 DEF FollowInv
    <3>3. gpio'.latched
      BY <2>1, <3>2
    <3>. QED
      BY <2>2, <3>1, <3>3
  <2>. QED
    BY <2>3 DEF FollowInv
<1>3. CASE IrqRead
  BY <1>3, ReadStep DEF FollowInv
<1>4. CASE IrqChoose
  <2>1. isr'.at = "chosen" /\ isr'.pressed = isr.pressed /\ isr'.edge = Edge(gpio.pin)
    BY <1>4, ChooseStep
  <2>2. isr.at = "read" /\ gpio' = gpio /\ hist' = hist
    BY <1>4 DEF IrqChoose
  <2>. QED
    BY <2>1, <2>2 DEF FollowInv
<1>5. CASE IrqArm
  <2>1. PICK m \in MailType :
          /\ isr'.at = "out" /\ gpio'.pin = gpio.pin /\ gpio'.edge = isr.edge
          /\ m[1] = (IF isr.pressed THEN "PRESS" ELSE "RELEASE")
          /\ mail' = Append(mail, m)
    BY <1>5, ArmStep
  <2>2. hist' = hist /\ isr.at = "chosen"
    BY <1>5 DEF IrqArm
  <2>3. m[1] = Name(isr.pressed)
    BY <2>1 DEF Name
  <2>4. LastTold(mail', hist.down, isr.pressed)
    BY <1>1, <2>1, <2>3, ToldAppend
  <2>. QED
    BY <2>1, <2>2, <2>4 DEF FollowInv
<1>6. CASE Call
  <2>1. hist'.missed = hist.missed /\ hist'.down = hist.down
    BY <1>6, CallStep DEF Rest
  <2>. QED
    BY <1>6, <2>1, FollowAlone DEF Call
<1>7. CASE TimerRun
  <2>1. gpio' = gpio /\ isr' = isr
    BY <1>7 DEF TimerRun
  <2>2. CASE mail' = mail /\ hist' = hist
    BY <2>1, <2>2, FollowAlone
  <2>3. CASE ~ (mail' = mail /\ hist' = hist)
    <3>1. PICK g \in Gestures :
            /\ mail' = Append(mail, <<g, hist.stamp[g]>>)
            /\ <<g, hist.stamp[g]>> \in MailType
            /\ hist'.missed = hist.missed /\ hist'.down = hist.down
      BY <1>7, <2>3, TimerStep
    <3>2. <<g, hist.stamp[g]>>[1] \notin KeyNames
      BY Names
    <3>3. LastTold(mail, hist.down, gpio.pin) => LastTold(mail', hist.down, gpio.pin)
      BY <1>1, <3>1, <3>2, ToldPost
    <3>. QED
      BY <2>1, <3>1, <3>3 DEF FollowInv
  <2>. QED
    BY <2>2, <2>3
<1>8. CASE Tick
  BY <1>8, FollowAlone DEF Tick
<1>9. CASE Press
  <2>1. Take("PRESS") /\ hist'.missed = hist.missed /\ hist'.down = TRUE
    BY <1>9, PressStep
  <2>2. "PRESS" = Name(hist'.down) /\ hist'.down \in BOOLEAN
    BY <2>1 DEF Name
  <2>. QED
    BY <2>1, <2>2, FollowTake
<1>10. CASE Release
  <2>1. Take("RELEASE") /\ hist'.missed = hist.missed /\ hist'.down = FALSE
    BY <1>10, ReleaseStep
  <2>2. "RELEASE" = Name(hist'.down) /\ hist'.down \in BOOLEAN
    BY <2>1 DEF Name
  <2>. QED
    BY <2>1, <2>2, FollowTake
<1>11. CASE \E g \in Gestures : Deliver(g)
  <2>1. PICK g \in Gestures : Deliver(g)
    BY <1>11
  <2>2. Take(g) /\ hist'.missed = hist.missed /\ hist'.down = hist.down
    BY <2>1, DeliverStep DEF Rest
  <2>3. hist'.down \in BOOLEAN
    BY <2>2 DEF TypeInv, HistOK, HistType
  <2>. QED
    BY <2>2, <2>3, FollowTake
<1>12. CASE UNCHANGED vars
  BY <1>12, FollowAlone DEF vars
<1>. QED
  BY <1>2, <1>3, <1>4, <1>5, <1>6, <1>7, <1>8, <1>9, <1>10, <1>11, <1>12 DEF Next

(* The driver does not lose the key, however the pin bounces around the two *)
(* readings of the interrupt handler, as long as it does not move in them.  *)
THEOREM NeverLost == Spec => []KeyFollowed
<1>1. Spec => [](TypeInv /\ FollowInv)
  BY InitTypes, InitFollow, NextTypes, NextFollow, PTL DEF Spec
<1>2. TypeInv /\ FollowInv => KeyFollowed
  <2>. SUFFICES ASSUME TypeInv, FollowInv, mail = <<>>, isr.at = "out",
                       ~ gpio.latched, ~ hist.missed
                PROVE  hist.down = gpio.pin /\ gpio.edge = Edge(gpio.pin)
    BY DEF KeyFollowed
  <2>1. gpio.edge = Edge(gpio.pin) /\ LastTold(mail, hist.down, gpio.pin)
    BY DEF FollowInv
  <2>2. ~ Last(mail, gpio.pin)
    <3>1. Len(mail) = 0
      OBVIOUS
    <3>. QED
      BY <3>1 DEF Last
  <2>. QED
    BY <2>1, <2>2 DEF LastTold
<1>. QED
  BY <1>1, <1>2, PTL

-------------------------------------------------------------------------------
(* Nothing is held once the key is up.  From the handling of the release    *)
(* on, a hold that waits in the table is one that the handler will still    *)
(* cancel, and none is sent again or lies in the mailbox.                   *)

Has(q, op, g) == \E c \in Ops(q) : c.op = op /\ c.g = g

Quiet(q, g) == \A i \in 1 .. Len(q) : q[i][1] # g

HoldInv ==
  ~ hist.down /\ ~ hist.late =>
    \A g \in Holds : /\ table[g] # Absent => Has(calls, "cancel", g)
                     /\ ~ Has(calls, "send", g)
                     /\ Quiet(mail, g)

(* A mail is quiet about a gesture unless it is posted. *)
LEMMA QuietOps ==
  ASSUME NEW q \in Seq(MailType), NEW g \in Gestures
  PROVE  /\ \A m \in MailType : m[1] # g /\ Quiet(q, g) => Quiet(Append(q, m), g)
         /\ q # <<>> /\ Quiet(q, g) => Quiet(Tail(q), g)
<1>1. ASSUME NEW m \in MailType, m[1] # g, Quiet(q, g) PROVE Quiet(Append(q, m), g)
  <2>1. /\ Len(q) \in Nat
        /\ Len(Append(q, m)) = Len(q) + 1 /\ Append(q, m)[Len(q) + 1] = m
        /\ \A i \in 1 .. Len(q) : Append(q, m)[i] = q[i]
        /\ \A i \in 1 .. Len(q) + 1 : i \in 1 .. Len(q) \/ i = Len(q) + 1
    BY MailAppend
  <2>. QED
    BY <1>1, <2>1 DEF Quiet
<1>2. ASSUME q # <<>>, Quiet(q, g) PROVE Quiet(Tail(q), g)
  <2>1. \A i \in 1 .. Len(Tail(q)) : i + 1 \in 1 .. Len(q) /\ Tail(q)[i] = q[i + 1]
    BY <1>2, MailTail
  <2>. QED
    BY <1>2, <2>1 DEF Quiet
<1>. QED
  BY <1>1, <1>2

(* A gesture whose message a handler takes was not quiet. *)
LEMMA TakeHeard ==
  ASSUME TypeInv, NEW g \in Gestures, Take(g)
  PROVE  ~ Quiet(mail, g)
BY TakeStep DEF Quiet

LEMMA NoCalls == \A op, g : ~ Has(<<>>, op, g)
<1>1. Ops(<<>>) = {}
  BY DEF Ops
<1>. QED
  BY <1>1 DEF Has

(* The holds are gestures, and no click is one. *)
LEMMA HoldNames ==
  /\ \A g \in Holds : g \in Gestures /\ g \notin Clicks /\ g \notin KeyNames
  /\ "long" \in Holds /\ "long" \in Gestures
  /\ \A g \in Clicks : g \in Gestures /\ g \notin KeyNames /\ g # "long"
BY DEF Gestures, Clicks, Holds, KeyNames

(* Nothing is held at the start. *)
LEMMA InitHold == Init => HoldInv
<1>. SUFFICES ASSUME Init PROVE HoldInv
  OBVIOUS
<1>1. mail = <<>> /\ Len(mail) = 0 /\ calls = <<>> /\ \A g \in Gestures : table[g] = Absent
  BY DEF Init
<1>2. \A g \in Holds : ~ Has(calls, "send", g) /\ Quiet(mail, g)
  BY <1>1, NoCalls DEF Quiet
<1>. QED
  BY <1>1, <1>2, HoldNames DEF HoldInv

(* A step that at most frees entries and posts a mail that is no hold *)
LEMMA HoldAlone ==
  ASSUME TypeInv, HoldInv, calls' = calls, hist'.down = hist.down, ~ hist'.late => ~ hist.late,
         \A g \in Gestures : table'[g] # Absent => table[g] # Absent,
         \/ mail' = mail
         \/ \E m \in MailType : m[1] \notin Holds /\ mail' = Append(mail, m)
  PROVE  HoldInv'
<1>1. mail \in Seq(MailType)
  BY DEF TypeInv, MailOK
<1>2. \A g \in Holds : Quiet(mail, g) => Quiet(mail', g)
  <2>1. CASE mail' = mail
    BY <2>1
  <2>2. CASE mail' # mail
    <3>1. PICK m \in MailType : m[1] \notin Holds /\ mail' = Append(mail, m)
      BY <2>2
    <3>. QED
      BY <1>1, <3>1, QuietOps, HoldNames
  <2>. QED
    BY <2>1, <2>2
<1>. QED
  BY <1>2, HoldNames DEF HoldInv

(* Every step keeps the holds off after a release. *)
LEMMA NextHold == TypeInv /\ HoldInv /\ [Next]_vars => HoldInv'
<1>. SUFFICES ASSUME TypeInv, HoldInv, [Next]_vars PROVE HoldInv'
  OBVIOUS
<1>1. mail \in Seq(MailType) /\ calls \in Seq(CallType)
  BY DEF TypeInv, MailOK
<1>2. CASE Move \/ IrqRead \/ IrqChoose
  <2>1. hist'.down = hist.down /\ hist'.late = hist.late
    BY <1>2, MoveStep, ReadStep DEF Rest, IrqChoose
  <2>2. UNCHANGED <<mail, calls, table>>
    BY <1>2 DEF Move, IrqRead, IrqChoose, service
  <2>. QED
    BY <2>1, <2>2, HoldAlone
<1>3. CASE IrqArm
  <2>1. PICK m \in MailType : /\ m[1] = (IF isr.pressed THEN "PRESS" ELSE "RELEASE")
                              /\ mail' = Append(mail, m)
    BY <1>3, ArmStep
  <2>2. m[1] \notin Holds
    BY <2>1 DEF Holds
  <2>3. UNCHANGED <<hist, calls, table>>
    BY <1>3 DEF IrqArm, service
  <2>. QED
    BY <2>1, <2>2, <2>3, HoldAlone
<1>4. CASE Call
  <2>1. PICK c \in CallType :
           /\ Ops(calls) = {c} \cup Ops(calls')
           /\ \A h \in Gestures : h # c.g => table'[h] = table[h]
           /\ Rest
           /\ \/ c.op = "cancel" /\ table'[c.g] = Absent
              \/ c.op = "send"
    BY <1>4, CallStep
  <2>2. mail' = mail
    BY <1>4 DEF Call
  <2>3. ASSUME ~ hist'.down, ~ hist'.late, NEW g \in Holds
        PROVE  /\ table'[g] # Absent => Has(calls', "cancel", g)
               /\ ~ Has(calls', "send", g)
               /\ Quiet(mail', g)
    <3>1. /\ table[g] # Absent => Has(calls, "cancel", g)
          /\ ~ Has(calls, "send", g)
          /\ Quiet(mail, g)
      BY <2>1, <2>3 DEF HoldInv, Rest
    <3>2. ~ Has(calls', "send", g)
      BY <2>1, <3>1 DEF Has
    <3>3. CASE c.g = g
      <4>1. c.op # "send"
        BY <2>1, <3>1, <3>3 DEF Has
      <4>. QED
        BY <2>1, <2>2, <3>1, <3>2, <3>3, <4>1
    <3>4. CASE c.g # g
      <4>1. table'[g] = table[g]
        BY <2>1, <3>4, HoldNames
      <4>2. Has(calls, "cancel", g) => Has(calls', "cancel", g)
        BY <2>1, <3>4 DEF Has
      <4>. QED
        BY <2>2, <3>1, <3>2, <4>1, <4>2
    <3>. QED
      BY <3>3, <3>4
  <2>. QED
    BY <2>3 DEF HoldInv
<1>5. CASE TimerRun
  <2>1. calls' = calls
    BY <1>5 DEF TimerRun
  <2>2. CASE UNCHANGED <<mail, table, hist>>
    BY <2>1, <2>2, HoldAlone
  <2>3. CASE ~ UNCHANGED <<mail, table, hist>>
    <3>1. PICK g \in Gestures :
            /\ table[g] # Absent
            /\ mail' = Append(mail, <<g, hist.stamp[g]>>)
            /\ <<g, hist.stamp[g]>> \in MailType
            /\ \A h \in Gestures : table'[h] \in {Absent, table[h]}
            /\ hist'.down = hist.down
            /\ ~ hist'.late => ~ hist.late /\ (g \in Holds => calls = <<>>)
      BY <1>5, <2>3, TimerStep
    <3>2. CASE g \in Holds
      <4>1. ASSUME ~ hist'.down, ~ hist'.late PROVE FALSE
        <5>1. ~ hist.down /\ ~ hist.late /\ calls = <<>>
          BY <3>1, <3>2, <4>1
        <5>2. Has(calls, "cancel", g)
          BY <3>1, <3>2, <5>1 DEF HoldInv
        <5>. QED
          BY <5>1, <5>2, NoCalls
      <4>. QED
        BY <4>1 DEF HoldInv
    <3>3. CASE g \notin Holds
      <4>1. <<g, hist.stamp[g]>>[1] \notin Holds
        BY <3>3
      <4>2. \A h \in Gestures : table'[h] # Absent => table[h] # Absent
        BY <3>1
      <4>. QED
        BY <2>1, <3>1, <4>1, <4>2, HoldAlone
    <3>. QED
      BY <3>2, <3>3
  <2>. QED
    BY <2>2, <2>3
<1>6. CASE Tick
  <2>1. \A g \in Gestures : table'[g] = IF table[g] > 0 THEN table[g] - 1 ELSE table[g]
    BY <1>6, TickStep
  <2>2. \A g \in Gestures : table'[g] # Absent => table[g] # Absent
    BY <2>1, Small
  <2>3. UNCHANGED <<mail, calls, hist>>
    BY <1>6 DEF Tick
  <2>. QED
    BY <2>2, <2>3, HoldAlone
<1>7. CASE Press
  BY <1>7, PressStep DEF HoldInv
<1>8. CASE Release
  <2>1. /\ Take("RELEASE") /\ key'.count \in Nat /\ calls' = ReleaseCalls(key'.count)
        /\ ~ hist'.late => \A i \in DOMAIN mail : mail[i][1] \notin Holds
    BY <1>8, ReleaseStep
  <2>2. mail # <<>> /\ mail' = Tail(mail) /\ table' = table
    BY <2>1, TakeStep
  <2>3. /\ \A c \in Ops(calls') : c.op = "send" => c.g \in Clicks
        /\ {c \in CallType : c.op = "cancel" /\ c.g \in Holds} \subseteq Ops(calls')
    BY <2>1, ReleaseOps
  <2>4. ASSUME NEW g \in Holds, table[g] # Absent PROVE Has(calls', "cancel", g)
    <3>. DEFINE c == [op |-> "cancel", g |-> g]
    <3>1. g \in Mask
      BY <2>4, HoldNames DEF TypeInv, TableOK
    <3>2. c \in CallType /\ c.op = "cancel" /\ c.g = g
      BY <3>1 DEF CallType
    <3>3. c \in Ops(calls')
      BY <2>3, <3>2
    <3>. QED
      BY <3>2, <3>3 DEF Has
  <2>5. \A g \in Holds : ~ Has(calls', "send", g)
    BY <2>3, HoldNames DEF Has
  <2>6. ASSUME ~ hist'.late, NEW g \in Holds PROVE Quiet(mail', g)
    <3>1. Quiet(mail, g)
      BY <1>1, <2>1, <2>6, LenProperties DEF Quiet
    <3>. QED
      BY <1>1, <2>2, <3>1, QuietOps, HoldNames
  <2>. QED
    BY <2>2, <2>4, <2>5, <2>6 DEF HoldInv
<1>9. CASE \E g \in Gestures : Deliver(g)
  <2>1. PICK g \in Gestures : Deliver(g)
    BY <1>9
  <2>2. Take(g) /\ Rest /\ (g \notin {"long", "continuous"} => calls' = <<>>)
    BY <2>1, DeliverStep
  <2>3. /\ calls = <<>> /\ mail # <<>> /\ mail' = Tail(mail) /\ table' = table
        /\ ~ Quiet(mail, g)
    BY <2>2, TakeStep, TakeHeard
  <2>4. ASSUME ~ hist'.down, ~ hist'.late, NEW h \in Holds
        PROVE  table'[h] = Absent /\ calls' = <<>> /\ Quiet(mail', h)
    <3>1. \A a \in Holds : /\ table[a] # Absent => Has(calls, "cancel", a)
                           /\ Quiet(mail, a)
      BY <2>2, <2>4 DEF HoldInv, Rest
    <3>2. table[h] = Absent
      BY <2>3, <3>1, NoCalls
    <3>3. g \notin Holds
      BY <2>3, <3>1
    <3>4. calls' = <<>>
      BY <2>2, <3>3 DEF Holds
    <3>5. Quiet(mail', h)
      BY <1>1, <2>3, <3>1, QuietOps, HoldNames
    <3>. QED
      BY <2>3, <3>2, <3>4, <3>5
  <2>. QED
    BY <2>4, NoCalls DEF HoldInv
<1>10. CASE UNCHANGED vars
  BY <1>10, HoldAlone DEF vars, service
<1>. QED
  BY <1>2, <1>3, <1>4, <1>5, <1>6, <1>7, <1>8, <1>9, <1>10 DEF Next

(* Nothing repeats or is held once the release has been handled, though     *)
(* each repetition sends the next one.                                      *)
THEOREM HoldsEnd == Spec => []HoldEnds
<1>1. Spec => [](TypeInv /\ HoldInv)
  BY InitTypes, InitHold, NextTypes, NextHold, PTL DEF Spec
<1>2. TypeInv /\ HoldInv => HoldEnds
  <2>. SUFFICES ASSUME TypeInv, HoldInv, ~ hist.down, calls = <<>>, ~ hist.late,
                       NEW g \in Holds
                PROVE  table[g] = Absent /\ \A i \in DOMAIN mail : mail[i][1] # g
    BY DEF HoldEnds
  <2>1. /\ table[g] # Absent => Has(calls, "cancel", g)
        /\ Quiet(mail, g)
    BY DEF HoldInv
  <2>2. DOMAIN mail = 1 .. Len(mail)
    BY LenProperties DEF TypeInv, MailOK
  <2>. QED
    BY <2>1, <2>2, NoCalls DEF Quiet
<1>. QED
  BY <1>1, <1>2, PTL

-------------------------------------------------------------------------------
(* Which presses the gestures are made of.  A press is spent once a click   *)
(* or a long press that ends with it has been posted.  Whatever is spent    *)
(* lies before the presses that are counted now (Base), or a pause has gone *)
(* by that will end the count; so the gesture that is due, of which there   *)
(* is only one, is made of presses that nothing has had.                    *)

Counted == Clicks \cup {"long"}

Base == hist.presses - key.count

Beyond(g, s, u) == IF g = "long" THEN s > u ELSE s - Presses(g) >= u

SpentIn(q, c, h, u) ==
  u = c \/ u = h \/ \E i \in 1 .. Len(q) : q[i][1] \in Counted /\ q[i][2] = u

InOrder(q, c, h) ==
  \A i \in 1 .. Len(q) : q[i][1] \in Counted =>
    /\ Beyond(q[i][1], q[i][2], c) /\ Beyond(q[i][1], q[i][2], h)
    /\ \A j \in 1 .. Len(q) :
         i < j /\ q[j][1] \in Counted => Beyond(q[j][1], q[j][2], q[i][2])

Spent(u) == SpentIn(mail, hist.clicked, hist.held, u)
InTable(g) == table[g] # Absent /\ ~ Has(calls, "cancel", g)
Due(g) == Has(calls, "send", g) \/ InTable(g)

SpentOK == \A u \in Nat : Spent(u) =>
             /\ u <= hist.presses
             /\ hist.down => u <= Base \/ key.press >= LongTime
             /\ ~ hist.down => u <= Base \/ key.release >= MultTime

DownOK == hist.down => /\ key.count >= 1
                       /\ key.release >= MultTime \/ key.release >= key.press

DueOK == \A g \in Counted : Due(g) =>
           /\ hist.down <=> g = "long"
           /\ g \in Clicks => key.count = Presses(g)
           /\ \A u \in Nat : Spent(u) => u <= Base

WaitOK == \A g \in Counted : InTable(g) =>
            /\ hist.stamp[g] = hist.presses
            /\ g \in Clicks => key.release + table[g] >= MultTime
            /\ g = "long" => key.press + table[g] >= LongTime

OrderOK == InOrder(mail, hist.clicked, hist.held)

GestureInv == ~ hist.raced => SpentOK /\ DownOK /\ DueOK /\ WaitOK /\ OrderOK

(* The gestures that are counted, and of how many presses they are *)
LEMMA CountedNames ==
  /\ \A g \in Counted : /\ g \in Gestures /\ g \notin KeyNames /\ g # "continuous"
                        /\ g \in Clicks <=> g # "long"
  /\ "long" \in Counted /\ "long" \notin Clicks
  /\ \A g \in Clicks : g \in Counted /\ Presses(g) \in Nat
  /\ \A g, h \in Clicks : Presses(g) = Presses(h) => g = h
<1>1. Presses("single") = 1 /\ Presses("double") = 2 /\ Presses("triple") = 3
  BY DEF Presses
<1>2. \A g \in Clicks : g = "single" \/ g = "double" \/ g = "triple"
  BY DEF Clicks
<1>3. \A g, h \in Clicks : Presses(g) = Presses(h) => g = h
  BY <1>1, <1>2
<1>4. \A g \in Clicks : g \in Counted /\ Presses(g) \in Nat
  BY <1>1, <1>2 DEF Counted
<1>. QED
  BY <1>3, <1>4 DEF Counted, Clicks, Holds, Gestures, KeyNames

(* A mail that is posted: nothing else is spent, and the order is kept if   *)
(* its gesture lies beyond everything spent.                                *)
LEMMA SpentAppend ==
  ASSUME NEW q \in Seq(MailType), NEW m \in MailType, NEW c \in Nat, NEW h \in Nat,
         InOrder(q, c, h),
         m[1] \in Counted => \A u \in Nat : SpentIn(q, c, h, u) => Beyond(m[1], m[2], u)
  PROVE  /\ InOrder(Append(q, m), c, h)
         /\ \A u \in Nat : SpentIn(Append(q, m), c, h, u) =>
              SpentIn(q, c, h, u) \/ (m[1] \in Counted /\ u = m[2])
<1>1. /\ Append(q, m) \in Seq(MailType) /\ Len(q) \in Nat
      /\ Len(Append(q, m)) = Len(q) + 1 /\ Append(q, m)[Len(q) + 1] = m
      /\ \A i \in 1 .. Len(q) : Append(q, m)[i] = q[i]
      /\ \A i \in 1 .. Len(q) + 1 : i \in 1 .. Len(q) \/ i = Len(q) + 1
  BY MailAppend
<1>2. \A i \in 1 .. Len(q) : q[i] \in MailType /\ q[i][2] \in Nat
  BY ElementOfSeq, MailParts
<1>. DEFINE a == Append(q, m)
            n == Len(q) + 1
<1>3. /\ Len(a) = n /\ a[n] = m /\ \A i \in 1 .. Len(q) : a[i] = q[i]
      /\ \A i \in 1 .. n : i \in 1 .. Len(q) \/ i = n
      /\ \A i, j \in 1 .. n : i < j => i \in 1 .. Len(q)
  BY <1>1
<1>. HIDE DEF a, n
<1>4. \A u \in Nat : SpentIn(a, c, h, u) =>
        SpentIn(q, c, h, u) \/ (m[1] \in Counted /\ u = m[2])
  BY <1>3 DEF SpentIn
<1>5. ASSUME NEW i \in 1 .. n, a[i][1] \in Counted
      PROVE  Beyond(a[i][1], a[i][2], c) /\ Beyond(a[i][1], a[i][2], h)
  <2>1. CASE i \in 1 .. Len(q)
    BY <1>3, <1>5, <2>1 DEF InOrder
  <2>2. CASE i = n
    <3>1. SpentIn(q, c, h, c) /\ SpentIn(q, c, h, h)
      BY DEF SpentIn
    <3>. QED
      BY <1>3, <1>5, <2>2, <3>1
  <2>. QED
    BY <1>3, <2>1, <2>2
<1>6. ASSUME NEW i \in 1 .. n, NEW j \in 1 .. n, i < j,
             a[i][1] \in Counted, a[j][1] \in Counted
      PROVE  Beyond(a[j][1], a[j][2], a[i][2])
  <2>1. i \in 1 .. Len(q) /\ a[i] = q[i]
    BY <1>3, <1>6
  <2>2. CASE j \in 1 .. Len(q)
    BY <1>3, <1>6, <2>1, <2>2 DEF InOrder
  <2>3. CASE j = n
    <3>1. SpentIn(q, c, h, q[i][2]) /\ q[i][2] \in Nat
      BY <1>2, <1>6, <2>1 DEF SpentIn
    <3>. QED
      BY <1>3, <1>6, <2>1, <2>3, <3>1
  <2>. QED
    BY <1>3, <2>2, <2>3
<1>7. InOrder(a, c, h)
  BY <1>3, <1>5, <1>6 DEF InOrder
<1>. QED
  BY <1>4, <1>7 DEF a

(* A mail that is taken is the last click or hold, if it is counted.        *)
LEMMA SpentTake ==
  ASSUME NEW q \in Seq(MailType), q # <<>>, NEW c, NEW h, NEW cc, NEW hh,
         InOrder(q, c, h),
         cc = c \/ (q[1][1] \in Counted /\ cc = q[1][2]),
         hh = h \/ (q[1][1] \in Counted /\ hh = q[1][2])
  PROVE  /\ InOrder(Tail(q), cc, hh)
         /\ \A u \in Nat : SpentIn(Tail(q), cc, hh, u) => SpentIn(q, c, h, u)
<1>. DEFINE t == Tail(q)
<1>1. /\ 1 \in 1 .. Len(q)
      /\ \A i \in 1 .. Len(t) : i + 1 \in 1 .. Len(q) /\ t[i] = q[i + 1] /\ 1 < i + 1
      /\ \A i, j \in 1 .. Len(t) : i < j => i + 1 < j + 1
  <2>1. /\ Len(q) \in Nat /\ 1 \in 1 .. Len(q) /\ Len(t) = Len(q) - 1
        /\ \A i \in 1 .. Len(t) : i + 1 \in 1 .. Len(q) /\ t[i] = q[i + 1]
    BY MailTail
  <2>. HIDE DEF t
  <2>. QED
    BY <2>1
<1>. HIDE DEF t
<1>2. \A u \in Nat : SpentIn(t, cc, hh, u) => SpentIn(q, c, h, u)
  BY <1>1 DEF SpentIn
<1>3. ASSUME NEW i \in 1 .. Len(t), t[i][1] \in Counted
      PROVE  Beyond(t[i][1], t[i][2], cc) /\ Beyond(t[i][1], t[i][2], hh)
  <2>1. /\ Beyond(q[i + 1][1], q[i + 1][2], c) /\ Beyond(q[i + 1][1], q[i + 1][2], h)
        /\ q[1][1] \in Counted => Beyond(q[i + 1][1], q[i + 1][2], q[1][2])
    BY <1>1, <1>3 DEF InOrder
  <2>. QED
    BY <1>1, <2>1
<1>4. ASSUME NEW i \in 1 .. Len(t), NEW j \in 1 .. Len(t), i < j,
             t[i][1] \in Counted, t[j][1] \in Counted
      PROVE  Beyond(t[j][1], t[j][2], t[i][2])
  BY <1>1, <1>4 DEF InOrder
<1>5. InOrder(t, cc, hh)
  BY <1>3, <1>4 DEF InOrder
<1>. QED
  BY <1>2, <1>5 DEF t

(* The numbers of the model, at a state of the right types *)
LEMMA Numbers ==
  ASSUME TypeInv
  PROVE  /\ hist.presses \in Nat /\ hist.clicked \in Nat /\ hist.held \in Nat
         /\ hist.down \in BOOLEAN /\ hist.raced \in BOOLEAN
         /\ key.count \in Nat /\ key.count <= hist.presses
         /\ key.press \in 0 .. LongTime /\ key.release \in 0 .. MultTime
         /\ Base \in Nat /\ Base = hist.presses - key.count /\ Base <= hist.presses
         /\ mail \in Seq(MailType) /\ calls \in Seq(CallType)
         /\ \A g \in Gestures : /\ hist.stamp[g] \in Nat
                                /\ table[g] \in Int /\ table[g] >= Absent
                                /\ table[g] # Absent => g \in Mask
<1>1. /\ hist.presses \in Nat /\ hist.clicked \in Nat /\ hist.held \in Nat
      /\ hist.down \in BOOLEAN /\ hist.raced \in BOOLEAN
      /\ \A g \in Gestures : hist.stamp[g] \in Nat
  BY DEF TypeInv, HistOK, HistType
<1>2. /\ key.count \in Nat /\ key.count <= hist.presses
      /\ key.press \in 0 .. LongTime /\ key.release \in 0 .. MultTime
  BY DEF TypeInv, KeyOK, KeyType
<1>3. Base \in Nat /\ Base = hist.presses - key.count /\ Base <= hist.presses
  BY <1>1, <1>2 DEF Base
<1>. QED
  BY <1>1, <1>2, <1>3 DEF TypeInv, MailOK, TableOK

(* Nothing is posted or due at the start. *)
LEMMA InitGesture == Init => GestureInv
<1>. SUFFICES ASSUME Init PROVE SpentOK /\ DownOK /\ DueOK /\ WaitOK /\ OrderOK
  BY DEF GestureInv
<1>1. mail = <<>> /\ Len(mail) = 0 /\ calls = <<>> /\ \A g \in Gestures : table[g] = Absent
  BY DEF Init
<1>2. hist.presses = 0 /\ hist.clicked = 0 /\ hist.held = 0 /\ hist.down = FALSE
  BY DEF Init, NoHistory
<1>3. key.count = 0
  BY DEF Init
<1>4. \A g \in Counted : ~ Due(g) /\ ~ InTable(g)
  BY <1>1, NoCalls, CountedNames DEF Due, InTable
<1>5. DueOK /\ WaitOK
  BY <1>4 DEF DueOK, WaitOK
<1>6. \A u \in Nat : Spent(u) => u = 0
  BY <1>1, <1>2 DEF Spent, SpentIn
<1>7. SpentOK
  BY <1>2, <1>3, <1>6 DEF SpentOK, Base
<1>. QED
  BY <1>1, <1>2, <1>5, <1>7 DEF DownOK, OrderOK, InOrder

(* A step that spends nothing and makes nothing due *)
LEMMA GestureAlone ==
  ASSUME GestureInv, key' = key, ~ hist'.raced => ~ hist.raced,
         hist'.down = hist.down, hist'.presses = hist.presses,
         ~ hist.raced /\ ~ hist'.raced /\ OrderOK =>
           OrderOK' /\ \A u \in Nat : Spent(u)' => Spent(u),
         \A g \in Counted : /\ Due(g)' => Due(g)
                            /\ InTable(g)' => /\ InTable(g)
                                              /\ hist'.stamp[g] = hist.stamp[g]
                                              /\ table'[g] = table[g]
  PROVE  GestureInv'
<1>. SUFFICES ASSUME ~ hist'.raced PROVE (SpentOK /\ DownOK /\ DueOK /\ WaitOK /\ OrderOK)'
  BY DEF GestureInv
<1>1. /\ SpentOK /\ DownOK /\ DueOK /\ WaitOK /\ OrderOK /\ OrderOK'
      /\ \A u \in Nat : Spent(u)' => Spent(u)
  BY DEF GestureInv
<1>2. Base' = Base
  BY DEF Base
<1>3. SpentOK'
  BY <1>1, <1>2 DEF SpentOK
<1>4. DownOK'
  BY <1>1 DEF DownOK
<1>5. DueOK'
  BY <1>1, <1>2 DEF DueOK
<1>6. WaitOK'
  BY <1>1 DEF WaitOK
<1>. QED
  BY <1>1, <1>3, <1>4, <1>5, <1>6

(* The interrupt posts at most a mail about the pin. *)
LEMMA IrqGesture ==
  ASSUME TypeInv, GestureInv, Move \/ IrqRead \/ IrqChoose \/ IrqArm
  PROVE  GestureInv'
<1>1. UNCHANGED <<calls, key, table>>
  BY DEF Move, IrqRead, IrqChoose, IrqArm, service
<1>2. /\ hist'.down = hist.down /\ hist'.raced = hist.raced
      /\ hist'.presses = hist.presses /\ hist'.stamp = hist.stamp
      /\ hist'.clicked = hist.clicked /\ hist'.held = hist.held
  BY MoveStep, ReadStep DEF Rest, Same, IrqChoose, IrqArm
<1>3. \A g \in Counted : /\ Due(g)' => Due(g)
                         /\ InTable(g)' => InTable(g)
  BY <1>1 DEF Due, InTable
<1>4. OrderOK => OrderOK' /\ \A u \in Nat : Spent(u)' => Spent(u)
  <2>1. CASE mail' = mail
    BY <1>2, <2>1 DEF OrderOK, Spent
  <2>2. CASE mail' # mail
    <3>1. IrqArm
      BY <2>2 DEF Move, IrqRead, IrqChoose
    <3>2. PICK m \in MailType : /\ m[1] = (IF isr.pressed THEN "PRESS" ELSE "RELEASE")
                                /\ mail' = Append(mail, m)
      BY <3>1, ArmStep
    <3>3. m[1] \notin Counted
      BY <3>2 DEF Counted, Clicks
    <3>4. mail \in Seq(MailType) /\ hist.clicked \in Nat /\ hist.held \in Nat
      BY Numbers
    <3>. QED
      BY <1>2, <3>2, <3>3, <3>4, SpentAppend DEF OrderOK, Spent
  <2>. QED
    BY <2>1, <2>2
<1>. QED
  BY <1>1, <1>2, <1>3, <1>4, GestureAlone

(* A call that cancels makes nothing due, and one that sends was due. *)
LEMMA CallGesture ==
  ASSUME TypeInv, GestureInv, Call
  PROVE  GestureInv'
<1>1. PICK c \in CallType :
           /\ Ops(calls) = {c} \cup Ops(calls')
           /\ \A h \in Gestures : h # c.g => table'[h] = table[h]
           /\ hist' \in HistType /\ Rest
           /\ hist'.presses = hist.presses
           /\ hist'.clicked = hist.clicked /\ hist'.held = hist.held
           /\ \/ c.op = "cancel" /\ table'[c.g] = Absent /\ hist'.stamp = hist.stamp
              \/ /\ c.op = "send" /\ table'[c.g] = Delay(c.g)
                 /\ hist'.stamp = [hist.stamp EXCEPT ![c.g] = hist.presses]
  BY CallStep
<1>2. UNCHANGED <<mail, key>>
  BY DEF Call
<1>3. c.g \in Gestures /\ hist.stamp \in [Gestures -> Nat]
  BY KeyAssumption DEF CallType, TypeInv, HistOK, HistType
<1>4. ASSUME NEW g \in Counted PROVE Due(g)' => Due(g)
  <2>1. Has(calls, "send", g)' => Has(calls, "send", g)
    BY <1>1 DEF Has
  <2>2. CASE c.g # g
    <3>1. table'[g] = table[g]
      BY <1>1, <2>2, CountedNames
    <3>2. Has(calls, "cancel", g) => Has(calls, "cancel", g)'
      BY <1>1, <2>2 DEF Has
    <3>. QED
      BY <2>1, <3>1, <3>2 DEF Due, InTable
  <2>3. CASE c.g = g /\ c.op = "cancel"
    BY <1>1, <2>1, <2>3 DEF Due, InTable
  <2>4. CASE c.g = g /\ c.op = "send"
    BY <1>1, <2>4 DEF Due, Has
  <2>. QED
    BY <1>1, <2>2, <2>3, <2>4
<1>5. ASSUME NEW g \in Counted, c.g # g \/ c.op = "cancel", InTable(g)'
      PROVE  InTable(g) /\ hist'.stamp[g] = hist.stamp[g] /\ table'[g] = table[g]
  <2>1. table'[g] # Absent /\ ~ Has(calls', "cancel", g)
    BY <1>5 DEF InTable
  <2>2. c.g # g
    BY <1>1, <1>5, <2>1
  <2>3. table'[g] = table[g] /\ g \in Gestures
    BY <1>1, <2>2, CountedNames
  <2>4. ~ Has(calls, "cancel", g)
    BY <1>1, <2>1, <2>2 DEF Has
  <2>5. hist'.stamp[g] = hist.stamp[g]
    BY <1>1, <1>3, <2>2, <2>3
  <2>. QED
    BY <2>1, <2>3, <2>4, <2>5 DEF InTable
<1>6. /\ \A u \in Nat : Spent(u)' => Spent(u)
      /\ OrderOK => OrderOK'
  BY <1>1, <1>2 DEF Spent, OrderOK
<1>7. hist'.down = hist.down /\ hist'.raced = hist.raced
  BY <1>1 DEF Rest
<1>8. CASE c.op = "cancel"
  BY <1>1, <1>2, <1>4, <1>5, <1>6, <1>7, <1>8, GestureAlone
<1>9. CASE c.op = "send"
  <2>. SUFFICES ASSUME ~ hist'.raced
                PROVE  (SpentOK /\ DownOK /\ DueOK /\ WaitOK /\ OrderOK)'
    BY DEF GestureInv
  <2>1. SpentOK /\ DownOK /\ DueOK /\ WaitOK /\ OrderOK
    BY <1>7 DEF GestureInv
  <2>2. Base' = Base
    BY <1>1, <1>2 DEF Base
  <2>3. SpentOK'
    BY <1>1, <1>2, <1>6, <1>7, <2>1, <2>2 DEF SpentOK
  <2>4. DownOK'
    BY <1>2, <1>7, <2>1 DEF DownOK
  <2>5. DueOK'
    BY <1>2, <1>4, <1>6, <1>7, <2>1, <2>2 DEF DueOK
  <2>6. ASSUME NEW g \in Counted, InTable(g)'
        PROVE  /\ hist'.stamp[g] = hist'.presses
               /\ g \in Clicks => key'.release + table'[g] >= MultTime
               /\ g = "long" => key'.press + table'[g] >= LongTime
    <3>1. CASE c.g # g
      BY <1>1, <1>2, <1>5, <2>1, <2>6, <3>1 DEF WaitOK
    <3>2. CASE c.g = g
      <4>1. hist'.stamp[g] = hist.presses /\ table'[g] = Delay(g)
        BY <1>1, <1>3, <1>9, <3>2
      <4>2. /\ g \in Clicks => table'[g] = MultTime
            /\ g = "long" => table'[g] = LongTime
        BY <4>1, Times
      <4>3. key.release >= 0 /\ key.press >= 0 /\ key.release \in Int /\ key.press \in Int
        BY Numbers, Times
      <4>4. MultTime \in Nat /\ LongTime \in Nat
        BY Times
      <4>5. g \in Clicks => key'.release + table'[g] >= MultTime
        BY <1>2, <4>2, <4>3, <4>4
      <4>6. g = "long" => key'.press + table'[g] >= LongTime
        BY <1>2, <4>2, <4>3, <4>4
      <4>. QED
        BY <1>1, <4>1, <4>5, <4>6
    <3>. QED
      BY <3>1, <3>2
  <2>7. WaitOK'
    BY <2>6 DEF WaitOK
  <2>. QED
    BY <1>6, <2>1, <2>3, <2>4, <2>5, <2>7
<1>. QED
  BY <1>1, <1>8, <1>9

(* The timer posts the one gesture that is due: it spends the presses       *)
(* counted so far, and a pause has gone by.                                 *)
LEMMA TimerGesture ==
  ASSUME TypeInv, GestureInv, TimerRun
  PROVE  GestureInv'
<1>1. calls' = calls /\ key' = key
  BY DEF TimerRun
<1>2. CASE UNCHANGED <<mail, table, timer, hist>>
  BY <1>1, <1>2, GestureAlone DEF Due, InTable, Spent, OrderOK
<1>3. CASE ~ UNCHANGED <<mail, table, timer, hist>>
  <2>1. PICK g \in Gestures :
          /\ table[g] # Absent /\ table'[g] = Absent
          /\ mail' = Append(mail, <<g, hist.stamp[g]>>)
          /\ <<g, hist.stamp[g]>> \in MailType
          /\ \A h \in Gestures : table'[h] \in {Absent, table[h]}
          /\ hist' \in HistType /\ Same(hist) /\ hist'.down = hist.down
          /\ ~ hist'.raced => /\ ~ hist.raced /\ table[g] = 0
                              /\ g # "continuous" => calls = <<>>
    BY <1>3, TimerStep
  <2>. DEFINE m == <<g, hist.stamp[g]>>
              c == hist.clicked
              h == hist.held
  <2>2. m \in MailType /\ mail' = Append(mail, m) /\ m[1] = g /\ m[2] = hist.stamp[g]
    BY <2>1
  <2>3. /\ mail \in Seq(MailType) /\ c \in Nat /\ h \in Nat /\ hist.presses \in Nat
        /\ key.count \in Nat /\ Base \in Nat /\ Base = hist.presses - key.count
        /\ key.press \in 0 .. LongTime /\ key.release \in 0 .. MultTime
        /\ hist.down \in BOOLEAN
    BY Numbers
  <2>4. /\ hist'.presses = hist.presses /\ hist'.stamp = hist.stamp
        /\ hist'.clicked = c /\ hist'.held = h
    BY <2>1 DEF Same
  <2>5. \A a \in Counted : /\ Due(a)' => Due(a)
                           /\ InTable(a)' => InTable(a) /\ table'[a] = table[a] /\ a # g
    BY <1>1, <2>1, CountedNames DEF Due, InTable
  <2>. HIDE DEF m, c, h
  <2>6. CASE g \notin Counted
    <3>1. OrderOK => OrderOK' /\ \A u \in Nat : Spent(u)' => Spent(u)
      BY <2>2, <2>3, <2>4, <2>6, SpentAppend DEF OrderOK, Spent, c, h
    <3>. QED
      BY <1>1, <2>1, <2>4, <2>5, <3>1, GestureAlone
  <2>7. CASE g \in Counted
    <3>. SUFFICES ASSUME ~ hist'.raced
                  PROVE  (SpentOK /\ DownOK /\ DueOK /\ WaitOK /\ OrderOK)'
      BY DEF GestureInv
    <3>1. ~ hist.raced /\ table[g] = 0 /\ calls = <<>>
      BY <2>1, <2>7, CountedNames
    <3>2. SpentOK /\ DownOK /\ DueOK /\ WaitOK /\ OrderOK
      BY <3>1 DEF GestureInv
    <3>3. InTable(g) /\ Due(g)
      BY <2>1, <3>1, NoCalls DEF InTable, Due
    <3>4. /\ hist.stamp[g] = hist.presses
          /\ g \in Clicks => key.release + table[g] >= MultTime
          /\ g = "long" => key.press + table[g] >= LongTime
      BY <2>7, <3>2, <3>3 DEF WaitOK
    <3>5. /\ hist.down <=> g = "long"
          /\ g \in Clicks => key.count = Presses(g)
          /\ \A u \in Nat : Spent(u) => u <= Base
      BY <2>7, <3>2, <3>3 DEF DueOK
    <3>6. \A a \in Counted : ~ Due(a)'
      <4>1. ASSUME NEW a \in Counted, Due(a)' PROVE FALSE
        <5>1. ~ Has(calls', "send", a)
          BY <1>1, <3>1, NoCalls
        <5>2. InTable(a)'
          BY <4>1, <5>1 DEF Due
        <5>3. Due(a) /\ a # g
          BY <2>5, <4>1, <5>2
        <5>4. /\ hist.down <=> a = "long"
              /\ a \in Clicks => key.count = Presses(a)
          BY <3>2, <5>3 DEF DueOK
        <5>5. (a = "long") <=> (g = "long")
          BY <3>5, <5>4
        <5>. QED
          BY <2>7, <3>5, <5>3, <5>4, <5>5, CountedNames
      <4>. QED
        BY <4>1
    <3>7. ASSUME NEW u \in Nat, Spent(u) PROVE Beyond(g, hist.presses, u)
      <4>1. u <= Base
        BY <3>5, <3>7
      <4>2. CASE g = "long"
        <5>1. key.count >= 1
          BY <3>2, <3>5, <4>2 DEF DownOK
        <5>2. hist.presses > u
          BY <2>3, <4>1, <5>1
        <5>. QED
          BY <4>2, <5>2 DEF Beyond
      <4>3. CASE g # "long"
        <5>1. Presses(g) = key.count
          BY <2>7, <3>5, <4>3, CountedNames
        <5>2. hist.presses - Presses(g) >= u
          BY <2>3, <4>1, <5>1
        <5>. QED
          BY <4>3, <5>2 DEF Beyond
      <4>. QED
        BY <4>2, <4>3
    <3>8. /\ OrderOK'
          /\ \A u \in Nat : Spent(u)' => Spent(u) \/ u = hist.presses
      <4>1. InOrder(mail, c, h)
        BY <3>2 DEF OrderOK, c, h
      <4>2. \A u \in Nat : SpentIn(mail, c, h, u) => Beyond(m[1], m[2], u)
        BY <2>2, <3>4, <3>7 DEF Spent, c, h
      <4>3. /\ InOrder(Append(mail, m), c, h)
            /\ \A u \in Nat : SpentIn(Append(mail, m), c, h, u) =>
                 SpentIn(mail, c, h, u) \/ u = m[2]
        BY <2>2, <2>3, <4>1, <4>2, SpentAppend
      <4>. QED
        BY <2>2, <2>4, <3>4, <4>3 DEF OrderOK, Spent, c, h
    <3>9. /\ hist.down => key.press >= LongTime
          /\ ~ hist.down => key.release >= MultTime
      <4>1. \A n \in Int : n + 0 = n
        OBVIOUS
      <4>2. key.press + 0 = key.press /\ key.release + 0 = key.release
        BY <2>3, <4>1, Times
      <4>. QED
        BY <2>7, <3>1, <3>4, <3>5, <4>2, CountedNames
    <3>10. SpentOK'
      <4>1. \A u \in Nat : Spent(u)' => u <= hist.presses
        BY <2>3, <3>2, <3>8 DEF SpentOK
      <4>. QED
        BY <1>1, <2>1, <2>4, <3>9, <4>1 DEF SpentOK
    <3>11. DownOK'
      BY <1>1, <2>1, <3>2 DEF DownOK
    <3>12. DueOK' /\ WaitOK'
      BY <3>6 DEF DueOK, WaitOK, Due
    <3>. QED
      BY <3>8, <3>10, <3>11, <3>12
  <2>. QED
    BY <2>6, <2>7
<1>. QED
  BY <1>2, <1>3

(* A tick brings the pauses as far forward as the gestures. *)
LEMMA TickGesture ==
  ASSUME TypeInv, GestureInv, Tick
  PROVE  GestureInv'
<1>1. /\ \A g \in Gestures :
           table'[g] = IF table[g] > 0 THEN table[g] - 1 ELSE table[g]
      /\ key'.count = key.count
      /\ key'.press = Saturated(key.press, LongTime)
      /\ key'.release = Saturated(key.release, MultTime)
  BY TickStep
<1>2. UNCHANGED <<mail, calls, hist>>
  BY DEF Tick
<1>. SUFFICES ASSUME ~ hist.raced
              PROVE  (SpentOK /\ DownOK /\ DueOK /\ WaitOK /\ OrderOK)'
  BY <1>2 DEF GestureInv
<1>3. SpentOK /\ DownOK /\ DueOK /\ WaitOK /\ OrderOK
  BY DEF GestureInv
<1>. DEFINE p == key.press
            r == key.release
            pp == key'.press
            rr == key'.release
<1>4. /\ p \in 0 .. LongTime /\ r \in 0 .. MultTime
      /\ LongTime \in Nat /\ MultTime \in Nat
      /\ pp = (IF p < LongTime THEN p + 1 ELSE LongTime)
      /\ rr = (IF r < MultTime THEN r + 1 ELSE MultTime)
  BY <1>1, Numbers, Times DEF Saturated
<1>. HIDE DEF p, r, pp, rr
<1>5. /\ p >= LongTime => pp >= LongTime
      /\ r >= MultTime => rr >= MultTime
      /\ r >= p => rr >= MultTime \/ rr >= pp
      /\ \A n \in Nat : p + n >= LongTime => pp + (n - 1) >= LongTime \/ n = 0
      /\ \A n \in Nat : r + n >= MultTime => rr + (n - 1) >= MultTime \/ n = 0
      /\ p + 0 >= LongTime => pp + 0 >= LongTime
      /\ r + 0 >= MultTime => rr + 0 >= MultTime
  BY <1>4
<1>6. Base' = Base /\ \A u \in Nat : Spent(u)' <=> Spent(u)
  BY <1>1, <1>2 DEF Base, Spent
<1>7. SpentOK'
  BY <1>2, <1>3, <1>5, <1>6 DEF SpentOK, p, r, pp, rr
<1>8. DownOK'
  BY <1>1, <1>2, <1>3, <1>5 DEF DownOK, p, r, pp, rr
<1>9. \A g \in Counted : /\ table[g] \in Int /\ table[g] >= Absent
                         /\ table'[g] = IF table[g] > 0 THEN table[g] - 1 ELSE table[g]
  BY <1>1, Numbers, CountedNames
<1>10. \A g \in Counted : (table'[g] # Absent) <=> (table[g] # Absent)
  BY <1>9, Small
<1>11. \A g \in Counted : (Due(g)' <=> Due(g)) /\ (InTable(g)' <=> InTable(g))
  BY <1>2, <1>10 DEF Due, InTable
<1>12. DueOK'
  BY <1>1, <1>2, <1>3, <1>6, <1>11 DEF DueOK
<1>13. ASSUME NEW g \in Counted, InTable(g)
       PROVE  /\ p + table[g] >= LongTime => pp + table'[g] >= LongTime
              /\ r + table[g] >= MultTime => rr + table'[g] >= MultTime
  <2>. DEFINE t == table[g]
              tt == table'[g]
  <2>1. t \in Nat /\ tt = IF t > 0 THEN t - 1 ELSE t
    BY <1>9, <1>13, Small DEF InTable
  <2>. HIDE DEF t, tt
  <2>2. CASE t = 0
    BY <1>5, <2>1, <2>2 DEF t, tt
  <2>3. CASE t > 0
    BY <1>5, <2>1, <2>3 DEF t, tt
  <2>. QED
    BY <2>1, <2>2, <2>3
<1>14. WaitOK'
  BY <1>2, <1>3, <1>11, <1>13 DEF WaitOK, p, r, pp, rr
<1>15. OrderOK'
  BY <1>2, <1>3 DEF OrderOK
<1>. QED
  BY <1>7, <1>8, <1>12, <1>14, <1>15

(* A handler spends nothing, and leaves the entries of the table. *)
LEMMA TakeGesture ==
  ASSUME TypeInv, NEW what, Take(what), OrderOK,
         \/ hist'.clicked = hist.clicked
         \/ what \in Counted /\ hist'.clicked = mail[1][2],
         \/ hist'.held = hist.held
         \/ what \in Counted /\ hist'.held = mail[1][2]
  PROVE  OrderOK' /\ \A u \in Nat : Spent(u)' => Spent(u)
<1>1. mail \in Seq(MailType) /\ mail # <<>> /\ mail[1][1] = what /\ mail' = Tail(mail)
  BY TakeStep
<1>. QED
  BY <1>1, SpentTake DEF OrderOK, Spent

(* A press takes all that waits back; it joins the presses before it only   *)
(* if neither a click nor a long press of them can have been posted.        *)
LEMMA PressGesture ==
  ASSUME TypeInv, GestureInv, Press
  PROVE  GestureInv'
<1>1. /\ Take("PRESS") /\ key'.press = 0 /\ key'.release = key.release
      /\ key'.count = (IF key.release >= MultTime THEN 1 ELSE key.count + 1)
      /\ calls' = PressCalls
      /\ hist'.down = TRUE /\ hist'.raced = hist.raced
      /\ hist'.presses = hist.presses + 1
      /\ hist'.clicked = hist.clicked /\ hist'.held = hist.held
  BY PressStep
<1>2. table' = table
  BY <1>1, TakeStep
<1>. SUFFICES ASSUME ~ hist.raced
              PROVE  (SpentOK /\ DownOK /\ DueOK /\ WaitOK /\ OrderOK)'
  BY <1>1 DEF GestureInv
<1>3. SpentOK /\ DownOK /\ DueOK /\ WaitOK /\ OrderOK
  BY DEF GestureInv
<1>4. OrderOK' /\ \A u \in Nat : Spent(u)' => Spent(u)
  BY <1>1, <1>3, TakeGesture
<1>. DEFINE n == hist.presses
            k == key.count
            kk == key'.count
            p == key.press
            r == key.release
<1>5. /\ n \in Nat /\ k \in Nat /\ Base = n - k
      /\ p \in 0 .. LongTime /\ r \in 0 .. MultTime
      /\ LongTime \in Nat /\ MultTime \in Nat /\ MultTime <= LongTime
      /\ kk = (IF r >= MultTime THEN 1 ELSE k + 1)
      /\ hist.down \in BOOLEAN
  BY <1>1, Numbers, Times, PressAssumption
<1>6. Base' = (n + 1) - kk
  BY <1>1 DEF Base
<1>7. ASSUME NEW u \in Nat, Spent(u) PROVE u <= n /\ u <= Base'
  <2>1. /\ u <= n
        /\ hist.down => u <= Base \/ p >= LongTime
        /\ ~ hist.down => u <= Base \/ r >= MultTime
        /\ hist.down => r >= MultTime \/ r >= p
    BY <1>3, <1>7 DEF SpentOK, DownOK
  <2>. HIDE DEF n, k, kk, p, r
  <2>2. CASE r >= MultTime
    BY <1>5, <1>6, <2>1, <2>2
  <2>3. CASE r < MultTime
    <3>1. ~ (r >= MultTime)
      BY <1>5, <2>3
    <3>2. ASSUME hist.down PROVE ~ (p >= LongTime)
      <4>1. r >= p
        BY <2>1, <3>1, <3>2
      <4>. QED
        BY <1>5, <2>3, <4>1
    <3>3. u <= Base
      BY <2>1, <3>1, <3>2
    <3>. QED
      BY <1>5, <1>6, <2>1, <3>1, <3>3
  <2>. QED
    BY <1>5, <2>2, <2>3
<1>8. SpentOK'
  <2>1. \A u \in Nat : u <= n => u <= n + 1
    BY <1>5
  <2>. QED
    BY <1>1, <1>4, <1>7, <2>1 DEF SpentOK
<1>9. DownOK'
  <2>1. kk >= 1
    BY <1>5
  <2>2. key'.release >= key'.press
    BY <1>1, <1>5
  <2>. QED
    BY <2>1, <2>2 DEF DownOK
<1>10. ASSUME NEW g \in Counted PROVE ~ InTable(g)' /\ (Due(g)' => g = "long")
  <2>1. /\ Ops(calls') = {c \in CallType :
              \/ c.op = "cancel" /\ c.g \in Clicks \cup {"long", "longlong"}
              \/ c.op = "send" /\ c.g \in {"long", "longlong"}}
    BY <1>1, PressOps
  <2>2. Has(calls', "send", g) => g = "long"
    BY <2>1, CountedNames DEF Has, Counted, Clicks
  <2>3. ASSUME table[g] # Absent PROVE Has(calls', "cancel", g)
    <3>. DEFINE c == [op |-> "cancel", g |-> g]
    <3>1. g \in Mask
      BY <2>3, Numbers, CountedNames
    <3>2. c \in CallType /\ c.op = "cancel" /\ c.g = g
      BY <3>1 DEF CallType
    <3>3. g \in Clicks \cup {"long", "longlong"}
      BY DEF Counted
    <3>. HIDE DEF c
    <3>4. c \in Ops(calls')
      BY <2>1, <3>2, <3>3
    <3>. QED
      BY <3>2, <3>4 DEF Has
  <2>. QED
    BY <1>2, <2>2, <2>3 DEF InTable, Due
<1>11. DueOK'
  BY <1>1, <1>4, <1>7, <1>10, CountedNames DEF DueOK
<1>12. WaitOK'
  BY <1>10 DEF WaitOK
<1>. QED
  BY <1>4, <1>8, <1>9, <1>11, <1>12

(* A release takes the holds back and sends the click of the presses that   *)
(* are counted, of none after a long press.                                 *)
LEMMA ReleaseGesture ==
  ASSUME TypeInv, GestureInv, Release
  PROVE  GestureInv'
<1>1. /\ Take("RELEASE") /\ key'.press = key.press /\ key'.release = 0
      /\ key'.count = (IF key.press >= LongTime THEN 0 ELSE key.count)
      /\ key'.count \in Nat /\ calls' = ReleaseCalls(key'.count)
      /\ Same(hist) /\ hist'.down = FALSE
      /\ ~ hist'.raced => ~ hist.raced /\ hist.down
  BY ReleaseStep
<1>2. table' = table /\ calls = <<>>
  BY <1>1, TakeStep
<1>. SUFFICES ASSUME ~ hist'.raced
              PROVE  (SpentOK /\ DownOK /\ DueOK /\ WaitOK /\ OrderOK)'
  BY DEF GestureInv
<1>3. ~ hist.raced /\ hist.down
  BY <1>1
<1>4. SpentOK /\ DownOK /\ DueOK /\ WaitOK /\ OrderOK
  BY <1>3 DEF GestureInv
<1>5. OrderOK' /\ \A u \in Nat : Spent(u)' => Spent(u)
  BY <1>1, <1>4, TakeGesture DEF Same
<1>6. Base' = hist.presses - key'.count
  BY <1>1 DEF Base, Same
<1>7. ASSUME NEW u \in Nat, Spent(u) PROVE u <= hist.presses /\ u <= Base'
  <2>1. u <= hist.presses /\ (u <= Base \/ key.press >= LongTime)
    BY <1>3, <1>4, <1>7 DEF SpentOK
  <2>2. hist.presses \in Nat /\ key.count \in Nat /\ Base = hist.presses - key.count
    BY Numbers
  <2>3. CASE key.press >= LongTime
    <3>1. Base' = hist.presses - 0
      BY <1>1, <1>6, <2>3
    <3>. QED
      BY <2>1, <2>2, <3>1
  <2>4. CASE ~ (key.press >= LongTime)
    BY <1>1, <1>6, <2>1, <2>2, <2>4
  <2>. QED
    BY <2>3, <2>4
<1>8. SpentOK'
  BY <1>1, <1>5, <1>7 DEF SpentOK, Same
<1>9. DownOK'
  BY <1>1 DEF DownOK
<1>10. /\ \A c \in Ops(calls') : c.op = "send" => c.g \in Clicks /\ Presses(c.g) = key'.count
       /\ {c \in CallType : c.op = "cancel" /\ c.g \in Holds} \subseteq Ops(calls')
  BY <1>1, ReleaseOps
<1>11. ASSUME NEW g \in Counted, InTable(g)' PROVE FALSE
  <2>1. table[g] # Absent /\ ~ Has(calls', "cancel", g)
    BY <1>2, <1>11 DEF InTable
  <2>2. Due(g)
    BY <1>2, <2>1, NoCalls DEF Due, InTable
  <2>3. g = "long"
    BY <1>3, <1>4, <2>2 DEF DueOK
  <2>. DEFINE c == [op |-> "cancel", g |-> g]
  <2>4. g \in Mask /\ g \in Holds
    BY <2>1, <2>3, Numbers, CountedNames, HoldNames
  <2>5. c \in CallType /\ c.op = "cancel" /\ c.g = g
    BY <2>4 DEF CallType
  <2>. HIDE DEF c
  <2>6. c \in Ops(calls')
    BY <1>10, <2>4, <2>5
  <2>. QED
    BY <2>1, <2>5, <2>6 DEF Has
<1>12. ASSUME NEW g \in Counted, Due(g)'
       PROVE  g # "long" /\ Presses(g) = key'.count
  <2>1. Has(calls', "send", g)
    BY <1>11, <1>12 DEF Due
  <2>. QED
    BY <1>10, <2>1, CountedNames DEF Has
<1>13. DueOK'
  BY <1>1, <1>5, <1>7, <1>12 DEF DueOK
<1>14. WaitOK'
  BY <1>11 DEF WaitOK
<1>. QED
  BY <1>5, <1>8, <1>9, <1>13, <1>14

(* A gesture that is delivered was spent when it was posted. *)
LEMMA DeliverGesture ==
  ASSUME TypeInv, GestureInv, NEW g \in Gestures, Deliver(g)
  PROVE  GestureInv'
<1>1. /\ Take(g) /\ key' = key
      /\ \A c \in Ops(calls') : c.g = "continuous"
      /\ Rest /\ hist'.presses = hist.presses /\ hist'.stamp = hist.stamp
      /\ hist'.clicked = (IF g \in Clicks THEN mail[1][2] ELSE hist.clicked)
      /\ hist'.held = (IF g = "long" THEN mail[1][2] ELSE hist.held)
  BY DeliverStep
<1>2. table' = table /\ calls = <<>>
  BY <1>1, TakeStep
<1>3. OrderOK => OrderOK' /\ \A u \in Nat : Spent(u)' => Spent(u)
  <2>1. /\ hist'.clicked = hist.clicked \/ (g \in Counted /\ hist'.clicked = mail[1][2])
        /\ hist'.held = hist.held \/ (g \in Counted /\ hist'.held = mail[1][2])
    BY <1>1, CountedNames
  <2>. QED
    BY <1>1, <2>1, TakeGesture
<1>4. ASSUME NEW a \in Counted PROVE (InTable(a)' => InTable(a)) /\ (Due(a)' => Due(a))
  <2>1. ~ Has(calls', "send", a)
    BY <1>1, CountedNames DEF Has
  <2>2. ~ Has(calls, "cancel", a)
    BY <1>2, NoCalls
  <2>. QED
    BY <1>2, <2>1, <2>2 DEF InTable, Due
<1>. QED
  BY <1>1, <1>2, <1>3, <1>4, GestureAlone DEF Rest

(* Every step keeps account of the presses. *)
LEMMA NextGesture == TypeInv /\ GestureInv /\ [Next]_vars => GestureInv'
<1>. SUFFICES ASSUME TypeInv, GestureInv, [Next]_vars PROVE GestureInv'
  OBVIOUS
<1>1. CASE UNCHANGED vars
  BY <1>1, GestureAlone DEF vars, service, Due, InTable, Spent, OrderOK
<1>. QED
  BY <1>1, IrqGesture, CallGesture, TimerGesture, TickGesture, PressGesture,
     ReleaseGesture, DeliverGesture DEF Next

(* No press counts twice, for every registered set of gestures, every       *)
(* length of the pauses and however long the mailbox gets.                  *)
THEOREM PressesCountOnce == Spec => OnePressOneGesture
<1>1. Spec => [](TypeInv /\ GestureInv)
  BY InitTypes, InitGesture, NextTypes, NextGesture, PTL DEF Spec
<1>. DEFINE Fresh == \A g \in Gestures : Deliver(g) /\ ~ hist.raced =>
              LET s == Head(mail)[2]
              IN /\ g \in Clicks => s - Presses(g) >= hist.clicked /\ s - Presses(g) >= hist.held
                 /\ g = "long" => s > hist.clicked /\ s > hist.held
<1>2. TypeInv /\ GestureInv => Fresh
  <2>. SUFFICES ASSUME TypeInv, GestureInv, NEW g \in Gestures, Deliver(g), ~ hist.raced
                PROVE  LET s == Head(mail)[2]
                       IN /\ g \in Clicks => s - Presses(g) >= hist.clicked /\ s - Presses(g) >= hist.held
                          /\ g = "long" => s > hist.clicked /\ s > hist.held
    OBVIOUS
  <2>1. Take(g)
    BY DEF Deliver
  <2>2. Head(mail) = mail[1] /\ mail[1][1] = g /\ 1 \in 1 .. Len(mail)
    BY <2>1, TakeStep
  <2>3. g \in Counted => Beyond(g, mail[1][2], hist.clicked) /\ Beyond(g, mail[1][2], hist.held)
    BY <2>2 DEF GestureInv, OrderOK, InOrder
  <2>. QED
    BY <2>2, <2>3, CountedNames DEF Beyond
<1>3. OnePressOneGesture <=> [][Fresh]_vars
  BY DEF OnePressOneGesture
<1>. HIDE DEF Fresh
<1>. QED
  BY <1>1, <1>2, <1>3, PTL DEF Spec
===============================================================================
