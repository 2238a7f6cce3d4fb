------------------------- MODULE HwtimerList_proofs -------------------------
(***************************************************************************)
(* Proofs about HwtimerList for every number of timers, with or without    *)
(* callbacks, and for every number and length of starts.                   *)
(*                                                                         *)
(* That a timer stays in the list its state names, and that the module     *)
(* implements OneShotTimers, needs nothing of the ticks: wherever the      *)
(* differences put a timer into the list and however many expire at once,  *)
(* it is one place of the list and a first part of it.                     *)
(*                                                                         *)
(* That the timers expire on time, and that no assertion on the hardware   *)
(* fails, does: the second part is about the sums of the differences,      *)
(* what every change of the list does to them, and what the hardware's     *)
(* counters say of the head.                                               *)
(***************************************************************************)
EXTENDS HwtimerList, SequenceTheorems, WellFoundedInduction, TLAPS

(* s holds the members of S, each once. *)
Listed(s, S) ==
  /\ s \in Seq(Timers)
  /\ \A i, j \in 1 .. Len(s) : s[i] = s[j] => i = j
  /\ \A t \in Timers : t \in S <=> \E i \in 1 .. Len(s) : s[i] = t

(* Taking the head off a list. *)
LEMMA TailListed ==
  ASSUME NEW s, NEW S, Listed(s, S), s # <<>>
  PROVE  Head(s) \in S /\ Head(s) \in Timers /\ Listed(Tail(s), S \ {Head(s)})
<1>. DEFINE h == Head(s)  r == Tail(s)
<1>1. s \in Seq(Timers) /\ Len(s) \in Nat \ {0}
  BY EmptySeq DEF Listed
<1>2. /\ h \in Timers /\ h = s[1]
      /\ r \in Seq(Timers) /\ Len(r) = Len(s) - 1
      /\ \A i \in 1 .. Len(r) : r[i] = s[i + 1]
  BY <1>1, HeadTailProperties
<1>3. h \in S
  BY <1>1, <1>2 DEF Listed
<1>4. \A i, j \in 1 .. Len(r) : r[i] = r[j] => i = j
  BY <1>1, <1>2 DEF Listed
<1>5. ASSUME NEW t \in Timers
      PROVE  t \in S \ {h} <=> \E i \in 1 .. Len(r) : r[i] = t
  <2>1. ASSUME t \in S \ {h} PROVE \E i \in 1 .. Len(r) : r[i] = t
    <3>1. PICK i \in 1 .. Len(s) : s[i] = t
      BY <2>1 DEF Listed
    <3>2. i # 1 /\ i - 1 \in 1 .. Len(r)
      BY <3>1, <2>1, <1>1, <1>2
    <3>. QED
      BY <3>1, <3>2, <1>2
  <2>2. ASSUME NEW i \in 1 .. Len(r), r[i] = t PROVE t \in S \ {h}
    <3>1. i + 1 \in 1 .. Len(s) /\ 1 \in 1 .. Len(s) /\ s[i + 1] = t /\ i + 1 # 1
      BY <2>2, <1>1, <1>2
    <3>. QED
      BY <3>1, <1>2 DEF Listed
  <2>. QED
    BY <2>1, <2>2
<1>. QED
  BY <1>2, <1>3, <1>4, <1>5 DEF Listed

(* One timer by itself. *)
LEMMA SingleListed == ASSUME NEW t \in Timers PROVE Listed(<<t>>, {t})
BY DEF Listed

(* Two lists with nothing in common, one behind the other. *)
LEMMA JoinListed ==
  ASSUME NEW s, NEW S, Listed(s, S), NEW r, NEW R, Listed(r, R), S \cap R = {}
  PROVE  Listed(s \o r, S \cup R)
<1>. DEFINE q == s \o r  m == Len(s)
<1>1. /\ s \in Seq(Timers) /\ m \in Nat /\ r \in Seq(Timers) /\ Len(r) \in Nat
      /\ q \in Seq(Timers) /\ Len(q) = m + Len(r)
      /\ \A i \in 1 .. Len(q) : q[i] = IF i <= m THEN s[i] ELSE r[i - m]
  BY ConcatProperties, LenProperties DEF Listed
<1>2. /\ \A i \in 1 .. m : s[i] \in S
      /\ \A i \in 1 .. Len(r) : r[i] \in R
  BY <1>1, ElementOfSeq DEF Listed
<1>3. ASSUME NEW i \in 1 .. Len(q)
      PROVE  \/ i \in 1 .. m /\ q[i] = s[i] /\ q[i] \in S
             \/ i > m /\ i - m \in 1 .. Len(r) /\ q[i] = r[i - m] /\ q[i] \in R
  BY <1>1, <1>2
<1>4. ASSUME NEW i \in 1 .. Len(q), NEW j \in 1 .. Len(q), q[i] = q[j] PROVE i = j
  <2>1. CASE i \in 1 .. m /\ j \in 1 .. m
    BY <2>1, <1>1, <1>4 DEF Listed
  <2>2. CASE i > m /\ j > m
    <3>1. i - m \in 1 .. Len(r) /\ j - m \in 1 .. Len(r) /\ r[i - m] = r[j - m]
      BY <2>2, <1>1, <1>4
    <3>2. i - m = j - m
      BY <3>1 DEF Listed
    <3>. QED
      BY <3>2, <1>1
  <2>. QED
    BY <2>1, <2>2, <1>1, <1>3, <1>4
<1>5. ASSUME NEW t \in Timers
      PROVE  t \in S \cup R <=> \E i \in 1 .. Len(q) : q[i] = t
  <2>1. ASSUME t \in S PROVE \E i \in 1 .. Len(q) : q[i] = t
    <3>1. PICK i \in 1 .. m : s[i] = t
      BY <2>1 DEF Listed
    <3>. QED
      BY <3>1, <1>1
  <2>2. ASSUME t \in R PROVE \E i \in 1 .. Len(q) : q[i] = t
    <3>1. PICK i \in 1 .. Len(r) : r[i] = t
      BY <2>2 DEF Listed
    <3>2. m + i \in 1 .. Len(q) /\ q[m + i] = t
      BY <3>1, <1>1
    <3>. QED
      BY <3>2
  <2>. QED
    BY <2>1, <2>2, <1>3
<1>. QED
  BY <1>1, <1>4, <1>5 DEF Listed

(* The first n of a list *)
First(s, n) == {s[i] : i \in 1 .. n}

(* A list cut behind its n-th timer. *)
LEMMA CutListed ==
  ASSUME NEW s, NEW S, Listed(s, S), NEW n \in 0 .. Len(s)
  PROVE  /\ Listed(SubSeq(s, 1, n), First(s, n))
         /\ Listed(SubSeq(s, n + 1, Len(s)), S \ First(s, n))
         /\ First(s, n) \subseteq S
<1>. DEFINE p == SubSeq(s, 1, n)  r == SubSeq(s, n + 1, Len(s))
<1>1. s \in Seq(Timers) /\ Len(s) \in Nat /\ n \in Nat /\ n <= Len(s)
  BY LenProperties DEF Listed
<1>2. \A i \in 1 .. Len(s) : s[i] \in Timers /\ s[i] \in S
  BY <1>1, ElementOfSeq DEF Listed
<1>3. /\ p \in Seq(Timers) /\ Len(p) = n
      /\ \A i \in 1 .. n : p[i] = s[i]
  <2>1. \A i \in 1 .. n : s[i] \in Timers
    BY <1>1, <1>2
  <2>2. /\ p \in Seq(Timers) /\ Len(p) = (IF 1 <= n THEN n - 1 + 1 ELSE 0)
        /\ \A i \in 1 .. n - 1 + 1 : p[i] = s[1 + i - 1]
    BY <2>1, <1>1, SubSeqProperties
  <2>. QED
    BY <2>2, <1>1
<1>4. /\ r \in Seq(Timers) /\ Len(r) = Len(s) - n
      /\ \A i \in 1 .. Len(r) : r[i] = s[n + i]
  <2>1. \A i \in n + 1 .. Len(s) : s[i] \in Timers
    BY <1>1, <1>2
  <2>2. /\ r \in Seq(Timers)
        /\ Len(r) = (IF n + 1 <= Len(s) THEN Len(s) - (n + 1) + 1 ELSE 0)
        /\ \A i \in 1 .. Len(s) - (n + 1) + 1 : r[i] = s[(n + 1) + i - 1]
    BY <2>1, <1>1, SubSeqProperties
  <2>. QED
    BY <2>2, <1>1
<1>5. Listed(p, First(s, n)) /\ First(s, n) \subseteq S
  BY <1>1, <1>2, <1>3 DEF Listed, First
<1>6. \A i, j \in 1 .. Len(r) : r[i] = r[j] => i = j
  <2>. SUFFICES ASSUME NEW i \in 1 .. Len(r), NEW j \in 1 .. Len(r), r[i] = r[j]
                PROVE  i = j
    OBVIOUS
  <2>1. n + i \in 1 .. Len(s) /\ n + j \in 1 .. Len(s) /\ s[n + i] = s[n + j]
    BY <1>1, <1>4
  <2>2. n + i = n + j
    BY <2>1 DEF Listed
  <2>. QED
    BY <2>2, <1>1
<1>7. ASSUME NEW t \in Timers
      PROVE  t \in S \ First(s, n) <=> \E i \in 1 .. Len(r) : r[i] = t
  <2>1. ASSUME t \in S \ First(s, n) PROVE \E i \in 1 .. Len(r) : r[i] = t
    <3>1. PICK i \in 1 .. Len(s) : s[i] = t
      BY <2>1 DEF Listed
    <3>2. i \notin 1 .. n
      BY <3>1, <2>1 DEF First
    <3>3. i - n \in 1 .. Len(r) /\ r[i - n] = t
      BY <3>1, <3>2, <1>1, <1>4
    <3>. QED
      BY <3>3
  <2>2. ASSUME NEW i \in 1 .. Len(r), r[i] = t PROVE t \in S \ First(s, n)
    <3>1. n + i \in 1 .. Len(s) /\ n + i \notin 1 .. n /\ s[n + i] = t
      BY <2>2, <1>1, <1>4
    <3>2. \A j \in 1 .. n : s[j] # t
      BY <3>1, <1>1 DEF Listed
    <3>. QED
      BY <3>1, <3>2, <1>2 DEF First
  <2>. QED
    BY <2>1, <2>2
<1>. QED
  BY <1>4, <1>5, <1>6, <1>7 DEF Listed

(* Putting a timer in at the k-th place. *)
LEMMA InsertListed ==
  ASSUME NEW s, NEW S, Listed(s, S), S \subseteq Timers, NEW t \in Timers, t \notin S,
         NEW k \in 1 .. Len(s) + 1
  PROVE  Listed(InsertAt(s, k, t), S \cup {t})
<1>. DEFINE P == First(s, k - 1)
<1>1. Len(s) \in Nat
  BY LenProperties DEF Listed
<1>2. k - 1 \in 0 .. Len(s) /\ (k - 1) + 1 = k
  BY <1>1
<1>3. /\ Listed(SubSeq(s, 1, k - 1), P)
      /\ Listed(SubSeq(s, k, Len(s)), S \ P)
      /\ P \subseteq S
  BY <1>2, CutListed
<1>4. Listed(SubSeq(s, 1, k - 1) \o <<t>>, P \cup {t})
  BY <1>3, SingleListed, JoinListed
<1>5. Listed((SubSeq(s, 1, k - 1) \o <<t>>) \o SubSeq(s, k, Len(s)), (P \cup {t}) \cup (S \ P))
  <2>1. (P \cup {t}) \cap (S \ P) = {}
    OBVIOUS
  <2>. QED
    BY <2>1, <1>3, <1>4, JoinListed
<1>6. (P \cup {t}) \cup (S \ P) = S \cup {t}
  BY <1>3
<1>. QED
  BY <1>5, <1>6 DEF InsertAt

(* Taking the k-th timer out. *)
LEMMA RemoveListed ==
  ASSUME NEW s, NEW S, Listed(s, S), NEW k \in 1 .. Len(s)
  PROVE  Listed(RemoveAt(s, k), S \ {s[k]}) /\ s[k] \in S
<1>. DEFINE P == First(s, k - 1)
<1>1. Len(s) \in Nat /\ s \in Seq(Timers)
  BY LenProperties DEF Listed
<1>2. k - 1 \in 0 .. Len(s) /\ k \in 0 .. Len(s)
  BY <1>1
<1>3. Listed(SubSeq(s, 1, k - 1), P) /\ P \subseteq S
  BY <1>2, CutListed
<1>4. Listed(SubSeq(s, k + 1, Len(s)), S \ First(s, k))
  BY <1>2, CutListed
<1>5. First(s, k) = P \cup {s[k]}
  <2>1. \A i \in 1 .. k : i = k \/ i \in 1 .. k - 1
    BY <1>1
  <2>2. k \in 1 .. k /\ \A i \in 1 .. k - 1 : i \in 1 .. k
    BY <1>1
  <2>. QED
    BY <2>1, <2>2 DEF First
<1>6. s[k] \notin P /\ s[k] \in S
  <2>1. \A i \in 1 .. k - 1 : i \in 1 .. Len(s) /\ i # k
    BY <1>1
  <2>2. s[k] \notin P
    BY <2>1 DEF First, Listed
  <2>. QED
    BY <2>2, <1>1, ElementOfSeq DEF Listed
<1>7. Listed(SubSeq(s, 1, k - 1) \o SubSeq(s, k + 1, Len(s)), P \cup (S \ First(s, k)))
  BY <1>3, <1>4, <1>5, JoinListed
<1>8. P \cup (S \ First(s, k)) = S \ {s[k]}
  BY <1>3, <1>5, <1>6
<1>. QED
  BY <1>6, <1>7, <1>8 DEF RemoveAt

(* A list stands for the set of its timers. *)
LEMMA ListedContains ==
  ASSUME NEW s, NEW S, Listed(s, S), NEW t \in Timers
  PROVE  Contains(s, t) <=> t \in S
BY DEF Listed, Contains

(* No timer, the empty list. *)
LEMMA EmptyListed == Listed(<<>>, {})
BY EmptySeq DEF Listed

(* The empty list, no timer. *)
LEMMA ListedEmpty == ASSUME NEW S, S \subseteq Timers, Listed(<<>>, S) PROVE S = {}
BY DEF Listed

(* The free list of hwtimer_init. *)
LEMMA AllListed == Listed([i \in 1 .. Num |-> i - 1], Timers)
<1>. DEFINE q == [i \in 1 .. Num |-> i - 1]
<1>1. Num \in Nat /\ \A i \in 1 .. Num : i - 1 \in Timers
  BY HwtimerAssumption DEF Timers
<1>2. q \in Seq(Timers) /\ Len(q) = Num
  BY <1>1
<1>3. \A i, j \in 1 .. Num : q[i] = q[j] => i = j
  BY <1>1
<1>4. \A t \in Timers : \E i \in 1 .. Num : q[i] = t
  <2>1. \A t \in Timers : t + 1 \in 1 .. Num /\ q[t + 1] = t
    BY <1>1 DEF Timers
  <2>. QED
    BY <2>1
<1>. HIDE DEF q
<1>5. Listed(q, Timers)
  BY <1>2, <1>3, <1>4 DEF Listed
<1>. QED
  BY <1>5 DEF q

-----------------------------------------------------------------------------
(* ListsAgree is not inductive: that a fired timer is stopped or called only *)
(* once depends on where the handler stands.  Good adds it, and states the   *)
(* lists by the sets they stand for.                                         *)
InState(x) == {t \in Timers : state[t] = x}

Good ==
  /\ state \in [Timers -> {"FREE", "ALLOC", "ACTIVE", "FIRED", "CALLBACK"}]
  /\ irq \in {"out", "entered", "pop", "call"}
  /\ Listed(active, InState("ACTIVE"))
  /\ Listed(fired, InState("FIRED"))
  /\ Listed(free, InState("FREE"))
  /\ irq \in {"out", "entered"} => fired = <<>>
  /\ irq # "call" => cur = {}
  /\ irq = "call" => \E t \in Timers : cur = {t}
  /\ \A t \in Timers : state[t] = "CALLBACK" => cur = {t}

Inv == failed = "none" => Good

(* hwtimer_init leaves every timer in the free list. *)
LEMMA InitGood == Init => Good
<1>. SUFFICES ASSUME Init PROVE Good
  OBVIOUS
<1>1. /\ InState("ACTIVE") = {} /\ InState("FIRED") = {} /\ InState("FREE") = Timers
  BY DEF Init, InState
<1>. QED
  BY <1>1, EmptyListed, AllListed DEF Init, Good

(* A change of one timer's state moves it from set to set. *)
LEMMA StateChange ==
  ASSUME Good, NEW t \in Timers,
         NEW x \in {"FREE", "ALLOC", "ACTIVE", "FIRED", "CALLBACK"},
         state' = [state EXCEPT ![t] = x]
  PROVE  /\ state' \in [Timers -> {"FREE", "ALLOC", "ACTIVE", "FIRED", "CALLBACK"}]
         /\ InState(x)' = InState(x) \cup {t}
         /\ \A y \in {"FREE", "ACTIVE", "FIRED"} : y # x => InState(y)' = InState(y) \ {t}
         /\ \A u \in Timers : state'[u] = IF u = t THEN x ELSE state[u]
BY DEF Good, InState

(* The operations and the handler's steps, one by one: hwtimer_alloc *)
LEMMA AllocGood == ASSUME Good, Alloc PROVE Good'
<1>. DEFINE t == Head(free)
<1>1. /\ t \in InState("FREE") /\ t \in Timers
      /\ Listed(free', InState("FREE") \ {t})
  BY TailListed DEF Good, Alloc
<1>2. state[t] = "FREE" /\ state' = [state EXCEPT ![t] = "ALLOC"]
  BY <1>1 DEF InState, Alloc
<1>. HIDE DEF t
<1>3. /\ state' \in [Timers -> {"FREE", "ALLOC", "ACTIVE", "FIRED", "CALLBACK"}]
      /\ InState("FREE")' = InState("FREE") \ {t}
      /\ InState("ACTIVE")' = InState("ACTIVE")
      /\ InState("FIRED")' = InState("FIRED")
      /\ \A u \in Timers : state'[u] = IF u = t THEN "ALLOC" ELSE state[u]
  BY <1>1, <1>2, StateChange DEF InState
<1>. QED
  BY <1>1, <1>2, <1>3 DEF Good, Alloc

(* hwtimer_free *)
LEMMA FreeGood == ASSUME Good, NEW t \in Timers, Free(t) PROVE Good'
<1>1. state[t] = "ALLOC" /\ state' = [state EXCEPT ![t] = "FREE"]
  BY DEF Free
<1>2. /\ state' \in [Timers -> {"FREE", "ALLOC", "ACTIVE", "FIRED", "CALLBACK"}]
      /\ InState("FREE")' = {t} \cup InState("FREE")
      /\ InState("ACTIVE")' = InState("ACTIVE")
      /\ InState("FIRED")' = InState("FIRED")
      /\ \A u \in Timers : state'[u] = IF u = t THEN "FREE" ELSE state[u]
  BY <1>1, StateChange DEF InState
<1>3. Listed(free', {t} \cup InState("FREE"))
  <2>1. {t} \cap InState("FREE") = {}
    BY <1>1 DEF InState
  <2>. QED
    BY <2>1, SingleListed, JoinListed DEF Good, Free
<1>. QED
  BY <1>2, <1>3 DEF Good, Free

(* Wherever a started timer goes into the list, it goes in once. *)
LEMMA StartActive ==
  ASSUME NEW S, S \subseteq Timers, Listed(active, S),
         NEW t \in Timers \ S, NEW n \in 1 .. MaxTicks,
         StartFirst(t, n) \/ StartAhead(t, n) \/ StartBehind(t, n)
  PROVE  Listed(active', S \cup {t})
<1>1. t \in Timers /\ t \notin S
  OBVIOUS
<1>2. CASE StartFirst(t, n)
  <2>1. S = {}
    BY <1>2, ListedEmpty DEF StartFirst
  <2>. QED
    BY <2>1, <1>2, SingleListed DEF StartFirst
<1>3. CASE StartAhead(t, n)
  <2>1. Listed(<<t>> \o active, {t} \cup S)
    BY <1>1, SingleListed, JoinListed
  <2>2. {t} \cup S = S \cup {t}
    OBVIOUS
  <2>. QED
    BY <2>1, <2>2, <1>3 DEF StartAhead
<1>4. CASE StartBehind(t, n)
  <2>1. PICK k \in 2 .. Len(active) + 1 : active' = InsertAt(active, k, t)
    BY <1>4 DEF StartBehind
  <2>2. k \in 1 .. Len(active) + 1
    BY <2>1
  <2>. QED
    BY <2>1, <2>2, <1>1, InsertListed
<1>. QED
  BY <1>2, <1>3, <1>4

(* A start that fails no assertion *)
LEMMA StartGood ==
  ASSUME Good, NEW t \in Timers, NEW n \in 1 .. MaxTicks, Start(t, n), failed' = "none"
  PROVE  Good'
<1>1. state[t] \in {"ALLOC", "CALLBACK"} /\ state' = [state EXCEPT ![t] = "ACTIVE"]
  BY DEF Start
<1>2. /\ state' \in [Timers -> {"FREE", "ALLOC", "ACTIVE", "FIRED", "CALLBACK"}]
      /\ InState("ACTIVE")' = InState("ACTIVE") \cup {t}
      /\ InState("FREE")' = InState("FREE")
      /\ InState("FIRED")' = InState("FIRED")
      /\ \A u \in Timers : state'[u] = IF u = t THEN "ACTIVE" ELSE state[u]
  BY <1>1, StateChange DEF InState
<1>3. Listed(active', InState("ACTIVE") \cup {t})
  <2>1. t \in Timers \ InState("ACTIVE") /\ InState("ACTIVE") \subseteq Timers
    BY <1>1 DEF InState
  <2>2. StartFirst(t, n) \/ StartAhead(t, n) \/ StartBehind(t, n)
    BY DEF Start
  <2>. QED
    BY <2>1, <2>2, StartActive DEF Good
<1>. QED
  BY <1>2, <1>3 DEF Good, Start

(* A stopped timer leaves its list, and the others stay. *)
LEMMA StopLists ==
  ASSUME Good, NEW t \in Timers, Stop(t), failed' = "none"
  PROVE  /\ state[t] \in {"ACTIVE", "FIRED"}
         /\ Listed(active', InState("ACTIVE") \ {t})
         /\ Listed(fired', InState("FIRED") \ {t})
         /\ fired = <<>> => fired' = <<>>
<1>. DEFINE A == InState("ACTIVE")  F == InState("FIRED")
<1>1. Listed(active, A) /\ Listed(fired, F)
  BY DEF Good
<1>2. CASE StopActive(t)
  <2>1. state[t] = "ACTIVE" /\ fired' = fired /\ F \ {t} = F
    BY <1>2 DEF StopActive, InState
  <2>2. Listed(active', A \ {t})
    <3>. HIDE DEF A, F
    <3>1. CASE StopLast(t)
      <4>1. active # <<>> /\ Head(active) = t /\ Tail(active) = <<>>
        BY <3>1 DEF StopLast
      <4>. QED
        BY <4>1, <3>1, <1>1, TailListed DEF StopLast
    <3>2. CASE StopHead(t)
      <4>1. active # <<>> /\ Head(active) = t /\ active' = Tail(active)
        <5>1. Len(active) > 1 /\ Len(<<>>) = 0
          BY <3>2 DEF StopHead
        <5>. QED
          BY <5>1, <3>2 DEF StopHead
      <4>. QED
        BY <4>1, <1>1, TailListed
    <3>3. CASE StopInside(t)
      <4>1. PICK k \in 2 .. Len(active) : active[k] = t /\ active' = RemoveAt(active, k)
        BY <3>3 DEF StopInside
      <4>2. k \in 1 .. Len(active)
        BY <4>1
      <4>. QED
        BY <4>1, <4>2, <1>1, RemoveListed
    <3>. QED
      BY <1>2, <3>1, <3>2, <3>3 DEF StopActive
  <2>. QED
    BY <2>1, <2>2, <1>1
<1>3. CASE StopFired(t)
  <2>1. state[t] = "FIRED" /\ active' = active /\ A \ {t} = A
    BY <1>3 DEF StopFired, InState
  <2>2. PICK k \in 1 .. Len(fired) : fired[k] = t /\ fired' = RemoveAt(fired, k)
    BY <1>3 DEF StopFired
  <2>3. Listed(fired', F \ {t})
    <3>. HIDE DEF F
    <3>. QED
      BY <2>2, <1>1, RemoveListed
  <2>4. fired # <<>>
    <3>1. Len(fired) # 0
      BY <2>2, <1>1, LenProperties DEF Listed
    <3>. QED
      BY <3>1, EmptySeq
  <2>. QED
    BY <2>1, <2>3, <2>4, <1>1
<1>. QED
  BY <1>2, <1>3 DEF Stop

(* A stop that fails no assertion *)
LEMMA StopGood == ASSUME Good, NEW t \in Timers, Stop(t), failed' = "none" PROVE Good'
<1>1. state[t] \in {"ACTIVE", "FIRED"} /\ state' = [state EXCEPT ![t] = "ALLOC"]
  BY StopLists DEF Stop
<1>2. /\ state' \in [Timers -> {"FREE", "ALLOC", "ACTIVE", "FIRED", "CALLBACK"}]
      /\ InState("ACTIVE")' = InState("ACTIVE") \ {t}
      /\ InState("FIRED")' = InState("FIRED") \ {t}
      /\ InState("FREE")' = InState("FREE")
      /\ \A u \in Timers : state'[u] = IF u = t THEN "ALLOC" ELSE state[u]
  BY <1>1, StateChange DEF InState
<1>3. /\ Listed(active', InState("ACTIVE") \ {t})
      /\ Listed(fired', InState("FIRED") \ {t})
      /\ fired = <<>> => fired' = <<>>
  BY StopLists
<1>. QED
  BY <1>2, <1>3 DEF Good, Stop

(* The head and those that expired with it move to the fired list. *)
LEMMA FireLists ==
  ASSUME Good, irq = "entered", IrqFire
  PROVE  \E P \in SUBSET InState("ACTIVE") :
           /\ Listed(fired', P)
           /\ Listed(active', InState("ACTIVE") \ P)
           /\ state' = [t \in Timers |-> IF t \in P THEN "FIRED" ELSE state[t]]
<1>. DEFINE A == InState("ACTIVE")
<1>1. PICK n \in 1 .. Len(active) :
           /\ fired' = SubSeq(active, 1, n)
           /\ active' = SubSeq(active, n + 1, Len(active))
  BY DEF IrqFire
<1>2. Listed(active, A) /\ n \in 0 .. Len(active)
  BY <1>1 DEF Good
<1>3. /\ Listed(fired', First(active, n)) /\ First(active, n) \subseteq A
      /\ Listed(active', A \ First(active, n))
  <2>. HIDE DEF A
  <2>. QED
    BY <1>1, <1>2, CutListed
<1>4. \A t \in Timers : Contains(fired', t) <=> t \in First(active, n)
  BY <1>3, ListedContains
<1>5. state' = [t \in Timers |-> IF t \in First(active, n) THEN "FIRED" ELSE state[t]]
  BY <1>4 DEF IrqFire
<1>. QED
  BY <1>3, <1>5

(* The first section of the handler *)
LEMMA IrqFirstGood == ASSUME Good, IrqFirst, failed' = "none" PROVE Good'
<1>1. CASE IrqStale
  BY <1>1 DEF IrqFirst, IrqStale, Good, InState
<1>2. CASE IrqFire
  <2>1. irq = "entered" /\ irq' = "pop" /\ free' = free /\ cur' = cur
    BY <1>2 DEF IrqFirst, IrqFire
  <2>2. PICK P \in SUBSET InState("ACTIVE") :
           /\ Listed(fired', P)
           /\ Listed(active', InState("ACTIVE") \ P)
           /\ state' = [t \in Timers |-> IF t \in P THEN "FIRED" ELSE state[t]]
    BY <1>2, <2>1, FireLists
  <2>3. InState("FIRED") = {}
    BY <2>1, ListedEmpty DEF Good, InState
  <2>4. /\ state' \in [Timers -> {"FREE", "ALLOC", "ACTIVE", "FIRED", "CALLBACK"}]
        /\ InState("ACTIVE")' = InState("ACTIVE") \ P
        /\ InState("FIRED")' = P
        /\ InState("FREE")' = InState("FREE")
        /\ \A t \in Timers : state'[t] = "CALLBACK" => state[t] = "CALLBACK"
    BY <2>2, <2>3 DEF Good, InState
  <2>. QED
    BY <2>1, <2>2, <2>4 DEF Good
<1>. QED
  BY <1>1, <1>2 DEF IrqFirst

(* The next fired timer is out of the list before its callback runs. *)
LEMMA PopLists ==
  ASSUME Good, IrqPop, fired # <<>>
  PROVE  \E t \in InState("FIRED") :
           /\ Listed(fired', InState("FIRED") \ {t})
           /\ \/ irq' = "call" /\ cur' = {t} /\ state' = [state EXCEPT ![t] = "CALLBACK"]
              \/ /\ state' = [state EXCEPT ![t] = "ALLOC"]
                 /\ UNCHANGED <<irq, cur>>
<1>. DEFINE t == Head(fired)
<1>1. /\ t \in InState("FIRED")
      /\ Listed(Tail(fired), InState("FIRED") \ {t})
  BY TailListed DEF Good
<1>2. /\ fired' = Tail(fired)
      /\ \/ irq' = "call" /\ cur' = {t} /\ state' = [state EXCEPT ![t] = "CALLBACK"]
         \/ /\ state' = [state EXCEPT ![t] = "ALLOC"]
            /\ UNCHANGED <<irq, cur>>
  BY DEF IrqPop
<1>. QED
  BY <1>1, <1>2

(* The next round of the handler's loop *)
LEMMA IrqPopGood == ASSUME Good, IrqPop PROVE Good'
<1>1. CASE fired = <<>>
  BY <1>1 DEF Good, IrqPop, InState
<1>2. CASE fired # <<>>
  <2>1. PICK t \in InState("FIRED") :
           /\ Listed(fired', InState("FIRED") \ {t})
           /\ \/ irq' = "call" /\ cur' = {t} /\ state' = [state EXCEPT ![t] = "CALLBACK"]
              \/ /\ state' = [state EXCEPT ![t] = "ALLOC"]
                 /\ UNCHANGED <<irq, cur>>
    BY <1>2, PopLists
  <2>2. t \in Timers /\ state[t] = "FIRED"
    BY <2>1 DEF InState
  <2>3. PICK x \in {"FREE", "ALLOC", "ACTIVE", "FIRED", "CALLBACK"} :
             x \in {"CALLBACK", "ALLOC"} /\ state' = [state EXCEPT ![t] = x]
    BY <2>1
  <2>4. /\ state' \in [Timers -> {"FREE", "ALLOC", "ACTIVE", "FIRED", "CALLBACK"}]
        /\ \A u \in Timers : state'[u] = IF u = t THEN x ELSE state[u]
    BY <2>2, <2>3, StateChange
  <2>5. /\ InState("ACTIVE")' = InState("ACTIVE")
        /\ InState("FIRED")' = InState("FIRED") \ {t}
        /\ InState("FREE")' = InState("FREE")
    BY <2>2, <2>3, <2>4 DEF InState
  <2>6. irq = "pop" /\ cur = {} /\ \A u \in Timers : state[u] # "CALLBACK"
    BY DEF Good, IrqPop
  <2>7. /\ irq' \in {"pop", "call"}
        /\ irq' # "call" => cur' = {}
        /\ irq' = "call" => cur' = {t}
        /\ \A u \in Timers : state'[u] = "CALLBACK" => cur' = {u}
    BY <2>1, <2>2, <2>4, <2>6
  <2>8. active' = active /\ free' = free
    BY DEF IrqPop
  <2>9. /\ Listed(active', InState("ACTIVE")') /\ Listed(fired', InState("FIRED")')
        /\ Listed(free', InState("FREE")')
    BY <2>1, <2>8, <2>5 DEF Good
  <2>. QED
    BY <2>2, <2>4, <2>7, <2>9 DEF Good
<1>. QED
  BY <1>1, <1>2

(* The callback's return *)
LEMMA ReturnGood == ASSUME Good, CallbackReturn PROVE Good'
<1>1. /\ state' \in [Timers -> {"FREE", "ALLOC", "ACTIVE", "FIRED", "CALLBACK"}]
      /\ InState("ACTIVE")' = InState("ACTIVE")
      /\ InState("FIRED")' = InState("FIRED")
      /\ InState("FREE")' = InState("FREE")
      /\ \A t \in Timers : state'[t] # "CALLBACK"
  BY DEF Good, CallbackReturn, InState
<1>. QED
  BY <1>1 DEF Good, CallbackReturn

(* Once an assertion has failed there are no more steps to look at. *)
LEMMA NextInv == Inv /\ [Next]_vars => Inv'
<1>. SUFFICES ASSUME Inv, [Next]_vars, failed' = "none" PROVE Good'
  BY DEF Inv
<1>1. CASE UNCHANGED vars
  BY <1>1 DEF Inv, Good, InState, vars
<1>2. CASE Next
  <2>1. failed = "none" /\ Good
    BY <1>2 DEF Inv, Next, Tick, Alloc, Free, Stop, Start, Unlocked, IrqEnter, IrqFirst,
                IrqPop, CallbackReturn
  <2>2. CASE Tick
    BY <2>1, <2>2 DEF Good, Tick, InState
  <2>3. CASE IrqEnter
    BY <2>1, <2>3 DEF Good, IrqEnter, InState
  <2>. QED
    BY <1>2, <2>1, <2>2, <2>3, AllocGood, FreeGood, StartGood, StopGood, IrqFirstGood,
       IrqPopGood, ReturnGood DEF Next
<1>. QED
  BY <1>1, <1>2

(* Good holds as long as no assertion fails. *)
LEMMA Invariant == Spec => []Inv
<1>1. Init => Inv
  BY InitGood DEF Inv
<1>. QED
  BY <1>1, NextInv, PTL DEF Spec

(* What Good says of a list is what ListsAgree says of it. *)
LEMMA ListedOnce ==
  ASSUME NEW s, NEW S, Listed(s, S), NEW t \in Timers
  PROVE  IF t \in S THEN InOnce(s, t) ELSE ~Contains(s, t)
BY LenProperties DEF Listed, InOnce, Contains

(* For every number of timers, whatever their callbacks, a timer stays in    *)
(* the one list that its state names.                                        *)
THEOREM ListsKept == Spec => []ListsAgree
<1>1. Inv => ListsAgree
  BY ListedOnce DEF Inv, Good, ListsAgree, InState
<1>. QED
  BY <1>1, Invariant, PTL

-----------------------------------------------------------------------------
(* A change of one timer's state is one of its status. *)
LEMMA StatusChange ==
  ASSUME state \in [Timers -> {"FREE", "ALLOC", "ACTIVE", "FIRED", "CALLBACK"}],
         NEW t \in Timers, NEW x, state' = [state EXCEPT ![t] = x]
  PROVE  /\ x = "FREE" => Status' = [Status EXCEPT ![t] = "free"]
         /\ x = "ALLOC" => Status' = [Status EXCEPT ![t] = "idle"]
         /\ x = "ACTIVE" => Status' = [Status EXCEPT ![t] = "armed"]
         /\ x = "CALLBACK" => Status' = [Status EXCEPT ![t] = "calling"]
<1>1. \A u \in Timers : state'[u] = IF u = t THEN x ELSE state[u]
  OBVIOUS
<1>. QED
  BY <1>1 DEF Status

(* The status of a timer by its state. *)
LEMMA StatusIs ==
  ASSUME NEW t \in Timers
  PROVE  /\ state[t] = "FREE" => Status[t] = "free"
         /\ state[t] = "ALLOC" => Status[t] = "idle"
         /\ state[t] \in {"ACTIVE", "FIRED"} => Status[t] = "armed"
         /\ state[t] = "CALLBACK" => Status[t] = "calling"
BY DEF Status

(* The service starts with every timer free. *)
LEMMA ServiceInit == Init => Service!Init
BY DEF Init, Service!Init, Status

(* While nothing has failed, every step is one of the service or none. *)
LEMMA ServiceNext ==
  ASSUME Good, Next PROVE Service!Next \/ UNCHANGED Service!vars
<1>0. state \in [Timers -> {"FREE", "ALLOC", "ACTIVE", "FIRED", "CALLBACK"}]
  BY DEF Good
<1>1. CASE UNCHANGED <<state, cur>>
  BY <1>1 DEF Service!vars, Status
<1>2. CASE Alloc
  <2>1. Head(free) \in Timers /\ state[Head(free)] = "FREE"
    <3>1. Head(free) \in InState("FREE")
      BY <1>2, TailListed DEF Good, Alloc
    <3>. QED
      BY <3>1 DEF InState
  <2>2. Status' = [Status EXCEPT ![Head(free)] = "idle"] /\ cur' = cur
    BY <1>0, <1>2, <2>1, StatusChange DEF Alloc
  <2>3. Service!Alloc(Head(free))
    BY <2>1, <2>2, StatusIs DEF Service!Alloc, Service!Becomes
  <2>. QED
    BY <2>1, <2>3 DEF Service!Next
<1>3. ASSUME NEW t \in Timers, Free(t) PROVE Service!Next
  <2>1. Status' = [Status EXCEPT ![t] = "free"] /\ cur' = cur /\ state[t] = "ALLOC"
    BY <1>0, <1>3, StatusChange DEF Free
  <2>2. Service!Free(t)
    BY <2>1, StatusIs DEF Service!Free, Service!Becomes
  <2>. QED
    BY <2>2 DEF Service!Next
<1>4. ASSUME NEW t \in Timers, NEW n \in 1 .. MaxTicks, Start(t, n) PROVE Service!Next
  <2>1. /\ Status' = [Status EXCEPT ![t] = "armed"] /\ cur' = cur
        /\ state[t] \in {"ALLOC", "CALLBACK"}
    <3>1. state' = [state EXCEPT ![t] = "ACTIVE"] /\ cur' = cur
          /\ state[t] \in {"ALLOC", "CALLBACK"}
      BY <1>4 DEF Start
    <3>. QED
      BY <1>0, <3>1, StatusChange
  <2>2. Service!Start(t)
    BY <2>1, StatusIs DEF Service!Start, Service!Becomes
  <2>. QED
    BY <2>2 DEF Service!Next
<1>5. ASSUME NEW t \in Timers, Stop(t), failed' = "none" PROVE Service!Next
  <2>1. /\ Status' = [Status EXCEPT ![t] = "idle"] /\ cur' = cur
        /\ state[t] \in {"ACTIVE", "FIRED"}
    <3>1. state' = [state EXCEPT ![t] = "ALLOC"] /\ cur' = cur
          /\ state[t] \in {"ACTIVE", "FIRED"}
      BY <1>5 DEF Stop, StopActive, StopFired
    <3>. QED
      BY <1>0, <3>1, StatusChange
  <2>2. Service!Stop(t)
    BY <2>1, StatusIs DEF Service!Stop, Service!Becomes
  <2>. QED
    BY <2>2 DEF Service!Next
<1>6. ASSUME IrqFire, irq = "entered" PROVE Status' = Status
  <2>1. PICK P \in SUBSET InState("ACTIVE") :
           state' = [t \in Timers |-> IF t \in P THEN "FIRED" ELSE state[t]]
    BY <1>6, FireLists
  <2>2. \A t \in Timers : \/ state'[t] = state[t]
                          \/ state[t] = "ACTIVE" /\ state'[t] = "FIRED"
    BY <2>1 DEF InState
  <2>. QED
    BY <2>2 DEF Status
<1>7. CASE IrqPop /\ fired # <<>>
  <2>1. PICK t \in InState("FIRED") :
           \/ irq' = "call" /\ cur' = {t} /\ state' = [state EXCEPT ![t] = "CALLBACK"]
           \/ state' = [state EXCEPT ![t] = "ALLOC"] /\ UNCHANGED <<irq, cur>>
    BY <1>7, PopLists
  <2>2. t \in Timers /\ state[t] = "FIRED" /\ cur = {}
    BY <1>7, <2>1 DEF InState, Good, IrqPop
  <2>3. CASE cur' = {t} /\ state' = [state EXCEPT ![t] = "CALLBACK"]
    <3>1. Status' = [Status EXCEPT ![t] = "calling"]
      BY <1>0, <2>2, <2>3, StatusChange
    <3>2. Service!Call(t)
      BY <3>1, <2>2, <2>3, StatusIs DEF Service!Call, Service!Becomes
    <3>. QED
      BY <2>2, <3>2 DEF Service!Next
  <2>4. CASE cur' = cur /\ state' = [state EXCEPT ![t] = "ALLOC"]
    <3>1. Status' = [Status EXCEPT ![t] = "idle"]
      BY <1>0, <2>2, <2>4, StatusChange
    <3>2. Service!Stop(t)
      BY <3>1, <2>2, <2>4, StatusIs DEF Service!Stop, Service!Becomes
    <3>. QED
      BY <2>2, <3>2 DEF Service!Next
  <2>. QED
    BY <2>1, <2>3, <2>4
<1>8. CASE CallbackReturn
  <2>1. PICK t \in Timers : cur = {t} /\ cur' = {}
    BY <1>8 DEF Good, CallbackReturn
  <2>2. \A u \in Timers : state'[u] = IF u = t /\ state[u] = "CALLBACK"
                                      THEN "ALLOC" ELSE state[u]
    BY <1>8, <2>1 DEF CallbackReturn
  <2>3. Status' = [Status EXCEPT ![t] = IF @ = "calling" THEN "idle" ELSE @]
    <3>1. Status[t] = "calling" <=> state[t] = "CALLBACK"
      BY <1>0 DEF Status
    <3>. QED
      BY <2>2, <3>1 DEF Status
  <2>4. Service!Return(t)
    BY <2>1, <2>3 DEF Service!Return
  <2>. QED
    BY <2>4 DEF Service!Next
<1>9. CASE IrqFirst
  BY <1>1, <1>6, <1>9 DEF IrqFirst, IrqStale, Service!vars
<1>10. CASE IrqPop
  BY <1>1, <1>7, <1>10 DEF IrqPop
<1>11. ASSUME NEW t \in Timers, Stop(t) PROVE Service!Next \/ UNCHANGED Service!vars
  BY <1>1, <1>5, <1>11 DEF Stop
<1>. QED
  BY <1>1, <1>2, <1>3, <1>4, <1>8, <1>9, <1>10, <1>11 DEF Next, Tick, IrqEnter

(* For every number of timers: the lists implement the service, so a stopped *)
(* timer's callback does not run and a started one's runs at most once.      *)
THEOREM Implements == Spec => ImplementsTimers
<1>1. Inv /\ [Next]_vars => [Service!Next]_(Service!vars)
  <2>. SUFFICES ASSUME Inv, [Next]_vars PROVE [Service!Next]_(Service!vars)
    OBVIOUS
  <2>1. CASE UNCHANGED vars
    BY <2>1 DEF vars, Service!vars, Status
  <2>2. CASE Next
    <3>1. failed = "none"
      BY <2>2 DEF Next, Tick, Alloc, Free, Stop, Start, Unlocked, IrqEnter, IrqFirst,
                  IrqPop, CallbackReturn
    <3>. QED
      BY <2>2, <3>1, ServiceNext DEF Inv
  <2>. QED
    BY <2>1, <2>2
<1>. QED
  BY <1>1, ServiceInit, Invariant, PTL DEF Spec, Service!Spec, ImplementsTimers

-----------------------------------------------------------------------------
(* A set of numbers that has zero and every successor has them all. *)
LEMMA Induction ==
  ASSUME NEW S \in SUBSET Nat, 0 \in S, \A n \in S : n + 1 \in S
  PROVE  \A n \in Nat : n \in S
<1>. SUFFICES ASSUME Nat \ S # {} PROVE FALSE
  OBVIOUS
<1>1. PICK x \in Nat \ S : \A y \in Nat \ S : ~ (<<y, x>> \in OpToRel(<, Nat))
  BY NatLessThanWellFounded, WFMin
<1>2. \A y \in Nat \ S : ~ (y < x)
  BY <1>1 DEF OpToRel
<1>3. x - 1 \in Nat /\ x - 1 < x
  <2>1. x \in Nat /\ x # 0
    BY <1>1
  <2>. QED
    BY <2>1
<1>4. x - 1 \in S
  BY <1>2, <1>3
<1>5. (x - 1) + 1 \in S
  BY <1>4
<1>6. (x - 1) + 1 = x
  OBVIOUS
<1>. QED
  BY <1>1, <1>5, <1>6

(* f adds up the ticks of the first n timers of a list behind its head. *)
AddsUp(f, n, list, ticks) ==
  /\ f \in [1 .. n -> Int]
  /\ \A k \in 1 .. n : f[k] = IF k = 1 THEN 0 ELSE f[k - 1] + ticks[list[k]]

(* For every list and its ticks there are such sums. *)
LEMMA SumsThere ==
  ASSUME NEW list \in Seq(Timers), NEW ticks \in [Timers -> Int]
  PROVE  \E f : AddsUp(f, Len(list), list, ticks)
<1>. DEFINE S == {n \in Nat : n > Len(list) \/ \E f : AddsUp(f, n, list, ticks)}
<1>1. Len(list) \in Nat /\ \A k \in 1 .. Len(list) : ticks[list[k]] \in Int
  BY ElementOfSeq, LenProperties
<1>2. 0 \in S
  <2>1. AddsUp([k \in 1 .. 0 |-> 0], 0, list, ticks)
    BY DEF AddsUp
  <2>. QED
    BY <2>1
<1>3. ASSUME NEW n \in S PROVE n + 1 \in S
  <2>1. CASE n + 1 > Len(list)
    BY <2>1
  <2>2. CASE n + 1 <= Len(list)
    <3>1. PICK f : AddsUp(f, n, list, ticks)
      BY <1>1, <2>2
    <3>. DEFINE x == IF n = 0 THEN 0 ELSE f[n] + ticks[list[n + 1]]
                g == [k \in 1 .. n + 1 |-> IF k = n + 1 THEN x ELSE f[k]]
    <3>2. n \in Nat /\ x \in Int
      BY <1>1, <2>2, <3>1 DEF AddsUp
    <3>3. g \in [1 .. n + 1 -> Int]
      BY <3>1, <3>2 DEF AddsUp
    <3>4. ASSUME NEW k \in 1 .. n + 1
          PROVE  g[k] = IF k = 1 THEN 0 ELSE g[k - 1] + ticks[list[k]]
      <4>1. CASE k = n + 1
        BY <3>2, <4>1
      <4>2. CASE k # n + 1
        <5>1. k \in 1 .. n /\ g[k] = f[k] /\ (k # 1 => k - 1 \in 1 .. n /\ g[k - 1] = f[k - 1])
          BY <3>2, <4>2
        <5>. QED
          BY <3>1, <5>1 DEF AddsUp
      <4>. QED
        BY <4>1, <4>2
    <3>. HIDE DEF g
    <3>5. AddsUp(g, n + 1, list, ticks)
      BY <3>3, <3>4 DEF AddsUp
    <3>. QED
      BY <3>5
  <2>. QED
    BY <1>1, <2>1, <2>2
<1>. HIDE DEF S
<1>4. Len(list) \in S
  <2>1. S \in SUBSET Nat
    BY DEF S
  <2>. QED
    BY <1>1, <1>2, <1>3, <2>1, Induction
<1>. QED
  BY <1>1, <1>4 DEF S

(* There are no two. *)
LEMMA SumsSame ==
  ASSUME NEW n \in Nat, NEW list, NEW ticks, NEW f, NEW g,
         AddsUp(f, n, list, ticks), AddsUp(g, n, list, ticks)
  PROVE  \A k \in 1 .. n : f[k] = g[k]
<1>. DEFINE S == {k \in Nat : k \in 1 .. n => f[k] = g[k]}
<1>1. 0 \in S
  OBVIOUS
<1>2. ASSUME NEW k \in S PROVE k + 1 \in S
  <2>. SUFFICES ASSUME k + 1 \in 1 .. n PROVE f[k + 1] = g[k + 1]
    OBVIOUS
  <2>1. CASE k = 0
    BY <2>1 DEF AddsUp
  <2>2. CASE k # 0
    <3>1. k \in 1 .. n /\ f[k] = g[k] /\ k + 1 # 1 /\ (k + 1) - 1 = k
      BY <2>2
    <3>2. f[k + 1] = f[k] + ticks[list[k + 1]] /\ g[k + 1] = g[k] + ticks[list[k + 1]]
      BY <3>1 DEF AddsUp
    <3>. QED
      BY <3>1, <3>2
  <2>. QED
    BY <2>1, <2>2
<1>. HIDE DEF S
<1>3. \A k \in Nat : k \in S
  <2>1. S \in SUBSET Nat
    BY DEF S
  <2>. QED
    BY <1>1, <1>2, <2>1, Induction
<1>. QED
  BY <1>3 DEF S

(* What the recursion computes *)
LEMMA SumsAre ==
  ASSUME NEW list \in Seq(Timers), NEW ticks \in [Timers -> Int]
  PROVE  AddsUp(Sums(list, ticks), Len(list), list, ticks)
<1>. DEFINE n == Len(list)
            Is(f) == f = [k \in 1 .. n |-> IF k = 1 THEN 0 ELSE f[k - 1] + ticks[list[k]]]
<1>1. PICK f : AddsUp(f, n, list, ticks)
  BY SumsThere
<1>2. Is(f)
  BY <1>1 DEF AddsUp
<1>3. Sums(list, ticks) = CHOOSE g : Is(g)
  BY DEF Sums
<1>4. Is(Sums(list, ticks))
  BY <1>2, <1>3
<1>. DEFINE s == Sums(list, ticks)
<1>5. s = [k \in 1 .. n |-> IF k = 1 THEN 0 ELSE s[k - 1] + ticks[list[k]]]
  BY <1>4
<1>. HIDE DEF s
<1>6. DOMAIN s = 1 .. n /\ \A k \in 1 .. n : s[k] = IF k = 1 THEN 0 ELSE s[k - 1] + ticks[list[k]]
  BY <1>5
<1>. DEFINE S == {k \in Nat : k \in 1 .. n => s[k] \in Int}
<1>7. n \in Nat /\ \A k \in 1 .. n : ticks[list[k]] \in Int
  BY ElementOfSeq, LenProperties
<1>8. 0 \in S
  OBVIOUS
<1>9. ASSUME NEW k \in S PROVE k + 1 \in S
  <2>. SUFFICES ASSUME k + 1 \in 1 .. n PROVE s[k + 1] \in Int
    OBVIOUS
  <2>1. k # 0 => k \in 1 .. n /\ s[k] \in Int
    BY <1>7
  <2>2. s[k + 1] = IF k = 0 THEN 0 ELSE s[k] + ticks[list[k + 1]]
    <3>1. k \in Nat /\ (k + 1) - 1 = k /\ (k + 1 = 1 <=> k = 0)
      OBVIOUS
    <3>2. s[k + 1] = IF k + 1 = 1 THEN 0 ELSE s[(k + 1) - 1] + ticks[list[k + 1]]
      BY <1>6
    <3>. QED
      BY <3>1, <3>2
  <2>. QED
    BY <1>7, <2>1, <2>2
<1>. HIDE DEF S
<1>10. \A k \in Nat : k \in S
  <2>1. S \in SUBSET Nat
    BY DEF S
  <2>. QED
    BY <1>8, <1>9, <2>1, Induction
<1>11. \A k \in 1 .. n : s[k] \in Int
  BY <1>7, <1>10 DEF S
<1>12. s \in [1 .. n -> Int]
  BY <1>5, <1>11
<1>. QED
  BY <1>6, <1>12 DEF AddsUp, s

(* Step by step *)
LEMMA SumsStep ==
  ASSUME NEW list \in Seq(Timers), NEW ticks \in [Timers -> Int], NEW k \in 1 .. Len(list)
  PROVE  /\ Sums(list, ticks)[k] \in Int
         /\ k = 1 => Sums(list, ticks)[k] = 0
         /\ k # 1 => /\ k - 1 \in 1 .. Len(list)
                     /\ Sums(list, ticks)[k - 1] \in Int
                     /\ Sums(list, ticks)[k] = Sums(list, ticks)[k - 1] + ticks[list[k]]
<1>1. AddsUp(Sums(list, ticks), Len(list), list, ticks) /\ Len(list) \in Nat
  BY SumsAre, LenProperties
<1>. DEFINE s == Sums(list, ticks)
<1>. HIDE DEF s
<1>2. k # 1 => k - 1 \in 1 .. Len(list)
  BY <1>1
<1>3. AddsUp(s, Len(list), list, ticks)
  BY <1>1 DEF s
<1>4. /\ s[k] \in Int
      /\ k = 1 => s[k] = 0
      /\ k # 1 => s[k - 1] \in Int /\ s[k] = s[k - 1] + ticks[list[k]]
  BY <1>2, <1>3 DEF AddsUp
<1>. QED
  BY <1>2, <1>4 DEF s

(* Whatever adds up is what the recursion computes. *)
LEMMA SumsIf ==
  ASSUME NEW list \in Seq(Timers), NEW ticks \in [Timers -> Int], NEW g,
         AddsUp(g, Len(list), list, ticks)
  PROVE  \A k \in 1 .. Len(list) : Sums(list, ticks)[k] = g[k]
BY SumsAre, SumsSame, LenProperties

(* The places of a list after one of its operations *)
LEMMA ConsPlaces ==
  ASSUME NEW s \in Seq(Timers), NEW t \in Timers
  PROVE  /\ <<t>> \o s \in Seq(Timers) /\ Len(<<t>> \o s) = Len(s) + 1
         /\ \A i \in 1 .. Len(s) + 1 : (<<t>> \o s)[i] = IF i = 1 THEN t ELSE s[i - 1]
<1>1. <<t>> \in Seq(Timers) /\ Len(<<t>>) = 1 /\ <<t>>[1] = t
  OBVIOUS
<1>. DEFINE p == <<t>>
<1>. HIDE DEF p
<1>2. /\ p \o s \in Seq(Timers) /\ Len(p \o s) = 1 + Len(s) /\ Len(s) \in Nat
      /\ \A i \in 1 .. 1 + Len(s) : (p \o s)[i] = IF i <= 1 THEN p[i] ELSE s[i - 1]
  BY <1>1, ConcatProperties, LenProperties DEF p
<1>3. p[1] = t
  BY <1>1 DEF p
<1>. QED
  BY <1>2, <1>3 DEF p

(* ... cut behind its n-th timer *)
LEMMA CutPlaces ==
  ASSUME NEW s \in Seq(Timers), NEW n \in 0 .. Len(s)
  PROVE  /\ SubSeq(s, 1, n) \in Seq(Timers) /\ Len(SubSeq(s, 1, n)) = n
         /\ \A i \in 1 .. n : SubSeq(s, 1, n)[i] = s[i]
         /\ SubSeq(s, n + 1, Len(s)) \in Seq(Timers)
         /\ Len(SubSeq(s, n + 1, Len(s))) = Len(s) - n
         /\ \A i \in 1 .. Len(s) - n : SubSeq(s, n + 1, Len(s))[i] = s[n + i]
<1>. DEFINE p == SubSeq(s, 1, n)  r == SubSeq(s, n + 1, Len(s))
<1>1. Len(s) \in Nat /\ n \in Nat /\ n <= Len(s)
  BY LenProperties
<1>2. \A i \in 1 .. Len(s) : s[i] \in Timers
  BY <1>1, ElementOfSeq
<1>3. /\ p \in Seq(Timers) /\ Len(p) = n
      /\ \A i \in 1 .. n : p[i] = s[i]
  <2>1. \A i \in 1 .. n : s[i] \in Timers
    BY <1>1, <1>2
  <2>2. /\ p \in Seq(Timers) /\ Len(p) = (IF 1 <= n THEN n - 1 + 1 ELSE 0)
        /\ \A i \in 1 .. n - 1 + 1 : p[i] = s[1 + i - 1]
    BY <2>1, <1>1, SubSeqProperties
  <2>. QED
    BY <2>2, <1>1
<1>4. /\ r \in Seq(Timers) /\ Len(r) = Len(s) - n
      /\ \A i \in 1 .. Len(s) - n : r[i] = s[n + i]
  <2>1. \A i \in n + 1 .. Len(s) : s[i] \in Timers
    BY <1>1, <1>2
  <2>2. /\ r \in Seq(Timers)
        /\ Len(r) = (IF n + 1 <= Len(s) THEN Len(s) - (n + 1) + 1 ELSE 0)
        /\ \A i \in 1 .. Len(s) - (n + 1) + 1 : r[i] = s[(n + 1) + i - 1]
    BY <2>1, <1>1, SubSeqProperties
  <2>. QED
    BY <2>2, <1>1
<1>. QED
  BY <1>3, <1>4

(* ... with another one behind it *)
LEMMA JoinPlaces ==
  ASSUME NEW p \in Seq(Timers), NEW r \in Seq(Timers)
  PROVE  /\ p \o r \in Seq(Timers) /\ Len(p \o r) = Len(p) + Len(r)
         /\ \A i \in 1 .. Len(p) + Len(r) : (p \o r)[i] = IF i <= Len(p) THEN p[i] ELSE r[i - Len(p)]
BY ConcatProperties

(* ... with a timer put in at the k-th place *)
LEMMA InsertPlaces ==
  ASSUME NEW s \in Seq(Timers), NEW t \in Timers, NEW k \in 1 .. Len(s) + 1
  PROVE  /\ InsertAt(s, k, t) \in Seq(Timers) /\ Len(InsertAt(s, k, t)) = Len(s) + 1
         /\ \A i \in 1 .. Len(s) + 1 :
              InsertAt(s, k, t)[i] = IF i < k THEN s[i] ELSE IF i = k THEN t ELSE s[i - 1]
<1>. DEFINE p == SubSeq(s, 1, k - 1)  r == SubSeq(s, k, Len(s))  q == p \o <<t>>
<1>1. Len(s) \in Nat /\ k - 1 \in 0 .. Len(s) /\ (k - 1) + 1 = k
  BY LenProperties
<1>2. /\ p \in Seq(Timers) /\ Len(p) = k - 1 /\ \A i \in 1 .. k - 1 : p[i] = s[i]
      /\ r \in Seq(Timers) /\ Len(r) = Len(s) - (k - 1)
      /\ \A i \in 1 .. Len(s) - (k - 1) : r[i] = s[(k - 1) + i]
  BY <1>1, CutPlaces
<1>. HIDE DEF p, r
<1>3. /\ q \in Seq(Timers) /\ Len(q) = k
      /\ \A i \in 1 .. k : q[i] = IF i < k THEN s[i] ELSE t
  <2>1. <<t>> \in Seq(Timers) /\ Len(<<t>>) = 1 /\ <<t>>[1] = t
    OBVIOUS
  <2>. DEFINE o == <<t>>
  <2>. HIDE DEF o
  <2>2. /\ p \o o \in Seq(Timers) /\ Len(p \o o) = Len(p) + Len(o)
        /\ \A i \in 1 .. Len(p) + Len(o) : (p \o o)[i] = IF i <= Len(p) THEN p[i] ELSE o[i - Len(p)]
    BY <1>2, <2>1, JoinPlaces DEF o
  <2>3. Len(o) = 1 /\ o[1] = t
    BY <2>1 DEF o
  <2>. QED
    BY <1>1, <1>2, <2>2, <2>3 DEF o
<1>. HIDE DEF q
<1>4. /\ q \o r \in Seq(Timers) /\ Len(q \o r) = Len(q) + Len(r)
      /\ \A i \in 1 .. Len(q) + Len(r) : (q \o r)[i] = IF i <= Len(q) THEN q[i] ELSE r[i - Len(q)]
  BY <1>2, <1>3, JoinPlaces
<1>5. InsertAt(s, k, t) = q \o r
  BY DEF InsertAt, q, p, r
<1>6. Len(q \o r) = Len(s) + 1
  BY <1>1, <1>2, <1>3, <1>4
<1>7. ASSUME NEW i \in 1 .. Len(s) + 1
      PROVE  (q \o r)[i] = IF i < k THEN s[i] ELSE IF i = k THEN t ELSE s[i - 1]
  <2>1. CASE i <= k
    BY <1>1, <1>2, <1>3, <1>4, <1>6, <2>1
  <2>2. CASE i > k
    <3>1. i - k \in 1 .. Len(s) - (k - 1) /\ (k - 1) + (i - k) = i - 1
      BY <1>1, <2>2
    <3>2. (q \o r)[i] = IF i <= Len(q) THEN q[i] ELSE r[i - Len(q)]
      BY <1>4, <1>6
    <3>3. (q \o r)[i] = r[i - k]
      BY <1>1, <1>3, <2>2, <3>2
    <3>4. r[i - k] = s[i - 1]
      BY <1>2, <3>1
    <3>. QED
      BY <1>1, <2>2, <3>3, <3>4
  <2>3. i <= k \/ i > k
    BY <1>1
  <2>. QED
    BY <2>1, <2>2, <2>3
<1>. QED
  BY <1>4, <1>5, <1>6, <1>7

(* ... without its k-th timer *)
LEMMA RemovePlaces ==
  ASSUME NEW s \in Seq(Timers), NEW k \in 1 .. Len(s)
  PROVE  /\ RemoveAt(s, k) \in Seq(Timers) /\ Len(RemoveAt(s, k)) = Len(s) - 1
         /\ \A i \in 1 .. Len(s) - 1 : RemoveAt(s, k)[i] = IF i < k THEN s[i] ELSE s[i + 1]
<1>. DEFINE p == SubSeq(s, 1, k - 1)  r == SubSeq(s, k + 1, Len(s))
<1>1. Len(s) \in Nat /\ k - 1 \in 0 .. Len(s) /\ k \in 0 .. Len(s)
  BY LenProperties
<1>2. /\ p \in Seq(Timers) /\ Len(p) = k - 1 /\ \A i \in 1 .. k - 1 : p[i] = s[i]
  BY <1>1, CutPlaces
<1>3. /\ r \in Seq(Timers) /\ Len(r) = Len(s) - k
      /\ \A i \in 1 .. Len(s) - k : r[i] = s[k + i]
  BY <1>1, CutPlaces
<1>4. RemoveAt(s, k) = p \o r
  BY DEF RemoveAt
<1>. HIDE DEF p, r
<1>5. /\ p \o r \in Seq(Timers) /\ Len(p \o r) = Len(p) + Len(r)
      /\ \A i \in 1 .. Len(p) + Len(r) : (p \o r)[i] = IF i <= Len(p) THEN p[i] ELSE r[i - Len(p)]
  BY <1>2, <1>3, JoinPlaces
<1>6. Len(p \o r) = Len(s) - 1
  BY <1>1, <1>2, <1>3, <1>5
<1>7. ASSUME NEW i \in 1 .. Len(s) - 1
      PROVE  (p \o r)[i] = IF i < k THEN s[i] ELSE s[i + 1]
  <2>1. CASE i < k
    BY <1>1, <1>2, <1>5, <1>6, <2>1
  <2>2. CASE ~ (i < k)
    <3>1. i - (k - 1) \in 1 .. Len(s) - k /\ k + (i - (k - 1)) = i + 1
      BY <1>1, <2>2
    <3>2. (p \o r)[i] = r[i - (k - 1)]
      BY <1>1, <1>2, <1>3, <1>5, <1>6, <2>2
    <3>. QED
      BY <1>3, <2>2, <3>1, <3>2
  <2>. QED
    BY <2>1, <2>2
<1>. QED
  BY <1>4, <1>5, <1>6, <1>7

-----------------------------------------------------------------------------
(* f are the sums of the n differences d, the first of which does not count. *)
Chain(f, d, n) ==
  /\ f \in [1 .. n -> Int] /\ d \in [1 .. n -> Int]
  /\ \A i \in 1 .. n : f[i] = IF i = 1 THEN 0 ELSE f[i - 1] + d[i]

Ticks(list, ticks) == [i \in 1 .. Len(list) |-> ticks[list[i]]]

(* The sums of a list are such a chain ... *)
LEMMA SumsChain ==
  ASSUME NEW list \in Seq(Timers), NEW ticks \in [Timers -> Int]
  PROVE  Chain(Sums(list, ticks), Ticks(list, ticks), Len(list))
<1>1. Len(list) \in Nat /\ Ticks(list, ticks) \in [1 .. Len(list) -> Int]
  BY ElementOfSeq, LenProperties DEF Ticks
<1>. QED
  BY <1>1, SumsAre DEF AddsUp, Chain, Ticks

(* ... and the only one. *)
LEMMA ChainSums ==
  ASSUME NEW list \in Seq(Timers), NEW ticks \in [Timers -> Int], NEW n, n = Len(list),
         NEW g, Chain(g, Ticks(list, ticks), n)
  PROVE  \A k \in 1 .. n : Sums(list, ticks)[k] = g[k]
<1>1. AddsUp(g, Len(list), list, ticks)
  BY DEF AddsUp, Chain, Ticks
<1>. QED
  BY <1>1, SumsIf

(* What the changes of the list do to the sums. *)
(* A new k-th, and the one behind it has that much less. *)
InsertTicks(e, f, d, n, k, rest) ==
  /\ e \in [1 .. n + 1 -> Int]
  /\ e[k] = rest - f[k - 1]
  /\ k <= n => e[k + 1] = d[k] - e[k]
  /\ \A i \in 1 .. n + 1 : (i < k => e[i] = d[i]) /\ (i > k + 1 => e[i] = d[i - 1])
InsertSums(f, n, k, rest) ==
  [i \in 1 .. n + 1 |-> IF i < k THEN f[i] ELSE IF i = k THEN rest ELSE f[i - 1]]

(* The sums before it stay, and so do those behind. *)
LEMMA InsertChain ==
  ASSUME NEW n \in Nat, NEW f, NEW d, Chain(f, d, n), NEW k \in 2 .. n + 1, NEW rest \in Int,
         NEW e, InsertTicks(e, f, d, n, k, rest)
  PROVE  Chain(InsertSums(f, n, k, rest), e, n + 1)
<1>. DEFINE g == InsertSums(f, n, k, rest)
<1>0. /\ e \in [1 .. n + 1 -> Int]
      /\ e[k] = rest - f[k - 1]
      /\ k <= n => e[k + 1] = d[k] - e[k]
      /\ \A i \in 1 .. n + 1 : (i < k => e[i] = d[i]) /\ (i > k + 1 => e[i] = d[i - 1])
      /\ g = [i \in 1 .. n + 1 |-> IF i < k THEN f[i] ELSE IF i = k THEN rest ELSE f[i - 1]]
  BY DEF InsertTicks, InsertSums
<1>. HIDE DEF g
<1>1. /\ \A i \in 1 .. n : f[i] \in Int /\ d[i] \in Int
      /\ \A i \in 1 .. n : f[i] = IF i = 1 THEN 0 ELSE f[i - 1] + d[i]
  BY DEF Chain
<1>2. g \in [1 .. n + 1 -> Int]
  <2>1. \A i \in 1 .. n + 1 : /\ i < k => i \in 1 .. n
                              /\ ~ (i < k) /\ i # k => i - 1 \in 1 .. n
    BY <1>0
  <2>. QED
    BY <1>0, <1>1, <2>1
<1>3. ASSUME NEW i \in 1 .. n + 1
      PROVE  g[i] = IF i = 1 THEN 0 ELSE g[i - 1] + e[i]
  <2>1. CASE i < k
    <3>1. i \in 1 .. n /\ g[i] = f[i] /\ e[i] = d[i]
      BY <1>0, <2>1
    <3>2. i # 1 => i - 1 \in 1 .. n /\ g[i - 1] = f[i - 1]
      BY <1>0, <2>1
    <3>. QED
      BY <1>0, <1>1, <3>1, <3>2
  <2>2. CASE i = k
    <3>1. g[i] = rest /\ i # 1 /\ g[i - 1] = f[k - 1] /\ e[i] = rest - f[k - 1] /\ k - 1 \in 1 .. n
      BY <1>0, <2>2
    <3>2. f[k - 1] \in Int
      BY <1>0, <1>1, <3>1
    <3>3. f[k - 1] + (rest - f[k - 1]) = rest
      BY <1>0, <3>2
    <3>. QED
      BY <1>0, <3>1, <3>3
  <2>3. CASE i = k + 1
    <3>1. /\ g[i] = f[k] /\ i # 1 /\ g[i - 1] = rest /\ k \in 1 .. n /\ k # 1
          /\ k - 1 \in 1 .. n
      BY <1>0, <2>3
    <3>2. e[i] = d[k] - (rest - f[k - 1])
      BY <1>0, <2>3, <3>1
    <3>3. f[k] = f[k - 1] + d[k] /\ f[k] \in Int /\ d[k] \in Int /\ f[k - 1] \in Int
      BY <1>0, <1>1, <3>1
    <3>. DEFINE x == f[k - 1]  y == d[k]
    <3>4. x \in Int /\ y \in Int
      BY <1>0, <3>3
    <3>5. g[i] = x + y /\ g[i - 1] = rest /\ e[i] = y - (rest - x) /\ i # 1
      BY <1>0, <3>1, <3>2, <3>3
    <3>. HIDE DEF x, y
    <3>6. x + y = rest + (y - (rest - x))
      BY <1>0, <3>4
    <3>. QED
      BY <1>0, <3>5, <3>6
  <2>4. CASE i > k + 1
    <3>0. /\ ~ (i < k) /\ i # k /\ ~ (i - 1 < k) /\ i - 1 # k
          /\ i # 1 /\ i - 1 \in 1 .. n /\ i - 1 \in 1 .. n + 1 /\ i - 1 # 1
      BY <2>4
    <3>1. g[i] = f[i - 1] /\ g[i - 1] = f[(i - 1) - 1]
      BY <1>0, <3>0
    <3>2. e[i] = d[i - 1]
      BY <1>0, <2>4
    <3>3. f[i - 1] = f[(i - 1) - 1] + d[i - 1]
      BY <1>1, <3>0
    <3>. QED
      BY <3>0, <3>1, <3>2, <3>3
  <2>. QED
    BY <1>0, <2>1, <2>2, <2>3, <2>4
<1>. QED
  BY <1>0, <1>2, <1>3 DEF Chain, g

(* A new head, and the old one is due first ticks after it. *)
ConsTicks(e, d, n, first) ==
  /\ e \in [1 .. n + 1 -> Int]
  /\ \A i \in 2 .. n + 1 : e[i] = IF i = 2 THEN first ELSE d[i - 1]
ConsSums(f, n, first) == [i \in 1 .. n + 1 |-> IF i = 1 THEN 0 ELSE first + f[i - 1]]

(* All that were in the list have first ticks more. *)
LEMMA ConsChain ==
  ASSUME NEW n \in Nat, NEW f, NEW d, Chain(f, d, n), NEW first \in Int,
         NEW e, ConsTicks(e, d, n, first)
  PROVE  Chain(ConsSums(f, n, first), e, n + 1)
<1>. DEFINE g == ConsSums(f, n, first)
<1>0. /\ e \in [1 .. n + 1 -> Int]
      /\ \A i \in 2 .. n + 1 : e[i] = IF i = 2 THEN first ELSE d[i - 1]
      /\ g = [i \in 1 .. n + 1 |-> IF i = 1 THEN 0 ELSE first + f[i - 1]]
  BY DEF ConsTicks, ConsSums
<1>. HIDE DEF g
<1>1. /\ \A i \in 1 .. n : f[i] \in Int /\ d[i] \in Int
      /\ \A i \in 1 .. n : f[i] = IF i = 1 THEN 0 ELSE f[i - 1] + d[i]
  BY DEF Chain
<1>2. g \in [1 .. n + 1 -> Int]
  <2>1. \A i \in 1 .. n + 1 : i # 1 => i - 1 \in 1 .. n
    BY <1>0
  <2>. QED
    BY <1>0, <1>1, <2>1
<1>3. ASSUME NEW i \in 1 .. n + 1
      PROVE  g[i] = IF i = 1 THEN 0 ELSE g[i - 1] + e[i]
  <2>1. CASE i = 1
    BY <1>0, <2>1
  <2>2. CASE i = 2
    <3>1. g[i] = first + f[1] /\ g[i - 1] = 0 /\ e[i] = first /\ 1 \in 1 .. n
      BY <1>0, <2>2
    <3>. QED
      BY <1>0, <1>1, <2>2, <3>1
  <2>3. CASE i > 2
    <3>0. /\ i # 1 /\ i # 2 /\ i \in 2 .. n + 1 /\ i - 1 \in 1 .. n + 1
          /\ i - 1 \in 1 .. n /\ i - 1 # 1 /\ (i - 1) - 1 \in 1 .. n
      BY <2>3
    <3>1. g[i] = first + f[i - 1] /\ e[i] = d[i - 1]
      BY <1>0, <3>0
    <3>2. g[i - 1] = first + f[(i - 1) - 1]
      BY <1>0, <3>0
    <3>3. f[i - 1] = f[(i - 1) - 1] + d[i - 1] /\ f[(i - 1) - 1] \in Int /\ d[i - 1] \in Int
      BY <1>1, <3>0
    <3>. QED
      BY <3>0, <3>1, <3>2, <3>3
  <2>. QED
    BY <1>0, <2>1, <2>2, <2>3
<1>. QED
  BY <1>0, <1>2, <1>3 DEF Chain, g

(* The first m are gone. *)
CutTicks(e, d, n, m) ==
  /\ e \in [1 .. n - m -> Int]
  /\ \A i \in 2 .. n - m : e[i] = d[m + i]
CutSums(f, n, m) == [i \in 1 .. n - m |-> f[m + i] - f[m + 1]]

(* All are counted from the new head. *)
LEMMA CutChain ==
  ASSUME NEW n \in Nat, NEW f, NEW d, Chain(f, d, n), NEW m \in 0 .. n,
         NEW e, CutTicks(e, d, n, m)
  PROVE  Chain(CutSums(f, n, m), e, n - m)
<1>. DEFINE g == CutSums(f, n, m)
<1>0. /\ e \in [1 .. n - m -> Int]
      /\ \A i \in 2 .. n - m : e[i] = d[m + i]
      /\ g = [i \in 1 .. n - m |-> f[m + i] - f[m + 1]]
  BY DEF CutTicks, CutSums
<1>. HIDE DEF g
<1>1. /\ \A i \in 1 .. n : f[i] \in Int /\ d[i] \in Int
      /\ \A i \in 1 .. n : f[i] = IF i = 1 THEN 0 ELSE f[i - 1] + d[i]
  BY DEF Chain
<1>2. \A i \in 1 .. n - m : m + i \in 1 .. n /\ m + 1 \in 1 .. n
  BY <1>0
<1>3. \A i \in 1 .. n - m : g[i] = f[m + i] - f[m + 1] /\ g[i] \in Int
  BY <1>0, <1>1, <1>2
<1>4. ASSUME NEW i \in 1 .. n - m
      PROVE  g[i] = IF i = 1 THEN 0 ELSE g[i - 1] + e[i]
  <2>1. CASE i = 1
    BY <1>0, <1>1, <1>2, <1>3, <2>1
  <2>2. CASE i # 1
    <3>1. /\ e[i] = d[m + i] /\ i - 1 \in 1 .. n - m /\ m + i # 1 /\ (m + i) - 1 \in 1 .. n
          /\ m + (i - 1) = (m + i) - 1
      BY <1>0, <2>2
    <3>2. g[i - 1] = f[(m + i) - 1] - f[m + 1]
      BY <1>0, <1>3, <3>1
    <3>3. /\ f[m + i] = f[(m + i) - 1] + d[m + i] /\ f[(m + i) - 1] \in Int /\ d[m + i] \in Int
          /\ f[m + 1] \in Int
      BY <1>0, <1>1, <1>2, <3>1
    <3>4. g[i] = f[m + i] - f[m + 1]
      BY <1>0, <1>3
    <3>. QED
      BY <1>0, <2>2, <3>1, <3>2, <3>3, <3>4
  <2>. QED
    BY <1>0, <2>1, <2>2
<1>. QED
  BY <1>0, <1>3, <1>4 DEF Chain, g

(* The k-th is gone, and the one behind it has its ticks in addition. *)
RemoveTicks(e, d, n, k) ==
  /\ e \in [1 .. n - 1 -> Int]
  /\ k < n => e[k] = d[k + 1] + d[k]
  /\ \A i \in 1 .. n - 1 : (i < k => e[i] = d[i]) /\ (i > k => e[i] = d[i + 1])
RemoveSums(f, n, k) == [i \in 1 .. n - 1 |-> IF i < k THEN f[i] ELSE f[i + 1]]

(* The sums of the others stay. *)
LEMMA RemoveChain ==
  ASSUME NEW n \in Nat, NEW f, NEW d, Chain(f, d, n), NEW k \in 2 .. n,
         NEW e, RemoveTicks(e, d, n, k)
  PROVE  Chain(RemoveSums(f, n, k), e, n - 1)
<1>. DEFINE g == RemoveSums(f, n, k)
<1>0. /\ e \in [1 .. n - 1 -> Int]
      /\ k < n => e[k] = d[k + 1] + d[k]
      /\ \A i \in 1 .. n - 1 : (i < k => e[i] = d[i]) /\ (i > k => e[i] = d[i + 1])
      /\ g = [i \in 1 .. n - 1 |-> IF i < k THEN f[i] ELSE f[i + 1]]
  BY DEF RemoveTicks, RemoveSums
<1>. HIDE DEF g
<1>1. /\ \A i \in 1 .. n : f[i] \in Int /\ d[i] \in Int
      /\ \A i \in 1 .. n : f[i] = IF i = 1 THEN 0 ELSE f[i - 1] + d[i]
  BY DEF Chain
<1>2. \A i \in 1 .. n - 1 : i \in 1 .. n /\ i + 1 \in 1 .. n
  BY <1>0
<1>3. g \in [1 .. n - 1 -> Int]
  BY <1>0, <1>1, <1>2
<1>4. ASSUME NEW i \in 1 .. n - 1
      PROVE  g[i] = IF i = 1 THEN 0 ELSE g[i - 1] + e[i]
  <2>1. CASE i < k
    <3>1. i \in 1 .. n /\ g[i] = f[i] /\ e[i] = d[i]
      BY <1>0, <2>1
    <3>2. i # 1 => i - 1 \in 1 .. n /\ g[i - 1] = f[i - 1]
      BY <1>0, <2>1
    <3>. QED
      BY <1>0, <1>1, <3>1, <3>2
  <2>2. CASE i = k
    <3>1. /\ g[i] = f[k + 1] /\ i # 1 /\ g[i - 1] = f[k - 1] /\ e[i] = d[k + 1] + d[k]
          /\ k \in 1 .. n /\ k + 1 \in 1 .. n /\ k # 1 /\ k + 1 # 1 /\ k - 1 \in 1 .. n
          /\ (k + 1) - 1 = k
      BY <1>0, <2>2
    <3>2. f[k + 1] = f[k] + d[k + 1]
      BY <1>0, <1>1, <3>1
    <3>3. f[k] = f[k - 1] + d[k]
      BY <1>0, <1>1, <3>1
    <3>4. d[k + 1] \in Int /\ d[k] \in Int /\ f[k - 1] \in Int
      BY <1>0, <1>1, <3>1
    <3>. QED
      BY <3>1, <3>2, <3>3, <3>4
  <2>3. CASE i > k
    <3>1. /\ g[i] = f[i + 1] /\ e[i] = d[i + 1] /\ i # 1 /\ i + 1 \in 1 .. n /\ i + 1 # 1
          /\ (i + 1) - 1 = i /\ i - 1 \in 1 .. n - 1 /\ (i - 1) + 1 = i
      BY <1>0, <2>3
    <3>2. g[i - 1] = f[i]
      BY <1>0, <2>3
    <3>3. f[i + 1] = f[i] + d[i + 1]
      BY <1>0, <1>1, <3>1
    <3>. QED
      BY <1>0, <3>1, <3>2, <3>3
  <2>. QED
    BY <1>0, <2>1, <2>2, <2>3
<1>. QED
  BY <1>0, <1>3, <1>4 DEF Chain, g

Pos(x) == IF x > 0 THEN x ELSE 0

(* The head is gone, and over ticks of the others' have passed. *)
OverTicks(e, f, d, n, over) ==
  /\ e \in [1 .. n - 1 -> Int]
  /\ \A i \in 2 .. n : d[i] >= 0
  /\ \A i \in 1 .. n - 1 : e[i] = IF f[i + 1] <= over THEN 0
                                   ELSE IF f[i] <= over THEN f[i + 1] - over
                                   ELSE d[i + 1]
OverSums(f, n, over) == [i \in 1 .. n - 1 |-> Pos(f[i + 1] - over) - Pos(f[2] - over)]

(* Each has what is left of its sum, counted from the new head. *)
LEMMA OverChain ==
  ASSUME NEW n \in Nat \ {0}, NEW f, NEW d, Chain(f, d, n), NEW over \in Int,
         NEW e, OverTicks(e, f, d, n, over)
  PROVE  Chain(OverSums(f, n, over), e, n - 1)
<1>. DEFINE g == OverSums(f, n, over)
<1>0. /\ e \in [1 .. n - 1 -> Int]
      /\ \A i \in 2 .. n : d[i] >= 0
      /\ \A i \in 1 .. n - 1 : e[i] = IF f[i + 1] <= over THEN 0
                                       ELSE IF f[i] <= over THEN f[i + 1] - over
                                       ELSE d[i + 1]
      /\ g = [i \in 1 .. n - 1 |-> Pos(f[i + 1] - over) - Pos(f[2] - over)]
  BY DEF OverTicks, OverSums
<1>. HIDE DEF g
<1>1. /\ \A i \in 1 .. n : f[i] \in Int /\ d[i] \in Int
      /\ \A i \in 1 .. n : f[i] = IF i = 1 THEN 0 ELSE f[i - 1] + d[i]
  BY DEF Chain
<1>2. \A i \in 1 .. n - 1 : i \in 1 .. n /\ i + 1 \in 1 .. n /\ 2 \in 1 .. n
  BY <1>0
<1>3. \A i \in 1 .. n - 1 : /\ g[i] = Pos(f[i + 1] - over) - Pos(f[2] - over)
                            /\ g[i] \in Int
  BY <1>0, <1>1, <1>2 DEF Pos
<1>4. ASSUME NEW i \in 1 .. n - 1
      PROVE  g[i] = IF i = 1 THEN 0 ELSE g[i - 1] + e[i]
  <2>1. CASE i = 1
    BY <1>0, <1>1, <1>2, <1>3, <2>1 DEF Pos
  <2>2. CASE i # 1
    <3>1. i - 1 \in 1 .. n - 1 /\ (i - 1) + 1 = i /\ i + 1 # 1 /\ (i + 1) - 1 = i /\ i + 1 \in 2 .. n
      BY <1>0, <2>2
    <3>2. g[i - 1] = Pos(f[i] - over) - Pos(f[2] - over)
      BY <1>0, <1>3, <3>1
    <3>3. g[i] = Pos(f[i + 1] - over) - Pos(f[2] - over)
      BY <1>0, <1>3
    <3>4. f[i + 1] = f[i] + d[i + 1] /\ d[i + 1] >= 0 /\ f[2] \in Int
      BY <1>0, <1>1, <1>2, <3>1
    <3>5. f[i] \in Int /\ d[i + 1] \in Int /\ f[i + 1] \in Int
      BY <1>0, <1>1, <1>2
    <3>6. e[i] = IF f[i + 1] <= over THEN 0 ELSE IF f[i] <= over THEN f[i + 1] - over
                                      ELSE d[i + 1]
      BY <1>0
    <3>. DEFINE x == f[i]  y == f[i + 1]  z == d[i + 1]  w == f[2]
    <3>7. e[i] = Pos(y - over) - Pos(x - over)
      <4>1. x \in Int /\ y \in Int /\ z \in Int /\ y = x + z /\ z >= 0
        BY <3>4, <3>5
      <4>2. e[i] = IF y <= over THEN 0 ELSE IF x <= over THEN y - over ELSE z
        BY <3>6
      <4>. HIDE DEF x, y, z
      <4>3. CASE y <= over
        BY <4>1, <4>2, <4>3 DEF Pos
      <4>4. CASE y > over
        BY <4>1, <4>2, <4>4 DEF Pos
      <4>5. y <= over \/ y > over
        BY <4>1
      <4>. QED
        BY <4>3, <4>4, <4>5
    <3>8. Pos(y - over) \in Int /\ Pos(x - over) \in Int /\ Pos(w - over) \in Int
      <4>1. y - over \in Int /\ x - over \in Int /\ w - over \in Int
        BY <3>4, <3>5
      <4>2. \A q \in Int : Pos(q) \in Int
        BY DEF Pos
      <4>. QED
        BY <4>1, <4>2
    <3>. QED
      BY <2>2, <3>2, <3>3, <3>7, <3>8
  <2>. QED
    BY <1>0, <2>1, <2>2
<1>. QED
  BY <1>0, <1>3, <1>4 DEF Chain, g

-----------------------------------------------------------------------------
(* Neither TypeOK nor OnSchedule nor HardwareFollows is inductive: that the  *)
(* differences stay positive and no assertion fails rests on what the        *)
(* hardware's counters say of the head's ticks (HwLaw), and the schedule of  *)
(* the list after a step on the sums of its differences.                     *)
Hardware ==
  [on : BOOLEAN, left : Nat, since : Nat, late : 0 .. MaxLate, pending : BOOLEAN]

(* What the hardware is loaded with *)
Load(h) == IF h > 1 THEN h - 1 ELSE 1

HwTypes ==
  /\ hw \in Hardware
  /\ time \in [Timers -> Nat]
  /\ hist \in [due : [Timers -> Int], drift : [Timers -> Nat]]
  /\ cur \subseteq Timers
  /\ starts \in 0 .. MaxStarts

(* The hardware runs while there is a head, and has counted from its load *)
HwLaw ==
  /\ (hw.on <=> active # <<>>)
  /\ active # <<>> =>
       LET l == Load(time[active[1]])
       IN IF hw.since < l THEN hw.left = l - hw.since /\ hw.late = 0
                          ELSE hw.left = 0 /\ hw.late = hw.since - l

(* x ticks are left to a timer that is due in d and may be off by r. *)
Near(x, d, r) == x <= Pos(d) + r /\ x >= d - r

Scheduled ==
  \A k \in 1 .. Len(active) :
    Near(hw.left - hw.late + After(k), hist.due[active[k]], hist.drift[active[k]])

Law == HwTypes /\ HwLaw /\ Scheduled

(* Pos cuts off at zero. *)
LEMMA PosNat == \A x \in Int : Pos(x) \in Nat /\ Pos(x) >= x
BY DEF Pos

(* OnSchedule says the same with Max. *)
LEMMA MaxPos == ASSUME NEW x \in Int PROVE Max({0, x}) = Pos(x)
<1>. DEFINE m == Pos(x)
<1>1. m \in {0, x} /\ \A y \in {0, x} : m >= y
  BY DEF Pos
<1>2. \A z \in {0, x} : (\A y \in {0, x} : z >= y) => z = m
  BY DEF Pos
<1>. HIDE DEF m
<1>3. (CHOOSE z \in {0, x} : \A y \in {0, x} : z >= y) = m
  BY <1>1, <1>2
<1>. QED
  BY <1>3 DEF Max, m

(* The load is off by a tick at most, and never zero. *)
LEMMA LoadIs ==
  ASSUME NEW h \in Nat
  PROVE  /\ Load(h) \in Nat \ {0} /\ Load(h) >= h - 1 /\ Load(h) <= h + 1
         /\ h # 0 => Load(h) <= h
BY DEF Load

(* A timer that is moved by no more than c may be off by c more. *)
LEMMA Shift ==
  ASSUME NEW x \in Int, NEW d \in Int, NEW r \in Nat, Near(x, d, r),
         NEW y \in Int, NEW c \in Nat, y >= x - c, y <= x + c \/ y <= c
  PROVE  Near(y, d, r + c)
<1>. DEFINE p == Pos(d)
<1>1. p \in Nat
  BY PosNat
<1>. HIDE DEF p
<1>2. x <= p + r /\ x >= d - r
  BY DEF Near, p
<1>3. y <= p + (r + c) /\ y >= d - (r + c)
  BY <1>1, <1>2
<1>. QED
  BY <1>3 DEF Near, p

(* A record of the hardware's form with four of its fields changed *)
LEMMA RecordChange ==
  ASSUME NEW B, NEW N, NEW M,
         NEW h \in [on : B, left : N, since : N, late : M, pending : B],
         NEW a \in B, NEW b \in N, NEW c \in N, NEW d \in M
  PROVE  [h EXCEPT !.on = a, !.left = b, !.since = c, !.late = d]
           \in [on : B, left : N, since : N, late : M, pending : B]
OBVIOUS

(* A start of the hardware *)
LEMMA Started ==
  ASSUME NEW h \in Hardware, NEW load \in Nat, hw' = HwStart(h, load)
  PROVE  /\ hw' \in Hardware
         /\ hw'.on = TRUE /\ hw'.left = Load(load) /\ hw'.since = 0 /\ hw'.late = 0
<1>1. 0 \in 0 .. MaxLate
  BY HwtimerAssumption
<1>. DEFINE l == Load(load)
<1>2. l \in Nat /\ l = IF load > 1 THEN load - 1 ELSE 1
  BY LoadIs DEF Load
<1>3. hw' = [h EXCEPT !.on = TRUE, !.left = l, !.since = 0, !.late = 0]
  BY <1>2 DEF HwStart, LoadDelta
<1>. HIDE DEF l
<1>4. hw' \in Hardware
  <2>1. h \in [on : BOOLEAN, left : Nat, since : Nat, late : 0 .. MaxLate, pending : BOOLEAN]
    BY DEF Hardware
  <2>2. TRUE \in BOOLEAN /\ 0 \in Nat
    OBVIOUS
  <2>3. [h EXCEPT !.on = TRUE, !.left = l, !.since = 0, !.late = 0]
          \in [on : BOOLEAN, left : Nat, since : Nat, late : 0 .. MaxLate, pending : BOOLEAN]
    BY <1>1, <1>2, <2>1, <2>2, RecordChange, Zenon
  <2>. QED
    BY <1>3, <2>3, Zenon DEF Hardware
<1>5. hw'.left = l /\ hw'.since = 0 /\ hw'.late = 0
  BY <1>3 DEF Hardware
<1>6. hw'.on = TRUE
  BY <1>3 DEF Hardware
<1>. QED
  BY <1>4, <1>5, <1>6 DEF l

(* The hardware at rest *)
LEMMA StopIs == HwStop \in Hardware /\ HwStop.on = FALSE
<1>1. 0 \in 0 .. MaxLate
  BY HwtimerAssumption
<1>. QED
  BY <1>1 DEF HwStop, Hardware

(* The hardware is started for the head. *)
LEMMA StartedLaw ==
  ASSUME NEW h \in Hardware, NEW load \in Nat, hw' = HwStart(h, load),
         active' # <<>>, time'[active'[1]] = load
  PROVE  HwLaw'
<1>1. /\ hw'.on = TRUE /\ hw'.left = Load(load) /\ hw'.since = 0 /\ hw'.late = 0
  BY Started
<1>2. Load(load) \in Nat \ {0}
  BY LoadIs
<1>3. 0 < Load(load) /\ Load(load) - 0 = Load(load)
  BY <1>2
<1>. QED
  BY <1>1, <1>3 DEF HwLaw

(* The history of a start of the hardware *)
LEMMA Restarted ==
  ASSUME NEW h \in [due : [Timers -> Int], drift : [Timers -> Nat]], hist' = HwRestarted(h)
  PROVE  /\ hist' \in [due : [Timers -> Int], drift : [Timers -> Nat]]
         /\ \E c \in {1, 2} :
              /\ irq = "entered" \/ (hw.on /\ hw.left = 0) => c = 2
              /\ \A t \in Timers : /\ hist'.due[t] = h.due[t]
                                   /\ Contains(active', t) => hist'.drift[t] = h.drift[t] + c
<1>. DEFINE twice == irq = "entered" \/ (hw.on /\ hw.left = 0)
            c == IF twice THEN 2 ELSE 1
            new == [t \in Timers |-> IF Contains(active', t) THEN h.drift[t] + c ELSE h.drift[t]]
<1>1. hist' = [h EXCEPT !.drift = [t \in Timers |-> IF Contains(active', t) THEN @[t] + c ELSE @[t]]]
  BY DEF HwRestarted, LoadDelta
<1>2. c \in {1, 2} /\ (twice => c = 2)
  OBVIOUS
<1>. HIDE DEF c, twice
<1>3. hist' = [h EXCEPT !.drift = new]
  BY <1>1
<1>4. new \in [Timers -> Nat]
  BY <1>2
<1>5. \A t \in Timers : Contains(active', t) => new[t] = h.drift[t] + c
  OBVIOUS
<1>. HIDE DEF new
<1>6. /\ hist' \in [due : [Timers -> Int], drift : [Timers -> Nat]]
      /\ hist'.due = h.due /\ hist'.drift = new
  BY <1>3, <1>4
<1>. QED
  BY <1>2, <1>5, <1>6 DEF twice

(* Timers that stay in the list keep their history. *)
LEMMA DroppedIs ==
  ASSUME HwTypes, NEW S
  PROVE  /\ Dropped(S) \in [due : [Timers -> Int], drift : [Timers -> Nat]]
         /\ \A t \in Timers : t \notin S => /\ Dropped(S).due[t] = hist.due[t]
                                            /\ Dropped(S).drift[t] = hist.drift[t]
BY DEF HwTypes, Dropped

(* A start writes the history of its timer and no other. *)
LEMMA AskedIs ==
  ASSUME HwTypes, NEW t \in Timers, NEW ticks \in Nat, NEW off \in Nat
  PROVE  /\ Asked(t, ticks, off) \in [due : [Timers -> Int], drift : [Timers -> Nat]]
         /\ Asked(t, ticks, off).due[t] = ticks /\ Asked(t, ticks, off).drift[t] = off
         /\ \A u \in Timers : u # t => /\ Asked(t, ticks, off).due[u] = hist.due[u]
                                       /\ Asked(t, ticks, off).drift[u] = hist.drift[u]
BY DEF HwTypes, Asked

-----------------------------------------------------------------------------
(* What a list that stands for a set says of its places *)
LEMMA ListFacts ==
  ASSUME NEW s, NEW S, Listed(s, S)
  PROVE  /\ s \in Seq(Timers) /\ Len(s) \in Nat /\ (s = <<>> <=> Len(s) = 0)
         /\ s # <<>> => Head(s) = s[1] /\ 1 \in 1 .. Len(s)
         /\ \A i \in 1 .. Len(s) : s[i] \in Timers /\ Contains(s, s[i]) /\ s[i] \in S
         /\ \A i, j \in 1 .. Len(s) : s[i] = s[j] => i = j
<1>1. s \in Seq(Timers) /\ Len(s) \in Nat /\ (s = <<>> <=> Len(s) = 0)
  BY EmptySeq, LenProperties DEF Listed
<1>2. s # <<>> => Head(s) = s[1] /\ 1 \in 1 .. Len(s)
  BY <1>1, HeadTailProperties
<1>3. \A i \in 1 .. Len(s) : s[i] \in Timers
  BY <1>1, ElementOfSeq
<1>. QED
  BY <1>1, <1>2, <1>3 DEF Listed, Contains

(* The ticks after the head *)
LEMMA AfterIs ==
  ASSUME Good, Law
  PROVE  /\ Chain(Sums(active, time), Ticks(active, time), Len(active))
         /\ \A k \in 1 .. Len(active) : After(k) \in Int
         /\ active # <<>> => After(1) = 0
<1>1. active \in Seq(Timers) /\ time \in [Timers -> Int] /\ Len(active) \in Nat
  <2>1. time \in [Timers -> Nat]
    BY DEF Law, HwTypes
  <2>. QED
    BY <2>1, ListFacts DEF Good
<1>2. Chain(Sums(active, time), Ticks(active, time), Len(active))
  BY <1>1, SumsChain
<1>3. active # <<>> => 1 \in 1 .. Len(active)
  BY ListFacts DEF Good
<1>. QED
  BY <1>2, <1>3 DEF After, Chain

(* What the hardware's counters are while there is a head; an expiry that    *)
(* the code finds in the list's ticks is at most a tick off the hardware's   *)
LEMMA Numbers ==
  ASSUME Good, Law, active # <<>>
  PROVE  /\ Head(active) = active[1] /\ active[1] \in Timers /\ 1 \in 1 .. Len(active)
         /\ time[active[1]] \in Nat
         /\ hw.left \in Nat /\ hw.since \in Nat /\ hw.late \in Nat /\ Over \in Nat
         /\ hw.left # 0 => hw.late = 0
         /\ hw.left = 0 => time[active[1]] <= hw.since + 1
         /\ time[active[1]] <= hw.since + 1 =>
              Over >= hw.late - hw.left - 1 /\ Over <= hw.late - hw.left + 1
         /\ ValueOK
<1>1. Head(active) = active[1] /\ active[1] \in Timers /\ 1 \in 1 .. Len(active)
  BY ListFacts DEF Good
<1>. DEFINE h == time[active[1]]  left == hw.left  since == hw.since  late == hw.late
            l == Load(h)
<1>2. h \in Nat /\ left \in Nat /\ since \in Nat /\ late \in Nat
  <2>1. time \in [Timers -> Nat] /\ hw \in Hardware
    BY DEF Law, HwTypes
  <2>2. h \in Nat
    BY <1>1, <2>1
  <2>3. left \in Nat /\ since \in Nat /\ late \in 0 .. MaxLate
    BY <2>1 DEF Hardware
  <2>. QED
    BY <2>2, <2>3, HwtimerAssumption
<1>3. IF since < l THEN left = l - since /\ late = 0 ELSE left = 0 /\ late = since - l
  BY DEF Law, HwLaw
<1>4. Over = IF since > h THEN since - h ELSE 0
  BY <1>1 DEF Over
<1>5. ValueOK <=> (left <= h \/ left <= 1)
  BY <1>1 DEF ValueOK, LoadDelta
<1>6. l = IF h > 1 THEN h - 1 ELSE 1
  BY DEF Load
<1>. HIDE DEF h, left, since, late, l
<1>7. Over \in Nat
  BY <1>2, <1>4
<1>8. left # 0 => late = 0
  BY <1>3
<1>9. left = 0 => h <= since + 1
  BY <1>2, <1>3, <1>6
<1>10. h <= since + 1 => Over >= late - left - 1 /\ Over <= late - left + 1
  <2>1. CASE since < l
    BY <1>2, <1>3, <1>4, <1>6, <2>1
  <2>2. CASE ~ (since < l)
    BY <1>2, <1>3, <1>4, <1>6, <2>2
  <2>. QED
    BY <2>1, <2>2
<1>11. left <= h \/ left <= 1
  BY <1>2, <1>3, <1>6
<1>. QED
  BY <1>1, <1>2, <1>5, <1>7, <1>8, <1>9, <1>10, <1>11 DEF h, left, since, late

(* No assertion of the handler's, start's and stop's fails. *)
LEMMA NeverFails ==
  ASSUME failed = "none", Good, Law, [Next]_vars
  PROVE  failed' = "none"
<1>1. ASSUME NEW t \in Timers, NEW n \in 1 .. MaxTicks, Start(t, n) PROVE failed' = "none"
  BY <1>1, Numbers DEF Start
<1>2. ASSUME NEW t \in Timers, Stop(t) PROVE failed' = "none"
  <2>1. CASE StopActive(t)
    <3>1. Contains(active, t)
      BY <2>1, ListedContains DEF StopActive, Good, InState
    <3>2. active # <<>>
      BY <3>1, EmptyListed, ListedContains
    <3>3. ValueOK
      BY <3>2, Numbers
    <3>4. CASE StopLast(t) \/ StopInside(t)
      BY <3>4 DEF StopLast, StopInside
    <3>5. CASE StopHead(t)
      <4>1. time[t] <= hw.since + 1 \/ hw.left # 0
        BY <3>2, <3>5, Numbers DEF StopHead
      <4>2. time[t] \in Nat /\ hw.since \in Nat
        BY <3>2, <3>5, Numbers DEF StopHead
      <4>3. ~ (hw.left = 0 /\ hw.since + 1 < time[t])
        BY <4>1, <4>2
      <4>. QED
        BY <3>5, <4>3 DEF StopHead, LoadDelta
    <3>. QED
      BY <2>1, <3>1, <3>3, <3>4, <3>5 DEF StopActive
  <2>2. CASE StopFired(t)
    <3>1. Contains(fired, t)
      BY <2>2, ListedContains DEF StopFired, Good, InState
    <3>. QED
      BY <2>2, <3>1 DEF StopFired
  <2>. QED
    BY <1>2, <2>1, <2>2 DEF Stop
<1>3. CASE IrqFirst
  <2>1. hw.on <=> active # <<>>
    BY DEF Law, HwLaw
  <2>. QED
    BY <1>3, <2>1 DEF IrqFirst, IrqStale, IrqFire
<1>. QED
  BY <1>1, <1>2, <1>3 DEF Next, Tick, Alloc, Free, IrqEnter, IrqPop, CallbackReturn, vars

-----------------------------------------------------------------------------
(* ... and with the other four *)
LEMMA RecordCount ==
  ASSUME NEW B, NEW N, NEW M,
         NEW h \in [on : B, left : N, since : N, late : M, pending : B],
         NEW b \in N, NEW c \in N, NEW d \in M, NEW a \in B
  PROVE  [h EXCEPT !.left = b, !.since = c, !.late = d, !.pending = a]
           \in [on : B, left : N, since : N, late : M, pending : B]
OBVIOUS

(* A tick brings every expiry and every due time one nearer. *)
LEMMA TickLaw == ASSUME Good, Law, Tick PROVE Law'
<1>. DEFINE left == hw.left  since == hw.since  late == hw.late
            l2 == IF left = 0 THEN 0 ELSE left - 1
            t2 == IF left = 0 THEN late + 1 ELSE 0
            p == hw.pending \/ left = 1
            due == [t \in Timers |-> IF state[t] = "ACTIVE" THEN hist.due[t] - 1 ELSE hist.due[t]]
<1>1. /\ hw' = [hw EXCEPT !.left = l2, !.since = since + 1, !.late = t2, !.pending = p]
      /\ p \in BOOLEAN
  BY DEF Tick
<1>2. active # <<>>
  BY DEF Tick, Law, HwLaw
<1>3. /\ left \in Nat /\ since \in Nat /\ late \in Nat
      /\ left # 0 => late = 0
  BY <1>2, Numbers
<1>4. /\ l2 \in Nat /\ since + 1 \in Nat /\ t2 \in 0 .. MaxLate
  BY <1>3, HwtimerAssumption DEF Tick
<1>. HIDE DEF l2, t2, p
<1>5. hw' \in Hardware
  <2>1. hw \in [on : BOOLEAN, left : Nat, since : Nat, late : 0 .. MaxLate, pending : BOOLEAN]
    BY DEF Law, HwTypes, Hardware
  <2>2. [hw EXCEPT !.left = l2, !.since = since + 1, !.late = t2, !.pending = p]
          \in [on : BOOLEAN, left : Nat, since : Nat, late : 0 .. MaxLate, pending : BOOLEAN]
    BY <1>1, <1>4, <2>1, RecordCount, Zenon
  <2>. QED
    BY <1>1, <2>2, Zenon DEF Hardware
<1>6. /\ hw'.left = l2 /\ hw'.since = since + 1 /\ hw'.late = t2
      /\ hw'.on = hw.on
  <2>1. hw \in Hardware
    BY DEF Law, HwTypes
  <2>. QED
    BY <1>1, <2>1 DEF Hardware
<1>7. active' = active /\ time' = time /\ UNCHANGED <<cur, starts>>
  BY DEF Tick
<1>8. /\ hist' \in [due : [Timers -> Int], drift : [Timers -> Nat]]
      /\ hist'.due = due /\ hist'.drift = hist.drift
  <2>1. hist \in [due : [Timers -> Int], drift : [Timers -> Nat]]
    BY DEF Law, HwTypes
  <2>2. due \in [Timers -> Int]
    BY <2>1
  <2>3. hist' = [hist EXCEPT !.due = due]
    BY DEF Tick
  <2>. HIDE DEF due
  <2>. QED
    BY <2>1, <2>2, <2>3
<1>9. HwTypes'
  BY <1>5, <1>7, <1>8 DEF Law, HwTypes
<1>10. HwLaw'
  <2>. DEFINE l == Load(time[active[1]])
  <2>1. l \in Nat \ {0}
    BY <1>2, Numbers, LoadIs
  <2>2. IF since < l THEN left = l - since /\ late = 0 ELSE left = 0 /\ late = since - l
    BY <1>2 DEF Law, HwLaw
  <2>. HIDE DEF l, left, since, late
  <2>3. IF since + 1 < l THEN l2 = l - (since + 1) /\ t2 = 0
                         ELSE l2 = 0 /\ t2 = (since + 1) - l
    BY <1>3, <2>1, <2>2 DEF l2, t2
  <2>4. hw.on <=> active # <<>>
    BY DEF Law, HwLaw
  <2>. QED
    BY <1>6, <1>7, <2>3, <2>4 DEF HwLaw, l
<1>11. ASSUME NEW k \in 1 .. Len(active)
       PROVE  Near(l2 - t2 + After(k), hist'.due[active[k]], hist'.drift[active[k]])
  <2>. DEFINE a == After(k)  t == active[k]  d == hist.due[t]  r == hist.drift[t]
  <2>1. t \in Timers /\ state[t] = "ACTIVE"
    BY ListFacts DEF Good, InState
  <2>2. hist'.due[t] = d - 1 /\ hist'.drift[t] = r
    BY <1>8, <2>1
  <2>3. Near(left - late + a, d, r)
    BY DEF Law, Scheduled
  <2>4. a \in Int /\ d \in Int /\ r \in Nat
    BY <2>1, AfterIs DEF Law, HwTypes
  <2>. HIDE DEF a, d, r, left, since, late
  <2>5. l2 - t2 + a = (left - late + a) - 1 /\ left - late + a \in Int
    BY <1>3, <2>4 DEF l2, t2
  <2>. DEFINE x == left - late + a
  <2>6. x \in Int /\ Near(x, d, r) /\ l2 - t2 + a = x - 1
    BY <2>3, <2>5
  <2>. HIDE DEF x
  <2>7. Near(x - 1, d - 1, r)
    BY <2>4, <2>6 DEF Near, Pos
  <2>8. Near(l2 - t2 + a, hist'.due[t], hist'.drift[t])
    BY <2>2, <2>6, <2>7, Zenon
  <2>. QED
    BY <2>8 DEF a
<1>12. Scheduled'
  BY <1>6, <1>7, <1>11 DEF Scheduled, After
<1>. QED
  BY <1>9, <1>10, <1>12 DEF Law

(* Nothing of the timing changes. *)
LEMMA SameLaw ==
  ASSUME Law, UNCHANGED <<active, time, hist>>, hw' \in Hardware,
         hw'.on = hw.on, hw'.left = hw.left, hw'.since = hw.since, hw'.late = hw.late,
         cur' \subseteq Timers, starts' \in 0 .. MaxStarts
  PROVE  Law'
<1>1. HwTypes'
  BY DEF Law, HwTypes
<1>2. HwLaw'
  BY DEF Law, HwLaw
<1>3. Scheduled'
  BY DEF Law, Scheduled, After
<1>. QED
  BY <1>1, <1>2, <1>3 DEF Law

-----------------------------------------------------------------------------
(* The hardware is started for a new head: what is left to show is that the *)
(* timers of the list are near enough for a start that costs c ticks.       *)
Costs(c) == c \in {1, 2} /\ (irq = "entered" \/ (hw.on /\ hw.left = 0) => c = 2)

AllNear(load, g) ==
  \A c : Costs(c) => \A k \in 1 .. Len(active') :
    Near(Load(load) + Sums(active', time')[k], g.due[active'[k]], g.drift[active'[k]] + c)

(* So is the law kept by every start of the hardware. *)
LEMMA FreshLaw ==
  ASSUME NEW h \in Hardware, NEW load \in Nat, hw' = HwStart(h, load),
         time' \in [Timers -> Nat],
         NEW g \in [due : [Timers -> Int], drift : [Timers -> Nat]], hist' = HwRestarted(g),
         NEW S, Listed(active', S), active' # <<>>, time'[active'[1]] = load,
         cur' \subseteq Timers, starts' \in 0 .. MaxStarts,
         AllNear(load, g)
  PROVE  Law'
<1>1. /\ hw' \in Hardware
      /\ hw'.left = Load(load) /\ hw'.late = 0
  BY Started
<1>2. HwLaw'
  BY StartedLaw
<1>3. PICK c \in {1, 2} :
         /\ irq = "entered" \/ (hw.on /\ hw.left = 0) => c = 2
         /\ \A t \in Timers : /\ hist'.due[t] = g.due[t]
                              /\ Contains(active', t) => hist'.drift[t] = g.drift[t] + c
  BY Restarted
<1>4. hist' \in [due : [Timers -> Int], drift : [Timers -> Nat]]
  BY Restarted
<1>5. HwTypes'
  BY <1>1, <1>4 DEF HwTypes
<1>6. ASSUME NEW k \in 1 .. Len(active')
      PROVE  Near(hw'.left - hw'.late + Sums(active', time')[k], hist'.due[active'[k]], hist'.drift[active'[k]])
  <2>1. Costs(c)
    BY <1>3 DEF Costs
  <2>2. Near(Load(load) + Sums(active', time')[k], g.due[active'[k]], g.drift[active'[k]] + c)
    BY <2>1 DEF AllNear
  <2>3. active'[k] \in Timers /\ Contains(active', active'[k])
    BY ListFacts
  <2>4. Load(load) - 0 = Load(load)
    BY LoadIs
  <2>5. hist'.due[active'[k]] = g.due[active'[k]] /\ hist'.drift[active'[k]] = g.drift[active'[k]] + c
    BY <1>3, <2>3
  <2>6. hw'.left - hw'.late = Load(load)
    BY <1>1, <2>4
  <2>. QED
    BY <2>2, <2>5, <2>6
<1>7. Scheduled'
  BY <1>6 DEF Scheduled, After
<1>. QED
  BY <1>2, <1>5, <1>7 DEF Law

(* The first timer of an empty list *)
LEMMA StartFirstLaw ==
  ASSUME Good, Law, NEW t \in Timers, NEW n \in 1 .. MaxTicks, StartFirst(t, n),
         cur' \subseteq Timers, starts' \in 0 .. MaxStarts
  PROVE  Law'
<1>. DEFINE g == Asked(t, n, 0)
<1>1. n \in Nat /\ n >= 1
  BY HwtimerAssumption
<1>2. /\ hw' = HwStart(hw, n) /\ time' = [time EXCEPT ![t] = n]
      /\ hist' = HwRestarted(g) /\ active' = <<t>>
  BY DEF StartFirst
<1>3. HwTypes
  BY DEF Law
<1>4. /\ g \in [due : [Timers -> Int], drift : [Timers -> Nat]]
      /\ g.due[t] = n /\ g.drift[t] = 0
  BY <1>1, <1>3 DEF HwTypes, Asked
<1>5. hw \in Hardware /\ time' \in [Timers -> Nat] /\ time'[t] = n
  BY <1>1, <1>2, <1>3 DEF HwTypes
<1>. HIDE DEF g
<1>6. Listed(active', {t})
  BY <1>2, SingleListed
<1>7. active' # <<>> /\ Len(active') = 1 /\ active'[1] = t /\ active' \in Seq(Timers)
  BY <1>2
<1>8. Sums(active', time')[1] = 0
  <2>1. time' \in [Timers -> Int] /\ 1 \in 1 .. Len(active')
    BY <1>5, <1>7
  <2>. QED
    BY <1>7, <2>1, SumsStep
<1>9. ASSUME NEW c, Costs(c), NEW k \in 1 .. Len(active')
      PROVE  Near(Load(n) + Sums(active', time')[k], g.due[active'[k]], g.drift[active'[k]] + c)
  <2>1. k = 1 /\ c \in {1, 2}
    BY <1>7, <1>9 DEF Costs
  <2>. DEFINE l == Load(n)
  <2>2. l \in Nat /\ l >= n - 1 /\ l <= n
    BY <1>1, LoadIs
  <2>. HIDE DEF l
  <2>3. Near(l + 0, n, 0 + c)
    BY <1>1, <2>1, <2>2 DEF Near, Pos
  <2>. QED
    BY <1>4, <1>7, <1>8, <2>1, <2>3 DEF l
<1>10. AllNear(n, g)
  BY <1>9 DEF AllNear
<1>11. time'[active'[1]] = n
  BY <1>5, <1>7
<1>. QED
  BY <1>1, <1>2, <1>4, <1>5, <1>6, <1>7, <1>10, <1>11, FreshLaw

(* A timer due before the head *)
LEMMA StartAheadLaw ==
  ASSUME Good, Law, NEW t \in Timers, state[t] # "ACTIVE",
         NEW n \in 1 .. MaxTicks, StartAhead(t, n), Listed(active', InState("ACTIVE") \cup {t}),
         cur' \subseteq Timers, starts' \in 0 .. MaxStarts
  PROVE  Law'
<1>. DEFINE g == Asked(t, n, 0)  h == active[1]  first == hw.left - n  m == Len(active)
            S == Sums(active, time)
<1>1. n \in Nat /\ n >= 1
  BY HwtimerAssumption
<1>2. /\ active # <<>> /\ hw.left > n
      /\ hw' = HwStart(HwStop, n)
      /\ hist' = HwRestarted(g) /\ active' = <<t>> \o active
  BY DEF StartAhead
<1>3. HwTypes
  BY DEF Law
<1>4. /\ g \in [due : [Timers -> Int], drift : [Timers -> Nat]]
      /\ g.due[t] = n /\ g.drift[t] = 0
      /\ \A u \in Timers : u # t => g.due[u] = hist.due[u] /\ g.drift[u] = hist.drift[u]
  BY <1>1, <1>3, AskedIs
<1>. HIDE DEF g
<1>5. h \in Timers /\ 1 \in 1 .. m /\ m \in Nat /\ active \in Seq(Timers)
  BY <1>2, Numbers, ListFacts DEF Good
<1>6. first \in Nat /\ hw.late = 0 /\ hw.left \in Nat
  BY <1>1, <1>2, Numbers
<1>7. time' = [time EXCEPT ![t] = n, ![h] = first]
  BY <1>2, Numbers DEF StartAhead
<1>8. /\ \A i \in 1 .. m : active[i] \in Timers /\ active[i] # t /\ (i # 1 => active[i] # h)
  BY <1>5, ListFacts DEF Good, InState
<1>9. /\ time' \in [Timers -> Nat] /\ time'[t] = n
      /\ \A i \in 1 .. m : time'[active[i]] = IF i = 1 THEN first ELSE time[active[i]]
  <2>1. time \in [Timers -> Nat]
    BY <1>3 DEF HwTypes
  <2>2. h # t
    BY <1>5, <1>8
  <2>. HIDE DEF first, h
  <2>3. time' \in [Timers -> Nat] /\ time'[t] = n
    BY <1>1, <1>5, <1>6, <1>7, <2>1, <2>2
  <2>4. \A u \in Timers : u # t => time'[u] = IF u = h THEN first ELSE time[u]
    BY <1>5, <1>7, <2>1
  <2>5. \A i \in 1 .. m : i = 1 => active[i] = h
    BY DEF h
  <2>. QED
    BY <1>8, <2>3, <2>4, <2>5
<1>10. /\ active' \in Seq(Timers) /\ Len(active') = m + 1
       /\ \A i \in 1 .. m + 1 : active'[i] = IF i = 1 THEN t ELSE active[i - 1]
  BY <1>2, <1>5, ConsPlaces
<1>. DEFINE e == Ticks(active', time')
<1>11. Chain(ConsSums(S, m, first), e, m + 1)
  <2>1. Chain(S, Ticks(active, time), m)
    BY AfterIs
  <2>2. e \in [1 .. m + 1 -> Int]
    <3>1. \A i \in 1 .. m + 1 : active'[i] \in Timers
      BY <1>10, ElementOfSeq
    <3>. QED
      BY <1>9, <1>10, <3>1 DEF Ticks
  <2>3. \A i \in 2 .. m + 1 : e[i] = IF i = 2 THEN first ELSE Ticks(active, time)[i - 1]
    <3>1. \A i \in 2 .. m + 1 : i \in 1 .. m + 1 /\ i - 1 \in 1 .. m /\ active'[i] = active[i - 1]
      BY <1>5, <1>10
    <3>2. \A i \in 2 .. m + 1 : e[i] = time'[active[i - 1]]
      BY <1>10, <3>1 DEF Ticks
    <3>3. \A i \in 2 .. m + 1 : (i - 1 = 1 <=> i = 2)
      OBVIOUS
    <3>4. \A i \in 1 .. m : Ticks(active, time)[i] = time[active[i]]
      BY DEF Ticks
    <3>. HIDE DEF e, first
    <3>. QED
      BY <1>9, <3>1, <3>2, <3>3, <3>4
  <2>4. first \in Int /\ m \in Nat
    BY <1>5, <1>6
  <2>. HIDE DEF e, first, S, m
  <2>5. ConsTicks(e, Ticks(active, time), m, first)
    BY <2>2, <2>3 DEF ConsTicks
  <2>. QED
    BY <2>1, <2>4, <2>5, ConsChain
<1>12. \A k \in 1 .. m + 1 : Sums(active', time')[k] = IF k = 1 THEN 0 ELSE first + S[k - 1]
  <2>1. time' \in [Timers -> Int]
    BY <1>9
  <2>2. \A k \in 1 .. m + 1 : Sums(active', time')[k] = ConsSums(S, m, first)[k]
    <3>1. active' \in Seq(Timers) /\ m + 1 = Len(active')
      BY <1>10
    <3>. HIDE DEF m, first, S
    <3>. QED
      BY <1>11, <2>1, <3>1, ChainSums
  <2>. QED
    BY <2>2 DEF ConsSums
<1>13. ASSUME NEW c, Costs(c), NEW k \in 1 .. Len(active')
       PROVE  Near(Load(n) + Sums(active', time')[k], g.due[active'[k]], g.drift[active'[k]] + c)
  <2>0. c \in {1, 2} /\ k \in 1 .. m + 1
    BY <1>10, <1>13 DEF Costs
  <2>. DEFINE l == Load(n)
  <2>1. l \in Nat /\ l >= n - 1 /\ l <= n
    BY <1>1, LoadIs
  <2>2. CASE k = 1
    <3>1. Near(l + 0, n, 0 + c)
      <4>. HIDE DEF l
      <4>. QED
        BY <1>1, <2>0, <2>1 DEF Near, Pos
    <3>2. Sums(active', time')[k] = 0 /\ active'[k] = t
      BY <1>10, <1>12, <2>0, <2>2
    <3>. QED
      BY <1>4, <3>1, <3>2
  <2>3. CASE k # 1
    <3>. DEFINE j == k - 1  u == active[j]  a == After(j)  x == hw.left - hw.late + a
                d == hist.due[u]  r == hist.drift[u]
    <3>1. j \in 1 .. m /\ active'[k] = u /\ u \in Timers /\ u # t
      BY <1>5, <1>8, <1>10, <2>0, <2>3
    <3>2. Sums(active', time')[k] = first + a
      BY <1>12, <2>0, <2>3 DEF After
    <3>3. Near(x, d, r)
      BY <3>1 DEF Law, Scheduled
    <3>4. a \in Int /\ d \in Int /\ r \in Nat
      BY <3>1, AfterIs, <1>3 DEF HwTypes
    <3>5. g.due[u] = d /\ g.drift[u] = r
      BY <1>4, <3>1
    <3>. DEFINE y == l + (first + a)
    <3>6. x \in Int /\ y \in Int /\ y >= x - c /\ y <= x + c
      <4>. DEFINE w == hw.left
      <4>1. w \in Nat /\ x = w - 0 + a /\ y = l + ((w - n) + a)
        BY <1>6
      <4>. HIDE DEF a, l, w, x, y
      <4>2. x = w + a
        BY <3>4, <4>1
      <4>. QED
        BY <1>1, <2>0, <2>1, <3>4, <4>1, <4>2
    <3>7. c \in Nat
      BY <2>0
    <3>. HIDE DEF x, y, d, r
    <3>8. Near(y, d, r + c)
      BY <3>3, <3>4, <3>6, <3>7, Shift
    <3>. QED
      BY <3>1, <3>2, <3>5, <3>8 DEF y
  <2>. QED
    BY <2>2, <2>3
<1>14. AllNear(n, g)
  BY <1>13 DEF AllNear
<1>15. active' # <<>> /\ time'[active'[1]] = n
  <2>1. Len(active') # 0 /\ 1 \in 1 .. m + 1
    BY <1>5, <1>10
  <2>. QED
    BY <1>9, <1>10, <2>1, ListFacts
<1>. QED
  BY <1>1, <1>2, <1>4, <1>9, <1>14, <1>15, StopIs, FreshLaw

-----------------------------------------------------------------------------
(* The head stays, and the hardware with it. *)
LEMMA SameHead ==
  ASSUME HwLaw, hw' = hw, active # <<>>, active' # <<>>, active'[1] = active[1],
         time'[active[1]] = time[active[1]]
  PROVE  HwLaw'
BY DEF HwLaw

(* t put in as the k-th, the one behind it giving up t's difference *)
PutIn(t, k, rest) ==
  /\ IsPlace(k, rest)
  /\ active' = InsertAt(active, k, t)
  /\ time' = [u \in Timers |-> IF u = t THEN rest - After(k - 1)
                               ELSE IF k <= Len(active) /\ u = active[k]
                                    THEN time[u] - (rest - After(k - 1))
                               ELSE time[u]]

(* The differences of a timer put in behind the head *)
LEMMA BehindTicks ==
  ASSUME Good, Law, NEW t \in Timers, state[t] # "ACTIVE", active # <<>>,
         NEW k \in 2 .. Len(active) + 1, NEW rest \in Nat, PutIn(t, k, rest)
  PROVE  /\ time' \in [Timers -> Nat] /\ time'[active[1]] = time[active[1]]
         /\ active' \in Seq(Timers) /\ Len(active') = Len(active) + 1
         /\ \A i \in 1 .. Len(active) + 1 :
              active'[i] = IF i < k THEN active[i] ELSE IF i = k THEN t ELSE active[i - 1]
         /\ \A i \in 1 .. Len(active) + 1 : Sums(active', time')[i] =
              IF i < k THEN After(i) ELSE IF i = k THEN rest ELSE After(i - 1)
<1>. DEFINE m == Len(active)  S == Sums(active, time)  d == Ticks(active, time)
            e == Ticks(active', time')  mine == rest - After(k - 1)
<1>0. /\ mine = rest - After(k - 1)
      /\ time' = [u \in Timers |-> IF u = t THEN mine
                                   ELSE IF k <= m /\ u = active[k] THEN time[u] - mine
                                   ELSE time[u]]
      /\ active' = InsertAt(active, k, t) /\ IsPlace(k, rest)
  BY DEF PutIn
<1>. HIDE DEF mine
<1>1. /\ active \in Seq(Timers) /\ m \in Nat /\ 1 \in 1 .. m /\ time \in [Timers -> Nat]
      /\ \A i \in 1 .. m : active[i] \in Timers /\ active[i] # t
      /\ \A i, j \in 1 .. m : active[i] = active[j] => i = j
  <2>1. Listed(active, InState("ACTIVE")) /\ t \notin InState("ACTIVE")
    BY DEF Good, InState
  <2>2. /\ active \in Seq(Timers) /\ m \in Nat /\ 1 \in 1 .. m
        /\ \A i \in 1 .. m : active[i] \in Timers /\ active[i] \in InState("ACTIVE")
        /\ \A i, j \in 1 .. m : active[i] = active[j] => i = j
    BY <2>1, ListFacts
  <2>3. time \in [Timers -> Nat]
    BY DEF Law, HwTypes
  <2>. QED
    BY <2>1, <2>2, <2>3
<1>2. /\ Chain(S, d, m) /\ After(1) = 0
      /\ \A i \in 1 .. m : After(i) \in Int /\ S[i] = After(i)
  BY AfterIs DEF After
<1>3. \A i \in 1 .. m : d[i] = time[active[i]] /\ d[i] \in Nat
  BY <1>1 DEF Ticks
<1>4. /\ active' \in Seq(Timers) /\ Len(active') = m + 1
      /\ \A i \in 1 .. m + 1 :
           active'[i] = IF i < k THEN active[i] ELSE IF i = k THEN t ELSE active[i - 1]
  <2>1. k \in 1 .. Len(active) + 1 /\ active \in Seq(Timers)
    BY <1>1
  <2>2. /\ InsertAt(active, k, t) \in Seq(Timers) /\ Len(InsertAt(active, k, t)) = m + 1
        /\ \A i \in 1 .. m + 1 : InsertAt(active, k, t)[i] =
             IF i < k THEN active[i] ELSE IF i = k THEN t ELSE active[i - 1]
    BY <2>1, InsertPlaces
  <2>. QED
    BY <1>0, <2>2
<1>5. mine \in Nat
  <2>1. k - 1 \in 1 .. m /\ After(k - 1) <= rest
    <3>1. CASE k = 2
      BY <1>1, <1>2, <3>1
    <3>2. CASE k # 2
      <4>1. k - 1 \in 2 .. k - 1 /\ k - 1 \in 1 .. m
        BY <1>1, <3>2
      <4>2. After(k - 1) < rest
        BY <1>0, <4>1 DEF IsPlace
      <4>. QED
        BY <1>2, <4>1, <4>2
    <3>. QED
      BY <3>1, <3>2
  <2>2. After(k - 1) \in Int
    BY <1>2, <2>1
  <2>. QED
    BY <1>0, <2>1, <2>2
<1>6. k <= m => k \in 1 .. m /\ d[k] - mine \in Nat
  <2>. SUFFICES ASSUME k <= m PROVE k \in 1 .. m /\ d[k] - mine \in Nat
    OBVIOUS
  <2>1. k \in 1 .. m /\ k # 1 /\ k - 1 \in 1 .. m
    BY <1>1
  <2>2. After(k) >= rest
    BY <1>0 DEF IsPlace
  <2>3. After(k) = After(k - 1) + d[k]
    <3>1. S[k] = S[k - 1] + d[k]
      BY <1>2, <2>1 DEF Chain
    <3>. QED
      BY <1>2, <2>1, <3>1
  <2>4. After(k - 1) \in Int /\ d[k] \in Nat
    BY <1>2, <1>3, <2>1
  <2>. DEFINE x == After(k - 1)  y == d[k]  z == After(k)
  <2>5. x \in Int /\ y \in Nat /\ z = x + y /\ z >= rest /\ mine = rest - x
    BY <1>0, <2>2, <2>3, <2>4
  <2>. HIDE DEF x, y, z
  <2>6. y - mine \in Nat
    BY <2>5
  <2>. QED
    BY <2>1, <2>6 DEF y
<1>7. /\ time'[t] = mine
      /\ \A i \in 1 .. m : time'[active[i]] = IF i = k THEN d[i] - mine ELSE d[i]
  <2>1. \A i \in 1 .. m : (k <= m /\ active[i] = active[k]) <=> i = k
    BY <1>1
  <2>. QED
    BY <1>0, <1>1, <1>3, <2>1
<1>8. time' \in [Timers -> Nat]
  <2>1. ASSUME NEW u \in Timers
        PROVE  (IF u = t THEN mine ELSE IF k <= m /\ u = active[k] THEN time[u] - mine
                ELSE time[u]) \in Nat
    <3>1. k <= m /\ u = active[k] => time[u] - mine \in Nat
      BY <1>3, <1>6
    <3>. QED
      BY <1>1, <1>5, <3>1
  <2>. QED
    BY <1>0, <2>1
<1>9. Chain(InsertSums(S, m, k, rest), e, m + 1)
  <2>1. e \in [1 .. m + 1 -> Int]
    <3>1. \A i \in 1 .. m + 1 : active'[i] \in Timers
      BY <1>4, ElementOfSeq
    <3>. QED
      BY <1>4, <1>8, <3>1 DEF Ticks
  <2>2. \A i \in 1 .. m + 1 : e[i] = time'[active'[i]]
    BY <1>4 DEF Ticks
  <2>3. e[k] = mine
    <3>1. k \in 1 .. m + 1 /\ active'[k] = t
      BY <1>1, <1>4
    <3>. QED
      BY <1>7, <2>2, <3>1
  <2>4. k <= m => e[k + 1] = d[k] - mine
    <3>. SUFFICES ASSUME k <= m PROVE e[k + 1] = d[k] - mine
      OBVIOUS
    <3>1. k + 1 \in 1 .. m + 1 /\ k \in 1 .. m /\ ~ (k + 1 < k) /\ k + 1 # k /\ (k + 1) - 1 = k
      BY <1>1
    <3>2. active'[k + 1] = active[(k + 1) - 1]
      BY <1>4, <3>1
    <3>. QED
      BY <1>7, <2>2, <3>1, <3>2
  <2>5. ASSUME NEW i \in 1 .. m + 1, i < k PROVE e[i] = d[i]
    <3>1. i \in 1 .. m /\ i # k /\ active'[i] = active[i]
      BY <1>1, <1>4, <2>5
    <3>. QED
      BY <1>7, <2>2, <3>1
  <2>6. ASSUME NEW i \in 1 .. m + 1, i > k + 1 PROVE e[i] = d[i - 1]
    <3>1. i - 1 \in 1 .. m /\ i - 1 # k /\ active'[i] = active[i - 1]
      BY <1>1, <1>4, <2>6
    <3>. QED
      BY <1>7, <2>2, <3>1
  <2>7. mine = rest - S[k - 1]
    <3>1. k - 1 \in 1 .. m
      BY <1>1
    <3>. QED
      BY <1>0, <1>2, <3>1
  <2>8. rest \in Int /\ m \in Nat
    BY <1>1
  <2>. HIDE DEF S, d, e, m
  <2>9. InsertTicks(e, S, d, m, k, rest)
    BY <2>1, <2>3, <2>4, <2>5, <2>6, <2>7 DEF InsertTicks
  <2>10. k \in 2 .. m + 1
    BY DEF m
  <2>. QED
    BY <1>2, <2>8, <2>9, <2>10, InsertChain
<1>10. \A i \in 1 .. m + 1 : Sums(active', time')[i] =
         IF i < k THEN After(i) ELSE IF i = k THEN rest ELSE After(i - 1)
  <2>1. time' \in [Timers -> Int]
    BY <1>8
  <2>2. \A i \in 1 .. m + 1 : Sums(active', time')[i] = InsertSums(S, m, k, rest)[i]
    <3>1. active' \in Seq(Timers) /\ m + 1 = Len(active')
      BY <1>4
    <3>. HIDE DEF m, S
    <3>. QED
      BY <1>9, <2>1, <3>1, ChainSums
  <2>. QED
    BY <2>2 DEF InsertSums, After
<1>11. time'[active[1]] = time[active[1]]
  BY <1>1, <1>3, <1>7
<1>. QED
  BY <1>4, <1>8, <1>10, <1>11

(* A timer due behind the head *)
LEMMA StartBehindLaw ==
  ASSUME Good, Law, NEW t \in Timers, state[t] # "ACTIVE",
         NEW n \in 1 .. MaxTicks, StartBehind(t, n),
         cur' \subseteq Timers, starts' \in 0 .. MaxStarts
  PROVE  Law'
<1>. DEFINE rest == n - hw.left  m == Len(active)  L == hw.left  z == hw.late
<1>1. n \in Nat /\ hw.left \in Nat /\ hw.late \in Nat /\ active # <<>> /\ hw.left <= n
  BY HwtimerAssumption, Numbers DEF StartBehind
<1>2. rest \in Nat
  BY <1>1
<1>3. hw' = hw /\ hist' = Asked(t, n, hw.late)
  BY DEF StartBehind
<1>4. PICK k \in 2 .. m + 1 : PutIn(t, k, rest)
  BY DEF StartBehind, PutIn
<1>5. /\ time' \in [Timers -> Nat] /\ time'[active[1]] = time[active[1]]
      /\ active' \in Seq(Timers) /\ Len(active') = m + 1
      /\ \A i \in 1 .. m + 1 :
           active'[i] = IF i < k THEN active[i] ELSE IF i = k THEN t ELSE active[i - 1]
      /\ \A i \in 1 .. m + 1 : Sums(active', time')[i] =
           IF i < k THEN After(i) ELSE IF i = k THEN rest ELSE After(i - 1)
  <2>. HIDE DEF rest
  <2>. QED
    BY <1>1, <1>2, <1>4, BehindTicks
<1>6. HwTypes
  BY DEF Law
<1>7. /\ hist' \in [due : [Timers -> Int], drift : [Timers -> Nat]]
      /\ hist'.due[t] = n /\ hist'.drift[t] = hw.late
      /\ \A u \in Timers : u # t => hist'.due[u] = hist.due[u] /\ hist'.drift[u] = hist.drift[u]
  BY <1>1, <1>3, <1>6 DEF HwTypes, Asked
<1>8. HwTypes'
  BY <1>3, <1>5, <1>6, <1>7 DEF HwTypes
<1>9. /\ m \in Nat /\ 1 \in 1 .. m
      /\ \A i \in 1 .. m : active[i] \in Timers /\ active[i] # t
  BY <1>1, ListFacts DEF Good, InState
<1>10. HwLaw'
  <2>1. active' # <<>> /\ active'[1] = active[1]
    BY <1>5, <1>9
  <2>. QED
    BY <1>1, <1>3, <1>5, <2>1, SameHead DEF Law
<1>11. ASSUME NEW j \in 1 .. m
       PROVE  Near(L - z + After(j), hist'.due[active[j]], hist'.drift[active[j]])
  BY <1>7, <1>9 DEF Law, Scheduled
<1>12. Near(L - z + rest, hist'.due[t], hist'.drift[t])
  <2>1. L - z + rest = n - z
    BY <1>1
  <2>. HIDE DEF z, L, rest
  <2>2. n \in Nat /\ z \in Nat
    BY <1>1 DEF z
  <2>3. Near(n - z, n, z)
    BY <2>2 DEF Near, Pos
  <2>. QED
    BY <1>7, <2>1, <2>3 DEF z
<1>13. ASSUME NEW i \in 1 .. m + 1
       PROVE  Near(L - z + Sums(active', time')[i], hist'.due[active'[i]], hist'.drift[active'[i]])
  <2>1. CASE i < k
    <3>1. i \in 1 .. m
      BY <1>9, <2>1
    <3>. QED
      BY <1>5, <1>11, <2>1, <3>1
  <2>2. CASE i = k
    BY <1>5, <1>12, <2>2
  <2>3. CASE ~ (i < k) /\ i # k
    <3>1. i - 1 \in 1 .. m
      BY <1>9, <2>3
    <3>. QED
      BY <1>5, <1>11, <2>3, <3>1
  <2>. QED
    BY <2>1, <2>2, <2>3
<1>14. Scheduled'
  BY <1>3, <1>5, <1>13 DEF Scheduled, After
<1>. QED
  BY <1>8, <1>10, <1>14 DEF Law

-----------------------------------------------------------------------------
(* The list is empty, and the hardware stands. *)
LEMMA EmptyLaw ==
  ASSUME Law, NEW S, active' = <<>>, hw' = HwStop, time' = Zero, hist' = Dropped(S),
         cur' \subseteq Timers, starts' \in 0 .. MaxStarts
  PROVE  Law'
<1>1. HwTypes
  BY DEF Law
<1>2. HwTypes'
  <2>1. time' \in [Timers -> Nat]
    BY DEF Zero
  <2>2. hist' \in [due : [Timers -> Int], drift : [Timers -> Nat]]
    BY <1>1, DroppedIs
  <2>. QED
    BY <2>1, <2>2, StopIs DEF HwTypes
<1>3. HwLaw'
  BY StopIs DEF HwLaw
<1>4. Scheduled'
  BY EmptySeq DEF Scheduled
<1>. QED
  BY <1>2, <1>3, <1>4 DEF Law

(* A timer behind the head goes, and its ticks to the one after it. *)
LEMMA StopInsideLaw ==
  ASSUME Good, Law, NEW t \in Timers, StopInside(t),
         cur' \subseteq Timers, starts' \in 0 .. MaxStarts
  PROVE  Law'
<1>. DEFINE m == Len(active)  S == Sums(active, time)  d == Ticks(active, time)
            e == Ticks(active', time')
<1>1. PICK k \in 2 .. m :
        /\ active[k] = t
        /\ active' = RemoveAt(active, k)
        /\ time' = [u \in Timers |-> IF u = t THEN 0
                                     ELSE IF k < m /\ u = active[k + 1] THEN time[u] + time[t]
                                     ELSE time[u]]
  BY DEF StopInside
<1>2. hw' = hw /\ hist' = Dropped({t})
  BY DEF StopInside
<1>3. /\ active \in Seq(Timers) /\ m \in Nat /\ time \in [Timers -> Nat]
      /\ \A i \in 1 .. m : active[i] \in Timers
      /\ \A i, j \in 1 .. m : active[i] = active[j] => i = j
      /\ k \in 1 .. m /\ 1 \in 1 .. m /\ active # <<>>
  <2>1. Listed(active, InState("ACTIVE"))
    BY DEF Good
  <2>2. /\ active \in Seq(Timers) /\ m \in Nat /\ (active = <<>> <=> m = 0)
        /\ \A i \in 1 .. m : active[i] \in Timers
        /\ \A i, j \in 1 .. m : active[i] = active[j] => i = j
    BY <2>1, ListFacts
  <2>3. time \in [Timers -> Nat]
    BY DEF Law, HwTypes
  <2>. QED
    BY <2>2, <2>3
<1>4. /\ Chain(S, d, m)
      /\ \A i \in 1 .. m : After(i) \in Int /\ S[i] = After(i)
  BY AfterIs DEF After
<1>5. \A i \in 1 .. m : d[i] = time[active[i]] /\ d[i] \in Nat
  BY <1>3 DEF Ticks
<1>6. /\ active' \in Seq(Timers) /\ Len(active') = m - 1
      /\ \A i \in 1 .. m - 1 : active'[i] = IF i < k THEN active[i] ELSE active[i + 1]
  BY <1>1, <1>3, RemovePlaces
<1>7. /\ time' \in [Timers -> Nat]
      /\ \A i \in 1 .. m : i # k => time'[active[i]] = IF i = k + 1 THEN d[i] + d[k] ELSE d[i]
  <2>1. \A i \in 1 .. m : i # k => active[i] # t /\ ((k < m /\ active[i] = active[k + 1]) <=> i = k + 1)
    <3>1. k < m => k + 1 \in 1 .. m
      BY <1>3
    <3>2. \A i \in 1 .. m : i = k + 1 => k < m
      BY <1>3
    <3>. QED
      BY <1>1, <1>3, <3>1, <3>2
  <2>2. d[k] = time[t] /\ time[t] \in Nat
    BY <1>1, <1>3, <1>5
  <2>3. time' \in [Timers -> Nat]
    BY <1>1, <1>3, <2>2
  <2>. QED
    BY <1>1, <1>3, <1>5, <2>1, <2>2, <2>3
<1>8. Chain(RemoveSums(S, m, k), e, m - 1)
  <2>1. e \in [1 .. m - 1 -> Int]
    <3>1. \A i \in 1 .. m - 1 : active'[i] \in Timers
      BY <1>6, ElementOfSeq
    <3>. QED
      BY <1>6, <1>7, <3>1 DEF Ticks
  <2>2. \A i \in 1 .. m - 1 : e[i] = time'[active'[i]]
    BY <1>6 DEF Ticks
  <2>3. k < m => e[k] = d[k + 1] + d[k]
    <3>. SUFFICES ASSUME k < m PROVE e[k] = d[k + 1] + d[k]
      OBVIOUS
    <3>1. k \in 1 .. m - 1 /\ k + 1 \in 1 .. m /\ k + 1 # k /\ ~ (k < k)
      BY <1>3
    <3>2. active'[k] = active[k + 1]
      BY <1>6, <3>1
    <3>. QED
      BY <1>7, <2>2, <3>1, <3>2
  <2>4. ASSUME NEW i \in 1 .. m - 1, i < k PROVE e[i] = d[i]
    <3>1. i \in 1 .. m /\ i # k /\ i # k + 1 /\ active'[i] = active[i]
      BY <1>3, <1>6, <2>4
    <3>. QED
      BY <1>7, <2>2, <3>1
  <2>5. ASSUME NEW i \in 1 .. m - 1, i > k PROVE e[i] = d[i + 1]
    <3>1. i + 1 \in 1 .. m /\ i + 1 # k /\ i + 1 # k + 1 /\ ~ (i < k)
      BY <1>3, <2>5
    <3>2. active'[i] = active[i + 1]
      BY <1>6, <3>1
    <3>. QED
      BY <1>7, <2>2, <3>1, <3>2
  <2>6. m \in Nat /\ k \in 2 .. m
    BY <1>3
  <2>. HIDE DEF S, d, e, m
  <2>7. RemoveTicks(e, d, m, k)
    BY <2>1, <2>3, <2>4, <2>5 DEF RemoveTicks
  <2>. QED
    BY <1>4, <2>6, <2>7, RemoveChain
<1>9. \A i \in 1 .. m - 1 : Sums(active', time')[i] = IF i < k THEN After(i) ELSE After(i + 1)
  <2>1. time' \in [Timers -> Int]
    BY <1>7
  <2>2. \A i \in 1 .. m - 1 : Sums(active', time')[i] = RemoveSums(S, m, k)[i]
    <3>1. active' \in Seq(Timers) /\ m - 1 = Len(active')
      BY <1>6
    <3>. HIDE DEF m, S
    <3>. QED
      BY <1>8, <2>1, <3>1, ChainSums
  <2>. QED
    BY <2>2 DEF RemoveSums, After
<1>10. HwTypes
  BY DEF Law
<1>11. /\ hist' \in [due : [Timers -> Int], drift : [Timers -> Nat]]
       /\ \A u \in Timers : u # t => hist'.due[u] = hist.due[u] /\ hist'.drift[u] = hist.drift[u]
  BY <1>2, <1>10, DroppedIs
<1>12. HwTypes'
  BY <1>2, <1>7, <1>10, <1>11 DEF HwTypes
<1>13. HwLaw'
  <2>1. 1 < k /\ 1 \in 1 .. m - 1 /\ 1 # k /\ 1 # k + 1
    BY <1>3
  <2>2. active'[1] = active[1] /\ active' # <<>> /\ time'[active[1]] = time[active[1]]
    BY <1>3, <1>5, <1>6, <1>7, <2>1
  <2>. QED
    BY <1>2, <1>3, <2>2, SameHead DEF Law
<1>14. ASSUME NEW j \in 1 .. m, j # k
       PROVE  Near(hw.left - hw.late + After(j), hist'.due[active[j]], hist'.drift[active[j]])
  <2>1. active[j] \in Timers /\ active[j] # t
    BY <1>1, <1>3, <1>14
  <2>. QED
    BY <1>11, <2>1 DEF Law, Scheduled
<1>15. ASSUME NEW i \in 1 .. m - 1
       PROVE  Near(hw.left - hw.late + Sums(active', time')[i], hist'.due[active'[i]], hist'.drift[active'[i]])
  <2>1. CASE i < k
    <3>1. i \in 1 .. m /\ i # k
      BY <1>3, <2>1
    <3>. QED
      BY <1>6, <1>9, <1>14, <2>1, <3>1
  <2>2. CASE ~ (i < k)
    <3>1. i + 1 \in 1 .. m /\ i + 1 # k
      BY <1>3, <2>2
    <3>. QED
      BY <1>6, <1>9, <1>14, <2>2, <3>1
  <2>. QED
    BY <2>1, <2>2
<1>16. Scheduled'
  BY <1>2, <1>6, <1>15 DEF Scheduled, After
<1>. QED
  BY <1>12, <1>13, <1>16 DEF Law

-----------------------------------------------------------------------------
(* The places of the list without its head *)
LEMMA TailPlaces ==
  ASSUME NEW s \in Seq(Timers), Len(s) > 1
  PROVE  /\ Tail(s) \in Seq(Timers) /\ Len(Tail(s)) = Len(s) - 1
         /\ \A i \in 1 .. Len(s) - 1 : Tail(s)[i] = s[i + 1]
<1>1. s # <<>> /\ Len(s) \in Nat
  BY EmptySeq, LenProperties
<1>. QED
  BY <1>1, HeadTailProperties

(* The head goes before it has expired: the next is due as before. *)
HeadEarly(left) ==
  /\ active' = Tail(active)
  /\ time' = [u \in Timers |-> IF u = active[1] THEN 0
                               ELSE IF u = active[2] THEN time[u] + left ELSE time[u]]

(* The sums are counted from the new head, whose ticks are those left to it. *)
LEMMA EarlyTicks ==
  ASSUME Good, Law, Len(active) > 1, NEW left \in Nat, HeadEarly(left)
  PROVE  /\ time' \in [Timers -> Nat] /\ time'[active[2]] = After(2) + left
         /\ \A i \in 1 .. Len(active) - 1 : Sums(active', time')[i] = After(i + 1) - After(2)
<1>. DEFINE m == Len(active)  S == Sums(active, time)  d == Ticks(active, time)
            e == Ticks(active', time')
<1>1. /\ active \in Seq(Timers) /\ m \in Nat /\ 1 \in 1 .. m /\ 2 \in 1 .. m
      /\ time \in [Timers -> Nat]
      /\ \A i \in 1 .. m : active[i] \in Timers
      /\ \A i, j \in 1 .. m : active[i] = active[j] => i = j
  <2>1. Listed(active, InState("ACTIVE"))
    BY DEF Good
  <2>2. /\ active \in Seq(Timers) /\ m \in Nat
        /\ \A i \in 1 .. m : active[i] \in Timers
        /\ \A i, j \in 1 .. m : active[i] = active[j] => i = j
    BY <2>1, ListFacts
  <2>3. time \in [Timers -> Nat]
    BY DEF Law, HwTypes
  <2>. QED
    BY <2>2, <2>3
<1>2. /\ Chain(S, d, m)
      /\ \A i \in 1 .. m : After(i) \in Int /\ S[i] = After(i)
  BY AfterIs DEF After
<1>3. \A i \in 1 .. m : d[i] = time[active[i]] /\ d[i] \in Nat
  BY <1>1 DEF Ticks
<1>4. /\ active' \in Seq(Timers) /\ Len(active') = m - 1
      /\ \A i \in 1 .. m - 1 : active'[i] = active[i + 1]
  BY <1>1, TailPlaces DEF HeadEarly
<1>5. /\ time' \in [Timers -> Nat]
      /\ \A i \in 2 .. m : time'[active[i]] = IF i = 2 THEN d[i] + left ELSE d[i]
  <2>1. \A i \in 2 .. m : i \in 1 .. m /\ active[i] # active[1] /\ (active[i] = active[2] <=> i = 2)
    BY <1>1
  <2>2. time' \in [Timers -> Nat]
    BY <1>1 DEF HeadEarly
  <2>. QED
    BY <1>1, <1>3, <2>1, <2>2 DEF HeadEarly
<1>6. After(2) = d[2]
  <2>1. S[1] = 0 /\ S[2] = S[2 - 1] + d[2]
    BY <1>1, <1>2 DEF Chain
  <2>2. 2 - 1 = 1 /\ d[2] \in Nat
    BY <1>1, <1>3
  <2>. QED
    BY <1>1, <1>2, <2>1, <2>2
<1>7. time'[active[2]] = After(2) + left
  BY <1>1, <1>5, <1>6
<1>8. Chain(CutSums(S, m, 1), e, m - 1)
  <2>1. e \in [1 .. m - 1 -> Int]
    <3>1. \A i \in 1 .. m - 1 : active'[i] \in Timers
      BY <1>4, ElementOfSeq
    <3>. QED
      BY <1>4, <1>5, <3>1 DEF Ticks
  <2>2. ASSUME NEW i \in 2 .. m - 1 PROVE e[i] = d[1 + i]
    <3>1. i \in 1 .. m - 1 /\ i + 1 \in 2 .. m /\ i + 1 # 2 /\ i + 1 = 1 + i
      BY <1>1
    <3>2. e[i] = time'[active[i + 1]]
      BY <1>4, <3>1 DEF Ticks
    <3>. QED
      BY <1>5, <3>1, <3>2
  <2>3. m \in Nat /\ 1 \in 0 .. m
    BY <1>1
  <2>. HIDE DEF S, d, e, m
  <2>4. CutTicks(e, d, m, 1)
    BY <2>1, <2>2 DEF CutTicks
  <2>. QED
    BY <1>2, <2>3, <2>4, CutChain
<1>9. \A i \in 1 .. m - 1 : Sums(active', time')[i] = After(i + 1) - After(2)
  <2>1. time' \in [Timers -> Int]
    BY <1>5
  <2>2. \A i \in 1 .. m - 1 : Sums(active', time')[i] = CutSums(S, m, 1)[i]
    <3>1. active' \in Seq(Timers) /\ m - 1 = Len(active')
      BY <1>4
    <3>. HIDE DEF m, S
    <3>. QED
      BY <1>8, <2>1, <3>1, ChainSums
  <2>3. \A i \in 1 .. m - 1 : CutSums(S, m, 1)[i] = S[1 + i] - S[1 + 1]
    BY DEF CutSums
  <2>4. \A i \in 1 .. m - 1 : 1 + i = i + 1 /\ i + 1 \in 1 .. m
    BY <1>1
  <2>5. \A i \in 1 .. m - 1 : CutSums(S, m, 1)[i] = S[i + 1] - S[2]
    BY <2>3, <2>4
  <2>. QED
    BY <2>2, <2>5 DEF After
<1>. QED
  BY <1>5, <1>7, <1>9

(* The head goes after it has expired: what has passed since is taken from   *)
(* the others, as far as they have it.                                       *)
HeadLate ==
  /\ active' = Tail(active)
  /\ time' = [u \in Timers |->
       IF \E k \in 2 .. Len(active) : active[k] = u
       THEN TimeLeft(CHOOSE k \in 2 .. Len(active) : active[k] = u, Over)
       ELSE 0]

(* The sums are those left after Over ticks, counted from the new head. *)
LEMMA LateTicks ==
  ASSUME Good, Law, Len(active) > 1, HeadLate
  PROVE  /\ time' \in [Timers -> Nat] /\ time'[active[2]] = Pos(After(2) - Over)
         /\ \A i \in 1 .. Len(active) - 1 :
              Sums(active', time')[i] = Pos(After(i + 1) - Over) - Pos(After(2) - Over)
<1>. DEFINE m == Len(active)  S == Sums(active, time)  d == Ticks(active, time)
            e == Ticks(active', time')
<1>1. /\ active \in Seq(Timers) /\ m \in Nat /\ 1 \in 1 .. m /\ 2 \in 1 .. m
      /\ time \in [Timers -> Nat] /\ active # <<>>
      /\ \A i \in 1 .. m : active[i] \in Timers
      /\ \A i, j \in 1 .. m : active[i] = active[j] => i = j
  <2>1. Listed(active, InState("ACTIVE"))
    BY DEF Good
  <2>2. /\ active \in Seq(Timers) /\ m \in Nat /\ (active = <<>> <=> m = 0)
        /\ \A i \in 1 .. m : active[i] \in Timers
        /\ \A i, j \in 1 .. m : active[i] = active[j] => i = j
    BY <2>1, ListFacts
  <2>3. time \in [Timers -> Nat]
    BY DEF Law, HwTypes
  <2>. QED
    BY <2>2, <2>3
<1>2. /\ Chain(S, d, m) /\ After(1) = 0
      /\ \A i \in 1 .. m : After(i) \in Int /\ S[i] = After(i)
  BY <1>1, AfterIs DEF After
<1>3. \A i \in 1 .. m : d[i] = time[active[i]] /\ d[i] \in Nat
  BY <1>1 DEF Ticks
<1>4. /\ active' \in Seq(Timers) /\ Len(active') = m - 1
      /\ \A i \in 1 .. m - 1 : active'[i] = active[i + 1]
  BY <1>1, TailPlaces DEF HeadLate
<1>5. Over \in Nat
  BY <1>1, Numbers
<1>6. ASSUME NEW i \in 2 .. m PROVE TimeLeft(i, Over) \in Nat
  <2>1. After(i) \in Int /\ After(i) - Over \in Int /\ (After(i) <= Over \/ After(i) - Over > 0)
    <3>1. i \in 1 .. m
      OBVIOUS
    <3>2. After(i) \in Int
      BY <1>2, <3>1
    <3>. DEFINE x == After(i)  o == Over
    <3>3. x \in Int /\ o \in Nat
      BY <1>5, <3>2
    <3>. HIDE DEF x, o
    <3>4. x - o \in Int /\ (x <= o \/ x - o > 0)
      BY <3>3
    <3>. QED
      BY <3>2, <3>4 DEF x, o
  <2>2. time[active[i]] \in Nat
    BY <1>1
  <2>. QED
    BY <2>1, <2>2 DEF TimeLeft
<1>7. /\ time' \in [Timers -> Nat]
      /\ \A i \in 2 .. m : time'[active[i]] = TimeLeft(i, Over)
  <2>1. ASSUME NEW i \in 2 .. m
        PROVE  (CHOOSE k \in 2 .. m : active[k] = active[i]) = i
    <3>1. \A k \in 2 .. m : active[k] = active[i] <=> k = i
      BY <1>1
    <3>. QED
      BY <3>1
  <2>2. \A u \in Timers : (\E k \in 2 .. m : active[k] = u) =>
           (CHOOSE k \in 2 .. m : active[k] = u) \in 2 .. m
    OBVIOUS
  <2>3. \A u \in Timers : (IF \E k \in 2 .. m : active[k] = u
                           THEN TimeLeft(CHOOSE k \in 2 .. m : active[k] = u, Over)
                           ELSE 0) \in Nat
    BY <1>6, <2>2
  <2>4. time' \in [Timers -> Nat]
    BY <2>3 DEF HeadLate
  <2>5. \A i \in 2 .. m : i \in 1 .. m /\ active[i] \in Timers
    BY <1>1
  <2>. QED
    BY <2>1, <2>4, <2>5 DEF HeadLate
<1>8. \A i \in 1 .. m - 1 : /\ i + 1 \in 2 .. m /\ i + 1 \in 1 .. m /\ i \in 1 .. m
                            /\ (i + 1) - 1 = i
  BY <1>1
<1>9. ASSUME NEW i \in 1 .. m - 1
      PROVE  e[i] = IF S[i + 1] <= Over THEN 0 ELSE IF S[i] <= Over THEN S[i + 1] - Over
                    ELSE d[i + 1]
  <2>1. e[i] = TimeLeft(i + 1, Over)
    BY <1>4, <1>7, <1>8 DEF Ticks
  <2>2. S[i] = After(i) /\ S[i + 1] = After(i + 1) /\ d[i + 1] = time[active[i + 1]]
    BY <1>2, <1>3, <1>8
  <2>3. TimeLeft(i + 1, Over) = IF After(i + 1) <= Over THEN 0
                                ELSE IF After(i) <= Over THEN After(i + 1) - Over
                                ELSE time[active[i + 1]]
    BY <1>8 DEF TimeLeft
  <2>. HIDE DEF S, d, e
  <2>. QED
    BY <2>1, <2>2, <2>3
<1>10. Chain(OverSums(S, m, Over), e, m - 1)
  <2>1. e \in [1 .. m - 1 -> Int]
    <3>1. \A i \in 1 .. m - 1 : active'[i] \in Timers
      BY <1>4, ElementOfSeq
    <3>. QED
      BY <1>4, <1>7, <3>1 DEF Ticks
  <2>2. \A i \in 2 .. m : d[i] >= 0
    <3>1. \A i \in 2 .. m : i \in 1 .. m
      OBVIOUS
    <3>2. \A i \in 2 .. m : d[i] \in Nat
      BY <1>3, <3>1
    <3>. HIDE DEF d
    <3>. QED
      BY <3>2
  <2>3. m \in Nat \ {0} /\ Over \in Int
    BY <1>1, <1>5
  <2>. HIDE DEF S, d, e, m
  <2>4. OverTicks(e, S, d, m, Over)
    BY <1>9, <2>1, <2>2 DEF OverTicks
  <2>. QED
    BY <1>2, <2>3, <2>4, OverChain
<1>11. \A i \in 1 .. m - 1 :
         Sums(active', time')[i] = Pos(After(i + 1) - Over) - Pos(After(2) - Over)
  <2>1. time' \in [Timers -> Int]
    BY <1>7
  <2>2. \A i \in 1 .. m - 1 : Sums(active', time')[i] = OverSums(S, m, Over)[i]
    <3>1. active' \in Seq(Timers) /\ m - 1 = Len(active')
      BY <1>4
    <3>. HIDE DEF m, S
    <3>. QED
      BY <1>10, <2>1, <3>1, ChainSums
  <2>3. \A i \in 1 .. m - 1 : OverSums(S, m, Over)[i] = Pos(S[i + 1] - Over) - Pos(S[2] - Over)
    BY DEF OverSums
  <2>. QED
    BY <2>2, <2>3 DEF After
<1>12. time'[active[2]] = Pos(After(2) - Over)
  <2>1. time'[active[2]] = TimeLeft(2, Over)
    <3>1. 2 \in 2 .. m
      BY <1>1
    <3>. QED
      BY <1>7, <3>1
  <2>2. TimeLeft(2, Over) = IF After(2) <= Over THEN 0 ELSE After(2) - Over
    <3>1. 2 - 1 = 1 /\ After(1) <= Over
      BY <1>2, <1>5
    <3>. QED
      BY <3>1 DEF TimeLeft
  <2>3. After(2) \in Int
    BY <1>1, <1>2
  <2>. DEFINE x == After(2)  o == Over
  <2>4. time'[active[2]] = (IF x <= o THEN 0 ELSE x - o) /\ x \in Int /\ o \in Nat
    BY <1>5, <2>1, <2>2, <2>3
  <2>. HIDE DEF x, o
  <2>5. time'[active[2]] = Pos(x - o)
    BY <2>4 DEF Pos
  <2>. QED
    BY <2>5 DEF x, o
<1>. QED
  BY <1>7, <1>11, <1>12

-----------------------------------------------------------------------------
(* Timers that keep their due times and are moved by no more than the start  *)
(* costs stay near them.                                                     *)
LEMMA StayNear ==
  ASSUME Good, Law, NEW j \in 1 .. Len(active), NEW c, Costs(c), NEW b \in Int,
         NEW g, g.due[active[j]] = hist.due[active[j]],
         g.drift[active[j]] = hist.drift[active[j]],
         b >= hw.left - hw.late + After(j) - c,
         b <= hw.left - hw.late + After(j) + c \/ b <= c
  PROVE  Near(b, g.due[active[j]], g.drift[active[j]] + c)
<1>. DEFINE u == active[j]  x == hw.left - hw.late + After(j)
            d == hist.due[u]  r == hist.drift[u]
<1>1. u \in Timers /\ active # <<>>
  <2>1. Listed(active, InState("ACTIVE"))
    BY DEF Good
  <2>2. /\ (active = <<>> <=> Len(active) = 0)
        /\ u \in Timers
    BY <2>1, ListFacts
  <2>. QED
    BY <2>2
<1>2. After(j) \in Int /\ hw.left \in Nat /\ hw.late \in Nat
  BY <1>1, AfterIs, Numbers
<1>3. x \in Int
  BY <1>2
<1>4. d \in Int /\ r \in Nat
  <2>1. hist \in [due : [Timers -> Int], drift : [Timers -> Nat]]
    BY DEF Law, HwTypes
  <2>. QED
    BY <1>1, <2>1
<1>5. Near(x, d, r)
  BY DEF Law, Scheduled
<1>6. c \in Nat
  BY DEF Costs
<1>7. g.due[u] = d /\ g.drift[u] = r
  OBVIOUS
<1>8. b >= x - c /\ (b <= x + c \/ b <= c)
  BY <1>2, <1>3, <1>6
<1>. HIDE DEF x, d, r, u
<1>9. Near(b, d, r + c)
  BY <1>3, <1>4, <1>5, <1>6, <1>8, Shift
<1>10. Near(b, g.due[u], g.drift[u] + c)
  BY <1>7, <1>9
<1>. QED
  BY <1>10 DEF u

(* The head goes, and the hardware is started for the next. *)
LEMMA StopHeadLaw ==
  ASSUME Good, Law, NEW t \in Timers, StopHead(t), Listed(active', InState("ACTIVE") \ {t}),
         cur' \subseteq Timers, starts' \in 0 .. MaxStarts
  PROVE  Law'
<1>. DEFINE m == Len(active)  g == Dropped({t})  load == time'[active[2]]  o == Over
            L == hw.left  z == hw.late  A == After(2)
<1>1. /\ Len(active) > 1 /\ Head(active) = t /\ active' = Tail(active)
      /\ hw' = HwStart(HwStop, load) /\ hist' = HwRestarted(g)
  BY DEF StopHead
<1>2. /\ active \in Seq(Timers) /\ m \in Nat /\ 1 \in 1 .. m /\ 2 \in 1 .. m /\ active # <<>>
      /\ \A i \in 1 .. m : active[i] \in Timers
      /\ \A i, j \in 1 .. m : active[i] = active[j] => i = j
  <2>1. Listed(active, InState("ACTIVE"))
    BY DEF Good
  <2>2. /\ active \in Seq(Timers) /\ m \in Nat /\ (active = <<>> <=> m = 0)
        /\ \A i \in 1 .. m : active[i] \in Timers
        /\ \A i, j \in 1 .. m : active[i] = active[j] => i = j
    BY <2>1, ListFacts
  <2>. QED
    BY <1>1, <2>2
<1>3. t = active[1]
  BY <1>1, <1>2, Numbers
<1>4. L \in Nat /\ z \in Nat /\ o \in Nat /\ A \in Int /\ (L # 0 => z = 0)
  BY <1>2, Numbers, AfterIs
<1>5. /\ active' \in Seq(Timers) /\ Len(active') = m - 1
      /\ \A i \in 1 .. m - 1 : active'[i] = active[i + 1]
  BY <1>1, <1>2, TailPlaces
<1>6. HwTypes
  BY DEF Law
<1>7. /\ g \in [due : [Timers -> Int], drift : [Timers -> Nat]]
      /\ \A u \in Timers : u # t => g.due[u] = hist.due[u] /\ g.drift[u] = hist.drift[u]
  BY <1>6, DroppedIs
<1>. HIDE DEF g
<1>. DEFINE b(i) == Load(load) + Sums(active', time')[i]
            Moved(i, c) == /\ b(i) \in Int /\ b(i) >= L - z + After(i + 1) - c
                           /\ b(i) <= L - z + After(i + 1) + c \/ b(i) <= c
<1>8. ASSUME L # 0
      PROVE  /\ time' \in [Timers -> Nat] /\ load \in Nat
             /\ \A i \in 1 .. m - 1 : \A c : Costs(c) => Moved(i, c)
  <2>1. HeadEarly(L)
    BY <1>3, <1>8 DEF StopHead, HeadEarly
  <2>2. /\ time' \in [Timers -> Nat] /\ load = A + L
        /\ \A i \in 1 .. m - 1 : Sums(active', time')[i] = After(i + 1) - A
    <3>. HIDE DEF L
    <3>. QED
      BY <1>1, <1>4, <2>1, EarlyTicks
  <2>3. load \in Nat
    BY <1>2, <2>2
  <2>4. ASSUME NEW i \in 1 .. m - 1, NEW c, Costs(c)
        PROVE  Moved(i, c)
    <3>. DEFINE a == After(i + 1)  l == Load(load)  s == Sums(active', time')[i]
    <3>1. l \in Nat /\ l >= load - 1 /\ l <= load + 1
      BY <2>3, LoadIs
    <3>2. s = a - A /\ load = A + L /\ a \in Int /\ z = 0
      <4>1. i + 1 \in 1 .. m
        BY <1>2
      <4>. QED
        BY <1>4, <1>8, <2>2, <4>1, AfterIs
    <3>3. c \in {1, 2}
      BY <2>4 DEF Costs
    <3>. HIDE DEF a, l, s, load, A, L, z
    <3>4. l + s \in Int /\ l + s >= L - z + a - c /\ l + s <= L - z + a + c
      BY <1>4, <2>3, <3>1, <3>2, <3>3
    <3>. QED
      BY <3>4 DEF a, l, s
  <2>5. time' \in [Timers -> Nat]
    BY <2>2
  <2>. HIDE DEF Moved, load
  <2>. QED
    BY <2>3, <2>4, <2>5
<1>9. ASSUME L = 0
      PROVE  /\ time' \in [Timers -> Nat] /\ load \in Nat
             /\ \A i \in 1 .. m - 1 : \A c : Costs(c) => Moved(i, c)
  <2>1. HeadLate
    BY <1>9 DEF StopHead, HeadLate
  <2>2. /\ time' \in [Timers -> Nat] /\ load = Pos(A - o)
        /\ \A i \in 1 .. m - 1 :
             Sums(active', time')[i] = Pos(After(i + 1) - o) - Pos(A - o)
    BY <1>1, <2>1, LateTicks
  <2>3. load \in Nat
    BY <1>2, <2>2
  <2>4. o >= z - 1 /\ o <= z + 1
    <3>1. time[active[1]] <= hw.since + 1
      BY <1>2, <1>9, Numbers
    <3>2. o >= z - L - 1 /\ o <= z - L + 1
      BY <1>2, <3>1, Numbers
    <3>. HIDE DEF z, o, L
    <3>. QED
      BY <1>4, <1>9, <3>2
  <2>5. ASSUME NEW i \in 1 .. m - 1, NEW c, Costs(c)
        PROVE  Moved(i, c)
    <3>. DEFINE a == After(i + 1)  l == Load(load)  s == Sums(active', time')[i]  q == Pos(a - o)
    <3>1. l \in Nat /\ l >= load - 1 /\ l <= load + 1
      BY <2>3, LoadIs
    <3>2. a \in Int
      <4>1. i + 1 \in 1 .. m
        BY <1>2
      <4>. QED
        BY <4>1, AfterIs
    <3>3. s = q - load
      BY <2>2
    <3>4. q = IF a - o > 0 THEN a - o ELSE 0
      BY DEF Pos
    <3>5. c = 2
      <4>1. hw.on
        BY <1>2 DEF Law, HwLaw
      <4>. QED
        BY <1>9, <2>5, <4>1 DEF Costs
    <3>. HIDE DEF a, l, s, load, q, L, z, o
    <3>6. q \in Nat /\ q >= a - o /\ (q <= a - o \/ q = 0)
      BY <1>4, <3>2, <3>4
    <3>7. l + s = q + (l - load) /\ l + s \in Int
      BY <2>3, <3>1, <3>3, <3>6
    <3>8. l + s >= L - z + a - c
      BY <1>4, <1>9, <2>3, <2>4, <3>1, <3>2, <3>5, <3>6, <3>7
    <3>9. l + s <= L - z + a + c \/ l + s <= c
      BY <1>4, <1>9, <2>3, <2>4, <3>1, <3>2, <3>5, <3>6, <3>7
    <3>. QED
      BY <3>7, <3>8, <3>9 DEF a, l, s
  <2>6. time' \in [Timers -> Nat]
    BY <2>2
  <2>. HIDE DEF Moved, load
  <2>. QED
    BY <2>3, <2>5, <2>6
<1>10. /\ time' \in [Timers -> Nat] /\ load \in Nat
       /\ \A i \in 1 .. m - 1 : \A c : Costs(c) => Moved(i, c)
  <2>. HIDE DEF Moved, load
  <2>1. CASE L # 0
    BY <1>8, <2>1
  <2>2. CASE L = 0
    BY <1>9, <2>2
  <2>. QED
    BY <2>1, <2>2
<1>11. ASSUME NEW c, Costs(c), NEW i \in 1 .. Len(active')
       PROVE  Near(b(i), g.due[active'[i]], g.drift[active'[i]] + c)
  <2>1. i \in 1 .. m - 1 /\ i + 1 \in 1 .. m /\ i + 1 # 1 /\ active'[i] = active[i + 1]
    BY <1>2, <1>5
  <2>2. active[i + 1] \in Timers /\ active[i + 1] # t
    BY <1>2, <1>3, <2>1
  <2>3. g.due[active[i + 1]] = hist.due[active[i + 1]] /\ g.drift[active[i + 1]] = hist.drift[active[i + 1]]
    BY <1>7, <2>2
  <2>4. Moved(i, c)
    BY <1>10, <1>11, <2>1
  <2>5. Near(b(i), g.due[active[i + 1]], g.drift[active[i + 1]] + c)
    <3>. HIDE DEF b
    <3>. QED
      BY <1>11, <2>1, <2>3, <2>4, StayNear
  <2>. HIDE DEF b
  <2>. QED
    BY <2>1, <2>5
<1>12. active' # <<>> /\ active'[1] = active[2]
  <2>1. Len(active') # 0 /\ 1 \in 1 .. m - 1 /\ 1 + 1 = 2
    BY <1>1, <1>2, <1>5
  <2>2. active'[1] = active[1 + 1]
    BY <1>5, <2>1
  <2>. QED
    BY <2>1, <2>2, ListFacts
<1>13. time'[active'[1]] = load
  BY <1>12
<1>. HIDE DEF load
<1>14. AllNear(load, g)
  BY <1>11 DEF AllNear
<1>. QED
  BY <1>1, <1>7, <1>10, <1>12, <1>13, <1>14, StopIs, FreshLaw

-----------------------------------------------------------------------------
(* The differences behind the n timers that fire *)
FireBehind(n, left) ==
  /\ fired' = SubSeq(active, 1, n)
  /\ active' = SubSeq(active, n + 1, Len(active))
  /\ time' = [t \in Timers |-> IF Contains(fired', t) THEN 0
                               ELSE IF t = Head(active') THEN left ELSE time[t]]

(* The sums are counted from the first that does not fire. *)
LEMMA FireTicks ==
  ASSUME Good, Law, NEW n \in 1 .. Len(active) - 1, NEW left \in Nat, FireBehind(n, left)
  PROVE  /\ time' \in [Timers -> Nat]
         /\ active' \in Seq(Timers) /\ Len(active') = Len(active) - n /\ active' # <<>>
         /\ \A i \in 1 .. Len(active) - n :
              /\ n + i \in 1 .. Len(active) /\ active'[i] = active[n + i]
              /\ ~ Contains(fired', active[n + i])
              /\ Sums(active', time')[i] = After(n + i) - After(n + 1)
         /\ time'[active'[1]] = left
<1>. DEFINE m == Len(active)  S == Sums(active, time)  d == Ticks(active, time)
            e == Ticks(active', time')
<1>1. /\ active \in Seq(Timers) /\ m \in Nat /\ time \in [Timers -> Nat]
      /\ \A i \in 1 .. m : active[i] \in Timers
      /\ \A i, j \in 1 .. m : active[i] = active[j] => i = j
      /\ n \in 0 .. m
  <2>1. Listed(active, InState("ACTIVE"))
    BY DEF Good
  <2>2. /\ active \in Seq(Timers) /\ m \in Nat
        /\ \A i \in 1 .. m : active[i] \in Timers
        /\ \A i, j \in 1 .. m : active[i] = active[j] => i = j
    BY <2>1, ListFacts
  <2>3. time \in [Timers -> Nat]
    BY DEF Law, HwTypes
  <2>. QED
    BY <2>2, <2>3
<1>2. /\ Chain(S, d, m)
      /\ \A i \in 1 .. m : After(i) \in Int /\ S[i] = After(i)
  BY AfterIs DEF After
<1>3. \A i \in 1 .. m : d[i] = time[active[i]] /\ d[i] \in Nat
  BY <1>1 DEF Ticks
<1>4. /\ fired' \in Seq(Timers) /\ Len(fired') = n
      /\ \A i \in 1 .. n : fired'[i] = active[i]
      /\ active' \in Seq(Timers) /\ Len(active') = m - n
      /\ \A i \in 1 .. m - n : active'[i] = active[n + i]
  BY <1>1, CutPlaces DEF FireBehind
<1>5. active' # <<>> /\ Head(active') = active[n + 1] /\ 1 \in 1 .. m - n
  <2>1. Len(active') # 0 /\ 1 \in 1 .. m - n
    BY <1>1, <1>4
  <2>2. active' # <<>>
    BY <1>4, <2>1, EmptySeq
  <2>3. Head(active') = active'[1]
    BY <1>4, <2>2, HeadTailProperties
  <2>. QED
    BY <1>4, <2>1, <2>2, <2>3
<1>6. \A i \in 1 .. m - n : n + i \in 1 .. m /\ (n + i = n + 1 <=> i = 1)
  BY <1>1
<1>7. ASSUME NEW i \in 1 .. m - n PROVE ~ Contains(fired', active[n + i])
  <2>1. \A j \in 1 .. n : j \in 1 .. m /\ j # n + i
    BY <1>1
  <2>2. \A j \in 1 .. n : active[j] # active[n + i]
    BY <1>1, <1>6, <2>1
  <2>. QED
    BY <1>4, <2>2 DEF Contains
<1>8. time' \in [Timers -> Nat]
  BY <1>1 DEF FireBehind
<1>9. \A i \in 1 .. m - n : time'[active[n + i]] = IF i = 1 THEN left ELSE d[n + i]
  <2>1. \A i \in 1 .. m - n : active[n + i] \in Timers /\ (active[n + i] = active[n + 1] <=> i = 1)
    BY <1>1, <1>5, <1>6
  <2>2. \A i \in 1 .. m - n : time'[active[n + i]] =
          IF active[n + i] = active[n + 1] THEN left ELSE time[active[n + i]]
    BY <1>5, <1>7, <2>1 DEF FireBehind
  <2>3. \A i \in 1 .. m - n : d[n + i] = time[active[n + i]]
    BY <1>3, <1>6
  <2>. HIDE DEF d
  <2>. QED
    BY <2>1, <2>2, <2>3
<1>10. time'[active'[1]] = left
  BY <1>4, <1>5, <1>9
<1>11. Chain(CutSums(S, m, n), e, m - n)
  <2>1. e \in [1 .. m - n -> Int]
    <3>1. \A i \in 1 .. m - n : active'[i] \in Timers
      BY <1>4, ElementOfSeq
    <3>. QED
      BY <1>4, <1>8, <3>1 DEF Ticks
  <2>2. ASSUME NEW i \in 2 .. m - n PROVE e[i] = d[n + i]
    <3>1. i \in 1 .. m - n /\ i # 1
      BY <1>1
    <3>2. e[i] = time'[active[n + i]]
      BY <1>4, <3>1 DEF Ticks
    <3>. QED
      BY <1>9, <3>1, <3>2
  <2>. HIDE DEF S, d, e, m
  <2>3. CutTicks(e, d, m, n)
    BY <2>1, <2>2 DEF CutTicks
  <2>. QED
    BY <1>1, <1>2, <2>3, CutChain
<1>12. \A i \in 1 .. m - n : Sums(active', time')[i] = After(n + i) - After(n + 1)
  <2>1. time' \in [Timers -> Int]
    BY <1>8
  <2>2. \A i \in 1 .. m - n : Sums(active', time')[i] = CutSums(S, m, n)[i]
    <3>1. active' \in Seq(Timers) /\ m - n = Len(active')
      BY <1>4
    <3>. HIDE DEF m, S
    <3>. QED
      BY <1>11, <2>1, <3>1, ChainSums
  <2>3. \A i \in 1 .. m - n : CutSums(S, m, n)[i] = S[n + i] - S[n + 1]
    BY DEF CutSums
  <2>. QED
    BY <2>2, <2>3 DEF After
<1>. QED
  BY <1>4, <1>5, <1>6, <1>7, <1>8, <1>10, <1>12

(* The head and those that have expired with it leave the list. *)
LEMMA IrqFireLaw ==
  ASSUME Good, Law, irq = "entered", IrqFire, NEW P, Listed(active', P),
         cur' \subseteq Timers, starts' \in 0 .. MaxStarts
  PROVE  Law'
<1>. DEFINE m == Len(active)  o == Over  L == hw.left  z == hw.late
            g == Dropped(ToSet(fired'))
<1>1. active # <<>> /\ time[active[1]] <= hw.since + 1
  <2>1. active # <<>> /\ time[Head(active)] <= hw.since + 1
    BY DEF IrqFire, LoadDelta
  <2>. QED
    BY <2>1, Numbers
<1>2. L \in Nat /\ z \in Nat /\ o \in Nat /\ o >= z - L - 1 /\ o <= z - L + 1
  BY <1>1, Numbers
<1>3. PICK n \in 1 .. m :
        /\ n < m => After(n + 1) > o
        /\ fired' = SubSeq(active, 1, n)
        /\ active' = SubSeq(active, n + 1, m)
        /\ GoOnBehind(n)
  BY DEF IrqFire
<1>4. HwTypes
  BY DEF Law
<1>5. /\ g \in [due : [Timers -> Int], drift : [Timers -> Nat]]
      /\ \A u \in Timers : u \notin ToSet(fired') =>
           g.due[u] = hist.due[u] /\ g.drift[u] = hist.drift[u]
  BY <1>4, DroppedIs
<1>6. CASE active' = <<>>
  BY <1>3, <1>6, EmptyLaw DEF GoOnBehind
<1>7. CASE active' # <<>>
  <2>. DEFINE A == After(n + 1)  load == A - o
  <2>1. /\ active \in Seq(Timers) /\ m \in Nat /\ n \in 0 .. m
        /\ \A i \in 1 .. m : active[i] \in Timers
    <3>1. Listed(active, InState("ACTIVE"))
      BY DEF Good
    <3>2. active \in Seq(Timers) /\ m \in Nat /\ \A i \in 1 .. m : active[i] \in Timers
      BY <3>1, ListFacts
    <3>. QED
      BY <3>2
  <2>2. n \in 1 .. m - 1
    <3>1. Len(active') = m - n
      BY <1>3, <2>1, CutPlaces
    <3>2. Len(active') # 0
      BY <1>7, ListFacts
    <3>. QED
      BY <2>1, <3>1, <3>2
  <2>3. A \in Int /\ A > o
    <3>1. n + 1 \in 1 .. m /\ n < m
      BY <2>1, <2>2
    <3>. QED
      BY <1>3, <3>1, AfterIs
  <2>4. load \in Nat /\ load >= 1
    BY <1>2, <2>3
  <2>5. FireBehind(n, load) /\ hw' = HwStart(hw, load) /\ hist' = HwRestarted(g)
    BY <1>3, <1>7 DEF GoOnBehind, FireBehind
  <2>6. /\ time' \in [Timers -> Nat]
        /\ active' \in Seq(Timers) /\ Len(active') = m - n
        /\ \A i \in 1 .. m - n :
             /\ n + i \in 1 .. m /\ active'[i] = active[n + i]
             /\ ~ Contains(fired', active[n + i])
             /\ Sums(active', time')[i] = After(n + i) - A
        /\ time'[active'[1]] = load
    <3>. HIDE DEF load
    <3>. QED
      BY <2>2, <2>4, <2>5, FireTicks
  <2>. HIDE DEF g
  <2>7. ASSUME NEW c, Costs(c), NEW i \in 1 .. Len(active')
        PROVE  Near(Load(load) + Sums(active', time')[i], g.due[active'[i]], g.drift[active'[i]] + c)
    <3>. DEFINE u == active[n + i]  a == After(n + i)  l == Load(load)
                b == l + Sums(active', time')[i]
    <3>1. /\ n + i \in 1 .. m /\ active'[i] = u /\ u \in Timers /\ ~ Contains(fired', u)
          /\ Sums(active', time')[i] = a - A
      BY <2>1, <2>6
    <3>2. u \notin ToSet(fired')
      BY <3>1 DEF Contains, ToSet
    <3>3. g.due[u] = hist.due[u] /\ g.drift[u] = hist.drift[u]
      BY <1>5, <3>1, <3>2
    <3>4. l \in Nat /\ l >= load - 1 /\ l <= load
      <4>1. load # 0
        BY <2>4
      <4>. HIDE DEF load
      <4>. QED
        BY <2>4, <4>1, LoadIs
    <3>5. a \in Int
      BY <3>1, AfterIs
    <3>6. c = 2
      BY <2>7 DEF Costs
    <3>7. b = l + (a - A)
      BY <3>1
    <3>8. b \in Int /\ b >= L - z + a - c /\ b <= L - z + a + c
      <4>1. load = A - o
        OBVIOUS
      <4>. HIDE DEF a, l, load, A, L, z, o, b
      <4>2. b = (l - load) + (a - o) /\ b \in Int
        BY <1>2, <2>3, <2>4, <3>4, <3>5, <3>7, <4>1
      <4>. QED
        BY <1>2, <2>3, <2>4, <3>4, <3>5, <3>6, <4>2
    <3>. HIDE DEF b
    <3>9. Near(b, g.due[u], g.drift[u] + c)
      BY <2>7, <3>1, <3>3, <3>8, StayNear
    <3>. QED
      BY <3>1, <3>9 DEF b
  <2>8. hw \in Hardware
    BY <1>4 DEF HwTypes
  <2>. HIDE DEF load
  <2>9. AllNear(load, g)
    BY <2>7 DEF AllNear
  <2>. QED
    BY <1>5, <1>7, <2>4, <2>5, <2>6, <2>8, <2>9, FreshLaw
<1>. QED
  BY <1>6, <1>7

-----------------------------------------------------------------------------
(* The inductive invariant: no assertion has failed, the lists are as their   *)
(* timers' states say, and the law of the ticks holds. *)
Timed == failed = "none" /\ Good /\ Law

(* hwtimer_init *)
LEMMA InitLaw == Init => Law
<1>. SUFFICES ASSUME Init PROVE Law
  OBVIOUS
<1>1. HwTypes
  <2>1. hw \in Hardware
    BY StopIs DEF Init
  <2>2. hist \in [due : [Timers -> Int], drift : [Timers -> Nat]]
    BY DEF Init, NoHistory, Zero
  <2>3. time \in [Timers -> Nat] /\ cur \subseteq Timers /\ starts \in 0 .. MaxStarts
    BY HwtimerAssumption DEF Init
  <2>. QED
    BY <2>1, <2>2, <2>3 DEF HwTypes
<1>2. HwLaw
  BY StopIs DEF Init, HwLaw
<1>3. Scheduled
  BY EmptySeq DEF Init, Scheduled
<1>. QED
  BY <1>1, <1>2, <1>3 DEF Law

(* hwtimer_start *)
LEMMA StartLaw ==
  ASSUME Good, Law, Good', NEW t \in Timers, NEW n \in 1 .. MaxTicks, Start(t, n),
         failed' = "none"
  PROVE  Law'
<1>1. cur' \subseteq Timers /\ starts' \in 0 .. MaxStarts
  BY HwtimerAssumption DEF Start, Law, HwTypes
<1>2. state[t] # "ACTIVE" /\ state' = [state EXCEPT ![t] = "ACTIVE"]
  BY DEF Start
<1>3. StartFirst(t, n) \/ StartAhead(t, n) \/ StartBehind(t, n)
  BY DEF Start
<1>4. Listed(active', InState("ACTIVE") \cup {t})
  <2>1. InState("ACTIVE")' = InState("ACTIVE") \cup {t}
    BY <1>2, StateChange
  <2>. QED
    BY <2>1 DEF Good
<1>. QED
  BY <1>1, <1>2, <1>3, <1>4, StartFirstLaw, StartAheadLaw, StartBehindLaw

(* hwtimer_stop *)
LEMMA StopLaw ==
  ASSUME Good, Law, NEW t \in Timers, Stop(t), failed' = "none"
  PROVE  Law'
<1>1. cur' \subseteq Timers /\ starts' \in 0 .. MaxStarts
  BY DEF Stop, Law, HwTypes
<1>2. Listed(active', InState("ACTIVE") \ {t})
  BY StopLists
<1>3. CASE StopActive(t)
  <2>1. StopLast(t) \/ StopHead(t) \/ StopInside(t)
    BY <1>3 DEF StopActive
  <2>2. CASE StopLast(t)
    BY <1>1, <2>2, EmptyLaw DEF StopLast
  <2>. QED
    BY <1>1, <1>2, <2>1, <2>2, StopHeadLaw, StopInsideLaw
<1>4. CASE StopFired(t)
  <2>1. hw' = hw /\ UNCHANGED <<active, time, hist>> /\ hw \in Hardware
    BY <1>4 DEF StopFired, Law, HwTypes
  <2>. QED
    BY <1>1, <2>1, SameLaw
<1>. QED
  BY <1>3, <1>4 DEF Stop

(* The first section of the handler *)
LEMMA IrqFirstLaw ==
  ASSUME Good, Law, Good', IrqFirst PROVE Law'
<1>1. cur' \subseteq Timers /\ starts' \in 0 .. MaxStarts
  BY DEF IrqFirst, Law, HwTypes
<1>2. CASE IrqStale
  <2>1. hw' = hw /\ UNCHANGED <<active, time, hist>> /\ hw \in Hardware
    BY <1>2 DEF IrqStale, Law, HwTypes
  <2>. QED
    BY <1>1, <2>1, SameLaw
<1>3. CASE IrqFire
  <2>1. irq = "entered" /\ Listed(active', InState("ACTIVE")')
    BY DEF IrqFirst, Good
  <2>. QED
    BY <1>1, <1>3, <2>1, IrqFireLaw
<1>. QED
  BY <1>2, <1>3 DEF IrqFirst

(* The interrupt's flag is no part of the timing. *)
LEMMA IrqEnterLaw == ASSUME Law, IrqEnter PROVE Law'
<1>1. hw \in Hardware /\ hw' = [hw EXCEPT !.pending = FALSE]
  BY DEF IrqEnter, Law, HwTypes
<1>2. hw' \in Hardware
  BY <1>1 DEF Hardware
<1>3. hw'.left = hw.left /\ hw'.since = hw.since /\ hw'.late = hw.late
  BY <1>1 DEF Hardware
<1>4. hw'.on = hw.on
  BY <1>1 DEF Hardware
<1>5. UNCHANGED <<active, time, hist>> /\ cur' \subseteq Timers /\ starts' \in 0 .. MaxStarts
  BY DEF IrqEnter, Law, HwTypes
<1>. QED
  BY <1>2, <1>3, <1>4, <1>5, SameLaw

(* The steps that do not touch the hardware or the active list *)
LEMMA OtherLaw ==
  ASSUME Law, Good', UNCHANGED <<hw, active, time, hist, starts>> PROVE Law'
<1>1. hw' = hw /\ hw \in Hardware /\ starts' \in 0 .. MaxStarts
  BY DEF Law, HwTypes
<1>2. cur' \subseteq Timers
  BY DEF Good
<1>. QED
  BY <1>1, <1>2, SameLaw

(* Every step keeps the inductive invariant. *)
LEMMA TimedNext == Timed /\ [Next]_vars => Timed'
<1>. SUFFICES ASSUME Timed, [Next]_vars PROVE Timed'
  OBVIOUS
<1>1. failed = "none" /\ Good /\ Law
  BY DEF Timed
<1>2. failed' = "none"
  BY <1>1, NeverFails
<1>3. Good'
  BY <1>1, <1>2, NextInv DEF Inv
<1>4. ASSUME UNCHANGED vars PROVE Law'
  BY <1>1, <1>3, <1>4, OtherLaw DEF vars
<1>5. ASSUME Next PROVE Law'
  <2>1. CASE Tick
    BY <1>1, <2>1, TickLaw
  <2>2. CASE \/ Alloc \/ IrqPop \/ CallbackReturn \/ \E t \in Timers : Free(t)
    BY <1>1, <1>3, <2>2, OtherLaw DEF Alloc, IrqPop, CallbackReturn, Free
  <2>3. ASSUME NEW t \in Timers, Stop(t) PROVE Law'
    BY <1>1, <1>2, <2>3, StopLaw
  <2>4. ASSUME NEW t \in Timers, NEW n \in 1 .. MaxTicks, Start(t, n) PROVE Law'
    BY <1>1, <1>2, <1>3, <2>4, StartLaw
  <2>5. CASE IrqFirst
    BY <1>1, <1>3, <2>5, IrqFirstLaw
  <2>6. CASE IrqEnter
    BY <1>1, <2>6, IrqEnterLaw
  <2>. QED
    BY <1>5, <2>1, <2>2, <2>3, <2>4, <2>5, <2>6 DEF Next
<1>. QED
  BY <1>2, <1>3, <1>4, <1>5 DEF Timed

(* It holds in every reachable state. *)
LEMMA TimedAlways == Spec => []Timed
<1>1. Init => Timed
  BY InitGood, InitLaw DEF Timed, Init
<1>. QED
  BY <1>1, TimedNext, PTL DEF Spec

(* For every number of timers, starts and ticks, every variable has its      *)
(* type; the differences between the timers stay natural numbers.            *)
THEOREM TypeCorrect == Spec => []TypeOK
<1>1. Timed => TypeOK
  <2>. SUFFICES ASSUME Timed PROVE TypeOK
    OBVIOUS
  <2>1. hw \in [on : BOOLEAN, left : Nat, since : Nat, late : 0 .. MaxLate, pending : BOOLEAN]
    BY DEF Timed, Law, HwTypes, Hardware
  <2>2. \A s \in {active, fired, free} : s \in Seq(Timers)
    BY DEF Timed, Good, Listed
  <2>3. /\ state \in [Timers -> {"FREE", "ALLOC", "ACTIVE", "FIRED", "CALLBACK"}]
        /\ irq \in {"out", "entered", "pop", "call"}
    BY DEF Timed, Good
  <2>4. time \in [Timers -> Nat] /\ cur \subseteq Timers /\ starts \in 0 .. MaxStarts
    BY DEF Timed, Law, HwTypes
  <2>5. failed \in {"none", "start", "stop", "null", "early"}
    BY DEF Timed
  <2>. QED
    BY <2>1, <2>2, <2>3, <2>4, <2>5 DEF TypeOK
<1>. QED
  BY <1>1, TimedAlways, PTL

(* However starts, stops and interrupts follow each other, the hardware runs *)
(* exactly while there is a timer to wait for, and no assertion fails.       *)
THEOREM HardwareKept == Spec => []HardwareFollows
<1>1. Timed => HardwareFollows
  BY DEF Timed, Law, HwLaw, HardwareFollows
<1>. QED
  BY <1>1, TimedAlways, PTL

(* Every timer of the list stands to expire at the time asked for, off by no *)
(* more than a tick or two for each start of the hardware since.             *)
THEOREM OnTime == Spec => []OnSchedule
<1>1. Timed => OnSchedule
  <2>. SUFFICES ASSUME Timed, NEW k \in 1 .. Len(active)
                PROVE  LET left == hw.left - hw.late + After(k)
                           t == active[k]
                       IN  /\ left <= Max({0, hist.due[t]}) + hist.drift[t]
                           /\ left >= hist.due[t] - hist.drift[t]
    BY DEF OnSchedule
  <2>. DEFINE left == hw.left - hw.late + After(k)  t == active[k]
  <2>1. Near(left, hist.due[t], hist.drift[t])
    BY DEF Timed, Law, Scheduled
  <2>2. Max({0, hist.due[t]}) = Pos(hist.due[t])
    <3>1. t \in Timers
      BY ListFacts DEF Timed, Good
    <3>2. hist.due[t] \in Int
      BY <3>1 DEF Timed, Law, HwTypes
    <3>. QED
      BY <3>2, MaxPos
  <2>. QED
    BY <2>1, <2>2 DEF Near
<1>. QED
  BY <1>1, TimedAlways, PTL
=============================================================================
