------------------------- MODULE NorflashApi_proofs -------------------------
(***************************************************************************)
(* Proofs about the asynchronous flash layer, for any number of modules,   *)
(* sectors, cells, slots and buffers.  First what the operators on the     *)
(* lists return (an erase request sifts the list, a write request puts a   *)
(* node before it or changes one in place, a flush step cuts its tail),    *)
(* then what each action does to the invariant.  The last part is about    *)
(* the content: what the pending operations make of the flash bit by bit,  *)
(* and that every request and flush step keeps that what was accepted.     *)
(***************************************************************************)
EXTENDS NorflashApi, SequenceLemmas, FiniteSetTheorems

-----------------------------------------------------------------------------
(* f is what Keep goes through. *)
KeepsBy(f, S, list, I, n) ==
  /\ f[0] = <<>>
  /\ \A k \in 0 .. n : f[k] \in Seq(S)
  /\ \A k \in 1 .. n : f[k] = IF k \in I THEN Append(f[k - 1], list[k]) ELSE f[k - 1]

(* Keep by its recursion *)
LEMMA KeepUnfolds ==
  ASSUME NEW S, NEW list \in Seq(S), NEW I
  PROVE  \E f : Keep(list, I) = f[Len(list)] /\ KeepsBy(f, S, list, I, Len(list))
<1>. DEFINE n == Len(list)
            Q == Seq(S)
            G == [p \in (1 .. n) \X Q |-> IF p[1] \in I THEN Append(p[2], list[p[1]]) ELSE p[2]]
            Is(f) == f = [k \in 0 .. n |->
                            IF k = 0 THEN <<>>
                            ELSE IF k \in I THEN Append(f[k - 1], list[k]) ELSE f[k - 1]]
            s == CHOOSE f : Is(f)
<1>1. n \in Nat /\ <<>> \in Q /\ \A k \in 1 .. n : list[k] \in S
  BY ElementOfSeq, LenProperties, EmptySeq
<1>2. \A q \in Q, x \in S : Append(q, x) \in Q
  BY AppendProperties
<1>3. G \in [(1 .. n) \X Q -> Q]
  BY <1>1, <1>2
<1>4. \A k \in 1 .. n, q \in Q : G[<<k, q>>] = IF k \in I THEN Append(q, list[k]) ELSE q
  OBVIOUS
<1>. DEFINE b == <<>>
<1>. HIDE DEF G, Q, b
<1>5. PICK f \in [0 .. n -> Q] : Unfolds(f, n, b, G)
  BY <1>1, <1>3, RecursionThere DEF b
<1>6. Is(f)
  <2>1. \A k \in 1 .. n : f[k - 1] \in Q
    BY <1>1
  <2>2. \A k \in 1 .. n : f[k] = IF k \in I THEN Append(f[k - 1], list[k]) ELSE f[k - 1]
    BY <1>4, <1>5, <2>1 DEF Unfolds
  <2>3. f[0] = <<>>
    BY <1>5 DEF Unfolds, b
  <2>4. \A k \in 0 .. n : k = 0 \/ (k \in 1 .. n /\ k # 0)
    BY <1>1
  <2>5. \A k \in 0 .. n : f[k] = IF k = 0 THEN <<>>
                            ELSE IF k \in I THEN Append(f[k - 1], list[k]) ELSE f[k - 1]
    BY <2>2, <2>3, <2>4
  <2>. QED
    BY <2>5
<1>7. Is(s)
  BY <1>6
<1>8. Keep(list, I) = s[n]
  BY DEF Keep
<1>9. DOMAIN s = 0 .. n /\ \A k \in 0 .. n :
         s[k] = IF k = 0 THEN <<>>
                ELSE IF k \in I THEN Append(s[k - 1], list[k]) ELSE s[k - 1]
  BY <1>7
<1>. HIDE DEF s
<1>10. s[0] = b
  BY <1>1, <1>9 DEF b
<1>11. \A k \in 1 .. n : s[k] = IF k \in I THEN Append(s[k - 1], list[k]) ELSE s[k - 1]
  <2>1. \A k \in 1 .. n : k \in 0 .. n /\ k # 0
    BY <1>1
  <2>. QED
    BY <1>9, <2>1
<1>12. \A k \in 0 .. n : s[k] \in Q
  <2>1. \A k \in 1 .. n : s[k - 1] \in Q => s[k] = G[<<k, s[k - 1]>>]
    BY <1>4, <1>11
  <2>2. b \in Q
    BY <1>1 DEF b
  <2>3. Continues(s, n, b, Q, G)
    BY <1>10, <2>1 DEF Continues
  <2>. HIDE DEF n
  <2>. QED
    BY <1>1, <1>3, <2>2, <2>3, RecursionStays
<1>13. KeepsBy(s, S, list, I, n)
  BY <1>10, <1>11, <1>12 DEF KeepsBy, Q, b
<1>. QED
  BY <1>8, <1>13

(* The n elements of r are those at the first k places of the list that are  *)
(* in I, in their order: the j-th is from place o[j].                        *)
Picks(r, n, o, list, I, k) ==
  /\ o \in [1 .. n -> 1 .. k]
  /\ \A i, j \in 1 .. n : i < j => o[i] < o[j]
  /\ \A i \in 1 .. k : i \in I <=> \E j \in 1 .. n : o[j] = i
  /\ \A j \in 1 .. n : r[j] = list[o[j]]

(* The pick goes on with the next element ... *)
LEMMA PickOn ==
  ASSUME NEW r, NEW q, NEW n \in Nat, NEW k \in Nat, NEW o, NEW list, NEW I,
         Picks(q, n, o, list, I, k), k + 1 \in I,
         \A j \in 1 .. n : r[j] = q[j], r[n + 1] = list[k + 1]
  PROVE  \E p : Picks(r, n + 1, p, list, I, k + 1)
<1>. DEFINE p == [j \in 1 .. n + 1 |-> IF j = n + 1 THEN k + 1 ELSE o[j]]
<1>1. /\ \A j \in 1 .. n : j \in 1 .. n + 1 /\ j # n + 1 /\ j < n + 1
      /\ n + 1 \in 1 .. n + 1 /\ \A j \in 1 .. n + 1 : j = n + 1 \/ j \in 1 .. n
      /\ \A i \in 1 .. k : i \in 1 .. k + 1 /\ i # k + 1 /\ i < k + 1
      /\ k + 1 \in 1 .. k + 1 /\ \A i \in 1 .. k + 1 : i = k + 1 \/ i \in 1 .. k
      /\ \A j \in 1 .. n + 1 : ~ (n + 1 < j)
  OBVIOUS
<1>2. \A j \in 1 .. n : o[j] \in 1 .. k
  BY DEF Picks
<1>3. p \in [1 .. n + 1 -> 1 .. k + 1]
  BY <1>1, <1>2
<1>4. p[n + 1] = k + 1 /\ \A j \in 1 .. n : p[j] = o[j]
  BY <1>1
<1>. HIDE DEF p
<1>5. ASSUME NEW i \in 1 .. n + 1, NEW j \in 1 .. n + 1, i < j
      PROVE  p[i] < p[j]
  <2>1. CASE j = n + 1
    <3>1. i \in 1 .. n
      BY <1>1, <1>5, <2>1
    <3>. QED
      BY <1>1, <1>2, <1>4, <2>1, <3>1
  <2>2. CASE j \in 1 .. n
    <3>1. i \in 1 .. n
      BY <1>5, <2>2
    <3>. QED
      BY <1>4, <1>5, <2>2, <3>1 DEF Picks
  <2>. QED
    BY <1>1, <2>1, <2>2
<1>6. ASSUME NEW i \in 1 .. k + 1
      PROVE  i \in I <=> \E j \in 1 .. n + 1 : p[j] = i
  <2>1. CASE i = k + 1
    BY <1>1, <1>4, <2>1
  <2>2. CASE i \in 1 .. k
    <3>1. i \in I <=> \E j \in 1 .. n : o[j] = i
      BY <2>2 DEF Picks
    <3>2. p[n + 1] # i
      BY <1>1, <1>4, <2>2
    <3>. QED
      BY <1>1, <1>4, <3>1, <3>2
  <2>. QED
    BY <1>1, <2>1, <2>2
<1>7. ASSUME NEW j \in 1 .. n + 1 PROVE r[j] = list[p[j]]
  <2>1. CASE j = n + 1
    BY <1>4, <2>1
  <2>2. CASE j \in 1 .. n
    BY <1>4, <2>2 DEF Picks
  <2>. QED
    BY <1>1, <2>1, <2>2
<1>. QED
  BY <1>3, <1>5, <1>6, <1>7 DEF Picks

(* ... or passes over it. *)
LEMMA PickOver ==
  ASSUME NEW r, NEW n \in Nat, NEW k \in Nat, NEW o, NEW list, NEW I,
         Picks(r, n, o, list, I, k), k + 1 \notin I
  PROVE  Picks(r, n, o, list, I, k + 1)
<1>1. /\ \A i \in 1 .. k : i \in 1 .. k + 1 /\ i # k + 1
      /\ \A i \in 1 .. k + 1 : i = k + 1 \/ i \in 1 .. k
  OBVIOUS
<1>2. o \in [1 .. n -> 1 .. k + 1]
  BY <1>1 DEF Picks
<1>3. \A j \in 1 .. n : o[j] \in 1 .. k
  BY DEF Picks
<1>4. ASSUME NEW i \in 1 .. k + 1
      PROVE  i \in I <=> \E j \in 1 .. n : o[j] = i
  BY <1>1, <1>3 DEF Picks
<1>. QED
  BY <1>2, <1>4 DEF Picks

(* What Keep makes of a list *)
LEMMA KeepPicks ==
  ASSUME NEW S, NEW list \in Seq(S), NEW I
  PROVE  /\ Keep(list, I) \in Seq(S)
         /\ \E o : Picks(Keep(list, I), Len(Keep(list, I)), o, list, I, Len(list))
<1>. DEFINE n == Len(list)
<1>1. PICK f : Keep(list, I) = f[n] /\ KeepsBy(f, S, list, I, n)
  BY KeepUnfolds
<1>. DEFINE T == {k \in Nat : k <= n => \E o : Picks(f[k], Len(f[k]), o, list, I, k)}
<1>2. n \in Nat
  BY LenProperties
<1>3. 0 \in T
  <2>1. Len(f[0]) = 0
    BY <1>1 DEF KeepsBy
  <2>2. [j \in 1 .. 0 |-> 0] \in [1 .. 0 -> 1 .. 0]
    OBVIOUS
  <2>3. Picks(f[0], 0, [j \in 1 .. 0 |-> 0], list, I, 0)
    BY <2>2 DEF Picks
  <2>. QED
    BY <2>1, <2>3
<1>4. ASSUME NEW k \in T PROVE k + 1 \in T
  <2>. SUFFICES ASSUME k + 1 <= n PROVE \E o : Picks(f[k + 1], Len(f[k + 1]), o, list, I, k + 1)
    OBVIOUS
  <2>0. k \in Nat /\ k \in 0 .. n /\ k + 1 \in 1 .. n /\ (k + 1) - 1 = k /\ k <= n
    BY <1>2
  <2>1. PICK o : Picks(f[k], Len(f[k]), o, list, I, k)
    BY <2>0
  <2>. DEFINE q == f[k]  r == f[k + 1]  x == list[k + 1]
  <2>2. q \in Seq(S) /\ x \in S /\ Len(q) \in Nat
    BY <1>1, <2>0, ElementOfSeq, LenProperties DEF KeepsBy
  <2>3. r = IF k + 1 \in I THEN Append(q, x) ELSE q
    <3>1. f[k + 1] = IF k + 1 \in I THEN Append(f[(k + 1) - 1], list[k + 1]) ELSE f[(k + 1) - 1]
      BY <1>1, <2>0 DEF KeepsBy
    <3>. QED
      BY <2>0, <3>1
  <2>4. Picks(q, Len(q), o, list, I, k) /\ x = list[k + 1]
    BY <2>1
  <2>. HIDE DEF q, r, x
  <2>5. \E p : Picks(r, Len(r), p, list, I, k + 1)
    <3>1. CASE k + 1 \in I
      <4>1. r = Append(q, x)
        BY <2>3, <3>1
      <4>2. Len(r) = Len(q) + 1 /\ (\A j \in 1 .. Len(q) : r[j] = q[j]) /\ r[Len(q) + 1] = list[k + 1]
        BY <2>2, <2>4, <4>1, AppendProperties
      <4>3. \E p : Picks(r, Len(q) + 1, p, list, I, k + 1)
        BY <2>0, <2>2, <2>4, <3>1, <4>2, PickOn
      <4>. QED
        BY <4>2, <4>3
    <3>2. CASE k + 1 \notin I
      <4>1. r = q
        BY <2>3, <3>2
      <4>. QED
        BY <2>0, <2>2, <2>4, <3>2, <4>1, PickOver
    <3>. QED
      BY <3>1, <3>2
  <2>. QED
    BY <2>5 DEF r
<1>. HIDE DEF T
<1>5. T \in SUBSET Nat
  BY DEF T
<1>6. n \in T
  BY <1>2, <1>3, <1>4, <1>5, Induction
<1>7. \E o : Picks(f[n], Len(f[n]), o, list, I, n)
  BY <1>2, <1>6 DEF T
<1>8. f[n] \in Seq(S)
  BY <1>1, <1>2 DEF KeepsBy
<1>. QED
  BY <1>1, <1>7, <1>8

-----------------------------------------------------------------------------
(* TypeOK and OneInFlight are inductive together: a completed operation cuts *)
(* the list at its node, which is the whole rest of the list only since the  *)
(* node in flight is the tail and no other node has its slot.                *)
Inv == TypeOK /\ OneInFlight

ModuleRec ==
  [list : Seq(Node), cur : Slots \cup {0}, state : {"IDLE", "WRITTING_SUSPEND", "ERASE_SUSPEND"}]

(* No two nodes of a list are in the same slot. *)
Own(list) == \A i, j \in 1 .. Len(list) : list[i].slot = list[j].slot => i = j

(* A module's own part of OneInFlight *)
Flown(r) ==
  /\ r.state # "IDLE" <=> r.cur # 0
  /\ r.cur # 0 => r.list # <<>> /\ r.list[Len(r.list)].slot = r.cur
  /\ \A i \in 1 .. Len(r.list) : r.list[i].lock <=> r.cur # 0 /\ i = Len(r.list)

(* Where the slots of module k's list come from when module m may get a new one *)
From(list, k, m) ==
  \A i \in 1 .. Len(list) :
    \/ \E j \in 1 .. Len(mod[k].list) : list[i].slot = mod[k].list[j].slot
    \/ k = m /\ list[i].slot \in FreeSlots

(* The rest of the types *)
RestOK ==
  /\ curMod \in Modules \cup {NoMod} /\ curModId \in Modules
  /\ allowedCb \in BOOLEAN
  /\ flash \in [Modules -> [Sectors -> Sector]]
  /\ expected \in [Modules -> [Sectors -> Sector]]
  /\ ops \in 0 .. MaxOps /\ bypassed \subseteq Modules

Apart ==
  \A m, k \in Modules : \A i \in 1 .. Len(mod[m].list), j \in 1 .. Len(mod[k].list) :
    mod[m].list[i].slot = mod[k].list[j].slot => m = k /\ i = j

(* Places of a sequence *)
LEMMA SeqDomain == ASSUME NEW S, NEW s \in Seq(S) PROVE DOMAIN s = 1 .. Len(s) /\ Len(s) \in Nat
BY LenProperties

(* The types of a module record, with the places of its list by number *)
LEMMA ModuleTypes ==
  ASSUME NEW r \in ModuleRec
  PROVE  /\ r.list \in Seq(Node) /\ r.cur \in Slots \cup {0}
         /\ r.state \in {"IDLE", "WRITTING_SUSPEND", "ERASE_SUSPEND"}
         /\ DOMAIN r.list = 1 .. Len(r.list) /\ Len(r.list) \in Nat
         /\ \A i \in 1 .. Len(r.list) : r.list[i] \in Node
         /\ r.list # <<>> => Len(r.list) \in 1 .. Len(r.list)
         /\ r.list = <<>> <=> Len(r.list) = 0
<1>1. r.list \in Seq(Node) /\ r.cur \in Slots \cup {0}
      /\ r.state \in {"IDLE", "WRITTING_SUSPEND", "ERASE_SUSPEND"}
  BY DEF ModuleRec
<1>2. DOMAIN r.list = 1 .. Len(r.list) /\ Len(r.list) \in Nat /\ (r.list = <<>> <=> Len(r.list) = 0)
  BY <1>1, SeqDomain, EmptySeq
<1>3. \A i \in 1 .. Len(r.list) : r.list[i] \in Node
  BY <1>1, ElementOfSeq
<1>. QED
  BY <1>1, <1>2, <1>3

(* The invariant taken apart ... *)
LEMMA Parts ==
  ASSUME Inv
  PROVE  /\ mod \in [Modules -> ModuleRec] /\ RestOK /\ Apart
         /\ \A m \in Modules : mod[m] \in ModuleRec /\ Flown(mod[m]) /\ (mod[m].cur # 0 => curMod = m)
<1>1. mod \in [Modules -> ModuleRec] /\ RestOK
  BY DEF Inv, TypeOK, RestOK, ModuleRec
<1>2. \A m \in Modules : mod[m] \in ModuleRec /\ DOMAIN mod[m].list = 1 .. Len(mod[m].list)
  BY <1>1, ModuleTypes
<1>3. Apart
  BY <1>2 DEF Inv, TypeOK, Apart
<1>4. ASSUME NEW m \in Modules PROVE Flown(mod[m]) /\ (mod[m].cur # 0 => curMod = m)
  BY <1>2 DEF Inv, OneInFlight, Flown
<1>. QED
  BY <1>1, <1>2, <1>3, <1>4

(* ... and put together again after a step *)
LEMMA Whole ==
  ASSUME mod' \in [Modules -> ModuleRec], RestOK', Apart',
         \A m \in Modules : Flown(mod'[m]) /\ (mod'[m].cur # 0 => curMod' = m)
  PROVE  Inv'
<1>1. \A m \in Modules : mod'[m] \in ModuleRec /\ DOMAIN mod'[m].list = 1 .. Len(mod'[m].list)
  BY ModuleTypes
<1>2. \A m, k \in Modules : \A i \in DOMAIN mod'[m].list, j \in DOMAIN mod'[k].list :
        mod'[m].list[i].slot = mod'[k].list[j].slot => m = k /\ i = j
  BY <1>1 DEF Apart
<1>3. TypeOK'
  BY <1>2 DEF TypeOK, RestOK, ModuleRec
<1>4. OneInFlight'
  BY <1>1 DEF OneInFlight, Flown
<1>. QED
  BY <1>3, <1>4 DEF Inv

(* What a step that changes the lists has to keep *)
LEMMA ListsChange ==
  ASSUME Inv, NEW m, mod' \in [Modules -> ModuleRec],
         \A k \in Modules : Flown(mod'[k]) /\ Own(mod'[k].list) /\ From(mod'[k].list, k, m),
         \A k \in Modules : mod'[k].cur # 0 => curMod' = k,
         RestOK'
  PROVE  Inv'
<1>1. Apart
  BY Parts
<1>2. \A k \in Modules : \A j \in 1 .. Len(mod[k].list) : mod[k].list[j].slot \notin FreeSlots
  <2>. SUFFICES ASSUME NEW k \in Modules, NEW j \in 1 .. Len(mod[k].list)
                PROVE  mod[k].list[j] \in Nodes
    BY DEF FreeSlots
  <2>1. mod[k] \in ModuleRec
    BY Parts
  <2>2. j \in DOMAIN mod[k].list
    BY <2>1, ModuleTypes
  <2>. QED
    BY <2>2 DEF Nodes, Range
<1>3. ASSUME NEW k \in Modules, NEW l \in Modules,
             NEW i \in 1 .. Len(mod'[k].list), NEW j \in 1 .. Len(mod'[l].list),
             mod'[k].list[i].slot = mod'[l].list[j].slot
      PROVE  k = l
  <2>. DEFINE x == mod'[k].list[i].slot
  <2>1. \/ \E a \in 1 .. Len(mod[k].list) : x = mod[k].list[a].slot
        \/ k = m /\ x \in FreeSlots
    BY DEF From
  <2>2. \/ \E a \in 1 .. Len(mod[l].list) : x = mod[l].list[a].slot
        \/ l = m /\ x \in FreeSlots
    BY <1>3 DEF From
  <2>. QED
    BY <1>1, <1>2, <2>1, <2>2 DEF Apart
<1>4. Apart'
  BY <1>3 DEF Apart, Own
<1>. QED
  BY <1>4, Whole

(* The sets of modules, sectors and cells begin at 0 and are not empty. *)
LEMMA Sizes ==
  /\ Modules \subseteq Nat /\ Sectors \subseteq Nat /\ Cells \subseteq Nat
  /\ Cardinality(Cells) \in Nat /\ 1 \in 1 .. Cardinality(Cells)
  /\ 0 \in Cells /\ Cells = 0 .. Cardinality(Cells) - 1
  /\ EraseLens \subseteq Nat /\ NoMod \notin Modules
  /\ OpraLen \in Nat /\ MaxOps \in Nat
<1>1. ASSUME NEW S \in {Modules, Sectors, Cells}
      PROVE  Cardinality(S) \in Nat /\ S # {} /\ S = 0 .. Cardinality(S) - 1
  BY ConstAssumption, FS_CardinalityType
<1>2. ASSUME NEW S, Cardinality(S) \in Nat, S # {}, S = 0 .. Cardinality(S) - 1
      PROVE  S \subseteq Nat /\ 0 \in S /\ 1 \in 1 .. Cardinality(S) /\ -1 \notin S
  BY <1>2
<1>3. EraseLens \subseteq Nat
  BY <1>1, ConstAssumption
<1>. QED
  BY <1>1, <1>2, <1>3, ConstAssumption DEF NoMod

(* The least slot of a non-empty set of slots is in it. *)
LEMMA LeastIs == ASSUME NEW S, S \subseteq Slots, S # {} PROVE Least(S) \in S
<1>1. S \in SUBSET Nat
  BY Sizes DEF Slots
<1>2. \E x \in S : \A y \in S : x <= y
  BY <1>1, LeastNumber
<1>. QED
  BY <1>2 DEF Least

-----------------------------------------------------------------------------
(* What becomes of a node *)
LEMMA NodeFields ==
  ASSUME NEW n \in Node
  PROVE  /\ n.slot \in Slots /\ n.type \in {"W", "E"} /\ n.addr \in Sectors
         /\ n.len \in EraseLens \cup {1} /\ n.from \in Cells /\ n.to \in 1 .. Cardinality(Cells)
         /\ n.data \in Sector /\ n.lock \in BOOLEAN /\ n.freed \in BOOLEAN /\ n.stale \in BOOLEAN
BY DEF Node

(* An erased sector has no bit. *)
LEMMA ErasedIs == Erased \in Sector /\ \A c \in Cells : Erased[c] = {}
BY DEF Erased, Sector

(* A sector with a value copied over a range of its cells *)
LEMMA OverlayIs ==
  ASSUME NEW d \in Sector, NEW from, NEW to, NEW v \in SUBSET Bits
  PROVE  /\ Overlay(d, from, to, v) \in Sector
         /\ \A c \in Cells : Overlay(d, from, to, v)[c] = IF c \in from .. to - 1 THEN v ELSE d[c]
BY DEF Overlay, Sector

(* All but the data and the range, which a merged write changes too *)
Alike(n, o) ==
  n.slot = o.slot /\ n.type = o.type /\ n.addr = o.addr /\ n.len = o.len /\ n.stale = o.stale

(* A node whose lock mark is set *)
LEMMA LockedIs ==
  ASSUME NEW n \in Node, NEW b \in BOOLEAN
  PROVE  LET o == [n EXCEPT !.lock = b]
         IN  /\ o \in Node /\ Alike(o, n) /\ o.data = n.data /\ o.from = n.from /\ o.to = n.to
             /\ o.freed = n.freed /\ o.lock = b
BY DEF Node, Alike

(* A node whose mark of having been freed is set *)
LEMMA FreedIs ==
  ASSUME NEW n \in Node, NEW b \in BOOLEAN
  PROVE  LET o == [n EXCEPT !.freed = b]
         IN  /\ o \in Node /\ Alike(o, n) /\ o.data = n.data /\ o.from = n.from /\ o.to = n.to
             /\ o.freed = b /\ o.lock = n.lock
             /\ n.freed = b => o = n
BY DEF Node, Alike

(* A node another write is merged into *)
LEMMA MergedIs ==
  ASSUME NEW n \in Node, NEW from \in Cells, NEW to \in 1 .. Cardinality(Cells), NEW v \in SUBSET Bits
  PROVE  LET o == Merged(n, from, to, v)
         IN  /\ o \in Node /\ Alike(o, n) /\ o.data = Overlay(n.data, from, to, v)
             /\ o.from = (IF n.from <= from THEN n.from ELSE from)
             /\ o.to = (IF n.to >= to THEN n.to ELSE to)
             /\ o.freed = n.freed /\ o.lock = n.lock
<1>1. Overlay(n.data, from, to, v) \in Sector
  BY NodeFields, OverlayIs
<1>. DEFINE d == Overlay(n.data, from, to, v)
            f == IF n.from <= from THEN n.from ELSE from
            t == IF n.to >= to THEN n.to ELSE to
<1>2. f \in Cells /\ t \in 1 .. Cardinality(Cells)
  BY NodeFields
<1>3. Merged(n, from, to, v) = [n EXCEPT !.data = d, !.from = f, !.to = t]
  BY DEF Merged, Node
<1>. HIDE DEF d, f, t
<1>4. LET o == [n EXCEPT !.data = d, !.from = f, !.to = t]
      IN  /\ o \in Node /\ Alike(o, n) /\ o.data = d /\ o.from = f /\ o.to = t
          /\ o.freed = n.freed /\ o.lock = n.lock
  BY <1>1, <1>2 DEF Node, Alike, d
<1>. QED
  BY <1>3, <1>4 DEF d, f, t

(* A new erase *)
LEMMA EraseNodeIs ==
  ASSUME NEW k \in Slots, NEW s \in Sectors, NEW len \in EraseLens
  PROVE  LET n == EraseNode(k, s, len)
         IN  /\ n \in Node /\ n.slot = k /\ n.type = "E" /\ n.addr = s /\ n.len = len
             /\ ~ n.lock /\ ~ n.freed
BY Sizes, ErasedIs DEF EraseNode, Node

(* A new write *)
LEMMA WriteNodeIs ==
  ASSUME NEW k \in Slots, NEW s \in Sectors, NEW from \in Cells, NEW to \in 1 .. Cardinality(Cells),
         NEW v \in SUBSET Bits, NEW base \in Sector, NEW stale \in BOOLEAN
  PROVE  LET n == WriteNode(k, s, from, to, v, base, stale)
         IN  /\ n \in Node /\ n.slot = k /\ n.type = "W" /\ n.addr = s /\ n.from = from /\ n.to = to
             /\ n.data = Overlay(base, from, to, v) /\ n.stale = stale
             /\ ~ n.lock /\ ~ n.freed
<1>1. Overlay(base, from, to, v) \in Sector
  BY OverlayIs
<1>. QED
  BY <1>1 DEF WriteNode, Node

(* What an operation does to a sector keeps the types. *)
Contents == [Sectors -> Sector]

(* An operation leaves the content of a sector. *)
LEMMA EffectType ==
  ASSUME NEW n, n.type \in {"W", "E"}, n.type = "W" => n.data \in Sector, NEW x \in Contents
  PROVE  Effect(n, x) \in Contents
<1>1. ASSUME NEW s \in Sectors
      PROVE  (IF n.type = "E"
              THEN IF s \in n.addr .. n.addr + n.len - 1 THEN Erased ELSE x[s]
              ELSE IF s = n.addr
                   THEN [c \in Cells |-> IF c \in n.from .. n.to - 1
                                         THEN x[s][c] \cup n.data[c] ELSE x[s][c]]
                   ELSE x[s]) \in Sector
  <2>1. x[s] \in Sector
    BY DEF Contents
  <2>2. CASE n.type = "E"
    BY <2>1, <2>2, ErasedIs
  <2>. DEFINE y == [c \in Cells |-> IF c \in n.from .. n.to - 1 THEN x[s][c] \cup n.data[c] ELSE x[s][c]]
  <2>3. ASSUME n.type = "W" PROVE y \in Sector
    BY <2>1, <2>3 DEF Sector
  <2>. QED
    BY <2>1, <2>2, <2>3
<1>. QED
  BY <1>1 DEF Effect, Contents

-----------------------------------------------------------------------------
(* The list an erase request leaves *)
Kept(list, s) == 1 .. Len(list) \ (Matches(list, s) \ Missed(list, s))
Marked(list, s) == [i \in 1 .. Len(list) |-> [list[i] EXCEPT !.freed = i \in Missed(list, s)]]

(* The list with the nodes whose unlinking failed marked *)
LEMMA MarkedIs ==
  ASSUME NEW list \in Seq(Node), NEW s
  PROVE  /\ Marked(list, s) \in Seq(Node) /\ Len(Marked(list, s)) = Len(list)
         /\ \A i \in 1 .. Len(list) :
              LET o == Marked(list, s)[i]
              IN  /\ o \in Node /\ Alike(o, list[i]) /\ o.data = list[i].data
                  /\ o.from = list[i].from /\ o.to = list[i].to
                  /\ o.freed = (i \in Missed(list, s)) /\ o.lock = list[i].lock
                  /\ list[i].freed = (i \in Missed(list, s)) => o = list[i]
<1>1. Len(list) \in Nat /\ \A i \in 1 .. Len(list) : list[i] \in Node
  BY ElementOfSeq, LenProperties
<1>2. \A i \in 1 .. Len(list) : (i \in Missed(list, s)) \in BOOLEAN
  OBVIOUS
<1>3. ASSUME NEW i \in 1 .. Len(list)
      PROVE  LET o == Marked(list, s)[i]
             IN  /\ o \in Node /\ Alike(o, list[i]) /\ o.data = list[i].data
                 /\ o.from = list[i].from /\ o.to = list[i].to
                 /\ o.freed = (i \in Missed(list, s)) /\ o.lock = list[i].lock
                 /\ list[i].freed = (i \in Missed(list, s)) => o = list[i]
  <2>. DEFINE b == i \in Missed(list, s)  n == list[i]
  <2>1. b \in BOOLEAN /\ n \in Node
    BY <1>1
  <2>2. Marked(list, s)[i] = [n EXCEPT !.freed = b]
    BY DEF Marked
  <2>. HIDE DEF b, n
  <2>3. LET o == [n EXCEPT !.freed = b]
        IN  /\ o \in Node /\ Alike(o, n) /\ o.data = n.data /\ o.from = n.from /\ o.to = n.to
            /\ o.freed = b /\ o.lock = n.lock
            /\ n.freed = b => o = n
    BY <2>1, FreedIs
  <2>. QED
    BY <2>2, <2>3 DEF b, n
<1>4. Marked(list, s) \in [1 .. Len(list) -> Node]
  BY <1>3 DEF Marked
<1>. QED
  BY <1>1, <1>3, <1>4, IsASeq, LenProperties

(* The nodes of list l are nodes of list, in their order, the j-th that from *)
(* place o[j], except for the mark of having been freed.                     *)
Sifted(l, o, list, I) ==
  /\ l \in Seq(Node) /\ Len(l) \in Nat
  /\ o \in [1 .. Len(l) -> 1 .. Len(list)]
  /\ \A i, j \in 1 .. Len(l) : i < j => o[i] < o[j]
  /\ \A i \in 1 .. Len(list) : i \in I <=> \E j \in 1 .. Len(l) : o[j] = i
  /\ \A j \in 1 .. Len(l) :
       /\ l[j] \in Node /\ Alike(l[j], list[o[j]])
       /\ l[j].data = list[o[j]].data /\ l[j].from = list[o[j]].from
       /\ l[j].to = list[o[j]].to /\ l[j].lock = list[o[j]].lock

(* What an erase request keeps of the list is a part of it, in its order. *)
LEMMA KeptSifted ==
  ASSUME NEW list \in Seq(Node), NEW s
  PROVE  LET l == Keep(Marked(list, s), Kept(list, s))
         IN  \E o : /\ Sifted(l, o, list, Kept(list, s))
                    /\ \A j \in 1 .. Len(l) : l[j].freed = (o[j] \in Missed(list, s))
<1>. DEFINE a == Marked(list, s)  I == Kept(list, s)  l == Keep(a, I)  F == Missed(list, s)
<1>1. /\ a \in Seq(Node) /\ Len(a) = Len(list)
      /\ \A i \in 1 .. Len(list) :
           /\ a[i] \in Node /\ Alike(a[i], list[i]) /\ a[i].data = list[i].data
           /\ a[i].from = list[i].from /\ a[i].to = list[i].to
           /\ a[i].freed = (i \in F) /\ a[i].lock = list[i].lock
  BY MarkedIs
<1>. HIDE DEF a, I
<1>2. l \in Seq(Node) /\ \E o : Picks(l, Len(l), o, a, I, Len(a))
  BY <1>1, KeepPicks
<1>3. Len(l) \in Nat
  BY <1>2, LenProperties
<1>. HIDE DEF l, F
<1>4. PICK o : Picks(l, Len(l), o, a, I, Len(list))
  BY <1>1, <1>2
<1>5. \A j \in 1 .. Len(l) : o[j] \in 1 .. Len(list) /\ l[j] = a[o[j]]
  BY <1>4 DEF Picks
<1>6. \A j \in 1 .. Len(l) :
       /\ l[j] \in Node /\ Alike(l[j], list[o[j]])
       /\ l[j].data = list[o[j]].data /\ l[j].from = list[o[j]].from
       /\ l[j].to = list[o[j]].to /\ l[j].lock = list[o[j]].lock
  BY <1>1, <1>5
<1>7. Sifted(l, o, list, I)
  BY <1>2, <1>3, <1>4, <1>6 DEF Sifted, Picks
<1>8. \A j \in 1 .. Len(l) : l[j].freed = (o[j] \in F)
  BY <1>1, <1>5
<1>. QED
  BY <1>7, <1>8 DEF l, a, I, F

(* No two nodes of the sifted list are in one slot, and the node in flight   *)
(* stays its last one.                                                       *)
LEMMA SiftedOwn ==
  ASSUME NEW list \in Seq(Node), NEW l, NEW o, NEW I, Sifted(l, o, list, I), Own(list)
  PROVE  /\ Own(l)
         /\ \A j \in 1 .. Len(l) : o[j] \in I /\ l[j].slot = list[o[j]].slot
<1>1. \A j \in 1 .. Len(l) : o[j] \in 1 .. Len(list) /\ o[j] \in I /\ l[j].slot = list[o[j]].slot
  BY DEF Sifted, Alike
<1>2. ASSUME NEW i \in 1 .. Len(l), NEW j \in 1 .. Len(l), l[i].slot = l[j].slot
      PROVE  i = j
  <2>1. o[i] = o[j]
    BY <1>1, <1>2 DEF Own
  <2>2. i \in Nat /\ j \in Nat /\ o[i] \in Nat /\ o[j] \in Nat
    BY <1>1
  <2>3. ~ (i < j) /\ ~ (j < i)
    BY <2>1, <2>2 DEF Sifted
  <2>. QED
    BY <2>2, <2>3
<1>. QED
  BY <1>1, <1>2 DEF Own

(* The node in flight stays the last one, and the only locked one. *)
LEMMA SiftedFlown ==
  ASSUME NEW r \in ModuleRec, Flown(r), NEW l, NEW o, NEW I, Sifted(l, o, r.list, I),
         r.cur # 0 => Len(r.list) \in I
  PROVE  /\ Flown([r EXCEPT !.list = l])
         /\ r.cur # 0 => l # <<>> /\ o[Len(l)] = Len(r.list)
<1>. DEFINE list == r.list  q == [r EXCEPT !.list = l]
<1>1. q.list = l /\ q.cur = r.cur /\ q.state = r.state
  BY DEF ModuleRec
<1>2. list \in Seq(Node) /\ Len(list) \in Nat /\ (list # <<>> => Len(list) \in 1 .. Len(list))
  BY ModuleTypes
<1>. HIDE DEF q
<1>3. /\ l \in Seq(Node) /\ Len(l) \in Nat /\ (l # <<>> => Len(l) \in 1 .. Len(l))
      /\ \A j \in 1 .. Len(l) : o[j] \in 1 .. Len(list) /\ l[j].lock = list[o[j]].lock
      /\ \A j \in 1 .. Len(l) : l[j].slot = list[o[j]].slot
  BY EmptySeq DEF Sifted, Alike
<1>4. ASSUME NEW j \in 1 .. Len(l), o[j] = Len(list) PROVE j = Len(l) /\ l # <<>>
  <2>1. Len(l) \in 1 .. Len(l) /\ j <= Len(l) /\ l # <<>>
    BY <1>3
  <2>2. ~ (j < Len(l))
    BY <1>2, <1>3, <1>4, <2>1 DEF Sifted
  <2>. QED
    BY <1>3, <2>1, <2>2
<1>5. ASSUME r.cur # 0
      PROVE  l # <<>> /\ o[Len(l)] = Len(list)
  <2>1. list # <<>>
    BY <1>5 DEF Flown
  <2>2. PICK j \in 1 .. Len(l) : o[j] = Len(list)
    BY <1>2, <1>5, <2>1 DEF Sifted
  <2>. QED
    BY <1>4, <2>2
<1>6. r.cur # 0 => l[Len(l)].slot = r.cur
  BY <1>3, <1>5 DEF Flown
<1>7. \A j \in 1 .. Len(l) : l[j].lock <=> r.cur # 0 /\ j = Len(l)
  BY <1>3, <1>4, <1>5 DEF Flown
<1>8. r.state # "IDLE" <=> r.cur # 0
  BY DEF Flown
<1>9. Flown(q)
  BY <1>1, <1>5, <1>6, <1>7, <1>8 DEF Flown
<1>. QED
  BY <1>5, <1>9 DEF q

(* List l is one that r's own can be replaced by. *)
Holds(r, l) == l \in Seq(Node) /\ Own(l) /\ Flown([r EXCEPT !.list = l])

(* A record with another list *)
LEMMA HoldsIs ==
  ASSUME NEW r \in ModuleRec, NEW l \in Seq(Node)
  PROVE  LET q == [r EXCEPT !.list = l]
         IN  q \in ModuleRec /\ q.list = l /\ q.cur = r.cur /\ q.state = r.state
BY DEF ModuleRec

(* A new node in a slot of its own may be put before the list. *)
LEMMA ConsHolds ==
  ASSUME NEW r \in ModuleRec, NEW l, Holds(r, l), NEW n \in Node, ~ n.lock,
         \A j \in 1 .. Len(l) : l[j].slot # n.slot
  PROVE  Holds(r, <<n>> \o l)
<1>. DEFINE c == <<n>> \o l  q == [r EXCEPT !.list = l]  p == [r EXCEPT !.list = c]
<1>1. l \in Seq(Node) /\ Own(l) /\ Flown(q) /\ Len(l) \in Nat /\ (l # <<>> <=> Len(l) # 0)
  BY LenProperties, EmptySeq DEF Holds
<1>2. /\ c \in Seq(Node) /\ Len(c) = Len(l) + 1
      /\ \A i \in 1 .. Len(l) + 1 : c[i] = IF i = 1 THEN n ELSE l[i - 1]
  BY <1>1, ConsPlaces
<1>3. q.list = l /\ q.cur = r.cur /\ q.state = r.state
  BY <1>1, HoldsIs
<1>. HIDE DEF c, q
<1>4. p.list = c /\ p.cur = r.cur /\ p.state = r.state
  BY <1>2, HoldsIs
<1>. HIDE DEF p
<1>5. /\ c[1] = n /\ \A i \in 1 .. Len(c) : i = 1 \/ (i - 1 \in 1 .. Len(l) /\ c[i] = l[i - 1] /\ i # 1)
      /\ c # <<>> /\ 1 \in 1 .. Len(c)
  <2>1. 1 \in 1 .. Len(l) + 1 /\ \A i \in 1 .. Len(l) + 1 : i = 1 \/ (i - 1 \in 1 .. Len(l) /\ i # 1)
    BY <1>1
  <2>. QED
    BY <1>1, <1>2, <2>1
<1>6. Own(c)
  <2>. SUFFICES ASSUME NEW i \in 1 .. Len(c), NEW j \in 1 .. Len(c), c[i].slot = c[j].slot
                PROVE  i = j
    BY DEF Own
  <2>1. CASE i = 1 \/ j = 1
    BY <1>5, <2>1
  <2>2. CASE i # 1 /\ j # 1
    <3>1. i - 1 = j - 1
      BY <1>1, <1>5, <2>2 DEF Own
    <3>. QED
      BY <1>1, <1>2, <3>1
  <2>. QED
    BY <2>1, <2>2
<1>7. /\ q.state # "IDLE" <=> q.cur # 0
      /\ q.cur # 0 => l # <<>> /\ l[Len(l)].slot = q.cur
      /\ \A i \in 1 .. Len(l) : l[i].lock <=> q.cur # 0 /\ i = Len(l)
  BY <1>1, <1>3 DEF Flown
<1>8. r.cur # 0 => c[Len(c)].slot = r.cur
  <2>. SUFFICES ASSUME r.cur # 0 PROVE c[Len(c)].slot = r.cur
    OBVIOUS
  <2>1. Len(l) # 0 /\ l[Len(l)].slot = r.cur
    BY <1>1, <1>3, <1>7
  <2>2. Len(c) \in 1 .. Len(c) /\ Len(c) - 1 = Len(l) /\ Len(c) # 1
    BY <1>1, <1>2, <2>1
  <2>. QED
    BY <1>5, <2>1, <2>2
<1>9. ASSUME NEW i \in 1 .. Len(c) PROVE c[i].lock <=> r.cur # 0 /\ i = Len(c)
  <2>1. CASE i = 1
    <3>1. r.cur # 0 => Len(c) # 1
      BY <1>1, <1>2, <1>3, <1>7
    <3>. QED
      BY <1>5, <2>1, <3>1
  <2>2. CASE i # 1
    <3>1. i - 1 \in 1 .. Len(l) /\ c[i] = l[i - 1] /\ (i - 1 = Len(l) <=> i = Len(c))
      BY <1>1, <1>2, <1>5, <2>2
    <3>. QED
      BY <1>3, <1>7, <3>1
  <2>. QED
    BY <2>1, <2>2
<1>10. Flown(p)
  BY <1>3, <1>4, <1>5, <1>7, <1>8, <1>9 DEF Flown
<1>. QED
  BY <1>2, <1>6, <1>10 DEF Holds, c, p

(* Slots a request of module m may use *)
LEMMA Origin ==
  ASSUME Inv, NEW m \in Modules
  PROVE  /\ \A j \in 1 .. Len(mod[m].list) : mod[m].list[j].slot \notin FreeSlots
         /\ FreeSlots \subseteq Slots /\ Own(mod[m].list) /\ mod[m] \in ModuleRec /\ Flown(mod[m])
<1>1. mod[m] \in ModuleRec /\ Flown(mod[m]) /\ Apart
  BY Parts
<1>2. \A j \in 1 .. Len(mod[m].list) : mod[m].list[j] \in Nodes
  BY <1>1, ModuleTypes DEF Nodes, Range
<1>. QED
  BY <1>1, <1>2 DEF FreeSlots, Apart, Own

(* What an erase request does: the rest of the list, with the new node before *)
(* it unless an erase is under way or no slot is left                         *)
EraseRest(list, s) == Keep(Marked(list, s), Kept(list, s))
EraseFree(list, s) ==
  FreeSlots \cup {list[i].slot : i \in Matches(list, s) \ Missed(list, s)}

(* The three ways an erase request takes *)
LEMMA EraseIs ==
  ASSUME NEW list \in Seq(Node), NEW s, NEW len
  PROVE  EOperaAdd(list, s, len) =
           IF EraseUnderWay(list, s) THEN [list |-> EraseRest(list, s), ok |-> TRUE]
           ELSE IF EraseFree(list, s) = {} THEN [list |-> EraseRest(list, s), ok |-> FALSE]
           ELSE [list |-> <<EraseNode(Least(EraseFree(list, s)), s, len)>> \o EraseRest(list, s),
                 ok |-> TRUE]
<1>1. DOMAIN list = 1 .. Len(list)
  BY SeqDomain
<1>. QED
  BY <1>1 DEF EOperaAdd, EraseRest, EraseFree, Marked, Kept

(* Matching nodes by number *)
LEMMA MatchesAre ==
  ASSUME NEW list \in Seq(Node), NEW s
  PROVE  /\ Matches(list, s) \subseteq 1 .. Len(list) /\ Missed(list, s) \subseteq Matches(list, s)
         /\ \A i \in 1 .. Len(list) : i \in Matches(list, s) <=> list[i].addr = s /\ ~ list[i].lock
BY SeqDomain DEF Matches, Missed, Of

(* l is what is left of r's list when the nodes of sector s are freed. *)
LeftOf(l, o, r, s) ==
  /\ Sifted(l, o, r.list, Kept(r.list, s))
  /\ r.cur # 0 => l # <<>> /\ o[Len(l)] = Len(r.list)
  /\ \A j \in 1 .. Len(l) :
       /\ o[j] \in Kept(r.list, s)
       /\ l[j].slot = r.list[o[j]].slot
       /\ l[j].freed = (o[j] \in Missed(r.list, s))

(* Freeing the nodes of a sector keeps slots apart and the node in flight last. *)
LEMMA EraseRestHolds ==
  ASSUME NEW r \in ModuleRec, Flown(r), Own(r.list), NEW s
  PROVE  /\ Holds(r, EraseRest(r.list, s))
         /\ \E o : LeftOf(EraseRest(r.list, s), o, r, s)
<1>. DEFINE list == r.list  l == EraseRest(list, s)
<1>1. list \in Seq(Node) /\ Len(list) \in Nat /\ (list # <<>> => Len(list) \in 1 .. Len(list))
  BY ModuleTypes
<1>2. PICK o : /\ Sifted(l, o, list, Kept(list, s))
               /\ \A j \in 1 .. Len(l) : l[j].freed = (o[j] \in Missed(list, s))
  BY <1>1, KeptSifted DEF EraseRest
<1>. HIDE DEF l
<1>3. r.cur # 0 => Len(list) \in Kept(list, s)
  <2>. SUFFICES ASSUME r.cur # 0 PROVE Len(list) \in Kept(list, s)
    OBVIOUS
  <2>1. Len(list) \in 1 .. Len(list) /\ list[Len(list)].lock
    BY <1>1 DEF Flown
  <2>. QED
    BY <1>1, <2>1, MatchesAre DEF Kept
<1>4. /\ Flown([r EXCEPT !.list = l])
      /\ r.cur # 0 => l # <<>> /\ o[Len(l)] = Len(list)
  BY <1>2, <1>3, SiftedFlown
<1>5. /\ Own(l)
      /\ \A j \in 1 .. Len(l) : o[j] \in Kept(list, s) /\ l[j].slot = list[o[j]].slot
  BY <1>1, <1>2, SiftedOwn
<1>6. Holds(r, l)
  BY <1>2, <1>4, <1>5 DEF Holds, Sifted
<1>7. LeftOf(l, o, r, s)
  BY <1>2, <1>4, <1>5 DEF LeftOf
<1>. QED
  BY <1>6, <1>7 DEF l

(* So does the whole of an erase request; its new node is in a slot that was *)
(* free or has just been freed.                                              *)
LEMMA EraseHolds ==
  ASSUME Inv, NEW m \in Modules, NEW s \in Sectors, NEW len \in EraseLens
  PROVE  LET l == EOperaAdd(mod[m].list, s, len).list
         IN  Holds(mod[m], l) /\ From(l, m, m)
<1>. DEFINE r == mod[m]  list == r.list  rest == EraseRest(list, s)  free == EraseFree(list, s)
            l == EOperaAdd(list, s, len).list
<1>1. r \in ModuleRec /\ Flown(r) /\ Own(list) /\ FreeSlots \subseteq Slots
      /\ \A j \in 1 .. Len(list) : list[j].slot \notin FreeSlots
  BY Origin
<1>2. list \in Seq(Node) /\ \A j \in 1 .. Len(list) : list[j] \in Node
  BY <1>1, ModuleTypes
<1>3. /\ Holds(r, rest)
      /\ \E o : \A j \in 1 .. Len(rest) : o[j] \in Kept(list, s) /\ rest[j].slot = list[o[j]].slot
  <2>. HIDE DEF list
  <2>1. Holds(r, EraseRest(r.list, s))
    BY <1>1, EraseRestHolds DEF list
  <2>2. PICK o : LeftOf(EraseRest(r.list, s), o, r, s)
    BY <1>1, EraseRestHolds DEF list
  <2>3. \A j \in 1 .. Len(rest) : o[j] \in Kept(list, s) /\ rest[j].slot = list[o[j]].slot
    BY <2>2 DEF LeftOf, list
  <2>. QED
    BY <2>1, <2>3 DEF list
<1>. HIDE DEF rest
<1>4. \A j \in 1 .. Len(rest) : \E i \in Kept(list, s) : i \in 1 .. Len(list) /\ rest[j].slot = list[i].slot
  BY <1>3 DEF Kept
<1>5. From(rest, m, m)
  BY <1>4 DEF From
<1>6. l = rest \/ (free # {} /\ l = <<EraseNode(Least(free), s, len)>> \o rest)
  BY <1>2, EraseIs DEF rest
<1>7. ASSUME free # {}, l = <<EraseNode(Least(free), s, len)>> \o rest
      PROVE  Holds(r, l) /\ From(l, m, m)
  <2>. DEFINE k == Least(free)  n == EraseNode(k, s, len)
  <2>1. \A i \in Matches(list, s) : i \in 1 .. Len(list) /\ list[i].slot \in Slots
    BY <1>2, MatchesAre, NodeFields
  <2>2. free \subseteq Slots
    BY <1>1, <2>1 DEF EraseFree
  <2>3. k \in free /\ k \in Slots
    BY <1>7, <2>2, LeastIs
  <2>4. n \in Node /\ n.slot = k /\ ~ n.lock
    BY <2>3, EraseNodeIs
  <2>5. k \in FreeSlots \/ \E i \in Matches(list, s) \ Missed(list, s) : i \in 1 .. Len(list) /\ k = list[i].slot
    BY <2>1, <2>3 DEF EraseFree
  <2>. HIDE DEF k, n
  <2>6. ASSUME NEW j \in 1 .. Len(rest) PROVE rest[j].slot # k
    <3>1. PICK i \in Kept(list, s) : i \in 1 .. Len(list) /\ rest[j].slot = list[i].slot
      BY <1>4
    <3>. QED
      BY <1>1, <2>5, <3>1 DEF Kept, Own
  <2>7. l = <<n>> \o rest
    BY <1>7 DEF n, k
  <2>8. Holds(r, l)
    BY <1>1, <1>3, <2>4, <2>6, <2>7, ConsHolds
  <2>9. From(l, m, m)
    <3>0. rest \in Seq(Node) /\ Len(rest) \in Nat
      BY <1>3, LenProperties DEF Holds
    <3>1. Len(l) = Len(rest) + 1 /\ \A i \in 1 .. Len(rest) + 1 : l[i] = IF i = 1 THEN n ELSE rest[i - 1]
      BY <2>4, <2>7, <3>0, ConsPlaces
    <3>2. ASSUME NEW i \in 1 .. Len(l)
          PROVE  l[i].slot \in FreeSlots \/ \E j \in 1 .. Len(list) : l[i].slot = list[j].slot
      <4>1. CASE i = 1
        BY <2>4, <2>5, <3>1, <4>1
      <4>2. CASE i # 1
        <5>1. i - 1 \in 1 .. Len(rest) /\ l[i] = rest[i - 1]
          BY <3>0, <3>1, <4>2
        <5>. QED
          BY <1>4, <5>1
      <4>. QED
        BY <4>1, <4>2
    <3>. QED
      BY <3>2 DEF From
  <2>. QED
    BY <2>8, <2>9
<1>. HIDE DEF l, r
<1>. QED
  BY <1>3, <1>5, <1>6, <1>7 DEF l, r

-----------------------------------------------------------------------------
(* The list a write request leaves *)
LEMMA WriteHitIs ==
  ASSUME NEW list \in Seq(Node), NEW s
  PROVE  /\ \A h \in WriteHit(list, s) :
              /\ h \in 1 .. Len(list) /\ list[h].addr = s /\ ~ (list[h].type = "W" /\ list[h].lock)
              /\ \A j \in 1 .. Len(list) :
                   list[j].addr = s /\ ~ (list[j].type = "W" /\ list[j].lock) => h <= j
         /\ WriteHit(list, s) = {} =>
              \A j \in 1 .. Len(list) : list[j].addr = s => list[j].type = "W" /\ list[j].lock
<1>. DEFINE T == {i \in 1 .. Len(list) : list[i].addr = s /\ ~ (list[i].type = "W" /\ list[i].lock)}
<1>1. DOMAIN list = 1 .. Len(list) /\ Len(list) \in Nat
  BY SeqDomain
<1>2. WriteHit(list, s) = {i \in T : \A j \in T : i <= j}
  BY <1>1 DEF WriteHit, First, Of, WritesOf
<1>3. ASSUME T # {} PROVE WriteHit(list, s) # {}
  <2>1. T \in SUBSET Nat
    BY <1>1
  <2>2. \E x \in T : \A y \in T : x <= y
    BY <1>3, <2>1, LeastNumber
  <2>. QED
    BY <1>2, <2>2
<1>. QED
  BY <1>2, <1>3

(* So does changing the data and range of one node. *)
LEMMA MergeHolds ==
  ASSUME NEW r \in ModuleRec, Flown(r), Own(r.list), NEW i \in 1 .. Len(r.list), NEW n \in Node,
         Alike(n, r.list[i]), n.lock = r.list[i].lock
  PROVE  LET l == [r.list EXCEPT ![i] = n]
         IN  /\ Holds(r, l) /\ Len(l) = Len(r.list)
             /\ \A j \in 1 .. Len(r.list) : l[j] = IF j = i THEN n ELSE r.list[j]
             /\ \A j \in 1 .. Len(r.list) : l[j].slot = r.list[j].slot
<1>. DEFINE list == r.list  l == [list EXCEPT ![i] = n]  q == [r EXCEPT !.list = l]
<1>1. list \in Seq(Node) /\ Len(list) \in Nat
  BY ModuleTypes
<1>2. l \in Seq(Node) /\ Len(l) = Len(list) /\ \A j \in 1 .. Len(list) : l[j] = IF j = i THEN n ELSE list[j]
  BY <1>1, ExceptSeq
<1>3. l # <<>> /\ list # <<>>
  BY <1>1, <1>2, EmptySeq
<1>. HIDE DEF l
<1>4. q.list = l /\ q.cur = r.cur /\ q.state = r.state
  BY <1>2, HoldsIs
<1>. HIDE DEF q
<1>5. \A j \in 1 .. Len(list) : l[j].slot = list[j].slot /\ l[j].lock = list[j].lock
  BY <1>2 DEF Alike
<1>6. Own(l)
  BY <1>2, <1>5 DEF Own
<1>7. Flown(q)
  <2>1. Len(list) \in 1 .. Len(list)
    BY <1>1
  <2>2. /\ r.state # "IDLE" <=> r.cur # 0
        /\ r.cur # 0 => list[Len(list)].slot = r.cur
        /\ \A j \in 1 .. Len(list) : list[j].lock <=> r.cur # 0 /\ j = Len(list)
    BY DEF Flown
  <2>. HIDE DEF list
  <2>3. /\ q.cur # 0 => l[Len(l)].slot = q.cur
        /\ \A j \in 1 .. Len(l) : l[j].lock <=> q.cur # 0 /\ j = Len(l)
    BY <1>2, <1>4, <1>5, <2>1, <2>2
  <2>. QED
    BY <1>3, <1>4, <2>2, <2>3 DEF Flown
<1>. QED
  BY <1>2, <1>5, <1>6, <1>7 DEF Holds, l, q

(* Which of its ways a write request takes *)
MergeAt(m, s, from, to, v, i, l) ==
  LET list == mod[m].list
  IN  /\ i \in WriteHit(list, s) /\ list[i].type = "W"
      /\ l = [list EXCEPT ![i] = Merged(list[i], from, to, v)]
NewWrite(m, s, from, to, v, l) ==
  LET list == mod[m].list
      hit == WriteHit(list, s)
  IN  /\ \A i \in hit : list[i].type # "W"
      /\ FreeSlots # {}
      /\ l = <<WriteNode(Least(FreeSlots), s, from, to, v, IF hit = {} THEN flash[m][s] ELSE Erased,
                         hit = {} /\ Of(list, s) # {})>> \o list

(* A write request takes one of them, or is refused. *)
LEMMA WriteIs ==
  ASSUME NEW m, NEW s, NEW from, NEW to, NEW v
  PROVE  LET r == WOperaAdd(m, s, from, to, v)
         IN  \/ r.ok /\ \E i : MergeAt(m, s, from, to, v, i, r.list)
             \/ r.ok /\ NewWrite(m, s, from, to, v, r.list)
             \/ ~ r.ok /\ r.list = mod[m].list
<1>. DEFINE list == mod[m].list  hit == WriteHit(list, s)  merge == {i \in hit : list[i].type = "W"}
            i == CHOOSE j \in merge : TRUE  r == WOperaAdd(m, s, from, to, v)
<1>1. CASE merge # {}
  <2>1. i \in merge
    BY <1>1
  <2>2. r.ok /\ r.list = [list EXCEPT ![i] = Merged(list[i], from, to, v)]
    BY <1>1 DEF WOperaAdd
  <2>3. MergeAt(m, s, from, to, v, i, r.list)
    BY <2>1, <2>2 DEF MergeAt
  <2>. QED
    BY <2>2, <2>3
<1>2. CASE merge = {}
  <2>1. \A j \in hit : list[j].type # "W"
    BY <1>2
  <2>2. CASE FreeSlots = {} \/ FreeBuffs <= 0
    BY <1>2, <2>2 DEF WOperaAdd
  <2>3. CASE ~ (FreeSlots = {} \/ FreeBuffs <= 0)
    <3>1. r = [list |-> <<WriteNode(Least(FreeSlots), s, from, to, v, IF hit = {} THEN flash[m][s] ELSE Erased,
                                    hit = {} /\ Of(list, s) # {})>> \o list, ok |-> TRUE]
      BY <1>2, <2>3 DEF WOperaAdd
    <3>2. NewWrite(m, s, from, to, v, r.list)
      BY <2>1, <2>3, <3>1 DEF NewWrite
    <3>. QED
      BY <3>1, <3>2
  <2>. QED
    BY <2>2, <2>3
<1>. QED
  BY <1>1, <1>2

(* The list a write request leaves may replace the old one. *)
LEMMA WriteHolds ==
  ASSUME Inv, NEW m \in Modules, NEW s \in Sectors, NEW from \in Cells,
         NEW to \in 1 .. Cardinality(Cells), NEW v \in SUBSET Bits
  PROVE  LET l == WOperaAdd(m, s, from, to, v).list
         IN  Holds(mod[m], l) /\ From(l, m, m)
<1>. DEFINE r == mod[m]  list == r.list  l == WOperaAdd(m, s, from, to, v).list
<1>1. r \in ModuleRec /\ Flown(r) /\ Own(list) /\ FreeSlots \subseteq Slots
      /\ \A j \in 1 .. Len(list) : list[j].slot \notin FreeSlots
  BY Origin
<1>2. list \in Seq(Node) /\ Len(list) \in Nat /\ \A j \in 1 .. Len(list) : list[j] \in Node
  BY <1>1, ModuleTypes
<1>3. [r EXCEPT !.list = list] = r
  BY <1>1 DEF ModuleRec
<1>4. Holds(r, list) /\ From(list, m, m)
  BY <1>1, <1>2, <1>3 DEF Holds, From
<1>5. ASSUME NEW i, MergeAt(m, s, from, to, v, i, l)
      PROVE  Holds(r, l) /\ From(l, m, m)
  <2>. DEFINE n == Merged(list[i], from, to, v)
  <2>1. i \in 1 .. Len(list) /\ l = [list EXCEPT ![i] = n]
    BY <1>2, <1>5, WriteHitIs DEF MergeAt
  <2>2. n \in Node /\ Alike(n, list[i]) /\ n.lock = list[i].lock
    BY <1>2, <2>1, MergedIs
  <2>. HIDE DEF n, r, l
  <2>3. Holds(r, l) /\ Len(l) = Len(list) /\ \A j \in 1 .. Len(list) : l[j].slot = list[j].slot
    BY <1>1, <2>1, <2>2, MergeHolds
  <2>. QED
    BY <2>3 DEF From, r
<1>6. ASSUME NewWrite(m, s, from, to, v, l)
      PROVE  Holds(r, l) /\ From(l, m, m)
  <2>. DEFINE k == Least(FreeSlots)
              base == IF WriteHit(list, s) = {} THEN flash[m][s] ELSE Erased
              stale == WriteHit(list, s) = {} /\ Of(list, s) # {}
              n == WriteNode(k, s, from, to, v, base, stale)
  <2>1. k \in FreeSlots /\ k \in Slots
    BY <1>1, <1>6, LeastIs DEF NewWrite
  <2>2. base \in Sector /\ stale \in BOOLEAN
    <3>1. flash \in [Modules -> [Sectors -> Sector]]
      BY Parts DEF RestOK
    <3>. QED
      BY <3>1, ErasedIs
  <2>3. l = <<n>> \o list
    BY <1>6 DEF NewWrite
  <2>. HIDE DEF k, base, stale
  <2>4. n \in Node /\ n.slot = k /\ ~ n.lock
    BY <2>1, <2>2, WriteNodeIs
  <2>. HIDE DEF n, l, r
  <2>5. \A j \in 1 .. Len(list) : list[j].slot # n.slot
    BY <1>1, <2>1, <2>4
  <2>6. Holds(r, l)
    BY <1>1, <1>4, <2>3, <2>4, <2>5, ConsHolds
  <2>7. Len(l) = Len(list) + 1 /\ \A i \in 1 .. Len(list) + 1 : l[i] = IF i = 1 THEN n ELSE list[i - 1]
    BY <1>2, <2>3, <2>4, ConsPlaces
  <2>8. ASSUME NEW i \in 1 .. Len(l)
        PROVE  l[i].slot \in FreeSlots \/ \E j \in 1 .. Len(list) : l[i].slot = list[j].slot
    <3>1. CASE i = 1
      BY <2>1, <2>4, <2>7, <3>1
    <3>2. CASE i # 1
      <4>1. i - 1 \in 1 .. Len(list) /\ l[i] = list[i - 1]
        BY <1>2, <2>7, <3>2
      <4>. QED
        BY <4>1
    <3>. QED
      BY <3>1, <3>2
  <2>. QED
    BY <2>6, <2>8 DEF From, r
<1>7. \/ \E i : MergeAt(m, s, from, to, v, i, l)
      \/ NewWrite(m, s, from, to, v, l)
      \/ l = list
  BY WriteIs
<1>. HIDE DEF l
<1>. QED
  BY <1>4, <1>5, <1>6, <1>7 DEF l

-----------------------------------------------------------------------------
(* The operation in flight is the whole rest of the list from its node on. *)
LEMMA StartedIs ==
  ASSUME NEW r \in ModuleRec, Flown(r), Own(r.list), Started(r).list # <<>>
  PROVE  LET q == Started(r)
         IN  /\ q \in ModuleRec /\ Own(q.list) /\ q.cur # 0
             /\ r.list # <<>> /\ Len(q.list) = Len(r.list)
             /\ q.list[Len(q.list)].slot = q.cur /\ q.list[Len(q.list)].lock
             /\ CurIndex(q) = Len(q.list)
             /\ CurNode(q) = q.list[Len(q.list)]
             /\ \A i \in 1 .. Len(r.list) :
                  /\ q.list[i].slot = r.list[i].slot /\ Alike(q.list[i], r.list[i])
                  /\ q.list[i].data = r.list[i].data /\ q.list[i].from = r.list[i].from
                  /\ q.list[i].to = r.list[i].to /\ q.list[i].freed = r.list[i].freed
                  /\ i # Len(r.list) => q.list[i] = r.list[i]
             /\ r.cur # 0 => q = r
             /\ \A i \in 1 .. Len(q.list) : q.list[i].lock <=> i = Len(q.list)
<1>. DEFINE q == Started(r)  n == Len(r.list)
<1>1. /\ r.list \in Seq(Node) /\ n \in Nat /\ \A i \in 1 .. n : r.list[i] \in Node
      /\ r.cur \in Slots \cup {0} /\ r.list # <<>> => n \in 1 .. n
  BY ModuleTypes
<1>2. r.list # <<>> /\ n \in 1 .. n
  BY <1>1 DEF Started, Flown
<1>3. 0 \notin Slots
  BY Sizes DEF Slots
<1>4. ASSUME r.cur # 0
      PROVE  /\ q = r
             /\ r.list[n].slot = r.cur
             /\ \A i \in 1 .. n : r.list[i].lock <=> i = n
  BY <1>4 DEF Started, Flown
<1>5. ASSUME r.cur = 0
      PROVE  /\ q \in ModuleRec /\ Len(q.list) = n /\ q.cur = r.list[n].slot
             /\ \A i \in 1 .. n : q.list[i] = IF i = n THEN [r.list[n] EXCEPT !.lock = TRUE]
                                              ELSE r.list[i]
  <2>. DEFINE o == [r.list[n] EXCEPT !.lock = TRUE]
              l == [r.list EXCEPT ![n] = o]
  <2>1. o \in Node
    BY <1>1, <1>2, LockedIs
  <2>2. q = [r EXCEPT !.cur = r.list[n].slot, !.list = l]
    BY <1>2, <1>5 DEF Started, ModuleRec
  <2>. HIDE DEF o, q
  <2>3. l \in Seq(Node) /\ Len(l) = n /\ \A i \in 1 .. n : l[i] = IF i = n THEN o ELSE r.list[i]
    BY <1>1, <1>2, <2>1, ExceptSeq
  <2>. HIDE DEF l
  <2>4. r.list[n].slot \in Slots
    BY <1>1, <1>2, NodeFields
  <2>5. q \in ModuleRec /\ q.list = l /\ q.cur = r.list[n].slot
    BY <2>2, <2>3, <2>4 DEF ModuleRec
  <2>. QED
    BY <2>3, <2>5 DEF o
<1>. HIDE DEF q
<1>6. /\ q \in ModuleRec /\ Len(q.list) = n
      /\ \A i \in 1 .. n :
           /\ q.list[i].slot = r.list[i].slot /\ Alike(q.list[i], r.list[i])
           /\ q.list[i].data = r.list[i].data /\ q.list[i].from = r.list[i].from
           /\ q.list[i].to = r.list[i].to /\ q.list[i].freed = r.list[i].freed
           /\ i # n => q.list[i] = r.list[i]
           /\ q.list[i].lock <=> i = n
      /\ q.cur = r.list[n].slot
  <2>1. CASE r.cur # 0
    BY <1>4, <2>1 DEF Alike
  <2>2. CASE r.cur = 0
    <3>. DEFINE o == [r.list[n] EXCEPT !.lock = TRUE]
    <3>1. /\ Alike(o, r.list[n]) /\ o.data = r.list[n].data /\ o.from = r.list[n].from
          /\ o.to = r.list[n].to /\ o.freed = r.list[n].freed /\ o.lock = TRUE
      BY <1>1, <1>2, LockedIs
    <3>. HIDE DEF o
    <3>2. \A i \in 1 .. n : q.list[i] = IF i = n THEN o ELSE r.list[i]
      BY <1>5, <2>2 DEF o
    <3>3. \A i \in 1 .. n : Alike(r.list[i], r.list[i]) /\ ~ r.list[i].lock
      BY <2>2 DEF Alike, Flown
    <3>4. \A i \in 1 .. n : Alike(q.list[i], r.list[i])
      BY <3>1, <3>2, <3>3
    <3>5. \A i \in 1 .. n : q.list[i].slot = r.list[i].slot
      BY <3>4 DEF Alike
    <3>. QED
      BY <1>5, <2>2, <3>1, <3>2, <3>3, <3>4, <3>5
  <2>. QED
    BY <2>1, <2>2
<1>7. Own(q.list)
  BY <1>6 DEF Own
<1>8. q.list[n].slot = q.cur /\ q.cur # 0
  BY <1>1, <1>2, <1>3, <1>6, NodeFields
<1>9. CurIndex(q) = n
  <2>1. DOMAIN q.list = 1 .. n
    BY <1>6, ModuleTypes
  <2>2. \A i \in 1 .. n : q.list[i].slot = q.cur <=> i = n
    BY <1>2, <1>6, <1>7, <1>8 DEF Own
  <2>. QED
    BY <1>2, <2>1, <2>2 DEF CurIndex
<1>. QED
  BY <1>2, <1>4, <1>6, <1>7, <1>8, <1>9 DEF CurNode, q

(* Cutting the list at its last node *)
LEMMA DeletedIs ==
  ASSUME NEW q \in ModuleRec, CurIndex(q) = Len(q.list), q.list # <<>>
  PROVE  LET d == Deleted(q)
         IN  /\ d \in ModuleRec /\ d.cur = 0 /\ d.state = "IDLE"
             /\ Len(d.list) = Len(q.list) - 1 /\ Len(q.list) \in 1 .. Len(q.list)
             /\ \A i \in 1 .. Len(q.list) - 1 : i \in 1 .. Len(q.list) /\ d.list[i] = q.list[i]
<1>. DEFINE n == Len(q.list)  l == SubSeq(q.list, 1, n - 1)
<1>1. q.list \in Seq(Node) /\ n \in Nat /\ n \in 1 .. n /\ n - 1 \in 0 .. n
  BY ModuleTypes
<1>2. l \in Seq(Node) /\ Len(l) = n - 1 /\ \A i \in 1 .. n - 1 : l[i] = q.list[i]
  BY <1>1, CutPlaces
<1>3. Deleted(q) = [list |-> l, cur |-> 0, state |-> "IDLE"]
  BY DEF Deleted
<1>. HIDE DEF l
<1>4. Deleted(q) \in ModuleRec /\ Deleted(q).list = l /\ Deleted(q).cur = 0 /\ Deleted(q).state = "IDLE"
  BY <1>2, <1>3 DEF ModuleRec
<1>5. \A i \in 1 .. n - 1 : i \in 1 .. n
  BY <1>1
<1>. QED
  BY <1>1, <1>2, <1>4, <1>5

(* A module without the operation it has in flight, or with it about to start *)
LEMMA DoneIs ==
  ASSUME NEW r \in ModuleRec, Flown(r), Own(r.list), Started(r).list # <<>>
  PROVE  LET d == Deleted(Started(r))
         IN  /\ d \in ModuleRec /\ d.cur = 0 /\ d.state = "IDLE" /\ Flown(d) /\ Own(d.list)
             /\ Len(d.list) = Len(r.list) - 1 /\ Len(r.list) \in 1 .. Len(r.list)
             /\ \A i \in 1 .. Len(r.list) - 1 : i \in 1 .. Len(r.list) /\ d.list[i] = r.list[i]
             /\ \A i \in 1 .. Len(d.list) : d.list[i].slot = r.list[i].slot
<1>. DEFINE q == Started(r)  d == Deleted(q)
<1>1. /\ q \in ModuleRec /\ Own(q.list) /\ q.list # <<>> /\ Len(q.list) = Len(r.list)
      /\ CurIndex(q) = Len(q.list)
      /\ \A i \in 1 .. Len(r.list) : i # Len(r.list) => q.list[i] = r.list[i]
      /\ \A i \in 1 .. Len(q.list) : q.list[i].lock <=> i = Len(q.list)
  BY StartedIs
<1>. HIDE DEF q
<1>2. /\ d \in ModuleRec /\ d.cur = 0 /\ d.state = "IDLE"
      /\ Len(d.list) = Len(q.list) - 1 /\ Len(q.list) \in 1 .. Len(q.list)
      /\ \A i \in 1 .. Len(q.list) - 1 : i \in 1 .. Len(q.list) /\ d.list[i] = q.list[i]
  BY <1>1, DeletedIs
<1>. HIDE DEF d
<1>3. \A i \in 1 .. Len(r.list) - 1 : i \in 1 .. Len(r.list) /\ i # Len(r.list) /\ d.list[i] = r.list[i]
  BY <1>1, <1>2
<1>4. Flown(d)
  <2>1. ASSUME NEW i \in 1 .. Len(d.list) PROVE ~ d.list[i].lock
    <3>1. i \in 1 .. Len(r.list) - 1
      BY <1>1, <1>2
    <3>2. i \in 1 .. Len(q.list) /\ i # Len(q.list) /\ d.list[i] = q.list[i]
      BY <1>1, <1>3, <3>1
    <3>. QED
      BY <1>1, <3>2
  <2>. QED
    BY <1>2, <2>1 DEF Flown
<1>5. Own(d.list)
  BY <1>1, <1>2 DEF Own
<1>. QED
  BY <1>1, <1>2, <1>3, <1>4, <1>5 DEF d, q

(* ... and with an operation suspended *)
LEMMA PausedIs ==
  ASSUME NEW r \in ModuleRec, Flown(r), Own(r.list), Started(r).list # <<>>,
         NEW st \in {"WRITTING_SUSPEND", "ERASE_SUSPEND"}
  PROVE  LET p == [Started(r) EXCEPT !.state = st]
         IN  /\ p \in ModuleRec /\ p.list = Started(r).list /\ p.cur = Started(r).cur /\ p.cur # 0
             /\ Flown(p) /\ Own(p.list)
             /\ Len(p.list) = Len(r.list)
             /\ \A i \in 1 .. Len(r.list) : p.list[i].slot = r.list[i].slot
<1>. DEFINE q == Started(r)  p == [q EXCEPT !.state = st]
<1>1. /\ q \in ModuleRec /\ Own(q.list) /\ q.cur # 0 /\ q.list # <<>> /\ Len(q.list) = Len(r.list)
      /\ q.list[Len(q.list)].slot = q.cur
      /\ \A i \in 1 .. Len(r.list) : q.list[i].slot = r.list[i].slot
      /\ \A i \in 1 .. Len(q.list) : q.list[i].lock <=> i = Len(q.list)
  BY StartedIs
<1>. HIDE DEF q
<1>2. p \in ModuleRec /\ p.list = q.list /\ p.cur = q.cur /\ p.state = st
  BY <1>1 DEF ModuleRec
<1>. HIDE DEF p
<1>3. Flown(p)
  BY <1>1, <1>2 DEF Flown
<1>. QED
  BY <1>1, <1>2, <1>3 DEF p, q

-----------------------------------------------------------------------------
(* A list with the slots of the old one brings none from elsewhere. *)
LEMMA SameOrigin ==
  ASSUME NEW k, NEW m, NEW l, Len(l) <= Len(mod[k].list), Len(l) \in Nat, Len(mod[k].list) \in Nat,
         \A i \in 1 .. Len(l) : l[i].slot = mod[k].list[i].slot
  PROVE  From(l, k, m)
<1>1. \A i \in 1 .. Len(l) : i \in 1 .. Len(mod[k].list)
  OBVIOUS
<1>. QED
  BY <1>1 DEF From

(* Nor does the old list itself. *)
LEMMA SameFrom ==
  ASSUME Inv, NEW k \in Modules, NEW m
  PROVE  From(mod[k].list, k, m)
BY DEF From

(* A step that replaces the list of one module *)
LEMMA OneList ==
  ASSUME Inv, NEW m \in Modules, NEW l, Holds(mod[m], l), From(l, m, m),
         mod' = [mod EXCEPT ![m].list = l], curMod' = curMod, RestOK'
  PROVE  Inv'
<1>. DEFINE q == [mod[m] EXCEPT !.list = l]
<1>1. mod \in [Modules -> ModuleRec]
      /\ \A k \in Modules : mod[k] \in ModuleRec /\ Flown(mod[k]) /\ (mod[k].cur # 0 => curMod = k)
  BY Parts
<1>2. l \in Seq(Node) /\ Own(l) /\ Flown(q)
  BY DEF Holds
<1>3. q \in ModuleRec /\ q.list = l /\ q.cur = mod[m].cur
  BY <1>1, <1>2, HoldsIs
<1>4. mod' = [mod EXCEPT ![m] = q]
  OBVIOUS
<1>. HIDE DEF q
<1>5. mod' \in [Modules -> ModuleRec] /\ mod'[m] = q /\ \A k \in Modules \ {m} : mod'[k] = mod[k]
  BY <1>1, <1>3, <1>4
<1>6. \A k \in Modules : Own(mod[k].list) /\ From(mod[k].list, k, m)
  BY Origin, SameFrom
<1>7. ASSUME NEW k \in Modules
      PROVE  /\ Flown(mod'[k]) /\ Own(mod'[k].list) /\ From(mod'[k].list, k, m)
             /\ mod'[k].cur # 0 => curMod' = k
  BY <1>1, <1>2, <1>3, <1>5, <1>6
<1>. QED
  BY <1>5, <1>7, ListsChange

(* The content wanted after a request is one the module can have. *)
LEMMA ExpectedTypes ==
  ASSUME Inv, NEW m \in Modules, NEW s \in Sectors
  PROVE  /\ \A len : WithErase(m, s, len) \in Contents
         /\ \A from, to : \A v \in SUBSET Bits : WithWrite(m, s, from, to, v) \in Contents
<1>1. expected[m] \in Contents /\ expected[m][s] \in Sector
  BY Parts DEF RestOK, Contents
<1>2. ASSUME NEW len PROVE WithErase(m, s, len) \in Contents
  <2>. DEFINE n == [type |-> "E", addr |-> s, len |-> len]
  <2>1. n.type = "E"
    OBVIOUS
  <2>. HIDE DEF n
  <2>2. Effect(n, expected[m]) \in Contents
    BY <1>1, <2>1, EffectType
  <2>. QED
    BY <2>2 DEF WithErase, n
<1>3. ASSUME NEW from, NEW to, NEW v \in SUBSET Bits
      PROVE  WithWrite(m, s, from, to, v) \in Contents
  <2>1. Overlay(expected[m][s], from, to, v) \in Sector
    BY <1>1, OverlayIs
  <2>. QED
    BY <1>1, <2>1 DEF WithWrite, Contents
<1>. QED
  BY <1>2, <1>3

(* The count of requests stays within its bound. *)
LEMMA RequestOps == ASSUME Inv, Request PROVE ops' \in 0 .. MaxOps
BY Parts, Sizes DEF RestOK, Request

(* norflash_api_erase, async *)
LEMMA EraseAsyncInv ==
  ASSUME Inv, NEW m \in Modules, NEW s \in Sectors, NEW len \in EraseLens, EraseAsync(m, s, len)
  PROVE  Inv'
<1>. DEFINE r == EOperaAdd(mod[m].list, s, len)
<1>1. /\ Request /\ mod' = [mod EXCEPT ![m].list = r.list]
      /\ expected' = IF r.ok THEN [expected EXCEPT ![m] = WithErase(m, s, len)] ELSE expected
      /\ UNCHANGED <<curMod, curModId, allowedCb, flash, bypassed>>
  BY DEF EraseAsync
<1>2. Holds(mod[m], r.list) /\ From(r.list, m, m)
  BY EraseHolds
<1>. HIDE DEF r
<1>3. WithErase(m, s, len) \in Contents
  BY ExpectedTypes
<1>4. RestOK
  BY Parts
<1>5. expected' \in [Modules -> [Sectors -> Sector]]
  BY <1>1, <1>3, <1>4 DEF RestOK, Contents
<1>6. RestOK'
  BY <1>1, <1>4, <1>5, RequestOps DEF RestOK
<1>. QED
  BY <1>1, <1>2, <1>6, OneList

(* norflash_api_write, async *)
LEMMA WriteAsyncInv ==
  ASSUME Inv, NEW m \in Modules, NEW s \in Sectors, NEW from \in Cells,
         NEW to \in 1 .. Cardinality(Cells), NEW v \in SUBSET Bits, WriteAsync(m, s, from, to, v)
  PROVE  Inv'
<1>. DEFINE r == WOperaAdd(m, s, from, to, v)
<1>1. /\ Request /\ mod' = [mod EXCEPT ![m].list = r.list]
      /\ expected' = IF r.ok THEN [expected EXCEPT ![m] = WithWrite(m, s, from, to, v)] ELSE expected
      /\ UNCHANGED <<curMod, curModId, allowedCb, flash, bypassed>>
  BY DEF WriteAsync
<1>2. Holds(mod[m], r.list) /\ From(r.list, m, m)
  BY WriteHolds
<1>. HIDE DEF r
<1>3. WithWrite(m, s, from, to, v) \in Contents
  BY ExpectedTypes
<1>4. RestOK
  BY Parts
<1>5. expected' \in [Modules -> [Sectors -> Sector]]
  BY <1>1, <1>3, <1>4 DEF RestOK, Contents
<1>6. RestOK'
  BY <1>1, <1>4, <1>5, RequestOps DEF RestOK
<1>. QED
  BY <1>1, <1>2, <1>6, OneList

(* A step that replaces the record of one module *)
LEMMA OneModule ==
  ASSUME Inv, NEW m \in Modules, NEW r \in ModuleRec, Flown(r), Own(r.list),
         Len(r.list) <= Len(mod[m].list), \A i \in 1 .. Len(r.list) : r.list[i].slot = mod[m].list[i].slot,
         mod' = [mod EXCEPT ![m] = r], r.cur # 0 => curMod' = m,
         \A k \in Modules \ {m} : mod[k].cur # 0 => curMod' = k, RestOK'
  PROVE  Inv'
<1>1. mod \in [Modules -> ModuleRec]
      /\ \A k \in Modules : mod[k] \in ModuleRec /\ Flown(mod[k]) /\ (mod[k].cur # 0 => curMod = k)
  BY Parts
<1>2. Len(r.list) \in Nat /\ Len(mod[m].list) \in Nat
  BY <1>1, ModuleTypes
<1>3. From(r.list, m, m)
  BY <1>2, SameOrigin
<1>4. mod' \in [Modules -> ModuleRec] /\ mod'[m] = r /\ \A k \in Modules \ {m} : mod'[k] = mod[k]
  BY <1>1
<1>5. \A k \in Modules : Own(mod[k].list) /\ From(mod[k].list, k, m)
  BY Origin, SameFrom
<1>6. ASSUME NEW k \in Modules
      PROVE  /\ Flown(mod'[k]) /\ Own(mod'[k].list) /\ From(mod'[k].list, k, m)
             /\ mod'[k].cur # 0 => curMod' = k
  BY <1>1, <1>3, <1>4, <1>5
<1>. QED
  BY <1>4, <1>6, ListsChange

(* A flush step serves the module in flight, if there is one. *)
LEMMA OthersIdle ==
  ASSUME Inv, NEW m \in Modules, IsNextMod(m)
  PROVE  \A k \in Modules \ {m} : mod[k].cur = 0
<1>. SUFFICES ASSUME NEW k \in Modules \ {m}, mod[k].cur # 0 PROVE FALSE
  OBVIOUS
<1>1. curMod = k
  BY Parts
<1>2. curMod # NoMod
  BY <1>1, Sizes
<1>. QED
  BY <1>1, <1>2 DEF IsNextMod

(* The operation of a node of a list leaves the content of a module ... *)
LEMMA NodeEffect ==
  ASSUME NEW n \in Node, NEW x \in Contents
  PROVE  Effect(n, x) \in Contents
BY NodeFields, EffectType

(* ... also when it is suspended. *)
LEMMA PartialType ==
  ASSUME NEW n \in Node, NEW x \in Contents, NEW p \in Partial(n, x)
  PROVE  p \in Contents
<1>1. CASE n.type = "E"
  BY <1>1 DEF Partial, Contents
<1>2. CASE n.type # "E"
  <2>1. PICK k \in n.from .. n.to - 1 : p = Effect([n EXCEPT !.to = k], x)
    BY <1>2 DEF Partial
  <2>. DEFINE o == [n EXCEPT !.to = k]
  <2>2. o.type = n.type /\ o.data = n.data
    BY DEF Node
  <2>. HIDE DEF o
  <2>3. Effect(o, x) \in Contents
    BY <2>2, NodeFields, EffectType
  <2>. QED
    BY <2>1, <2>3 DEF o
<1>. QED
  BY <1>1, <1>2

(* The flash keeps its type when the content of one module changes. *)
LEMMA FlashTypes ==
  ASSUME Inv, NEW m \in Modules, NEW x \in Contents, flash' = [flash EXCEPT ![m] = x]
  PROVE  flash' \in [Modules -> [Sectors -> Sector]]
BY Parts DEF RestOK, Contents

(* A step that leaves all lists alone *)
LEMMA SameLists ==
  ASSUME Inv, mod' = mod, \A k \in Modules : mod[k].cur # 0 => curMod' = k, RestOK'
  PROVE  Inv'
<1>1. mod \in [Modules -> ModuleRec] /\ Apart /\ \A k \in Modules : Flown(mod[k])
  BY Parts
<1>2. Apart'
  BY <1>1 DEF Apart
<1>3. mod' \in [Modules -> ModuleRec]
      /\ \A k \in Modules : Flown(mod'[k]) /\ (mod'[k].cur # 0 => curMod' = k)
  BY <1>1
<1>. QED
  BY <1>2, <1>3, Whole

(* A flush step: the operation in flight runs to its end or is suspended, and *)
(* no other one is started before.                                            *)
LEMMA FlushInv == ASSUME Inv, Flush PROVE Inv'
<1>1. RestOK /\ \A k \in Modules : mod[k] \in ModuleRec /\ Flown(mod[k]) /\ (mod[k].cur # 0 => curMod = k)
  BY Parts
<1>2. ASSUME NEW m \in Modules, Serve(m), FlushDone(m) \/ FlushSuspended(m) \/ FlushEmpty(m)
      PROVE  Inv'
  <2>. DEFINE r == mod[m]  q == Started(r)  n == CurNode(q)
  <2>1. /\ IsNextMod(m) /\ curModId' = m /\ allowedCb' \in BOOLEAN /\ UNCHANGED <<ops, expected, bypassed>>
    BY <1>2 DEF Serve, Allowed
  <2>2. \A k \in Modules \ {m} : mod[k].cur = 0
    BY <2>1, OthersIdle
  <2>3. r \in ModuleRec /\ Flown(r) /\ Own(r.list) /\ Len(r.list) \in Nat /\ flash[m] \in Contents
    BY <1>1, Origin, ModuleTypes DEF RestOK, Contents
  <2>4. ASSUME q.list # <<>> PROVE n \in Node
    <3>1. q \in ModuleRec /\ n = q.list[Len(q.list)]
      BY <2>3, <2>4, StartedIs
    <3>. QED
      BY <2>4, <3>1, ModuleTypes
  <2>5. CASE FlushDone(m)
    <3>. DEFINE d == Deleted(q)
    <3>1. q.list # <<>> /\ flash' = [flash EXCEPT ![m] = Effect(n, flash[m])]
          /\ mod' = [mod EXCEPT ![m] = d] /\ curMod' = m
      BY <2>5 DEF FlushDone
    <3>2. flash' \in [Modules -> [Sectors -> Sector]]
      BY <2>3, <2>4, <3>1, NodeEffect, FlashTypes
    <3>3. /\ d \in ModuleRec /\ d.cur = 0 /\ Flown(d) /\ Own(d.list)
          /\ Len(d.list) = Len(r.list) - 1
          /\ \A i \in 1 .. Len(d.list) : d.list[i].slot = r.list[i].slot
      BY <2>3, <3>1, DoneIs
    <3>4. RestOK'
      BY <1>1, <2>1, <3>1, <3>2 DEF RestOK
    <3>. HIDE DEF d, q, n
    <3>5. Len(d.list) <= Len(r.list)
      BY <2>3, <3>3
    <3>. QED
      BY <2>2, <3>1, <3>3, <3>4, <3>5, OneModule
  <2>6. CASE FlushSuspended(m)
    <3>. DEFINE st == IF n.type = "W" THEN "WRITTING_SUSPEND" ELSE "ERASE_SUSPEND"
                p == [q EXCEPT !.state = st]
    <3>1. q.list # <<>> /\ (\E x \in Partial(n, flash[m]) : flash' = [flash EXCEPT ![m] = x])
          /\ mod' = [mod EXCEPT ![m] = p] /\ curMod' = m
      BY <2>6 DEF FlushSuspended
    <3>2. flash' \in [Modules -> [Sectors -> Sector]]
      BY <2>3, <2>4, <3>1, PartialType, FlashTypes
    <3>0. st \in {"WRITTING_SUSPEND", "ERASE_SUSPEND"}
      OBVIOUS
    <3>. HIDE DEF st
    <3>3. /\ p \in ModuleRec /\ Flown(p) /\ Own(p.list) /\ Len(p.list) = Len(r.list)
          /\ \A i \in 1 .. Len(r.list) : p.list[i].slot = r.list[i].slot
      BY <2>3, <3>0, <3>1, PausedIs
    <3>4. RestOK'
      BY <1>1, <2>1, <3>1, <3>2 DEF RestOK
    <3>. HIDE DEF p, q, n
    <3>5. Len(p.list) <= Len(r.list) /\ \A i \in 1 .. Len(p.list) : p.list[i].slot = r.list[i].slot
      BY <2>3, <3>3
    <3>. QED
      BY <2>2, <3>1, <3>3, <3>4, <3>5, OneModule
  <2>7. CASE FlushEmpty(m)
    <3>1. r.list = <<>> /\ curMod' = NoMod /\ UNCHANGED <<mod, flash>>
      BY <2>7 DEF FlushEmpty
    <3>2. r.cur = 0
      BY <2>3, <3>1 DEF Flown
    <3>3. RestOK'
      BY <1>1, <2>1, <3>1 DEF RestOK
    <3>4. \A k \in Modules : mod[k].cur # 0 => curMod' = k
      BY <2>2, <3>2
    <3>. QED
      BY <3>1, <3>3, <3>4, SameLists
  <2>. QED
    BY <1>2, <2>5, <2>6, <2>7
<1>3. ASSUME Allowed, UNCHANGED <<mod, flash, curMod, curModId, ops, expected, bypassed>>
      PROVE  Inv'
  <2>1. RestOK'
    BY <1>1, <1>3 DEF RestOK, Allowed
  <2>. QED
    BY <1>1, <1>3, <2>1, SameLists
<1>. QED
  BY <1>2, <1>3 DEF Flush

-----------------------------------------------------------------------------
(* Run by its recursion *)
LEMMA RunUnfolds ==
  ASSUME NEW list \in Seq(Node), NEW x \in Contents
  PROVE  /\ Run(list, x)[0] = x
         /\ \A k \in 1 .. Len(list) : Run(list, x)[k] = Effect(list[Len(list) + 1 - k], Run(list, x)[k - 1])
         /\ \A k \in 0 .. Len(list) : Run(list, x)[k] \in Contents
<1>. DEFINE n == Len(list)
            Q == Contents
            G == [p \in (1 .. n) \X Q |-> Effect(list[n + 1 - p[1]], p[2])]
            Is(f) == f = [k \in 0 .. n |-> IF k = 0 THEN x ELSE Effect(list[n + 1 - k], f[k - 1])]
            s == CHOOSE f : Is(f)
<1>1. n \in Nat /\ \A k \in 1 .. n : list[n + 1 - k] \in Node
  <2>1. n \in Nat /\ \A k \in 1 .. n : list[k] \in Node
    BY ElementOfSeq, LenProperties
  <2>2. \A k \in 1 .. n : n + 1 - k \in 1 .. n
    BY <2>1
  <2>. QED
    BY <2>1, <2>2
<1>2. \A k \in 1 .. n, y \in Q : Effect(list[n + 1 - k], y) \in Q
  BY <1>1, NodeEffect
<1>3. G \in [(1 .. n) \X Q -> Q]
  BY <1>2
<1>4. \A k \in 1 .. n, y \in Q : G[<<k, y>>] = Effect(list[n + 1 - k], y)
  OBVIOUS
<1>. HIDE DEF G, Q
<1>0. x \in Q
  BY DEF Q
<1>5. PICK f \in [0 .. n -> Q] : Unfolds(f, n, x, G)
  BY <1>0, <1>1, <1>3, RecursionThere
<1>6. Is(f)
  <2>1. \A k \in 1 .. n : f[k - 1] \in Q
    BY <1>1
  <2>2. \A k \in 1 .. n : f[k] = Effect(list[n + 1 - k], f[k - 1])
    BY <1>4, <1>5, <2>1 DEF Unfolds
  <2>3. f[0] = x
    BY <1>5 DEF Unfolds
  <2>4. \A k \in 0 .. n : k = 0 \/ (k \in 1 .. n /\ k # 0)
    BY <1>1
  <2>5. \A k \in 0 .. n : f[k] = IF k = 0 THEN x ELSE Effect(list[n + 1 - k], f[k - 1])
    BY <2>2, <2>3, <2>4
  <2>. QED
    BY <2>5
<1>7. Is(s)
  BY <1>6
<1>8. Run(list, x) = s
  BY DEF Run
<1>9. \A k \in 0 .. n : s[k] = IF k = 0 THEN x ELSE Effect(list[n + 1 - k], s[k - 1])
  BY <1>7
<1>. HIDE DEF s
<1>10. s[0] = x
  BY <1>1, <1>9
<1>11. \A k \in 1 .. n : s[k] = Effect(list[n + 1 - k], s[k - 1])
  <2>1. \A k \in 1 .. n : k \in 0 .. n /\ k # 0
    BY <1>1
  <2>. QED
    BY <1>9, <2>1
<1>12. \A k \in 0 .. n : s[k] \in Q
  <2>1. \A k \in 1 .. n : s[k - 1] \in Q => s[k] = G[<<k, s[k - 1]>>]
    BY <1>4, <1>11
  <2>2. n \in Nat
    BY <1>1
  <2>3. Continues(s, n, x, Q, G)
    BY <1>10, <2>1 DEF Continues
  <2>. HIDE DEF n
  <2>. QED
    BY <1>0, <1>3, <2>2, <2>3, RecursionStays
<1>. QED
  BY <1>8, <1>10, <1>11, <1>12 DEF Q

(* So does a whole list. *)
LEMMA EffectAllType ==
  ASSUME NEW list \in Seq(Node), NEW x \in Contents
  PROVE  EffectAll(list, x) \in Contents
<1>1. Len(list) \in 0 .. Len(list)
  BY LenProperties
<1>. QED
  BY <1>1, RunUnfolds DEF EffectAll

-----------------------------------------------------------------------------
Released == [list |-> <<>>, cur |-> 0, state |-> "IDLE"]

(* A module with nothing to do *)
LEMMA ReleasedIs ==
  Released \in ModuleRec /\ Released.cur = 0 /\ Flown(Released) /\ Own(Released.list)
  /\ \A k, m : From(Released.list, k, m)
<1>1. Len(Released.list) = 0 /\ Released.list \in Seq(Node)
  BY EmptySeq DEF Released
<1>2. Released \in ModuleRec /\ Released.cur = 0 /\ Released.state = "IDLE"
  BY EmptySeq DEF Released, ModuleRec
<1>. HIDE DEF Released
<1>3. Flown(Released) /\ Own(Released.list)
  BY <1>1, <1>2 DEF Flown, Own
<1>4. \A k, m : From(Released.list, k, m)
  BY <1>1 DEF From
<1>. QED
  BY <1>2, <1>3, <1>4 DEF Released

(* What becomes of another module's operation before a synchronous request *)
LEMMA OthersAre ==
  ASSUME Inv, NEW m \in Modules
  PROVE  LET o == OthersDone(m)
         IN  /\ o.flash \in [Modules -> Contents]
             /\ o.mods \in [Modules -> ModuleRec]
             /\ \/ o.mods = mod /\ o.flash = flash
                \/ /\ curMod \in Modules \ {m} /\ mod[curMod].cur # 0
                   /\ o.mods = [mod EXCEPT ![curMod] = Deleted(Started(mod[curMod]))]
                   /\ o.flash = [flash EXCEPT ![curMod] =
                                   Effect(CurNode(Started(mod[curMod])), flash[curMod])]
<1>1. /\ mod \in [Modules -> ModuleRec] /\ RestOK
      /\ \A k \in Modules : mod[k] \in ModuleRec /\ Flown(mod[k])
  BY Parts
<1>2. flash \in [Modules -> Contents]
  BY <1>1 DEF RestOK, Contents
<1>3. ASSUME curMod \in Modules \ {m}, mod[curMod].state # "IDLE"
      PROVE  LET o == OthersDone(m)
             IN  /\ o.flash \in [Modules -> Contents] /\ o.mods \in [Modules -> ModuleRec]
                 /\ mod[curMod].cur # 0
                 /\ o.mods = [mod EXCEPT ![curMod] = Deleted(Started(mod[curMod]))]
                 /\ o.flash = [flash EXCEPT ![curMod] =
                                 Effect(CurNode(Started(mod[curMod])), flash[curMod])]
  <2>. DEFINE k == curMod  r == mod[k]  q == Started(r)  d == Deleted(q)
              y == Effect(CurNode(q), flash[k])
  <2>1. k \in Modules /\ r \in ModuleRec /\ Flown(r) /\ Own(r.list) /\ r.cur # 0 /\ flash[k] \in Contents
    BY <1>1, <1>2, <1>3, Origin DEF Flown
  <2>2. q = r /\ r.list # <<>>
    BY <2>1 DEF Started, Flown
  <2>3. d \in ModuleRec
    BY <2>1, <2>2, DoneIs
  <2>4. CurNode(q) \in Node
    <3>1. CurNode(q) = q.list[Len(q.list)]
      BY <2>1, <2>2, StartedIs
    <3>. QED
      BY <2>1, <2>2, <3>1, ModuleTypes
  <2>5. y \in Contents
    BY <2>1, <2>4, NodeEffect
  <2>6. OthersDone(m) = [mods |-> [mod EXCEPT ![k] = d], flash |-> [flash EXCEPT ![k] = y], ran |-> TRUE]
    BY <1>3, <2>2 DEF OthersDone
  <2>. HIDE DEF d, y
  <2>7. [mod EXCEPT ![k] = d] \in [Modules -> ModuleRec] /\ [flash EXCEPT ![k] = y] \in [Modules -> Contents]
    BY <1>1, <1>2, <2>3, <2>5
  <2>. QED
    BY <2>1, <2>6, <2>7 DEF d, y
<1>4. ASSUME ~ (curMod \in Modules \ {m} /\ mod[curMod].state # "IDLE")
      PROVE  OthersDone(m) = [mods |-> mod, flash |-> flash, ran |-> FALSE]
  BY <1>4 DEF OthersDone
<1>. QED
  BY <1>1, <1>2, <1>3, <1>4

(* A synchronous request: the operation of another module is ended at its *)
(* node, the own list is emptied, and none is started.                    *)
LEMMA SyncInv ==
  ASSUME Inv, NEW m \in Modules, NEW n, n.type \in {"W", "E"}, n.type = "W" => n.data \in Sector,
         NEW e \in Contents, SyncRequest(m, n, e)
  PROVE  Inv'
<1>. DEFINE o == OthersDone(m)
<1>1. /\ mod \in [Modules -> ModuleRec] /\ RestOK
      /\ \A k \in Modules : /\ mod[k] \in ModuleRec /\ mod[k].list \in Seq(Node) /\ Flown(mod[k])
                            /\ mod[k].cur # 0 => curMod = k
  BY Parts, ModuleTypes
<1>2. Request /\ UNCHANGED <<curMod, curModId>> /\ ops' \in 0 .. MaxOps
  BY RequestOps DEF SyncRequest
<1>3. ASSUME expected' = [expected EXCEPT ![m] = e] PROVE expected' \in [Modules -> [Sectors -> Sector]]
  BY <1>1, <1>3 DEF RestOK, Contents
<1>4. ASSUME Allowed, mod' = [o.mods EXCEPT ![m] = Released],
             flash' = [o.flash EXCEPT ![m] = Effect(n, EffectAll(mod[m].list, o.flash[m]))],
             expected' = [expected EXCEPT ![m] = e], UNCHANGED bypassed
      PROVE  Inv'
  <2>1. o.flash \in [Modules -> Contents] /\ o.mods \in [Modules -> ModuleRec]
    BY OthersAre
  <2>2. EffectAll(mod[m].list, o.flash[m]) \in Contents
    BY <1>1, <2>1, EffectAllType
  <2>3. Effect(n, EffectAll(mod[m].list, o.flash[m])) \in Contents
    BY <2>2, EffectType
  <2>4. flash' \in [Modules -> [Sectors -> Sector]]
    BY <1>4, <2>1, <2>3 DEF Contents
  <2>5. RestOK'
    BY <1>1, <1>2, <1>3, <1>4, <2>4 DEF RestOK, Allowed
  <2>6. mod' \in [Modules -> ModuleRec] /\ mod'[m] = Released /\ \A k \in Modules \ {m} : mod'[k] = o.mods[k]
    BY <1>4, <2>1, ReleasedIs
  <2>7. ASSUME NEW k \in Modules \ {m}
        PROVE  /\ Flown(o.mods[k]) /\ Own(o.mods[k].list) /\ From(o.mods[k].list, k, m)
               /\ o.mods[k].cur # 0 => curMod = k
    <3>1. o.mods[k] = mod[k] \/ (o.mods[k] = Deleted(Started(mod[k])) /\ mod[k].cur # 0)
      BY <1>1, OthersAre
    <3>2. CASE o.mods[k] = mod[k]
      BY <1>1, <3>2, Origin, SameFrom
    <3>3. CASE o.mods[k] = Deleted(Started(mod[k])) /\ mod[k].cur # 0
      <4>. DEFINE r == mod[k]  d == Deleted(Started(r))
      <4>1. r \in ModuleRec /\ Flown(r) /\ Own(r.list)
        BY Origin
      <4>2. Started(r).list # <<>>
        BY <3>3, <4>1 DEF Started, Flown
      <4>3. /\ d.cur = 0 /\ Flown(d) /\ Own(d.list) /\ Len(d.list) = Len(r.list) - 1
            /\ Len(r.list) \in 1 .. Len(r.list)
            /\ \A i \in 1 .. Len(d.list) : d.list[i].slot = r.list[i].slot
        BY <4>1, <4>2, DoneIs
      <4>4. Len(r.list) \in Nat
        BY <4>1, ModuleTypes
      <4>. HIDE DEF d
      <4>5. Len(d.list) <= Len(r.list) /\ Len(d.list) \in Nat
        BY <4>3, <4>4
      <4>6. From(d.list, k, m)
        BY <4>3, <4>4, <4>5, SameOrigin
      <4>. QED
        BY <3>3, <4>3, <4>6 DEF d
    <3>. QED
      BY <3>1, <3>2, <3>3
  <2>. HIDE DEF o
  <2>8. ASSUME NEW k \in Modules
        PROVE  /\ Flown(mod'[k]) /\ Own(mod'[k].list) /\ From(mod'[k].list, k, m)
               /\ mod'[k].cur # 0 => curMod' = k
    BY <1>2, <2>6, <2>7, ReleasedIs
  <2>. QED
    BY <2>5, <2>6, <2>8, ListsChange
<1>5. ASSUME NotAllowed, flash' = [flash EXCEPT ![m] = Effect(n, flash[m])],
             expected' = [expected EXCEPT ![m] = e],
             bypassed' = (IF mod[m].list = <<>> THEN bypassed ELSE bypassed \cup {m}), UNCHANGED mod
      PROVE  Inv'
  <2>1. flash[m] \in Contents
    BY <1>1 DEF RestOK, Contents
  <2>2. Effect(n, flash[m]) \in Contents
    BY <2>1, EffectType
  <2>3. flash' \in [Modules -> [Sectors -> Sector]]
    BY <1>5, <2>2, FlashTypes
  <2>4. bypassed' \subseteq Modules /\ allowedCb' \in BOOLEAN
    BY <1>1, <1>5 DEF RestOK, NotAllowed
  <2>5. RestOK'
    BY <1>1, <1>2, <1>3, <1>5, <2>3, <2>4 DEF RestOK
  <2>. QED
    BY <1>1, <1>2, <1>5, <2>5, SameLists
<1>6. ASSUME NotAllowed, UNCHANGED <<mod, flash, expected, bypassed>>
      PROVE  Inv'
  <2>1. RestOK'
    BY <1>1, <1>2, <1>6 DEF RestOK, NotAllowed
  <2>. QED
    BY <1>1, <1>2, <1>6, <2>1, SameLists
<1>. QED
  BY <1>4, <1>5, <1>6 DEF SyncRequest, Released

(* norflash_api_erase, not async *)
LEMMA EraseSyncInv ==
  ASSUME Inv, NEW m \in Modules, NEW s \in Sectors, NEW len \in EraseLens, EraseSync(m, s, len)
  PROVE  Inv'
<1>. DEFINE n == [type |-> "E", addr |-> s, len |-> len]
<1>1. n.type = "E"
  OBVIOUS
<1>2. SyncRequest(m, n, WithErase(m, s, len))
  BY DEF EraseSync
<1>. HIDE DEF n
<1>. QED
  BY <1>1, <1>2, ExpectedTypes, SyncInv

(* norflash_api_write, not async *)
LEMMA WriteSyncInv ==
  ASSUME Inv, NEW m \in Modules, NEW s \in Sectors, NEW from \in Cells,
         NEW to \in 1 .. Cardinality(Cells), NEW v \in SUBSET Bits, WriteSync(m, s, from, to, v)
  PROVE  Inv'
<1>. DEFINE n == [type |-> "W", addr |-> s, from |-> from, to |-> to, data |-> [c \in Cells |-> v]]
<1>1. n.type = "W" /\ n.data \in Sector
  BY DEF Sector
<1>2. SyncRequest(m, n, WithWrite(m, s, from, to, v))
  BY DEF WriteSync
<1>. HIDE DEF n
<1>. QED
  BY <1>1, <1>2, ExpectedTypes, SyncInv

(* norflash_api_flush_disable and norflash_api_flush_enable *)
LEMMA EnableInv == ASSUME Inv, FlushDisable \/ FlushEnable PROVE Inv'
<1>1. RestOK' /\ mod' = mod /\ curMod' = curMod
  BY Parts DEF RestOK, FlushDisable, FlushEnable
<1>2. \A k \in Modules : mod[k].cur # 0 => curMod' = k
  BY <1>1, Parts
<1>. QED
  BY <1>1, <1>2, SameLists

(* All lists are empty at first. *)
LEMMA InitInv == Init => Inv
<1>. SUFFICES ASSUME Init PROVE Inv
  OBVIOUS
<1>1. mod = [m \in Modules |-> Released]
  BY DEF Init, Released
<1>2. flash \in [Modules -> [Sectors -> Sector]]
  BY DEF Init, Sector, Erased
<1>3. curModId \in Modules
  <2>1. Cardinality(Modules) \in Nat /\ Modules # {} /\ Modules = 0 .. Cardinality(Modules) - 1
    BY ConstAssumption, FS_CardinalityType
  <2>2. ASSUME NEW c \in Nat, 0 .. c - 1 # {} PROVE c - 1 \in 0 .. c - 1
    BY <2>2
  <2>. QED
    BY <2>1, <2>2 DEF Init
<1>4. RestOK
  <2>1. /\ curMod = NoMod /\ allowedCb = FALSE /\ ops = 0 /\ expected = flash /\ bypassed = {}
    BY DEF Init
  <2>2. 0 \in 0 .. MaxOps
    BY Sizes
  <2>. QED
    BY <1>2, <1>3, <2>1, <2>2 DEF RestOK
<1>5. mod \in [Modules -> ModuleRec] /\ \A m \in Modules : mod[m] = Released
  BY <1>1, ReleasedIs
<1>6. Released.list = <<>> /\ Released.cur = 0 /\ Released.state = "IDLE" /\ Len(Released.list) = 0
      /\ DOMAIN Released.list = {}
  BY DEF Released
<1>7. TypeOK
  BY <1>4, <1>5, <1>6 DEF TypeOK, RestOK, ModuleRec
<1>8. OneInFlight
  BY <1>5, <1>6 DEF OneInFlight
<1>. QED
  BY <1>7, <1>8 DEF Inv

(* What a request asks for, one action at a time *)
Requests ==
  \E m \in Modules, s \in Sectors :
    \/ \E len \in EraseLens : EraseAsync(m, s, len) \/ EraseSync(m, s, len)
    \/ \E from \in Cells, to \in 1 .. Cardinality(Cells), v \in SUBSET Bits :
         WriteAsync(m, s, from, to, v) \/ WriteSync(m, s, from, to, v)

(* The actions by kind *)
LEMMA NextIs == Next => Flush \/ FlushDisable \/ FlushEnable \/ Requests
BY DEF Next, Requests

(* The invariant is inductive. *)
LEMMA StepInv == Inv /\ [Next]_vars => Inv'
<1>. SUFFICES ASSUME Inv, [Next]_vars PROVE Inv'
  OBVIOUS
<1>1. CASE Flush
  BY <1>1, FlushInv
<1>2. CASE FlushDisable \/ FlushEnable
  BY <1>2, EnableInv
<1>3. CASE Requests
  BY <1>3, EraseAsyncInv, EraseSyncInv, WriteAsyncInv, WriteSyncInv DEF Requests
<1>4. CASE UNCHANGED vars
  <2>1. RestOK' /\ mod' = mod /\ curMod' = curMod
    BY <1>4, Parts DEF RestOK, vars
  <2>. QED
    BY <2>1, Parts, SameLists
<1>. QED
  BY <1>1, <1>2, <1>3, <1>4, NextIs

(* It holds always. *)
THEOREM Inductive == Spec => []Inv
<1>1. Init => Inv
  BY InitInv
<1>2. Inv /\ [Next]_vars => Inv'
  BY StepInv
<1>. QED
  BY <1>1, <1>2, PTL DEF Spec

(* The values keep their types; the nodes of all lists stay in different    *)
(* slots of opera_info_list.                                                *)
THEOREM TypeCorrect == Spec => []TypeOK
<1>1. Inv => TypeOK
  BY DEF Inv
<1>. QED
  BY <1>1, Inductive, PTL

(* One operation at most is in flight, the locked tail of its module's list *)
THEOREM OneAtATime == Spec => []OneInFlight
<1>1. Inv => OneInFlight
  BY DEF Inv
<1>. QED
  BY <1>1, Inductive, PTL

-----------------------------------------------------------------------------
(* What a step may do to a module record r with an operation in flight, q   *)
(* being the record after it                                                *)
LeftInFlight(r, q) ==
  r.cur # 0 => \/ q.cur = 0
               \/ q.cur = r.cur /\ q.list # <<>> /\ q.list[Len(q.list)] = r.list[Len(r.list)]

(* The operation in flight is the last node. *)
LEMMA CurIs ==
  ASSUME NEW r \in ModuleRec, Flown(r), Own(r.list), r.cur # 0
  PROVE  /\ Started(r) = r /\ CurNode(r) = r.list[Len(r.list)] /\ Len(r.list) \in 1 .. Len(r.list)
         /\ r.list[Len(r.list)].lock
<1>1. Started(r) = r /\ r.list # <<>>
  BY DEF Started, Flown
<1>2. CurNode(r) = r.list[Len(r.list)] /\ Len(r.list) \in 1 .. Len(r.list)
  BY <1>1, StartedIs, ModuleTypes
<1>. QED
  BY <1>1, <1>2 DEF Flown

(* Nodes alike in every field are one. *)
LEMMA SameNode ==
  ASSUME NEW n \in Node, NEW o \in Node, Alike(n, o), n.data = o.data, n.from = o.from, n.to = o.to,
         n.lock = o.lock, n.freed = o.freed
  PROVE  n = o
BY DEF Node, Alike

(* No request is made with a freed node left in a list. *)
LEMMA SaneNode ==
  ASSUME Inv, Sane, NEW m \in Modules
  PROVE  \A i \in 1 .. Len(mod[m].list) : ~ mod[m].list[i].freed
BY Parts, ModuleTypes DEF Sane, Nodes, Range

(* An erase request leaves the last node where it is ... *)
LEMMA EraseLast ==
  ASSUME Inv, Sane, NEW m \in Modules, NEW s \in Sectors, NEW len \in EraseLens, mod[m].cur # 0
  PROVE  LET l == EOperaAdd(mod[m].list, s, len).list
         IN  l # <<>> /\ l[Len(l)] = mod[m].list[Len(mod[m].list)]
<1>. DEFINE r == mod[m]  list == r.list  n == Len(list)  rest == EraseRest(list, s)
            l == EOperaAdd(list, s, len).list
<1>1. r \in ModuleRec /\ Flown(r) /\ Own(list) /\ r.cur # 0 /\ \A j \in 1 .. Len(list) : ~ list[j].freed
  BY Origin, SaneNode
<1>2. list \in Seq(Node) /\ \A j \in 1 .. Len(list) : list[j] \in Node
  BY <1>1, ModuleTypes
<1>3. n \in 1 .. n /\ list[n].lock
  BY <1>1, CurIs
<1>4. PICK o : LeftOf(EraseRest(r.list, s), o, r, s)
  <2>. HIDE DEF r
  <2>. QED
    BY <1>1, EraseRestHolds
<1>5. /\ Sifted(rest, o, list, Kept(list, s)) /\ rest # <<>> /\ o[Len(rest)] = n
      /\ \A j \in 1 .. Len(rest) : rest[j].freed = (o[j] \in Missed(list, s))
  BY <1>1, <1>4 DEF LeftOf
<1>6. n \notin Missed(list, s)
  BY <1>2, <1>3, MatchesAre
<1>. HIDE DEF rest, r
<1>7. rest \in Seq(Node) /\ Len(rest) \in Nat /\ Len(rest) \in 1 .. Len(rest)
  BY <1>5, EmptySeq DEF Sifted
<1>8. rest[Len(rest)] = list[n]
  <2>. DEFINE x == rest[Len(rest)]  y == list[n]
  <2>3. /\ x \in Node /\ y \in Node /\ Alike(x, y) /\ x.data = y.data /\ x.from = y.from /\ x.to = y.to
        /\ x.lock = y.lock
    <3>. DEFINE N == Len(rest)
    <3>1. N \in 1 .. N /\ n \in 1 .. n /\ list[n] \in Node /\ o[N] = n
      BY <1>2, <1>3, <1>5, <1>7
    <3>2. rest[N] \in Node
      BY <1>7, <3>1
    <3>3. \A j \in 1 .. N : /\ Alike(rest[j], list[o[j]]) /\ rest[j].data = list[o[j]].data
                            /\ rest[j].from = list[o[j]].from /\ rest[j].to = list[o[j]].to
                            /\ rest[j].lock = list[o[j]].lock
      BY <1>5 DEF Sifted
    <3>. HIDE DEF N, n, list
    <3>. QED
      BY <3>1, <3>2, <3>3 DEF N
  <2>4. x.freed = FALSE /\ y.freed \in BOOLEAN /\ ~ y.freed
    BY <1>1, <1>2, <1>3, <1>5, <1>6, <1>7, NodeFields
  <2>1. /\ x \in Node /\ y \in Node /\ Alike(x, y) /\ x.data = y.data /\ x.from = y.from /\ x.to = y.to
        /\ x.lock = y.lock /\ x.freed = y.freed
    BY <2>3, <2>4
  <2>. HIDE DEF x, y
  <2>2. x = y
    BY <2>1, SameNode
  <2>. QED
    BY <2>2 DEF x, y
<1>9. l = rest \/ (EraseFree(list, s) # {} /\ l = <<EraseNode(Least(EraseFree(list, s)), s, len)>> \o rest)
  BY <1>2, EraseIs DEF rest
<1>10. ASSUME EraseFree(list, s) # {}, l = <<EraseNode(Least(EraseFree(list, s)), s, len)>> \o rest
       PROVE  l # <<>> /\ l[Len(l)] = list[n]
  <2>. DEFINE k == Least(EraseFree(list, s))  e == EraseNode(k, s, len)
  <2>1. FreeSlots \subseteq Slots /\ \A i \in Matches(list, s) : i \in 1 .. Len(list) /\ list[i].slot \in Slots
    BY <1>2, Origin, MatchesAre, NodeFields
  <2>2. EraseFree(list, s) \subseteq Slots
    BY <2>1 DEF EraseFree
  <2>3. k \in Slots
    BY <1>10, <2>2, LeastIs
  <2>. HIDE DEF k
  <2>4. e \in Node
    BY <2>3, EraseNodeIs
  <2>5. l = <<e>> \o rest
    BY <1>10 DEF k
  <2>. HIDE DEF e, l
  <2>6. /\ l \in Seq(Node) /\ Len(l) = Len(rest) + 1
        /\ \A i \in 1 .. Len(rest) + 1 : l[i] = IF i = 1 THEN e ELSE rest[i - 1]
    BY <1>7, <2>4, <2>5, ConsPlaces
  <2>7. l[Len(l)] = rest[Len(rest)] /\ Len(l) # 0
    BY <1>7, <2>6
  <2>. QED
    BY <1>8, <2>6, <2>7, EmptySeq
<1>. HIDE DEF l
<1>. QED
  BY <1>5, <1>8, <1>9, <1>10 DEF l, r

(* ... and so does a write request. *)
LEMMA WriteLast ==
  ASSUME Inv, NEW m \in Modules, NEW s \in Sectors, NEW from \in Cells,
         NEW to \in 1 .. Cardinality(Cells), NEW v \in SUBSET Bits, mod[m].cur # 0
  PROVE  LET l == WOperaAdd(m, s, from, to, v).list
         IN  l # <<>> /\ l[Len(l)] = mod[m].list[Len(mod[m].list)]
<1>. DEFINE r == mod[m]  list == r.list  n == Len(list)  l == WOperaAdd(m, s, from, to, v).list
<1>1. r \in ModuleRec /\ Flown(r) /\ Own(list) /\ r.cur # 0 /\ FreeSlots \subseteq Slots
  BY Origin
<1>2. list \in Seq(Node) /\ n \in Nat /\ (\A j \in 1 .. n : list[j] \in Node) /\ list # <<>>
  BY <1>1, ModuleTypes DEF Flown
<1>3. n \in 1 .. n /\ list[n].lock
  BY <1>1, CurIs
<1>4. ASSUME NEW i, MergeAt(m, s, from, to, v, i, l)
      PROVE  l # <<>> /\ l[Len(l)] = list[n]
  <2>. DEFINE e == Merged(list[i], from, to, v)
  <2>1. i \in 1 .. n /\ l = [list EXCEPT ![i] = e] /\ ~ list[i].lock
    BY <1>2, <1>4, WriteHitIs DEF MergeAt
  <2>2. e \in Node
    BY <1>2, <2>1, MergedIs
  <2>. HIDE DEF e, l, r
  <2>3. l \in Seq(Node) /\ Len(l) = n /\ \A j \in 1 .. n : l[j] = IF j = i THEN e ELSE list[j]
    BY <1>2, <2>1, <2>2, ExceptSeq
  <2>4. l # <<>>
    BY <1>2, <2>3, EmptySeq
  <2>. QED
    BY <1>3, <2>1, <2>3, <2>4
<1>5. ASSUME NewWrite(m, s, from, to, v, l)
      PROVE  l # <<>> /\ l[Len(l)] = list[n]
  <2>. DEFINE k == Least(FreeSlots)
              base == IF WriteHit(list, s) = {} THEN flash[m][s] ELSE Erased
              stale == WriteHit(list, s) = {} /\ Of(list, s) # {}
              e == WriteNode(k, s, from, to, v, base, stale)
  <2>1. k \in Slots
    BY <1>1, <1>5, LeastIs DEF NewWrite
  <2>2. base \in Sector /\ stale \in BOOLEAN
    <3>1. flash \in [Modules -> [Sectors -> Sector]]
      BY Parts DEF RestOK
    <3>. QED
      BY <3>1, ErasedIs
  <2>3. l = <<e>> \o list
    BY <1>5 DEF NewWrite
  <2>. HIDE DEF k, base, stale
  <2>4. e \in Node
    BY <2>1, <2>2, WriteNodeIs
  <2>. HIDE DEF e, l, r
  <2>5. /\ l \in Seq(Node) /\ Len(l) = n + 1
        /\ \A i \in 1 .. n + 1 : l[i] = IF i = 1 THEN e ELSE list[i - 1]
    BY <1>2, <2>3, <2>4, ConsPlaces
  <2>6. l[Len(l)] = list[n] /\ Len(l) # 0
    BY <1>2, <1>3, <2>5
  <2>. QED
    BY <2>5, <2>6, EmptySeq
<1>6. \/ \E i : MergeAt(m, s, from, to, v, i, l)
      \/ NewWrite(m, s, from, to, v, l)
      \/ l = list
  BY WriteIs
<1>. HIDE DEF l
<1>. QED
  BY <1>2, <1>4, <1>5, <1>6 DEF l

(* A module that is not touched *)
LEMMA SameLeft ==
  ASSUME Inv, NEW k \in Modules, mod'[k] = mod[k]
  PROVE  LeftInFlight(mod[k], mod'[k])
BY Parts DEF LeftInFlight, Flown

(* A request that replaces the list of a module *)
LEMMA RequestLeft ==
  ASSUME Inv, NEW m \in Modules, NEW l, mod' = [mod EXCEPT ![m].list = l], l \in Seq(Node),
         mod[m].cur # 0 => l # <<>> /\ l[Len(l)] = mod[m].list[Len(mod[m].list)]
  PROVE  \A k \in Modules : LeftInFlight(mod[k], mod'[k])
<1>. DEFINE q == [mod[m] EXCEPT !.list = l]
<1>1. mod \in [Modules -> ModuleRec] /\ mod[m] \in ModuleRec
  BY Parts
<1>2. q.list = l /\ q.cur = mod[m].cur
  BY <1>1, HoldsIs
<1>3. mod' = [mod EXCEPT ![m] = q]
  OBVIOUS
<1>. HIDE DEF q
<1>4. mod'[m] = q /\ \A k \in Modules \ {m} : mod'[k] = mod[k]
  BY <1>1, <1>3
<1>5. LeftInFlight(mod[m], mod'[m])
  BY <1>2, <1>4 DEF LeftInFlight
<1>. QED
  BY <1>4, <1>5, SameLeft

(* A flush step ends or suspends it. *)
LEMMA FlushLeft ==
  ASSUME Inv, Flush
  PROVE  \A k \in Modules : LeftInFlight(mod[k], mod'[k])
<1>1. ASSUME NEW m \in Modules, FlushDone(m) \/ FlushSuspended(m) \/ FlushEmpty(m), NEW k \in Modules
      PROVE  LeftInFlight(mod[k], mod'[k])
  <2>1. mod \in [Modules -> ModuleRec]
    BY Parts
  <2>2. CASE k # m
    <3>1. mod'[k] = mod[k]
      BY <1>1, <2>1, <2>2 DEF FlushDone, FlushSuspended, FlushEmpty
    <3>. QED
      BY <3>1, SameLeft
  <2>3. CASE k = m
    <3>. DEFINE r == mod[m]  q == Started(r)
    <3>1. r \in ModuleRec /\ Flown(r) /\ Own(r.list)
      BY Origin
    <3>2. CASE FlushEmpty(m)
      <4>1. mod'[k] = mod[k]
        BY <3>2 DEF FlushEmpty
      <4>. QED
        BY <4>1, SameLeft
    <3>3. CASE FlushDone(m)
      <4>1. mod'[m] = Deleted(q) /\ q.list # <<>>
        BY <2>1, <3>3 DEF FlushDone
      <4>2. Deleted(q).cur = 0
        BY DEF Deleted
      <4>. QED
        BY <2>3, <4>1, <4>2 DEF LeftInFlight
    <3>4. CASE FlushSuspended(m)
      <4>. DEFINE st == IF CurNode(q).type = "W" THEN "WRITTING_SUSPEND" ELSE "ERASE_SUSPEND"
                  p == [q EXCEPT !.state = st]
      <4>1. mod'[m] = p /\ q.list # <<>> /\ st \in {"WRITTING_SUSPEND", "ERASE_SUSPEND"}
        BY <2>1, <3>4 DEF FlushSuspended
      <4>. HIDE DEF st
      <4>2. p.list = q.list /\ p.cur = q.cur
        BY <3>1, <4>1, PausedIs
      <4>3. r.cur # 0 => q = r
        BY <3>1, CurIs
      <4>. HIDE DEF p
      <4>. QED
        BY <2>3, <4>1, <4>2, <4>3 DEF LeftInFlight
    <3>. QED
      BY <1>1, <3>2, <3>3, <3>4
  <2>. QED
    BY <2>2, <2>3
<1>2. ASSUME UNCHANGED mod, NEW k \in Modules PROVE LeftInFlight(mod[k], mod'[k])
  BY <1>2, SameLeft
<1>. QED
  BY <1>1, <1>2 DEF Flush

(* A synchronous request ends it. *)
LEMMA SyncLeft ==
  ASSUME Inv, NEW m \in Modules, NEW n, NEW e, SyncRequest(m, n, e)
  PROVE  \A k \in Modules : LeftInFlight(mod[k], mod'[k])
<1>. DEFINE o == OthersDone(m)
<1>1. CASE mod' = [o.mods EXCEPT ![m] = Released]
  <2>1. o.mods \in [Modules -> ModuleRec] /\ mod \in [Modules -> ModuleRec]
    BY OthersAre, Parts
  <2>2. mod'[m] = Released /\ \A k \in Modules \ {m} : mod'[k] = o.mods[k]
    BY <1>1, <2>1
  <2>3. \A k \in Modules : o.mods[k] = mod[k] \/ o.mods[k] = Deleted(Started(mod[k]))
    BY <2>1, OthersAre
  <2>. HIDE DEF o
  <2>4. \A r : Deleted(r).cur = 0 /\ Released.cur = 0
    BY DEF Deleted, Released
  <2>. QED
    BY <2>2, <2>3, <2>4, SameLeft DEF LeftInFlight
<1>2. CASE UNCHANGED mod
  BY <1>2, SameLeft
<1>. QED
  BY <1>1, <1>2 DEF SyncRequest, Released

(* No other step touches it. *)
LEMMA StepLeft == Inv /\ [Next]_vars => \A k \in Modules : LeftInFlight(mod[k], mod'[k])
<1>. SUFFICES ASSUME Inv, [Next]_vars PROVE \A k \in Modules : LeftInFlight(mod[k], mod'[k])
  OBVIOUS
<1>1. CASE Flush
  BY <1>1, FlushLeft
<1>2. CASE FlushDisable \/ FlushEnable \/ UNCHANGED vars
  <2>1. mod' = mod
    BY <1>2 DEF FlushDisable, FlushEnable, vars
  <2>. QED
    BY <2>1, SameLeft
<1>3. ASSUME NEW m \in Modules, NEW s \in Sectors, NEW len \in EraseLens, EraseAsync(m, s, len)
      PROVE  \A k \in Modules : LeftInFlight(mod[k], mod'[k])
  <2>. DEFINE l == EOperaAdd(mod[m].list, s, len).list
  <2>1. mod' = [mod EXCEPT ![m].list = l] /\ Sane
    BY <1>3 DEF EraseAsync, Request
  <2>2. l \in Seq(Node)
    BY EraseHolds DEF Holds
  <2>3. mod[m].cur # 0 => l # <<>> /\ l[Len(l)] = mod[m].list[Len(mod[m].list)]
    BY <2>1, EraseLast
  <2>. HIDE DEF l
  <2>. QED
    BY <2>1, <2>2, <2>3, RequestLeft
<1>4. ASSUME NEW m \in Modules, NEW s \in Sectors, NEW from \in Cells,
             NEW to \in 1 .. Cardinality(Cells), NEW v \in SUBSET Bits, WriteAsync(m, s, from, to, v)
      PROVE  \A k \in Modules : LeftInFlight(mod[k], mod'[k])
  <2>. DEFINE l == WOperaAdd(m, s, from, to, v).list
  <2>1. mod' = [mod EXCEPT ![m].list = l]
    BY <1>4 DEF WriteAsync
  <2>2. l \in Seq(Node)
    BY WriteHolds DEF Holds
  <2>3. mod[m].cur # 0 => l # <<>> /\ l[Len(l)] = mod[m].list[Len(mod[m].list)]
    BY WriteLast
  <2>. HIDE DEF l
  <2>. QED
    BY <2>1, <2>2, <2>3, RequestLeft
<1>5. ASSUME NEW m \in Modules, NEW s \in Sectors, NEW len \in EraseLens, EraseSync(m, s, len)
      PROVE  \A k \in Modules : LeftInFlight(mod[k], mod'[k])
  BY <1>5, SyncLeft DEF EraseSync
<1>6. ASSUME NEW m \in Modules, NEW s \in Sectors, NEW from \in Cells,
             NEW to \in 1 .. Cardinality(Cells), NEW v \in SUBSET Bits, WriteSync(m, s, from, to, v)
      PROVE  \A k \in Modules : LeftInFlight(mod[k], mod'[k])
  BY <1>6, SyncLeft DEF WriteSync
<1>. QED
  BY <1>1, <1>2, <1>3, <1>4, <1>5, <1>6, NextIs DEF Requests

(* The operation the driver is working on is not changed under its hands.   *)
THEOREM LeftAlone == Spec => InFlightUntouched
<1>. DEFINE Untouched ==
       \A m \in Modules :
         mod[m].cur # 0 => \/ mod'[m].cur = 0
                           \/ /\ mod'[m].cur = mod[m].cur
                              /\ mod'[m].list # <<>>
                              /\ mod'[m].list[Len(mod'[m].list)] = CurNode(mod[m])
<1>1. Inv /\ [Next]_vars => [Untouched]_vars
  <2>. SUFFICES ASSUME Inv, [Next]_vars PROVE Untouched
    OBVIOUS
  <2>1. \A m \in Modules : LeftInFlight(mod[m], mod'[m])
    BY StepLeft
  <2>2. ASSUME NEW m \in Modules, mod[m].cur # 0 PROVE CurNode(mod[m]) = mod[m].list[Len(mod[m].list)]
    BY <2>2, Origin, CurIs
  <2>. QED
    BY <2>1, <2>2 DEF LeftInFlight
<1>. QED
  BY <1>1, Inductive, PTL DEF Spec, InFlightUntouched

-----------------------------------------------------------------------------
(* What the pending operations make of the flash, bit by bit: a bit is there *)
(* when an operation sets it and no newer one wipes the sector, or when it   *)
(* is on the flash and none wipes the sector.                                *)
Wipes(n, s) == n.type = "E" /\ n.addr = s
Sets(n, s, c, b) == n.type = "W" /\ n.addr = s /\ c \in n.from .. n.to - 1 /\ b \in n.data[c]

(* Bit b of cell c of sector s after the operations from place p on, on x *)
Shows(list, x, p, s, c, b) ==
  \/ \E i \in p .. Len(list) :
       Sets(list[i], s, c, b) /\ \A j \in p .. i - 1 : ~ Wipes(list[j], s)
  \/ b \in x[s][c] /\ \A j \in p .. Len(list) : ~ Wipes(list[j], s)

(* One operation; erases are of one sector *)
LEMMA EffectBit ==
  ASSUME EraseLens = {1}, NEW n \in Node, NEW x \in Contents, NEW s \in Sectors, NEW c \in Cells, NEW b
  PROVE  b \in Effect(n, x)[s][c] <=> Sets(n, s, c, b) \/ (b \in x[s][c] /\ ~ Wipes(n, s))
<1>1. /\ n.type \in {"W", "E"} /\ n.len = 1 /\ n.addr \in Int /\ s \in Int
  <2>1. n.type \in {"W", "E"} /\ n.addr \in Sectors /\ n.len \in EraseLens \cup {1}
    BY NodeFields
  <2>2. \A t \in Sectors : t \in Int
    BY Sizes
  <2>. QED
    BY <2>1, <2>2
<1>2. s \in n.addr .. n.addr + n.len - 1 <=> s = n.addr
  BY <1>1
<1>3. CASE n.type = "E"
  <2>1. Effect(n, x)[s] = IF s = n.addr THEN Erased ELSE x[s]
    BY <1>2, <1>3 DEF Effect
  <2>. QED
    BY <1>3, <2>1, ErasedIs DEF Sets, Wipes
<1>4. CASE n.type = "W"
  <2>1. Effect(n, x)[s] =
          IF s = n.addr
          THEN [a \in Cells |-> IF a \in n.from .. n.to - 1 THEN x[s][a] \cup n.data[a] ELSE x[s][a]]
          ELSE x[s]
    BY <1>4 DEF Effect
  <2>2. Effect(n, x)[s][c] =
          IF s = n.addr /\ c \in n.from .. n.to - 1 THEN x[s][c] \cup n.data[c] ELSE x[s][c]
    BY <2>1
  <2>. QED
    BY <1>4, <2>2 DEF Sets, Wipes
<1>. QED
  BY <1>1, <1>3, <1>4

(* With one operation more, and with none *)
LEMMA ShowsStep ==
  ASSUME NEW list, Len(list) \in Nat, NEW p \in 1 .. Len(list), NEW x, NEW s, NEW c, NEW b
  PROVE  Shows(list, x, p, s, c, b) <=>
           Sets(list[p], s, c, b) \/ (~ Wipes(list[p], s) /\ Shows(list, x, p + 1, s, c, b))
<1>1. /\ \A i \in p .. Len(list) : i = p \/ i \in p + 1 .. Len(list)
      /\ p \in p .. Len(list) /\ \A i \in p + 1 .. Len(list) : i \in p .. Len(list) /\ p \in p .. i - 1
      /\ p .. p - 1 = {}
      /\ \A i \in p + 1 .. Len(list) : \A j \in p .. i - 1 : j = p \/ j \in p + 1 .. i - 1
      /\ \A i \in p + 1 .. Len(list) : \A j \in p + 1 .. i - 1 : j \in p .. i - 1
  OBVIOUS
<1>2. ASSUME Sets(list[p], s, c, b) PROVE Shows(list, x, p, s, c, b)
  BY <1>1, <1>2 DEF Shows
<1>3. ASSUME ~ Wipes(list[p], s), Shows(list, x, p + 1, s, c, b) PROVE Shows(list, x, p, s, c, b)
  <2>1. ASSUME NEW i \in p + 1 .. Len(list), Sets(list[i], s, c, b),
               \A j \in p + 1 .. i - 1 : ~ Wipes(list[j], s)
        PROVE  Shows(list, x, p, s, c, b)
    BY <1>1, <1>3, <2>1 DEF Shows
  <2>2. ASSUME b \in x[s][c], \A j \in p + 1 .. Len(list) : ~ Wipes(list[j], s)
        PROVE  Shows(list, x, p, s, c, b)
    BY <1>1, <1>3, <2>2 DEF Shows
  <2>. QED
    BY <1>3, <2>1, <2>2 DEF Shows
<1>4. ASSUME Shows(list, x, p, s, c, b), ~ Sets(list[p], s, c, b)
      PROVE  ~ Wipes(list[p], s) /\ Shows(list, x, p + 1, s, c, b)
  <2>1. ASSUME NEW i \in p .. Len(list), Sets(list[i], s, c, b),
               \A j \in p .. i - 1 : ~ Wipes(list[j], s)
        PROVE  ~ Wipes(list[p], s) /\ Shows(list, x, p + 1, s, c, b)
    <3>1. i \in p + 1 .. Len(list)
      BY <1>1, <1>4, <2>1
    <3>. QED
      BY <1>1, <2>1, <3>1 DEF Shows
  <2>2. ASSUME b \in x[s][c], \A j \in p .. Len(list) : ~ Wipes(list[j], s)
        PROVE  ~ Wipes(list[p], s) /\ Shows(list, x, p + 1, s, c, b)
    BY <1>1, <2>2 DEF Shows
  <2>. QED
    BY <1>4, <2>1, <2>2 DEF Shows
<1>. QED
  BY <1>2, <1>3, <1>4

(* With none left the flash is what it is. *)
LEMMA ShowsEnd ==
  ASSUME NEW list, Len(list) \in Nat, NEW x, NEW s, NEW c, NEW b
  PROVE  Shows(list, x, Len(list) + 1, s, c, b) <=> b \in x[s][c]
<1>1. Len(list) + 1 .. Len(list) = {}
  OBVIOUS
<1>. QED
  BY <1>1 DEF Shows

(* Flushing the list in order gives just that content. *)
LEMMA RunShows ==
  ASSUME EraseLens = {1}, NEW list \in Seq(Node), NEW x \in Contents,
         NEW s \in Sectors, NEW c \in Cells, NEW b
  PROVE  b \in EffectAll(list, x)[s][c] <=> Shows(list, x, 1, s, c, b)
<1>. DEFINE n == Len(list)  r == Run(list, x)
            T == {k \in Nat : k <= n => (b \in r[k][s][c] <=> Shows(list, x, n + 1 - k, s, c, b))}
<1>1. n \in Nat /\ \A k \in 1 .. n : list[k] \in Node
  BY ElementOfSeq, LenProperties
<1>2. /\ r[0] = x
      /\ \A k \in 1 .. n : r[k] = Effect(list[n + 1 - k], r[k - 1])
      /\ \A k \in 0 .. n : r[k] \in Contents
  BY RunUnfolds
<1>3. EffectAll(list, x) = r[n]
  BY DEF EffectAll
<1>. HIDE DEF r
<1>4. 0 \in T
  <2>1. b \in x[s][c] <=> Shows(list, x, n + 1, s, c, b)
    BY <1>1, ShowsEnd
  <2>2. n + 1 - 0 = n + 1
    BY <1>1
  <2>. QED
    BY <1>2, <2>1, <2>2
<1>5. ASSUME NEW k \in T PROVE k + 1 \in T
  <2>. SUFFICES ASSUME k + 1 <= n
                PROVE  b \in r[k + 1][s][c] <=> Shows(list, x, n + 1 - (k + 1), s, c, b)
    OBVIOUS
  <2>. DEFINE p == n - k
  <2>1. /\ k \in Nat /\ k <= n /\ k + 1 \in 1 .. n /\ k \in 0 .. n /\ (k + 1) - 1 = k
        /\ n + 1 - (k + 1) = p /\ p \in 1 .. n /\ p + 1 = n + 1 - k
    BY <1>1
  <2>2. r[k + 1] = Effect(list[p], r[k]) /\ r[k] \in Contents /\ list[p] \in Node
    <3>1. r[k + 1] = Effect(list[n + 1 - (k + 1)], r[(k + 1) - 1])
      BY <1>2, <2>1
    <3>. QED
      BY <1>1, <1>2, <2>1, <3>1
  <2>3. b \in r[k][s][c] <=> Shows(list, x, p + 1, s, c, b)
    BY <2>1
  <2>. HIDE DEF p, T
  <2>4. b \in r[k + 1][s][c] <=> Sets(list[p], s, c, b) \/ (b \in r[k][s][c] /\ ~ Wipes(list[p], s))
    <3>. DEFINE a == list[p]  y == r[k]
    <3>1. a \in Node /\ y \in Contents
      BY <2>2
    <3>. HIDE DEF a, y
    <3>2. b \in Effect(a, y)[s][c] <=> Sets(a, s, c, b) \/ (b \in y[s][c] /\ ~ Wipes(a, s))
      BY <3>1, EffectBit
    <3>. QED
      BY <2>2, <3>2 DEF a, y
  <2>5. Shows(list, x, p, s, c, b) <=>
           Sets(list[p], s, c, b) \/ (~ Wipes(list[p], s) /\ Shows(list, x, p + 1, s, c, b))
    BY <1>1, <2>1, ShowsStep
  <2>. QED
    BY <2>1, <2>3, <2>4, <2>5
<1>. HIDE DEF T
<1>6. T \in SUBSET Nat
  BY DEF T
<1>7. n \in T
  BY <1>1, <1>4, <1>5, <1>6, Induction
<1>8. n + 1 - n = 1 /\ n <= n
  BY <1>1
<1>9. b \in r[n][s][c] <=> Shows(list, x, n + 1 - n, s, c, b)
  BY <1>7, <1>8 DEF T
<1>. QED
  BY <1>3, <1>8, <1>9

(* The operations of list l from place q on are those of list k from place p *)
(* on, by o, but for some that do nothing to the bit.                        *)
Threads(o, q, p, l, k, s, c, b) ==
  /\ o \in [1 .. Len(l) -> 1 .. Len(k)]
  /\ \A i, j \in 1 .. Len(l) : i < j => o[i] < o[j]
  /\ \A j \in 1 .. Len(l) : /\ q <= j <=> p <= o[j]
                            /\ q <= j => (Sets(l[j], s, c, b) <=> Sets(k[o[j]], s, c, b))
                            /\ q <= j => (Wipes(l[j], s) <=> Wipes(k[o[j]], s))
  /\ \A i \in p .. Len(k) : \/ \E j \in 1 .. Len(l) : o[j] = i
                            \/ ~ Sets(k[i], s, c, b) /\ ~ Wipes(k[i], s)

(* Then they make the same of it. *)
LEMMA ShowsThreaded ==
  ASSUME NEW l, NEW k, Len(l) \in Nat, Len(k) \in Nat, NEW q \in 1 .. Len(l) + 1, NEW p \in 1 .. Len(k) + 1,
         NEW s, NEW c, NEW b, NEW o, Threads(o, q, p, l, k, s, c, b),
         NEW x, NEW y, b \in x[s][c] <=> b \in y[s][c]
  PROVE  Shows(l, x, q, s, c, b) <=> Shows(k, y, p, s, c, b)
<1>1. /\ \A j \in 1 .. Len(l) : o[j] \in 1 .. Len(k) /\ o[j] \in Int /\ j \in Int
      /\ \A j \in q .. Len(l) : j \in 1 .. Len(l) /\ q <= j /\ j \in Int
      /\ \A i \in p .. Len(k) : i \in 1 .. Len(k) /\ p <= i /\ i \in Int
      /\ \A j \in 1 .. Len(l) : q <= j => j \in q .. Len(l)
      /\ \A i \in 1 .. Len(k) : p <= i => i \in p .. Len(k)
  <2>1. o \in [1 .. Len(l) -> 1 .. Len(k)]
    BY DEF Threads
  <2>2. \A j \in 1 .. Len(l) : o[j] \in 1 .. Len(k) /\ o[j] \in Int /\ j \in Int
    BY <2>1
  <2>. QED
    BY <2>2
<1>2. ASSUME NEW i \in 1 .. Len(l), NEW j \in 1 .. Len(l), o[i] < o[j] PROVE i < j
  <2>1. CASE i = j
    BY <1>1, <1>2, <2>1
  <2>2. CASE j < i
    <3>1. o[j] < o[i]
      BY <2>2 DEF Threads
    <3>. QED
      BY <1>1, <1>2, <3>1
  <2>. QED
    BY <1>1, <2>1, <2>2
<1>3. ASSUME NEW i \in p .. Len(k), Wipes(k[i], s)
      PROVE  \E j \in q .. Len(l) : o[j] = i /\ Wipes(l[j], s)
  <2>1. PICK j \in 1 .. Len(l) : o[j] = i
    BY <1>3 DEF Threads
  <2>. QED
    BY <1>1, <1>3, <2>1 DEF Threads
<1>4. ASSUME NEW i \in p .. Len(k), Sets(k[i], s, c, b)
      PROVE  \E j \in q .. Len(l) : o[j] = i /\ Sets(l[j], s, c, b)
  <2>1. PICK j \in 1 .. Len(l) : o[j] = i
    BY <1>4 DEF Threads
  <2>. QED
    BY <1>1, <1>4, <2>1 DEF Threads
<1>5. ASSUME NEW j \in q .. Len(l)
      PROVE  /\ o[j] \in p .. Len(k)
             /\ Wipes(l[j], s) => Wipes(k[o[j]], s)
             /\ Sets(l[j], s, c, b) => Sets(k[o[j]], s, c, b)
  BY <1>1 DEF Threads
<1>6. (\A j \in q .. Len(l) : ~ Wipes(l[j], s)) <=> (\A i \in p .. Len(k) : ~ Wipes(k[i], s))
  BY <1>3, <1>5
<1>7. ASSUME NEW i \in q .. Len(l)
      PROVE  (\A j \in q .. i - 1 : ~ Wipes(l[j], s)) <=> (\A j \in p .. o[i] - 1 : ~ Wipes(k[j], s))
  <2>1. ASSUME NEW j \in p .. o[i] - 1, Wipes(k[j], s) PROVE \E a \in q .. i - 1 : Wipes(l[a], s)
    <3>1. j \in p .. Len(k) /\ j < o[i] /\ i \in 1 .. Len(l) /\ j \in Int
      <4>1. i \in 1 .. Len(l) /\ o[i] \in 1 .. Len(k) /\ o[i] \in Int /\ p \in Int
        BY <1>1
      <4>. QED
        BY <4>1
    <3>2. PICK a \in q .. Len(l) : o[a] = j /\ Wipes(l[a], s)
      BY <1>3, <2>1, <3>1
    <3>3. a < i
      BY <1>1, <1>2, <3>1, <3>2
    <3>4. a \in q .. i - 1
      BY <1>1, <3>3
    <3>. QED
      BY <3>2, <3>4
  <2>2. ASSUME NEW j \in q .. i - 1, Wipes(l[j], s) PROVE \E a \in p .. o[i] - 1 : Wipes(k[a], s)
    <3>1. j \in q .. Len(l) /\ j < i /\ i \in 1 .. Len(l) /\ j \in 1 .. Len(l)
      OBVIOUS
    <3>2. o[j] < o[i]
      BY <3>1 DEF Threads
    <3>3. o[j] \in p .. Len(k) /\ Wipes(k[o[j]], s) /\ o[i] \in Int /\ o[j] \in Int
      BY <1>1, <1>5, <2>2, <3>1
    <3>4. o[j] \in p .. o[i] - 1
      BY <3>2, <3>3
    <3>. QED
      BY <3>3, <3>4
  <2>. QED
    BY <2>1, <2>2
<1>8. (\E i \in q .. Len(l) : Sets(l[i], s, c, b) /\ \A j \in q .. i - 1 : ~ Wipes(l[j], s))
      => \E i \in p .. Len(k) : Sets(k[i], s, c, b) /\ \A j \in p .. i - 1 : ~ Wipes(k[j], s)
  BY <1>5, <1>7
<1>9. (\E i \in p .. Len(k) : Sets(k[i], s, c, b) /\ \A j \in p .. i - 1 : ~ Wipes(k[j], s))
      => \E i \in q .. Len(l) : Sets(l[i], s, c, b) /\ \A j \in q .. i - 1 : ~ Wipes(l[j], s)
  BY <1>4, <1>7
<1>. QED
  BY <1>6, <1>8, <1>9 DEF Shows

-----------------------------------------------------------------------------
(* What list l, flash content x and accepted content e of a module have to   *)
(* do with each other: the operations pending add up to what was accepted;   *)
AddsUpTo(l, x, e) ==
  \A s \in Sectors, c \in Cells : \A b : b \in e[s][c] <=> Shows(l, x, 1, s, c, b)

(* the buffer of a write holds nothing outside its range that is not there   *)
(* without it (merging another write may extend the range over that), and,   *)
(* unless it is stale, just what the sector will hold after it.              *)
Fits(l, x, i) ==
  l[i].type = "W" =>
    \A c \in Cells : \A b :
      /\ c \notin l[i].from .. l[i].to - 1 /\ b \in l[i].data[c] => Shows(l, x, i + 1, l[i].addr, c, b)
      /\ ~ l[i].stale => (b \in l[i].data[c] <=> Shows(l, x, i, l[i].addr, c, b))

Good(l, x, e) == AddsUpTo(l, x, e) /\ \A i \in 1 .. Len(l) : Fits(l, x, i)

(* Nodes that do the same *)
Same(n, o) == Alike(n, o) /\ n.data = o.data /\ n.from = o.from /\ n.to = o.to

(* They do the same to every bit. *)
LEMMA SameDoes ==
  ASSUME NEW n, NEW o, Same(n, o)
  PROVE  \A s, c, b : (Sets(n, s, c, b) <=> Sets(o, s, c, b)) /\ (Wipes(n, s) <=> Wipes(o, s))
BY DEF Same, Alike, Sets, Wipes

(* A node keeps fitting as long as the operations older than it do the same. *)
LEMMA FitsMoves ==
  ASSUME NEW l, NEW x, NEW j, NEW k, NEW y, NEW i, Same(l[j], k[i]), Fits(k, y, i),
         k[i].type = "W" =>
           \A c \in Cells : \A b :
             /\ c \notin k[i].from .. k[i].to - 1 =>
                  (Shows(l, x, j + 1, k[i].addr, c, b) <=> Shows(k, y, i + 1, k[i].addr, c, b))
             /\ Shows(l, x, j, k[i].addr, c, b) <=> Shows(k, y, i, k[i].addr, c, b)
  PROVE  Fits(l, x, j)
<1>1. /\ l[j].type = k[i].type /\ l[j].addr = k[i].addr /\ l[j].stale = k[i].stale
      /\ l[j].data = k[i].data /\ l[j].from = k[i].from /\ l[j].to = k[i].to
  BY DEF Same, Alike
<1>. QED
  BY <1>1 DEF Fits

(* The oldest operation done and cut off *)
LEMMA ShowsCut ==
  ASSUME NEW l, NEW k, NEW n \in Nat, Len(l) = n, n # 0, Len(k) = n - 1, NEW s, NEW c, NEW b,
         \A i \in 1 .. n - 1 : (Sets(k[i], s, c, b) <=> Sets(l[i], s, c, b))
                               /\ (Wipes(k[i], s) <=> Wipes(l[i], s)),
         NEW x, NEW y, b \in y[s][c] <=> Sets(l[n], s, c, b) \/ (b \in x[s][c] /\ ~ Wipes(l[n], s)),
         NEW p \in 1 .. n
  PROVE  Shows(k, y, p, s, c, b) <=> Shows(l, x, p, s, c, b)
<1>1. /\ n \in p .. n /\ \A i \in p .. n : i = n \/ i \in p .. n - 1
      /\ \A i \in p .. n - 1 : i \in p .. n /\ i \in 1 .. n - 1
      /\ \A i \in p .. n - 1 : \A j \in p .. i - 1 : j \in 1 .. n - 1
      /\ \A j \in p .. n - 1 : j \in 1 .. n - 1
  OBVIOUS
<1>2. ASSUME NEW i \in p .. n - 1
      PROVE  (\A j \in p .. i - 1 : ~ Wipes(k[j], s)) <=> (\A j \in p .. i - 1 : ~ Wipes(l[j], s))
  BY <1>1
<1>3. (\E i \in p .. n - 1 : Sets(k[i], s, c, b) /\ \A j \in p .. i - 1 : ~ Wipes(k[j], s))
      <=> (\E i \in p .. n - 1 : Sets(l[i], s, c, b) /\ \A j \in p .. i - 1 : ~ Wipes(l[j], s))
  BY <1>1, <1>2
<1>4. (\A j \in p .. n - 1 : ~ Wipes(k[j], s)) <=> (\A j \in p .. n - 1 : ~ Wipes(l[j], s))
  BY <1>1
<1>5. (\E i \in p .. n : Sets(l[i], s, c, b) /\ \A j \in p .. i - 1 : ~ Wipes(l[j], s))
      <=> \/ \E i \in p .. n - 1 : Sets(l[i], s, c, b) /\ \A j \in p .. i - 1 : ~ Wipes(l[j], s)
          \/ Sets(l[n], s, c, b) /\ \A j \in p .. n - 1 : ~ Wipes(l[j], s)
  BY <1>1
<1>6. (\A j \in p .. n : ~ Wipes(l[j], s)) <=> (\A j \in p .. n - 1 : ~ Wipes(l[j], s)) /\ ~ Wipes(l[n], s)
  BY <1>1
<1>. QED
  BY <1>3, <1>4, <1>5, <1>6 DEF Shows

(* A completed flush step *)
LEMMA GoodCut ==
  ASSUME EraseLens = {1}, NEW l \in Seq(Node), l # <<>>, NEW k \in Seq(Node), Len(k) = Len(l) - 1,
         \A i \in 1 .. Len(l) - 1 : k[i] = l[i], NEW z \in Node, Same(z, l[Len(l)]),
         NEW x \in Contents, NEW e, Good(l, x, e)
  PROVE  Good(k, Effect(z, x), e)
<1>. DEFINE n == Len(l)  y == Effect(z, x)
<1>1. n \in Nat /\ n # 0 /\ l[n] \in Node
  BY LenProperties, EmptySeq, ElementOfSeq
<1>2. ASSUME NEW s \in Sectors, NEW c \in Cells, NEW b, NEW p \in 1 .. n
      PROVE  Shows(k, y, p, s, c, b) <=> Shows(l, x, p, s, c, b)
  <2>1. b \in y[s][c] <=> Sets(z, s, c, b) \/ (b \in x[s][c] /\ ~ Wipes(z, s))
    BY EffectBit
  <2>2. b \in y[s][c] <=> Sets(l[n], s, c, b) \/ (b \in x[s][c] /\ ~ Wipes(l[n], s))
    BY <2>1, SameDoes
  <2>3. \A i \in 1 .. n - 1 : (Sets(k[i], s, c, b) <=> Sets(l[i], s, c, b))
                              /\ (Wipes(k[i], s) <=> Wipes(l[i], s))
    OBVIOUS
  <2>. HIDE DEF n, y
  <2>. QED
    BY <1>1, <2>2, <2>3, ShowsCut DEF n
<1>3. 1 \in 1 .. n
  BY <1>1
<1>. HIDE DEF y
<1>4. AddsUpTo(k, y, e)
  BY <1>2, <1>3 DEF Good, AddsUpTo
<1>5. ASSUME NEW i \in 1 .. n - 1 PROVE Fits(k, y, i)
  <2>1. i \in 1 .. n /\ i + 1 \in 1 .. n /\ k[i] = l[i] /\ l[i] \in Node
    BY <1>1, ElementOfSeq
  <2>2. l[i].addr \in Sectors /\ Same(k[i], l[i])
    BY <2>1, NodeFields DEF Same, Alike
  <2>3. Fits(l, x, i)
    BY <2>1 DEF Good
  <2>. HIDE DEF n
  <2>. QED
    BY <1>2, <2>1, <2>2, <2>3, FitsMoves
<1>. QED
  BY <1>4, <1>5 DEF Good, y

(* What a suspended step has done is done again when it is resumed. *)
LEMMA PartialBit ==
  ASSUME EraseLens = {1}, NEW n \in Node, NEW x \in Contents, NEW y \in Partial(n, x),
         NEW s \in Sectors, NEW c \in Cells, NEW b
  PROVE  /\ Sets(n, s, c, b) \/ (b \in y[s][c] /\ ~ Wipes(n, s))
            <=> Sets(n, s, c, b) \/ (b \in x[s][c] /\ ~ Wipes(n, s))
         /\ n.type = "W" /\ c \notin n.from .. n.to - 1 => (b \in y[s][c] <=> b \in x[s][c])
<1>1. CASE n.type = "E"
  <2>1. \A t \in Sectors \ (n.addr .. n.addr + n.len - 1) : y[t] = x[t]
    BY <1>1 DEF Partial
  <2>2. n.addr \in Nat /\ n.len = 1
    BY NodeFields, Sizes
  <2>3. n.addr .. n.addr + n.len - 1 = {n.addr}
    BY <2>2
  <2>4. Wipes(n, s) \/ y[s] = x[s]
    BY <1>1, <2>1, <2>3 DEF Wipes
  <2>. QED
    BY <1>1, <2>4
<1>2. CASE n.type = "W"
  <2>1. PICK k \in n.from .. n.to - 1 : y = Effect([n EXCEPT !.to = k], x)
    BY <1>2 DEF Partial
  <2>. DEFINE o == [n EXCEPT !.to = k]
  <2>2. o.type = "W" /\ o.addr = n.addr /\ o.from = n.from /\ o.to = k /\ o.data = n.data
    BY <1>2 DEF Node
  <2>3. y = Effect(o, x)
    BY <2>1
  <2>. HIDE DEF o
  <2>4. n.from \in Nat /\ n.to \in Nat /\ \A i \in Cells : i \in Nat
    BY NodeFields, Sizes
  <2>5. y[s] = IF s = n.addr
               THEN [a \in Cells |-> IF a \in n.from .. k - 1 THEN x[s][a] \cup n.data[a] ELSE x[s][a]]
               ELSE x[s]
    BY <2>2, <2>3 DEF Effect
  <2>6. y[s][c] = IF s = n.addr /\ c \in n.from .. k - 1 THEN x[s][c] \cup n.data[c] ELSE x[s][c]
    BY <2>5
  <2>7. c \in n.from .. k - 1 => c \in n.from .. n.to - 1
    BY <2>1, <2>4
  <2>. QED
    BY <1>2, <2>6, <2>7 DEF Sets, Wipes
<1>. QED
  BY <1>1, <1>2, NodeFields

(* A suspended flush step *)
LEMMA GoodPaused ==
  ASSUME EraseLens = {1}, NEW l \in Seq(Node), l # <<>>, NEW k \in Seq(Node), Len(k) = Len(l),
         \A i \in 1 .. Len(l) : Same(k[i], l[i]),
         NEW x \in Contents, NEW y \in Partial(k[Len(k)], x), NEW e, Good(l, x, e)
  PROVE  Good(k, y, e)
<1>. DEFINE n == Len(l)  z == k[n]
<1>1. n \in Nat /\ n # 0 /\ l[n] \in Node /\ z \in Node /\ n \in 1 .. n /\ 1 \in 1 .. n
      /\ \A i \in 1 .. n : l[i] \in Node
  BY LenProperties, EmptySeq, ElementOfSeq
<1>2. y \in Partial(z, x) /\ Same(z, l[n])
  BY <1>1
<1>. HIDE DEF z
<1>3. ASSUME NEW s \in Sectors, NEW c \in Cells, NEW b, NEW p \in 1 .. n
      PROVE  Shows(k, y, p, s, c, b) <=> Shows(l, x, p, s, c, b)
  <2>. DEFINE m == SubSeq(l, 1, n - 1)  w == Effect(z, x)
  <2>1. n - 1 \in 0 .. Len(l)
    BY <1>1
  <2>2. m \in Seq(Node) /\ Len(m) = n - 1 /\ \A i \in 1 .. n - 1 : m[i] = l[i]
    BY <2>1, CutPlaces
  <2>3. \A i \in 1 .. n - 1 : i \in 1 .. n
    BY <1>1
  <2>. HIDE DEF m
  <2>4. \A i \in 1 .. n : (Sets(k[i], s, c, b) <=> Sets(l[i], s, c, b)) /\ (Wipes(k[i], s) <=> Wipes(l[i], s))
    BY SameDoes
  <2>5. /\ b \in w[s][c] <=> Sets(z, s, c, b) \/ (b \in x[s][c] /\ ~ Wipes(z, s))
        /\ Sets(z, s, c, b) \/ (b \in y[s][c] /\ ~ Wipes(z, s))
            <=> Sets(z, s, c, b) \/ (b \in x[s][c] /\ ~ Wipes(z, s))
    BY <1>1, <1>2, EffectBit, PartialBit
  <2>. HIDE DEF w
  <2>6. b \in w[s][c] <=> Sets(l[n], s, c, b) \/ (b \in x[s][c] /\ ~ Wipes(l[n], s))
    BY <1>1, <2>4, <2>5 DEF z
  <2>7. b \in w[s][c] <=> Sets(k[n], s, c, b) \/ (b \in y[s][c] /\ ~ Wipes(k[n], s))
    BY <2>5 DEF z
  <2>8. \A i \in 1 .. n - 1 : /\ (Sets(m[i], s, c, b) <=> Sets(l[i], s, c, b)) /\ (Wipes(m[i], s) <=> Wipes(l[i], s))
                              /\ (Sets(m[i], s, c, b) <=> Sets(k[i], s, c, b)) /\ (Wipes(m[i], s) <=> Wipes(k[i], s))
    BY <2>2, <2>3, <2>4
  <2>0. Len(l) = n /\ Len(k) = n
    OBVIOUS
  <2>. HIDE DEF n
  <2>9. Shows(m, w, p, s, c, b) <=> Shows(l, x, p, s, c, b)
    BY <1>1, <2>0, <2>2, <2>6, <2>8, ShowsCut
  <2>10. Shows(m, w, p, s, c, b) <=> Shows(k, y, p, s, c, b)
    BY <1>1, <2>0, <2>2, <2>7, <2>8, ShowsCut
  <2>. QED
    BY <2>9, <2>10
<1>4. AddsUpTo(k, y, e)
  BY <1>1, <1>3 DEF Good, AddsUpTo
<1>5. ASSUME NEW i \in 1 .. n PROVE Fits(k, y, i)
  <2>1. l[i].addr \in Sectors /\ Same(k[i], l[i]) /\ Fits(l, x, i)
    BY <1>1, NodeFields DEF Good
  <2>2. CASE i \in 1 .. n - 1
    <3>1. i + 1 \in 1 .. n
      BY <1>1, <2>2
    <3>. HIDE DEF n
    <3>. QED
      BY <1>3, <2>1, <3>1, FitsMoves
  <2>3. CASE i = n
    <3>1. ASSUME l[n].type = "W", NEW c \in Cells, NEW b, c \notin l[n].from .. l[n].to - 1
          PROVE  Shows(k, y, n + 1, l[n].addr, c, b) <=> Shows(l, x, n + 1, l[n].addr, c, b)
      <4>1. z.type = "W" /\ z.from = l[n].from /\ z.to = l[n].to
        BY <1>2, <3>1 DEF Same, Alike
      <4>2. b \in y[l[n].addr][c] <=> b \in x[l[n].addr][c]
        BY <1>1, <1>2, <2>1, <2>3, <3>1, <4>1, PartialBit
      <4>3. Len(k) = n /\ Len(k) \in Nat /\ Len(l) = n
        BY <1>1
      <4>. HIDE DEF n
      <4>. QED
        BY <1>1, <4>2, <4>3, ShowsEnd
    <3>. HIDE DEF n
    <3>. QED
      BY <1>1, <1>3, <2>1, <2>3, <3>1, FitsMoves
  <2>. QED
    BY <1>1, <2>2, <2>3
<1>. QED
  BY <1>4, <1>5 DEF Good

(* A module with nothing pending *)
LEMMA GoodEmpty ==
  ASSUME NEW x PROVE Good(<<>>, x, x)
<1>. DEFINE l == <<>>
<1>1. Len(l) = 0
  OBVIOUS
<1>. HIDE DEF l
<1>2. \A s, c, b : Shows(l, x, Len(l) + 1, s, c, b) <=> b \in x[s][c]
  BY <1>1, ShowsEnd
<1>3. AddsUpTo(l, x, x)
  BY <1>1, <1>2 DEF AddsUpTo
<1>4. Good(l, x, x)
  BY <1>1, <1>3 DEF Good
<1>. QED
  BY <1>4 DEF l

-----------------------------------------------------------------------------
(* A new operation before the list *)
LEMMA ConsShows ==
  ASSUME NEW l \in Seq(Node), NEW n \in Node, NEW x, NEW q \in 1 .. Len(l) + 1, NEW s, NEW c, NEW b
  PROVE  Shows(<<n>> \o l, x, q + 1, s, c, b) <=> Shows(l, x, q, s, c, b)
<1>. DEFINE k == <<n>> \o l  o == [j \in 1 .. Len(l) |-> j + 1]
<1>1. Len(l) \in Nat /\ Len(k) = Len(l) + 1 /\ \A i \in 1 .. Len(l) + 1 : k[i] = IF i = 1 THEN n ELSE l[i - 1]
  BY ConsPlaces, LenProperties
<1>. HIDE DEF k
<1>2. \A j \in 1 .. Len(l) : j + 1 \in 1 .. Len(l) + 1 /\ j + 1 # 1 /\ (j + 1) - 1 = j
  BY <1>1
<1>3. \A j \in 1 .. Len(l) : o[j] = j + 1 /\ k[o[j]] = l[j]
  BY <1>1, <1>2
<1>4. o \in [1 .. Len(l) -> 1 .. Len(k)]
  BY <1>1, <1>2
<1>. HIDE DEF o
<1>5. \A i \in q + 1 .. Len(k) : \E j \in 1 .. Len(l) : o[j] = i
  <2>. SUFFICES ASSUME NEW i \in q + 1 .. Len(k) PROVE \E j \in 1 .. Len(l) : o[j] = i
    OBVIOUS
  <2>1. i - 1 \in 1 .. Len(l) /\ (i - 1) + 1 = i
    BY <1>1
  <2>. QED
    BY <1>3, <2>1
<1>6. /\ \A i, j \in 1 .. Len(l) : i < j => o[i] < o[j]
      /\ \A j \in 1 .. Len(l) : q <= j <=> q + 1 <= o[j]
  BY <1>1, <1>3
<1>7. Threads(o, q, q + 1, l, k, s, c, b)
  BY <1>3, <1>4, <1>5, <1>6 DEF Threads
<1>8. q + 1 \in 1 .. Len(k) + 1 /\ Len(k) \in Nat
  BY <1>1
<1>9. Shows(l, x, q, s, c, b) <=> Shows(k, x, q + 1, s, c, b)
  BY <1>1, <1>7, <1>8, ShowsThreaded
<1>. QED
  BY <1>9 DEF k

(* The nodes after it still fit. *)
LEMMA ConsFits ==
  ASSUME NEW l \in Seq(Node), NEW n \in Node, NEW x, NEW i \in 1 .. Len(l), Fits(l, x, i)
  PROVE  Fits(<<n>> \o l, x, i + 1)
<1>. DEFINE k == <<n>> \o l
<1>1. Len(l) \in Nat /\ Len(k) = Len(l) + 1 /\ \A j \in 1 .. Len(l) + 1 : k[j] = IF j = 1 THEN n ELSE l[j - 1]
  BY ConsPlaces, LenProperties
<1>2. i + 1 \in 1 .. Len(l) + 1 /\ i + 1 # 1 /\ (i + 1) - 1 = i /\ i \in 1 .. Len(l) + 1
  BY <1>1
<1>3. k[i + 1] = l[i]
  BY <1>1, <1>2
<1>4. \A s, c, b : /\ Shows(k, x, i + 1, s, c, b) <=> Shows(l, x, i, s, c, b)
                   /\ Shows(k, x, (i + 1) + 1, s, c, b) <=> Shows(l, x, i + 1, s, c, b)
  BY <1>2, ConsShows
<1>5. Same(k[i + 1], l[i])
  BY <1>3 DEF Same, Alike
<1>. HIDE DEF k
<1>6. Fits(k, x, i + 1)
  BY <1>4, <1>5, FitsMoves
<1>. QED
  BY <1>6 DEF k

(* What an erase request keeps of the list shows what it showed before, for  *)
(* sectors of which nothing was dropped.                                     *)
LEMMA SiftedShows ==
  ASSUME NEW l \in Seq(Node), NEW rest, NEW o, NEW I, Sifted(rest, o, l, I), NEW x, NEW s, NEW c, NEW b,
         NEW q \in 1 .. Len(rest) + 1, NEW p \in 1 .. Len(l) + 1,
         \A j \in 1 .. Len(rest) : q <= j <=> p <= o[j],
         \A i \in p .. Len(l) : i \in I \/ l[i].addr # s
  PROVE  Shows(rest, x, q, s, c, b) <=> Shows(l, x, p, s, c, b)
<1>1. Len(l) \in Nat /\ Len(rest) \in Nat
  BY LenProperties DEF Sifted
<1>2. \A j \in 1 .. Len(rest) : Same(rest[j], l[o[j]])
  BY DEF Sifted, Same
<1>3. \A j \in 1 .. Len(rest) : /\ Sets(rest[j], s, c, b) <=> Sets(l[o[j]], s, c, b)
                                /\ Wipes(rest[j], s) <=> Wipes(l[o[j]], s)
  BY <1>2, SameDoes
<1>4. ASSUME NEW i \in p .. Len(l)
      PROVE  (\E j \in 1 .. Len(rest) : o[j] = i) \/ (~ Sets(l[i], s, c, b) /\ ~ Wipes(l[i], s))
  <2>1. i \in 1 .. Len(l)
    BY <1>1
  <2>2. i \in I => \E j \in 1 .. Len(rest) : o[j] = i
    BY <2>1 DEF Sifted
  <2>3. l[i].addr # s => ~ Sets(l[i], s, c, b) /\ ~ Wipes(l[i], s)
    BY DEF Sets, Wipes
  <2>4. i \in I \/ l[i].addr # s
    OBVIOUS
  <2>. QED
    BY <2>2, <2>3, <2>4
<1>5. Threads(o, q, p, rest, l, s, c, b)
  BY <1>3, <1>4 DEF Threads, Sifted
<1>. QED
  BY <1>1, <1>5, ShowsThreaded

(* The places kept are in their order, and so are the places after them. *)
LEMMA SiftedOrder ==
  ASSUME NEW l \in Seq(Node), NEW rest, NEW o, NEW I, Sifted(rest, o, l, I), NEW j \in 1 .. Len(rest)
  PROVE  /\ j \in 1 .. Len(rest) + 1 /\ j + 1 \in 1 .. Len(rest) + 1
         /\ o[j] \in 1 .. Len(l) /\ o[j] \in 1 .. Len(l) + 1 /\ o[j] + 1 \in 1 .. Len(l) + 1
         /\ \A a \in 1 .. Len(rest) : (j <= a <=> o[j] <= o[a]) /\ (j + 1 <= a <=> o[j] + 1 <= o[a])
<1>1. Len(l) \in Nat /\ Len(rest) \in Nat /\ \A a \in 1 .. Len(rest) : o[a] \in 1 .. Len(l)
  BY LenProperties DEF Sifted
<1>2. ASSUME NEW a \in 1 .. Len(rest)
      PROVE  (j <= a <=> o[j] <= o[a]) /\ (j + 1 <= a <=> o[j] + 1 <= o[a])
  <2>1. (j < a => o[j] < o[a]) /\ (a < j => o[a] < o[j]) /\ (a = j => o[a] = o[j])
    BY DEF Sifted
  <2>2. o[j] \in Int /\ o[a] \in Int
    BY <1>1
  <2>. QED
    BY <2>1, <2>2
<1>3. o[j] \in 1 .. Len(l) + 1 /\ o[j] + 1 \in 1 .. Len(l) + 1
  BY <1>1
<1>. QED
  BY <1>1, <1>2, <1>3

(* The list a completed erase request keeps; every node of the sector but    *)
(* the one in flight is gone from it.                                        *)
LEMMA RestFits ==
  ASSUME NEW r \in ModuleRec, Flown(r), NEW s \in Sectors, NEW rest, NEW o, LeftOf(rest, o, r, s),
         \A j \in 1 .. Len(rest) : ~ rest[j].freed, NEW x, NEW e, Good(r.list, x, e)
  PROVE  /\ \A j \in 1 .. Len(rest) : Fits(rest, x, j)
         /\ \A t \in Sectors \ {s}, c \in Cells : \A b :
              b \in e[t][c] <=> Shows(rest, x, 1, t, c, b)
         /\ \A j \in 1 .. Len(rest) : rest[j].addr = s => o[j] = Len(r.list) /\ r.list[Len(r.list)].lock
         /\ Kept(r.list, s) = 1 .. Len(r.list) \ Matches(r.list, s)
<1>. DEFINE l == r.list  I == Kept(l, s)
<1>1. l \in Seq(Node) /\ Len(l) \in Nat /\ \A i \in 1 .. Len(l) : l[i] \in Node
  BY ModuleTypes
<1>2. /\ Sifted(rest, o, l, I)
      /\ \A j \in 1 .. Len(rest) : o[j] \in I /\ rest[j].freed = (o[j] \in Missed(l, s))
  BY DEF LeftOf
<1>3. /\ Matches(l, s) \subseteq 1 .. Len(l) /\ Missed(l, s) \subseteq Matches(l, s)
      /\ \A i \in 1 .. Len(l) : i \in Matches(l, s) <=> l[i].addr = s /\ ~ l[i].lock
  BY <1>1, MatchesAre
<1>4. \A i \in 1 .. Len(l) : i \notin Missed(l, s)
  <2>. SUFFICES ASSUME NEW i \in 1 .. Len(l), i \in Missed(l, s) PROVE FALSE
    OBVIOUS
  <2>1. i \in I
    BY DEF Kept
  <2>2. PICK j \in 1 .. Len(rest) : o[j] = i
    BY <1>2, <2>1 DEF Sifted
  <2>. QED
    BY <1>2, <2>2
<1>5. I = 1 .. Len(l) \ Matches(l, s)
  BY <1>3, <1>4 DEF Kept
<1>6. \A i \in I : i \in 1 .. Len(l) /\ (l[i].addr = s => i = Len(l) /\ l[i].lock)
  BY <1>3, <1>5 DEF Flown
<1>7. \A i \in 1 .. Len(l) : i \in I \/ l[i].addr = s
  BY <1>3, <1>5
<1>8. \A j \in 1 .. Len(rest) : Same(rest[j], l[o[j]])
  BY <1>2 DEF Sifted, Same
<1>. HIDE DEF I, l
<1>9. ASSUME NEW j \in 1 .. Len(rest) PROVE Fits(rest, x, j)
  <2>. DEFINE t == l[o[j]].addr
  <2>1. /\ j \in 1 .. Len(rest) + 1 /\ j + 1 \in 1 .. Len(rest) + 1
        /\ o[j] \in 1 .. Len(l) /\ o[j] \in 1 .. Len(l) + 1 /\ o[j] + 1 \in 1 .. Len(l) + 1
        /\ \A a \in 1 .. Len(rest) : (j <= a <=> o[j] <= o[a]) /\ (j + 1 <= a <=> o[j] + 1 <= o[a])
    BY <1>1, <1>2, SiftedOrder
  <2>2. \A i \in o[j] .. Len(l) : i \in 1 .. Len(l) /\ (i = Len(l) => i = o[j] \/ i # o[j])
    BY <1>1, <2>1
  <2>3. ASSUME NEW i \in o[j] .. Len(l) PROVE i \in I \/ l[i].addr # t
    <3>1. CASE t # s
      BY <1>7, <2>2, <3>1
    <3>2. CASE t = s
      <4>1. o[j] = Len(l)
        BY <1>2, <1>6, <3>2
      <4>2. i = o[j]
        BY <1>1, <4>1
      <4>. QED
        BY <1>2, <4>2
    <3>. QED
      BY <3>1, <3>2
  <2>4. \A i \in o[j] + 1 .. Len(l) : i \in o[j] .. Len(l)
    BY <1>1, <2>1
  <2>. HIDE DEF t
  <2>8. /\ \A a \in 1 .. Len(rest) : j <= a <=> o[j] <= o[a]
        /\ \A a \in 1 .. Len(rest) : j + 1 <= a <=> o[j] + 1 <= o[a]
    BY <2>1
  <2>9. /\ \A i \in o[j] .. Len(l) : i \in I \/ l[i].addr # t
        /\ \A i \in o[j] + 1 .. Len(l) : i \in I \/ l[i].addr # t
    BY <2>3, <2>4
  <2>. DEFINE p == o[j]  q == o[j] + 1  k == j + 1
  <2>10. p \in 1 .. Len(l) + 1 /\ q \in 1 .. Len(l) + 1 /\ k \in 1 .. Len(rest) + 1 /\ j \in 1 .. Len(rest) + 1
         /\ (\A a \in 1 .. Len(rest) : j <= a <=> p <= o[a])
         /\ (\A a \in 1 .. Len(rest) : k <= a <=> q <= o[a])
         /\ (\A i \in p .. Len(l) : i \in I \/ l[i].addr # t)
         /\ (\A i \in q .. Len(l) : i \in I \/ l[i].addr # t)
    BY <2>1, <2>8, <2>9
  <2>. HIDE DEF p, q, k
  <2>5. \A c, b : Shows(rest, x, j, t, c, b) <=> Shows(l, x, p, t, c, b)
    BY <1>1, <1>2, <2>10, SiftedShows
  <2>6. \A c, b : Shows(rest, x, k, t, c, b) <=> Shows(l, x, q, t, c, b)
    BY <1>1, <1>2, <2>10, SiftedShows
  <2>7. Fits(l, x, o[j])
    BY <2>1 DEF Good, l
  <2>. QED
    BY <1>8, <2>5, <2>6, <2>7, FitsMoves DEF t, p, q, k
<1>10. ASSUME NEW t \in Sectors \ {s}, NEW c \in Cells, NEW b
       PROVE  b \in e[t][c] <=> Shows(rest, x, 1, t, c, b)
  <2>1. \A i \in 1 .. Len(l) : i \in I \/ l[i].addr # t
    BY <1>7
  <2>2. 1 \in 1 .. Len(rest) + 1 /\ 1 \in 1 .. Len(l) + 1 /\ \A j \in 1 .. Len(rest) : 1 <= j <=> 1 <= o[j]
    <3>1. o \in [1 .. Len(rest) -> 1 .. Len(l)] /\ Len(rest) \in Nat
      BY <1>2 DEF Sifted
    <3>2. \A j \in 1 .. Len(rest) : o[j] \in 1 .. Len(l)
      BY <3>1
    <3>. QED
      BY <1>1, <3>1, <3>2
  <2>3. Shows(rest, x, 1, t, c, b) <=> Shows(l, x, 1, t, c, b)
    BY <1>1, <1>2, <2>1, <2>2, SiftedShows
  <2>. QED
    BY <2>3 DEF Good, AddsUpTo, l
<1>11. ASSUME NEW j \in 1 .. Len(rest), rest[j].addr = s PROVE o[j] = Len(l) /\ l[Len(l)].lock
  <2>1. o[j] \in I /\ l[o[j]].addr = s
    BY <1>2, <1>8, <1>11 DEF Same, Alike
  <2>. QED
    BY <1>6, <2>1
<1>. QED
  BY <1>5, <1>9, <1>10, <1>11 DEF l, I

-----------------------------------------------------------------------------
(* The content accepted after an erase of one sector *)
LEMMA ErasedSector ==
  ASSUME EraseLens = {1}, NEW s \in Sectors, NEW len \in EraseLens, NEW e \in Contents
  PROVE  LET d == Effect([type |-> "E", addr |-> s, len |-> len], e)
         IN  \A t \in Sectors, c \in Cells : \A b : b \in d[t][c] <=> t # s /\ b \in e[t][c]
<1>. DEFINE n == [type |-> "E", addr |-> s, len |-> len]
<1>1. n.type = "E" /\ n.addr = s /\ n.len = 1
  OBVIOUS
<1>. HIDE DEF n
<1>2. ASSUME NEW t \in Sectors PROVE Effect(n, e)[t] = IF t = s THEN Erased ELSE e[t]
  <2>1. s \in Int /\ t \in Int
    BY Sizes
  <2>2. t \in n.addr .. n.addr + n.len - 1 <=> t = s
    BY <1>1, <2>1
  <2>. QED
    BY <1>1, <2>2 DEF Effect
<1>. QED
  BY <1>2, ErasedIs DEF n

(* An erase request, complete unless it left a node it could not unlink *)
LEMMA GoodErase ==
  ASSUME EraseLens = {1}, NEW r \in ModuleRec, Flown(r), Own(r.list), FreeSlots \subseteq Slots,
         NEW s \in Sectors, NEW len \in EraseLens, NEW x, NEW e \in Contents, Good(r.list, x, e),
         LET l == EOperaAdd(r.list, s, len).list IN \A i \in 1 .. Len(l) : ~ l[i].freed
  PROVE  LET q == EOperaAdd(r.list, s, len)
         IN  Good(q.list, x, IF q.ok THEN Effect([type |-> "E", addr |-> s, len |-> len], e) ELSE e)
<1>. DEFINE list == r.list  rest == EraseRest(list, s)  free == EraseFree(list, s)
            n == EraseNode(Least(free), s, len)  cons == <<n>> \o rest
            q == EOperaAdd(list, s, len)
            d == Effect([type |-> "E", addr |-> s, len |-> len], e)
<1>1. list \in Seq(Node) /\ Len(list) \in Nat /\ \A i \in 1 .. Len(list) : list[i] \in Node
  BY ModuleTypes
<1>2. PICK o : LeftOf(rest, o, r, s)
  <2>. HIDE DEF list
  <2>1. \E o : LeftOf(EraseRest(r.list, s), o, r, s)
    BY EraseRestHolds
  <2>. QED
    BY <2>1 DEF list
<1>3. q = IF EraseUnderWay(list, s) THEN [list |-> rest, ok |-> TRUE]
          ELSE IF free = {} THEN [list |-> rest, ok |-> FALSE]
          ELSE [list |-> cons, ok |-> TRUE]
  BY <1>1, EraseIs
<1>4. \A i \in 1 .. Len(q.list) : ~ q.list[i].freed
  OBVIOUS
<1>5. /\ Sifted(rest, o, list, Kept(list, s)) /\ rest \in Seq(Node) /\ Len(rest) \in Nat
      /\ \A j \in 1 .. Len(rest) : rest[j] \in Node /\ o[j] \in 1 .. Len(list) /\ Same(rest[j], list[o[j]])
  BY <1>2 DEF LeftOf, Sifted, Same
<1>6. free # {} => n \in Node /\ n.type = "E" /\ n.addr = s
  <2>1. ASSUME free # {} PROVE Least(free) \in Slots
    <3>1. \A i \in Matches(list, s) : i \in 1 .. Len(list) /\ list[i].slot \in Slots
      BY <1>1, MatchesAre, NodeFields
    <3>2. free \subseteq Slots
      BY <3>1 DEF EraseFree
    <3>. QED
      BY <2>1, <3>2, LeastIs
  <2>. QED
    BY <2>1, EraseNodeIs
<1>7. \A t \in Sectors, c \in Cells : \A b : b \in d[t][c] <=> t # s /\ b \in e[t][c]
  BY ErasedSector
<1>8. Good(r.list, x, e)
  OBVIOUS
<1>9. ASSUME \A j \in 1 .. Len(rest) : ~ rest[j].freed
      PROVE  /\ \A j \in 1 .. Len(rest) : Fits(rest, x, j)
             /\ \A t \in Sectors \ {s}, c \in Cells : \A b :
                  b \in e[t][c] <=> Shows(rest, x, 1, t, c, b)
             /\ \A j \in 1 .. Len(rest) : rest[j].addr = s => o[j] = Len(list) /\ list[Len(list)].lock
             /\ Kept(list, s) = 1 .. Len(list) \ Matches(list, s)
  <2>. HIDE DEF rest, list
  <2>. QED
    BY <1>2, <1>8, <1>9, RestFits DEF list
<1>. HIDE DEF rest, n, q, d, free
<1>10. CASE EraseUnderWay(list, s)
  <2>1. q.list = rest /\ q.ok
    BY <1>3, <1>10
  <2>2. \A j \in 1 .. Len(rest) : ~ rest[j].freed
    BY <1>4, <2>1
  <2>3. PICK i \in 1 .. Len(list) : list[i].addr = s /\ list[i].lock /\ list[i].type = "E"
    BY <1>1, <1>10, SeqDomain DEF EraseUnderWay
  <2>4. i = Len(list)
    BY <2>3 DEF Flown
  <2>5. i \in Kept(list, s)
    <3>1. i \notin Matches(list, s)
      BY <1>1, <2>3, MatchesAre
    <3>. QED
      BY <3>1 DEF Kept
  <2>6. PICK k \in 1 .. Len(rest) : o[k] = i
    BY <1>5, <2>5 DEF Sifted
  <2>7. Wipes(rest[k], s)
    BY <1>5, <2>3, <2>6 DEF Wipes, Same, Alike
  <2>8. ASSUME NEW j \in 1 .. Len(rest), NEW c, NEW b PROVE ~ Sets(rest[j], s, c, b)
    <3>1. rest[j].addr = s => o[j] = i
      BY <1>9, <2>2, <2>4
    <3>2. rest[j].addr = s => rest[j].type = "E"
      BY <1>5, <2>3, <3>1 DEF Same, Alike
    <3>. QED
      BY <3>2 DEF Sets
  <2>9. \A c, b : ~ Shows(rest, x, 1, s, c, b)
    BY <2>7, <2>8 DEF Shows
  <2>10. AddsUpTo(rest, x, d)
    BY <1>7, <1>9, <2>2, <2>9 DEF AddsUpTo
  <2>11. Good(rest, x, d)
    BY <1>9, <2>2, <2>10 DEF Good
  <2>. QED
    BY <2>1, <2>11 DEF q, d
<1>11. CASE ~ EraseUnderWay(list, s) /\ free = {}
  <2>1. q.list = rest /\ ~ q.ok
    BY <1>3, <1>11
  <2>2. \A j \in 1 .. Len(rest) : ~ rest[j].freed
    BY <1>4, <2>1
  <2>3. Matches(list, s) \ Missed(list, s) = {}
    BY <1>11 DEF free, EraseFree
  <2>4. Kept(list, s) = 1 .. Len(list)
    BY <2>3 DEF Kept
  <2>5. ASSUME NEW t \in Sectors, NEW c \in Cells, NEW b
        PROVE  b \in e[t][c] <=> Shows(rest, x, 1, t, c, b)
    <3>1. \A a \in 1 .. Len(list) : a \in Kept(list, s) \/ list[a].addr # t
      BY <2>4
    <3>2. 1 \in 1 .. Len(rest) + 1 /\ 1 \in 1 .. Len(list) + 1 /\ \A j \in 1 .. Len(rest) : 1 <= j <=> 1 <= o[j]
      BY <1>1, <1>5
    <3>. HIDE DEF list
    <3>3. Shows(rest, x, 1, t, c, b) <=> Shows(list, x, 1, t, c, b)
      BY <1>1, <1>5, <3>1, <3>2, SiftedShows
    <3>. QED
      BY <1>8, <3>3 DEF Good, AddsUpTo, list
  <2>6. Good(rest, x, e)
    BY <1>9, <2>2, <2>5 DEF Good, AddsUpTo
  <2>. QED
    BY <2>1, <2>6 DEF q
<1>12. CASE ~ EraseUnderWay(list, s) /\ free # {}
  <2>1. q.list = cons /\ q.ok
    BY <1>3, <1>12
  <2>2. n \in Node /\ n.type = "E" /\ n.addr = s
    BY <1>6, <1>12
  <2>3. Len(cons) = Len(rest) + 1 /\ \A i \in 1 .. Len(rest) + 1 : cons[i] = IF i = 1 THEN n ELSE rest[i - 1]
    BY <1>5, <2>2, ConsPlaces
  <2>4. \A j \in 1 .. Len(rest) : j + 1 \in 1 .. Len(rest) + 1 /\ j + 1 # 1 /\ (j + 1) - 1 = j
    BY <1>5
  <2>5. \A j \in 1 .. Len(rest) : ~ rest[j].freed
    BY <1>4, <2>1, <2>3, <2>4
  <2>6. ASSUME NEW i \in 1 .. Len(cons) PROVE Fits(cons, x, i)
    <3>1. CASE i = 1
      <4>1. cons[i].type # "W"
        BY <2>2, <2>3, <3>1
      <4>. QED
        BY <4>1 DEF Fits
    <3>2. CASE i # 1
      <4>. DEFINE j == i - 1
      <4>1. j \in 1 .. Len(rest) /\ j + 1 = i
        BY <1>5, <2>3, <3>2
      <4>. HIDE DEF j
      <4>2. Fits(cons, x, j + 1)
        BY <1>5, <1>9, <2>2, <2>5, <4>1, ConsFits
      <4>. QED
        BY <4>1, <4>2
    <3>. QED
      BY <3>1, <3>2
  <2>7. ASSUME NEW t \in Sectors, NEW c \in Cells, NEW b
        PROVE  b \in d[t][c] <=> Shows(cons, x, 1, t, c, b)
    <3>1. cons[1] = n /\ 1 \in 1 .. Len(cons) /\ Len(cons) \in Nat /\ 1 \in 1 .. Len(rest) + 1
      BY <1>5, <2>3
    <3>2. Shows(cons, x, 1 + 1, t, c, b) <=> Shows(rest, x, 1, t, c, b)
      BY <1>5, <2>2, <3>1, ConsShows
    <3>. HIDE DEF cons
    <3>3. Shows(cons, x, 1, t, c, b) <=>
             Sets(n, t, c, b) \/ (~ Wipes(n, t) /\ Shows(cons, x, 1 + 1, t, c, b))
      BY <3>1, ShowsStep
    <3>4. ~ Sets(n, t, c, b) /\ (Wipes(n, t) <=> t = s)
      BY <2>2 DEF Sets, Wipes
    <3>5. t # s => (b \in e[t][c] <=> Shows(rest, x, 1, t, c, b))
      BY <1>9, <2>5
    <3>. QED
      BY <1>7, <3>2, <3>3, <3>4, <3>5
  <2>. HIDE DEF cons
  <2>8. Good(cons, x, d)
    BY <2>6, <2>7 DEF Good, AddsUpTo
  <2>. QED
    BY <2>1, <2>8 DEF q, d
<1>. QED
  BY <1>10, <1>11, <1>12

-----------------------------------------------------------------------------
(* Operations on other sectors are passed over. *)
LEMMA ShowsSkip ==
  ASSUME NEW l, Len(l) \in Nat, NEW h \in 1 .. Len(l) + 1, NEW p \in 1 .. h, NEW s,
         \A i \in p .. h - 1 : l[i].addr # s, NEW x, NEW c, NEW b
  PROVE  Shows(l, x, p, s, c, b) <=> Shows(l, x, h, s, c, b)
<1>1. \A i \in p .. h - 1 : ~ Sets(l[i], s, c, b) /\ ~ Wipes(l[i], s)
  BY DEF Sets, Wipes
<1>2. /\ \A i \in p .. Len(l) : i \in p .. h - 1 \/ i \in h .. Len(l)
      /\ \A i \in h .. Len(l) : i \in p .. Len(l)
      /\ \A i \in h .. Len(l) : \A j \in p .. i - 1 : j \in p .. h - 1 \/ j \in h .. i - 1
      /\ \A i \in h .. Len(l) : \A j \in h .. i - 1 : j \in p .. i - 1
  OBVIOUS
<1>3. (\A j \in p .. Len(l) : ~ Wipes(l[j], s)) <=> (\A j \in h .. Len(l) : ~ Wipes(l[j], s))
  BY <1>1, <1>2
<1>4. ASSUME NEW i \in h .. Len(l)
      PROVE  (\A j \in p .. i - 1 : ~ Wipes(l[j], s)) <=> (\A j \in h .. i - 1 : ~ Wipes(l[j], s))
  BY <1>1, <1>2
<1>5. (\E i \in p .. Len(l) : Sets(l[i], s, c, b) /\ \A j \in p .. i - 1 : ~ Wipes(l[j], s))
      <=> (\E i \in h .. Len(l) : Sets(l[i], s, c, b) /\ \A j \in h .. i - 1 : ~ Wipes(l[j], s))
  BY <1>1, <1>2, <1>4
<1>. QED
  BY <1>3, <1>5 DEF Shows

(* Operations that do the same from a place on *)
LEMMA ShowsSame ==
  ASSUME NEW l, NEW k, Len(l) \in Nat, Len(k) = Len(l), NEW p \in 1 .. Len(l) + 1, NEW s, NEW c, NEW b, NEW x,
         \A i \in p .. Len(l) : /\ Sets(k[i], s, c, b) <=> Sets(l[i], s, c, b)
                                /\ Wipes(k[i], s) <=> Wipes(l[i], s)
  PROVE  Shows(k, x, p, s, c, b) <=> Shows(l, x, p, s, c, b)
<1>1. /\ \A i \in p .. Len(l) : \A j \in p .. i - 1 : j \in p .. Len(l)
  OBVIOUS
<1>2. ASSUME NEW i \in p .. Len(l)
      PROVE  (\A j \in p .. i - 1 : ~ Wipes(k[j], s)) <=> (\A j \in p .. i - 1 : ~ Wipes(l[j], s))
  BY <1>1
<1>. QED
  BY <1>1, <1>2 DEF Shows

(* Place h is the first of sector s in the list. *)
FirstOf(l, s, h) == h \in 1 .. Len(l) /\ l[h].addr = s /\ \A j \in 1 .. h - 1 : l[j].addr # s

(* Before the node a write request is merged into there is none of the sector. *)
LEMMA HitIsFirst ==
  ASSUME NEW r \in ModuleRec, Flown(r), NEW s
  PROVE  \A h \in WriteHit(r.list, s) : FirstOf(r.list, s, h)
<1>. SUFFICES ASSUME NEW h \in WriteHit(r.list, s) PROVE FirstOf(r.list, s, h)
  OBVIOUS
<1>1. r.list \in Seq(Node) /\ Len(r.list) \in Nat
  BY ModuleTypes
<1>2. /\ h \in 1 .. Len(r.list) /\ r.list[h].addr = s
      /\ \A j \in 1 .. Len(r.list) :
           r.list[j].addr = s /\ ~ (r.list[j].type = "W" /\ r.list[j].lock) => h <= j
  BY <1>1, WriteHitIs
<1>3. ASSUME NEW j \in 1 .. h - 1, r.list[j].addr = s PROVE FALSE
  <2>1. j \in 1 .. Len(r.list) /\ j < h /\ j # Len(r.list) /\ ~ (h <= j)
    BY <1>1, <1>2
  <2>2. ~ r.list[j].lock
    BY <2>1 DEF Flown
  <2>. QED
    BY <1>2, <1>3, <2>1, <2>2
<1>. QED
  BY <1>2, <1>3 DEF FirstOf

(* The content accepted after a write *)
Written(e, s, from, to, v) == [e EXCEPT ![s] = Overlay(@, from, to, v)]

(* Cell by cell *)
LEMMA WrittenIs ==
  ASSUME NEW e \in Contents, NEW s \in Sectors, NEW from, NEW to, NEW v \in SUBSET Bits
  PROVE  \A t \in Sectors, c \in Cells :
           Written(e, s, from, to, v)[t][c] = IF t = s /\ c \in from .. to - 1 THEN v ELSE e[t][c]
<1>1. e[s] \in Sector
  BY DEF Contents
<1>2. \A c \in Cells : Overlay(e[s], from, to, v)[c] = IF c \in from .. to - 1 THEN v ELSE e[s][c]
  BY <1>1, OverlayIs
<1>3. \A t \in Sectors : Written(e, s, from, to, v)[t] = IF t = s THEN Overlay(e[s], from, to, v) ELSE e[t]
  BY DEF Written, Contents
<1>. QED
  BY <1>2, <1>3

(* A new write, put before the list *)
LEMMA GoodNewWrite ==
  ASSUME NEW r \in ModuleRec, Flown(r), NEW s \in Sectors, NEW from \in Cells,
         NEW to \in 1 .. Cardinality(Cells), NEW v \in SUBSET Bits, NEW x \in Contents, NEW e \in Contents,
         Good(r.list, x, e), \A c \in from .. to - 1 : e[s][c] \subseteq v,
         \A h \in WriteHit(r.list, s) : r.list[h].type # "W",
         NEW n \in Node, n.type = "W", n.addr = s, n.from = from, n.to = to,
         n.data = Overlay(IF WriteHit(r.list, s) = {} THEN x[s] ELSE Erased, from, to, v),
         n.stale = (WriteHit(r.list, s) = {} /\ Of(r.list, s) # {})
  PROVE  Good(<<n>> \o r.list, x, Written(e, s, from, to, v))
<1>. DEFINE l == r.list  k == <<n>> \o l  d == Written(e, s, from, to, v)
            hit == WriteHit(l, s)  base == IF hit = {} THEN x[s] ELSE Erased
<1>0. \A h \in WriteHit(r.list, s) : FirstOf(r.list, s, h)
  BY HitIsFirst
<1>1. l \in Seq(Node) /\ Len(l) \in Nat /\ (\A i \in 1 .. Len(l) : l[i] \in Node) /\ DOMAIN l = 1 .. Len(l)
  BY ModuleTypes
<1>2. Len(k) = Len(l) + 1 /\ \A i \in 1 .. Len(l) + 1 : k[i] = IF i = 1 THEN n ELSE l[i - 1]
  BY <1>1, ConsPlaces
<1>3. \A c \in Cells : n.data[c] = IF c \in from .. to - 1 THEN v ELSE base[c]
  <2>1. base \in Sector
    BY ErasedIs DEF Contents
  <2>. QED
    BY <2>1, OverlayIs
<1>4. \A t \in Sectors, c \in Cells : d[t][c] = IF t = s /\ c \in from .. to - 1 THEN v ELSE e[t][c]
  BY WrittenIs
<1>5. \A t \in Sectors, c \in Cells : \A b : b \in e[t][c] <=> Shows(l, x, 1, t, c, b)
  BY DEF Good, AddsUpTo
<1>6. ASSUME NEW c, NEW b
      PROVE  /\ b \in base[c] /\ c \in Cells => Shows(l, x, 1, s, c, b)
             /\ ~ n.stale /\ c \in Cells => (b \in base[c] <=> Shows(l, x, 1, s, c, b))
  <2>1. CASE hit = {}
    <3>1. \A j \in 1 .. Len(l) : ~ Wipes(l[j], s)
      BY <1>1, <2>1, WriteHitIs DEF Wipes
    <3>2. b \in x[s][c] => Shows(l, x, 1, s, c, b)
      BY <3>1 DEF Shows
    <3>3. Of(l, s) = {} => \A j \in 1 .. Len(l) : ~ Sets(l[j], s, c, b)
      BY <1>1 DEF Of, Sets
    <3>4. Of(l, s) = {} => (Shows(l, x, 1, s, c, b) <=> b \in x[s][c])
      BY <3>1, <3>3 DEF Shows
    <3>. QED
      BY <2>1, <3>2, <3>4
  <2>2. CASE hit # {}
    <3>1. PICK h : h \in hit
      BY <2>2
    <3>2. h \in 1 .. Len(l) /\ l[h].addr = s /\ (\A j \in 1 .. h - 1 : l[j].addr # s) /\ l[h].type = "E"
      <4>1. h \in 1 .. Len(l) /\ l[h].addr = s /\ \A j \in 1 .. h - 1 : l[j].addr # s
        BY <1>0, <3>1 DEF FirstOf
      <4>2. l[h].type # "W"
        BY <3>1
      <4>3. l[h].type \in {"W", "E"}
        BY <1>1, <4>1, NodeFields
      <4>. QED
        BY <4>1, <4>2, <4>3
    <3>3. h \in 1 .. Len(l) + 1 /\ 1 \in 1 .. h
      BY <1>1, <3>2
    <3>. HIDE DEF l
    <3>4. Shows(l, x, 1, s, c, b) <=> Shows(l, x, h, s, c, b)
      BY <1>1, <3>2, <3>3, ShowsSkip
    <3>5. Shows(l, x, h, s, c, b) <=>
            Sets(l[h], s, c, b) \/ (~ Wipes(l[h], s) /\ Shows(l, x, h + 1, s, c, b))
      BY <1>1, <3>2, ShowsStep
    <3>6. ~ Sets(l[h], s, c, b) /\ Wipes(l[h], s)
      BY <3>2 DEF Sets, Wipes
    <3>7. c \in Cells => b \notin base[c]
      BY <2>2, ErasedIs
    <3>. QED
      BY <3>4, <3>5, <3>6, <3>7
  <2>. QED
    BY <2>1, <2>2
<1>7. \A t, c, b : Shows(k, x, 1, t, c, b) <=> Sets(n, t, c, b) \/ Shows(l, x, 1, t, c, b)
  <2>. SUFFICES ASSUME NEW t, NEW c, NEW b
                PROVE  Shows(k, x, 1, t, c, b) <=> Sets(n, t, c, b) \/ Shows(l, x, 1, t, c, b)
    OBVIOUS
  <2>1. k[1] = n /\ 1 \in 1 .. Len(k) /\ Len(k) \in Nat /\ 1 \in 1 .. Len(l) + 1
    BY <1>1, <1>2
  <2>2. Shows(k, x, 1 + 1, t, c, b) <=> Shows(l, x, 1, t, c, b)
    BY <1>1, <2>1, ConsShows
  <2>. HIDE DEF k
  <2>3. Shows(k, x, 1, t, c, b) <=> Sets(n, t, c, b) \/ (~ Wipes(n, t) /\ Shows(k, x, 1 + 1, t, c, b))
    BY <2>1, ShowsStep
  <2>. QED
    BY <2>2, <2>3 DEF Wipes
<1>8. \A c, b : Shows(k, x, 2, s, c, b) <=> Shows(l, x, 1, s, c, b)
  <2>1. 1 \in 1 .. Len(l) + 1 /\ 1 + 1 = 2
    BY <1>1
  <2>2. \A c, b : Shows(k, x, 1 + 1, s, c, b) <=> Shows(l, x, 1, s, c, b)
    BY <1>1, <2>1, ConsShows
  <2>. QED
    BY <2>1, <2>2
<1>9. ASSUME NEW t \in Sectors, NEW c \in Cells, NEW b
      PROVE  b \in d[t][c] <=> Shows(k, x, 1, t, c, b)
  <2>1. Sets(n, t, c, b) <=> t = s /\ c \in from .. to - 1 /\ b \in v
    BY <1>3 DEF Sets
  <2>2. CASE t = s /\ c \in from .. to - 1
    <3>1. b \in e[t][c] => b \in v
      BY <2>2
    <3>. HIDE DEF k, d, l
    <3>. QED
      BY <1>4, <1>5, <1>7, <2>1, <2>2, <3>1
  <2>3. CASE ~ (t = s /\ c \in from .. to - 1)
    <3>. HIDE DEF k, d, l
    <3>. QED
      BY <1>4, <1>5, <1>7, <2>1, <2>3
  <2>. QED
    BY <2>2, <2>3
<1>10. Fits(k, x, 1)
  <2>1. 1 \in 1 .. Len(l) + 1
    BY <1>1
  <2>2. k[1] = n
    BY <1>2, <2>1
  <2>3. ASSUME NEW c \in Cells, NEW b
        PROVE  /\ c \notin from .. to - 1 /\ b \in n.data[c] => Shows(k, x, 2, s, c, b)
               /\ ~ n.stale => (b \in n.data[c] <=> Shows(k, x, 1, s, c, b))
    <3>. HIDE DEF k, d, l, base, hit
    <3>1. b \in d[s][c] <=> Shows(k, x, 1, s, c, b)
      BY <1>9
    <3>2. d[s][c] = IF c \in from .. to - 1 THEN v ELSE e[s][c]
      BY <1>4
    <3>3. n.data[c] = IF c \in from .. to - 1 THEN v ELSE base[c]
      BY <1>3
    <3>. QED
      BY <1>5, <1>6, <1>8, <3>1, <3>2, <3>3
  <2>4. 1 + 1 = 2
    OBVIOUS
  <2>. HIDE DEF k
  <2>. QED
    BY <2>2, <2>3, <2>4 DEF Fits
<1>11. ASSUME NEW i \in 1 .. Len(k) PROVE Fits(k, x, i)
  <2>1. CASE i = 1
    BY <1>10, <2>1
  <2>2. CASE i # 1
    <3>. DEFINE j == i - 1
    <3>1. j \in 1 .. Len(l) /\ j + 1 = i
      BY <1>1, <1>2, <2>2
    <3>2. Fits(l, x, j)
      BY <3>1 DEF Good
    <3>. HIDE DEF j, l
    <3>3. Fits(k, x, j + 1)
      BY <1>1, <3>1, <3>2, ConsFits
    <3>. QED
      BY <3>1, <3>3
  <2>. QED
    BY <2>1, <2>2
<1>. HIDE DEF k, d
<1>12. Good(k, x, d)
  BY <1>9, <1>11 DEF Good, AddsUpTo
<1>. QED
  BY <1>12 DEF k, d

-----------------------------------------------------------------------------
(* The range of a node another write was merged into covers both. *)
LEMMA HullIs ==
  ASSUME NEW a \in Cells, NEW f \in Cells, NEW z \in 1 .. Cardinality(Cells), NEW t \in 1 .. Cardinality(Cells),
         NEW from, from = (IF a <= f THEN a ELSE f), NEW to, to = (IF z >= t THEN z ELSE t)
  PROVE  \A c \in Cells : c \notin from .. to - 1 => c \notin a .. z - 1 /\ c \notin f .. t - 1
<1>1. a \in Nat /\ f \in Nat /\ z \in Nat /\ t \in Nat /\ \A c \in Cells : c \in Nat
  BY Sizes
<1>. QED
  BY <1>1

(* A write merged into the pending one it finds first *)
LEMMA GoodMerge ==
  ASSUME NEW r \in ModuleRec, Flown(r), NEW s \in Sectors, NEW from \in Cells,
         NEW to \in 1 .. Cardinality(Cells), NEW v \in SUBSET Bits, NEW x \in Contents, NEW e \in Contents,
         Good(r.list, x, e), \A c \in from .. to - 1 : e[s][c] \subseteq v,
         NEW i \in WriteHit(r.list, s), r.list[i].type = "W"
  PROVE  Good([r.list EXCEPT ![i] = Merged(r.list[i], from, to, v)], x, Written(e, s, from, to, v))
<1>. DEFINE l == r.list  n == l[i]  z == Merged(n, from, to, v)  k == [l EXCEPT ![i] = z]
            d == Written(e, s, from, to, v)
<1>1. l \in Seq(Node) /\ Len(l) \in Nat /\ (\A j \in 1 .. Len(l) : l[j] \in Node)
  BY ModuleTypes
<1>2. i \in 1 .. Len(l) /\ n.addr = s /\ (\A j \in 1 .. i - 1 : l[j].addr # s) /\ n.type = "W"
  BY HitIsFirst DEF FirstOf
<1>3. n \in Node
  BY <1>1, <1>2
<1>4. /\ z \in Node /\ Alike(z, n) /\ z.data = Overlay(n.data, from, to, v)
      /\ z.from = (IF n.from <= from THEN n.from ELSE from)
      /\ z.to = (IF n.to >= to THEN n.to ELSE to)
  BY <1>3, MergedIs
<1>. HIDE DEF z
<1>5. k \in Seq(Node) /\ Len(k) = Len(l) /\ \A j \in 1 .. Len(l) : k[j] = IF j = i THEN z ELSE l[j]
  BY <1>1, <1>2, <1>4, ExceptSeq
<1>6. z.type = "W" /\ z.addr = s /\ z.stale = n.stale
  BY <1>2, <1>4 DEF Alike
<1>7. \A c \in Cells : z.data[c] = IF c \in from .. to - 1 THEN v ELSE n.data[c]
  <2>. HIDE DEF n
  <2>1. n.data \in Sector
    BY <1>3, NodeFields
  <2>2. \A c \in Cells : Overlay(n.data, from, to, v)[c] = IF c \in from .. to - 1 THEN v ELSE n.data[c]
    BY <2>1, OverlayIs
  <2>. QED
    BY <1>4, <2>2
<1>8. \A c \in Cells : c \notin z.from .. z.to - 1 => c \notin n.from .. n.to - 1 /\ c \notin from .. to - 1
  <2>. HIDE DEF n
  <2>1. n.from \in Cells /\ n.to \in 1 .. Cardinality(Cells)
    BY <1>3, NodeFields
  <2>. QED
    BY <1>4, <2>1, HullIs
<1>9. \A t \in Sectors, c \in Cells : d[t][c] = IF t = s /\ c \in from .. to - 1 THEN v ELSE e[t][c]
  BY WrittenIs
<1>10. AddsUpTo(l, x, e) /\ \A j \in 1 .. Len(l) : Fits(l, x, j)
  BY DEF Good
<1>11. \A c \in from .. to - 1 : e[s][c] \subseteq v
  OBVIOUS
<1>. HIDE DEF k, d, n, l
<1>12. /\ i \in 1 .. Len(l) + 1 /\ i + 1 \in 1 .. Len(l) + 1 /\ 1 \in 1 .. i /\ i \in 1 .. Len(k)
       /\ \A p \in i + 1 .. Len(l) + 1 : p \in 1 .. Len(l) + 1
       /\ \A p \in i + 1 .. Len(l) + 1 : \A j \in p .. Len(l) : j \in 1 .. Len(l) /\ j # i
       /\ \A j \in 1 .. i - 1 : j \in 1 .. Len(l) /\ j # i
       /\ \A p \in 1 .. Len(l) + 1 : \A j \in p .. Len(l) : j \in 1 .. Len(l)
  BY <1>1, <1>2, <1>5
<1>13. ASSUME NEW p \in i + 1 .. Len(l) + 1, NEW t, NEW c, NEW b
       PROVE  Shows(k, x, p, t, c, b) <=> Shows(l, x, p, t, c, b)
  <2>1. p \in 1 .. Len(l) + 1 /\ \A j \in p .. Len(l) : j \in 1 .. Len(l) /\ j # i
    BY <1>12
  <2>2. \A j \in p .. Len(l) : /\ Sets(k[j], t, c, b) <=> Sets(l[j], t, c, b)
                               /\ Wipes(k[j], t) <=> Wipes(l[j], t)
    BY <1>5, <2>1
  <2>. QED
    BY <1>1, <1>5, <2>1, <2>2, ShowsSame
<1>14. ASSUME NEW p \in 1 .. Len(l) + 1, NEW t, t # s, NEW c, NEW b
       PROVE  Shows(k, x, p, t, c, b) <=> Shows(l, x, p, t, c, b)
  <2>1. /\ ~ Sets(z, t, c, b) /\ ~ Sets(n, t, c, b) /\ ~ Wipes(z, t) /\ ~ Wipes(n, t)
    BY <1>2, <1>6, <1>14 DEF Sets, Wipes
  <2>2. \A j \in p .. Len(l) : k[j] = l[j] \/ (k[j] = z /\ l[j] = n)
    BY <1>5, <1>12 DEF n
  <2>3. \A j \in p .. Len(l) : /\ Sets(k[j], t, c, b) <=> Sets(l[j], t, c, b)
                               /\ Wipes(k[j], t) <=> Wipes(l[j], t)
    BY <2>1, <2>2
  <2>. QED
    BY <1>1, <1>5, <2>3, ShowsSame
<1>15. ASSUME NEW c, NEW b
       PROVE  /\ Shows(l, x, 1, s, c, b) <=> Shows(l, x, i, s, c, b)
              /\ Shows(k, x, 1, s, c, b) <=> Shows(k, x, i, s, c, b)
              /\ Shows(l, x, i, s, c, b) <=> Sets(n, s, c, b) \/ Shows(l, x, i + 1, s, c, b)
              /\ Shows(k, x, i, s, c, b) <=> Sets(z, s, c, b) \/ Shows(l, x, i + 1, s, c, b)
  <2>1. \A j \in 1 .. i - 1 : k[j].addr # s
    BY <1>2, <1>5, <1>12
  <2>2. Shows(l, x, 1, s, c, b) <=> Shows(l, x, i, s, c, b)
    BY <1>1, <1>2, <1>12, ShowsSkip
  <2>3. Shows(k, x, 1, s, c, b) <=> Shows(k, x, i, s, c, b)
    <3>1. Len(k) \in Nat /\ i \in 1 .. Len(k) + 1
      BY <1>1, <1>5, <1>12
    <3>. QED
      BY <1>12, <2>1, <3>1, ShowsSkip
  <2>4. Shows(l, x, i, s, c, b) <=> Sets(n, s, c, b) \/ (~ Wipes(n, s) /\ Shows(l, x, i + 1, s, c, b))
    BY <1>1, <1>2, ShowsStep DEF n
  <2>5. Shows(k, x, i, s, c, b) <=> Sets(z, s, c, b) \/ (~ Wipes(z, s) /\ Shows(k, x, i + 1, s, c, b))
    <3>1. k[i] = z /\ Len(k) \in Nat
      BY <1>1, <1>2, <1>5
    <3>2. Shows(k, x, i, s, c, b) <=> Sets(k[i], s, c, b) \/ (~ Wipes(k[i], s) /\ Shows(k, x, i + 1, s, c, b))
      BY <1>12, <3>1, ShowsStep
    <3>. QED
      BY <3>1, <3>2
  <2>6. ~ Wipes(n, s) /\ ~ Wipes(z, s)
    BY <1>2, <1>6 DEF Wipes
  <2>7. Shows(k, x, i + 1, s, c, b) <=> Shows(l, x, i + 1, s, c, b)
    <3>1. i + 1 \in i + 1 .. Len(l) + 1
      BY <1>1, <1>2
    <3>. QED
      BY <1>13, <3>1
  <2>. QED
    BY <2>2, <2>3, <2>4, <2>5, <2>6, <2>7
<1>16. ASSUME NEW c \in Cells, NEW b
       PROVE  /\ c \notin n.from .. n.to - 1 /\ b \in n.data[c] => Shows(l, x, i + 1, s, c, b)
              /\ ~ n.stale => (b \in n.data[c] <=> Shows(l, x, i, s, c, b))
  <2>1. Fits(l, x, i)
    BY <1>2, <1>10
  <2>. QED
    BY <1>2, <2>1 DEF Fits, n
<1>17. ASSUME NEW c \in Cells, NEW b
       PROVE  /\ b \in e[s][c] <=> Shows(l, x, i, s, c, b)
              /\ Sets(n, s, c, b) <=> c \in n.from .. n.to - 1 /\ b \in n.data[c]
              /\ Sets(z, s, c, b) <=> c \in z.from .. z.to - 1 /\ b \in z.data[c]
  BY <1>2, <1>6, <1>10, <1>15 DEF AddsUpTo, Sets
<1>18. ASSUME NEW c \in Cells, NEW b
       PROVE  Shows(k, x, i, s, c, b) <=> IF c \in from .. to - 1 THEN b \in v ELSE Shows(l, x, i, s, c, b)
  <2>1. CASE c \in from .. to - 1
    <3>1. c \in z.from .. z.to - 1 /\ z.data[c] = v
      BY <1>7, <1>8, <2>1
    <3>2. b \in e[s][c] => b \in v
      BY <1>11, <2>1
    <3>. QED
      BY <1>15, <1>17, <2>1, <3>1, <3>2
  <2>2. CASE c \notin from .. to - 1
    <3>1. z.data[c] = n.data[c] /\ (c \notin z.from .. z.to - 1 => c \notin n.from .. n.to - 1)
      BY <1>7, <1>8, <2>2
    <3>. QED
      BY <1>15, <1>16, <1>17, <2>2, <3>1
  <2>. QED
    BY <2>1, <2>2
<1>19. AddsUpTo(k, x, d)
  <2>1. ASSUME NEW c \in Cells, NEW b PROVE b \in d[s][c] <=> Shows(k, x, 1, s, c, b)
    <3>1. d[s][c] = IF c \in from .. to - 1 THEN v ELSE e[s][c]
      BY <1>9
    <3>. QED
      BY <1>15, <1>17, <1>18, <3>1
  <2>2. ASSUME NEW t \in Sectors, t # s, NEW c \in Cells, NEW b PROVE b \in d[t][c] <=> Shows(k, x, 1, t, c, b)
    <3>1. d[t][c] = e[t][c]
      BY <1>9, <2>2
    <3>2. 1 \in 1 .. Len(l) + 1
      BY <1>1
    <3>. QED
      BY <1>10, <1>14, <2>2, <3>1, <3>2 DEF AddsUpTo
  <2>. QED
    BY <2>1, <2>2 DEF AddsUpTo
<1>20. Fits(k, x, i)
  <2>1. ASSUME NEW c \in Cells, NEW b
        PROVE  /\ c \notin z.from .. z.to - 1 /\ b \in z.data[c] => Shows(k, x, i + 1, s, c, b)
               /\ ~ z.stale => (b \in z.data[c] <=> Shows(k, x, i, s, c, b))
    <3>1. z.data[c] = IF c \in from .. to - 1 THEN v ELSE n.data[c]
      BY <1>7
    <3>2. c \notin z.from .. z.to - 1 => c \notin n.from .. n.to - 1 /\ c \notin from .. to - 1
      BY <1>8
    <3>3. i + 1 \in i + 1 .. Len(l) + 1
      BY <1>1, <1>2
    <3>. QED
      BY <1>6, <1>13, <1>16, <1>18, <3>1, <3>2, <3>3
  <2>2. k[i] = z
    BY <1>2, <1>5
  <2>. QED
    BY <1>6, <2>1, <2>2 DEF Fits
<1>21. ASSUME NEW j \in 1 .. Len(l), j # i PROVE Fits(k, x, j)
  <2>1. k[j] = l[j] /\ Same(k[j], l[j]) /\ Fits(l, x, j)
    BY <1>5, <1>10, <1>21 DEF Same, Alike
  <2>2. CASE j < i
    <3>1. l[j].addr # s /\ j \in 1 .. Len(l) + 1 /\ j + 1 \in 1 .. Len(l) + 1
      <4>1. j \in 1 .. i - 1 /\ j \in 1 .. Len(l) + 1 /\ j + 1 \in 1 .. Len(l) + 1
        BY <1>1, <1>2, <2>2
      <4>. QED
        BY <1>2, <4>1
    <3>. QED
      BY <1>14, <2>1, <3>1, FitsMoves
  <2>3. CASE i < j
    <3>1. j \in i + 1 .. Len(l) + 1 /\ j + 1 \in i + 1 .. Len(l) + 1
      BY <1>1, <1>2, <2>3
    <3>. QED
      BY <1>13, <2>1, <3>1, FitsMoves
  <2>. QED
    BY <1>1, <1>2, <1>21, <2>2, <2>3
<1>22. Good(k, x, d)
  BY <1>5, <1>19, <1>20, <1>21 DEF Good
<1>. QED
  BY <1>22 DEF k, d, z, n, l

-----------------------------------------------------------------------------
(* The content invariant: as long as no freed node is in a list, the pending *)
(* operations of a module no request ran ahead of suit the flash.            *)
ContentInv == Sane => \A m \in Modules \ bypassed : Good(mod[m].list, flash[m], expected[m])

(* The content of a module's sectors *)
LEMMA ContentTypes ==
  ASSUME Inv
  PROVE  /\ flash \in [Modules -> Contents] /\ expected \in [Modules -> Contents]
         /\ \A m \in Modules : flash[m] \in Contents /\ expected[m] \in Contents
BY Parts DEF RestOK, Contents

(* Contents alike bit by bit are one. *)
LEMMA SameContent ==
  ASSUME NEW x \in Contents, NEW y \in Contents,
         \A s \in Sectors, c \in Cells : \A b : b \in x[s][c] <=> b \in y[s][c]
  PROVE  x = y
<1>1. ASSUME NEW s \in Sectors PROVE x[s] = y[s]
  <2>1. x[s] \in [Cells -> SUBSET Bits] /\ y[s] \in [Cells -> SUBSET Bits]
    BY DEF Contents, Sector
  <2>2. \A c \in Cells : x[s][c] = y[s][c]
    OBVIOUS
  <2>. QED
    BY <2>1, <2>2
<1>. QED
  BY <1>1 DEF Contents

(* Running all that is pending yields the content accepted. *)
LEMMA Adds ==
  ASSUME EraseLens = {1}, NEW l \in Seq(Node), NEW x \in Contents, NEW e \in Contents, Good(l, x, e)
  PROVE  EffectAll(l, x) = e
<1>1. EffectAll(l, x) \in Contents
  BY EffectAllType
<1>2. \A s \in Sectors, c \in Cells : \A b : b \in EffectAll(l, x)[s][c] <=> b \in e[s][c]
  BY RunShows DEF Good, AddsUpTo
<1>. QED
  BY <1>1, <1>2, SameContent

(* A write to cells whose bits it all keeps makes them what was written. *)
LEMMA WriteEffect ==
  ASSUME NEW e \in Contents, NEW s \in Sectors, NEW from \in Cells,
         NEW to \in 1 .. Cardinality(Cells), NEW v \in SUBSET Bits,
         \A c \in from .. to - 1 : e[s][c] \subseteq v
  PROVE  Effect([type |-> "W", addr |-> s, from |-> from, to |-> to, data |-> [c \in Cells |-> v]], e)
           = Written(e, s, from, to, v)
<1>. DEFINE n == [type |-> "W", addr |-> s, from |-> from, to |-> to, data |-> [c \in Cells |-> v]]
            d == Written(e, s, from, to, v)
<1>1. n.type = "W" /\ n.addr = s /\ n.from = from /\ n.to = to /\ n.data = [c \in Cells |-> v]
  OBVIOUS
<1>. HIDE DEF n
<1>2. n.data \in Sector
  BY <1>1 DEF Sector
<1>3. Effect(n, e) \in Contents
  BY <1>1, <1>2, EffectType
<1>4. d \in Contents
  BY OverlayIs DEF Written, Contents
<1>5. ASSUME NEW t \in Sectors, NEW c \in Cells, NEW b
      PROVE  b \in Effect(n, e)[t][c] <=> b \in d[t][c]
  <2>1. Effect(n, e)[t] =
          IF t = s THEN [a \in Cells |-> IF a \in from .. to - 1 THEN e[t][a] \cup n.data[a] ELSE e[t][a]]
          ELSE e[t]
    BY <1>1 DEF Effect
  <2>2. Effect(n, e)[t][c] = IF t = s /\ c \in from .. to - 1 THEN e[t][c] \cup v ELSE e[t][c]
    BY <1>1, <2>1
  <2>3. d[t][c] = IF t = s /\ c \in from .. to - 1 THEN v ELSE e[t][c]
    BY WrittenIs
  <2>. HIDE DEF d
  <2>4. CASE t = s /\ c \in from .. to - 1
    <3>1. e[t][c] \subseteq v
      BY <2>4
    <3>. QED
      BY <2>2, <2>3, <2>4, <3>1
  <2>. QED
    BY <2>2, <2>3, <2>4
<1>. HIDE DEF d
<1>6. Effect(n, e) = d
  BY <1>3, <1>4, <1>5, SameContent
<1>. QED
  BY <1>6 DEF n, d

(* No node of a list is freed. *)
LEMMA SaneIs ==
  ASSUME NEW f \in [Modules -> ModuleRec], \A n \in UNION {Range(f[m].list) : m \in Modules} : ~ n.freed,
         NEW m \in Modules
  PROVE  \A i \in 1 .. Len(f[m].list) : ~ f[m].list[i].freed
<1>1. f[m] \in ModuleRec
  OBVIOUS
<1>2. DOMAIN f[m].list = 1 .. Len(f[m].list)
  BY <1>1, ModuleTypes
<1>. QED
  BY <1>2 DEF Range

(* A module whose operation runs to its end *)
LEMMA GoodDone ==
  ASSUME EraseLens = {1}, NEW r \in ModuleRec, Flown(r), Own(r.list), Started(r).list # <<>>,
         NEW x \in Contents, NEW e, Good(r.list, x, e)
  PROVE  Good(Deleted(Started(r)).list, Effect(CurNode(Started(r)), x), e)
<1>. DEFINE q == Started(r)  l == r.list  k == Deleted(q).list  z == CurNode(q)
<1>1. /\ q \in ModuleRec /\ l # <<>> /\ Len(q.list) = Len(l) /\ z = q.list[Len(l)]
      /\ \A i \in 1 .. Len(l) : /\ Alike(q.list[i], l[i]) /\ q.list[i].data = l[i].data
                                /\ q.list[i].from = l[i].from /\ q.list[i].to = l[i].to
  BY StartedIs
<1>2. Deleted(q) \in ModuleRec /\ Len(k) = Len(l) - 1 /\ \A i \in 1 .. Len(l) - 1 : k[i] = l[i]
  BY DoneIs
<1>3. l \in Seq(Node) /\ k \in Seq(Node) /\ Len(l) \in 1 .. Len(l)
  BY <1>1, <1>2, ModuleTypes
<1>4. z \in Node /\ Same(z, l[Len(l)])
  <2>1. \A i \in 1 .. Len(q.list) : q.list[i] \in Node
    BY <1>1, ModuleTypes
  <2>. QED
    BY <1>1, <1>3, <2>1 DEF Same
<1>. HIDE DEF q, l, k, z
<1>5. Good(l, x, e)
  BY DEF l
<1>6. Good(k, Effect(z, x), e)
  BY <1>1, <1>2, <1>3, <1>4, <1>5, GoodCut
<1>. QED
  BY <1>6 DEF k, z, q

(* A module whose operation is suspended *)
LEMMA GoodSuspended ==
  ASSUME EraseLens = {1}, NEW r \in ModuleRec, Flown(r), Own(r.list), Started(r).list # <<>>,
         NEW x \in Contents, NEW y \in Partial(CurNode(Started(r)), x), NEW e, Good(r.list, x, e)
  PROVE  Good(Started(r).list, y, e)
<1>. DEFINE q == Started(r)  l == r.list  k == q.list
<1>1. /\ q \in ModuleRec /\ l # <<>> /\ Len(k) = Len(l) /\ CurNode(q) = k[Len(k)]
      /\ \A i \in 1 .. Len(l) : /\ Alike(k[i], l[i]) /\ k[i].data = l[i].data
                                /\ k[i].from = l[i].from /\ k[i].to = l[i].to
  BY StartedIs
<1>2. l \in Seq(Node) /\ k \in Seq(Node)
  BY <1>1, ModuleTypes
<1>3. \A i \in 1 .. Len(l) : Same(k[i], l[i])
  BY <1>1 DEF Same
<1>4. y \in Partial(k[Len(k)], x)
  BY <1>1
<1>. HIDE DEF q, l, k
<1>5. Good(l, x, e)
  BY DEF l
<1>6. Good(k, y, e)
  BY <1>1, <1>2, <1>3, <1>4, <1>5, GoodPaused
<1>. QED
  BY <1>6 DEF k, q

-----------------------------------------------------------------------------
(* A flush step *)
LEMMA FlushContent ==
  ASSUME EraseLens = {1}, Inv, ContentInv, Flush
  PROVE  ContentInv'
<1>1. /\ mod \in [Modules -> ModuleRec] /\ flash \in [Modules -> Contents]
      /\ \A m \in Modules : flash[m] \in Contents
  BY Parts, ContentTypes
<1>2. Sane /\ expected' = expected /\ bypassed' = bypassed
  BY DEF Flush, Serve
<1>3. \A m \in Modules \ bypassed : Good(mod[m].list, flash[m], expected[m])
  BY <1>2 DEF ContentInv
<1>4. ASSUME NEW m \in Modules, FlushDone(m) \/ FlushSuspended(m) \/ FlushEmpty(m),
             NEW k \in Modules \ bypassed
      PROVE  Good(mod'[k].list, flash'[k], expected[k])
  <2>. DEFINE r == mod[m]  q == Started(r)
  <2>1. CASE k # m
    <3>1. mod'[k] = mod[k] /\ flash'[k] = flash[k]
      BY <1>1, <1>4, <2>1 DEF FlushDone, FlushSuspended, FlushEmpty
    <3>. QED
      BY <1>3, <3>1
  <2>2. CASE k = m /\ FlushDone(m)
    <3>1. mod'[m] = Deleted(q) /\ flash'[m] = Effect(CurNode(q), flash[m]) /\ q.list # <<>>
      BY <1>1, <2>2 DEF FlushDone
    <3>2. r \in ModuleRec /\ Flown(r) /\ Own(r.list) /\ flash[m] \in Contents
      BY <1>1, Origin
    <3>3. Good(r.list, flash[m], expected[m])
      BY <1>3, <2>2
    <3>. HIDE DEF r
    <3>4. Good(Deleted(q).list, Effect(CurNode(q), flash[m]), expected[m])
      BY <3>1, <3>2, <3>3, GoodDone
    <3>. QED
      BY <2>2, <3>1, <3>4
  <2>3. CASE k = m /\ FlushSuspended(m)
    <3>1. q.list # <<>>
      BY <2>3 DEF FlushSuspended
    <3>2. PICK p \in Partial(CurNode(q), flash[m]) : flash' = [flash EXCEPT ![m] = p]
      BY <2>3 DEF FlushSuspended
    <3>3. PICK st : mod' = [mod EXCEPT ![m] = [q EXCEPT !.state = st]]
      BY <2>3 DEF FlushSuspended
    <3>4. r \in ModuleRec /\ Flown(r) /\ Own(r.list) /\ flash[m] \in Contents
      BY <1>1, Origin
    <3>5. Good(r.list, flash[m], expected[m])
      BY <1>3, <2>3
    <3>6. q \in ModuleRec
      BY <3>1, <3>4, StartedIs
    <3>7. flash'[m] = p /\ mod'[m] = [q EXCEPT !.state = st]
      BY <1>1, <3>2, <3>3
    <3>. HIDE DEF r
    <3>8. Good(q.list, p, expected[m])
      BY <3>1, <3>2, <3>4, <3>5, GoodSuspended
    <3>. HIDE DEF q
    <3>9. [q EXCEPT !.state = st].list = q.list
      BY <3>6 DEF ModuleRec
    <3>. QED
      BY <2>3, <3>7, <3>8, <3>9
  <2>4. CASE k = m /\ FlushEmpty(m)
    BY <1>3, <2>4 DEF FlushEmpty
  <2>. QED
    BY <1>4, <2>1, <2>2, <2>3, <2>4
<1>5. ASSUME mod' = mod, flash' = flash PROVE ContentInv'
  BY <1>2, <1>3, <1>5 DEF ContentInv
<1>6. ASSUME \A k \in Modules \ bypassed : Good(mod'[k].list, flash'[k], expected[k]) PROVE ContentInv'
  BY <1>2, <1>6 DEF ContentInv
<1>. QED
  BY <1>4, <1>5, <1>6 DEF Flush

(* The list of one module replaced, and with it the content accepted *)
LEMMA RequestContent ==
  ASSUME Inv, ContentInv, Sane, NEW m \in Modules, NEW l, mod' = [mod EXCEPT ![m].list = l],
         expected' \in [Modules -> Contents], \A k \in Modules \ {m} : expected'[k] = expected[k],
         flash' = flash, bypassed' = bypassed,
         Sane' => m \in bypassed \/ Good(l, flash[m], expected'[m])
  PROVE  ContentInv'
<1>1. mod \in [Modules -> ModuleRec]
  BY Parts
<1>2. mod'[m].list = l /\ \A k \in Modules \ {m} : mod'[k] = mod[k]
  BY <1>1 DEF ModuleRec
<1>3. \A k \in Modules \ bypassed : Good(mod[k].list, flash[k], expected[k])
  BY DEF ContentInv
<1>. QED
  BY <1>2, <1>3 DEF ContentInv

(* norflash_api_erase *)
LEMMA EraseAsyncContent ==
  ASSUME EraseLens = {1}, Inv, Inv', ContentInv, NEW m \in Modules, NEW s \in Sectors, NEW len \in EraseLens,
         EraseAsync(m, s, len)
  PROVE  ContentInv'
<1>. DEFINE r == mod[m]  q == EOperaAdd(r.list, s, len)  l == q.list
            w == Effect([type |-> "E", addr |-> s, len |-> len], expected[m])
<1>1. /\ Sane /\ mod' = [mod EXCEPT ![m].list = l] /\ flash' = flash /\ bypassed' = bypassed
      /\ expected' = IF q.ok THEN [expected EXCEPT ![m] = w] ELSE expected
  BY DEF EraseAsync, Request, WithErase
<1>2. r \in ModuleRec /\ Flown(r) /\ Own(r.list) /\ FreeSlots \subseteq Slots /\ mod \in [Modules -> ModuleRec]
  BY Origin, Parts
<1>3. expected \in [Modules -> Contents] /\ expected[m] \in Contents /\ w \in Contents
  BY ContentTypes, ExpectedTypes DEF WithErase
<1>4. Sane' => \A i \in 1 .. Len(l) : ~ l[i].freed
  <2>1. mod' \in [Modules -> ModuleRec]
    BY DEF Inv, TypeOK, ModuleRec
  <2>2. mod'[m].list = l
    BY <1>1, <1>2 DEF ModuleRec
  <2>3. Sane' => \A n \in UNION {Range(mod'[k].list) : k \in Modules} : ~ n.freed
    BY DEF Sane, Nodes
  <2>. HIDE DEF l
  <2>4. Sane' => \A i \in 1 .. Len(mod'[m].list) : ~ mod'[m].list[i].freed
    BY <2>1, <2>3, SaneIs
  <2>. QED
    BY <2>2, <2>4
<1>5. /\ expected' \in [Modules -> Contents] /\ \A k \in Modules \ {m} : expected'[k] = expected[k]
      /\ expected'[m] = IF q.ok THEN w ELSE expected[m]
  BY <1>1, <1>3
<1>6. ASSUME Sane', m \notin bypassed PROVE Good(l, flash[m], expected'[m])
  <2>1. Good(r.list, flash[m], expected[m])
    BY <1>1, <1>6 DEF ContentInv
  <2>2. \A i \in 1 .. Len(l) : ~ l[i].freed
    BY <1>4, <1>6
  <2>. DEFINE e == expected[m]
  <2>3. e \in Contents /\ Good(r.list, flash[m], e)
    BY <1>3, <2>1
  <2>. HIDE DEF r, e
  <2>4. Good(EOperaAdd(r.list, s, len).list, flash[m],
             IF EOperaAdd(r.list, s, len).ok THEN Effect([type |-> "E", addr |-> s, len |-> len], e) ELSE e)
    BY <1>2, <2>2, <2>3, GoodErase
  <2>. QED
    BY <1>5, <2>4 DEF e
<1>. HIDE DEF l, q, w
<1>. QED
  BY <1>1, <1>5, <1>6, RequestContent

(* norflash_api_write *)
LEMMA WriteAsyncContent ==
  ASSUME Inv, ContentInv, NEW m \in Modules, NEW s \in Sectors, NEW from \in Cells,
         NEW to \in 1 .. Cardinality(Cells), NEW v \in SUBSET Bits, WriteAsync(m, s, from, to, v)
  PROVE  ContentInv'
<1>. DEFINE r == mod[m]  q == WOperaAdd(m, s, from, to, v)  l == q.list
            e == expected[m]  x == flash[m]  w == Written(e, s, from, to, v)
<1>1. /\ Sane /\ mod' = [mod EXCEPT ![m].list = l] /\ flash' = flash /\ bypassed' = bypassed
      /\ expected' = IF q.ok THEN [expected EXCEPT ![m] = w] ELSE expected
      /\ \A c \in from .. to - 1 : e[s][c] \subseteq v
  BY DEF WriteAsync, Request, WithWrite, Writable, Written
<1>2. r \in ModuleRec /\ Flown(r) /\ FreeSlots \subseteq Slots /\ mod \in [Modules -> ModuleRec]
  BY Origin, Parts
<1>3. expected \in [Modules -> Contents] /\ e \in Contents /\ w \in Contents /\ x \in Contents
  BY ContentTypes, ExpectedTypes DEF WithWrite, Written
<1>5. /\ expected' \in [Modules -> Contents] /\ \A k \in Modules \ {m} : expected'[k] = expected[k]
      /\ expected'[m] = IF q.ok THEN w ELSE e
  BY <1>1, <1>3
<1>6. ASSUME m \notin bypassed PROVE Good(l, x, expected'[m])
  <2>1. Good(r.list, x, e)
    BY <1>1, <1>6 DEF ContentInv
  <2>2. \A c \in from .. to - 1 : e[s][c] \subseteq v
    BY <1>1
  <2>3. ASSUME NEW i, MergeAt(m, s, from, to, v, i, l) PROVE Good(l, x, w)
    <3>1. i \in WriteHit(r.list, s) /\ r.list[i].type = "W"
          /\ l = [r.list EXCEPT ![i] = Merged(r.list[i], from, to, v)]
      BY <2>3 DEF MergeAt
    <3>. HIDE DEF r, e, x, l, w
    <3>2. Good([r.list EXCEPT ![i] = Merged(r.list[i], from, to, v)], x, Written(e, s, from, to, v))
      BY <1>2, <1>3, <2>1, <2>2, <3>1, GoodMerge
    <3>. QED
      BY <3>1, <3>2 DEF w
  <2>4. ASSUME NewWrite(m, s, from, to, v, l) PROVE Good(l, x, w)
    <3>. DEFINE hit == WriteHit(r.list, s)  base == IF hit = {} THEN x[s] ELSE Erased
                stale == hit = {} /\ Of(r.list, s) # {}  k == Least(FreeSlots)
                n == WriteNode(k, s, from, to, v, base, stale)
    <3>1. l = <<n>> \o r.list /\ (\A h \in hit : r.list[h].type # "W") /\ FreeSlots # {}
      BY <2>4 DEF NewWrite
    <3>2. k \in Slots
      BY <1>2, <3>1, LeastIs
    <3>3. base \in Sector /\ stale \in BOOLEAN
      BY <1>3, ErasedIs DEF Contents
    <3>. HIDE DEF k
    <3>4. n \in Node /\ n.type = "W" /\ n.addr = s /\ n.from = from /\ n.to = to
          /\ n.data = Overlay(base, from, to, v) /\ n.stale = stale
      <4>. HIDE DEF base, stale
      <4>. QED
        BY <3>2, <3>3, WriteNodeIs
    <3>5. /\ n.data = Overlay(IF WriteHit(r.list, s) = {} THEN x[s] ELSE Erased, from, to, v)
          /\ n.stale = (WriteHit(r.list, s) = {} /\ Of(r.list, s) # {})
          /\ \A h \in WriteHit(r.list, s) : r.list[h].type # "W"
      BY <3>1, <3>4
    <3>. HIDE DEF r, e, x, l, w, n
    <3>6. Good(<<n>> \o r.list, x, Written(e, s, from, to, v))
      BY <1>2, <1>3, <2>1, <2>2, <3>4, <3>5, GoodNewWrite
    <3>. QED
      BY <3>1, <3>6 DEF w
  <2>5. \/ q.ok /\ \E i : MergeAt(m, s, from, to, v, i, l)
        \/ q.ok /\ NewWrite(m, s, from, to, v, l)
        \/ ~ q.ok /\ l = r.list
    BY WriteIs
  <2>. HIDE DEF q, l, r, w, x, e
  <2>. QED
    BY <1>5, <2>1, <2>3, <2>4, <2>5
<1>. HIDE DEF l, q, w
<1>. QED
  BY <1>1, <1>5, <1>6, RequestContent

-----------------------------------------------------------------------------
(* A synchronous request whose operation gives the content it is to give *)
LEMMA SyncContent ==
  ASSUME EraseLens = {1}, Inv, ContentInv, NEW m \in Modules, NEW n, NEW e, e = Effect(n, expected[m]),
         SyncRequest(m, n, e)
  PROVE  ContentInv'
<1>. DEFINE o == OthersDone(m)
<1>1. /\ mod \in [Modules -> ModuleRec]
      /\ flash \in [Modules -> Contents] /\ expected \in [Modules -> Contents]
      /\ \A k \in Modules : /\ flash[k] \in Contents /\ expected[k] \in Contents
                            /\ mod[k] \in ModuleRec /\ mod[k].list \in Seq(Node) /\ Flown(mod[k]) /\ Own(mod[k].list)
  BY Parts, ContentTypes, Origin, ModuleTypes
<1>2. Sane
  BY DEF SyncRequest, Request
<1>3. \A k \in Modules \ bypassed : Good(mod[k].list, flash[k], expected[k])
  BY <1>2 DEF ContentInv
<1>4. ASSUME NEW x PROVE Good(Released.list, x, x)
  BY GoodEmpty DEF Released
<1>5. ASSUME mod' = [o.mods EXCEPT ![m] = Released],
             flash' = [o.flash EXCEPT ![m] = Effect(n, EffectAll(mod[m].list, o.flash[m]))],
             expected' = [expected EXCEPT ![m] = e], bypassed' = bypassed
      PROVE  ContentInv'
  <2>1. /\ o.flash \in [Modules -> Contents] /\ o.mods \in [Modules -> ModuleRec]
        /\ \/ o.mods = mod /\ o.flash = flash
           \/ /\ curMod \in Modules \ {m} /\ mod[curMod].cur # 0
              /\ o.mods = [mod EXCEPT ![curMod] = Deleted(Started(mod[curMod]))]
              /\ o.flash = [flash EXCEPT ![curMod] = Effect(CurNode(Started(mod[curMod])), flash[curMod])]
    BY OthersAre
  <2>. HIDE DEF o
  <2>2. ASSUME NEW k \in Modules \ bypassed PROVE Good(o.mods[k].list, o.flash[k], expected[k])
    <3>1. CASE o.mods[k] = mod[k] /\ o.flash[k] = flash[k]
      BY <1>3, <3>1
    <3>2. CASE /\ k = curMod /\ mod[k].cur # 0
               /\ o.mods[k] = Deleted(Started(mod[k]))
               /\ o.flash[k] = Effect(CurNode(Started(mod[k])), flash[k])
      <4>. DEFINE r == mod[k]
      <4>1. r \in ModuleRec /\ Flown(r) /\ Own(r.list) /\ flash[k] \in Contents
            /\ Good(r.list, flash[k], expected[k]) /\ r.cur # 0
        BY <1>1, <1>3, <3>2
      <4>. HIDE DEF r
      <4>2. Started(r) = r /\ r.list # <<>>
        BY <4>1, CurIs DEF Flown
      <4>3. Good(Deleted(Started(r)).list, Effect(CurNode(Started(r)), flash[k]), expected[k])
        BY <4>1, <4>2, GoodDone
      <4>. QED
        BY <3>2, <4>3 DEF r
    <3>. QED
      BY <1>1, <2>1, <3>1, <3>2
  <2>3. /\ mod'[m] = Released /\ \A k \in Modules \ {m} : mod'[k] = o.mods[k]
        /\ flash'[m] = Effect(n, EffectAll(mod[m].list, o.flash[m]))
        /\ \A k \in Modules \ {m} : flash'[k] = o.flash[k]
        /\ expected'[m] = e /\ \A k \in Modules \ {m} : expected'[k] = expected[k]
    BY <1>1, <1>5, <2>1
  <2>4. ASSUME m \notin bypassed PROVE flash'[m] = expected'[m]
    <3>1. o.flash[m] = flash[m]
      BY <1>1, <2>1
    <3>. DEFINE l == mod[m].list  x == flash[m]  w == expected[m]
    <3>2. l \in Seq(Node) /\ x \in Contents /\ w \in Contents /\ Good(l, x, w)
      BY <1>1, <1>3, <2>4
    <3>. HIDE DEF l, x, w
    <3>3. EffectAll(l, x) = w
      BY <3>2, Adds
    <3>. QED
      BY <2>3, <3>1, <3>3 DEF l, x, w
  <2>5. ASSUME NEW k \in Modules \ bypassed PROVE Good(mod'[k].list, flash'[k], expected'[k])
    <3>1. CASE k = m
      BY <1>4, <2>3, <2>4, <3>1
    <3>2. CASE k # m
      BY <2>2, <2>3, <3>2
    <3>. QED
      BY <3>1, <3>2
  <2>. QED
    BY <1>5, <2>5 DEF ContentInv
<1>6. ASSUME mod' = mod, flash' = [flash EXCEPT ![m] = Effect(n, flash[m])],
             expected' = [expected EXCEPT ![m] = e],
             bypassed' = IF mod[m].list = <<>> THEN bypassed ELSE bypassed \cup {m}
      PROVE  ContentInv'
  <2>1. /\ flash'[m] = Effect(n, flash[m]) /\ \A k \in Modules \ {m} : flash'[k] = flash[k]
        /\ expected'[m] = e /\ \A k \in Modules \ {m} : expected'[k] = expected[k]
    BY <1>1, <1>6
  <2>2. ASSUME m \notin bypassed' PROVE Good(mod[m].list, flash'[m], expected'[m])
    <3>1. mod[m].list = <<>> /\ m \notin bypassed
      BY <1>6, <2>2
    <3>. DEFINE l == mod[m].list  x == flash[m]  w == expected[m]
    <3>2. l \in Seq(Node) /\ x \in Contents /\ w \in Contents /\ Good(l, x, w) /\ Len(l) = 0
      BY <1>1, <1>3, <3>1
    <3>. HIDE DEF l, x, w
    <3>3. EffectAll(l, x) = w
      BY <3>2, Adds
    <3>4. EffectAll(l, x) = x
      BY <3>2, RunUnfolds DEF EffectAll
    <3>5. flash'[m] = expected'[m]
      BY <2>1, <3>3, <3>4 DEF x, w
    <3>6. mod[m].list = Released.list
      BY <3>1 DEF Released
    <3>. QED
      BY <1>4, <3>5, <3>6
  <2>3. ASSUME NEW k \in Modules \ bypassed' PROVE Good(mod'[k].list, flash'[k], expected'[k])
    <3>1. CASE k = m
      BY <1>6, <2>2, <3>1
    <3>2. CASE k # m
      <4>1. k \in Modules \ bypassed
        BY <1>6
      <4>. QED
        BY <1>3, <1>6, <2>1, <3>2, <4>1
    <3>. QED
      BY <3>1, <3>2
  <2>. QED
    BY <2>3 DEF ContentInv
<1>7. ASSUME UNCHANGED <<mod, flash, expected, bypassed>> PROVE ContentInv'
  BY <1>3, <1>7 DEF ContentInv
<1>. QED
  BY <1>5, <1>6, <1>7 DEF SyncRequest, Released

(* norflash_api_erase, not async *)
LEMMA EraseSyncContent ==
  ASSUME EraseLens = {1}, Inv, ContentInv, NEW m \in Modules, NEW s \in Sectors, NEW len \in EraseLens,
         EraseSync(m, s, len)
  PROVE  ContentInv'
<1>. DEFINE n == [type |-> "E", addr |-> s, len |-> len]  e == Effect(n, expected[m])
<1>1. SyncRequest(m, n, e)
  BY DEF EraseSync, WithErase
<1>2. e = Effect(n, expected[m])
  OBVIOUS
<1>. HIDE DEF n, e
<1>. QED
  BY <1>1, <1>2, SyncContent

(* norflash_api_write, not async *)
LEMMA WriteSyncContent ==
  ASSUME EraseLens = {1}, Inv, ContentInv, NEW m \in Modules, NEW s \in Sectors, NEW from \in Cells,
         NEW to \in 1 .. Cardinality(Cells), NEW v \in SUBSET Bits, WriteSync(m, s, from, to, v)
  PROVE  ContentInv'
<1>. DEFINE n == [type |-> "W", addr |-> s, from |-> from, to |-> to, data |-> [c \in Cells |-> v]]
            e == Written(expected[m], s, from, to, v)
<1>1. SyncRequest(m, n, e) /\ \A c \in from .. to - 1 : expected[m][s][c] \subseteq v
  BY DEF WriteSync, WithWrite, Written, Writable
<1>2. expected[m] \in Contents
  BY ContentTypes
<1>3. e = Effect(n, expected[m])
  BY <1>1, <1>2, WriteEffect
<1>. HIDE DEF n, e
<1>. QED
  BY <1>1, <1>3, SyncContent

(* Nothing is pending at first. *)
LEMMA InitContent == ASSUME Init PROVE ContentInv
<1>1. ASSUME NEW m \in Modules PROVE Good(mod[m].list, flash[m], expected[m])
  <2>1. mod[m].list = <<>> /\ flash[m] = expected[m]
    BY DEF Init
  <2>. QED
    BY <2>1, GoodEmpty
<1>. QED
  BY <1>1 DEF ContentInv

(* Every step keeps the content invariant. *)
LEMMA StepContent ==
  ASSUME EraseLens = {1}, Inv, Inv', ContentInv, [Next]_vars
  PROVE  ContentInv'
<1>1. CASE Flush
  BY <1>1, FlushContent
<1>2. CASE FlushDisable \/ FlushEnable \/ UNCHANGED vars
  <2>1. mod' = mod /\ flash' = flash /\ expected' = expected /\ bypassed' = bypassed
    BY <1>2 DEF FlushDisable, FlushEnable, vars
  <2>. QED
    BY <2>1 DEF ContentInv, Sane, Nodes
<1>3. ASSUME NEW m \in Modules, NEW s \in Sectors, NEW len \in EraseLens,
             EraseAsync(m, s, len) \/ EraseSync(m, s, len)
      PROVE  ContentInv'
  BY <1>3, EraseAsyncContent, EraseSyncContent
<1>4. ASSUME NEW m \in Modules, NEW s \in Sectors, NEW from \in Cells,
             NEW to \in 1 .. Cardinality(Cells), NEW v \in SUBSET Bits,
             WriteAsync(m, s, from, to, v) \/ WriteSync(m, s, from, to, v)
      PROVE  ContentInv'
  BY <1>4, WriteAsyncContent, WriteSyncContent
<1>. QED
  BY <1>1, <1>2, <1>3, <1>4, NextIs DEF Requests

(* The content invariant holds always, when erases are of one sector. *)
THEOREM ContentInductive == EraseLens = {1} => (Spec => []ContentInv)
<1>. SUFFICES ASSUME EraseLens = {1} PROVE Spec => []ContentInv
  OBVIOUS
<1>1. Init => ContentInv
  BY InitContent
<1>2. Inv /\ Inv' /\ ContentInv /\ [Next]_vars => ContentInv'
  BY StepContent
<1>. QED
  BY <1>1, <1>2, Inductive, PTL DEF Spec

(* What is on the flash plus what is pending is what the accepted requests   *)
(* add up to, whatever was merged, dropped, suspended or flushed first, as   *)
(* long as erases are of one sector (norflash_api_erase compares start       *)
(* addresses only).                                                          *)
THEOREM AddsUp == EraseLens = {1} => (Spec => []PendingAddsUp)
<1>. SUFFICES ASSUME EraseLens = {1} PROVE Spec => []PendingAddsUp
  OBVIOUS
<1>1. Inv /\ ContentInv => PendingAddsUp
  <2>. SUFFICES ASSUME Inv, ContentInv, Sane, NEW m \in Modules \ bypassed
                PROVE  EffectAll(mod[m].list, flash[m]) = expected[m]
    BY DEF PendingAddsUp
  <2>. DEFINE l == mod[m].list  x == flash[m]  e == expected[m]
  <2>1. l \in Seq(Node)
    BY Parts, ModuleTypes
  <2>2. x \in Contents /\ e \in Contents /\ Good(l, x, e)
    BY ContentTypes DEF ContentInv
  <2>. HIDE DEF l, x, e
  <2>3. EffectAll(l, x) = e
    BY <2>1, <2>2, Adds
  <2>. QED
    BY <2>3 DEF l, x, e
<1>. QED
  BY <1>1, ContentInductive, Inductive, PTL

(* Sectors alike cell by cell are one. *)
LEMMA SameSector ==
  ASSUME NEW v \in Sector, NEW w \in Sector, \A c \in Cells : v[c] = w[c]
  PROVE  v = w
BY DEF Sector

(* What the newest operation of list l on sector s tells of it, or else the  *)
(* flash, its content being x                                                *)
Seen(l, x, s) ==
  IF First(Of(l, s)) = {} THEN x[s]
  ELSE LET n == l[CHOOSE i \in First(Of(l, s)) : TRUE]
       IN  IF n.type = "W" THEN n.data ELSE Erased

(* It is what was accepted, unless the operation is a stale write. *)
LEMMA ReadsRight ==
  ASSUME NEW l \in Seq(Node), NEW x \in Contents, NEW e \in Contents, Good(l, x, e), NEW s \in Sectors,
         \A i \in First(Of(l, s)) : ~ l[i].stale
  PROVE  Seen(l, x, s) = e[s]
<1>. DEFINE hit == First(Of(l, s))  v == Seen(l, x, s)
<1>0. v = IF hit = {} THEN x[s]
          ELSE LET n == l[CHOOSE i \in hit : TRUE]
               IN  IF n.type = "W" THEN n.data ELSE Erased
  BY DEF Seen
<1>. HIDE DEF v
<1>1. Len(l) \in Nat /\ DOMAIN l = 1 .. Len(l) /\ \A i \in 1 .. Len(l) : l[i] \in Node
  BY ElementOfSeq, LenProperties
<1>3. e[s] \in Sector
  BY DEF Contents
<1>2. ASSUME v \in Sector, \A c \in Cells : v[c] = e[s][c] PROVE v = e[s]
  BY <1>2, <1>3, SameSector
<1>4. \A c \in Cells : \A b : b \in e[s][c] <=> Shows(l, x, 1, s, c, b)
  BY DEF Good, AddsUpTo
<1>5. ASSUME hit = {} PROVE v = e[s]
  <2>1. Of(l, s) = {}
    <3>1. Of(l, s) \in SUBSET Nat
      BY <1>1 DEF Of
    <3>. QED
      BY <1>5, <3>1, LeastNumber DEF First
  <2>2. \A i \in 1 .. Len(l) : l[i].addr # s
    BY <1>1, <2>1 DEF Of
  <2>3. v = x[s] /\ x[s] \in Sector
    BY <1>0, <1>5 DEF Contents
  <2>4. \A c, b : Shows(l, x, 1, s, c, b) <=> b \in x[s][c]
    BY <2>2 DEF Shows, Sets, Wipes
  <2>. QED
    BY <1>2, <1>3, <1>4, <2>3, <2>4
<1>6. ASSUME hit # {} PROVE v = e[s]
  <2>. DEFINE i == CHOOSE j \in hit : TRUE  n == l[i]
  <2>1. i \in hit
    BY <1>6
  <2>2. i \in 1 .. Len(l) /\ n.addr = s /\ ~ n.stale /\ \A j \in Of(l, s) : i <= j
    BY <1>1, <2>1 DEF First, Of
  <2>3. v = IF n.type = "W" THEN n.data ELSE Erased
    BY <1>0, <1>6
  <2>. HIDE DEF i
  <2>4. n \in Node
    BY <1>1, <2>2
  <2>5. /\ i \in 1 .. Len(l) + 1 /\ 1 \in 1 .. i /\ \A j \in 1 .. i - 1 : j \in 1 .. Len(l) /\ ~ (i <= j)
    BY <1>1, <2>2
  <2>6. \A j \in 1 .. i - 1 : l[j].addr # s
    BY <1>1, <2>2, <2>5 DEF Of
  <2>7. \A c, b : Shows(l, x, 1, s, c, b) <=> Shows(l, x, i, s, c, b)
    BY <1>1, <2>5, <2>6, ShowsSkip
  <2>8. CASE n.type = "W"
    <3>1. Fits(l, x, i)
      BY <2>2 DEF Good
    <3>2. \A c \in Cells : \A b : b \in n.data[c] <=> Shows(l, x, i, s, c, b)
      BY <2>2, <2>8, <3>1 DEF Fits
    <3>3. v = n.data /\ n.data \in Sector
      BY <2>3, <2>4, <2>8, NodeFields
    <3>. HIDE DEF n
    <3>4. \A c \in Cells : v[c] = e[s][c]
      BY <1>4, <2>7, <3>2, <3>3
    <3>. QED
      BY <1>2, <1>3, <3>3, <3>4
  <2>9. CASE n.type # "W"
    <3>1. Wipes(n, s)
      BY <2>2, <2>4, <2>9, NodeFields DEF Wipes
    <3>2. \A c, b : ~ Sets(n, s, c, b)
      BY <2>9 DEF Sets
    <3>3. \A c, b : ~ Shows(l, x, i, s, c, b)
      BY <1>1, <2>2, <3>1, <3>2, ShowsStep
    <3>4. v = Erased /\ Erased \in Sector /\ \A c \in Cells : Erased[c] = {}
      BY <2>3, <2>9, ErasedIs
    <3>5. \A c \in Cells : v[c] = e[s][c]
      BY <1>4, <2>7, <3>3, <3>4
    <3>. QED
      BY <1>2, <1>3, <3>4, <3>5
  <2>. QED
    BY <2>8, <2>9
<1>7. v = e[s]
  BY <1>5, <1>6
<1>. QED
  BY <1>7 DEF v

(* norflash_api_read returns the content accepted so far, as long as erases  *)
(* are of one sector; the writes it may not read from are those queued while *)
(* an earlier write of the sector was suspended.                             *)
THEOREM ReadsBack == EraseLens = {1} => (Spec => []ReadYourWrites)
<1>. SUFFICES ASSUME EraseLens = {1} PROVE Spec => []ReadYourWrites
  OBVIOUS
<1>1. Inv /\ ContentInv => ReadYourWrites
  <2>. SUFFICES ASSUME Inv, ContentInv, Sane, NEW m \in Modules \ bypassed, NEW s \in Sectors,
                       ~ StaleView(m, s)
                PROVE  View(m, s) = expected[m][s]
    BY DEF ReadYourWrites
  <2>. DEFINE l == mod[m].list  x == flash[m]  e == expected[m]  v == View(m, s)
  <2>1. l \in Seq(Node)
    BY Parts, ModuleTypes
  <2>2. x \in Contents /\ e \in Contents /\ Good(l, x, e)
    BY ContentTypes DEF ContentInv
  <2>3. v = Seen(l, x, s)
    BY DEF View, Seen
  <2>4. \A i \in First(Of(l, s)) : ~ l[i].stale
    BY Zenon DEF StaleView
  <2>. HIDE DEF l, x, e, v
  <2>5. v = e[s]
    BY <2>1, <2>2, <2>3, <2>4, ReadsRight
  <2>. QED
    BY <2>5 DEF v, e
<1>. QED
  BY <1>1, ContentInductive, Inductive, PTL
==============================================================================
