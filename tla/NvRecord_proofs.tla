--------------------------- MODULE NvRecord_proofs ---------------------------
(***************************************************************************)
(* Proofs about the NV record extension, for any number of threads, pages, *)
(* changes and power failures.  First the types, which hold however the    *)
(* flushes race; then what the pending operations of one copy look like    *)
(* while that copy is flushed, and that every request, flush step and      *)
(* power failure keeps to it; then the invariant that follows a version    *)
(* through the two phases of a flush.                                      *)
(***************************************************************************)
EXTENDS NvRecord, SequenceLemmas, FiniteSetTheorems

-----------------------------------------------------------------------------
(* Types, with versions bounded by the changes made so far *)

Values(n) == (0 .. n) \cup {Blank, Junk}
Records(n) == [PageSet -> Values(n)]
Nodes(n) == [copy : Copies, type : {"W", "E"}, data : Records(n),
             pages : SUBSET PageSet, lock : BOOLEAN]
Chips(n) == [Copies -> Records(n)]
Steps == {"START", "ERASING", "ERASED", "WRITTING", "WRITTEN"}

Typed ==
  /\ updates \in 0 .. MaxUpdates /\ crashes \in 0 .. MaxCrashes
  /\ ram \in 0 .. updates /\ upd \in BOOLEAN
  /\ state \in Copies \X Steps
  /\ written \in Nat
  /\ pend \in Seq(Nodes(updates))
  /\ flash \in Chips(updates)
  /\ pc \in [Tasks -> Labels]
  /\ at \in [Tasks -> Copies]
  /\ durable \in (0 .. updates) \cup {Blank}
  /\ overtaken \in BOOLEAN /\ raced \in BOOLEAN

(* There is a page. *)
LEMMA PagesThere == 0 \in PageSet /\ NPages \in Nat \ {0} /\ PageSet \subseteq Nat
  BY ConstAssumption DEF PageSet

(* Programming a page leaves a value. *)
LEMMA ProgrammedTyped ==
  ASSUME NEW n \in Nat, NEW old \in Values(n), NEW new \in Values(n)
  PROVE  Programmed(old, new) \in Values(n)
  BY DEF Programmed, Values, Blank, Junk

(* An operation leaves a flash. *)
LEMMA EffectTyped ==
  ASSUME NEW n \in Nat, NEW nd \in Nodes(n), NEW f \in Chips(n)
  PROVE  Effect(nd, f) \in Chips(n)
<1>1. nd.copy \in Copies /\ nd.data \in Records(n) /\ f[nd.copy] \in Records(n)
  BY DEF Nodes, Chips
<1>. DEFINE g == [p \in PageSet |-> IF nd.type = "E" THEN Blank
                        ELSE IF p \in nd.pages THEN Programmed(f[nd.copy][p], nd.data[p])
                        ELSE f[nd.copy][p]]
<1>2. \A p \in PageSet : nd.data[p] \in Values(n) /\ f[nd.copy][p] \in Values(n)
  BY <1>1 DEF Records
<1>3. Blank \in Values(n)
  BY DEF Values
<1>4. g \in Records(n)
  BY <1>2, <1>3, ProgrammedTyped DEF Records
<1>5. Effect(nd, f) = [f EXCEPT ![nd.copy] = g]
  BY DEF Effect
<1>. QED
  BY <1>1, <1>4, <1>5 DEF Chips

(* So does one that stops half way, *)
LEMMA PartialTyped ==
  ASSUME NEW n \in Nat, NEW nd \in Nodes(n), NEW f \in Chips(n)
  PROVE  Partial(nd, f) \subseteq Chips(n)
<1>1. CASE nd.type = "E"
  <2>1. nd.copy \in Copies /\ f[nd.copy] \in Records(n)
    BY DEF Nodes, Chips
  <2>2. Sector(Blank) \in Records(n) /\ Sector(Junk) \in Records(n)
    BY DEF Sector, Records, Values
  <2>. QED
    BY <1>1, <2>1, <2>2 DEF Partial, Chips
<1>2. CASE nd.type # "E"
  <2>1. \A k \in PageSet : [nd EXCEPT !.pages = {p \in @ : p < k}] \in Nodes(n)
    BY DEF Nodes
  <2>. QED
    BY <1>2, <2>1, EffectTyped DEF Partial
<1>. QED
  BY <1>1, <1>2

(* and one that the power failure stops. *)
LEMMA TornTyped ==
  ASSUME NEW n \in Nat, NEW nd \in Nodes(n), NEW f \in Chips(n)
  PROVE  Torn(nd, f) \subseteq Chips(n)
<1>1. \A k \in PageSet : [nd EXCEPT !.pages = {p \in @ : p < k}] \in Nodes(n)
  BY DEF Nodes
<1>2. \A g \in Chips(n), c \in Copies, k \in PageSet : [g EXCEPT ![c][k] = Junk] \in Chips(n)
  <2>. SUFFICES ASSUME NEW g \in Chips(n), NEW c \in Copies, NEW k \in PageSet
                PROVE  [g EXCEPT ![c][k] = Junk] \in Chips(n)
    OBVIOUS
  <2>1. g[c] \in Records(n) /\ Junk \in Values(n)
    BY DEF Chips, Values
  <2>2. [g[c] EXCEPT ![k] = Junk] \in Records(n)
    BY <2>1 DEF Records
  <2>. QED
    BY <2>2 DEF Chips
<1>3. nd.copy \in Copies /\ nd.pages \subseteq PageSet
  BY DEF Nodes
<1>4. CASE nd.type = "E"
  BY <1>4, PartialTyped DEF Torn
<1>5. CASE nd.type # "E"
  <2>. DEFINE cut(k) == Effect([nd EXCEPT !.pages = {p \in @ : p < k}], f)
  <2>1. \A k \in nd.pages : cut(k) \in Chips(n)
    BY <1>1, <1>3, EffectTyped
  <2>2. \A k \in nd.pages : [cut(k) EXCEPT ![nd.copy][k] = Junk] \in Chips(n)
    BY <2>1, <1>2, <1>3
  <2>. QED
    BY <1>5, <2>2, PartialTyped DEF Torn
<1>. QED
  BY <1>4, <1>5

(* The oldest operation of a list that is not empty is one. *)
LEMMA OldestTyped ==
  ASSUME NEW n \in Nat, pend \in Seq(Nodes(n)), pend # <<>>
  PROVE  /\ Len(pend) \in Nat \ {0} /\ Len(pend) \in DOMAIN pend
         /\ Oldest \in Nodes(n)
<1>1. Len(pend) \in Nat \ {0}
  BY EmptySeq, LenProperties
<1>2. Len(pend) \in 1 .. Len(pend)
  BY <1>1
<1>. QED
  BY <1>1, <1>2, ElementOfSeq, LenProperties DEF Oldest

(* A flush step leaves a list and a flash. *)
LEMMA FlushTyped ==
  ASSUME NEW n \in Nat, pend \in Seq(Nodes(n)), flash \in Chips(n), Flush
  PROVE  pend' \in Seq(Nodes(n)) /\ flash' \in Chips(n)
<1>1. PICK r \in Flushed : pend' = r.pend /\ flash' = r.flash
  BY DEF Flush
<1>2. CASE r = [pend |-> pend, flash |-> flash]
  BY <1>1, <1>2
<1>3. CASE pend # <<>> /\ r = [pend |-> SubSeq(pend, 1, Len(pend) - 1),
                              flash |-> Effect(Oldest, flash)]
  <2>1. SubSeq(pend, 1, Len(pend) - 1) \in Seq(Nodes(n))
    BY <1>3, OldestTyped, SubSeqProperties
  <2>. QED
    BY <1>1, <1>3, <2>1, OldestTyped, EffectTyped
<1>4. CASE pend # <<>> /\ \E f \in Partial(Oldest, flash) :
             r = [pend |-> [pend EXCEPT ![Len(pend)].lock = TRUE], flash |-> f]
  <2>1. Oldest \in Nodes(n) /\ Len(pend) \in DOMAIN pend
    BY <1>4, OldestTyped
  <2>2. [Oldest EXCEPT !.lock = TRUE] \in Nodes(n)
    BY <2>1 DEF Nodes
  <2>3. [pend EXCEPT ![Len(pend)].lock = TRUE] = [pend EXCEPT ![Len(pend)] = [Oldest EXCEPT !.lock = TRUE]]
    BY DEF Oldest
  <2>4. [pend EXCEPT ![Len(pend)] = [Oldest EXCEPT !.lock = TRUE]] \in Seq(Nodes(n))
    BY <2>1, <2>2, ExceptSeq
  <2>5. Partial(Oldest, flash) \subseteq Chips(n)
    BY <2>1, PartialTyped
  <2>6. PICK f \in Partial(Oldest, flash) :
             r = [pend |-> [pend EXCEPT ![Len(pend)].lock = TRUE], flash |-> f]
    BY <1>4
  <2>7. pend' = [pend EXCEPT ![Len(pend)].lock = TRUE] /\ flash' = f
    BY <1>1, <2>6
  <2>8. f \in Chips(n)
    BY <2>5
  <2>. QED
    BY <2>3, <2>4, <2>7, <2>8
<1>. QED
  BY <1>1, <1>2, <1>3, <1>4 DEF Flushed

(* Nodes that are kept are a list of nodes; of none, none are kept. *)
LEMMA KeepTyped ==
  ASSUME NEW S, NEW list \in Seq(S), NEW I
  PROVE  Keep(list, I) \in Seq(S) /\ (list = <<>> => Keep(list, I) = <<>>)
<1>. DEFINE n == Len(list)
            Q == Seq(S)
            G == [p \in (1 .. n) \X Q |-> IF p[1] \in I THEN Append(p[2], list[p[1]]) ELSE p[2]]
            Is(f) == f = [k \in 0 .. n |->
                            IF k = 0 THEN <<>>
                            ELSE IF k \in I THEN Append(f[k - 1], list[k]) ELSE f[k - 1]]
            s == CHOOSE f : Is(f)
<1>1. n \in Nat /\ <<>> \in Q /\ \A k \in 1 .. n : list[k] \in S
  BY ElementOfSeq, LenProperties, EmptySeq
<1>2. \A q \in Q, x \in S : Append(q, x) \in Q
  BY AppendProperties
<1>3. G \in [(1 .. n) \X Q -> Q]
  BY <1>1, <1>2
<1>4. \A k \in 1 .. n, q \in Q : G[<<k, q>>] = IF k \in I THEN Append(q, list[k]) ELSE q
  OBVIOUS
<1>. DEFINE b == <<>>
<1>. HIDE DEF G, Q, b
<1>5. PICK f \in [0 .. n -> Q] : Unfolds(f, n, b, G)
  BY <1>1, <1>3, RecursionThere DEF b
<1>6. Is(f)
  <2>1. \A k \in 1 .. n : f[k - 1] \in Q
    BY <1>1
  <2>2. \A k \in 1 .. n : f[k] = IF k \in I THEN Append(f[k - 1], list[k]) ELSE f[k - 1]
    BY <1>4, <1>5, <2>1 DEF Unfolds
  <2>3. f[0] = <<>>
    BY <1>5 DEF Unfolds, b
  <2>4. \A k \in 0 .. n : k = 0 \/ (k \in 1 .. n /\ k # 0)
    BY <1>1
  <2>5. \A k \in 0 .. n : f[k] = IF k = 0 THEN <<>>
                            ELSE IF k \in I THEN Append(f[k - 1], list[k]) ELSE f[k - 1]
    BY <2>2, <2>3, <2>4
  <2>. QED
    BY <2>5
<1>7. Is(s)
  BY <1>6
<1>8. Keep(list, I) = s[n]
  BY DEF Keep
<1>9. DOMAIN s = 0 .. n /\ \A k \in 0 .. n :
         s[k] = IF k = 0 THEN <<>>
                ELSE IF k \in I THEN Append(s[k - 1], list[k]) ELSE s[k - 1]
  BY <1>7
<1>. HIDE DEF s
<1>10. s[0] = b
  BY <1>1, <1>9 DEF b
<1>11. \A k \in 1 .. n : s[k] = IF k \in I THEN Append(s[k - 1], list[k]) ELSE s[k - 1]
  <2>1. \A k \in 1 .. n : k \in 0 .. n /\ k # 0
    BY <1>1
  <2>. QED
    BY <1>9, <2>1
<1>12. s[n] \in Q
  <2>1. \A k \in 1 .. n : s[k - 1] \in Q => s[k] = G[<<k, s[k - 1]>>]
    BY <1>4, <1>11
  <2>2. b \in Q
    BY <1>1 DEF b
  <2>3. Continues(s, n, b, Q, G)
    BY <1>10, <2>1 DEF Continues
  <2>4. n \in 0 .. n
    BY <1>1
  <2>. HIDE DEF n
  <2>. QED
    BY <1>1, <1>3, <2>2, <2>3, <2>4, RecursionStays
<1>13. list = <<>> => n = 0
  BY EmptySeq
<1>. QED
  BY <1>8, <1>10, <1>12, <1>13 DEF Q, b

(* The nodes a request puts before the list *)
EraseNode(c) == [copy |-> c, type |-> "E", data |-> Sector(Blank), pages |-> {},
                 lock |-> FALSE]

(* An erase request answers with a list of nodes. *)
LEMMA EraseTyped ==
  ASSUME NEW n \in Nat, pend \in Seq(Nodes(n)), NEW c \in Copies, NEW r \in EraseResults(c)
  PROVE  r.pend \in Seq(Nodes(n))
<1>. DEFINE I == {i \in DOMAIN pend : pend[i].copy # c \/ pend[i].lock}
            kept == Keep(pend, I)
<1>1. kept \in Seq(Nodes(n))
  BY KeepTyped
<1>. HIDE DEF kept
<1>2. EraseNode(c) \in Nodes(n)
  BY DEF EraseNode, Nodes, Sector, Records, Values
<1>3. <<EraseNode(c)>> \o kept \in Seq(Nodes(n))
  BY <1>1, <1>2, ConsPlaces
<1>4. \/ r = [ok |-> TRUE, pend |-> kept]
      \/ r = [ok |-> TRUE, pend |-> <<EraseNode(c)>> \o kept]
      \/ r = [ok |-> FALSE, pend |-> pend]
  <2>. DEFINE joined == \E i \in DOMAIN pend :
                          pend[i].copy = c /\ pend[i].lock /\ pend[i].type = "E"
  <2>1. r \in IF joined THEN {[ok |-> TRUE, pend |-> kept]}
              ELSE {[ok |-> TRUE, pend |-> <<EraseNode(c)>> \o kept]} \cup
                   (IF kept = pend THEN {[ok |-> FALSE, pend |-> pend]} ELSE {})
    BY DEF EraseResults, EraseNode, kept
  <2>. HIDE DEF joined
  <2>2. CASE joined
    BY <2>1, <2>2
  <2>3. CASE ~ joined
    BY <2>1, <2>3
  <2>. QED
    BY <2>2, <2>3
<1>5. r.pend = kept \/ r.pend = <<EraseNode(c)>> \o kept \/ r.pend = pend
  <2>1. CASE r = [ok |-> TRUE, pend |-> kept]
    BY <2>1
  <2>2. CASE r = [ok |-> TRUE, pend |-> <<EraseNode(c)>> \o kept]
    BY <2>2
  <2>3. CASE r = [ok |-> FALSE, pend |-> pend]
    BY <2>3
  <2>. QED
    BY <1>4, <2>1, <2>2, <2>3
<1>. QED
  BY <1>1, <1>3, <1>5

(* What is read of a copy is a record. *)
LEMMA ViewTyped ==
  ASSUME NEW n \in Nat, pend \in Seq(Nodes(n)), flash \in Chips(n), NEW c \in Copies
  PROVE  View(c) \in Records(n)
<1>. DEFINE hit == {i \in DOMAIN pend :
                      pend[i].copy = c /\ \A j \in 1 .. i - 1 : pend[j].copy # c}
<1>1. CASE hit = {}
  BY <1>1 DEF View, Chips
<1>2. CASE hit # {}
  <2>1. (CHOOSE i \in hit : TRUE) \in DOMAIN pend
    BY <1>2
  <2>2. \A i \in DOMAIN pend : pend[i] \in Nodes(n)
    BY ElementOfSeq, LenProperties
  <2>3. View(c) = pend[CHOOSE i \in hit : TRUE].data
    BY <1>2 DEF View
  <2>. QED
    BY <2>1, <2>2, <2>3 DEF Nodes
<1>. QED
  BY <1>1, <1>2

(* The data of a write: what is given over what was there *)
Over(pages, data, base) == [p \in PageSet |-> IF p \in pages THEN data[p] ELSE base[p]]

Merged(pages, data, n) ==
  [n EXCEPT !.data = Over(pages, data, @), !.pages = @ \cup pages]

(* The parts of WriteResults: where the search for a write to merge with ends *)
Stops(q, c, i) == q[i].copy = c /\ ~ (q[i].type = "W" /\ q[i].lock)
Hit(q, c) == {i \in DOMAIN q : Stops(q, c, i) /\ \A j \in 1 .. i - 1 : ~ Stops(q, c, j)}
WriteNode(c, pages, data) ==
  [copy |-> c, type |-> "W", pages |-> pages, lock |-> FALSE,
   data |-> Over(pages, data, IF Hit(pend, c) = {} THEN flash[c] ELSE Sector(Blank))]

(* A write is merged into the operation the search ended at, put before the  *)
(* list, or refused.                                                         *)
LEMMA WriteCases ==
  ASSUME NEW c, NEW pages, NEW data, NEW r \in WriteResults(c, pages, data)
  PROVE  \/ \E i \in Hit(pend, c) :
               /\ pend[i].type = "W"
               /\ r = [ok |-> TRUE,
                       pend |-> [pend EXCEPT ![i] = Merged(pages, data, pend[i])]]
         \/ /\ \A i \in Hit(pend, c) : pend[i].type # "W"
            /\ \/ r = [ok |-> TRUE, pend |-> <<WriteNode(c, pages, data)>> \o pend]
               \/ r = [ok |-> FALSE, pend |-> pend]
<1>. DEFINE merge == {i \in Hit(pend, c) : pend[i].type = "W"}
<1>1. CASE merge # {}
  <2>. DEFINE i == CHOOSE j \in merge : TRUE
  <2>1. i \in merge
    BY <1>1
  <2>2. r = [ok |-> TRUE,
             pend |-> [pend EXCEPT ![i] = Merged(pages, data, pend[i])]]
    BY <1>1 DEF WriteResults, Hit, Stops, Over, Merged
  <2>. QED
    BY <2>1, <2>2
<1>2. CASE merge = {}
  <2>1. \/ r = [ok |-> TRUE, pend |-> <<WriteNode(c, pages, data)>> \o pend]
        \/ r = [ok |-> FALSE, pend |-> pend]
    BY <1>2 DEF WriteResults, Hit, Stops, Over, WriteNode
  <2>. QED
    BY <1>2, <2>1
<1>. QED
  BY <1>1, <1>2

(* A write request answers with a list of nodes. *)
LEMMA WriteTyped ==
  ASSUME NEW n \in Nat, pend \in Seq(Nodes(n)), flash \in Chips(n), NEW c \in Copies,
         NEW pages \in SUBSET PageSet, NEW data \in Records(n),
         NEW r \in WriteResults(c, pages, data)
  PROVE  r.pend \in Seq(Nodes(n))
<1>1. \A base \in Records(n) : Over(pages, data, base) \in Records(n)
  BY DEF Over, Records
<1>2. flash[c] \in Records(n) /\ Sector(Blank) \in Records(n)
  BY DEF Chips, Sector, Records, Values
<1>3. WriteNode(c, pages, data) \in Nodes(n)
  BY <1>1, <1>2 DEF WriteNode, Nodes
<1>4. <<WriteNode(c, pages, data)>> \o pend \in Seq(Nodes(n))
  BY <1>3, ConsPlaces
<1>5. ASSUME NEW i \in Hit(pend, c),
             r = [ok |-> TRUE,
                  pend |-> [pend EXCEPT ![i] = Merged(pages, data, pend[i])]]
      PROVE  r.pend \in Seq(Nodes(n))
  <2>1. i \in DOMAIN pend
    BY DEF Hit
  <2>2. pend[i] \in Nodes(n)
    BY <2>1, ElementOfSeq, LenProperties
  <2>3. pend[i].data \in Records(n) /\ pend[i].pages \cup pages \in SUBSET PageSet
    BY <2>2 DEF Nodes
  <2>4. Merged(pages, data, pend[i]) \in Nodes(n)
    BY <1>1, <2>2, <2>3 DEF Nodes, Merged
  <2>5. [pend EXCEPT ![i] = Merged(pages, data, pend[i])] \in Seq(Nodes(n))
    BY <2>1, <2>4, ExceptSeq
  <2>. QED
    BY <1>5, <2>5
<1>6. CASE r = [ok |-> TRUE, pend |-> <<WriteNode(c, pages, data)>> \o pend]
  BY <1>4, <1>6
<1>7. CASE r = [ok |-> FALSE, pend |-> pend]
  BY <1>7
<1>. QED
  BY <1>5, <1>6, <1>7, WriteCases

-----------------------------------------------------------------------------
(* The pending operations of the copy that is being flushed *)

Erasing(q) == q # <<>> /\ q[Len(q)].type = "E"

(* Few, all of copy c; only the oldest may be an erase or under way. *)
Few(c, q) ==
  /\ Len(q) <= 2
  /\ \A i \in DOMAIN q :
       q[i].copy = c /\ (i < Len(q) => q[i].type = "W" /\ ~ q[i].lock)

(* The writes give z to pages of G; main is written as a whole. *)
Fitting(c, G, z, q) ==
  \A i \in DOMAIN q :
    q[i].type = "W" =>
      /\ q[i].pages \subseteq G /\ \A p \in q[i].pages : q[i].data[p] = z
      /\ c = "main" => q[i].pages = PageSet

(* Page p is in a pending write. *)
Queued(p, q) == \E i \in DOMAIN q : q[i].type = "W" /\ p \in q[i].pages

(* What was given is there or to come; once erased, a page is blank or has   *)
(* what it was given.                                                        *)
Landing(c, G, z, q, f) ==
  /\ \A p \in G : Queued(p, q) \/ (~ Erasing(q) /\ f[c][p] = z)
  /\ Erasing(q) \/ \A p \in PageSet : f[c][p] = Blank \/ (p \in G /\ f[c][p] = z)

(* The list q and the flash f while z is being written to the pages G of c. *)
Shape(c, G, z, q, f) == Few(c, q) /\ Fitting(c, G, z, q) /\ Landing(c, G, z, q, f)

(* A copy that is all blank or all damaged is not valid. *)
LEMMA NotValid == ~ Valid(Sector(Blank)) /\ ~ Valid(Sector(Junk))
<1>1. \A v \in Versions : v # Blank /\ v # Junk
  BY ConstAssumption DEF Versions, Blank, Junk
<1>2. \A v : Sector(v)[0] = v
  BY PagesThere DEF Sector
<1>. QED
  BY <1>1, <1>2 DEF Valid

(* A version written to every page makes a copy that is valid and of it. *)
LEMMA SectorValid ==
  ASSUME NEW v \in Versions
  PROVE  Valid(Sector(v)) /\ Sector(v)[0] = v
  BY PagesThere DEF Sector, Valid

(* What an operation leaves on each page *)
LEMMA EffectPages ==
  ASSUME NEW n \in Nat, NEW nd \in Nodes(n), NEW f \in Chips(n)
  PROVE  /\ \A d \in Copies : d # nd.copy => Effect(nd, f)[d] = f[d]
         /\ nd.type = "E" => Effect(nd, f)[nd.copy] = Sector(Blank)
         /\ nd.type = "W" =>
              \A p \in PageSet :
                Effect(nd, f)[nd.copy][p] =
                  IF p \in nd.pages THEN Programmed(f[nd.copy][p], nd.data[p])
                  ELSE f[nd.copy][p]
<1>. DEFINE g == [p \in PageSet |-> IF nd.type = "E" THEN Blank
                        ELSE IF p \in nd.pages THEN Programmed(f[nd.copy][p], nd.data[p])
                        ELSE f[nd.copy][p]]
<1>1. Effect(nd, f) = [f EXCEPT ![nd.copy] = g]
  BY DEF Effect
<1>2. nd.copy \in Copies /\ DOMAIN f = Copies
  BY DEF Nodes, Chips
<1>3. nd.type = "E" => g = Sector(Blank)
  BY DEF Sector
<1>4. nd.type = "W" => \A p \in PageSet :
        g[p] = IF p \in nd.pages THEN Programmed(f[nd.copy][p], nd.data[p]) ELSE f[nd.copy][p]
  OBVIOUS
<1>. HIDE DEF g
<1>. QED
  BY <1>1, <1>2, <1>3, <1>4

(* A write to pages that are blank or the same leaves what it gives. *)
LEMMA WriteLands ==
  ASSUME NEW n \in Nat, NEW nd \in Nodes(n), NEW f \in Chips(n), NEW z, nd.type = "W",
         \A p \in nd.pages : nd.data[p] = z /\ f[nd.copy][p] \in {Blank, z}
  PROVE  \A p \in PageSet :
           Effect(nd, f)[nd.copy][p] = IF p \in nd.pages THEN z ELSE f[nd.copy][p]
<1>1. \A old \in {Blank, z} : Programmed(old, z) = z
  BY DEF Programmed
<1>. QED
  BY <1>1, EffectPages

(* The part of a write in front of page k *)
Begun(nd, k) == [nd EXCEPT !.pages = {p \in @ : p < k}]

(* So does the part of it that was done. *)
LEMMA PartLands ==
  ASSUME NEW n \in Nat, NEW nd \in Nodes(n), NEW f \in Chips(n), NEW z, nd.type = "W",
         \A p \in nd.pages : nd.data[p] = z /\ f[nd.copy][p] \in {Blank, z},
         NEW k \in PageSet
  PROVE  /\ Effect(Begun(nd, k), f) \in Chips(n)
         /\ \A d \in Copies : d # nd.copy => Effect(Begun(nd, k), f)[d] = f[d]
         /\ \A p \in PageSet : Effect(Begun(nd, k), f)[nd.copy][p] =
                                IF p \in nd.pages /\ p < k THEN z ELSE f[nd.copy][p]
<1>. DEFINE m == Begun(nd, k)
<1>1. /\ m \in Nodes(n) /\ m.copy = nd.copy /\ m.type = "W" /\ m.data = nd.data
      /\ m.pages = {p \in nd.pages : p < k}
  BY DEF Nodes, Begun
<1>. HIDE DEF m
<1>2. \A p \in PageSet : p \in m.pages <=> p \in nd.pages /\ p < k
  BY <1>1
<1>3. \A p \in m.pages : m.data[p] = z /\ f[m.copy][p] \in {Blank, z}
  BY <1>1
<1>4. \A p \in PageSet : Effect(m, f)[m.copy][p] = IF p \in m.pages THEN z ELSE f[m.copy][p]
  BY <1>1, <1>3, WriteLands
<1>5. Effect(m, f) \in Chips(n) /\ \A d \in Copies : d # m.copy => Effect(m, f)[d] = f[d]
  BY <1>1, EffectTyped, EffectPages
<1>6. Effect(m, f) \in Chips(n) /\ (\A d \in Copies : d # nd.copy => Effect(m, f)[d] = f[d])
      /\ \A p \in PageSet : Effect(m, f)[nd.copy][p] = IF p \in nd.pages /\ p < k THEN z
                                                   ELSE f[nd.copy][p]
  BY <1>1, <1>2, <1>4, <1>5
<1>. QED
  BY <1>6 DEF m

(* A copy that is erased and valid holds what it was given on every page. *)
LEMMA WholeCopy ==
  ASSUME NEW n \in Nat, NEW f \in Chips(n), NEW c \in Copies, NEW G, NEW z, NEW q,
         Landing(c, G, z, q, f), ~ Erasing(q), Valid(f[c])
  PROVE  f[c] = Sector(z) /\ G # {}
<1>1. PICK v \in Versions : f[c] = Sector(v)
  BY DEF Valid
<1>2. v # Blank
  BY ConstAssumption DEF Versions, Blank
<1>3. \A p \in PageSet : f[c][p] = v
  BY <1>1 DEF Sector
<1>4. \A p \in PageSet : p \in G /\ f[c][p] = z
  BY <1>2, <1>3 DEF Landing
<1>. QED
  BY <1>1, <1>3, <1>4, PagesThere

(* The oldest operation of such a list *)
LEMMA OldestFits ==
  ASSUME NEW n \in Nat, pend \in Seq(Nodes(n)), flash \in Chips(n), NEW c \in Copies,
         NEW G, NEW z, Shape(c, G, z, pend, flash), pend # <<>>
  PROVE  /\ Oldest \in Nodes(n) /\ Oldest.copy = c
         /\ Erasing(pend) <=> Oldest.type = "E"
         /\ Oldest.type = "W" =>
              \A p \in Oldest.pages : /\ p \in PageSet /\ p \in G /\ Oldest.data[p] = z
                                      /\ flash[c][p] \in {Blank, z}
<1>1. Len(pend) \in DOMAIN pend /\ Oldest \in Nodes(n) /\ Oldest = pend[Len(pend)]
  BY OldestTyped DEF Oldest
<1>2. Oldest.copy = c
  BY <1>1 DEF Shape, Few
<1>3. Erasing(pend) <=> Oldest.type = "E"
  BY <1>1 DEF Erasing
<1>4. Oldest.pages \subseteq PageSet
  BY <1>1 DEF Nodes
<1>5. Oldest.type = "W" => \A p \in Oldest.pages : p \in G /\ Oldest.data[p] = z
  BY <1>1 DEF Shape, Fitting
<1>6. Oldest.type = "W" => \A p \in PageSet : flash[c][p] = Blank \/ flash[c][p] = z
  BY <1>3 DEF Shape, Landing
<1>. QED
  BY <1>1, <1>2, <1>3, <1>4, <1>5, <1>6

(* The oldest operation runs to its end. *)
LEMMA EndKeeps ==
  ASSUME NEW n \in Nat, pend \in Seq(Nodes(n)), flash \in Chips(n), NEW c \in Copies,
         NEW G \in SUBSET PageSet, NEW z, Shape(c, G, z, pend, flash), pend # <<>>,
         NEW q, q = SubSeq(pend, 1, Len(pend) - 1), NEW f, f = Effect(Oldest, flash)
  PROVE  /\ Shape(c, G, z, q, f) /\ ~ Erasing(q)
         /\ \A d \in Copies : d # c => f[d] = flash[d]
<1>1. /\ Oldest \in Nodes(n) /\ Oldest.copy = c
      /\ Erasing(pend) <=> Oldest.type = "E"
      /\ Oldest.type = "W" =>
           \A p \in Oldest.pages : /\ p \in PageSet /\ p \in G /\ Oldest.data[p] = z
                                   /\ flash[c][p] \in {Blank, z}
  BY OldestFits
<1>2. Len(pend) \in Nat \ {0} /\ Oldest = pend[Len(pend)]
  BY OldestTyped DEF Oldest
<1>3. Oldest.type \in {"W", "E"}
  BY <1>1 DEF Nodes
<1>4. Len(q) = Len(pend) - 1 /\ (\A i \in 1 .. Len(pend) - 1 : q[i] = pend[i])
      /\ q \in Seq(Nodes(n))
  <2>. DEFINE k == Len(pend) - 1
  <2>1. k \in 0 .. Len(pend) /\ q = SubSeq(pend, 1, k)
    BY <1>2
  <2>. HIDE DEF k
  <2>2. Len(q) = k /\ (\A i \in 1 .. k : q[i] = pend[i]) /\ q \in Seq(Nodes(n))
    BY <2>1, CutPlaces
  <2>. QED
    BY <2>2 DEF k
<1>5. DOMAIN q = 1 .. Len(pend) - 1 /\ DOMAIN pend = 1 .. Len(pend)
  BY <1>4, LenProperties
<1>6. \A i \in DOMAIN q : i \in DOMAIN pend /\ i < Len(pend) /\ q[i] = pend[i]
                          /\ pend[i].type = "W" /\ ~ pend[i].lock
  BY <1>2, <1>4, <1>5 DEF Shape, Few
<1>7. Few(c, q)
  BY <1>2, <1>4, <1>6 DEF Shape, Few
<1>8. Fitting(c, G, z, q)
  BY <1>6 DEF Shape, Fitting
<1>9. ~ Erasing(q)
  <2>. SUFFICES ASSUME q # <<>> PROVE q[Len(q)].type = "W"
    BY DEF Erasing
  <2>1. Len(q) \in DOMAIN q
    BY <1>4, <1>5, <1>2, EmptySeq
  <2>. QED
    BY <2>1, <1>6
<1>10. \A p \in PageSet : Queued(p, pend) =>
         Queued(p, q) \/ (Oldest.type = "W" /\ p \in Oldest.pages)
  <2>1. \A i \in DOMAIN pend : i = Len(pend) \/ i \in DOMAIN q
    BY <1>2, <1>5
  <2>. QED
    BY <2>1, <1>2, <1>6 DEF Queued
<1>11. \A d \in Copies : d # c => f[d] = flash[d]
  BY <1>1, EffectPages
<1>12. CASE Oldest.type = "E"
  <2>1. \A p \in PageSet : f[c][p] = Blank
    BY <1>1, <1>12, EffectPages DEF Sector
  <2>2. \A p \in G : Queued(p, q)
    BY <1>1, <1>10, <1>12 DEF Shape, Landing
  <2>. QED
    BY <1>7, <1>8, <1>9, <1>11, <2>1, <2>2 DEF Shape, Landing
<1>13. CASE Oldest.type = "W"
  <2>0. \A p \in Oldest.pages : Oldest.data[p] = z /\ flash[Oldest.copy][p] \in {Blank, z}
    BY <1>1, <1>13
  <2>1. \A p \in PageSet : f[c][p] = IF p \in Oldest.pages THEN z ELSE flash[c][p]
    <3>. DEFINE o == Oldest
    <3>1. o \in Nodes(n) /\ o.type = "W" /\ o.copy = c /\ f = Effect(o, flash)
      BY <1>1, <1>13
    <3>3. \A p \in o.pages : o.data[p] = z /\ flash[o.copy][p] \in {Blank, z}
      BY <2>0
    <3>. HIDE DEF o
    <3>2. \A p \in PageSet : Effect(o, flash)[o.copy][p] = IF p \in o.pages THEN z ELSE flash[o.copy][p]
      BY ONLY <3>1, <3>3, WriteLands, n \in Nat, flash \in Chips(n)
    <3>. QED
      BY <3>1, <3>2 DEF o
  <2>2. \A p \in G : Queued(p, q) \/ f[c][p] = z
    BY <1>1, <1>10, <1>13, <2>1 DEF Shape, Landing
  <2>3. \A p \in PageSet : f[c][p] = Blank \/ (p \in G /\ f[c][p] = z)
    BY <1>1, <1>13, <2>1 DEF Shape, Landing
  <2>. QED
    BY <1>7, <1>8, <1>9, <1>11, <2>2, <2>3 DEF Shape, Landing
<1>. QED
  BY <1>3, <1>12, <1>13

(* What the oldest operation may have done half way is no worse. *)
LEMMA PartKeeps ==
  ASSUME NEW n \in Nat, pend \in Seq(Nodes(n)), flash \in Chips(n), NEW c \in Copies,
         NEW G \in SUBSET PageSet, NEW z, Shape(c, G, z, pend, flash), pend # <<>>,
         NEW f \in Partial(Oldest, flash)
  PROVE  /\ Landing(c, G, z, pend, f)
         /\ \A d \in Copies : d # c => f[d] = flash[d]
         /\ Valid(f[c]) => f[c] = flash[c] \/ (f[c] = Sector(z) /\ G # {})
<1>1. /\ Oldest \in Nodes(n) /\ Oldest.copy = c
      /\ Erasing(pend) <=> Oldest.type = "E"
      /\ Oldest.type = "W" =>
           \A p \in Oldest.pages : /\ p \in PageSet /\ p \in G /\ Oldest.data[p] = z
                                   /\ flash[c][p] \in {Blank, z}
  BY OldestFits
<1>2. Oldest.type \in {"W", "E"} /\ f \in Chips(n)
  BY <1>1, PartialTyped DEF Nodes
<1>3. CASE Oldest.type = "E"
  <2>1. PICK d \in {flash[c], Sector(Blank), Sector(Junk)} : f = [flash EXCEPT ![c] = d]
    BY <1>1, <1>3 DEF Partial
  <2>2. f[c] = d /\ \A e \in Copies : e # c => f[e] = flash[e]
    BY <2>1 DEF Chips
  <2>3. Landing(c, G, z, pend, f)
    BY <1>1, <1>3 DEF Shape, Landing
  <2>. QED
    BY <2>1, <2>2, <2>3, NotValid
<1>4. CASE Oldest.type = "W"
  <2>1. PICK k \in PageSet : f = Effect(Begun(Oldest, k), flash)
    BY <1>4 DEF Partial, Begun
  <2>0. \A p \in Oldest.pages : Oldest.data[p] = z /\ flash[Oldest.copy][p] \in {Blank, z}
    BY <1>1, <1>4
  <2>2. /\ \A d \in Copies : d # c => f[d] = flash[d]
        /\ \A p \in PageSet : f[c][p] = IF p \in Oldest.pages /\ p < k THEN z ELSE flash[c][p]
    <3>. DEFINE o == Oldest
    <3>1. o \in Nodes(n) /\ o.type = "W" /\ o.copy = c
          /\ (\A p \in o.pages : o.data[p] = z /\ flash[o.copy][p] \in {Blank, z})
      BY <1>1, <1>4, <2>0
    <3>2. f = Effect(Begun(o, k), flash)
      BY <2>1
    <3>. HIDE DEF o
    <3>. DEFINE g == Effect(Begun(o, k), flash)
    <3>3. /\ \A d \in Copies : d # o.copy => g[d] = flash[d]
          /\ \A p \in PageSet : g[o.copy][p] = IF p \in o.pages /\ p < k THEN z
                                                ELSE flash[o.copy][p]
      <4>1. o.type = "W" /\ \A p \in o.pages : o.data[p] = z /\ flash[o.copy][p] \in {Blank, z}
        BY <3>1
      <4>2. o \in Nodes(n)
        BY <3>1
      <4>. QED
        BY <4>1, <4>2, PartLands, ZenonT(40)
    <3>. HIDE DEF g
    <3>4. /\ \A d \in Copies : d # o.copy => f[d] = flash[d]
          /\ \A p \in PageSet : f[o.copy][p] = IF p \in o.pages /\ p < k THEN z
                                                ELSE flash[o.copy][p]
      BY <3>2, <3>3 DEF g
    <3>. QED
      BY <3>1, <3>4 DEF o
  <2>3. Landing(c, G, z, pend, f)
    BY <1>1, <1>4, <2>2 DEF Shape, Landing
  <2>. QED
    BY <1>1, <1>2, <1>4, <2>2, <2>3, WholeCopy
<1>. QED
  BY <1>2, <1>3, <1>4

(* A flush step keeps the shape, and makes a valid copy only of what was     *)
(* given.                                                                    *)
LEMMA FlushKeeps ==
  ASSUME NEW n \in Nat, pend \in Seq(Nodes(n)), flash \in Chips(n), NEW c \in Copies,
         NEW G \in SUBSET PageSet, NEW z, Shape(c, G, z, pend, flash), Flush
  PROVE  /\ Shape(c, G, z, pend', flash')
         /\ \A d \in Copies : d # c => flash'[d] = flash[d]
         /\ Valid(flash'[c]) => flash'[c] = flash[c] \/ (flash'[c] = Sector(z) /\ G # {})
<1>1. PICK r \in Flushed : pend' = r.pend /\ flash' = r.flash
  BY DEF Flush
<1>2. CASE r = [pend |-> pend, flash |-> flash]
  BY <1>1, <1>2
<1>3. CASE pend # <<>> /\ r = [pend |-> SubSeq(pend, 1, Len(pend) - 1),
                              flash |-> Effect(Oldest, flash)]
  <2>. DEFINE q == SubSeq(pend, 1, Len(pend) - 1)  f == Effect(Oldest, flash)
  <2>1. pend' = q /\ flash' = f
    BY <1>1, <1>3
  <2>2. f \in Chips(n)
    BY <1>3, OldestTyped, EffectTyped
  <2>3. /\ Shape(c, G, z, q, f) /\ ~ Erasing(q)
        /\ \A d \in Copies : d # c => f[d] = flash[d]
    BY <1>3, EndKeeps
  <2>. HIDE DEF q, f
  <2>4. Valid(f[c]) => f[c] = Sector(z) /\ G # {}
    BY <2>2, <2>3, WholeCopy DEF Shape
  <2>. QED
    BY <2>1, <2>3, <2>4
<1>4. CASE pend # <<>> /\ \E f \in Partial(Oldest, flash) :
             r = [pend |-> [pend EXCEPT ![Len(pend)].lock = TRUE], flash |-> f]
  <2>1. PICK f \in Partial(Oldest, flash) :
             r = [pend |-> [pend EXCEPT ![Len(pend)].lock = TRUE], flash |-> f]
    BY <1>4
  <2>. DEFINE q == [pend EXCEPT ![Len(pend)].lock = TRUE]
  <2>2. pend' = q /\ flash' = f
    BY <1>1, <2>1
  <2>3. /\ Landing(c, G, z, pend, f)
        /\ \A d \in Copies : d # c => f[d] = flash[d]
        /\ Valid(f[c]) => f[c] = flash[c] \/ (f[c] = Sector(z) /\ G # {})
    BY <1>4, PartKeeps
  <2>4. /\ Len(pend) \in Nat \ {0} /\ Len(pend) \in DOMAIN pend /\ Oldest \in Nodes(n)
    BY <1>4, OldestTyped
  <2>. DEFINE e == [Oldest EXCEPT !.lock = TRUE]
  <2>5. /\ e \in Nodes(n) /\ e.type = Oldest.type /\ e.pages = Oldest.pages
        /\ e.data = Oldest.data /\ e.copy = Oldest.copy
    BY <2>4 DEF Nodes
  <2>6. q = [pend EXCEPT ![Len(pend)] = e]
    BY DEF Oldest
  <2>. HIDE DEF e
  <2>. HIDE DEF q
  <2>7. /\ q \in Seq(Nodes(n)) /\ Len(q) = Len(pend)
        /\ \A j \in 1 .. Len(pend) : q[j] = IF j = Len(pend) THEN e ELSE pend[j]
    BY <2>4, <2>5, <2>6, ExceptSeq, LenProperties
  <2>8. DOMAIN q = 1 .. Len(pend) /\ DOMAIN pend = 1 .. Len(pend)
    BY <2>7, LenProperties
  <2>9. \A i \in DOMAIN pend : /\ q[i].type = pend[i].type /\ q[i].pages = pend[i].pages
                               /\ q[i].data = pend[i].data /\ q[i].copy = pend[i].copy
                               /\ i < Len(pend) => q[i] = pend[i]
    <3>1. Oldest = pend[Len(pend)]
      BY DEF Oldest
    <3>2. q[Len(pend)] = e
      BY <2>4, <2>7, <2>8
    <3>3. \A i \in DOMAIN pend : i # Len(pend) => q[i] = pend[i]
      BY <2>7, <2>8
    <3>4. \A i \in DOMAIN pend : i < Len(pend) => i # Len(pend)
      BY <2>4, <2>8
    <3>. QED
      BY <2>5, <3>1, <3>2, <3>3, <3>4, Zenon
  <2>10. Few(c, q)
    BY <2>7, <2>8, <2>9 DEF Shape, Few
  <2>11. Fitting(c, G, z, q)
    BY <2>8, <2>9 DEF Shape, Fitting
  <2>12. (Erasing(q) <=> Erasing(pend)) /\ \A p \in PageSet : Queued(p, q) <=> Queued(p, pend)
    <3>1. q # <<>>
      BY <2>4, <2>7, EmptySeq
    <3>2. Erasing(q) <=> Erasing(pend)
      BY <1>4, <3>1, <2>4, <2>7, <2>9 DEF Erasing
    <3>. QED
      BY <3>2, <2>8, <2>9 DEF Queued
  <2>13. Landing(c, G, z, q, f)
    BY <2>3, <2>12 DEF Landing
  <2>. QED
    BY <2>2, <2>3, <2>10, <2>11, <2>13 DEF Shape
<1>. QED
  BY <1>1, <1>2, <1>3, <1>4 DEF Flushed

(* A power failure leaves the other copy alone and this one no valid record  *)
(* but the one before or the one given.                                      *)
LEMMA CrashLeaves ==
  ASSUME NEW n \in Nat, pend \in Seq(Nodes(n)), flash \in Chips(n), NEW c \in Copies,
         NEW G \in SUBSET PageSet, NEW z, Shape(c, G, z, pend, flash),
         NEW f \in CrashResults
  PROVE  /\ f \in Chips(n)
         /\ \A d \in Copies : d # c => f[d] = flash[d]
         /\ Valid(f[c]) => f[c] = flash[c] \/ (f[c] = Sector(z) /\ G # {})
<1>1. CASE f = flash
  BY <1>1
<1>2. CASE pend # <<>> /\ f \in Torn(Oldest, flash)
  <2>0. f \in Chips(n)
    BY <1>2, OldestTyped, TornTyped
  <2>1. CASE f \in Partial(Oldest, flash)
    BY <1>2, <2>0, <2>1, PartKeeps
  <2>2. CASE f \notin Partial(Oldest, flash)
    <3>1. /\ Oldest \in Nodes(n) /\ Oldest.copy = c
          /\ Oldest.type = "W" =>
               \A p \in Oldest.pages : /\ p \in PageSet /\ p \in G /\ Oldest.data[p] = z
                                       /\ flash[c][p] \in {Blank, z}
      BY <1>2, OldestFits
    <3>2. Oldest.type = "W"
      BY <1>2, <2>2, <3>1 DEF Torn, Nodes
    <3>3. PICK k \in Oldest.pages :
             f = [Effect(Begun(Oldest, k), flash) EXCEPT ![Oldest.copy][k] = Junk]
      BY <1>2, <2>2, <3>2 DEF Torn, Begun
    <3>. DEFINE g == Effect(Begun(Oldest, k), flash)
    <3>4. k \in PageSet /\ g \in Chips(n) /\ \A d \in Copies : d # c => g[d] = flash[d]
      BY <3>1, <3>2, PartLands
    <3>. HIDE DEF g
    <3>5. f = [g EXCEPT ![c][k] = Junk]
      BY <3>1, <3>3 DEF g
    <3>6. f[c][k] = Junk /\ \A d \in Copies : d # c => f[d] = flash[d]
      BY <3>4, <3>5 DEF Chips, Records
    <3>7. ~ Valid(f[c])
      <4>1. \A v \in Versions : v # Junk
        BY ConstAssumption DEF Versions, Junk
      <4>2. \A v : Sector(v)[k] = v
        BY <3>4 DEF Sector
      <4>. QED
        BY <3>6, <4>1, <4>2 DEF Valid
    <3>. QED
      BY <2>0, <3>6, <3>7
  <2>. QED
    BY <2>1, <2>2
<1>. QED
  BY <1>1, <1>2 DEF CrashResults

(* Nothing is pending: an erase request puts one operation on the list, or   *)
(* is refused.                                                               *)
LEMMA EraseOpens ==
  ASSUME NEW n \in Nat, pend \in Seq(Nodes(n)), pend = <<>>, NEW c \in Copies, NEW z,
         NEW r \in EraseResults(c)
  PROVE  /\ r.ok => Shape(c, {}, z, r.pend, flash)
         /\ ~ r.ok => r.pend = <<>>
<1>. DEFINE I == {i \in DOMAIN pend : pend[i].copy # c \/ pend[i].lock}
            joined == \E i \in DOMAIN pend :
                        pend[i].copy = c /\ pend[i].lock /\ pend[i].type = "E"
            kept == Keep(pend, I)
            e == EraseNode(c)
            one == <<e>>
<1>1. kept = <<>>
  BY KeepTyped
<1>2. ~ joined
  OBVIOUS
<1>. HIDE DEF I, joined
<1>3. r \in IF joined THEN {[ok |-> TRUE, pend |-> kept]}
            ELSE {[ok |-> TRUE, pend |-> <<EraseNode(c)>> \o kept]} \cup
                 (IF kept = pend THEN {[ok |-> FALSE, pend |-> pend]} ELSE {})
  BY DEF EraseResults, EraseNode, kept, I, joined
<1>. HIDE DEF kept, e
<1>4. one = <<e>> /\ Len(one) = 1 /\ DOMAIN one = {1} /\ one[1] = e /\ one # <<>>
  OBVIOUS
<1>5. <<e>> \o kept = one
  BY <1>1
<1>. HIDE DEF one
<1>6. e.copy = c /\ e.type = "E"
  BY DEF e, EraseNode
<1>7. Shape(c, {}, z, one, flash)
  BY <1>4, <1>6 DEF Shape, Few, Fitting, Landing, Erasing
<1>8. r = [ok |-> TRUE, pend |-> one] \/ r = [ok |-> FALSE, pend |-> pend]
  BY <1>2, <1>3, <1>5 DEF e
<1>9. CASE r = [ok |-> TRUE, pend |-> one]
  BY <1>7, <1>9
<1>10. CASE r = [ok |-> FALSE, pend |-> pend]
  BY <1>10
<1>. QED
  BY <1>8, <1>9, <1>10

(* A write that is refused leaves the list as it is. *)
LEMMA WriteRefused ==
  ASSUME NEW c, NEW pages, NEW data, NEW r \in WriteResults(c, pages, data), ~ r.ok
  PROVE  r.pend = pend
<1>1. CASE \E i \in Hit(pend, c) :
             r = [ok |-> TRUE, pend |-> [pend EXCEPT ![i] = Merged(pages, data, pend[i])]]
  BY <1>1
<1>2. CASE r = [ok |-> TRUE, pend |-> <<WriteNode(c, pages, data)>> \o pend]
  BY <1>2
<1>3. CASE r = [ok |-> FALSE, pend |-> pend]
  BY <1>3
<1>. QED
  BY <1>1, <1>2, <1>3, WriteCases

(* One of z that is accepted keeps the shape, and adds its pages to those    *)
(* given.                                                                    *)
LEMMA WriteKeeps ==
  ASSUME NEW n, NEW c, NEW G, NEW z, NEW pages, NEW data, NEW r,
         n \in Nat, pend \in Seq(Nodes(n)), flash \in Chips(n), c \in Copies,
         G \subseteq PageSet, pages \subseteq PageSet, Shape(c, G, z, pend, flash),
         data \in Records(n), \A p \in pages : data[p] = z,
         c = "main" => pages = PageSet, r \in WriteResults(c, pages, data), r.ok
  PROVE  Shape(c, G \cup pages, z, r.pend, flash)
<1>. DEFINE H == G \cup pages
<1>1. Len(pend) \in Nat /\ DOMAIN pend = 1 .. Len(pend) /\ Len(pend) <= 2
      /\ \A i \in DOMAIN pend : pend[i] \in Nodes(n)
  BY LenProperties, ElementOfSeq DEF Shape, Few
<1>2. \A base, p : p \in pages => p \in PageSet /\ Over(pages, data, base)[p] = z
  BY DEF Over
<1>3. \A base, p : p \in PageSet \ pages => Over(pages, data, base)[p] = base[p]
  BY DEF Over
<1>4. ASSUME NEW i \in Hit(pend, c), pend[i].type = "W",
             r = [ok |-> TRUE, pend |-> [pend EXCEPT ![i] = Merged(pages, data, pend[i])]]
      PROVE  Shape(c, H, z, r.pend, flash)
  <2>. DEFINE m == Merged(pages, data, pend[i])
              q == [pend EXCEPT ![i] = m]
  <2>1. i \in DOMAIN pend /\ ~ pend[i].lock
    BY <1>4 DEF Hit, Stops
  <2>2. /\ pend[i].pages \subseteq G /\ \A p \in pend[i].pages : pend[i].data[p] = z
        /\ c = "main" => pend[i].pages = PageSet
    BY <1>4, <2>1 DEF Shape, Fitting
  <2>3. /\ m.copy = pend[i].copy /\ m.type = "W" /\ ~ m.lock
        /\ m.pages = pend[i].pages \cup pages /\ m.data = Over(pages, data, pend[i].data)
    BY <1>1, <1>4, <2>1 DEF Merged, Nodes
  <2>. HIDE DEF m
  <2>4. Len(q) = Len(pend) /\ DOMAIN q = DOMAIN pend
        /\ \A j \in DOMAIN pend : q[j] = IF j = i THEN m ELSE pend[j]
    BY <1>1, <2>1
  <2>5. q # <<>>
    BY <2>1, <2>4
  <2>. HIDE DEF q
  <2>6. Few(c, q)
    BY <2>1, <2>3, <2>4 DEF Shape, Few
  <2>7. pend[i].pages \subseteq PageSet
    BY <1>1, <2>1 DEF Nodes
  <2>8. \A p \in m.pages : m.data[p] = z
    <3>. SUFFICES ASSUME NEW p \in m.pages PROVE m.data[p] = z
      OBVIOUS
    <3>1. CASE p \in pages
      BY <1>2, <2>3, <3>1
    <3>2. CASE p \notin pages
      <4>1. p \in PageSet \ pages /\ pend[i].data[p] = z
        BY <2>2, <2>3, <2>7, <3>2
      <4>. QED
        BY <1>3, <2>3, <4>1
    <3>. QED
      BY <3>1, <3>2
  <2>9. Fitting(c, H, z, q)
    <3>1. m.pages \subseteq H /\ (c = "main" => m.pages = PageSet)
      BY <2>2, <2>3
    <3>2. \A j \in DOMAIN pend : pend[j].type = "W" =>
            /\ pend[j].pages \subseteq H /\ \A p \in pend[j].pages : pend[j].data[p] = z
            /\ c = "main" => pend[j].pages = PageSet
      BY DEF Shape, Fitting
    <3>. HIDE DEF H
    <3>. QED
      BY <2>4, <2>8, <3>1, <3>2 DEF Fitting
  <2>10. Erasing(q) <=> Erasing(pend)
    <3>1. Len(pend) \in DOMAIN pend /\ pend # <<>>
      BY <1>1, <2>1
    <3>2. q[Len(q)].type = pend[Len(pend)].type
      BY <1>4, <2>3, <2>4, <3>1
    <3>. QED
      BY <2>5, <3>1, <3>2 DEF Erasing
  <2>11. \A p \in PageSet : Queued(p, pend) \/ p \in pages => Queued(p, q)
    BY <2>1, <2>3, <2>4 DEF Queued
  <2>12. Landing(c, H, z, q, flash)
    BY <2>10, <2>11 DEF Shape, Landing
  <2>13. Shape(c, H, z, q, flash)
    BY <2>6, <2>9, <2>12 DEF Shape
  <2>14. r.pend = q
    BY <1>4 DEF q, m
  <2>. QED
    BY <2>13, <2>14
<1>5. ASSUME \A i \in Hit(pend, c) : pend[i].type # "W",
             r = [ok |-> TRUE, pend |-> <<WriteNode(c, pages, data)>> \o pend]
      PROVE  Shape(c, H, z, r.pend, flash)
  <2>. DEFINE w == WriteNode(c, pages, data)
              q == <<w>> \o pend
  <2>1. \A i \in DOMAIN pend : pend[i].type = "W" => pend[i].lock
    <3>. SUFFICES ASSUME NEW i \in DOMAIN pend, pend[i].type = "W", ~ pend[i].lock
                  PROVE  FALSE
      OBVIOUS
    <3>1. \A j \in DOMAIN pend : Stops(pend, c, j) => j = i \/ pend[j].type = "W" \/ i < j
      BY <1>1 DEF Shape, Few
    <3>2. Stops(pend, c, i)
      BY DEF Stops, Shape, Few
    <3>3. i = 1 \/ i = 2
      BY <1>1
    <3>4. CASE i = 1
      BY <1>5, <3>2, <3>4 DEF Hit
    <3>5. CASE i = 2
      <4>1. 1 \in DOMAIN pend /\ 1 < Len(pend)
        BY <1>1, <3>5
      <4>2. pend[1].type = "W" /\ ~ pend[1].lock /\ pend[1].copy = c
        BY <4>1 DEF Shape, Few
      <4>3. 1 \in Hit(pend, c)
        BY <4>1, <4>2 DEF Hit, Stops
      <4>. QED
        BY <1>5, <4>2, <4>3
    <3>. QED
      BY <3>3, <3>4, <3>5
  <2>2. Len(pend) <= 1
    <3>. SUFFICES ASSUME Len(pend) = 2 PROVE FALSE
      BY <1>1
    <3>1. 1 \in DOMAIN pend /\ 1 < Len(pend)
      BY <1>1
    <3>. QED
      BY <2>1, <3>1 DEF Shape, Few
  <2>3. w \in Nodes(n)
    <3>1. \A base \in Records(n) : Over(pages, data, base) \in Records(n)
      BY DEF Over, Records
    <3>2. flash[c] \in Records(n) /\ Sector(Blank) \in Records(n)
      BY DEF Chips, Sector, Records, Values
    <3>. QED
      BY <3>1, <3>2 DEF WriteNode, Nodes
  <2>4. /\ w.copy = c /\ w.type = "W" /\ ~ w.lock /\ w.pages = pages
        /\ \A p \in pages : w.data[p] = z
    BY <1>2 DEF WriteNode
  <2>. HIDE DEF w
  <2>5. q \in Seq(Nodes(n)) /\ Len(q) = Len(pend) + 1
        /\ \A i \in 1 .. Len(pend) + 1 : q[i] = IF i = 1 THEN w ELSE pend[i - 1]
    BY <2>3, ConsPlaces
  <2>. HIDE DEF q
  <2>6. DOMAIN q = 1 .. Len(pend) + 1 /\ q # <<>>
    BY <1>1, <2>5, LenProperties, EmptySeq
  <2>7. \A i \in DOMAIN q : i = 1 \/ (i = 2 /\ 1 \in DOMAIN pend /\ q[2] = pend[1] /\ Len(pend) = 1)
    BY <1>1, <2>2, <2>5, <2>6
  <2>8. q[1] = w /\ 1 \in DOMAIN q
    BY <1>1, <2>5, <2>6
  <2>9. Few(c, q)
    BY <1>1, <2>2, <2>4, <2>5, <2>7, <2>8 DEF Shape, Few
  <2>10. Fitting(c, H, z, q)
    BY <2>4, <2>7, <2>8 DEF Shape, Fitting
  <2>11. Erasing(q) <=> Erasing(pend)
    <3>1. CASE Len(pend) = 0
      <4>1. pend = <<>> /\ Len(q) = 1
        BY <2>5, <3>1, EmptySeq
      <4>. QED
        BY <2>4, <2>8, <4>1 DEF Erasing
    <3>2. CASE Len(pend) = 1
      <4>0. pend # <<>>
        BY ONLY <3>2, Len(<<>>) = 0
      <4>1. pend # <<>> /\ Len(q) = 2
        BY <2>5, <3>2, <4>0
      <4>2. q[2] = pend[1]
        BY <2>5, <3>2
      <4>. QED
        BY <2>6, <3>2, <4>1, <4>2 DEF Erasing
    <3>. QED
      BY <1>1, <2>2, <3>1, <3>2
  <2>12. \A p \in PageSet : Queued(p, pend) \/ p \in pages => Queued(p, q)
    <3>1. ASSUME NEW p, Queued(p, pend) PROVE Queued(p, q)
      <4>1. PICK i \in DOMAIN pend : pend[i].type = "W" /\ p \in pend[i].pages
        BY <3>1 DEF Queued
      <4>2. i = 1 /\ 2 \in DOMAIN q /\ q[2] = pend[1]
        BY <1>1, <2>2, <2>5, <2>6, <4>1
      <4>. QED
        BY <4>1, <4>2 DEF Queued
    <3>. QED
      BY <2>4, <2>8, <3>1 DEF Queued
  <2>13. Landing(c, H, z, q, flash)
    BY <2>11, <2>12 DEF Shape, Landing
  <2>14. Shape(c, H, z, q, flash)
    BY <2>9, <2>10, <2>13 DEF Shape
  <2>15. r.pend = q
    BY <1>5 DEF q, w
  <2>. QED
    BY <2>14, <2>15
<1>6. r # [ok |-> FALSE, pend |-> pend]
  <2>. SUFFICES ASSUME r = [ok |-> FALSE, pend |-> pend] PROVE FALSE
    OBVIOUS
  <2>. QED
    OBVIOUS
<1>7. CASE \E i \in Hit(pend, c) :
             /\ pend[i].type = "W"
             /\ r = [ok |-> TRUE, pend |-> [pend EXCEPT ![i] = Merged(pages, data, pend[i])]]
  BY <1>4, <1>7
<1>8. CASE /\ \A i \in Hit(pend, c) : pend[i].type # "W"
           /\ r = [ok |-> TRUE, pend |-> <<WriteNode(c, pages, data)>> \o pend]
  BY <1>5, <1>8
<1>. QED
  BY <1>6, <1>7, <1>8, WriteCases

(* Nothing is pending and all pages were given: the copy holds it. *)
LEMMA AllLanded ==
  ASSUME NEW n \in Nat, flash \in Chips(n), NEW c \in Copies, NEW z,
         Shape(c, PageSet, z, <<>>, flash)
  PROVE  flash[c] = Sector(z)
<1>1. \A p \in PageSet : flash[c][p] = z
  BY DEF Shape, Landing, Queued
<1>. QED
  BY <1>1 DEF Chips, Records, Sector

(* What is read of main while it is flushed, and while bak is *)
LEMMA ViewOfMain ==
  ASSUME NEW n \in Nat, pend \in Seq(Nodes(n)), flash \in Chips(n), NEW c \in Copies, NEW G, NEW z,
         Shape(c, G, z, pend, flash), c = "main" => G = PageSet
  PROVE  View("main") = IF c = "main" THEN Sector(z) ELSE flash["main"]
<1>. DEFINE hit == {i \in DOMAIN pend :
                      pend[i].copy = "main" /\ \A j \in 1 .. i - 1 : pend[j].copy # "main"}
<1>1. Len(pend) \in Nat /\ DOMAIN pend = 1 .. Len(pend)
      /\ \A i \in DOMAIN pend : pend[i] \in Nodes(n)
  BY LenProperties, ElementOfSeq
<1>2. CASE hit = {}
  <2>1. View("main") = flash["main"]
    BY <1>2 DEF View
  <2>2. CASE c = "main"
    <3>1. 1 \in DOMAIN pend => 1 \in hit
      BY <1>1, <2>2 DEF Shape, Few
    <3>2. pend = <<>>
      BY <1>1, <1>2, <3>1, EmptySeq
    <3>. QED
      BY <2>1, <2>2, <3>2, AllLanded
  <2>. QED
    BY <2>1, <2>2
<1>3. CASE hit # {}
  <2>. DEFINE i == CHOOSE j \in hit : TRUE
  <2>1. i \in hit /\ View("main") = pend[i].data
    BY <1>3 DEF View
  <2>. HIDE DEF i
  <2>2. c = "main"
    BY <2>1 DEF Shape, Few
  <2>3. i = 1
    <3>1. i > 1 => 1 \in 1 .. i - 1 /\ 1 \in DOMAIN pend
      BY <1>1, <2>1
    <3>2. 1 \in DOMAIN pend => pend[1].copy = "main"
      BY <2>2 DEF Shape, Few
    <3>. QED
      BY <1>1, <2>1, <3>1, <3>2
  <2>4. pend[1].type = "W"
    <3>. SUFFICES ASSUME pend[1].type # "W" PROVE FALSE
      OBVIOUS
    <3>1. Len(pend) = 1
      BY <1>1, <2>1, <2>3 DEF Shape, Few
    <3>2. \A j \in DOMAIN pend : pend[j].type # "W"
      BY <1>1, <3>1
    <3>3. pend[1].type = "E" /\ pend # <<>>
      BY <1>1, <2>1, <2>3 DEF Nodes
    <3>4. Erasing(pend) /\ \A p : ~ Queued(p, pend)
      BY <3>1, <3>2, <3>3 DEF Erasing, Queued
    <3>. QED
      BY <2>2, <3>4, PagesThere DEF Shape, Landing
  <2>5. \A p \in PageSet : pend[1].data[p] = z
    BY <2>1, <2>2, <2>3, <2>4 DEF Shape, Fitting
  <2>6. pend[1].data \in Records(n)
    BY <1>1, <2>1, <2>3 DEF Nodes
  <2>7. pend[1].data = Sector(z)
    BY <2>5, <2>6 DEF Sector, Records
  <2>. QED
    BY <2>1, <2>2, <2>3, <2>7
<1>. QED
  BY <1>2, <1>3

(* What a short list does, operation by operation *)
LEMMA EffectAllUnfolds ==
  ASSUME NEW n \in Nat, NEW list \in Seq(Nodes(n)), NEW f \in Chips(n)
  PROVE  /\ EffectAll(list, f) \in Chips(n)
         /\ Len(list) = 1 => EffectAll(list, f) = Effect(list[1], f)
         /\ Len(list) = 2 => EffectAll(list, f) = Effect(list[1], Effect(list[2], f))
<1>. DEFINE m == Len(list)
            Q == Chips(n)
            G == [p \in (1 .. m) \X Q |-> Effect(list[m + 1 - p[1]], p[2])]
            Is(g) == g = [k \in 0 .. m |->
                            IF k = 0 THEN f ELSE Effect(list[m + 1 - k], g[k - 1])]
            s == CHOOSE g : Is(g)
<1>1. m \in Nat /\ \A k \in 1 .. m : m + 1 - k \in 1 .. m /\ list[m + 1 - k] \in Nodes(n)
  BY ElementOfSeq, LenProperties
<1>2. G \in [(1 .. m) \X Q -> Q]
  BY <1>1, EffectTyped
<1>3. \A k \in 1 .. m, q \in Q : G[<<k, q>>] = Effect(list[m + 1 - k], q)
  OBVIOUS
<1>. HIDE DEF G, Q
<1>4. PICK g \in [0 .. m -> Q] : Unfolds(g, m, f, G)
  BY <1>1, <1>2, RecursionThere DEF Q
<1>5. Is(g)
  <2>1. \A k \in 1 .. m : g[k - 1] \in Q
    BY <1>1
  <2>2. \A k \in 1 .. m : g[k] = Effect(list[m + 1 - k], g[k - 1])
    BY <1>3, <1>4, <2>1 DEF Unfolds
  <2>3. g[0] = f
    BY <1>4 DEF Unfolds
  <2>4. \A k \in 0 .. m : k = 0 \/ (k \in 1 .. m /\ k # 0)
    BY <1>1
  <2>. HIDE DEF m
  <2>5. \A k \in 0 .. m : g[k] = IF k = 0 THEN f ELSE Effect(list[m + 1 - k], g[k - 1])
    BY <2>2, <2>3, <2>4
  <2>. QED
    BY <2>5
<1>6. Is(s)
  BY <1>5
<1>7. EffectAll(list, f) = s[m]
  BY DEF EffectAll
<1>8. \A k \in 0 .. m : s[k] = IF k = 0 THEN f ELSE Effect(list[m + 1 - k], s[k - 1])
  BY <1>6
<1>. HIDE DEF s
<1>9. s[m] \in Q
  <2>1. s[0] = f /\ \A k \in 1 .. m : s[k] = Effect(list[m + 1 - k], s[k - 1])
    <3>1. \A k \in 1 .. m : k \in 0 .. m /\ k # 0
      BY <1>1
    <3>2. 0 \in 0 .. m
      BY <1>1
    <3>. HIDE DEF m
    <3>. QED
      BY <1>8, <3>1, <3>2
  <2>2. Continues(s, m, f, Q, G)
    BY <1>3, <2>1 DEF Continues
  <2>3. f \in Q /\ m \in 0 .. m
    BY <1>1 DEF Q
  <2>. HIDE DEF m
  <2>. QED
    BY <1>1, <1>2, <2>2, <2>3, RecursionStays
<1>10. CASE m = 1
  <2>1. s[0] = f /\ s[1] = Effect(list[1], s[0])
    BY <1>8, <1>10
  <2>. QED
    BY <1>7, <1>9, <1>10, <2>1 DEF Q
<1>11. CASE m = 2
  <2>1. s[0] = f /\ s[1] = Effect(list[2], s[0]) /\ s[2] = Effect(list[1], s[1])
    BY <1>8, <1>11
  <2>. QED
    BY <1>7, <1>9, <1>11, <2>1 DEF Q
<1>. QED
  BY <1>7, <1>9, <1>10, <1>11 DEF Q

(* Once all that is pending has run, each page a write names has what the    *)
(* write was given.                                                          *)
LEMMA AllClean ==
  ASSUME NEW n \in Nat, pend \in Seq(Nodes(n)), flash \in Chips(n), NEW c \in Copies,
         NEW G \in SUBSET PageSet, NEW z, Shape(c, G, z, pend, flash),
         NEW i \in DOMAIN pend, pend[i].type = "W", NEW p \in pend[i].pages
  PROVE  EffectAll(pend, flash)[c][p] = pend[i].data[p]
<1>1. Len(pend) \in Nat /\ DOMAIN pend = 1 .. Len(pend) /\ Len(pend) <= 2
      /\ \A j \in DOMAIN pend : pend[j] \in Nodes(n) /\ pend[j].copy = c
  BY LenProperties, ElementOfSeq DEF Shape, Few
<1>2. \A j \in DOMAIN pend : pend[j].type = "W" =>
        \A x \in pend[j].pages : x \in PageSet /\ pend[j].data[x] = z
  BY <1>1 DEF Shape, Fitting, Nodes
<1>3. ASSUME NEW j \in DOMAIN pend, NEW f \in Chips(n),
             \A x \in PageSet : f[c][x] \in {Blank, z}
      PROVE  /\ Effect(pend[j], f) \in Chips(n)
             /\ \A x \in PageSet : Effect(pend[j], f)[c][x] \in {Blank, z}
             /\ pend[j].type = "W" => \A x \in PageSet :
                  Effect(pend[j], f)[c][x] = IF x \in pend[j].pages THEN z ELSE f[c][x]
  <2>. DEFINE o == pend[j]
  <2>1. o \in Nodes(n) /\ o.copy = c /\ o.type \in {"W", "E"}
    BY <1>1 DEF Nodes
  <2>2. o.type = "W" => \A x \in o.pages : o.data[x] = z /\ f[o.copy][x] \in {Blank, z}
    BY <1>1, <1>2, <1>3
  <2>. HIDE DEF o
  <2>3. Effect(o, f) \in Chips(n)
    BY <2>1, EffectTyped
  <2>4. CASE o.type = "E"
    <3>1. Effect(o, f)[c] = Sector(Blank)
      BY <2>1, <2>4, EffectPages
    <3>. QED
      BY <2>3, <2>4, <3>1 DEF Sector, o
  <2>5. CASE o.type = "W"
    <3>1. \A x \in PageSet : Effect(o, f)[o.copy][x] = IF x \in o.pages THEN z ELSE f[o.copy][x]
      BY ONLY <2>1, <2>2, <2>5, WriteLands, n \in Nat, f \in Chips(n)
    <3>2. \A x \in PageSet : Effect(o, f)[c][x] = IF x \in o.pages THEN z ELSE f[c][x]
      BY <2>1, <3>1
    <3>3. \A x \in PageSet : Effect(o, f)[c][x] \in {Blank, z}
      BY <1>3, <3>2
    <3>. QED
      BY <2>3, <3>2, <3>3 DEF o
  <2>. QED
    BY <2>1, <2>4, <2>5
<1>4. p \in PageSet /\ pend[i].data[p] = z
  BY <1>2
<1>5. CASE Len(pend) = 1
  <2>1. i = 1 /\ 1 \in DOMAIN pend /\ pend[Len(pend)].type = "W"
    BY <1>1, <1>5
  <2>2. \A x \in PageSet : flash[c][x] \in {Blank, z}
    BY <2>1 DEF Shape, Landing, Erasing
  <2>3. Effect(pend[1], flash)[c][p] = z
    BY <1>3, <1>4, <2>1, <2>2
  <2>. QED
    BY <1>4, <1>5, <2>3, EffectAllUnfolds
<1>6. CASE Len(pend) = 2
  <2>. DEFINE f == Effect(pend[2], flash)
  <2>1. 1 \in DOMAIN pend /\ 2 \in DOMAIN pend /\ (i = 1 \/ i = 2) /\ pend[1].type = "W"
    BY <1>1, <1>6 DEF Shape, Few
  <2>2. /\ f \in Chips(n) /\ \A x \in PageSet : f[c][x] \in {Blank, z}
        /\ i = 2 => f[c][p] = z
    <3>1. CASE pend[2].type = "E"
      <4>1. f[c] = Sector(Blank) /\ f \in Chips(n)
        BY <1>1, <2>1, <3>1, EffectPages, EffectTyped
      <4>. QED
        BY <3>1, <4>1 DEF Sector
    <3>2. CASE pend[2].type # "E"
      <4>1. \A x \in PageSet : flash[c][x] \in {Blank, z}
        BY <1>6, <3>2 DEF Shape, Landing, Erasing
      <4>2. pend[2].type = "W"
        BY <1>1, <2>1, <3>2 DEF Nodes
      <4>. QED
        BY <1>3, <1>4, <2>1, <4>1, <4>2
    <3>. QED
      BY <3>1, <3>2
  <2>. HIDE DEF f
  <2>3. \A x \in PageSet : Effect(pend[1], f)[c][x] = IF x \in pend[1].pages THEN z ELSE f[c][x]
    BY <1>3, <2>1, <2>2
  <2>4. Effect(pend[1], f)[c][p] = z
    BY <1>4, <2>1, <2>2, <2>3
  <2>5. EffectAll(pend, flash) = Effect(pend[1], f)
    BY <1>6, EffectAllUnfolds DEF f
  <2>. QED
    BY <1>4, <2>4, <2>5
<1>. QED
  BY <1>1, <1>5, <1>6

-----------------------------------------------------------------------------
(* The invariant.  As long as no flush was started inside another one, there *)
(* is one place l in the flush where the thread in it is, "out" if there is  *)
(* none, and one version z that is being written or copied: Blank when a     *)
(* rebuild has cleared the flash under a flush that was on its way.          *)

Drafts == (0 .. updates) \cup {Blank}

(* The copy has been erased, or will be before anything is written to it. *)
Opened(l) == ~ MayErase(state[2]) \/ l = "erased"

(* The pages of the copy that were given to the flash layer *)
Given(l) ==
  IF state[2] = "WRITTEN" \/ (state[1] = "main" /\ l = "written") THEN PageSet
  ELSE IF state[1] = "bak" /\ state[2] = "WRITTING"
  THEN 0 .. (IF l = "written" THEN written ELSE written - 1)
  ELSE {}

(* The thread in the flush agrees with the shared state. *)
Control(l) ==
  /\ l \in Labels \ {"failed", "cleared"} /\ written \in 0 .. NPages
  /\ l \in {"erase", "erflush", "erased"} => MayErase(state[2])
  /\ l = "test" => ~ MayErase(state[2])
  /\ l \in {"write", "wrflush", "written"} =>
       MayWrite(state[2]) /\ (state[1] = "bak" => state[2] = "WRITTING")
  /\ l = "written" /\ state[1] = "bak" => written < NPages
  /\ l \in {"drain", "done"} => state[2] = "WRITTEN"
  /\ l = "done" => pend = <<>>

(* The backup copy is one to fall back to. *)
Fallback == Valid(flash["bak"]) /\ flash["bak"][0] >= durable

(* Two different copies are what a boot has found. *)
Paired == flash["bak"] = flash["main"] \/ durable = Lasting(flash)

(* Main is idle, or about to be rewritten, or being rewritten. *)
MainPhase(l, z) ==
  /\ (state[2] \notin {"START", "WRITTEN"} \/ l \notin {"out", "top"}) =>
       upd \/ l = "written" \/ state[2] = "WRITTEN"
  /\ state[2] = "START" /\ l \in {"out", "top"} =>
       upd \/ Rebuilding \/ (Fallback /\ Paired /\ (overtaken \/ flash["main"] = Sector(ram)))
  /\ durable = Blank \/ Fallback
  /\ Valid(flash["main"]) => flash["main"][0] >= durable
  /\ Given(l) # {} =>
       /\ z <= ram /\ z >= durable
       /\ z = Blank => flash["bak"] = Sector(Blank) /\ (upd \/ Rebuilding) /\ l # "written"
  /\ state[2] = "WRITTEN" => upd \/ Rebuilding \/ overtaken \/ z = ram

(* Main is complete and is being copied to bak. *)
BakPhase(z) ==
  /\ flash["main"] = Sector(z)
  /\ z >= durable
  /\ z = Blank => upd \/ Rebuilding
  /\ upd \/ Rebuilding \/ overtaken \/ z = ram

Ready(l, z) ==
  /\ Control(l)
  /\ durable <= ram
  /\ IF Opened(l) THEN Shape(state[1], Given(l), z, pend, flash) ELSE pend = <<>>
  /\ state[1] = "main" => MainPhase(l, z)
  /\ state[1] = "bak" => BakPhase(z)

Good(l) == \E z \in Drafts : Ready(l, z)

(* l is where the thread in the flush is; a rebuild may wait outside. *)
Apart(u) == pc[u] \in {"out", "cleared"}

Where(l) ==
  \/ l = "out" /\ \A t \in Tasks : Apart(t)
  \/ /\ l # "out"
     /\ \E t \in Tasks : /\ pc[t] = l
                         /\ l = "top" \/ at[t] = state[1]
                         /\ \A u \in Tasks \ {t} : Apart(u)

(* A rebuild under way is the only one, and its change is allowed for. *)
OneRebuild ==
  /\ Rebuilding => updates < MaxUpdates
  /\ \A t, u \in Tasks : pc[t] = "cleared" /\ pc[u] = "cleared" => t = u

NvInv == Typed /\ OneRebuild /\ (raced \/ \E l \in Labels : Where(l) /\ Good(l))

(* What the steps start from, piece by piece *)
LEMMA TypedParts ==
  ASSUME Typed
  PROVE  /\ updates \in Nat /\ ram \in Nat /\ ram <= updates /\ upd \in BOOLEAN
         /\ state[1] \in Copies /\ state[2] \in Steps /\ state = <<state[1], state[2]>>
         /\ written \in Nat /\ pend \in Seq(Nodes(updates)) /\ flash \in Chips(updates)
         /\ durable \in Drafts /\ durable \in Int /\ Drafts \subseteq Int
         /\ \A c \in Copies : flash[c] \in Records(updates)
BY ConstAssumption DEF Typed, Drafts, Blank, Chips

(* The version of a valid copy is its first page. *)
LEMMA VersionOf ==
  ASSUME Typed, NEW c \in Copies, Valid(flash[c])
  PROVE  flash[c][0] \in Nat /\ flash[c] = Sector(flash[c][0])
<1>1. PICK v \in Versions : flash[c] = Sector(v)
  BY DEF Valid
<1>. QED
  BY <1>1, PagesThere, ConstAssumption DEF Sector, Versions

(* What a draft makes of a copy *)
LEMMA DraftSector ==
  ASSUME Typed, NEW z \in Drafts
  PROVE  /\ Sector(z)[0] = z /\ (Valid(Sector(z)) <=> z # Blank)
         /\ \A y : Sector(z) = Sector(y) => z = y
         /\ Sector(z) \in Records(updates)
<1>1. \A y : Sector(y)[0] = y
  BY PagesThere DEF Sector
<1>2. z # Blank => z \in Versions
  BY ConstAssumption DEF Typed, Drafts, Versions
<1>3. Sector(z) \in Records(updates)
  BY DEF Sector, Records, Values, Drafts
<1>. QED
  BY <1>1, <1>2, <1>3, NotValid, SectorValid

(* The pages given are pages. *)
LEMMA GivenPages ==
  ASSUME Typed, NEW l, Control(l)
  PROVE  Given(l) \in SUBSET PageSet
BY PagesThere DEF Typed, Control, Given, PageSet

(* As long as nothing was given, it does not matter what. *)
LEMMA NothingGiven ==
  ASSUME NEW c, NEW y, NEW z, NEW q, NEW f, Shape(c, {}, y, q, f)
  PROVE  Shape(c, {}, z, q, f)
BY DEF Shape, Fitting, Landing

(* A flush step with nothing pending does nothing. *)
LEMMA FlushNothing ==
  ASSUME pend = <<>>, Flush
  PROVE  pend' = <<>> /\ flash' = flash
BY DEF Flush, Flushed

(* A flush step keeps what is being written. *)
LEMMA FlushReady ==
  ASSUME Typed, NEW l, NEW z \in Drafts, Ready(l, z), Flush,
         UNCHANGED <<ram, nvs, durable, overtaken, updates>>,
         Rebuilding' <=> Rebuilding
  PROVE  Ready(l, z)'
<1>1. /\ updates \in Nat /\ pend \in Seq(Nodes(updates)) /\ flash \in Chips(updates)
      /\ state[1] \in Copies /\ state[2] \in Steps
  BY TypedParts
<1>2. /\ ram' = ram /\ upd' = upd /\ state' = state /\ written' = written
      /\ durable' = durable /\ overtaken' = overtaken
  BY DEF nvs
<1>3. Control(l)' /\ durable' <= ram'
  BY <1>2, FlushNothing DEF Ready, Control
<1>4. (Given(l)' = Given(l)) /\ (Opened(l)' <=> Opened(l))
  BY <1>2 DEF Given, Opened
<1>5. CASE ~ Opened(l)
  <2>1. pend' = <<>> /\ flash' = flash
    BY <1>5, FlushNothing DEF Ready
  <2>. QED
    BY <1>2, <1>3, <1>4, <1>5, <2>1 DEF Ready, MainPhase, BakPhase, Fallback, Paired
<1>6. CASE Opened(l)
  <2>1. Shape(state[1], Given(l), z, pend, flash) /\ Given(l) \in SUBSET PageSet
    BY <1>6, GivenPages DEF Ready
  <2>2. /\ Shape(state[1], Given(l), z, pend', flash')
        /\ \A d \in Copies : d # state[1] => flash'[d] = flash[d]
        /\ Valid(flash'[state[1]]) =>
             flash'[state[1]] = flash[state[1]]
             \/ (flash'[state[1]] = Sector(z) /\ Given(l) # {})
    BY <1>1, <2>1, FlushKeeps
  <2>3. CASE state[1] = "main"
    <3>1. flash'["bak"] = flash["bak"]
      BY <2>2, <2>3 DEF Copies
    <3>2. Valid(flash'["main"]) => flash'["main"][0] >= durable
      BY <2>2, <2>3, DraftSector DEF Ready, MainPhase
    <3>3. ~ (state[2] = "START" /\ l \in {"out", "top"})
      BY <1>6 DEF Opened, MayErase
    <3>4. MainPhase(l, z)'
      BY <1>2, <1>4, <2>3, <3>1, <3>2, <3>3 DEF Ready, MainPhase, Fallback, Paired
    <3>. QED
      BY <1>2, <1>3, <1>4, <1>6, <2>2, <2>3, <3>4 DEF Ready
  <2>4. CASE state[1] = "bak"
    <3>1. flash'["main"] = flash["main"]
      BY <2>2, <2>4 DEF Copies
    <3>2. BakPhase(z)'
      BY <1>2, <2>4, <3>1 DEF Ready, BakPhase
    <3>. QED
      BY <1>2, <1>3, <1>4, <1>6, <2>2, <2>4, <3>2 DEF Ready
  <2>. QED
    BY <1>1, <2>3, <2>4 DEF Copies
<1>. QED
  BY <1>5, <1>6

-----------------------------------------------------------------------------
(* The steps of a thread in the flush *)

(* Thread t goes to a place where the invariant holds. *)
Lands(t) ==
  \E l \in Labels : /\ pc' = [pc EXCEPT ![t] = l]
                    /\ l \in {"out", "top"} \/ at'[t] = state'[1]
                    /\ Good(l)'

(* A place and a draft for it *)
LEMMA LandsAt ==
  ASSUME NEW t, NEW l \in Labels, NEW z, (z \in Drafts)', Ready(l, z)', Goto(t, l),
         l \in {"out", "top"} \/ at'[t] = state'[1]
  PROVE  Lands(t)
<1>1. Good(l)'
  BY DEF Good
<1>. QED
  BY <1>1 DEF Lands, Goto

(* Only the place changes. *)
LEMMA Relabel ==
  ASSUME Typed, NEW k, NEW l, NEW z, Ready(k, z), Control(l),
         Given(l) = Given(k), Opened(l) <=> Opened(k),
         state[1] = "main" => MainPhase(l, z),
         UNCHANGED <<ram, nvs, pend, flash, durable, overtaken>>, Rebuilding' <=> Rebuilding
  PROVE  Ready(l, z)'
<1>1. /\ ram' = ram /\ upd' = upd /\ state' = state /\ written' = written /\ pend' = pend
      /\ durable' = durable /\ overtaken' = overtaken /\ flash' = flash
  BY DEF nvs
<1>2. Control(l)' /\ (Given(l)' = Given(k)) /\ (Opened(l)' <=> Opened(k))
  BY <1>1 DEF Control, Given, Opened
<1>3. state[1] = "main" => MainPhase(l, z)'
  BY <1>1 DEF MainPhase, Fallback, Paired, Given
<1>. QED
  BY <1>1, <1>2, <1>3 DEF Ready, BakPhase

LEMMA TopStep ==
  ASSUME Typed, NEW t \in Tasks, NEW z \in Drafts, Ready("top", z), SyncTop(t),
         at \in [Tasks -> Copies], UNCHANGED <<ram, updates>>, Rebuilding' <=> Rebuilding
  PROVE  Lands(t)
<1>1. /\ UNCHANGED <<nvs, pend, flash, durable, overtaken>>
      /\ UNCHANGED <<ram, nvs, pend, flash, durable, overtaken>>
  BY DEF SyncTop
<1>2. state' = state /\ (z \in Drafts)'
  BY <1>1 DEF nvs, Drafts
<1>3. state[1] \in Copies /\ state[2] \in Steps /\ state = <<state[1], state[2]>>
  BY TypedParts
<1>4. CASE state = Idle /\ ~ upd
  <2>1. Goto(t, "out")
    BY <1>4 DEF SyncTop
  <2>2. /\ Control("out") /\ Given("out") = Given("top") /\ (Opened("out") <=> Opened("top"))
        /\ state[1] = "main" => MainPhase("out", z)
    BY DEF Ready, Control, Given, Opened, Labels, MainPhase
  <2>3. Ready("out", z)'
    BY <1>1, <2>2, Relabel
  <2>. QED
    BY <1>2, <2>1, <2>3, LandsAt DEF Labels
<1>5. CASE ~ (state = Idle /\ ~ upd)
  <2>1. Goto(t, "enter") /\ at'[t] = state[1]
    BY <1>5 DEF SyncTop
  <2>2. /\ Control("enter") /\ Given("enter") = Given("top") /\ (Opened("enter") <=> Opened("top"))
        /\ state[1] = "main" => MainPhase("enter", z)
    BY <1>3, <1>5 DEF Ready, Control, Given, Opened, Labels, MainPhase, Idle
  <2>3. Ready("enter", z)'
    BY <1>1, <2>2, Relabel
  <2>. QED
    BY <1>2, <2>1, <2>3, LandsAt DEF Labels
<1>. QED
  BY <1>4, <1>5

(* Alone in the flush, the thread finds the state as it left it. *)
LEMMA EnterStep ==
  ASSUME Typed, NEW t \in Tasks, NEW z \in Drafts, Ready("enter", z), SyncEnter(t),
         at[t] = state[1], UNCHANGED <<ram, updates>>, Rebuilding' <=> Rebuilding
  PROVE  Lands(t)
<1>1. /\ UNCHANGED <<nvs, pend, flash, durable, overtaken>> /\ at' = at
      /\ UNCHANGED <<ram, nvs, pend, flash, durable, overtaken>>
  BY DEF SyncEnter
<1>2. state' = state /\ (z \in Drafts)' /\ at'[t] = state'[1]
  BY <1>1 DEF nvs, Drafts
<1>3. state[1] \in Copies /\ state[2] \in Steps
  BY TypedParts
<1>4. CASE MayErase(state[2])
  <2>1. Goto(t, "erase")
    BY <1>4 DEF SyncEnter
  <2>2. /\ Control("erase") /\ Given("erase") = Given("enter") /\ (Opened("erase") <=> Opened("enter"))
        /\ state[1] = "main" => MainPhase("erase", z)
    BY <1>4 DEF Ready, Control, Given, Opened, Labels, MainPhase
  <2>3. Ready("erase", z)'
    BY <1>1, <2>2, Relabel
  <2>. QED
    BY <1>2, <2>1, <2>3, LandsAt DEF Labels
<1>5. CASE ~ MayErase(state[2])
  <2>1. Goto(t, "test")
    BY <1>5 DEF SyncEnter
  <2>2. /\ Control("test") /\ Given("test") = Given("enter") /\ (Opened("test") <=> Opened("enter"))
        /\ state[1] = "main" => MainPhase("test", z)
    BY <1>3, <1>5 DEF Ready, Control, Given, Opened, Labels, MainPhase, MayErase, Steps
  <2>3. Ready("test", z)'
    BY <1>1, <2>2, Relabel
  <2>. QED
    BY <1>2, <2>1, <2>3, LandsAt DEF Labels
<1>. QED
  BY <1>4, <1>5

(* The erase was accepted or refused. *)
LEMMA EraseStep ==
  ASSUME Typed, NEW t \in Tasks, NEW z \in Drafts, Ready("erase", z), SyncErase(t),
         at[t] = state[1], UNCHANGED <<ram, updates>>, Rebuilding' <=> Rebuilding
  PROVE  Lands(t)
<1>1. UNCHANGED <<ram, nvs, flash, durable, overtaken, at, updates>>
  BY DEF SyncErase
<1>2. /\ state' = state /\ at' = at /\ (z \in Drafts)' /\ ram' = ram /\ upd' = upd
      /\ written' = written /\ durable' = durable /\ overtaken' = overtaken /\ flash' = flash
  BY <1>1 DEF nvs, Drafts
<1>3. /\ updates \in Nat /\ pend \in Seq(Nodes(updates)) /\ flash \in Chips(updates)
      /\ state[1] \in Copies /\ state[2] \in Steps
  BY TypedParts
<1>4. MayErase(state[2]) /\ pend = <<>>
  BY DEF Ready, Control, Opened
<1>5. PICK r \in EraseResults(state[1]) :
         pend' = r.pend /\ Goto(t, IF r.ok THEN "erased" ELSE "erflush")
  BY DEF SyncErase
<1>6. state[1] = "main" => upd
  BY <1>4 DEF Ready, MainPhase, MayErase
<1>7. CASE r.ok
  <2>1. Goto(t, "erased")
    BY <1>5, <1>7
  <2>2. Shape(state[1], {}, z, pend', flash)
    BY <1>3, <1>4, <1>5, <1>7, EraseOpens
  <2>3. Given("erased")' = {} /\ Opened("erased")'
    BY <1>2, <1>4 DEF Given, Opened, MayErase
  <2>4. Control("erased")'
    BY <1>2, <1>4 DEF Ready, Control, Labels
  <2>5. state[1] = "main" => MainPhase("erased", z)'
    BY <1>2, <1>4, <1>6, <2>3 DEF Ready, MainPhase, Fallback, Paired, MayErase
  <2>6. Ready("erased", z)'
    BY <1>2, <2>2, <2>3, <2>4, <2>5 DEF Ready, BakPhase
  <2>. QED
    BY <1>2, <2>1, <2>6, LandsAt DEF Labels
<1>8. CASE ~ r.ok
  <2>1. Goto(t, "erflush") /\ pend' = pend
    BY <1>3, <1>4, <1>5, <1>8, EraseOpens
  <2>2. /\ Control("erflush") /\ Given("erflush") = Given("erase")
        /\ (Opened("erflush") <=> Opened("erase"))
        /\ state[1] = "main" => MainPhase("erflush", z)
    BY <1>4, <1>6 DEF Ready, Control, Given, Opened, Labels, MainPhase, MayErase
  <2>3. Ready("erflush", z)'
    BY <1>1, <2>1, <2>2, Relabel
  <2>. QED
    BY <1>2, <2>1, <2>3, LandsAt DEF Labels
<1>. QED
  BY <1>7, <1>8

(* The state follows. *)
LEMMA ErasedStep ==
  ASSUME Typed, NEW t \in Tasks, NEW z \in Drafts, Ready("erased", z), SyncErased(t),
         at[t] = state[1], UNCHANGED <<ram, updates>>, Rebuilding' <=> Rebuilding
  PROVE  Lands(t)
<1>1. /\ state' = <<state[1], "ERASED">> /\ at' = at /\ (z \in Drafts)' /\ ram' = ram
      /\ upd' = upd /\ written' = written /\ durable' = durable /\ overtaken' = overtaken
      /\ flash' = flash /\ pend' = pend
  BY DEF SyncErased, nvs, Drafts
<1>2. state'[1] = state[1] /\ state'[2] = "ERASED"
  BY <1>1
<1>3. MayErase(state[2])
  BY DEF Ready, Control
<1>4. state[1] = "main" => upd
  BY <1>3 DEF Ready, MainPhase, MayErase
<1>5. /\ Given("test")' = {} /\ Opened("test")' /\ Given("erased") = {} /\ Opened("erased")
  BY <1>2, <1>3, TypedParts DEF Given, Opened, MayErase, Copies
<1>6. Control("test")'
  BY <1>1, <1>2 DEF Ready, Control, Labels, MayErase
<1>7. state[1] = "main" => MainPhase("test", z)'
  BY <1>1, <1>2, <1>4, <1>5 DEF Ready, MainPhase, Fallback, Paired
<1>8. Ready("test", z)'
  BY <1>1, <1>2, <1>5, <1>6, <1>7 DEF Ready, BakPhase
<1>9. Goto(t, "test") /\ at'[t] = state'[1]
  BY <1>1, <1>2 DEF SyncErased
<1>. QED
  BY <1>1, <1>8, <1>9, LandsAt DEF Labels

(* On to write what is not written yet, or to wait *)
LEMMA TestStep ==
  ASSUME Typed, NEW t \in Tasks, NEW z \in Drafts, Ready("test", z), SyncTest(t),
         at[t] = state[1], UNCHANGED <<ram, updates>>, Rebuilding' <=> Rebuilding
  PROVE  Lands(t)
<1>1. /\ at' = at /\ (z \in Drafts)' /\ ram' = ram
      /\ upd' = upd /\ durable' = durable /\ overtaken' = overtaken
      /\ flash' = flash /\ pend' = pend
  BY DEF SyncTest, nvs, Drafts
<1>2. state[1] \in Copies /\ state[2] \in Steps /\ state = <<state[1], state[2]>>
  BY TypedParts
<1>3. ~ MayErase(state[2])
  BY DEF Ready, Control
<1>4. CASE ~ MayWrite(state[2])
  <2>1. Goto(t, "drain") /\ state' = state /\ written' = written
    BY <1>4 DEF SyncTest
  <2>2. state[2] = "WRITTEN"
    BY <1>2, <1>3, <1>4 DEF MayErase, MayWrite, Steps
  <2>3. /\ Control("drain") /\ Given("drain") = Given("test")
        /\ (Opened("drain") <=> Opened("test"))
        /\ state[1] = "main" => MainPhase("drain", z)
    BY <1>3, <2>2 DEF Ready, Control, Given, Opened, Labels, MainPhase
  <2>4. Ready("drain", z)'
    BY <1>1, <2>1, <2>3, Relabel DEF nvs
  <2>. QED
    BY <1>1, <2>1, <2>4, LandsAt DEF Labels
<1>5. CASE MayWrite(state[2]) /\ state # <<"bak", "ERASED">>
  <2>1. Goto(t, "write") /\ state' = state /\ written' = written
    BY <1>5 DEF SyncTest
  <2>2. state[1] = "bak" => state[2] = "WRITTING"
    BY <1>2, <1>5 DEF MayWrite
  <2>3. /\ Control("write") /\ Given("write") = Given("test")
        /\ (Opened("write") <=> Opened("test"))
        /\ state[1] = "main" => MainPhase("write", z)
    BY <1>3, <1>5, <2>2 DEF Ready, Control, Given, Opened, Labels, MainPhase, MayWrite
  <2>4. Ready("write", z)'
    BY <1>1, <2>1, <2>3, Relabel DEF nvs
  <2>. QED
    BY <1>1, <2>1, <2>4, LandsAt DEF Labels
<1>6. CASE state = <<"bak", "ERASED">>
  <2>1. Goto(t, "write") /\ state' = <<"bak", "WRITTING">> /\ written' = 0
    BY <1>6 DEF SyncTest, MayWrite
  <2>2. /\ state[1] = "bak" /\ state[2] = "ERASED" /\ state'[1] = "bak" /\ state'[2] = "WRITTING"
    BY <1>6, <2>1
  <2>3. /\ Given("test") = {} /\ Given("write")' = {} /\ Opened("test") /\ Opened("write")'
    BY <2>1, <2>2 DEF Given, Opened, MayErase
  <2>4. Control("write")'
    BY <2>1, <2>2, PagesThere DEF Ready, Control, Labels, MayWrite
  <2>5. Ready("write", z)'
    BY <1>1, <2>2, <2>3, <2>4 DEF Ready, BakPhase
  <2>. QED
    BY <1>1, <2>1, <2>2, <2>5, LandsAt DEF Labels
<1>. QED
  BY <1>4, <1>5, <1>6 DEF MayWrite

(* A write of the record to main: accepted, the record is what is written;   *)
(* refused, nothing has changed.                                             *)
LEMMA MainGiven ==
  ASSUME Typed, NEW l, NEW z \in Drafts, Ready(l, z), l # "written",
         state[1] = "main", MayWrite(state[2]),
         NEW r \in WriteResults("main", PageSet, Sector(ram))
  PROVE  /\ r.ok => Shape("main", PageSet, ram, r.pend, flash)
         /\ ~ r.ok => r.pend = pend
         /\ Given(l) = {} /\ Opened(l) /\ ram \in Drafts /\ ram # Blank
<1>1. /\ updates \in Nat /\ pend \in Seq(Nodes(updates)) /\ flash \in Chips(updates)
      /\ ram \in Nat /\ ram <= updates
  BY TypedParts
<1>2. ram \in Drafts /\ ram # Blank
  BY <1>1 DEF Drafts, Blank
<1>3. Given(l) = {} /\ Opened(l)
  BY DEF Given, Opened, MayWrite, MayErase
<1>4. Shape("main", {}, ram, pend, flash)
  BY <1>3, NothingGiven DEF Ready
<1>5. Sector(ram) \in Records(updates)
  BY <1>2, DraftSector
<1>6. \A p \in PageSet : Sector(ram)[p] = ram
  BY DEF Sector
<1>7. "main" \in Copies /\ {} \in SUBSET PageSet /\ PageSet \in SUBSET PageSet
  BY DEF Copies
<1>. DEFINE data == Sector(ram)  none == {}
<1>8. /\ r \in WriteResults("main", PageSet, data) /\ data \in Records(updates)
      /\ \A p \in PageSet : data[p] = ram
      /\ none \in SUBSET PageSet /\ Shape("main", none, ram, pend, flash)
  BY <1>4, <1>5, <1>6
<1>9. none \cup PageSet = PageSet
  OBVIOUS
<1>. HIDE DEF none, data
<1>10. r.ok => Shape("main", none \cup PageSet, ram, r.pend, flash)
  BY ONLY <1>1, <1>7, <1>8, WriteKeeps
<1>11. ~ r.ok => r.pend = pend
  BY WriteRefused
<1>. QED
  BY <1>2, <1>3, <1>9, <1>10, <1>11

LEMMA WriteMainStep ==
  ASSUME Typed, NEW t \in Tasks, NEW z \in Drafts, Ready("write", z), SyncWriteMain(t),
         at[t] = state[1], UNCHANGED <<ram, updates>>, Rebuilding' <=> Rebuilding
  PROVE  Lands(t)
<1>1. UNCHANGED <<ram, nvs, flash, durable, overtaken, at, updates>>
  BY DEF SyncWriteMain
<1>2. /\ state' = state /\ at' = at /\ Drafts' = Drafts /\ ram' = ram /\ upd' = upd
      /\ written' = written /\ durable' = durable /\ overtaken' = overtaken /\ flash' = flash
  BY <1>1 DEF nvs, Drafts
<1>3. state[1] = "main" /\ MayWrite(state[2])
  BY DEF SyncWriteMain, Ready, Control
<1>4. PICK r \in WriteResults("main", PageSet, Sector(ram)) :
         pend' = r.pend /\ Goto(t, IF r.ok THEN "written" ELSE "wrflush")
  BY DEF SyncWriteMain
<1>5. /\ r.ok => Shape("main", PageSet, ram, r.pend, flash)
      /\ ~ r.ok => r.pend = pend
      /\ Given("write") = {} /\ Opened("write") /\ ram \in Drafts /\ ram # Blank
  BY <1>3, MainGiven
<1>6. CASE r.ok
  <2>1. Goto(t, "written")
    BY <1>4, <1>6
  <2>2. Given("written")' = PageSet /\ Opened("written")'
    BY <1>2, <1>3 DEF Given, Opened, MayErase, MayWrite
  <2>3. Control("written")'
    BY <1>2, <1>3 DEF Ready, Control, Labels
  <2>4. durable <= ram /\ ram <= ram
    BY TypedParts DEF Ready
  <2>5. MainPhase("written", ram)'
    BY <1>2, <1>3, <1>5, <2>2, <2>4 DEF Ready, MainPhase, Fallback, Paired, MayWrite
  <2>6. Ready("written", ram)'
    BY <1>2, <1>3, <1>4, <1>5, <1>6, <2>2, <2>3, <2>4, <2>5 DEF Ready
  <2>. QED
    BY <1>2, <1>5, <2>1, <2>6, LandsAt DEF Labels
<1>7. CASE ~ r.ok
  <2>1. Goto(t, "wrflush") /\ pend' = pend
    BY <1>4, <1>5, <1>7
  <2>2. /\ Control("wrflush") /\ Given("wrflush") = Given("write")
        /\ (Opened("wrflush") <=> Opened("write"))
        /\ state[1] = "main" => MainPhase("wrflush", z)
    BY <1>3 DEF Ready, Control, Given, Opened, Labels, MainPhase, MayWrite
  <2>3. Ready("wrflush", z)'
    BY <1>1, <2>1, <2>2, Relabel
  <2>. QED
    BY <1>2, <2>1, <2>3, LandsAt DEF Labels
<1>. QED
  BY <1>6, <1>7

(* A write of pages read from main to bak *)
LEMMA BakGiven ==
  ASSUME Typed, NEW l, NEW z \in Drafts, Ready(l, z), Opened(l), state[1] = "bak",
         NEW pages \in SUBSET PageSet,
         NEW r \in WriteResults("bak", pages, View("main"))
  PROVE  /\ r.ok => Shape("bak", Given(l) \cup pages, z, r.pend, flash)
         /\ ~ r.ok => r.pend = pend
<1>1. /\ updates \in Nat /\ pend \in Seq(Nodes(updates)) /\ flash \in Chips(updates)
  BY TypedParts
<1>2. Given(l) \in SUBSET PageSet /\ Shape("bak", Given(l), z, pend, flash)
      /\ flash["main"] = Sector(z)
  BY GivenPages DEF Ready, BakPhase
<1>3. View("main") = Sector(z)
  BY <1>1, <1>2, ViewOfMain DEF Copies
<1>4. Sector(z) \in Records(updates) /\ \A p \in PageSet : Sector(z)[p] = z
  BY DraftSector DEF Sector
<1>. DEFINE data == Sector(z)  G == Given(l)
<1>5. /\ r \in WriteResults("bak", pages, data) /\ data \in Records(updates)
      /\ \A p \in pages : data[p] = z
      /\ G \in SUBSET PageSet /\ Shape("bak", G, z, pend, flash)
      /\ "bak" \in Copies /\ "bak" # "main"
  BY <1>2, <1>3, <1>4 DEF Copies
<1>. HIDE DEF data, G
<1>6. r.ok => Shape("bak", G \cup pages, z, r.pend, flash)
  BY ONLY <1>1, <1>5, WriteKeeps, pages \in SUBSET PageSet
<1>7. ~ r.ok => r.pend = pend
  BY WriteRefused
<1>. QED
  BY <1>6, <1>7 DEF G

LEMMA WriteBakStep ==
  ASSUME Typed, NEW t \in Tasks, NEW z \in Drafts, Ready("write", z), SyncWriteBak(t),
         at[t] = state[1], UNCHANGED <<ram, updates>>, Rebuilding' <=> Rebuilding
  PROVE  Lands(t)
<1>1. UNCHANGED <<ram, flash, durable, overtaken, at, updates, upd, written>>
  BY DEF SyncWriteBak
<1>2. /\ at' = at /\ Drafts' = Drafts /\ ram' = ram /\ upd' = upd
      /\ written' = written /\ durable' = durable /\ overtaken' = overtaken /\ flash' = flash
  BY <1>1 DEF Drafts
<1>3. state[1] = "bak" /\ state[2] = "WRITTING" /\ written \in 0 .. NPages
      /\ NPages \in Nat \ {0}
  BY PagesThere DEF SyncWriteBak, Ready, Control
<1>4. Given("write") = 0 .. written - 1 /\ Opened("write")
  BY <1>3 DEF Given, Opened, MayErase
<1>5. CASE AllCopied(written)
  <2>1. state' = <<"bak", "WRITTEN">> /\ Goto(t, "drain") /\ pend' = pend
    BY <1>5 DEF SyncWriteBak
  <2>2. state'[1] = "bak" /\ state'[2] = "WRITTEN"
    BY <2>1
  <2>3. Given("drain")' = Given("write") /\ Opened("drain")'
    BY <1>4, <1>5, <2>2 DEF Given, Opened, MayErase, AllCopied, PageSet
  <2>4. Control("drain")'
    BY <1>2, <2>2 DEF Ready, Control, Labels
  <2>5. Ready("drain", z)'
    BY <1>2, <1>3, <1>4, <2>1, <2>2, <2>3, <2>4 DEF Ready, BakPhase
  <2>. QED
    BY <1>2, <1>3, <2>1, <2>2, <2>5, LandsAt DEF Labels
<1>6. CASE ~ AllCopied(written)
  <2>1. written \in PageSet /\ ~ (written >= NPages)
    BY <1>3, <1>6 DEF AllCopied, PageSet
  <2>2. PICK r \in WriteResults("bak", {written}, View("main")) :
          pend' = r.pend /\ Goto(t, IF r.ok THEN "written" ELSE "wrflush")
    BY <1>6, <2>1 DEF SyncWriteBak
  <2>3. state' = state
    BY <1>6, <2>1 DEF SyncWriteBak
  <2>4. /\ r.ok => Shape("bak", Given("write") \cup {written}, z, r.pend, flash)
        /\ ~ r.ok => r.pend = pend
    <3>. DEFINE ps == {written}
    <3>1. ps \in SUBSET PageSet
      BY <2>1
    <3>2. r \in WriteResults("bak", ps, View("main"))
      OBVIOUS
    <3>. HIDE DEF ps
    <3>3. (r.ok => Shape("bak", Given("write") \cup ps, z, r.pend, flash))
          /\ (~ r.ok => r.pend = pend)
      BY <1>3, <1>4, <3>1, <3>2, BakGiven
    <3>. QED
      BY <3>3 DEF ps
  <2>5. CASE r.ok
    <3>1. Goto(t, "written") /\ pend' = r.pend
      BY <2>2, <2>5
    <3>2. Given("written")' = Given("write") \cup {written} /\ Opened("written")'
      BY <1>2, <1>3, <1>4, <2>3 DEF Given, Opened, MayErase
    <3>3. Control("written")'
      BY <1>2, <1>3, <2>1, <2>3 DEF Ready, Control, Labels, MayWrite
    <3>4. Ready("written", z)'
      BY <1>2, <1>3, <2>3, <2>4, <2>5, <3>1, <3>2, <3>3 DEF Ready, BakPhase
    <3>. QED
      BY <1>2, <2>3, <3>1, <3>4, LandsAt DEF Labels
  <2>6. CASE ~ r.ok
    <3>1. Goto(t, "wrflush") /\ pend' = pend
      BY <2>2, <2>4, <2>6
    <3>2. /\ Control("wrflush") /\ Given("wrflush") = Given("write")
          /\ (Opened("wrflush") <=> Opened("write"))
          /\ state[1] = "main" => MainPhase("wrflush", z)
      BY <1>3 DEF Ready, Control, Given, Opened, Labels, MayWrite
    <3>3. Ready("wrflush", z)'
      BY <1>1, <2>3, <3>1, <3>2, Relabel DEF nvs
    <3>. QED
      BY <1>2, <2>3, <3>1, <3>3, LandsAt DEF Labels
  <2>. QED
    BY <2>5, <2>6
<1>. QED
  BY <1>5, <1>6

(* What was written counts as written; a change made since is forgotten. *)
LEMMA WrittenStep ==
  ASSUME Typed, NEW t \in Tasks, NEW z \in Drafts, Ready("written", z), SyncWritten(t),
         at[t] = state[1], UNCHANGED <<ram, updates>>, Rebuilding' <=> Rebuilding
  PROVE  Lands(t)
<1>1. UNCHANGED <<ram, pend, flash, durable, at, updates>>
  BY DEF SyncWritten
<1>2. /\ at' = at /\ Drafts' = Drafts /\ ram' = ram
      /\ pend' = pend /\ durable' = durable /\ flash' = flash
  BY <1>1 DEF Drafts
<1>3. /\ updates \in Nat /\ pend \in Seq(Nodes(updates)) /\ flash \in Chips(updates)
      /\ state[1] \in Copies
  BY TypedParts
<1>4. /\ MayWrite(state[2]) /\ (state[1] = "bak" => state[2] = "WRITTING" /\ written < NPages)
      /\ written \in 0 .. NPages
  BY DEF Ready, Control
<1>5. Opened("written")
  BY <1>4 DEF Opened, MayErase, MayWrite
<1>6. CASE state[1] = "main"
  <2>1. /\ state' = <<"main", "WRITTEN">> /\ upd' = FALSE /\ written' = written
        /\ overtaken' = (View("main") # Sector(ram)) /\ Goto(t, "drain")
    BY <1>6 DEF SyncWritten
  <2>2. state'[1] = "main" /\ state'[2] = "WRITTEN"
    BY <2>1
  <2>3. Given("written") = PageSet /\ Given("drain")' = PageSet /\ Opened("drain")' /\ PageSet # {}
    BY <1>6, <2>2, PagesThere DEF Given, Opened, MayErase
  <2>4. Shape("main", PageSet, z, pend, flash)
    BY <1>5, <1>6, <2>3 DEF Ready
  <2>5. View("main") = Sector(z)
    BY <1>3, <2>4, ViewOfMain DEF Copies
  <2>6. overtaken' \/ z = ram'
    <3>1. z # ram => Sector(z) # Sector(ram)
      BY DraftSector
    <3>. QED
      BY <1>2, <2>1, <2>5, <3>1
  <2>7. Control("drain")'
    BY <1>4, <2>1, <2>2 DEF Ready, Control, Labels
  <2>8. MainPhase("written", z)
    BY <1>6 DEF Ready
  <2>9. MainPhase("drain", z)'
    BY <1>2, <2>2, <2>3, <2>6, <2>8 DEF MainPhase, Fallback, Paired
  <2>10. Ready("drain", z)'
    BY <1>2, <2>2, <2>3, <2>4, <2>7, <2>9 DEF Ready
  <2>. QED
    BY <1>2, <1>6, <2>1, <2>2, <2>10, LandsAt DEF Labels
<1>7. CASE state[1] = "bak"
  <2>1. /\ state' = state /\ upd' = upd /\ overtaken' = overtaken
        /\ written' = written + 1 /\ Goto(t, "write")
    BY <1>7 DEF SyncWritten
  <2>2. Given("written") = 0 .. written /\ Opened("write")'
    BY <1>4, <1>7, <2>1 DEF Given, Opened, MayErase
  <2>3. Given("write")' = 0 .. written' - 1 /\ written' - 1 = written
    BY <1>4, <1>7, <2>1 DEF Given
  <2>4. Control("write")'
    BY <1>4, <1>7, <2>1, PagesThere DEF Ready, Control, Labels
  <2>5. Shape(state[1], Given("written"), z, pend, flash) /\ BakPhase(z) /\ durable <= ram
    BY <1>5, <1>7 DEF Ready
  <2>6. Given("write")' = Given("written")
    BY <2>2, <2>3
  <2>7. Ready("write", z)'
    BY <1>2, <1>7, <2>1, <2>2, <2>4, <2>5, <2>6 DEF Ready, BakPhase
  <2>. QED
    BY <1>2, <2>1, <2>7, LandsAt DEF Labels
<1>. QED
  BY <1>3, <1>6, <1>7 DEF Copies

(* Only the place changes, after the step. *)
LEMMA Renamed ==
  ASSUME NEW k, NEW l, NEW z, Ready(k, z)', Control(l)',
         (Given(l) = Given(k))', (Opened(l) <=> Opened(k))',
         (state[1] = "main" => MainPhase(l, z))'
  PROVE  Ready(l, z)'
BY DEF Ready

(* One flush step, to make room *)
LEMMA MakeRoomStep ==
  ASSUME Typed, NEW t \in Tasks, NEW k \in {"erflush", "wrflush"}, pc[t] = k,
         NEW z \in Drafts, Ready(k, z), SyncMakeRoom(t),
         at[t] = state[1], UNCHANGED <<ram, updates>>, Rebuilding' <=> Rebuilding, pc \in [Tasks -> Labels]
  PROVE  Lands(t)
<1>1. Flush /\ UNCHANGED <<ram, nvs, durable, overtaken, updates>>
  BY DEF SyncMakeRoom
<1>2. Drafts' = Drafts /\ at'[t] = state'[1]
  BY DEF SyncMakeRoom, nvs, Drafts
<1>3. Ready(k, z)'
  BY <1>1, FlushReady
<1>. DEFINE l == IF k = "erflush" THEN "erase" ELSE "write"
<1>4. Goto(t, l) \/ Goto(t, k)
  <2>1. Goto(t, l) \/ pc' = pc
    BY DEF SyncMakeRoom
  <2>2. pc = [pc EXCEPT ![t] = k]
    OBVIOUS
  <2>. QED
    BY <2>1, <2>2 DEF Goto
<1>5. Ready(l, z)'
  <2>1. Control(l)' /\ (Given(l) = Given(k))' /\ (Opened(l) <=> Opened(k))'
        /\ (state[1] = "main" => MainPhase(l, z))'
    <3>1. CASE k = "erflush"
      BY <1>3, <3>1 DEF Ready, Control, Labels, Given, Opened, MainPhase
    <3>2. CASE k = "wrflush"
      BY <1>3, <3>2 DEF Ready, Control, Labels, Given, Opened, MainPhase
    <3>. QED
      BY <3>1, <3>2
  <2>. QED
    BY <1>3, <2>1, Renamed
<1>6. l \in Labels /\ k \in Labels
  BY DEF Labels
<1>. QED
  BY <1>2, <1>3, <1>4, <1>5, <1>6, LandsAt

(* One flush step, until nothing is pending *)
LEMMA DrainStep ==
  ASSUME Typed, NEW t \in Tasks, pc[t] = "drain",
         NEW z \in Drafts, Ready("drain", z), SyncDrain(t),
         at[t] = state[1], UNCHANGED <<ram, updates>>, Rebuilding' <=> Rebuilding, pc \in [Tasks -> Labels]
  PROVE  Lands(t)
<1>1. Flush /\ UNCHANGED <<ram, nvs, durable, overtaken, updates>>
  BY DEF SyncDrain
<1>2. Drafts' = Drafts /\ at'[t] = state'[1]
  BY DEF SyncDrain, nvs, Drafts
<1>3. Ready("drain", z)'
  BY <1>1, FlushReady
<1>4. CASE pend' = <<>>
  <2>1. Goto(t, "done")
    BY <1>4 DEF SyncDrain
  <2>2. Control("done")' /\ (Given("done") = Given("drain"))'
        /\ (Opened("done") <=> Opened("drain"))'
        /\ (state[1] = "main" => MainPhase("done", z))'
    BY <1>3, <1>4 DEF Ready, Control, Labels, Given, Opened, MainPhase
  <2>3. Ready("done", z)'
    BY <1>3, <2>2, Renamed
  <2>. QED
    BY <1>2, <2>1, <2>3, LandsAt DEF Labels
<1>5. CASE pend' # <<>>
  <2>1. pc' = pc /\ pc = [pc EXCEPT ![t] = "drain"]
    BY <1>5 DEF SyncDrain
  <2>2. Goto(t, "drain")
    BY <2>1 DEF Goto
  <2>. QED
    BY <1>2, <1>3, <2>2, LandsAt DEF Labels
<1>. QED
  BY <1>4, <1>5

(* A copy is complete: main is what may not be lost any more, or bak is what *)
(* one may fall back to.                                                     *)
LEMMA DoneReady ==
  ASSUME Typed, NEW k, NEW l \in {"out", "top"}, NEW z \in Drafts, Ready(k, z),
         state[2] = "WRITTEN", pend = <<>>, CopyDone(state[1]),
         UNCHANGED <<upd, written, pend, flash, overtaken, ram>>, Rebuilding' <=> Rebuilding
  PROVE  Ready(l, z)'
<1>1. /\ state' = AfterCopy(state[1]) /\ upd' = upd /\ written' = written /\ pend' = pend
      /\ flash' = flash /\ overtaken' = overtaken /\ ram' = ram
  BY DEF CopyDone
<1>2. /\ updates \in Nat /\ pend \in Seq(Nodes(updates)) /\ flash \in Chips(updates)
      /\ state[1] \in Copies /\ durable \in Int /\ z \in Int /\ durable >= Blank
  BY TypedParts DEF Drafts, Blank
<1>3. Opened(k) /\ Given(k) = PageSet /\ PageSet # {}
  BY PagesThere DEF Opened, Given, MayErase
<1>4. flash[state[1]] = Sector(z)
  <2>1. Shape(state[1], PageSet, z, <<>>, flash)
    BY <1>3 DEF Ready
  <2>. QED
    BY <1>2, <2>1, AllLanded
<1>5. /\ Sector(z)[0] = z /\ (Valid(Sector(z)) <=> z # Blank)
  BY DraftSector
<1>6. state'[2] = "START"
  BY <1>1 DEF AfterCopy, Idle
<1>7. /\ Control(l)' /\ pend' = <<>> /\ ~ Opened(l)' /\ Given(l)' = {}
  BY <1>1, <1>6 DEF Ready, Control, Labels, Opened, Given, MayErase
<1>8. CASE state[1] = "main"
  <2>1. MainPhase(k, z) /\ durable' = Loaded(flash)
    BY <1>8 DEF Ready, CopyDone
  <2>2. Loaded(flash) = z
    <3>1. CASE z = Blank
      <4>1. flash["bak"] = Sector(Blank)
        BY <1>3, <2>1, <3>1 DEF MainPhase
      <4>. QED
        BY <1>4, <1>8, <3>1, <4>1, NotValid DEF Loaded
    <3>2. CASE z # Blank
      BY <1>4, <1>5, <1>8, <3>2 DEF Loaded
    <3>. QED
      BY <3>1, <3>2
  <2>3. state'[1] = "bak"
    BY <1>1, <1>8 DEF AfterCopy
  <2>4. /\ z <= ram /\ (z = Blank => upd \/ Rebuilding)
        /\ upd \/ Rebuilding \/ overtaken \/ z = ram
    BY <1>3, <2>1 DEF MainPhase
  <2>5. durable' <= ram'
    BY <1>1, <2>1, <2>2, <2>4
  <2>6. BakPhase(z)'
    BY <1>1, <1>2, <1>4, <1>8, <2>1, <2>2, <2>4 DEF BakPhase
  <2>. QED
    BY <1>7, <2>3, <2>5, <2>6 DEF Ready
<1>9. CASE state[1] = "bak"
  <2>1. BakPhase(z) /\ durable' = durable /\ durable <= ram
    BY <1>9 DEF Ready, CopyDone
  <2>2. state'[1] = "main"
    BY <1>1, <1>9 DEF AfterCopy, Idle
  <2>3. z # Blank => Fallback'
    BY <1>1, <1>4, <1>5, <1>9, <2>1 DEF Fallback, BakPhase
  <2>4. z = Blank => (upd \/ Rebuilding) /\ durable = Blank
    BY <1>2, <2>1 DEF BakPhase, Blank
  <2>5. ~ upd /\ ~ Rebuilding => Fallback' /\ Paired' /\ (overtaken \/ flash["main"] = Sector(ram))
    <3>1. flash["bak"] = flash["main"] /\ flash' = flash
      BY <1>1, <1>4, <1>9, <2>1 DEF BakPhase
    <3>. QED
      BY <2>1, <2>3, <2>4, <3>1 DEF BakPhase, Paired
  <2>6. Valid(flash["main"]) => flash["main"][0] >= durable
    BY <1>5, <2>1 DEF BakPhase
  <2>7. MainPhase(l, z)'
    BY <1>1, <1>6, <1>7, <2>1, <2>3, <2>4, <2>5, <2>6 DEF MainPhase
  <2>. QED
    BY <1>1, <1>7, <2>1, <2>2, <2>7 DEF Ready
<1>. QED
  BY <1>2, <1>8, <1>9 DEF Copies

LEMMA DoneStep ==
  ASSUME Typed, NEW t \in Tasks, NEW z \in Drafts, Ready("done", z), SyncDone(t),
         at[t] = state[1], UNCHANGED <<ram, updates>>, Rebuilding' <=> Rebuilding
  PROVE  Lands(t)
<1>1. CopyDone(state[1]) /\ Goto(t, "top")
      /\ UNCHANGED <<upd, written, pend, flash, overtaken, ram>>
  BY DEF SyncDone
<1>2. state[2] = "WRITTEN" /\ pend = <<>>
  BY DEF Ready, Control
<1>3. Ready("top", z)'
  BY <1>1, <1>2, DoneReady
<1>4. (z \in Drafts)'
  BY DEF Drafts
<1>. QED
  BY <1>1, <1>3, <1>4, LandsAt DEF Labels

-----------------------------------------------------------------------------
(* The steps of the asynchronous flush, nobody being in the synchronous one *)

(* The erase is queued, or tried again in the next step. *)
LEMMA AsyncEraseGood ==
  ASSUME Typed, NEW z \in Drafts, Ready("out", z), ~ (state = Idle /\ ~ upd),
         MayErase(state[2]), AsyncErase(state[1]), UNCHANGED <<ram, durable, updates>>,
         Rebuilding' <=> Rebuilding
  PROVE  Ready("out", z)'
<1>1. /\ updates \in Nat /\ pend \in Seq(Nodes(updates)) /\ flash \in Chips(updates)
      /\ state[1] \in Copies /\ state[2] \in Steps /\ state = <<state[1], state[2]>>
  BY TypedParts
<1>2. /\ ram' = ram /\ durable' = durable /\ upd' = upd /\ written' = written
      /\ overtaken' = overtaken
  BY DEF AsyncErase
<1>3. pend = <<>>
  BY DEF Ready, Opened
<1>4. state[1] = "main" => upd
  <2>1. CASE state[2] = "START"
    BY <1>1, <2>1 DEF Idle
  <2>2. CASE state[2] # "START"
    BY <2>2 DEF Ready, MainPhase, MayErase
  <2>. QED
    BY <2>1, <2>2
<1>5. PICK r \in EraseResults(state[1]) :
         IF r.ok
         THEN pend' = r.pend /\ state' = <<state[1], "ERASED">> /\ UNCHANGED flash
         ELSE state' = <<state[1], "ERASING">> /\ Flush
  BY DEF AsyncErase
<1>6. CASE r.ok
  <2>1. pend' = r.pend /\ state'[1] = state[1] /\ state'[2] = "ERASED" /\ flash' = flash
    BY <1>5, <1>6
  <2>2. Shape(state[1], {}, z, pend', flash)
    BY <1>1, <1>3, <1>6, <2>1, EraseOpens
  <2>3. Given("out")' = {} /\ Opened("out")'
    BY <2>1 DEF Given, Opened, MayErase
  <2>4. Control("out")'
    BY <1>2, <2>1 DEF Ready, Control
  <2>5. state[1] = "main" => MainPhase("out", z)'
    BY <1>2, <1>4, <2>1, <2>3 DEF Ready, MainPhase, Fallback, Paired
  <2>. QED
    BY <1>2, <2>1, <2>2, <2>3, <2>4, <2>5 DEF Ready, BakPhase
<1>7. CASE ~ r.ok
  <2>1. state'[1] = state[1] /\ state'[2] = "ERASING" /\ Flush
    BY <1>5, <1>7
  <2>2. pend' = <<>> /\ flash' = flash
    BY <1>3, <2>1, FlushNothing
  <2>3. Given("out")' = {} /\ ~ Opened("out")'
    BY <2>1 DEF Given, Opened, MayErase
  <2>4. Control("out")'
    BY <1>2, <2>1 DEF Ready, Control
  <2>5. state[1] = "main" => MainPhase("out", z)'
    BY <1>2, <1>4, <2>1, <2>2, <2>3 DEF Ready, MainPhase, Fallback, Paired
  <2>. QED
    BY <1>2, <2>1, <2>2, <2>3, <2>4, <2>5 DEF Ready, BakPhase
<1>. QED
  BY <1>6, <1>7

(* The record is given, or the write is tried again. *)
LEMMA AsyncMainGood ==
  ASSUME Typed, NEW z \in Drafts, Ready("out", z), state[1] = "main", MayWrite(state[2]),
         AsyncWriteMain, UNCHANGED <<ram, durable, updates>>,
         Rebuilding' <=> Rebuilding
  PROVE  Good("out")'
<1>1. /\ updates \in Nat /\ pend \in Seq(Nodes(updates)) /\ flash \in Chips(updates)
      /\ ram \in Nat /\ "main" \in Copies /\ "bak" \in Copies /\ "main" # "bak"
  BY TypedParts DEF Copies
<1>2. Drafts' = Drafts /\ ram' = ram /\ durable' = durable
  BY DEF Drafts
<1>3. PICK r \in WriteResults("main", PageSet, Sector(ram)) :
        IF r.ok
        THEN /\ pend' = r.pend /\ state' = <<"main", "WRITTEN">>
             /\ upd' = FALSE /\ overtaken' = FALSE
             /\ UNCHANGED <<flash, written>>
        ELSE state' = <<"main", "WRITTING">> /\ Flush /\ UNCHANGED <<upd, written, overtaken>>
  BY DEF AsyncWriteMain
<1>4. /\ r.ok => Shape("main", PageSet, ram, r.pend, flash)
      /\ Given("out") = {} /\ Opened("out") /\ ram \in Drafts /\ ram # Blank
  BY MainGiven
<1>5. upd /\ MainPhase("out", z) /\ durable <= ram /\ written \in 0 .. NPages
  BY DEF Ready, MainPhase, MayWrite, Control
<1>6. CASE r.ok
  <2>1. /\ pend' = r.pend /\ state'[1] = "main" /\ state'[2] = "WRITTEN"
        /\ flash' = flash /\ written' = written
    BY <1>3, <1>6
  <2>2. Given("out")' = PageSet /\ Opened("out")' /\ Control("out")'
    BY <1>5, <2>1 DEF Given, Opened, MayErase, Control, Labels
  <2>3. ram <= ram
    BY <1>1
  <2>4. MainPhase("out", ram)'
    BY <1>2, <1>4, <1>5, <2>1, <2>2, <2>3 DEF MainPhase, Fallback, Paired
  <2>5. Ready("out", ram)'
    BY <1>2, <1>4, <1>5, <1>6, <2>1, <2>2, <2>4 DEF Ready
  <2>. QED
    BY <1>2, <1>4, <2>5 DEF Good
<1>7. CASE ~ r.ok
  <2>1. /\ state'[1] = "main" /\ state'[2] = "WRITTING" /\ Flush /\ upd' = upd
        /\ written' = written /\ overtaken' = overtaken
    BY <1>3, <1>7
  <2>2. Shape("main", {}, z, pend, flash) /\ {} \in SUBSET PageSet
    BY <1>4 DEF Ready
  <2>3. /\ Shape("main", {}, z, pend', flash')
        /\ \A d \in Copies : d # "main" => flash'[d] = flash[d]
        /\ Valid(flash'["main"]) => flash'["main"] = flash["main"]
    <3>. DEFINE none == {}
    <3>1. Shape("main", none, z, pend, flash) /\ none \in SUBSET PageSet
      BY <2>2
    <3>2. none = {}
      OBVIOUS
    <3>. HIDE DEF none
    <3>3. /\ Shape("main", none, z, pend', flash')
          /\ \A d \in Copies : d # "main" => flash'[d] = flash[d]
          /\ Valid(flash'["main"]) => flash'["main"] = flash["main"]
                                      \/ (flash'["main"] = Sector(z) /\ none # {})
      BY <1>1, <2>1, <3>1, FlushKeeps
    <3>. QED
      BY <3>2, <3>3
  <2>4. flash'["bak"] = flash["bak"]
    BY <1>1, <2>3
  <2>5. Given("out")' = {} /\ Opened("out")' /\ Control("out")'
    BY <1>5, <2>1 DEF Given, Opened, MayErase, Control, Labels
  <2>6. MainPhase("out", z)'
    BY <1>2, <1>5, <2>1, <2>3, <2>4, <2>5 DEF MainPhase, Fallback, Paired
  <2>7. Ready("out", z)'
    BY <1>2, <1>5, <2>1, <2>3, <2>5, <2>6 DEF Ready
  <2>. QED
    BY <1>2, <2>7 DEF Good
<1>. QED
  BY <1>6, <1>7

(* All pages not copied yet are given, or the write is tried again. *)
LEMMA AsyncBakGood ==
  ASSUME Typed, NEW z \in Drafts, Ready("out", z), state[1] = "bak", MayWrite(state[2]),
         AsyncWriteBak, UNCHANGED <<ram, durable, updates>>,
         Rebuilding' <=> Rebuilding
  PROVE  Ready("out", z)'
<1>1. /\ updates \in Nat /\ pend \in Seq(Nodes(updates)) /\ flash \in Chips(updates)
      /\ "main" \in Copies /\ "bak" \in Copies /\ "main" # "bak"
  BY TypedParts DEF Copies
<1>2. ram' = ram /\ durable' = durable /\ upd' = upd /\ overtaken' = overtaken
  BY DEF AsyncWriteBak
<1>. DEFINE w == IF state[2] = "ERASED" THEN 0 ELSE written
<1>3. BakPhase(z) /\ durable <= ram /\ written \in 0 .. NPages /\ NPages \in Nat \ {0}
  BY PagesThere DEF Ready, Control
<1>4. w \in 0 .. NPages /\ Given("out") = 0 .. w - 1 /\ Opened("out")
  BY <1>3 DEF Given, Opened, MayWrite, MayErase
<1>5. IF AllCopied(w)
      THEN state' = <<"bak", "WRITTEN">> /\ written' = w /\ UNCHANGED <<pend, flash>>
      ELSE \E r \in WriteResults("bak", w .. NPages - 1, View("main")) :
             IF r.ok
             THEN /\ pend' = r.pend /\ state' = <<"bak", "WRITTEN">>
                  /\ written' = NPages /\ UNCHANGED flash
             ELSE state' = <<"bak", "WRITTING">> /\ written' = w /\ Flush
  BY DEF AsyncWriteBak
<1>. HIDE DEF w
<1>6. Shape("bak", Given("out"), z, pend, flash) /\ Given("out") \in SUBSET PageSet
  BY <1>4, GivenPages DEF Ready
<1>7. CASE AllCopied(w)
  <2>1. /\ state'[1] = "bak" /\ state'[2] = "WRITTEN" /\ written' = w /\ pend' = pend
        /\ flash' = flash
    BY <1>5, <1>7
  <2>2. Given("out")' = Given("out") /\ Opened("out")' /\ Control("out")'
    BY <1>4, <1>7, <2>1 DEF Given, Opened, MayErase, AllCopied, PageSet, Control, Labels
  <2>. QED
    BY <1>2, <1>3, <1>6, <2>1, <2>2 DEF Ready, BakPhase
<1>8. CASE ~ AllCopied(w)
  <2>. DEFINE pages == w .. NPages - 1
  <2>1. PICK r \in WriteResults("bak", pages, View("main")) :
             IF r.ok
             THEN /\ pend' = r.pend /\ state' = <<"bak", "WRITTEN">>
                  /\ written' = NPages /\ UNCHANGED flash
             ELSE state' = <<"bak", "WRITTING">> /\ written' = w /\ Flush
    BY <1>5, <1>8
  <2>2. pages \in SUBSET PageSet /\ Given("out") \cup pages = PageSet
    BY <1>3, <1>4 DEF PageSet
  <2>. HIDE DEF pages
  <2>3. CASE r.ok
    <3>1. /\ state'[1] = "bak" /\ state'[2] = "WRITTEN" /\ written' = NPages
          /\ pend' = r.pend /\ flash' = flash
      BY <2>1, <2>3
    <3>2. Shape("bak", Given("out") \cup pages, z, r.pend, flash)
      BY <1>4, <2>2, <2>3, BakGiven
    <3>3. Given("out")' = PageSet /\ Opened("out")' /\ Control("out")'
      BY <1>3, <3>1 DEF Given, Opened, MayErase, Control, Labels
    <3>. QED
      BY <1>2, <1>3, <2>2, <3>1, <3>2, <3>3 DEF Ready, BakPhase
  <2>4. CASE ~ r.ok
    <3>1. state'[1] = "bak" /\ state'[2] = "WRITTING" /\ written' = w /\ Flush
      BY <2>1, <2>4
    <3>2. /\ Shape("bak", Given("out"), z, pend', flash')
          /\ \A d \in Copies : d # "bak" => flash'[d] = flash[d]
      <4>. DEFINE G == Given("out")
      <4>1. Shape("bak", G, z, pend, flash) /\ G \in SUBSET PageSet
        BY <1>6
      <4>. HIDE DEF G
      <4>2. /\ Shape("bak", G, z, pend', flash')
            /\ \A d \in Copies : d # "bak" => flash'[d] = flash[d]
        BY <1>1, <3>1, <4>1, FlushKeeps
      <4>. QED
        BY <4>2 DEF G
    <3>3. flash'["main"] = flash["main"]
      BY <1>1, <3>2
    <3>4. Given("out")' = Given("out") /\ Opened("out")' /\ Control("out")'
      BY <1>4, <3>1 DEF Given, Opened, MayErase, Control, Labels
    <3>. QED
      BY <1>2, <1>3, <3>1, <3>2, <3>3, <3>4 DEF Ready, BakPhase
  <2>. QED
    BY <2>3, <2>4
<1>. QED
  BY <1>7, <1>8

(* One step of the state machine *)
LEMMA AsyncGood ==
  ASSUME Typed, Good("out"), AsyncFlush, Rebuilding' <=> Rebuilding
  PROVE  Good("out")'
<1>1. PICK z \in Drafts : Ready("out", z)
  BY DEF Good
<1>2. Drafts' = Drafts /\ state[1] \in Copies /\ state[2] \in Steps
  BY TypedParts DEF AsyncFlush, Drafts
<1>3. UNCHANGED <<ram, updates>> /\ ~ (state = Idle /\ ~ upd)
  BY DEF AsyncFlush
<1>4. CASE MayErase(state[2]) /\ AsyncErase(state[1]) /\ UNCHANGED durable
  BY <1>1, <1>2, <1>3, <1>4, AsyncEraseGood DEF Good
<1>5. CASE MayWrite(state[2]) /\ state[1] = "main" /\ AsyncWriteMain /\ UNCHANGED durable
  BY <1>1, <1>3, <1>5, AsyncMainGood
<1>6. CASE MayWrite(state[2]) /\ state[1] = "bak" /\ AsyncWriteBak /\ UNCHANGED durable
  BY <1>1, <1>2, <1>3, <1>6, AsyncBakGood DEF Good
<1>7. CASE /\ ~ MayErase(state[2]) /\ ~ MayWrite(state[2]) /\ NothingPending
           /\ CopyDone(state[1])
           /\ UNCHANGED <<upd, written, pend, flash, overtaken>>
  <2>1. state[2] = "WRITTEN" /\ pend = <<>>
    BY <1>2, <1>7 DEF Steps, MayErase, MayWrite, NothingPending
  <2>2. Ready("out", z)'
    BY <1>1, <1>3, <1>7, <2>1, DoneReady
  <2>. QED
    BY <1>2, <2>2 DEF Good
<1>8. CASE Flush /\ UNCHANGED <<nvs, durable, overtaken>>
  <2>1. Ready("out", z)'
    BY <1>1, <1>3, <1>8, FlushReady
  <2>. QED
    BY <1>2, <2>1 DEF Good
<1>. QED
  BY <1>4, <1>5, <1>6, <1>7, <1>8 DEF AsyncFlush

-----------------------------------------------------------------------------
(* The other steps *)

(* A change announces itself; what is being written stays as old as it was. *)
LEMMA UpdateGood ==
  ASSUME Typed, NEW l, Good(l), ram' = updates + 1, updates' = updates + 1, upd' = TRUE,
         UNCHANGED <<state, written, pend, flash, history>>
  PROVE  Good(l)'
<1>1. PICK z \in Drafts : Ready(l, z)
  BY DEF Good
<1>2. /\ state' = state /\ written' = written /\ pend' = pend /\ flash' = flash
      /\ durable' = durable /\ overtaken' = overtaken
  BY DEF history
<1>3. z \in Drafts' /\ ram <= ram' /\ ram' \in Nat /\ ram \in Nat /\ z \in Int /\ durable \in Int
  BY TypedParts DEF Drafts
<1>4. Control(l)' /\ (Given(l)' = Given(l)) /\ (Opened(l)' <=> Opened(l))
  BY <1>1, <1>2 DEF Ready, Control, Given, Opened
<1>5. durable' <= ram'
  BY <1>1, <1>2, <1>3 DEF Ready
<1>6. state[1] = "main" => MainPhase(l, z)'
  <2>. SUFFICES ASSUME state[1] = "main" PROVE MainPhase(l, z)'
    OBVIOUS
  <2>1. MainPhase(l, z)
    BY <1>1 DEF Ready
  <2>2. Given(l) # {} => z <= ram'
    BY <1>3, <2>1 DEF MainPhase
  <2>. QED
    BY <1>2, <1>4, <2>1, <2>2 DEF MainPhase, Fallback, Paired
<1>7. state[1] = "bak" => BakPhase(z)'
  BY <1>1, <1>2 DEF Ready, BakPhase
<1>8. Ready(l, z)'
  BY <1>1, <1>2, <1>4, <1>5, <1>6, <1>7 DEF Ready
<1>. QED
  BY <1>3, <1>8 DEF Good

(* The flash is cleared: from then on nothing is there to lose. *)
LEMMA ClearGood ==
  ASSUME Typed, Good("out"), SectorClear, Rebuilding',
         UNCHANGED <<ram, upd, state, written, updates>>
  PROVE  Good("out")'
<1>1. PICK z \in Drafts : Ready("out", z)
  BY DEF Good
<1>2. /\ state' = state /\ written' = written /\ pend' = <<>> /\ durable' = Blank
      /\ \A c \in Copies : flash'[c] = Sector(Blank)
  BY DEF SectorClear
<1>3. (Blank \in Drafts)' /\ Blank <= ram' /\ Blank >= Blank /\ Blank <= Blank
      /\ state[1] \in Copies
  BY TypedParts DEF Drafts, Blank
<1>4. Control("out")'
  BY <1>1, <1>2 DEF Ready, Control, Labels
<1>5. Shape(state[1], Given("out")', Blank, <<>>, flash')
  <2>1. \A p \in PageSet : flash'[state[1]][p] = Blank
    BY <1>2, <1>3 DEF Sector
  <2>2. Given("out")' \subseteq PageSet
    BY <1>2, <1>4, PagesThere DEF Control, Given, PageSet
  <2>3. ~ Erasing(<<>>) /\ \A p : ~ Queued(p, <<>>)
    BY DEF Erasing, Queued
  <2>4. Few(state[1], <<>>) /\ Fitting(state[1], Given("out")', Blank, <<>>)
    BY DEF Few, Fitting
  <2>5. Landing(state[1], Given("out")', Blank, <<>>, flash')
    BY <2>1, <2>2, <2>3 DEF Landing
  <2>. QED
    BY <2>4, <2>5 DEF Shape
<1>6. state[1] = "main" => MainPhase("out", Blank)'
  BY <1>1, <1>2, <1>3, NotValid DEF Ready, MainPhase, Copies
<1>7. BakPhase(Blank)'
  BY <1>2, <1>3 DEF BakPhase, Copies
<1>8. Ready("out", Blank)'
  BY <1>2, <1>3, <1>4, <1>5, <1>6, <1>7 DEF Ready
<1>. QED
  BY <1>3, <1>8 DEF Good

(* With its change announced, the rebuild flushes as any other thread would. *)
LEMMA StartGood ==
  ASSUME Good("out")'
  PROVE  Good("top")'
<1>1. PICK z \in Drafts' : Ready("out", z)'
  BY DEF Good
<1>2. /\ Control("top")' /\ (Given("top") = Given("out"))' /\ (Opened("top") <=> Opened("out"))'
      /\ (state[1] = "main" => MainPhase("top", z))'
  BY <1>1 DEF Ready, Control, Given, Opened, Labels, MainPhase
<1>3. Ready("top", z)'
  BY <1>1, <1>2, Renamed
<1>. QED
  BY <1>1, <1>3 DEF Good

(* The boot thread is a thread. *)
LEMMA BootThere == BootThread \in Tasks
<1>1. Cardinality(Tasks) \in Nat
  BY ConstAssumption, FS_CardinalityType
<1>. QED
  BY <1>1, ConstAssumption DEF BootThread

(* A boot loads what one of the copies holds. *)
LEMMA LoadedTyped ==
  ASSUME NEW n \in Nat, NEW f \in Chips(n)
  PROVE  /\ Loaded(f) \in (0 .. n) \cup {Blank} /\ Lasting(f) \in (0 .. n) \cup {Blank}
         /\ \A c \in Copies : Valid(f[c]) => f[c][0] \in 0 .. n /\ f[c] = Sector(f[c][0])
<1>1. \A c \in Copies : Valid(f[c]) => f[c][0] \in 0 .. n /\ f[c] = Sector(f[c][0])
  <2>. SUFFICES ASSUME NEW c \in Copies, Valid(f[c])
                PROVE  f[c][0] \in 0 .. n /\ f[c] = Sector(f[c][0])
    OBVIOUS
  <2>1. PICK v \in Versions : f[c] = Sector(v)
    BY DEF Valid
  <2>2. f[c][0] = v
    BY <2>1, PagesThere DEF Sector
  <2>3. f[c][0] \in Values(n)
    BY PagesThere DEF Chips, Records
  <2>. QED
    BY <2>1, <2>2, <2>3, ConstAssumption DEF Values, Versions, Blank, Junk
<1>. QED
  BY <1>1 DEF Loaded, Lasting, Copies

(* A boot, from whatever the flash holds, starts a flush unless both copies  *)
(* are valid.                                                                *)
LEMMA BootGood ==
  ASSUME updates \in Nat, NEW f \in Chips(updates), flash' = f, Boot(f),
         durable' = Lasting(f), pend' = <<>>, written' = 0, updates' = updates,
         overtaken' = FALSE
  PROVE  \E l \in {"top", "out"} : (l = "top" <=> upd') /\ Good(l)'
<1>. DEFINE z == Loaded(f)
            mainOk == Valid(f["main"])
            bakOk == Valid(f["bak"])
<1>1. /\ Loaded(f) \in (0 .. updates) \cup {Blank}
      /\ mainOk => f["main"][0] \in 0 .. updates /\ f["main"] = Sector(f["main"][0])
      /\ bakOk => f["bak"][0] \in 0 .. updates /\ f["bak"] = Sector(f["bak"][0])
  BY LoadedTyped DEF Copies
<1>2. z \in Drafts'
  BY <1>1 DEF Drafts
<1>3. /\ ram' = IF Loaded(f) = Blank THEN 0 ELSE Loaded(f)
      /\ upd' = (~ mainOk \/ ~ bakOk)
      /\ state' = IF mainOk /\ ~ bakOk THEN AfterCopy("main") ELSE Idle
  BY DEF Boot
<1>4. state'[2] = "START"
  BY <1>3 DEF AfterCopy, Idle
<1>5. NPages \in Nat \ {0} /\ \A v \in 0 .. updates : v # Blank /\ Blank <= v /\ v <= v
  BY PagesThere DEF Blank
<1>6. /\ mainOk /\ bakOk => /\ z = f["main"][0] /\ durable' <= z /\ durable' <= f["bak"][0]
                            /\ ram' = z /\ state' = Idle /\ ~ upd'
      /\ mainOk /\ ~ bakOk => /\ z = f["main"][0] /\ durable' = z /\ ram' = z /\ upd'
                              /\ state' = AfterCopy("main")
      /\ ~ mainOk /\ bakOk => /\ z = f["bak"][0] /\ durable' = z /\ ram' = z /\ upd'
                              /\ state' = Idle
      /\ ~ mainOk /\ ~ bakOk => z = Blank /\ durable' = Blank /\ ram' = 0 /\ upd' /\ state' = Idle
  <2>1. CASE mainOk /\ bakOk
    <3>1. z = f["main"][0] /\ z # Blank /\ z \in Int /\ f["bak"][0] \in Int
      BY <1>1, <1>5, <2>1 DEF Loaded
    <3>2. durable' = IF f["bak"][0] < f["main"][0] THEN f["bak"][0] ELSE z
      BY <2>1 DEF Lasting
    <3>3. ram' = z /\ state' = Idle /\ ~ upd'
      BY <1>3, <2>1, <3>1
    <3>. HIDE DEF z
    <3>4. durable' <= z /\ durable' <= f["bak"][0]
      BY <3>1, <3>2
    <3>. QED
      BY <2>1, <3>1, <3>3, <3>4
  <2>2. CASE mainOk /\ ~ bakOk
    BY <1>1, <1>3, <1>5, <2>2 DEF Loaded, Lasting
  <2>3. CASE ~ mainOk /\ bakOk
    BY <1>1, <1>3, <1>5, <2>3 DEF Loaded, Lasting
  <2>4. CASE ~ mainOk /\ ~ bakOk
    BY <1>1, <1>3, <1>5, <2>4 DEF Loaded, Lasting
  <2>. QED
    BY <2>1, <2>2, <2>3, <2>4
<1>7. durable' <= ram'
  BY <1>1, <1>5, <1>6 DEF Blank
<1>8. \A k \in {"top", "out"} : Control(k)' /\ (Given(k)' = {}) /\ ~ Opened(k)'
  BY <1>4, <1>5 DEF Control, Given, Opened, Labels, MayErase
<1>. HIDE DEF z, mainOk, bakOk
<1>9. CASE mainOk /\ ~ bakOk
  <2>1. state'[1] = "bak"
    BY <1>6, <1>9 DEF AfterCopy
  <2>2. BakPhase(z)'
    BY <1>1, <1>6, <1>9 DEF BakPhase
  <2>3. Good("top")'
    BY <1>2, <1>7, <1>8, <2>1, <2>2 DEF Ready, Good
  <2>. QED
    BY <1>6, <1>9, <2>3
<1>10. CASE ~ (mainOk /\ ~ bakOk)
  <2>1. state'[1] = "main"
    BY <1>6, <1>10 DEF Idle
  <2>2. bakOk => Fallback'
    BY <1>1, <1>5, <1>6 DEF Fallback, bakOk
  <2>3. mainOk => f["main"][0] >= durable'
    BY <1>1, <1>6, <1>10
  <2>4. durable' # Blank => bakOk
    BY <1>6, <1>10
  <2>5. ~ upd' => bakOk /\ f["main"] = Sector(ram')
    BY <1>1, <1>6, <1>10
  <2>9. Paired'
    BY DEF Paired
  <2>6. ASSUME NEW k \in {"top", "out"}, k = "top" => upd' PROVE Ready(k, z)'
    <3>1. MainPhase(k, z)'
      BY <1>4, <1>8, <2>2, <2>3, <2>4, <2>5, <2>6, <2>9 DEF MainPhase, mainOk
    <3>. QED
      BY <1>7, <1>8, <2>1, <3>1 DEF Ready
  <2>7. CASE upd'
    BY <1>2, <2>6, <2>7 DEF Good
  <2>8. CASE ~ upd'
    BY <1>2, <2>6, <2>8 DEF Good
  <2>. QED
    BY <2>7, <2>8
<1>. QED
  BY <1>9, <1>10

-----------------------------------------------------------------------------
(* Every step keeps the types, whatever the flushes do to one another. *)

LEMMA Grow ==
  ASSUME Typed, updates' = updates + 1
  PROVE  /\ pend \in Seq(Nodes(updates')) /\ flash \in Chips(updates')
         /\ \A v : v \in 0 .. updates => v \in 0 .. updates'
         /\ durable \in (0 .. updates') \cup {Blank}
<1>. DEFINE n == updates'
<1>1. updates \in Nat /\ n \in Nat /\ updates <= n
  BY TypedParts
<1>2. \A v : v \in 0 .. updates => v \in 0 .. n
  BY <1>1
<1>. HIDE DEF n
<1>3. Values(updates) \subseteq Values(n)
  BY <1>2 DEF Values
<1>4. Records(updates) \subseteq Records(n)
  BY <1>3 DEF Records
<1>5. Nodes(updates) \subseteq Nodes(n)
  BY <1>4 DEF Nodes
<1>6. pend \in Seq(Nodes(n))
  <2>. DEFINE S == Nodes(updates)  T == Nodes(n)
  <2>1. S \subseteq T /\ pend \in Seq(S)
    BY <1>5 DEF Typed
  <2>. HIDE DEF S, T
  <2>2. pend \in Seq(T)
    BY <2>1
  <2>. QED
    BY <2>2 DEF T
<1>7. flash \in Chips(n)
  BY <1>4 DEF Typed, Chips
<1>. QED
  BY <1>2, <1>6, <1>7 DEF Typed, n

LEMMA AsyncTyped ==
  ASSUME Typed, AsyncFlush, raced' \in BOOLEAN
  PROVE  Typed'
<1>1. /\ updates \in Nat /\ pend \in Seq(Nodes(updates)) /\ flash \in Chips(updates)
      /\ state[1] \in Copies /\ state[2] \in Steps /\ state = <<state[1], state[2]>>
      /\ upd \in BOOLEAN /\ written \in Nat /\ overtaken \in BOOLEAN /\ NPages \in Nat
      /\ durable \in (0 .. updates) \cup {Blank}
  BY TypedParts, PagesThere DEF Typed
<1>2. ram' = ram /\ pc' = pc /\ at' = at /\ updates' = updates /\ crashes' = crashes
  BY DEF AsyncFlush
<1>3. Flush => pend' \in Seq(Nodes(updates)) /\ flash' \in Chips(updates)
  BY <1>1, FlushTyped
<1>4. \A c \in Copies, s \in Steps : <<c, s>> \in Copies \X Steps
  OBVIOUS
<1>. DEFINE OK == /\ state' \in Copies \X Steps /\ upd' \in BOOLEAN /\ written' \in Nat
                  /\ pend' \in Seq(Nodes(updates)) /\ flash' \in Chips(updates)
                  /\ overtaken' \in BOOLEAN /\ durable' \in (0 .. updates) \cup {Blank}
<1>. SUFFICES OK
  BY <1>2 DEF Typed
<1>5. CASE AsyncErase(state[1]) /\ UNCHANGED durable
  <2>1. PICK r \in EraseResults(state[1]) :
          IF r.ok
          THEN pend' = r.pend /\ state' = <<state[1], "ERASED">> /\ UNCHANGED flash
          ELSE state' = <<state[1], "ERASING">> /\ Flush
    BY <1>5 DEF AsyncErase
  <2>2. r.pend \in Seq(Nodes(updates))
    BY <1>1, EraseTyped
  <2>3. pend' \in Seq(Nodes(updates)) /\ flash' \in Chips(updates)
    BY <1>1, <1>3, <2>1, <2>2
  <2>4. state' \in Copies \X Steps
    BY <1>1, <2>1 DEF Steps
  <2>. QED
    BY <1>1, <1>5, <2>3, <2>4 DEF AsyncErase
<1>6. CASE AsyncWriteMain /\ UNCHANGED durable
  <2>1. PICK r \in WriteResults("main", PageSet, Sector(ram)) :
          IF r.ok
          THEN /\ pend' = r.pend /\ state' = <<"main", "WRITTEN">>
               /\ upd' = FALSE /\ overtaken' = FALSE
               /\ UNCHANGED <<flash, written>>
          ELSE state' = <<"main", "WRITTING">> /\ Flush /\ UNCHANGED <<upd, written, overtaken>>
    BY <1>6 DEF AsyncWriteMain
  <2>2. Sector(ram) \in Records(updates) /\ PageSet \in SUBSET PageSet /\ "main" \in Copies
    BY DEF Typed, Sector, Records, Values, Copies
  <2>3. r.pend \in Seq(Nodes(updates))
    BY <1>1, <2>2, WriteTyped
  <2>4. pend' \in Seq(Nodes(updates)) /\ flash' \in Chips(updates)
    BY <1>1, <1>3, <2>1, <2>3
  <2>5. state' \in Copies \X Steps
    BY <1>4, <2>1 DEF Steps, Copies
  <2>. QED
    BY <1>1, <1>6, <2>1, <2>4, <2>5
<1>7. CASE AsyncWriteBak /\ UNCHANGED durable
  <2>. DEFINE w == IF state[2] = "ERASED" THEN 0 ELSE written
              pages == w .. NPages - 1
  <2>1. upd' = upd /\ overtaken' = overtaken /\ w \in Nat
    BY <1>1, <1>7 DEF AsyncWriteBak
  <2>2. pages \in SUBSET PageSet
    BY <1>1, <2>1 DEF PageSet
  <2>3. View("main") \in Records(updates) /\ "bak" \in Copies
    BY <1>1, ViewTyped DEF Copies
  <2>4. \/ state' = <<"bak", "WRITTEN">> /\ written' = w /\ UNCHANGED <<pend, flash>>
        \/ \E r \in WriteResults("bak", pages, View("main")) :
             /\ r.ok /\ pend' = r.pend /\ state' = <<"bak", "WRITTEN">>
             /\ written' = NPages /\ UNCHANGED flash
        \/ state' = <<"bak", "WRITTING">> /\ written' = w /\ Flush
    BY <1>7 DEF AsyncWriteBak
  <2>. HIDE DEF w, pages
  <2>5. \A r \in WriteResults("bak", pages, View("main")) : r.pend \in Seq(Nodes(updates))
    BY <1>1, <2>2, <2>3, WriteTyped
  <2>6. pend' \in Seq(Nodes(updates)) /\ flash' \in Chips(updates) /\ written' \in Nat
    BY <1>1, <1>3, <2>1, <2>4, <2>5
  <2>7. state' \in Copies \X Steps
    BY <1>4, <2>4 DEF Steps, Copies
  <2>. QED
    BY <1>1, <1>7, <2>1, <2>6, <2>7
<1>8. CASE CopyDone(state[1]) /\ UNCHANGED <<upd, written, pend, flash, overtaken>>
  <2>1. state' \in Copies \X Steps
    BY <1>4, <1>8 DEF CopyDone, AfterCopy, Idle, Steps, Copies
  <2>2. Loaded(flash) \in (0 .. updates) \cup {Blank}
    BY <1>1, LoadedTyped
  <2>3. durable' \in (0 .. updates) \cup {Blank}
    BY <1>1, <1>8, <2>2 DEF CopyDone
  <2>. QED
    BY <1>1, <1>8, <2>1, <2>3
<1>9. CASE Flush /\ UNCHANGED <<nvs, durable, overtaken>>
  BY <1>1, <1>3, <1>9 DEF nvs, Typed
<1>. QED
  BY <1>5, <1>6, <1>7, <1>8, <1>9 DEF AsyncFlush

LEMMA SyncTyped ==
  ASSUME Typed, NEW t \in Tasks, SyncStep(t), UNCHANGED <<ram, updates, crashes, raced>>
  PROVE  Typed'
<1>1. /\ updates \in Nat /\ pend \in Seq(Nodes(updates)) /\ flash \in Chips(updates)
      /\ state[1] \in Copies /\ state[2] \in Steps /\ state \in Copies \X Steps
      /\ upd \in BOOLEAN /\ written \in Nat /\ overtaken \in BOOLEAN
      /\ durable \in (0 .. updates) \cup {Blank}
      /\ pc \in [Tasks -> Labels] /\ at \in [Tasks -> Copies] /\ at[t] \in Copies
  BY TypedParts DEF Typed
<1>2. \A l \in Labels : Goto(t, l) => pc' \in [Tasks -> Labels]
  BY <1>1 DEF Goto
<1>3. Flush => pend' \in Seq(Nodes(updates)) /\ flash' \in Chips(updates)
  BY <1>1, FlushTyped
<1>4. \A c \in Copies, s \in Steps : <<c, s>> \in Copies \X Steps
  OBVIOUS
<1>. DEFINE OK == /\ state' \in Copies \X Steps /\ upd' \in BOOLEAN /\ written' \in Nat
                  /\ pend' \in Seq(Nodes(updates)) /\ flash' \in Chips(updates)
                  /\ overtaken' \in BOOLEAN /\ durable' \in (0 .. updates) \cup {Blank}
                  /\ pc' \in [Tasks -> Labels] /\ at' \in [Tasks -> Copies]
<1>. SUFFICES OK
  BY DEF Typed
<1>5. CASE SyncTop(t)
  <2>1. at' \in [Tasks -> Copies]
    BY <1>1, <1>5 DEF SyncTop, Copies
  <2>2. pc' \in [Tasks -> Labels]
    BY <1>2, <1>5 DEF SyncTop, Labels
  <2>. QED
    BY <1>1, <1>5, <2>1, <2>2 DEF SyncTop, nvs
<1>15. CASE SyncEnter(t)
  <2>1. pc' \in [Tasks -> Labels]
    BY <1>2, <1>15 DEF SyncEnter, Labels
  <2>. QED
    BY <1>1, <1>15, <2>1 DEF SyncEnter, nvs
<1>6. CASE SyncErase(t)
  <2>1. PICK r \in EraseResults(at[t]) :
          pend' = r.pend /\ Goto(t, IF r.ok THEN "erased" ELSE "erflush")
    BY <1>6 DEF SyncErase
  <2>2. r.pend \in Seq(Nodes(updates))
    BY <1>1, EraseTyped
  <2>3. pc' \in [Tasks -> Labels]
    BY <1>2, <2>1 DEF Labels
  <2>. QED
    BY <1>1, <1>6, <2>1, <2>2, <2>3 DEF SyncErase, nvs
<1>7. CASE SyncErased(t)
  <2>1. pc' \in [Tasks -> Labels] /\ state' \in Copies \X Steps
    BY <1>1, <1>2, <1>4, <1>7 DEF SyncErased, Labels, Steps
  <2>. QED
    BY <1>1, <1>7, <2>1 DEF SyncErased
<1>8. CASE SyncTest(t)
  <2>1. pc' \in [Tasks -> Labels]
    BY <1>2, <1>8 DEF SyncTest, Labels
  <2>2. state' \in Copies \X Steps /\ written' \in Nat
    BY <1>1, <1>4, <1>8 DEF SyncTest, Steps, Copies
  <2>. QED
    BY <1>1, <1>8, <2>1, <2>2 DEF SyncTest
<1>9. CASE SyncWriteMain(t)
  <2>1. PICK r \in WriteResults("main", PageSet, Sector(ram)) :
          pend' = r.pend /\ Goto(t, IF r.ok THEN "written" ELSE "wrflush")
    BY <1>9 DEF SyncWriteMain
  <2>2. Sector(ram) \in Records(updates) /\ PageSet \in SUBSET PageSet /\ "main" \in Copies
    BY DEF Typed, Sector, Records, Values, Copies
  <2>3. r.pend \in Seq(Nodes(updates))
    BY <1>1, <2>2, WriteTyped
  <2>4. pc' \in [Tasks -> Labels]
    BY <1>2, <2>1 DEF Labels
  <2>. QED
    BY <1>1, <1>9, <2>1, <2>3, <2>4 DEF SyncWriteMain, nvs
<1>10. CASE SyncWriteBak(t)
  <2>1. \/ state' = <<"bak", "WRITTEN">> /\ Goto(t, "drain") /\ pend' = pend
        \/ Goto(t, "failed") /\ state' = state /\ pend' = pend
        \/ /\ written < NPages /\ state' = state
           /\ \E r \in WriteResults("bak", {written}, View("main")) :
                pend' = r.pend /\ Goto(t, IF r.ok THEN "written" ELSE "wrflush")
    <3>1. ~ (written >= NPages) => written < NPages
      BY <1>1, PagesThere
    <3>. QED
      BY <1>10, <3>1 DEF SyncWriteBak
  <2>2. ASSUME written < NPages, NEW r \in WriteResults("bak", {written}, View("main"))
        PROVE  r.pend \in Seq(Nodes(updates))
    <3>. DEFINE ps == {written}
    <3>1. ps \in SUBSET PageSet
      BY <1>1, <2>2, PagesThere DEF PageSet
    <3>2. View("main") \in Records(updates) /\ "bak" \in Copies
      BY <1>1, ViewTyped DEF Copies
    <3>3. r \in WriteResults("bak", ps, View("main"))
      OBVIOUS
    <3>. HIDE DEF ps
    <3>. QED
      BY <1>1, <3>1, <3>2, <3>3, WriteTyped
  <2>3. pc' \in [Tasks -> Labels]
    BY <1>2, <2>1 DEF Labels
  <2>4. state' \in Copies \X Steps
    BY <1>1, <1>4, <2>1 DEF Copies, Steps
  <2>5. pend' \in Seq(Nodes(updates))
    BY <1>1, <2>1, <2>2
  <2>. QED
    BY <1>1, <1>10, <2>3, <2>4, <2>5 DEF SyncWriteBak
<1>11. CASE SyncWritten(t)
  <2>1. pc' \in [Tasks -> Labels]
    <3>1. Goto(t, "drain") \/ Goto(t, "write")
      BY <1>11 DEF SyncWritten
    <3>. QED
      BY <1>2, <3>1 DEF Labels
  <2>2. state' \in Copies \X Steps /\ written' \in Nat /\ upd' \in BOOLEAN /\ overtaken' \in BOOLEAN
    <3>1. CASE at[t] = "main"
      <4>1. /\ state' = <<"main", "WRITTEN">> /\ upd' = FALSE /\ written' = written
            /\ overtaken' = (View("main") # Sector(ram))
        BY <1>11, <3>1 DEF SyncWritten
      <4>2. state' \in Copies \X Steps
        BY <1>4, <4>1 DEF Steps, Copies
      <4>. QED
        BY <1>1, <4>1, <4>2
    <3>2. CASE at[t] # "main"
      BY <1>1, <1>11, <3>2 DEF SyncWritten
    <3>. QED
      BY <3>1, <3>2
  <2>. QED
    BY <1>1, <1>11, <2>1, <2>2 DEF SyncWritten
<1>12. CASE SyncMakeRoom(t)
  <2>1. pc' \in [Tasks -> Labels]
    BY <1>1, <1>2, <1>12 DEF SyncMakeRoom, Labels
  <2>. QED
    BY <1>1, <1>3, <1>12, <2>1 DEF SyncMakeRoom, nvs
<1>13. CASE SyncDrain(t)
  <2>1. pc' \in [Tasks -> Labels]
    BY <1>1, <1>2, <1>13 DEF SyncDrain, Labels
  <2>. QED
    BY <1>1, <1>3, <1>13, <2>1 DEF SyncDrain, nvs
<1>14. CASE SyncDone(t)
  <2>1. pc' \in [Tasks -> Labels] /\ state' \in Copies \X Steps
    BY <1>2, <1>4, <1>14 DEF SyncDone, Labels, CopyDone, AfterCopy, Idle, Steps, Copies
  <2>2. Loaded(flash) \in (0 .. updates) \cup {Blank}
    BY <1>1, LoadedTyped
  <2>. QED
    BY <1>1, <1>14, <2>1, <2>2 DEF SyncDone, CopyDone
<1>. QED
  BY <1>5, <1>6, <1>7, <1>8, <1>9, <1>10, <1>11, <1>12, <1>13, <1>14, <1>15
     DEF SyncStep

LEMMA CrashTyped ==
  ASSUME Typed, Crash
  PROVE  Typed' /\ \E f \in Chips(updates) : /\ flash' = f /\ Boot(f) /\ durable' = Lasting(f)
<1>1. /\ updates \in Nat /\ pend \in Seq(Nodes(updates)) /\ flash \in Chips(updates)
  BY TypedParts
<1>2. PICK f \in CrashResults \cup HalfCleared :
         flash' = f /\ Boot(f) /\ durable' = Lasting(f)
  BY DEF Crash
<1>3. f \in Chips(updates)
  <2>1. CASE f = flash
    BY <1>1, <2>1
  <2>2. CASE pend # <<>> /\ f \in Torn(Oldest, flash)
    BY <1>1, <2>2, OldestTyped, TornTyped
  <2>3. CASE f \in HalfCleared
    <3>1. EffectAll(pend, flash) \in Chips(updates)
      BY <1>1, EffectAllUnfolds
    <3>2. \A v \in {Blank, Junk} : Sector(v) \in Records(updates)
      BY DEF Sector, Records, Values
    <3>. QED
      BY <2>3, <3>1, <3>2 DEF HalfCleared, Chips, Copies
  <2>. QED
    BY <1>2, <2>1, <2>2, <2>3 DEF CrashResults
<1>4. Loaded(f) \in (0 .. updates) \cup {Blank} /\ Lasting(f) \in (0 .. updates) \cup {Blank}
  BY <1>1, <1>3, LoadedTyped
<1>5. ram' \in 0 .. updates /\ upd' \in BOOLEAN
  BY <1>1, <1>2, <1>4 DEF Boot
<1>6. state' \in Copies \X Steps
  BY <1>2 DEF Boot, AfterCopy, Idle, Copies, Steps
<1>7. pc' \in [Tasks -> Labels] /\ at' \in [Tasks -> Copies]
  BY <1>2 DEF Boot, Labels, Copies
<1>8. /\ updates' = updates /\ pend' = <<>> /\ written' = 0 /\ overtaken' = FALSE /\ raced' = FALSE
      /\ crashes' \in 0 .. MaxCrashes
  BY ConstAssumption DEF Crash, Typed
<1>9. pend' \in Seq(Nodes(updates)) /\ written' \in Nat
  BY <1>8
<1>10. Typed'
  BY <1>2, <1>3, <1>4, <1>5, <1>6, <1>7, <1>8, <1>9 DEF Typed
<1>. QED
  BY <1>2, <1>3, <1>10

(* A change, with or without a flush of it *)
LEMMA ChangeTyped ==
  ASSUME Typed, updates < MaxUpdates, updates' = updates + 1, ram' = updates', upd' = TRUE,
         pend' \in Seq(Nodes(updates')), flash' \in Chips(updates'),
         durable' \in (0 .. updates') \cup {Blank}, raced' \in BOOLEAN,
         pc' \in [Tasks -> Labels], UNCHANGED <<state, written, at, crashes, overtaken>>
  PROVE  Typed'
<1>1. updates' \in 0 .. MaxUpdates /\ ram' \in 0 .. updates'
  BY ConstAssumption DEF Typed
<1>. QED
  BY <1>1 DEF Typed

(* A change may begin: there is room for it, and for the one of a rebuild. *)
LEMMA MoreUpdates ==
  ASSUME Typed, UpdatesLeft
  PROVE  updates < MaxUpdates /\ (Rebuilding => updates + 1 < MaxUpdates)
<1>1. updates \in Nat /\ MaxUpdates \in Nat
  BY ConstAssumption, TypedParts
<1>2. CASE Rebuilding
  BY <1>1, <1>2 DEF UpdatesLeft
<1>3. CASE ~ Rebuilding
  BY <1>1, <1>3 DEF UpdatesLeft
<1>. QED
  BY <1>2, <1>3

LEMMA TypedStep ==
  ASSUME Typed, OneRebuild, [Next]_vars
  PROVE  Typed'
<1>1. CASE SleepHook
  BY <1>1, AsyncTyped DEF SleepHook, Typed
<1>2. CASE OtherFlush
  <2>1. pend' \in Seq(Nodes(updates)) /\ flash' \in Chips(updates)
    BY <1>2, FlushTyped, TypedParts DEF OtherFlush
  <2>. QED
    BY <1>2, <2>1 DEF OtherFlush, Typed, nvs, history
<1>3. CASE Crash
  BY <1>3, CrashTyped
<1>4. ASSUME NEW t \in Tasks, Update(t) PROVE Typed'
  <2>1. /\ updates' = updates + 1 /\ ram' = updates' /\ upd' = TRUE
        /\ UNCHANGED <<state, written, at, crashes, overtaken>>
        /\ pend' = pend /\ flash' = flash /\ durable' = durable /\ raced' = raced /\ pc' = pc
    BY <1>4 DEF Update, history
  <2>2. updates < MaxUpdates
    BY <1>4, MoreUpdates DEF Update
  <2>. QED
    BY <2>1, <2>2, Grow, ChangeTyped DEF Typed
<1>5. ASSUME NEW t \in Tasks, StartFlush(t) PROVE Typed'
  <2>1. pc' \in [Tasks -> Labels] /\ raced' \in BOOLEAN
    BY <1>5 DEF StartFlush, Typed, Labels
  <2>. QED
    BY <1>5, <2>1 DEF StartFlush, Typed, nvs
<1>6. ASSUME NEW t \in Tasks, Clear(t) PROVE Typed'
  <2>1. /\ UNCHANGED <<ram, nvs, at, updates, crashes, overtaken>>
        /\ pend' = <<>> /\ flash' = [c \in Copies |-> Sector(Blank)] /\ durable' = Blank
        /\ raced' = (raced \/ Preempts(t)) /\ pc' = [pc EXCEPT ![t] = "cleared"]
    BY <1>6 DEF Clear, SectorClear
  <2>2. pend' \in Seq(Nodes(updates))
    BY <2>1
  <2>3. \A n : Sector(Blank) \in Records(n)
    BY DEF Sector, Records, Values
  <2>4. flash' \in Chips(updates)
    BY <2>1, <2>3 DEF Chips
  <2>5. pc' \in [Tasks -> Labels] /\ raced' \in BOOLEAN
    BY <2>1 DEF Typed, Labels
  <2>. QED
    BY <2>1, <2>2, <2>4, <2>5 DEF Typed, nvs
<1>10. ASSUME NEW t \in Tasks, RebuildSave(t) PROVE Typed'
  <2>1. /\ updates' = updates + 1 /\ ram' = updates' /\ upd' = TRUE
        /\ UNCHANGED <<state, written, at, crashes, overtaken>>
        /\ pend' = pend /\ flash' = flash /\ durable' = durable
        /\ raced' = (raced \/ Preempts(t)) /\ pc' = [pc EXCEPT ![t] = "top"]
    BY <1>10 DEF RebuildSave
  <2>2. updates < MaxUpdates
    BY <1>10 DEF RebuildSave, OneRebuild, Rebuilding
  <2>3. pc' \in [Tasks -> Labels] /\ raced' \in BOOLEAN
    BY <2>1 DEF Typed, Labels
  <2>. QED
    BY <2>1, <2>2, <2>3, Grow, ChangeTyped
<1>7. ASSUME NEW t \in Tasks, AsyncCall(t) PROVE Typed'
  <2>1. raced' \in BOOLEAN
    BY <1>7 DEF AsyncCall, Typed
  <2>. QED
    BY <1>7, <2>1, AsyncTyped DEF AsyncCall
<1>8. ASSUME NEW t \in Tasks, Sync(t) PROVE Typed'
  BY <1>8, SyncTyped DEF Sync
<1>9. CASE UNCHANGED vars
  BY <1>9 DEF vars, nvs, history, Typed
<1>. QED
  BY <1>1, <1>2, <1>3, <1>4, <1>5, <1>6, <1>7, <1>8, <1>9, <1>10 DEF Next

(* A step of the synchronous flush neither begins nor ends a rebuild. *)
LEMMA SyncApart ==
  ASSUME NEW t \in Tasks, SyncStep(t), pc \in [Tasks -> Labels]
  PROVE  /\ ~ Apart(t)
         /\ \A u \in Tasks : pc'[u] = "cleared" <=> pc[u] = "cleared"
         /\ Rebuilding' <=> Rebuilding
<1>1. /\ ~ Apart(t)
      /\ pc' = pc \/ \E l \in Labels : l # "cleared" /\ pc' = [pc EXCEPT ![t] = l]
  BY DEF SyncStep, SyncTop, SyncEnter, SyncErase, SyncErased, SyncTest, SyncWriteMain, SyncWriteBak,
         SyncWritten, SyncMakeRoom, SyncDrain, SyncDone, Goto, Labels, Apart
<1>2. \A u \in Tasks : pc'[u] = "cleared" <=> pc[u] = "cleared"
  BY <1>1 DEF Apart
<1>. QED
  BY <1>1, <1>2 DEF Rebuilding

(* Every step keeps to one rebuild at a time. *)
LEMMA RebuildStep ==
  ASSUME Typed, OneRebuild, [Next]_vars
  PROVE  OneRebuild'
<1>0. updates \in Nat /\ MaxUpdates \in Nat /\ pc \in [Tasks -> Labels]
  BY ConstAssumption, TypedParts DEF Typed
<1>1. ASSUME updates' = updates, \A u \in Tasks : pc'[u] = "cleared" => pc[u] = "cleared"
      PROVE  OneRebuild'
  BY <1>1 DEF OneRebuild, Rebuilding
<1>2. ASSUME updates' = updates, pc' = pc PROVE OneRebuild'
  BY <1>1, <1>2
<1>3. CASE SleepHook \/ OtherFlush \/ UNCHANGED vars
  BY <1>2, <1>3 DEF SleepHook, AsyncFlush, OtherFlush, vars
<1>4. CASE Crash
  <2>1. updates' = updates /\ \A u \in Tasks : pc'[u] # "cleared"
    BY <1>4 DEF Crash, Boot
  <2>. QED
    BY <1>1, <2>1
<1>5. ASSUME NEW t \in Tasks, Update(t) PROVE OneRebuild'
  <2>1. pc' = pc /\ updates' = updates + 1
    BY <1>5 DEF Update
  <2>2. Rebuilding => updates + 1 < MaxUpdates
    BY <1>0, <1>5, MoreUpdates DEF Update
  <2>. QED
    BY <2>1, <2>2 DEF OneRebuild, Rebuilding
<1>6. ASSUME NEW t \in Tasks, StartFlush(t) PROVE OneRebuild'
  <2>1. pc' = [pc EXCEPT ![t] = "top"] /\ updates' = updates
    BY <1>6 DEF StartFlush
  <2>. QED
    BY <1>0, <1>1, <2>1
<1>7. ASSUME NEW t \in Tasks, Clear(t) PROVE OneRebuild'
  <2>1. pc' = [pc EXCEPT ![t] = "cleared"] /\ updates' = updates /\ ~ Rebuilding
    BY <1>7 DEF Clear, MayClear
  <2>2. updates < MaxUpdates
    BY <1>7, MoreUpdates DEF Clear, MayClear
  <2>3. \A u \in Tasks : pc'[u] = "cleared" => u = t
    BY <1>0, <2>1 DEF Rebuilding
  <2>. QED
    BY <2>1, <2>2, <2>3 DEF OneRebuild
<1>8. ASSUME NEW t \in Tasks, RebuildSave(t) PROVE OneRebuild'
  <2>1. pc[t] = "cleared" /\ pc' = [pc EXCEPT ![t] = "top"]
    BY <1>8 DEF RebuildSave
  <2>2. \A u \in Tasks : pc'[u] # "cleared"
    BY <1>0, <2>1 DEF OneRebuild
  <2>. QED
    BY <2>2 DEF OneRebuild, Rebuilding
<1>9. ASSUME NEW t \in Tasks, AsyncCall(t) PROVE OneRebuild'
  BY <1>2, <1>9 DEF AsyncCall, AsyncFlush
<1>10. ASSUME NEW t \in Tasks, Sync(t) PROVE OneRebuild'
  BY <1>0, <1>1, <1>10, SyncApart DEF Sync
<1>. QED
  BY <1>3, <1>4, <1>5, <1>6, <1>7, <1>8, <1>9, <1>10 DEF Next

-----------------------------------------------------------------------------
(* Every step keeps the invariant. *)

(* The thread that runs in a flush is the one the invariant is about. *)
LEMMA InFlush ==
  ASSUME NEW l, Where(l), NEW t \in Tasks, ~ Apart(t)
  PROVE  /\ l # "out" /\ pc[t] = l /\ (l = "top" \/ at[t] = state[1])
         /\ \A u \in Tasks \ {t} : Apart(u)
BY DEF Where, Apart

(* A thread whose step lands finds the invariant there. *)
LEMMA LandsGood ==
  ASSUME Typed, NEW t \in Tasks, \A u \in Tasks \ {t} : Apart(u), Lands(t)
  PROVE  \E l \in Labels : Where(l)' /\ Good(l)'
<1>1. PICK l \in Labels : /\ pc' = [pc EXCEPT ![t] = l]
                          /\ l \in {"out", "top"} \/ at'[t] = state'[1]
                          /\ Good(l)'
  BY DEF Lands
<1>2. pc'[t] = l /\ \A u \in Tasks \ {t} : pc'[u] = pc[u]
  BY <1>1 DEF Typed
<1>3. Where(l)'
  BY <1>1, <1>2 DEF Where, Apart
<1>. QED
  BY <1>1, <1>3

LEMMA SyncGood ==
  ASSUME Typed, NEW l, Where(l), Good(l), NEW t \in Tasks, Sync(t)
  PROVE  \E k \in Labels : Where(k)' /\ Good(k)'
<1>1. SyncStep(t) /\ UNCHANGED <<ram, updates>> /\ pc \in [Tasks -> Labels]
      /\ at \in [Tasks -> Copies]
  BY DEF Sync, Typed
<1>2. ~ Apart(t) /\ (Rebuilding' <=> Rebuilding)
  BY <1>1, SyncApart
<1>3. pc[t] = l /\ (l = "top" \/ at[t] = state[1]) /\ \A u \in Tasks \ {t} : Apart(u)
  BY <1>2, InFlush
<1>4. PICK z \in Drafts : Ready(l, z)
  BY DEF Good
<1>5. Lands(t)
  <2>1. CASE SyncTop(t)
    <3>1. l = "top"
      BY <1>3, <2>1 DEF SyncTop
    <3>. QED
      BY <1>1, <1>2, <1>4, <2>1, <3>1, TopStep
  <2>11. CASE SyncEnter(t)
    <3>1. l = "enter" /\ at[t] = state[1]
      BY <1>3, <2>11 DEF SyncEnter
    <3>. QED
      BY <1>1, <1>2, <1>4, <2>11, <3>1, EnterStep
  <2>2. CASE SyncErase(t)
    <3>1. l = "erase" /\ at[t] = state[1]
      BY <1>3, <2>2 DEF SyncErase
    <3>. QED
      BY <1>1, <1>2, <1>4, <2>2, <3>1, EraseStep
  <2>3. CASE SyncErased(t)
    <3>1. l = "erased" /\ at[t] = state[1]
      BY <1>3, <2>3 DEF SyncErased
    <3>. QED
      BY <1>1, <1>2, <1>4, <2>3, <3>1, ErasedStep
  <2>4. CASE SyncTest(t)
    <3>1. l = "test" /\ at[t] = state[1]
      BY <1>3, <2>4 DEF SyncTest
    <3>. QED
      BY <1>1, <1>2, <1>4, <2>4, <3>1, TestStep
  <2>5. CASE SyncWriteMain(t)
    <3>1. l = "write" /\ at[t] = state[1]
      BY <1>3, <2>5 DEF SyncWriteMain
    <3>. QED
      BY <1>1, <1>2, <1>4, <2>5, <3>1, WriteMainStep
  <2>6. CASE SyncWriteBak(t)
    <3>1. l = "write" /\ at[t] = state[1]
      BY <1>3, <2>6 DEF SyncWriteBak
    <3>. QED
      BY <1>1, <1>2, <1>4, <2>6, <3>1, WriteBakStep
  <2>7. CASE SyncWritten(t)
    <3>1. l = "written" /\ at[t] = state[1]
      BY <1>3, <2>7 DEF SyncWritten
    <3>. QED
      BY <1>1, <1>2, <1>4, <2>7, <3>1, WrittenStep
  <2>8. CASE SyncMakeRoom(t)
    <3>1. l \in {"erflush", "wrflush"} /\ at[t] = state[1]
      BY <1>3, <2>8 DEF SyncMakeRoom
    <3>. QED
      BY <1>1, <1>2, <1>3, <1>4, <2>8, <3>1, MakeRoomStep
  <2>9. CASE SyncDrain(t)
    <3>1. l = "drain" /\ at[t] = state[1]
      BY <1>3, <2>9 DEF SyncDrain
    <3>. QED
      BY <1>1, <1>2, <1>3, <1>4, <2>9, <3>1, DrainStep
  <2>10. CASE SyncDone(t)
    <3>1. l = "done" /\ at[t] = state[1]
      BY <1>3, <2>10 DEF SyncDone
    <3>. QED
      BY <1>1, <1>2, <1>4, <2>10, <3>1, DoneStep
  <2>. QED
    BY <1>1, <2>1, <2>2, <2>3, <2>4, <2>5, <2>6, <2>7, <2>8, <2>9, <2>10, <2>11
       DEF SyncStep
<1>. QED
  BY <1>3, <1>5, LandsGood

(* A thread that starts a flush inside another one is seen. *)
LEMMA Alone ==
  ASSUME NEW l, Where(l), Good(l), NEW t \in Tasks, Apart(t), ~ Preempts(t)
  PROVE  l = "out" /\ \A u \in Tasks : Apart(u)
<1>1. l \notin {"failed", "cleared"}
  BY DEF Good, Ready, Control
<1>2. ASSUME l # "out" PROVE FALSE
  <2>1. PICK u \in Tasks : pc[u] = l
    BY <1>2 DEF Where
  <2>. QED
    BY <1>1, <1>2, <2>1 DEF Preempts, Inside, Apart
<1>. QED
  BY <1>2 DEF Where

(* Where the threads are does not change. *)
LEMMA WhereStays ==
  ASSUME NEW l, Where(l), UNCHANGED <<pc, at, state>>
  PROVE  Where(l)' /\ (Rebuilding' <=> Rebuilding)
BY DEF Where, Apart, Rebuilding

LEMMA GoodStep ==
  ASSUME NvInv, [Next]_vars, ~ raced'
  PROVE  \E l \in Labels : Where(l)' /\ Good(l)'
<1>0. Typed
  BY DEF NvInv
<1>1. CASE Crash
  <2>1. PICK f \in Chips(updates) : flash' = f /\ Boot(f) /\ durable' = Lasting(f)
    BY <1>0, <1>1, CrashTyped
  <2>2. updates \in Nat /\ pend' = <<>> /\ written' = 0 /\ updates' = updates /\ overtaken' = FALSE
    BY <1>0, <1>1, TypedParts DEF Crash
  <2>3. PICK l \in {"top", "out"} : (l = "top" <=> upd') /\ Good(l)'
    BY <2>1, <2>2, BootGood
  <2>4. pc' = [t \in Tasks |-> IF t = BootThread /\ upd' THEN "top" ELSE "out"]
    BY <2>1 DEF Boot
  <2>5. CASE l = "out"
    <3>1. Where(l)'
      BY <2>3, <2>4, <2>5 DEF Where, Apart
    <3>. QED
      BY <2>3, <3>1 DEF Labels
  <2>6. CASE l = "top"
    <3>1. pc'[BootThread] = "top" /\ \A u \in Tasks \ {BootThread} : pc'[u] = "out"
      BY <2>3, <2>4, <2>6, BootThere
    <3>2. Where(l)'
      BY <2>6, <3>1, BootThere DEF Where, Apart
    <3>. QED
      BY <2>3, <3>2 DEF Labels
  <2>. QED
    BY <2>5, <2>6
<1>2. CASE ~ Crash
  <2>1. ~ raced
    BY <1>2 DEF Next, vars, history, SleepHook, OtherFlush, Update, StartFlush, Clear,
                 RebuildSave, AsyncCall, Sync
  <2>2. PICK l \in Labels : Where(l) /\ Good(l)
    BY <2>1 DEF NvInv
  <2>3. CASE SleepHook
    <3>1. \A t \in Tasks : ~ Inside(t)
      BY <2>3 DEF SleepHook, Asleep
    <3>2. l = "out"
      BY <2>2, <3>1 DEF Where, Good, Ready, Control, Inside
    <3>4. UNCHANGED <<pc, at>>
      BY <2>3 DEF SleepHook, AsyncFlush
    <3>6. Rebuilding' <=> Rebuilding
      BY <3>4 DEF Rebuilding
    <3>3. Good("out")'
      BY <1>0, <2>2, <2>3, <3>2, <3>6, AsyncGood DEF SleepHook
    <3>5. Where("out")'
      BY <2>2, <3>2, <3>4 DEF Where, Apart
    <3>. QED
      BY <3>3, <3>5 DEF Labels
  <2>4. CASE OtherFlush
    <3>1. PICK z \in Drafts : Ready(l, z)
      BY <2>2 DEF Good
    <3>2. Flush /\ UNCHANGED <<ram, nvs, durable, overtaken, updates>> /\ UNCHANGED <<pc, at, state>>
      BY <2>4 DEF OtherFlush, history, nvs
    <3>3. Ready(l, z)'
      BY <1>0, <2>2, <3>1, <3>2, FlushReady, WhereStays
    <3>4. (z \in Drafts)'
      BY <3>2 DEF Drafts
    <3>. QED
      BY <2>2, <3>2, <3>3, <3>4, WhereStays DEF Good
  <2>5. ASSUME NEW t \in Tasks, Update(t) PROVE \E k \in Labels : Where(k)' /\ Good(k)'
    <3>1. /\ ram' = updates + 1 /\ updates' = updates + 1 /\ upd' = TRUE
          /\ UNCHANGED <<state, written, pend, flash, history>> /\ UNCHANGED <<pc, at, state>>
      BY <2>5 DEF Update
    <3>. QED
      BY <1>0, <2>2, <3>1, UpdateGood, WhereStays
  <2>6. ASSUME NEW t \in Tasks, StartFlush(t) PROVE \E k \in Labels : Where(k)' /\ Good(k)'
    <3>1. /\ pc[t] = "out" /\ ~ Preempts(t) /\ Goto(t, "top")
          /\ UNCHANGED <<ram, nvs, pend, flash, durable, overtaken>> /\ updates' = updates
      BY <2>6 DEF StartFlush, Goto
    <3>2. l = "out" /\ \A u \in Tasks : Apart(u)
      BY <2>2, <3>1, Alone DEF Apart
    <3>8. Rebuilding' <=> Rebuilding
      BY <1>0, <3>1 DEF Rebuilding, Goto, Typed
    <3>3. PICK z \in Drafts : Ready("out", z)
      BY <2>2, <3>2 DEF Good
    <3>4. /\ Control("top") /\ Given("top") = Given("out") /\ (Opened("top") <=> Opened("out"))
          /\ state[1] = "main" => MainPhase("top", z)
      BY <3>3 DEF Ready, Control, Given, Opened, Labels, MainPhase
    <3>5. Ready("top", z)'
      BY <1>0, <3>1, <3>3, <3>4, <3>8, Relabel
    <3>6. (z \in Drafts)'
      BY <3>1 DEF Drafts
    <3>7. Lands(t)
      BY <3>1, <3>5, <3>6, LandsAt DEF Labels
    <3>. QED
      BY <1>0, <3>2, <3>7, LandsGood
  <2>7. ASSUME NEW t \in Tasks, Clear(t) PROVE \E k \in Labels : Where(k)' /\ Good(k)'
    <3>1. /\ pc[t] = "out" /\ ~ Preempts(t) /\ pc' = [pc EXCEPT ![t] = "cleared"]
          /\ SectorClear /\ UNCHANGED <<ram, upd, state, written, updates>>
      BY <2>7 DEF Clear, MayClear, nvs
    <3>2. l = "out" /\ \A u \in Tasks : Apart(u)
      BY <2>2, <3>1, Alone DEF Apart
    <3>3. Rebuilding'
      BY <1>0, <3>1 DEF Rebuilding, Typed
    <3>4. Good("out")'
      BY <1>0, <2>2, <3>1, <3>2, <3>3, ClearGood
    <3>5. Where("out")'
      BY <1>0, <3>1, <3>2 DEF Where, Apart, Typed
    <3>. QED
      BY <3>4, <3>5 DEF Labels
  <2>11. ASSUME NEW t \in Tasks, RebuildSave(t) PROVE \E k \in Labels : Where(k)' /\ Good(k)'
    <3>5. pc[t] = "cleared" /\ ~ Preempts(t) /\ raced' = raced
      BY <1>0, <2>11 DEF RebuildSave, Typed
    <3>6. /\ Goto(t, "top") /\ ram' = updates + 1 /\ updates' = updates + 1 /\ upd' = TRUE
          /\ UNCHANGED <<state, written, pend, flash, durable, overtaken>>
      BY <2>11 DEF RebuildSave, Goto
    <3>1. /\ pc[t] = "cleared" /\ ~ Preempts(t) /\ Goto(t, "top")
          /\ ram' = updates + 1 /\ updates' = updates + 1 /\ upd' = TRUE
          /\ UNCHANGED <<state, written, pend, flash, history>>
      BY <3>5, <3>6 DEF history
    <3>2. l = "out" /\ \A u \in Tasks : Apart(u)
      BY <2>2, <3>1, Alone DEF Apart
    <3>3. Good("top")'
      BY <1>0, <2>2, <3>1, <3>2, UpdateGood, StartGood
    <3>4. Lands(t)
      BY <3>1, <3>3 DEF Lands, Goto, Labels
    <3>. QED
      BY <1>0, <3>2, <3>4, LandsGood
  <2>8. ASSUME NEW t \in Tasks, AsyncCall(t) PROVE \E k \in Labels : Where(k)' /\ Good(k)'
    <3>1. pc[t] = "out" /\ ~ Preempts(t) /\ AsyncFlush
      BY <2>8 DEF AsyncCall
    <3>2. l = "out" /\ \A u \in Tasks : Apart(u)
      BY <2>2, <3>1, Alone DEF Apart
    <3>4. pc' = pc
      BY <3>1 DEF AsyncFlush
    <3>6. Rebuilding' <=> Rebuilding
      BY <3>4 DEF Rebuilding
    <3>3. Good("out")'
      BY <1>0, <2>2, <3>1, <3>2, <3>6, AsyncGood
    <3>5. Where("out")'
      BY <3>2, <3>4 DEF Where, Apart
    <3>. QED
      BY <3>3, <3>5 DEF Labels
  <2>9. ASSUME NEW t \in Tasks, Sync(t) PROVE \E k \in Labels : Where(k)' /\ Good(k)'
    BY <1>0, <2>2, <2>9, SyncGood
  <2>10. CASE UNCHANGED vars
    BY <2>2, <2>10 DEF vars, nvs, history, Where, Apart, Rebuilding, Good, Ready, Control, Drafts, Given, Opened,
                       MainPhase, BakPhase, Fallback, Paired
  <2>. QED
    BY <1>2, <2>3, <2>4, <2>5, <2>6, <2>7, <2>8, <2>9, <2>10, <2>11 DEF Next
<1>. QED
  BY <1>1, <1>2

(* The device fresh from the factory is about to write its first record. *)
LEMMA InitGood == Init => NvInv
<1>. SUFFICES ASSUME Init PROVE NvInv
  OBVIOUS
<1>0. NPages \in Nat \ {0} /\ BootThread \in Tasks /\ MaxUpdates \in Nat /\ MaxCrashes \in Nat
  BY PagesThere, BootThere, ConstAssumption
<1>1. Typed
  <2>1. flash \in Chips(0) /\ <<>> \in Seq(Nodes(0))
    BY DEF Init, Chips, Records, Sector, Values
  <2>2. state \in Copies \X Steps /\ at \in [Tasks -> Copies] /\ pc \in [Tasks -> Labels]
    BY DEF Init, Idle, Copies, Steps, Labels
  <2>3. /\ updates = 0 /\ crashes = 0 /\ ram = 0 /\ upd = TRUE /\ written = 0 /\ pend = <<>>
        /\ durable = Blank /\ overtaken = FALSE /\ raced = FALSE
    BY DEF Init
  <2>4. pend \in Seq(Nodes(updates)) /\ flash \in Chips(updates)
    BY <2>1, <2>3
  <2>5. /\ updates \in 0 .. MaxUpdates /\ crashes \in 0 .. MaxCrashes /\ ram \in 0 .. updates
        /\ written \in Nat /\ durable \in (0 .. updates) \cup {Blank}
    BY <1>0, <2>3
  <2>. QED
    BY <2>2, <2>3, <2>4, <2>5 DEF Typed
<1>2. state[1] = "main" /\ state[2] = "START"
  BY DEF Init, Idle
<1>3. Control("top") /\ Given("top") = {} /\ ~ Opened("top")
  BY <1>0, <1>2 DEF Init, Control, Labels, Given, Opened, MayErase
<1>4. MainPhase("top", Blank)
  BY <1>2, <1>3, NotValid DEF Init, MainPhase, Copies
<1>5. Ready("top", Blank)
  BY <1>2, <1>3, <1>4 DEF Init, Ready, Blank
<1>6. Good("top")
  BY <1>5 DEF Good, Drafts
<1>7. Where("top")
  BY <1>0 DEF Init, Where, Apart
<1>8. OneRebuild
  BY DEF Init, OneRebuild, Rebuilding
<1>. QED
  BY <1>1, <1>6, <1>7, <1>8 DEF NvInv, Labels

(* The inductive invariant holds whenever the specification runs. *)
THEOREM InvariantHolds == Spec => []NvInv
<1>1. NvInv /\ [Next]_vars => NvInv'
  <2>. SUFFICES ASSUME NvInv, [Next]_vars PROVE NvInv'
    OBVIOUS
  <2>1. Typed' /\ OneRebuild'
    BY TypedStep, RebuildStep DEF NvInv
  <2>2. raced' \/ \E l \in Labels : Where(l)' /\ Good(l)'
    BY GoodStep
  <2>. QED
    BY <2>1, <2>2 DEF NvInv
<1>. QED
  BY InitGood, <1>1, PTL DEF Spec

(* The invariant from which the properties follow, taken apart *)
LEMMA NvParts ==
  ASSUME NvInv, ~ raced
  PROVE  \E l \in Labels, z \in Drafts : Where(l) /\ Ready(l, z)
BY DEF NvInv, Good

(* The state is always of its type; and as long as no flush is started       *)
(* inside another one, the loop that copies main to bak stops at the last    *)
(* page and the assertion after norflash_api_write never fails.              *)
THEOREM TypeCorrect == Spec => []TypeOK
<1>1. NvInv => TypeOK
  <2>. SUFFICES ASSUME NvInv PROVE TypeOK
    OBVIOUS
  <2>1. Typed
    BY DEF NvInv
  <2>2. updates \in Nat /\ updates <= MaxUpdates /\ 0 .. updates \subseteq Versions
    BY <2>1, ConstAssumption DEF Typed, Versions
  <2>3. Records(updates) \subseteq Content
    BY <2>2 DEF Records, Values, Content
  <2>4. Nodes(updates) \subseteq Node /\ Chips(updates) \subseteq [Copies -> Content]
    BY <2>3 DEF Nodes, Node, Chips
  <2>5. pend \in Seq(Node)
    <3>. DEFINE S == Nodes(updates)  T == Node
    <3>1. S \subseteq T /\ pend \in Seq(S)
      BY <2>1, <2>4 DEF Typed
    <3>. HIDE DEF S, T
    <3>2. pend \in Seq(T)
      BY <3>1
    <3>. QED
      BY <3>2 DEF T
  <2>6. raced \/ (written <= NPages /\ ~ Halted)
    <3>. SUFFICES ASSUME ~ raced PROVE written <= NPages /\ ~ Halted
      OBVIOUS
    <3>1. PICK l \in Labels, z \in Drafts : Where(l) /\ Ready(l, z)
      BY NvParts
    <3>2. written <= NPages /\ l # "failed"
      BY <3>1, PagesThere DEF Ready, Control
    <3>3. \A t \in Tasks : Apart(t) \/ pc[t] = l
      BY <3>1 DEF Where
    <3>. QED
      BY <3>2, <3>3 DEF Halted, Apart
  <2>. QED
    BY <2>1, <2>2, <2>4, <2>5, <2>6 DEF Typed, TypeOK, Steps
<1>. QED
  BY InvariantHolds, <1>1, PTL

(* Whenever the power fails, one of the copies is whole and no older than    *)
(* the last record whose main copy was complete.                             *)
THEOREM OneCopyWhole == Spec => []NoRollback
<1>1. NvInv => NoRollback
  <2>. SUFFICES ASSUME NvInv, ~ raced, NEW f \in CrashResults PROVE Loaded(f) >= durable
    BY DEF NoRollback
  <2>1. PICK l \in Labels, z \in Drafts : Where(l) /\ Ready(l, z)
    BY NvParts
  <2>2. Typed
    BY DEF NvInv
  <2>3. /\ updates \in Nat /\ pend \in Seq(Nodes(updates)) /\ flash \in Chips(updates)
        /\ state[1] \in Copies /\ durable \in Int /\ durable >= Blank /\ z \in Int
    BY <2>2, TypedParts DEF Drafts, Blank
  <2>4. /\ f \in Chips(updates)
        /\ \A d \in Copies : d # state[1] => f[d] = flash[d]
        /\ Valid(f[state[1]]) => f[state[1]] = flash[state[1]]
                                 \/ (f[state[1]] = Sector(z) /\ Given(l) # {})
    <3>1. CASE Opened(l)
      <4>1. Given(l) \in SUBSET PageSet /\ Shape(state[1], Given(l), z, pend, flash)
        BY <2>1, <2>2, <3>1, GivenPages DEF Ready
      <4>. QED
        BY <2>3, <4>1, CrashLeaves
    <3>2. CASE ~ Opened(l)
      <4>1. f = flash
        BY <2>1, <3>2 DEF Ready, CrashResults
      <4>. QED
        BY <2>3, <4>1
    <3>. QED
      BY <3>1, <3>2
  <2>5. /\ Loaded(f) \in (0 .. updates) \cup {Blank}
        /\ Valid(f["bak"]) => f["bak"][0] \in 0 .. updates
    BY <2>3, <2>4, LoadedTyped DEF Copies
  <2>6. Sector(z)[0] = z /\ (Valid(Sector(z)) <=> z # Blank)
    BY <2>2, DraftSector
  <2>7. CASE state[1] = "main"
    <3>1. MainPhase(l, z) /\ f["bak"] = flash["bak"]
      BY <2>1, <2>4, <2>7 DEF Ready, Copies
    <3>2. CASE Valid(f["main"])
      <4>1. f["main"][0] >= durable
        BY <2>4, <2>6, <2>7, <3>1, <3>2 DEF MainPhase
      <4>. QED
        BY <3>2, <4>1 DEF Loaded
    <3>3. CASE ~ Valid(f["main"]) /\ Fallback
      BY <3>1, <3>3 DEF Loaded, Fallback
    <3>4. CASE durable = Blank
      BY <2>5, <3>4 DEF Blank
    <3>. QED
      BY <3>1, <3>2, <3>3, <3>4 DEF MainPhase
  <2>8. CASE state[1] = "bak"
    <3>1. BakPhase(z) /\ f["main"] = Sector(z)
      BY <2>1, <2>4, <2>8 DEF Ready, BakPhase, Copies
    <3>2. CASE z = Blank
      <4>1. durable = Blank
        BY <2>3, <3>1, <3>2 DEF BakPhase, Blank
      <4>. QED
        BY <2>5, <4>1 DEF Blank
    <3>3. CASE z # Blank
      <4>1. Loaded(f) = z
        BY <2>6, <3>1, <3>3 DEF Loaded
      <4>. QED
        BY <3>1, <4>1 DEF BakPhase
    <3>. QED
      BY <3>2, <3>3
  <2>. QED
    BY <2>3, <2>7, <2>8 DEF Copies
<1>. QED
  BY InvariantHolds, <1>1, PTL

(* At rest the record is saved, and there is a backup to fall back to: the   *)
(* same, or what a boot has found.                                           *)
THEOREM RestIsSaved == Spec => []RestMeansSaved
<1>1. NvInv => RestMeansSaved
  <2>. SUFFICES ASSUME NvInv, state = Idle, ~ upd, ~ raced, \A t \in Tasks : ~ Inside(t)
                PROVE  /\ pend = <<>>
                       /\ overtaken \/ flash["main"] = Sector(ram)
                       /\ Valid(flash["bak"]) /\ flash["bak"][0] >= durable
                       /\ Paired
    BY DEF RestMeansSaved, Paired
  <2>1. PICK l \in Labels, z \in Drafts : Where(l) /\ Ready(l, z)
    BY NvParts
  <2>2. l = "out"
    BY <2>1 DEF Where, Ready, Control, Inside
  <2>3. state[1] = "main" /\ state[2] = "START"
    BY DEF Idle
  <2>4. ~ Opened(l)
    BY <2>2, <2>3 DEF Opened, MayErase
  <2>5. pend = <<>> /\ MainPhase(l, z)
    BY <2>1, <2>3, <2>4 DEF Ready
  <2>6. ~ Rebuilding
    BY DEF Rebuilding, Inside
  <2>. QED
    BY <2>2, <2>3, <2>5, <2>6 DEF MainPhase, Fallback, Paired
<1>. QED
  BY InvariantHolds, <1>1, PTL

(* What is pending programs only pages that are erased by then. *)
THEOREM WritesAreClean == Spec => []CleanWrites
<1>1. NvInv => CleanWrites
  <2>. SUFFICES ASSUME NvInv, ~ raced, NEW i \in DOMAIN pend, pend[i].type = "W",
                       NEW p \in pend[i].pages
                PROVE  EffectAll(pend, flash)[pend[i].copy][p] = pend[i].data[p]
    BY DEF CleanWrites
  <2>1. PICK l \in Labels, z \in Drafts : Where(l) /\ Ready(l, z)
    BY NvParts
  <2>2. Typed
    BY DEF NvInv
  <2>3. /\ updates \in Nat /\ pend \in Seq(Nodes(updates)) /\ flash \in Chips(updates)
        /\ state[1] \in Copies
    BY <2>2, TypedParts
  <2>4. pend # <<>>
    OBVIOUS
  <2>5. Given(l) \in SUBSET PageSet /\ Shape(state[1], Given(l), z, pend, flash)
    BY <2>1, <2>2, <2>4, GivenPages DEF Ready
  <2>6. pend[i].copy = state[1]
    BY <2>5 DEF Shape, Few
  <2>7. EffectAll(pend, flash)[state[1]][p] = pend[i].data[p]
    BY <2>3, <2>5, AllClean
  <2>. QED
    BY <2>6, <2>7
<1>. QED
  BY InvariantHolds, <1>1, PTL
===============================================================================
