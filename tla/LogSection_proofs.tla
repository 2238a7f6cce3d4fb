------------------------- MODULE LogSection_proofs --------------------------
(***************************************************************************)
(* Proofs about the log section, for any number of buffers and sectors and *)
(* any sector size and queue length.  First the ring of buffers: what each *)
(* change does to the types, the numbers and the order in which the flash  *)
(* takes them.  Then the flash and its queue of operations: any number of  *)
(* them done keeps the numbers apart and the log in order.  Then the place *)
(* in the flash, the search of a boot, the steps, and the crash flush.     *)
(***************************************************************************)
EXTENDS LogSection, SequenceLemmas, FiniteSetTheorems

SectorSet == 0 .. Sectors - 1
Op == [sector : SectorSet, seq : Nat \cup {Blank}]
Flash == [SectorSet -> Nat \cup {Blank}]
RingType == [buf : [Index -> Buffer], w : Index, f : Index, seq : Nat]

InUse(r, i) == r.buf[i].state # "FREE"

RingTypes(r) ==
  /\ r \in RingType
  /\ \A i \in Index :
       /\ r.buf[i].state = "WRITTING" => i = r.w /\ r.buf[i].offset \in 1 .. SectorSize - 1
       /\ r.buf[i].state = "WRITTEN" => r.buf[i].offset = SectorSize
       /\ InUse(r, i) => r.buf[i].seq \in 0 .. r.seq - 1

(* What the assumptions on the constants give *)
LEMMA Constants ==
  /\ Buffers \in Nat /\ Buffers >= 2 /\ Sectors \in Nat /\ Sectors >= 2
  /\ SectorSize \in Nat /\ SectorSize >= 2 /\ QueueLen \in Nat /\ QueueLen >= 1
  /\ MaxBoots \in Nat /\ Blank \notin Nat /\ 0 \in Index /\ 0 \in SectorSet
BY LogAssumption DEF Blank, Index, SectorSet

(* The next buffer is another one. *)
LEMMA SuccIs == \A i \in Index : Succ(i) \in Index /\ Succ(i) # i
BY Constants DEF Succ, Index

(* A free or full buffer is started afresh. *)
Started(r) ==
  [buf |-> [r.buf EXCEPT ![r.w] = [state |-> "WRITTING", offset |-> 1, seq |-> r.seq]],
   w |-> r.w, f |-> r.f, seq |-> r.seq + 1]

(* The writer's buffer gets n more units ... *)
Filled(r, n) ==
  [buf |-> [r.buf EXCEPT ![r.w] =
     [state |-> "WRITTING", offset |-> r.buf[r.w].offset + n, seq |-> r.buf[r.w].seq]],
   w |-> r.w, f |-> r.f, seq |-> r.seq]

(* ... or is full *)
Closed(r) ==
  [buf |-> [r.buf EXCEPT ![r.w] = [state |-> "WRITTEN", offset |-> SectorSize, seq |-> r.buf[r.w].seq]],
   w |-> Succ(r.w), f |-> IF Succ(r.w) = r.f THEN Succ(r.f) ELSE r.f, seq |-> r.seq]

(* and a buffer taken by the flash is free. *)
Freed(r) ==
  [buf |-> [r.buf EXCEPT ![r.f] =
     [state |-> "FREE", offset |-> r.buf[r.f].offset, seq |-> r.buf[r.f].seq]],
   w |-> r.w, f |-> Succ(r.f), seq |-> r.seq]

(* Opened does what Started says, ... *)
LEMMA OpenedIs ==
  ASSUME NEW r \in RingType, r.buf[r.w].state # "WRITTING"
  PROVE  Opened(r) = Started(r)
BY DEF Opened, Started, RingType

(* A change of two fields of one buffer, written as a record *)
LEMMA RingExcept ==
  ASSUME NEW r \in RingType, NEW i \in Index, NEW x, NEW y
  PROVE  [r EXCEPT !.buf[i].offset = x, !.buf[i].state = y]
           = [buf |-> [r.buf EXCEPT ![i] = [state |-> y, offset |-> x, seq |-> r.buf[i].seq]],
              w |-> r.w, f |-> r.f, seq |-> r.seq]
<1>. DEFINE b == r.buf[i]
<1>1. r.buf[i] \in Buffer /\ r.buf \in [Index -> Buffer]
  BY DEF RingType
<1>2. [[b EXCEPT !.offset = x] EXCEPT !.state = y] = [state |-> y, offset |-> x, seq |-> b.seq]
  <2>1. [b EXCEPT !.offset = x] = [state |-> b.state, offset |-> x, seq |-> b.seq]
    BY <1>1 DEF Buffer
  <2>2. [[state |-> b.state, offset |-> x, seq |-> b.seq] EXCEPT !.state = y]
          = [state |-> y, offset |-> x, seq |-> b.seq]
    OBVIOUS
  <2>. QED
    BY <2>1, <2>2
<1>3. [[r.buf EXCEPT ![i].offset = x] EXCEPT ![i].state = y]
        = [r.buf EXCEPT ![i] = [[b EXCEPT !.offset = x] EXCEPT !.state = y]]
  BY <1>1
<1>4. [r EXCEPT !.buf[i].offset = x, !.buf[i].state = y]
        = [r EXCEPT !.buf = [[r.buf EXCEPT ![i].offset = x] EXCEPT ![i].state = y]]
  BY <1>1 DEF RingType
<1>5. \A z : [r EXCEPT !.buf = z] = [buf |-> z, w |-> r.w, f |-> r.f, seq |-> r.seq]
  BY DEF RingType
<1>. QED
  BY <1>2, <1>3, <1>4, <1>5

(* and Put what Filled and Closed say. *)
LEMMA PutIs ==
  ASSUME NEW r, RingTypes(r), r.buf[r.w].state = "WRITTING", NEW n \in Nat
  PROVE  /\ Opened(r) = r
         /\ r.buf[r.w].offset + n # SectorSize => Put(r, n) = Filled(r, n)
         /\ r.buf[r.w].offset + n = SectorSize => Put(r, n) = Closed(r)
<1>1. r \in RingType /\ r.w \in Index /\ r.buf \in [Index -> Buffer] /\ r.buf[r.w] \in Buffer
  BY DEF RingTypes, RingType
<1>2. Opened(r) = r
  BY DEF Opened
<1>. DEFINE b == r.buf[r.w]  full == b.offset + n = SectorSize
<1>3. ASSUME ~ full PROVE Put(r, n) = Filled(r, n)
  <2>1. Put(r, n) = [r EXCEPT !.buf[r.w].offset = @ + n, !.buf[r.w].state = @]
    BY <1>2, <1>3 DEF Put
  <2>2. [r EXCEPT !.buf[r.w].offset = @ + n].buf[r.w].state = "WRITTING"
    BY <1>1 DEF RingType, Buffer
  <2>3. Put(r, n) = [r EXCEPT !.buf[r.w].offset = b.offset + n, !.buf[r.w].state = "WRITTING"]
    BY <2>1, <2>2
  <2>. QED
    BY <1>1, <2>3, RingExcept DEF Filled
<1>4. ASSUME full PROVE Put(r, n) = Closed(r)
  <2>1. Put(r, n) = [[r EXCEPT !.buf[r.w].offset = @ + n, !.buf[r.w].state = "WRITTEN"]
                       EXCEPT !.w = Succ(r.w), !.f = IF Succ(r.w) = @ THEN Succ(@) ELSE @]
    BY <1>2, <1>4 DEF Put
  <2>. DEFINE c == [r.buf EXCEPT ![r.w] = [state |-> "WRITTEN", offset |-> SectorSize, seq |-> b.seq]]
              z == [buf |-> c, w |-> r.w, f |-> r.f, seq |-> r.seq]
  <2>2. [r EXCEPT !.buf[r.w].offset = @ + n, !.buf[r.w].state = "WRITTEN"] = z
    <3>1. [r EXCEPT !.buf[r.w].offset = @ + n, !.buf[r.w].state = "WRITTEN"]
            = [r EXCEPT !.buf[r.w].offset = SectorSize, !.buf[r.w].state = "WRITTEN"]
      BY <1>4
    <3>2. [r EXCEPT !.buf[r.w].offset = SectorSize, !.buf[r.w].state = "WRITTEN"] = z
      BY <1>1, RingExcept
    <3>. QED
      BY <3>1, <3>2
  <2>3. Put(r, n) = [z EXCEPT !.w = Succ(r.w), !.f = IF Succ(r.w) = @ THEN Succ(@) ELSE @]
    BY <2>1, <2>2
  <2>. HIDE DEF c
  <2>4. [z EXCEPT !.w = Succ(r.w), !.f = IF Succ(r.w) = @ THEN Succ(@) ELSE @]
          = [z EXCEPT !.w = Succ(r.w), !.f = IF Succ(r.w) = r.f THEN Succ(r.f) ELSE r.f]
    OBVIOUS
  <2>5. \A x : [z EXCEPT !.w = Succ(r.w), !.f = x] = [buf |-> c, w |-> Succ(r.w), f |-> x, seq |-> r.seq]
    <3>1. \A y : [z EXCEPT !.w = y] = [buf |-> c, w |-> y, f |-> r.f, seq |-> r.seq]
      OBVIOUS
    <3>2. \A x, y : [[buf |-> c, w |-> y, f |-> r.f, seq |-> r.seq] EXCEPT !.f = x]
                     = [buf |-> c, w |-> y, f |-> x, seq |-> r.seq]
      OBVIOUS
    <3>. HIDE DEF z
    <3>. QED
      BY <3>1, <3>2
  <2>. QED
    BY <2>3, <2>4, <2>5 DEF Closed, c
<1>. QED
  BY <1>2, <1>3, <1>4

-----------------------------------------------------------------------------
(* Going round a ring of n places, and the place of i counted from f *)
Round(i, n) == IF i + 1 = n THEN 0 ELSE i + 1
Place(i, f, n) == IF i >= f THEN i - f ELSE i - f + n

(* Going round, and where each place is counted from the one behind f *)
LEMMA Places ==
  ASSUME NEW n \in Nat, n >= 2, NEW f \in 0 .. n - 1
  PROVE  /\ Round(f, n) \in 0 .. n - 1 /\ Round(f, n) # f
         /\ Place(f, f, n) = 0 /\ Place(f, Round(f, n), n) = n - 1
         /\ \A i \in 0 .. n - 1 :
              /\ Place(i, f, n) \in 0 .. n - 1
              /\ i # f => /\ Place(i, f, n) > 0
                         /\ Place(i, Round(f, n), n) = Place(i, f, n) - 1
                         /\ Place(i, Round(f, n), n) \in 0 .. n - 1
              /\ Round(i, n) # f => Place(Round(i, n), f, n) = Place(i, f, n) + 1
              /\ \A j \in 0 .. n - 1 : Place(i, f, n) = Place(j, f, n) => i = j
BY DEF Round, Place

(* The buffers go round as Round does. *)
LEMMA SuccRound == \A i \in Index : Succ(i) = Round(i, Buffers)
BY Constants DEF Succ, Round, Index
-----------------------------------------------------------------------------
(* The numbers of the buffers in use differ, from each other and from those  *)
(* in N, and the next number is above them all.                              *)
RingNames(r, N) ==
  /\ \A i, j \in Index : i # j /\ InUse(r, i) /\ InUse(r, j) => r.buf[i].seq # r.buf[j].seq
  /\ \A i \in Index : InUse(r, i) => r.buf[i].seq \notin N
  /\ \A n \in N : n < r.seq

(* The buffers that wait for the flash lie between its place and the         *)
(* writer's and are the newer the later their turn is, all newer than N.     *)
Live(r, i) == InUse(r, i) /\ (i # r.w \/ r.buf[i].state = "WRITTING")

Turn(r, i) == Place(i, r.f, Buffers)

RingOrder(r, N) ==
  /\ \A i \in Index : i # r.w /\ InUse(r, i) => Turn(r, i) < Turn(r, r.w)
  /\ \A i, j \in Index : Live(r, i) /\ Live(r, j) /\ Turn(r, i) < Turn(r, j) =>
                           r.buf[i].seq < r.buf[j].seq
  /\ \A i \in Index, n \in N : Live(r, i) => n < r.buf[i].seq

(* The parts of a ring *)
LEMMA RingParts ==
  ASSUME NEW r, RingTypes(r)
  PROVE  /\ r.w \in Index /\ r.f \in Index /\ r.seq \in Nat
         /\ r.buf \in [Index -> Buffer]
         /\ \A i \in Index : /\ r.buf[i] \in Buffer /\ r.buf[i].offset \in 0 .. SectorSize
                             /\ r.buf[i].state \in {"FREE", "WRITTING", "WRITTEN"}
                             /\ r.buf[i].seq \in Nat \cup {Blank}
                             /\ InUse(r, i) => r.buf[i].seq \in Nat /\ r.buf[i].seq < r.seq
         /\ \A i \in Index : r.buf[i].state = "WRITTING" => i = r.w /\ r.buf[i].offset \in 1 .. SectorSize - 1
         /\ \A i \in Index : r.buf[i].state = "WRITTEN" => r.buf[i].offset = SectorSize
<1>1. r \in RingType
  BY DEF RingTypes
<1>2. r.w \in Index /\ r.f \in Index /\ r.seq \in Nat /\ r.buf \in [Index -> Buffer]
  BY <1>1 DEF RingType
<1>3. \A i \in Index : /\ r.buf[i] \in Buffer /\ r.buf[i].offset \in 0 .. SectorSize
                       /\ r.buf[i].state \in {"FREE", "WRITTING", "WRITTEN"}
                       /\ r.buf[i].seq \in Nat \cup {Blank}
  BY <1>2 DEF Buffer
<1>4. \A i \in Index : InUse(r, i) => r.buf[i].seq \in Nat /\ r.buf[i].seq < r.seq
  BY <1>2 DEF RingTypes
<1>. QED
  BY <1>2, <1>3, <1>4 DEF RingTypes

(* A ring in which one buffer is another *)
LEMMA RingReplace ==
  ASSUME NEW r, RingTypes(r), NEW k \in Index, NEW b \in Buffer, NEW w \in Index, NEW f \in Index,
         NEW n \in Nat, n >= r.seq,
         w = r.w \/ (b.state # "WRITTING" /\ k = r.w),
         b.state = "WRITTING" => k = w /\ b.offset \in 1 .. SectorSize - 1,
         b.state = "WRITTEN" => b.offset = SectorSize,
         b.state # "FREE" => b.seq \in Nat /\ b.seq < n
  PROVE  RingTypes([buf |-> [r.buf EXCEPT ![k] = b], w |-> w, f |-> f, seq |-> n])
<1>. DEFINE p == [buf |-> [r.buf EXCEPT ![k] = b], w |-> w, f |-> f, seq |-> n]
<1>1. /\ p.buf \in [Index -> Buffer] /\ p.w = w /\ p.f = f /\ p.seq = n
      /\ p.buf[k] = b /\ \A i \in Index : i # k => p.buf[i] = r.buf[i]
  BY RingParts
<1>2. p \in RingType
  BY <1>1 DEF RingType
<1>. HIDE DEF p
<1>3. ASSUME NEW i \in Index
      PROVE  /\ p.buf[i].state = "WRITTING" => i = p.w /\ p.buf[i].offset \in 1 .. SectorSize - 1
             /\ p.buf[i].state = "WRITTEN" => p.buf[i].offset = SectorSize
             /\ InUse(p, i) => p.buf[i].seq \in 0 .. p.seq - 1
  <2>1. CASE i = k
    BY <1>1, <2>1 DEF InUse
  <2>2. CASE i # k
    <3>1. p.buf[i] = r.buf[i]
      BY <1>1, <2>2
    <3>2. /\ r.buf[i].state = "WRITTING" => i = r.w /\ r.buf[i].offset \in 1 .. SectorSize - 1
          /\ r.buf[i].state = "WRITTEN" => r.buf[i].offset = SectorSize
      BY RingParts
    <3>3. InUse(p, i) => r.buf[i].seq \in Nat /\ r.buf[i].seq < r.seq /\ r.seq \in Nat
      BY <3>1, RingParts DEF InUse
    <3>. QED
      BY <1>1, <2>2, <3>1, <3>2, <3>3
  <2>. QED
    BY <2>1, <2>2
<1>. QED
  BY <1>2, <1>3 DEF RingTypes, p

(* Each of the four changes keeps the types. *)
LEMMA StartedTypes ==
  ASSUME NEW r, RingTypes(r)
  PROVE  RingTypes(Started(r))
<1>. DEFINE b == [state |-> "WRITTING", offset |-> 1, seq |-> r.seq]
<1>1. b \in Buffer
  BY RingParts, Constants DEF Buffer
<1>2. r.seq + 1 \in Nat /\ r.seq + 1 >= r.seq /\ b.seq \in Nat /\ b.seq < r.seq + 1
  BY RingParts
<1>3. b.offset \in 1 .. SectorSize - 1
  BY Constants
<1>4. r.w \in Index /\ r.f \in Index
  BY RingParts
<1>5. b.state # "WRITTEN"
  OBVIOUS
<1>. HIDE DEF b
<1>6. RingTypes([buf |-> [r.buf EXCEPT ![r.w] = b], w |-> r.w, f |-> r.f, seq |-> r.seq + 1])
  BY <1>1, <1>2, <1>3, <1>4, <1>5, RingReplace
<1>. QED
  BY <1>6 DEF Started, b

(* Filling a buffer keeps them too, ... *)
LEMMA FilledTypes ==
  ASSUME NEW r, RingTypes(r), r.buf[r.w].state = "WRITTING",
         NEW n \in Nat, r.buf[r.w].offset + n < SectorSize
  PROVE  RingTypes(Filled(r, n))
<1>. DEFINE b == [state |-> "WRITTING", offset |-> r.buf[r.w].offset + n, seq |-> r.buf[r.w].seq]
<1>0. r.w \in Index /\ r.f \in Index /\ r.seq \in Nat /\ r.buf[r.w].offset \in 1 .. SectorSize - 1
  BY RingParts
<1>1. b.offset \in 1 .. SectorSize - 1 /\ b.offset \in 0 .. SectorSize
  BY <1>0, Constants
<1>2. b.seq \in Nat /\ b.seq < r.seq
  BY <1>0, RingParts DEF InUse
<1>3. b \in Buffer
  BY <1>1, <1>2 DEF Buffer
<1>4. b.state # "WRITTEN"
  OBVIOUS
<1>. HIDE DEF b
<1>5. RingTypes([buf |-> [r.buf EXCEPT ![r.w] = b], w |-> r.w, f |-> r.f, seq |-> r.seq])
  BY <1>0, <1>1, <1>2, <1>3, <1>4, RingReplace
<1>. QED
  BY <1>5 DEF Filled, b

(* and so do closing ... *)
LEMMA ClosedTypes ==
  ASSUME NEW r, RingTypes(r), r.buf[r.w].state = "WRITTING"
  PROVE  RingTypes(Closed(r))
<1>. DEFINE b == [state |-> "WRITTEN", offset |-> SectorSize, seq |-> r.buf[r.w].seq]
            g == IF Succ(r.w) = r.f THEN Succ(r.f) ELSE r.f
<1>0. r.w \in Index /\ Succ(r.w) \in Index /\ g \in Index /\ r.seq \in Nat
  BY RingParts, SuccIs
<1>1. b.offset = SectorSize /\ b.offset \in 0 .. SectorSize /\ b.state = "WRITTEN"
  BY Constants
<1>2. b.seq \in Nat /\ b.seq < r.seq
  BY <1>0, RingParts DEF InUse
<1>3. b \in Buffer
  BY <1>1, <1>2 DEF Buffer
<1>. HIDE DEF b, g
<1>4. RingTypes([buf |-> [r.buf EXCEPT ![r.w] = b], w |-> Succ(r.w), f |-> g, seq |-> r.seq])
  BY <1>0, <1>1, <1>2, <1>3, RingReplace
<1>. QED
  BY <1>4 DEF Closed, b, g

(* and freeing one. *)
LEMMA FreedTypes ==
  ASSUME NEW r, RingTypes(r)
  PROVE  RingTypes(Freed(r))
<1>. DEFINE b == [state |-> "FREE", offset |-> r.buf[r.f].offset, seq |-> r.buf[r.f].seq]
<1>0. r.w \in Index /\ r.f \in Index /\ Succ(r.f) \in Index /\ r.seq \in Nat
  BY RingParts, SuccIs
<1>1. /\ b.state # "WRITTING" /\ b.state # "WRITTEN"
      /\ b.state # "FREE" => b.seq \in Nat /\ b.seq < r.seq
  OBVIOUS
<1>2. b \in Buffer
  BY <1>0, RingParts DEF Buffer
<1>. HIDE DEF b
<1>3. RingTypes([buf |-> [r.buf EXCEPT ![r.f] = b], w |-> r.w, f |-> Succ(r.f), seq |-> r.seq])
  BY <1>0, <1>1, <1>2, RingReplace
<1>. QED
  BY <1>3 DEF Freed, b

(* What is where after each *)
LEMMA Replaced ==
  ASSUME NEW r, RingTypes(r), NEW n
  PROVE  LET s == Started(r)  t == Filled(r, n)  c == Closed(r)  e == Freed(r)
         IN /\ \A i \in Index : i # r.w => /\ s.buf[i] = r.buf[i] /\ t.buf[i] = r.buf[i]
                                           /\ c.buf[i] = r.buf[i]
            /\ \A i \in Index : i # r.f => e.buf[i] = r.buf[i]
            /\ s.buf[r.w].state = "WRITTING" /\ s.buf[r.w].seq = r.seq /\ s.buf[r.w].offset = 1
            /\ t.buf[r.w].state = "WRITTING" /\ t.buf[r.w].seq = r.buf[r.w].seq
            /\ c.buf[r.w].state = "WRITTEN" /\ c.buf[r.w].seq = r.buf[r.w].seq
            /\ e.buf[r.f].state = "FREE"
            /\ s.w = r.w /\ s.f = r.f /\ s.seq = r.seq + 1
            /\ t.w = r.w /\ t.f = r.f /\ t.seq = r.seq
            /\ c.w = Succ(r.w) /\ c.seq = r.seq
            /\ c.f = IF Succ(r.w) = r.f THEN Succ(r.f) ELSE r.f
            /\ e.w = r.w /\ e.f = Succ(r.f) /\ e.seq = r.seq
<1>. r.buf \in [Index -> Buffer] /\ r.w \in Index /\ r.f \in Index
  BY RingParts
<1>. QED
  BY DEF Started, Filled, Closed, Freed
-----------------------------------------------------------------------------
(* A fresh buffer has a number of its own. *)
LEMMA StartedNames ==
  ASSUME NEW r, RingTypes(r), NEW N \in SUBSET Nat, RingNames(r, N)
  PROVE  RingNames(Started(r), N)
<1>. DEFINE p == Started(r)
<1>1. /\ r.w \in Index /\ r.seq \in Nat /\ p.seq = r.seq + 1 /\ p.buf[r.w].seq = r.seq
      /\ \A i \in Index : i # r.w => p.buf[i] = r.buf[i]
  BY RingParts, Replaced
<1>2. \A i \in Index : i # r.w => (InUse(p, i) <=> InUse(r, i)) /\ p.buf[i].seq = r.buf[i].seq
  BY <1>1 DEF InUse
<1>3. \A i \in Index : InUse(r, i) => r.buf[i].seq \in Nat /\ r.buf[i].seq < r.seq
  BY RingParts
<1>. HIDE DEF p
<1>4. ASSUME NEW i \in Index, NEW j \in Index, i # j, InUse(p, i), InUse(p, j)
      PROVE  p.buf[i].seq # p.buf[j].seq
  <2>1. CASE i # r.w /\ j # r.w
    BY <1>2, <1>4, <2>1 DEF RingNames
  <2>2. CASE i = r.w \/ j = r.w
    BY <1>1, <1>2, <1>3, <1>4, <2>2
  <2>. QED
    BY <2>1, <2>2
<1>5. \A n \in N : n < r.seq /\ n < p.seq
  BY <1>1 DEF RingNames
<1>6. ASSUME NEW i \in Index, InUse(p, i) PROVE p.buf[i].seq \notin N
  <2>1. CASE i = r.w
    BY <1>1, <1>5, <2>1
  <2>2. CASE i # r.w
    BY <1>2, <1>6, <2>2 DEF RingNames
  <2>. QED
    BY <2>1, <2>2
<1>. QED
  BY <1>4, <1>5, <1>6 DEF RingNames, p

(* A buffer that gets more output keeps its number, *)
LEMMA KeptNames ==
  ASSUME NEW r, NEW p, NEW N, RingNames(r, N), p.seq = r.seq,
         \A i \in Index : InUse(p, i) => InUse(r, i) /\ p.buf[i].seq = r.buf[i].seq
  PROVE  RingNames(p, N)
BY DEF RingNames

(* Filling and closing give no new number. *)
LEMMA FilledNames ==
  ASSUME NEW r, RingTypes(r), NEW N, RingNames(r, N), r.buf[r.w].state = "WRITTING", NEW n
  PROVE  RingNames(Filled(r, n), N) /\ RingNames(Closed(r), N)
<1>1. r.w \in Index /\ InUse(r, r.w)
  BY RingParts DEF InUse
<1>. DEFINE t == Filled(r, n)  c == Closed(r)
<1>2. /\ t.seq = r.seq /\ c.seq = r.seq
      /\ \A i \in Index : i # r.w => t.buf[i] = r.buf[i] /\ c.buf[i] = r.buf[i]
      /\ t.buf[r.w].seq = r.buf[r.w].seq /\ c.buf[r.w].seq = r.buf[r.w].seq
  BY Replaced
<1>. HIDE DEF t, c
<1>3. \A i \in Index : InUse(t, i) => InUse(r, i) /\ t.buf[i].seq = r.buf[i].seq
  BY <1>1, <1>2 DEF InUse
<1>4. \A i \in Index : InUse(c, i) => InUse(r, i) /\ c.buf[i].seq = r.buf[i].seq
  BY <1>1, <1>2 DEF InUse
<1>5. RingNames(t, N) /\ RingNames(c, N)
  BY <1>2, <1>3, <1>4, KeptNames
<1>. QED
  BY <1>5 DEF t, c

(* and one taken by the flash leaves its number there. *)
LEMMA FreedNames ==
  ASSUME NEW r, RingTypes(r), NEW N, RingNames(r, N), InUse(r, r.f),
         NEW M \in SUBSET (N \cup {r.buf[r.f].seq})
  PROVE  RingNames(Freed(r), M)
<1>. DEFINE p == Freed(r)
<1>1. /\ r.f \in Index /\ p.seq = r.seq /\ ~ InUse(p, r.f)
      /\ \A i \in Index : i # r.f => p.buf[i] = r.buf[i]
  BY RingParts, Replaced DEF InUse
<1>2. \A i \in Index : InUse(p, i) => i # r.f /\ InUse(r, i) /\ p.buf[i].seq = r.buf[i].seq
  BY <1>1 DEF InUse
<1>3. r.buf[r.f].seq < r.seq
  BY <1>1, RingParts
<1>. HIDE DEF p
<1>4. \A n \in M : n < p.seq
  BY <1>1, <1>3 DEF RingNames
<1>5. ASSUME NEW i \in Index, InUse(p, i) PROVE p.buf[i].seq \notin M
  <2>1. r.buf[i].seq \notin N /\ r.buf[i].seq # r.buf[r.f].seq
    BY <1>1, <1>2, <1>5 DEF RingNames
  <2>. QED
    BY <1>2, <1>5, <2>1
<1>6. \A i, j \in Index : i # j /\ InUse(p, i) /\ InUse(p, j) => p.buf[i].seq # p.buf[j].seq
  BY <1>2 DEF RingNames
<1>. QED
  BY <1>4, <1>5, <1>6 DEF RingNames, p

(* The turns before and after the writer or the flash moves on *)
LEMMA Turns ==
  ASSUME NEW r, RingTypes(r)
  PROVE  /\ \A i \in Index : Turn(r, i) \in 0 .. Buffers - 1
         /\ Turn(r, r.f) = 0 /\ Place(r.f, Succ(r.f), Buffers) = Buffers - 1
         /\ \A i \in Index : i # r.f => /\ Turn(r, i) > 0
                                        /\ Place(i, Succ(r.f), Buffers) = Turn(r, i) - 1
         /\ Succ(r.w) # r.f => Turn(r, Succ(r.w)) = Turn(r, r.w) + 1
         /\ \A i, j \in Index : Turn(r, i) = Turn(r, j) => i = j
<1>1. Buffers \in Nat /\ Buffers >= 2 /\ r.f \in 0 .. Buffers - 1 /\ r.w \in 0 .. Buffers - 1
  BY RingParts, Constants DEF Index
<1>2. Succ(r.f) = Round(r.f, Buffers) /\ Succ(r.w) = Round(r.w, Buffers)
  BY RingParts, SuccRound
<1>. QED
  BY <1>1, <1>2, Places DEF Turn, Index

(* A buffer started is the newest, at the writer's turn. *)
LEMMA StartedOrder ==
  ASSUME NEW r, RingTypes(r), NEW N \in SUBSET Nat, RingOrder(r, N), RingNames(r, N),
         r.buf[r.w].state # "WRITTING"
  PROVE  RingOrder(Started(r), N)
<1>. DEFINE p == Started(r)
<1>1. /\ r.w \in Index /\ r.seq \in Nat /\ p.w = r.w /\ p.f = r.f /\ p.buf[r.w].seq = r.seq
      /\ \A i \in Index : i # r.w => p.buf[i] = r.buf[i]
  BY RingParts, Replaced
<1>. HIDE DEF p
<1>2. \A i \in Index : Turn(p, i) = Turn(r, i)
  BY <1>1 DEF Turn
<1>3. \A i \in Index : i # r.w /\ InUse(p, i) => Live(r, i) /\ InUse(r, i) /\ p.buf[i].seq = r.buf[i].seq
  BY <1>1 DEF InUse, Live
<1>4. \A i \in Index : InUse(r, i) => r.buf[i].seq \in Nat /\ r.buf[i].seq < r.seq
  BY RingParts
<1>5. \A i \in Index : i # p.w /\ InUse(p, i) => Turn(p, i) < Turn(p, p.w)
  BY <1>1, <1>2, <1>3 DEF RingOrder
<1>6. ASSUME NEW i \in Index, NEW j \in Index, Live(p, i), Live(p, j), Turn(p, i) < Turn(p, j)
      PROVE  p.buf[i].seq < p.buf[j].seq
  <2>1. InUse(p, i) /\ InUse(p, j)
    BY <1>6 DEF Live
  <2>2. i # r.w
    <3>1. CASE j = r.w
      BY <1>6, <3>1, <1>2, Turns
    <3>2. CASE j # r.w
      BY <1>1, <1>5, <1>6, <2>1, <1>2, <3>2, Turns
    <3>. QED
      BY <3>1, <3>2
  <2>3. CASE j = r.w
    BY <1>1, <1>3, <1>4, <2>1, <2>2, <2>3
  <2>4. CASE j # r.w
    BY <1>2, <1>3, <1>6, <2>1, <2>2, <2>4 DEF RingOrder
  <2>. QED
    BY <2>3, <2>4
<1>7. ASSUME NEW i \in Index, NEW n \in N, Live(p, i) PROVE n < p.buf[i].seq
  <2>1. InUse(p, i)
    BY <1>7 DEF Live
  <2>2. CASE i = r.w
    BY <1>1, <2>2 DEF RingNames
  <2>3. CASE i # r.w
    BY <1>3, <2>1, <2>3 DEF RingOrder
  <2>. QED
    BY <2>2, <2>3
<1>. QED
  BY <1>5, <1>6, <1>7 DEF RingOrder, p

(* Filling leaves the order, ... *)
LEMMA FilledOrder ==
  ASSUME NEW r, RingTypes(r), NEW N, RingOrder(r, N), r.buf[r.w].state = "WRITTING", NEW n
  PROVE  RingOrder(Filled(r, n), N)
<1>. DEFINE p == Filled(r, n)
<1>1. /\ r.w \in Index /\ p.w = r.w /\ p.f = r.f /\ p.buf[r.w].seq = r.buf[r.w].seq
      /\ p.buf[r.w].state = "WRITTING"
      /\ \A i \in Index : i # r.w => p.buf[i] = r.buf[i]
  BY RingParts, Replaced
<1>. HIDE DEF p
<1>2. \A i \in Index : Turn(p, i) = Turn(r, i)
  BY <1>1 DEF Turn
<1>3. \A i \in Index : p.buf[i].state = r.buf[i].state /\ p.buf[i].seq = r.buf[i].seq
  BY <1>1
<1>4. \A i \in Index : (InUse(p, i) <=> InUse(r, i)) /\ (Live(p, i) <=> Live(r, i))
  BY <1>1, <1>3 DEF InUse, Live
<1>5. RingOrder(p, N)
  BY <1>1, <1>2, <1>3, <1>4 DEF RingOrder
<1>. QED
  BY <1>5 DEF p

(* closing too, whether or not the writer meets the flush, ... *)
LEMMA ClosedOrder ==
  ASSUME NEW r, RingTypes(r), NEW N, RingOrder(r, N), r.buf[r.w].state = "WRITTING"
  PROVE  RingOrder(Closed(r), N)
<1>. DEFINE p == Closed(r)  x == Succ(r.w)
<1>1. /\ r.w \in Index /\ r.f \in Index /\ x \in Index /\ x # r.w
      /\ p.w = x /\ p.buf[r.w].seq = r.buf[r.w].seq /\ p.f = IF x = r.f THEN Succ(r.f) ELSE r.f
      /\ p.buf[r.w].state = "WRITTEN"
      /\ \A i \in Index : i # r.w => p.buf[i] = r.buf[i]
  BY RingParts, Replaced, SuccIs
<1>. HIDE DEF p
<1>2. \A i \in Index : p.buf[i].seq = r.buf[i].seq /\ (InUse(p, i) <=> InUse(r, i))
  BY <1>1 DEF InUse
<1>3. \A i \in Index : p.buf[i].state # "WRITTING"
  BY <1>1, RingParts
<1>4. \A i \in Index : InUse(r, i) => Live(r, i)
  BY DEF Live
<1>5. \A i \in Index : Live(p, i) => InUse(p, i) /\ i # x
  BY <1>1, <1>3 DEF Live
<1>6. /\ \A i \in Index : i # x /\ InUse(r, i) => Turn(p, i) < Turn(p, x)
      /\ \A i, j \in Index : i # x /\ j # x /\ Turn(p, i) < Turn(p, j) => Turn(r, i) < Turn(r, j)
  <2>0. /\ Buffers \in Nat /\ \A i \in Index : Turn(r, i) \in 0 .. Buffers - 1
        /\ \A i \in Index : i # r.w /\ InUse(r, i) => Turn(r, i) < Turn(r, r.w)
    BY Turns, Constants DEF RingOrder
  <2>1. CASE x = r.f
    <3>1. /\ Turn(p, x) = Buffers - 1
          /\ \A i \in Index : i # x => Turn(p, i) = Turn(r, i) - 1
      BY <1>1, <2>1, Turns DEF Turn
    <3>. QED
      BY <1>1, <2>0, <3>1
  <2>2. CASE x # r.f
    <3>1. /\ Turn(p, x) = Turn(r, r.w) + 1
          /\ \A i \in Index : Turn(p, i) = Turn(r, i)
      BY <1>1, <2>2, Turns DEF Turn
    <3>. QED
      BY <1>1, <2>0, <3>1
  <2>. QED
    BY <2>1, <2>2
<1>7. \A i \in Index : i # p.w /\ InUse(p, i) => Turn(p, i) < Turn(p, p.w)
  BY <1>1, <1>2, <1>6
<1>8. \A i, j \in Index : Live(p, i) /\ Live(p, j) /\ Turn(p, i) < Turn(p, j) => p.buf[i].seq < p.buf[j].seq
  BY <1>2, <1>4, <1>5, <1>6 DEF RingOrder
<1>9. \A i \in Index, n \in N : Live(p, i) => n < p.buf[i].seq
  BY <1>2, <1>4, <1>5 DEF RingOrder
<1>. QED
  BY <1>7, <1>8, <1>9 DEF RingOrder, p

(* and so does taking the oldest buffer that waits. *)
LEMMA FreedOrder ==
  ASSUME NEW r, RingTypes(r), NEW N, RingOrder(r, N), Live(r, r.f),
         NEW M \in SUBSET (N \cup {r.buf[r.f].seq})
  PROVE  RingOrder(Freed(r), M)
<1>. DEFINE p == Freed(r)
<1>1. /\ r.w \in Index /\ r.f \in Index /\ p.w = r.w /\ p.f = Succ(r.f) /\ ~ InUse(p, r.f)
      /\ \A i \in Index : i # r.f => p.buf[i] = r.buf[i]
  BY RingParts, Replaced DEF InUse
<1>. HIDE DEF p
<1>2. \A i \in Index : InUse(p, i) => i # r.f /\ InUse(r, i) /\ p.buf[i].seq = r.buf[i].seq
  BY <1>1 DEF InUse
<1>3. \A i \in Index : Live(p, i) => i # r.f /\ Live(r, i) /\ p.buf[i].seq = r.buf[i].seq
  BY <1>1, <1>2 DEF Live
<1>4. /\ Buffers \in Nat /\ \A i \in Index : Turn(r, i) \in 0 .. Buffers - 1
      /\ Turn(r, r.f) = 0 /\ \A i \in Index : i # r.f => Turn(r, i) > 0
      /\ \A i \in Index : i # r.f => Turn(p, i) = Turn(r, i) - 1
  BY <1>1, Turns, Constants DEF Turn
<1>5. ASSUME NEW i \in Index, i # r.w, InUse(p, i) PROVE Turn(p, i) < Turn(p, r.w)
  <2>1. Turn(r, i) < Turn(r, r.w)
    BY <1>2, <1>5 DEF RingOrder
  <2>2. r.w # r.f
    BY <1>1, <1>4, <2>1
  <2>. QED
    BY <1>1, <1>2, <1>4, <1>5, <2>1, <2>2
<1>6. \A i, j \in Index : Live(p, i) /\ Live(p, j) /\ Turn(p, i) < Turn(p, j) => p.buf[i].seq < p.buf[j].seq
  <2>1. \A i, j \in Index : Live(p, i) /\ Live(p, j) /\ Turn(p, i) < Turn(p, j) => Turn(r, i) < Turn(r, j)
    BY <1>3, <1>4
  <2>. QED
    BY <1>3, <2>1 DEF RingOrder
<1>7. ASSUME NEW i \in Index, NEW n \in M, Live(p, i) PROVE n < p.buf[i].seq
  <2>1. Turn(r, r.f) < Turn(r, i) /\ Live(r, i)
    BY <1>3, <1>4, <1>7
  <2>2. r.buf[r.f].seq < r.buf[i].seq
    BY <1>1, <2>1 DEF RingOrder
  <2>. QED
    BY <1>3, <1>7, <2>1, <2>2 DEF RingOrder
<1>. QED
  BY <1>1, <1>5, <1>6, <1>7 DEF RingOrder, p
-----------------------------------------------------------------------------
(* One round of the output loop keeps all that. *)
Keeps(r, p) ==
  /\ RingTypes(p)
  /\ \A N \in SUBSET Nat : RingNames(r, N) => RingNames(p, N)
  /\ \A N \in SUBSET Nat : RingNames(r, N) /\ RingOrder(r, N) => RingOrder(p, N)

(* One such change after another is one. *)
LEMMA KeepsChain ==
  ASSUME NEW r, NEW p, NEW q, Keeps(r, p), Keeps(p, q)
  PROVE  Keeps(r, q)
BY DEF Keeps

(* A round of the loop on a buffer being written *)
LEMMA FillKeeps ==
  ASSUME NEW r, RingTypes(r), r.buf[r.w].state = "WRITTING", NEW n \in 1 .. Room(r)
  PROVE  /\ Keeps(r, Put(r, n))
         /\ n = Room(r) => LET p == Put(r, n) IN p.w \in Index /\ p.buf[p.w].state # "WRITTING"
<1>1. /\ Opened(r) = r /\ n \in Nat /\ r.buf[r.w].offset \in 1 .. SectorSize - 1
      /\ SectorSize \in Nat /\ Room(r) = SectorSize - r.buf[r.w].offset
  <2>1. Opened(r) = r
    BY DEF Opened
  <2>2. r.buf[r.w].offset \in 1 .. SectorSize - 1 /\ SectorSize \in Nat
    BY RingParts, Constants
  <2>. QED
    BY <2>1, <2>2 DEF Room
<1>2. CASE n = Room(r)
  <2>1. Put(r, n) = Closed(r)
    <3>1. r.buf[r.w].offset + n = SectorSize
      BY <1>1, <1>2
    <3>. QED
      BY <1>1, <3>1, PutIs
  <2>2. Keeps(r, Closed(r))
    BY ClosedTypes, FilledNames, ClosedOrder DEF Keeps
  <2>3. LET p == Closed(r) IN p.w \in Index /\ p.buf[p.w].state # "WRITTING"
    <3>1. /\ r.w \in Index /\ Succ(r.w) \in Index /\ Succ(r.w) # r.w /\ Closed(r).w = Succ(r.w)
          /\ \A i \in Index : i # r.w => Closed(r).buf[i] = r.buf[i]
      BY RingParts, SuccIs, Replaced
    <3>2. r.buf[Succ(r.w)].state # "WRITTING"
      BY <3>1, RingParts
    <3>. QED
      BY <3>1, <3>2
  <2>. QED
    BY <2>1, <2>2, <2>3
<1>3. CASE n # Room(r)
  <2>0. r.buf[r.w].offset + n < SectorSize /\ r.buf[r.w].offset + n # SectorSize
    BY <1>1, <1>3
  <2>1. Put(r, n) = Filled(r, n)
    BY <1>1, <2>0, PutIs
  <2>2. Keeps(r, Filled(r, n))
    BY <1>1, <2>0, FilledTypes, FilledNames, FilledOrder DEF Keeps
  <2>. QED
    BY <1>3, <2>1, <2>2
<1>. QED
  BY <1>2, <1>3

(* A round of the loop; one that uses all room leaves a buffer to start. *)
LEMMA PutKeeps ==
  ASSUME NEW r, RingTypes(r), NEW n \in 1 .. Room(r)
  PROVE  /\ Keeps(r, Put(r, n))
         /\ n = Room(r) => LET p == Put(r, n) IN p.w \in Index /\ p.buf[p.w].state # "WRITTING"
<1>1. CASE r.buf[r.w].state = "WRITTING"
  BY <1>1, FillKeeps
<1>2. CASE r.buf[r.w].state # "WRITTING"
  <2>. DEFINE s == Started(r)
  <2>1. Opened(r) = s
    BY <1>2, OpenedIs DEF RingTypes
  <2>2. RingTypes(s) /\ s.w = r.w /\ s.buf[s.w].state = "WRITTING"
    BY StartedTypes, Replaced
  <2>3. Keeps(r, s)
    BY <1>2, <2>2, StartedNames, StartedOrder DEF Keeps
  <2>. HIDE DEF s
  <2>4. Opened(s) = s
    BY <2>2 DEF Opened
  <2>5. Put(r, n) = Put(s, n) /\ Room(r) = Room(s)
    <3>. DEFINE P(o, w) ==
           LET full == o.buf[w].offset + n = SectorSize
               added == [o EXCEPT !.buf[w].offset = @ + n,
                                  !.buf[w].state = IF full THEN "WRITTEN" ELSE @]
           IN IF ~full THEN added
              ELSE [added EXCEPT !.w = Succ(w), !.f = IF Succ(w) = @ THEN Succ(@) ELSE @]
    <3>1. Put(r, n) = P(Opened(r), r.w) /\ Put(s, n) = P(Opened(s), s.w)
      BY DEF Put
    <3>. HIDE DEF P
    <3>2. Put(r, n) = Put(s, n)
      BY <2>1, <2>2, <2>4, <3>1
    <3>. QED
      BY <2>1, <2>2, <2>4, <3>2 DEF Room
  <2>6. /\ Keeps(s, Put(s, n))
        /\ n = Room(s) => LET p == Put(s, n) IN p.w \in Index /\ p.buf[p.w].state # "WRITTING"
    BY <2>2, <2>5, FillKeeps
  <2>. QED
    BY <2>3, <2>5, <2>6, KeepsChain
<1>. QED
  BY <1>1, <1>2

(* The room in a fresh buffer, and in any *)
LEMMA Rooms ==
  ASSUME NEW r, RingTypes(r)
  PROVE  /\ Room(r) \in 1 .. SectorSize - 1
         /\ r.buf[r.w].state # "WRITTING" => Room(r) = SectorSize - 1
<1>0. r.w \in Index /\ SectorSize \in Nat /\ SectorSize >= 2
  BY RingParts, Constants
<1>1. CASE r.buf[r.w].state = "WRITTING"
  <2>1. Opened(r) = r /\ r.buf[r.w].offset \in 1 .. SectorSize - 1
    BY <1>0, <1>1, RingParts DEF Opened
  <2>. QED
    BY <1>0, <1>1, <2>1 DEF Room
<1>2. CASE r.buf[r.w].state # "WRITTING"
  <2>1. Opened(r) = Started(r)
    BY <1>2, OpenedIs DEF RingTypes
  <2>2. Opened(r).buf[r.w].offset = 1
    BY <2>1, Replaced
  <2>. QED
    BY <1>0, <2>2 DEF Room
<1>. QED
  BY <1>1, <1>2

(* An output of less than a sector fills one buffer at most. *)
LEMMA OutputKeeps ==
  ASSUME RingTypes(ring), NEW n \in 1 .. SectorSize - 1, Output(n)
  PROVE  Keeps(ring, ring')
<1>0. SectorSize \in Nat /\ n \in Nat /\ Room(ring) \in Nat /\ Room(ring) >= 1 /\ Room(ring) <= SectorSize - 1
  BY Rooms, Constants
<1>1. CASE n <= Room(ring)
  <2>1. ring' = Put(ring, n) /\ n \in 1 .. Room(ring)
    BY <1>0, <1>1 DEF Output
  <2>. QED
    BY <2>1, PutKeeps
<1>2. CASE ~ (n <= Room(ring))
  <2>. DEFINE p == Put(ring, Room(ring))  m == n - Room(ring)
  <2>1. ring' = Put(p, m)
    BY <1>2 DEF Output
  <2>2. Room(ring) \in 1 .. Room(ring)
    BY <1>0
  <2>3. Keeps(ring, p) /\ p.buf[p.w].state # "WRITTING"
    BY <2>2, PutKeeps
  <2>. HIDE DEF p
  <2>4. RingTypes(p) /\ Room(p) = SectorSize - 1
    BY <2>3, Rooms DEF Keeps
  <2>5. m \in 1 .. Room(p)
    BY <1>0, <1>2, <2>4
  <2>. HIDE DEF m
  <2>6. Keeps(p, Put(p, m))
    BY <2>4, <2>5, PutKeeps
  <2>. QED
    BY <2>1, <2>3, <2>6, KeepsChain
<1>. QED
  BY <1>1, <1>2
-----------------------------------------------------------------------------
(* The numbers on the flash and in the accepted writes, and that they differ *)
HeadersOf(fl) == {fl[s] : s \in SectorSet} \ {Blank}
Numbers(fl, q) == HeadersOf(fl) \cup ({q[k].seq : k \in 1 .. Len(q)} \ {Blank})

Distinct(fl, q) ==
  /\ \A s, t \in SectorSet : s # t /\ fl[s] = fl[t] => fl[s] = Blank
  /\ \A k, l \in 1 .. Len(q) : k # l /\ q[k].seq = q[l].seq => q[k].seq = Blank
  /\ \A k \in 1 .. Len(q), s \in SectorSet : q[k].seq = fl[s] => fl[s] = Blank

(* A step of the flash side: a sector, and whether it is to be erased or to  *)
(* be written next.  The one an operation takes, the one behind it, and the  *)
(* one due after k operations of a queue at whose end x is due               *)
Kind(op) == <<op.sector, op.seq = Blank>>
After(x) == IF x[2] THEN <<x[1], FALSE>> ELSE <<Round(x[1], Sectors), TRUE>>
DueAt(q, k, x) == IF k < Len(q) THEN Kind(q[k + 1]) ELSE x
Steps == SectorSet \X BOOLEAN

(* From sector h on round the ring the logs are the newer the further.       *)
Climbs(fl, h) ==
  \A s, t \in SectorSet :
    Place(s, h, Sectors) < Place(t, h, Sectors) /\ fl[s] # Blank /\ fl[t] # Blank => fl[s] < fl[t]

(* So it is from the sector of the step due, which is empty if it is to be   *)
(* written; the steps follow each other; and what is written is new.         *)
Ready(fl, x) == Climbs(fl, x[1]) /\ (~ x[2] => fl[x[1]] = Blank)

Path(q, x) == \A k \in 1 .. Len(q) : DueAt(q, k, x) = After(Kind(q[k]))

Rising(fl, q) ==
  /\ \A k \in 1 .. Len(q), s \in SectorSet : q[k].seq # Blank => fl[s] < q[k].seq
  /\ \A k, l \in 1 .. Len(q) : k < l /\ q[l].seq # Blank => q[k].seq < q[l].seq

Ordered(fl, q, x) == Ready(fl, DueAt(q, 0, x)) /\ Path(q, x) /\ Rising(fl, q)

(* What is gone from fl is older than what is left of it. *)
Older(fl, g) ==
  \A a \in HeadersOf(fl) \ HeadersOf(g) : \A b \in HeadersOf(fl) \cap HeadersOf(g) : a < b

Apply(op, fl) == [fl EXCEPT ![op.sector] = op.seq]

(* What an operation leaves in each sector *)
LEMMA Applied ==
  ASSUME NEW op \in Op, NEW fl \in Flash
  PROVE  /\ Apply(op, fl) \in Flash /\ op.sector \in SectorSet
         /\ Apply(op, fl)[op.sector] = op.seq
         /\ \A s \in SectorSet : s # op.sector => Apply(op, fl)[s] = fl[s]
BY DEF Op, Flash, Apply

(* Run by its recursion *)
LEMMA RunUnfolds ==
  ASSUME NEW q \in Seq(Op), NEW fl \in Flash
  PROVE  /\ Run(fl, q)[0] = fl
         /\ \A k \in 1 .. Len(q) : Run(fl, q)[k] = Apply(q[k], Run(fl, q)[k - 1])
         /\ \A k \in 0 .. Len(q) : Run(fl, q)[k] \in Flash
<1>. DEFINE n == Len(q)
            Q == Flash
            G == [p \in (1 .. n) \X Q |-> Apply(q[p[1]], p[2])]
            Is(f) == f = [k \in 0 .. n |-> IF k = 0 THEN fl ELSE Apply(q[k], f[k - 1])]
            s == CHOOSE f : Is(f)
<1>1. n \in Nat /\ \A k \in 1 .. n : q[k] \in Op
  BY ElementOfSeq, LenProperties
<1>2. \A k \in 1 .. n, y \in Q : Apply(q[k], y) \in Q
  BY <1>1, Applied
<1>3. G \in [(1 .. n) \X Q -> Q]
  BY <1>2
<1>4. \A k \in 1 .. n, y \in Q : G[<<k, y>>] = Apply(q[k], y)
  OBVIOUS
<1>8. Run(fl, q) = s
  BY DEF Run, Apply
<1>. HIDE DEF G, Q
<1>0. fl \in Q
  BY DEF Q
<1>5. PICK f \in [0 .. n -> Q] : Unfolds(f, n, fl, G)
  BY <1>0, <1>1, <1>3, RecursionThere
<1>6. Is(f)
  <2>1. \A k \in 1 .. n : f[k - 1] \in Q
    BY <1>1
  <2>2. \A k \in 1 .. n : f[k] = Apply(q[k], f[k - 1])
    BY <1>4, <1>5, <2>1 DEF Unfolds
  <2>3. f[0] = fl
    BY <1>5 DEF Unfolds
  <2>4. \A k \in 0 .. n : k = 0 \/ (k \in 1 .. n /\ k # 0)
    BY <1>1
  <2>5. \A k \in 0 .. n : f[k] = IF k = 0 THEN fl ELSE Apply(q[k], f[k - 1])
    BY <2>2, <2>3, <2>4
  <2>. QED
    BY <2>5
<1>7. Is(s)
  BY <1>6
<1>9. \A k \in 0 .. n : s[k] = IF k = 0 THEN fl ELSE Apply(q[k], s[k - 1])
  BY <1>7
<1>. HIDE DEF s
<1>10. s[0] = fl
  BY <1>1, <1>9
<1>11. \A k \in 1 .. n : s[k] = Apply(q[k], s[k - 1])
  <2>1. \A k \in 1 .. n : k \in 0 .. n /\ k # 0
    BY <1>1
  <2>. QED
    BY <1>9, <2>1
<1>12. \A k \in 0 .. n : s[k] \in Q
  <2>1. \A k \in 1 .. n : s[k - 1] \in Q => s[k] = G[<<k, s[k - 1]>>]
    BY <1>4, <1>11
  <2>2. n \in Nat
    BY <1>1
  <2>3. Continues(s, n, fl, Q, G)
    BY <1>10, <2>1 DEF Continues
  <2>. QED
    BY <1>0, <1>3, <2>2, <2>3, RecursionStays
<1>. QED
  BY <1>8, <1>10, <1>11, <1>12 DEF Q

(* One operation *)
LEMMA ApplyDistinct ==
  ASSUME NEW op \in Op, NEW fl \in Flash,
         \A s, t \in SectorSet : s # t /\ fl[s] = fl[t] => fl[s] = Blank,
         \A s \in SectorSet : op.seq = fl[s] => fl[s] = Blank
  PROVE  LET g == Apply(op, fl)
         IN /\ \A s, t \in SectorSet : s # t /\ g[s] = g[t] => g[s] = Blank
            /\ \A s \in SectorSet : g[s] = op.seq \/ g[s] = fl[s]
<1>. DEFINE g == Apply(op, fl)
<1>1. /\ op.sector \in SectorSet /\ g[op.sector] = op.seq
      /\ \A s \in SectorSet : s # op.sector => g[s] = fl[s]
  BY Applied
<1>. HIDE DEF g
<1>2. ASSUME NEW s \in SectorSet, NEW t \in SectorSet, s # t, g[s] = g[t] PROVE g[s] = Blank
  <2>1. CASE s = op.sector
    BY <1>1, <1>2, <2>1
  <2>2. CASE t = op.sector
    BY <1>1, <1>2, <2>2
  <2>3. CASE s # op.sector /\ t # op.sector
    BY <1>1, <1>2, <2>3
  <2>. QED
    BY <2>1, <2>2, <2>3
<1>3. \A s \in SectorSet : g[s] = op.seq \/ g[s] = fl[s]
  BY <1>1
<1>. QED
  BY <1>2, <1>3 DEF g

(* The values in the flash and its headers *)
LEMMA FlashValues ==
  ASSUME NEW fl \in Flash
  PROVE  /\ \A s \in SectorSet : fl[s] \in Int /\ (fl[s] # Blank => fl[s] \in Nat)
         /\ \A s \in SectorSet : fl[s] # Blank => fl[s] \in HeadersOf(fl)
         /\ \A a \in HeadersOf(fl) : a \in Nat /\ a # Blank /\ \E s \in SectorSet : fl[s] = a
BY DEF Flash, HeadersOf, Blank

(* An operation due takes the oldest log from the flash, if any; *)
LEMMA ApplyOlder ==
  ASSUME NEW op \in Op, NEW fl \in Flash, Ready(fl, Kind(op))
  PROVE  Older(fl, Apply(op, fl))
<1>. DEFINE g == Apply(op, fl)  h == op.sector
<1>1. /\ h \in SectorSet /\ g[h] = op.seq /\ g \in Flash
      /\ \A s \in SectorSet : s # h => g[s] = fl[s]
  BY Applied
<1>. HIDE DEF g
<1>2. /\ Place(h, h, Sectors) = 0
      /\ \A s \in SectorSet : s # h => Place(s, h, Sectors) > 0
  BY <1>1, Constants, Places DEF SectorSet
<1>3. Climbs(fl, h) /\ (op.seq # Blank => fl[h] = Blank)
  BY DEF Ready, Kind
<1>4. ASSUME NEW a \in HeadersOf(fl) \ HeadersOf(g), NEW b \in HeadersOf(fl) \cap HeadersOf(g)
      PROVE  a < b
  <2>1. PICK s \in SectorSet : fl[s] = a
    BY FlashValues
  <2>2. PICK t \in SectorSet : fl[t] = b
    BY FlashValues
  <2>3. a # Blank /\ b # Blank
    BY FlashValues
  <2>4. s = h
    <3>1. CASE s # h
      <4>1. g[s] = a
        BY <1>1, <2>1, <3>1
      <4>. QED
        BY <1>1, <2>3, <4>1, FlashValues
    <3>. QED
      BY <3>1
  <2>5. t # h
    BY <2>1, <2>2, <2>4
  <2>6. Place(s, h, Sectors) < Place(t, h, Sectors)
    BY <1>2, <2>4, <2>5
  <2>. QED
    BY <1>3, <2>1, <2>2, <2>3, <2>6 DEF Climbs
<1>. QED
  BY <1>4 DEF Older, g

(* the log is in order after it, one step on. *)
LEMMA ApplyReady ==
  ASSUME NEW op \in Op, NEW fl \in Flash, Ready(fl, Kind(op)),
         op.seq # Blank => \A s \in SectorSet : fl[s] < op.seq
  PROVE  Ready(Apply(op, fl), After(Kind(op)))
<1>. DEFINE g == Apply(op, fl)  h == op.sector  k == Round(h, Sectors)
<1>1. /\ h \in SectorSet /\ g[h] = op.seq /\ g \in Flash
      /\ \A s \in SectorSet : s # h => g[s] = fl[s]
  BY Applied
<1>. HIDE DEF g
<1>2. /\ Sectors \in Nat /\ k \in SectorSet
      /\ \A s \in SectorSet : /\ Place(s, h, Sectors) \in 0 .. Sectors - 1
                              /\ Place(s, k, Sectors) \in 0 .. Sectors - 1
      /\ Place(h, k, Sectors) = Sectors - 1
      /\ \A s \in SectorSet : s # h => Place(s, k, Sectors) = Place(s, h, Sectors) - 1
  BY <1>1, Constants, Places DEF SectorSet
<1>3. Climbs(fl, h)
  BY DEF Ready, Kind
<1>4. CASE op.seq = Blank
  <2>1. After(Kind(op)) = <<h, FALSE>>
    BY <1>4 DEF After, Kind
  <2>2. Climbs(g, h)
    BY <1>1, <1>3, <1>4 DEF Climbs
  <2>3. Ready(g, <<h, FALSE>>)
    BY <1>1, <1>4, <2>2 DEF Ready
  <2>. QED
    BY <2>1, <2>3 DEF g
<1>5. CASE op.seq # Blank
  <2>1. After(Kind(op)) = <<k, TRUE>>
    BY <1>5 DEF After, Kind
  <2>2. ASSUME NEW s \in SectorSet, NEW t \in SectorSet, Place(s, k, Sectors) < Place(t, k, Sectors),
               g[s] # Blank, g[t] # Blank
        PROVE  g[s] < g[t]
    <3>1. s # h
      BY <1>2, <2>2
    <3>2. g[s] = fl[s]
      BY <1>1, <3>1
    <3>3. CASE t = h
      BY <1>1, <1>5, <3>2, <3>3
    <3>4. CASE t # h
      <4>1. Place(s, h, Sectors) < Place(t, h, Sectors) /\ g[t] = fl[t]
        BY <1>1, <1>2, <2>2, <3>1, <3>4
      <4>. QED
        BY <1>3, <2>2, <3>2, <4>1 DEF Climbs
    <3>. QED
      BY <3>3, <3>4
  <2>3. Climbs(g, k)
    BY <2>2 DEF Climbs
  <2>4. Ready(g, <<k, TRUE>>)
    BY <2>3 DEF Ready
  <2>. QED
    BY <2>1, <2>4 DEF g
<1>. QED
  BY <1>4, <1>5
-----------------------------------------------------------------------------
(* After the first k operations, those still to come are as they were. *)
DistinctFrom(fl, q, k) ==
  /\ \A s, t \in SectorSet : s # t /\ fl[s] = fl[t] => fl[s] = Blank
  /\ \A i \in k + 1 .. Len(q), s \in SectorSet : q[i].seq = fl[s] => fl[s] = Blank

RisingFrom(fl, q, k) ==
  \A i \in k + 1 .. Len(q), s \in SectorSet : q[i].seq # Blank => fl[s] < q[i].seq

Sofar(fl, q, k, g) ==
  /\ DistinctFrom(g, q, k)
  /\ \A s \in SectorSet : (\E t \in SectorSet : g[s] = fl[t]) \/ \E i \in 1 .. k : g[s] = q[i].seq

Climbed(fl, q, k, x, g) == Ready(g, DueAt(q, k, x)) /\ RisingFrom(g, q, k) /\ Older(fl, g)

(* One more operation keeps the numbers apart, ... *)
LEMMA SofarStep ==
  ASSUME NEW q \in Seq(Op), NEW fl \in Flash, Distinct(fl, q), NEW k \in Nat, k + 1 <= Len(q),
         NEW g \in Flash, Sofar(fl, q, k, g)
  PROVE  Sofar(fl, q, k + 1, Apply(q[k + 1], g))
<1>. DEFINE op == q[k + 1]  e == Apply(op, g)
<1>1. /\ Len(q) \in Nat /\ k + 1 \in 1 .. Len(q) /\ op \in Op
      /\ k + 1 \in k + 1 .. Len(q) /\ k + 1 \in 1 .. k + 1
      /\ \A i \in (k + 1) + 1 .. Len(q) : i \in k + 1 .. Len(q) /\ i \in 1 .. Len(q) /\ i # k + 1
      /\ \A i \in 1 .. k : i \in 1 .. k + 1
  BY ElementOfSeq, LenProperties
<1>2. /\ \A s, t \in SectorSet : s # t /\ g[s] = g[t] => g[s] = Blank
      /\ \A s \in SectorSet : op.seq = g[s] => g[s] = Blank
  BY <1>1 DEF Sofar, DistinctFrom
<1>. HIDE DEF op
<1>3. /\ \A s, t \in SectorSet : s # t /\ e[s] = e[t] => e[s] = Blank
      /\ \A s \in SectorSet : e[s] = op.seq \/ e[s] = g[s]
  BY <1>1, <1>2, ApplyDistinct
<1>. HIDE DEF e
<1>4. ASSUME NEW i \in (k + 1) + 1 .. Len(q), NEW s \in SectorSet, q[i].seq = e[s] PROVE e[s] = Blank
  <2>1. CASE e[s] = op.seq
    <3>1. q[i].seq = q[k + 1].seq /\ i # k + 1 /\ i \in 1 .. Len(q)
      BY <1>1, <1>4, <2>1 DEF op
    <3>. QED
      BY <1>1, <1>4, <3>1 DEF Distinct
  <2>2. CASE e[s] = g[s]
    BY <1>1, <1>4, <2>2 DEF Sofar, DistinctFrom
  <2>. QED
    BY <1>3, <2>1, <2>2
<1>5. ASSUME NEW s \in SectorSet
      PROVE  (\E t \in SectorSet : e[s] = fl[t]) \/ \E i \in 1 .. k + 1 : e[s] = q[i].seq
  <2>1. CASE e[s] = op.seq
    BY <1>1, <2>1 DEF op
  <2>2. CASE e[s] = g[s]
    BY <1>1, <2>2 DEF Sofar
  <2>. QED
    BY <1>3, <2>1, <2>2
<1>6. Sofar(fl, q, k + 1, e)
  BY <1>3, <1>4, <1>5 DEF Sofar, DistinctFrom
<1>. QED
  BY <1>6 DEF e, op

(* What goes in two steps is older if nothing comes back. *)
LEMMA OlderChain ==
  ASSUME NEW fl, NEW g, NEW e, Older(fl, g), Older(g, e),
         HeadersOf(fl) \cap HeadersOf(e) \subseteq HeadersOf(g)
  PROVE  Older(fl, e)
<1>. SUFFICES ASSUME NEW a \in HeadersOf(fl) \ HeadersOf(e), NEW b \in HeadersOf(fl) \cap HeadersOf(e)
              PROVE  a < b
  BY DEF Older
<1>1. b \in HeadersOf(g)
  OBVIOUS
<1>. QED
  BY <1>1 DEF Older

(* and the log in order. *)
LEMMA ClimbedStep ==
  ASSUME NEW q \in Seq(Op), NEW fl \in Flash, Distinct(fl, q), NEW x, Path(q, x), Rising(fl, q),
         NEW k \in Nat, k + 1 <= Len(q),
         NEW g \in Flash, Sofar(fl, q, k, g), Climbed(fl, q, k, x, g)
  PROVE  Climbed(fl, q, k + 1, x, Apply(q[k + 1], g))
<1>. DEFINE op == q[k + 1]  e == Apply(op, g)
<1>1. /\ Len(q) \in Nat /\ k + 1 \in 1 .. Len(q) /\ op \in Op /\ k < Len(q)
      /\ k + 1 \in k + 1 .. Len(q)
      /\ \A i \in (k + 1) + 1 .. Len(q) : i \in k + 1 .. Len(q) /\ i \in 1 .. Len(q) /\ k + 1 < i
  BY ElementOfSeq, LenProperties
<1>2. Ready(g, Kind(op))
  BY <1>1 DEF Climbed, DueAt
<1>3. op.seq # Blank => \A s \in SectorSet : g[s] < op.seq
  BY <1>1 DEF Climbed, RisingFrom
<1>4. DueAt(q, k + 1, x) = After(Kind(op))
  BY <1>1 DEF Path
<1>5. \A s \in SectorSet : fl[s] # op.seq \/ fl[s] = Blank
  BY <1>1 DEF Distinct
<1>6. \A i \in (k + 1) + 1 .. Len(q) : q[i].seq # Blank => op.seq < q[i].seq
  BY <1>1 DEF Rising
<1>. HIDE DEF op
<1>7. Ready(e, DueAt(q, k + 1, x)) /\ Older(g, e)
  BY <1>1, <1>2, <1>3, <1>4, ApplyReady, ApplyOlder
<1>8. \A s \in SectorSet : e[s] = op.seq \/ e[s] = g[s]
  BY <1>1, Applied
<1>. HIDE DEF e
<1>9. RisingFrom(e, q, k + 1)
  <2>. SUFFICES ASSUME NEW i \in (k + 1) + 1 .. Len(q), NEW s \in SectorSet, q[i].seq # Blank
                PROVE  e[s] < q[i].seq
    BY DEF RisingFrom
  <2>1. CASE e[s] = op.seq
    BY <1>6, <2>1
  <2>2. CASE e[s] = g[s]
    BY <1>1, <2>2 DEF Climbed, RisingFrom
  <2>. QED
    BY <1>8, <2>1, <2>2
<1>10. HeadersOf(fl) \cap HeadersOf(e) \subseteq HeadersOf(g)
  <2>. SUFFICES ASSUME NEW b \in HeadersOf(fl), b \in HeadersOf(e) PROVE b \in HeadersOf(g)
    OBVIOUS
  <2>1. PICK s \in SectorSet : e[s] = b
    BY DEF HeadersOf
  <2>2. b # Blank /\ b # op.seq
    BY <1>5 DEF HeadersOf
  <2>3. g[s] = b
    BY <1>8, <2>1, <2>2
  <2>. QED
    BY <2>2, <2>3 DEF HeadersOf
<1>11. Older(fl, e)
  BY <1>7, <1>10, OlderChain DEF Climbed
<1>12. Climbed(fl, q, k + 1, x, e)
  BY <1>7, <1>9, <1>11 DEF Climbed
<1>. QED
  BY <1>12 DEF e, op

(* So it is after any number of operations. *)
LEMMA RunSofar ==
  ASSUME NEW q \in Seq(Op), NEW fl \in Flash, Distinct(fl, q)
  PROVE  \A k \in 0 .. Len(q) : Sofar(fl, q, k, Run(fl, q)[k])
<1>. DEFINE n == Len(q)  r == Run(fl, q)  T == {k \in Nat : k <= n => Sofar(fl, q, k, r[k])}
<1>1. n \in Nat
  BY LenProperties
<1>2. r[0] = fl /\ (\A k \in 1 .. n : r[k] = Apply(q[k], r[k - 1])) /\ \A k \in 0 .. n : r[k] \in Flash
  BY RunUnfolds
<1>. HIDE DEF r
<1>3. 0 \in T
  <2>1. Sofar(fl, q, 0, fl)
    BY <1>1 DEF Sofar, DistinctFrom, Distinct
  <2>. QED
    BY <1>2, <2>1
<1>4. ASSUME NEW k \in T PROVE k + 1 \in T
  <2>. SUFFICES ASSUME k + 1 <= n PROVE Sofar(fl, q, k + 1, r[k + 1])
    OBVIOUS
  <2>1. k \in 0 .. n /\ k + 1 \in 1 .. n /\ (k + 1) - 1 = k
    BY <1>1
  <2>2. r[k + 1] = Apply(q[k + 1], r[k]) /\ r[k] \in Flash
    BY <1>2, <2>1
  <2>3. Sofar(fl, q, k, r[k])
    BY <2>1
  <2>. QED
    BY <2>2, <2>3, SofarStep
<1>5. T \in SUBSET Nat
  OBVIOUS
<1>. HIDE DEF T
<1>6. \A k \in Nat : k \in T
  BY <1>3, <1>4, <1>5, Induction
<1>. QED
  BY <1>1, <1>6 DEF T, r

(* and the log's order holds after them. *)
LEMMA RunClimbed ==
  ASSUME NEW q \in Seq(Op), NEW fl \in Flash, Distinct(fl, q), NEW x, Ordered(fl, q, x)
  PROVE  \A k \in 0 .. Len(q) : Climbed(fl, q, k, x, Run(fl, q)[k])
<1>. DEFINE n == Len(q)  r == Run(fl, q)  T == {k \in Nat : k <= n => Climbed(fl, q, k, x, r[k])}
<1>1. n \in Nat /\ Path(q, x) /\ Rising(fl, q)
  BY LenProperties DEF Ordered
<1>2. r[0] = fl /\ (\A k \in 1 .. n : r[k] = Apply(q[k], r[k - 1])) /\ \A k \in 0 .. n : r[k] \in Flash
  BY RunUnfolds
<1>0. \A k \in 0 .. n : Sofar(fl, q, k, r[k])
  BY RunSofar
<1>. HIDE DEF r
<1>3. 0 \in T
  <2>1. RisingFrom(fl, q, 0)
    BY <1>1 DEF RisingFrom, Rising
  <2>2. Older(fl, fl)
    BY DEF Older
  <2>3. Climbed(fl, q, 0, x, fl)
    BY <2>1, <2>2 DEF Climbed, Ordered
  <2>. QED
    BY <1>2, <2>3
<1>4. ASSUME NEW k \in T PROVE k + 1 \in T
  <2>. SUFFICES ASSUME k + 1 <= n PROVE Climbed(fl, q, k + 1, x, r[k + 1])
    OBVIOUS
  <2>1. k \in 0 .. n /\ k + 1 \in 1 .. n /\ (k + 1) - 1 = k
    BY <1>1
  <2>2. r[k + 1] = Apply(q[k + 1], r[k]) /\ r[k] \in Flash
    BY <1>2, <2>1
  <2>3. Climbed(fl, q, k, x, r[k]) /\ Sofar(fl, q, k, r[k])
    BY <1>0, <2>1
  <2>. QED
    BY <1>1, <2>2, <2>3, ClimbedStep
<1>5. T \in SUBSET Nat
  OBVIOUS
<1>. HIDE DEF T
<1>6. \A k \in Nat : k \in T
  BY <1>3, <1>4, <1>5, Induction
<1>. QED
  BY <1>1, <1>6 DEF T, r
-----------------------------------------------------------------------------
(* A flash and a queue after some operations have run or have been accepted *)
Holds(fl, q) == fl \in Flash /\ q \in Seq(Op) /\ Distinct(fl, q)

(* What is left of a queue in order is in order. *)
LEMMA DropOrdered ==
  ASSUME NEW q \in Seq(Op), NEW n \in 0 .. Len(q), NEW x, NEW g, Path(q, x), NEW fl, Rising(fl, q),
         RisingFrom(g, q, n), Ready(g, DueAt(q, n, x))
  PROVE  Ordered(g, SubSeq(q, n + 1, Len(q)), x)
<1>. DEFINE p == SubSeq(q, n + 1, Len(q))  m == Len(q) - n
<1>1. /\ Len(p) = m /\ \A i \in 1 .. m : p[i] = q[n + i]
  BY CutPlaces
<1>2. /\ n \in Nat /\ m \in Nat /\ n + m = Len(q) /\ Len(q) \in Nat
      /\ \A i \in 1 .. m : n + i \in 1 .. Len(q) /\ n + i \in n + 1 .. Len(q)
  BY LenProperties
<1>. HIDE DEF p, m
<1>3. \A k \in 0 .. m : DueAt(p, k, x) = DueAt(q, n + k, x)
  <2>. SUFFICES ASSUME NEW k \in 0 .. m PROVE DueAt(p, k, x) = DueAt(q, n + k, x)
    OBVIOUS
  <2>1. CASE k < m
    <3>1. k + 1 \in 1 .. m /\ n + k < Len(q) /\ n + (k + 1) = (n + k) + 1
      BY <1>2, <2>1
    <3>2. p[k + 1] = q[(n + k) + 1]
      BY <1>1, <3>1
    <3>. QED
      BY <1>1, <2>1, <3>1, <3>2 DEF DueAt
  <2>2. CASE k = m
    BY <1>1, <1>2, <2>2 DEF DueAt
  <2>. QED
    BY <1>2, <2>1, <2>2
<1>4. Ready(g, DueAt(p, 0, x))
  <2>1. n + 0 = n /\ 0 \in 0 .. m
    BY <1>2
  <2>. QED
    BY <1>3, <2>1
<1>5. Path(p, x)
  <2>. SUFFICES ASSUME NEW k \in 1 .. Len(p) PROVE DueAt(p, k, x) = After(Kind(p[k]))
    BY DEF Path
  <2>1. k \in 1 .. m /\ k \in 0 .. m /\ n + k \in 1 .. Len(q)
    BY <1>1, <1>2
  <2>2. DueAt(q, n + k, x) = After(Kind(q[n + k]))
    BY <2>1 DEF Path
  <2>. QED
    BY <1>1, <1>3, <2>1, <2>2
<1>6. Rising(g, p)
  <2>1. ASSUME NEW k \in 1 .. Len(p), NEW s \in SectorSet, p[k].seq # Blank PROVE g[s] < p[k].seq
    BY <1>1, <1>2, <2>1 DEF RisingFrom
  <2>2. ASSUME NEW k \in 1 .. Len(p), NEW l \in 1 .. Len(p), k < l, p[l].seq # Blank
        PROVE  p[k].seq < p[l].seq
    <3>1. /\ n + k \in 1 .. Len(q) /\ n + l \in 1 .. Len(q) /\ n + k < n + l
          /\ p[k] = q[n + k] /\ p[l] = q[n + l]
      BY <1>1, <1>2, <2>2
    <3>. QED
      BY <2>2, <3>1 DEF Rising
  <2>. QED
    BY <2>1, <2>2 DEF Rising
<1>. QED
  BY <1>4, <1>5, <1>6 DEF Ordered, p

(* The flash after some operations, and the queue without them *)
LEMMA RunSome ==
  ASSUME NEW fl, NEW q, Holds(fl, q), NEW n \in 0 .. Len(q)
  PROVE  LET g == Run(fl, q)[n]  p == SubSeq(q, n + 1, Len(q))
         IN /\ Holds(g, p) /\ Numbers(g, p) \subseteq Numbers(fl, q) /\ Len(p) = Len(q) - n
            /\ \A x : Ordered(fl, q, x) => Ordered(g, p, x) /\ Older(fl, g)
<1>. DEFINE g == Run(fl, q)[n]  p == SubSeq(q, n + 1, Len(q))  m == Len(q) - n
<1>0. q \in Seq(Op) /\ fl \in Flash /\ Distinct(fl, q)
  BY DEF Holds
<1>1. p \in Seq(Op) /\ Len(p) = m /\ \A i \in 1 .. m : p[i] = q[n + i]
  BY <1>0, CutPlaces
<1>2. /\ n \in Nat /\ m \in Nat /\ Len(q) \in Nat
      /\ \A i \in 1 .. m : n + i \in 1 .. Len(q) /\ n + i \in n + 1 .. Len(q)
      /\ \A i \in 1 .. n : i \in 1 .. Len(q)
  BY <1>0, LenProperties
<1>3. g \in Flash /\ Sofar(fl, q, n, g)
  BY <1>0, RunUnfolds, RunSofar
<1>4. ASSUME NEW x, Ordered(fl, q, x) PROVE Ordered(g, p, x) /\ Older(fl, g)
  <2>1. Climbed(fl, q, n, x, g)
    BY <1>0, <1>4, RunClimbed
  <2>2. Path(q, x) /\ Rising(fl, q)
    BY <1>4 DEF Ordered
  <2>. QED
    BY <1>0, <2>1, <2>2, DropOrdered DEF Climbed
<1>. HIDE DEF g, p, m
<1>5. Distinct(g, p)
  <2>1. \A s, t \in SectorSet : s # t /\ g[s] = g[t] => g[s] = Blank
    BY <1>3 DEF Sofar, DistinctFrom
  <2>2. ASSUME NEW k \in 1 .. Len(p), NEW l \in 1 .. Len(p), k # l, p[k].seq = p[l].seq
        PROVE  p[k].seq = Blank
    <3>1. /\ n + k \in 1 .. Len(q) /\ n + l \in 1 .. Len(q) /\ n + k # n + l
          /\ p[k] = q[n + k] /\ p[l] = q[n + l]
      BY <1>1, <1>2, <2>2
    <3>. QED
      BY <1>0, <2>2, <3>1 DEF Distinct
  <2>3. ASSUME NEW k \in 1 .. Len(p), NEW s \in SectorSet, p[k].seq = g[s] PROVE g[s] = Blank
    BY <1>1, <1>2, <1>3, <2>3 DEF Sofar, DistinctFrom
  <2>. QED
    BY <2>1, <2>2, <2>3 DEF Distinct
<1>6. Numbers(g, p) \subseteq Numbers(fl, q)
  <2>1. \A s \in SectorSet : g[s] # Blank => g[s] \in Numbers(fl, q)
    <3>. SUFFICES ASSUME NEW s \in SectorSet, g[s] # Blank PROVE g[s] \in Numbers(fl, q)
      OBVIOUS
    <3>1. CASE \E t \in SectorSet : g[s] = fl[t]
      BY <3>1 DEF Numbers, HeadersOf
    <3>2. CASE \E i \in 1 .. n : g[s] = q[i].seq
      BY <1>2, <3>2 DEF Numbers
    <3>. QED
      BY <1>3, <3>1, <3>2 DEF Sofar
  <2>2. \A i \in 1 .. m : p[i].seq # Blank => p[i].seq \in Numbers(fl, q)
    BY <1>1, <1>2 DEF Numbers
  <2>3. \A a \in Numbers(g, p) :
          /\ a # Blank
          /\ (\E s \in SectorSet : g[s] = a) \/ \E i \in 1 .. m : p[i].seq = a
    BY <1>1 DEF Numbers, HeadersOf
  <2>. QED
    BY <2>1, <2>2, <2>3
<1>7. Holds(g, p)
  BY <1>1, <1>3, <1>5 DEF Holds
<1>. QED
  BY <1>1, <1>4, <1>6, <1>7 DEF g, p, m

(* Where the members of a longer queue are *)
LEMMA AppendPlaces ==
  ASSUME NEW q \in Seq(Op), NEW op \in Op
  PROVE  /\ Append(q, op) \in Seq(Op) /\ Len(Append(q, op)) = Len(q) + 1 /\ Len(q) \in Nat
         /\ \A i \in 1 .. Len(q) : Append(q, op)[i] = q[i]
         /\ Append(q, op)[Len(q) + 1] = op
BY AppendProperties, LenProperties

(* An operation is accepted. *)
LEMMA AppendHolds ==
  ASSUME NEW fl, NEW q, Holds(fl, q), NEW op \in Op, op.seq \notin Numbers(fl, q)
  PROVE  LET p == Append(q, op)
         IN /\ Holds(fl, p) /\ Numbers(fl, p) \subseteq Numbers(fl, q) \cup ({op.seq} \ {Blank})
            /\ Ordered(fl, q, Kind(op)) /\ (op.seq # Blank => \A m \in Numbers(fl, q) : m < op.seq)
                 => Ordered(fl, p, After(Kind(op)))
<1>. DEFINE p == Append(q, op)  n == Len(q)
<1>0. q \in Seq(Op) /\ fl \in Flash /\ Distinct(fl, q)
  BY DEF Holds
<1>1. /\ p \in Seq(Op) /\ Len(p) = n + 1 /\ n \in Nat
      /\ \A i \in 1 .. n : p[i] = q[i]
      /\ p[n + 1] = op
      /\ \A i \in 1 .. n : q[i] \in Op
  BY <1>0, AppendPlaces, ElementOfSeq
<1>2. \A i \in 1 .. n + 1 : i \in 1 .. n \/ i = n + 1
  BY <1>1
<1>. HIDE DEF p
<1>3. /\ \A s \in SectorSet : fl[s] # Blank => fl[s] \in Numbers(fl, q)
      /\ \A i \in 1 .. n : q[i].seq # Blank => q[i].seq \in Numbers(fl, q)
  BY DEF Numbers, HeadersOf
<1>4. Distinct(fl, p)
  <2>1. \A s, t \in SectorSet : s # t /\ fl[s] = fl[t] => fl[s] = Blank
    BY <1>0 DEF Distinct
  <2>2. ASSUME NEW k \in 1 .. Len(p), NEW l \in 1 .. Len(p), k # l, p[k].seq = p[l].seq
        PROVE  p[k].seq = Blank
    <3>1. CASE k \in 1 .. n /\ l \in 1 .. n
      BY <1>0, <1>1, <2>2, <3>1 DEF Distinct
    <3>2. CASE k = n + 1
      BY <1>1, <1>2, <1>3, <2>2, <3>2
    <3>3. CASE l = n + 1
      BY <1>1, <1>2, <1>3, <2>2, <3>3
    <3>. QED
      BY <1>1, <1>2, <3>1, <3>2, <3>3
  <2>3. ASSUME NEW k \in 1 .. Len(p), NEW s \in SectorSet, p[k].seq = fl[s] PROVE fl[s] = Blank
    <3>1. CASE k \in 1 .. n
      BY <1>0, <1>1, <2>3, <3>1 DEF Distinct
    <3>2. CASE k = n + 1
      BY <1>1, <1>3, <2>3, <3>2
    <3>. QED
      BY <1>1, <1>2, <3>1, <3>2
  <2>. QED
    BY <2>1, <2>2, <2>3 DEF Distinct
<1>5. Numbers(fl, p) \subseteq Numbers(fl, q) \cup ({op.seq} \ {Blank})
  <2>. SUFFICES ASSUME NEW a \in Numbers(fl, p), a \notin Numbers(fl, q) PROVE a = op.seq /\ a # Blank
    OBVIOUS
  <2>1. PICK i \in 1 .. n + 1 : a = p[i].seq /\ a # Blank
    BY <1>1 DEF Numbers
  <2>2. i = n + 1
    BY <1>1, <1>2, <1>3, <2>1
  <2>. QED
    BY <1>1, <2>1, <2>2
<1>6. ASSUME Ordered(fl, q, Kind(op)), op.seq # Blank => \A m \in Numbers(fl, q) : m < op.seq
      PROVE  Ordered(fl, p, After(Kind(op)))
  <2>. DEFINE x == Kind(op)  y == After(x)
  <2>0. Ready(fl, DueAt(q, 0, x)) /\ Path(q, x) /\ Rising(fl, q)
    BY <1>6 DEF Ordered
  <2>. HIDE DEF y
  <2>1. \A k \in 0 .. n : DueAt(p, k, y) = DueAt(q, k, x)
    <3>. SUFFICES ASSUME NEW k \in 0 .. n PROVE DueAt(p, k, y) = DueAt(q, k, x)
      OBVIOUS
    <3>1. CASE k < n
      <4>1. k + 1 \in 1 .. n /\ k < Len(p)
        BY <1>1, <3>1
      <4>. QED
        BY <1>1, <3>1, <4>1 DEF DueAt
    <3>2. CASE k = n
      BY <1>1, <3>2 DEF DueAt
    <3>. QED
      BY <1>1, <3>1, <3>2
  <2>2. Path(p, y)
    <3>. SUFFICES ASSUME NEW k \in 1 .. n + 1 PROVE DueAt(p, k, y) = After(Kind(p[k]))
      BY <1>1 DEF Path
    <3>1. CASE k \in 1 .. n
      <4>1. k \in 0 .. n
        BY <1>1, <3>1
      <4>. QED
        BY <1>1, <2>0, <2>1, <3>1, <4>1 DEF Path
    <3>2. CASE k = n + 1
      <4>1. DueAt(p, k, y) = y
        BY <1>1, <3>2 DEF DueAt
      <4>. QED
        BY <1>1, <3>2, <4>1 DEF y
    <3>. QED
      BY <1>2, <3>1, <3>2
  <2>3. Rising(fl, p)
    <3>1. ASSUME NEW k \in 1 .. n + 1, NEW s \in SectorSet, p[k].seq # Blank PROVE fl[s] < p[k].seq
      <4>1. CASE k \in 1 .. n
        BY <1>1, <2>0, <3>1, <4>1 DEF Rising
      <4>2. CASE k = n + 1
        <5>1. op.seq \in Nat
          BY <1>1, <3>1, <4>2 DEF Op
        <5>2. CASE fl[s] = Blank
          BY <1>1, <4>2, <5>1, <5>2 DEF Blank
        <5>3. CASE fl[s] # Blank
          BY <1>1, <1>3, <1>6, <3>1, <4>2, <5>3
        <5>. QED
          BY <5>2, <5>3
      <4>. QED
        BY <1>2, <4>1, <4>2
    <3>2. ASSUME NEW k \in 1 .. n + 1, NEW l \in 1 .. n + 1, k < l, p[l].seq # Blank
          PROVE  p[k].seq < p[l].seq
      <4>0. k \in 1 .. n
        BY <1>1, <3>2
      <4>1. CASE l \in 1 .. n
        BY <1>1, <2>0, <3>2, <4>0, <4>1 DEF Rising
      <4>2. CASE l = n + 1
        <5>1. op.seq \in Nat
          BY <1>1, <3>2, <4>2 DEF Op
        <5>2. CASE q[k].seq = Blank
          BY <1>1, <4>0, <4>2, <5>1, <5>2 DEF Blank
        <5>3. CASE q[k].seq # Blank
          BY <1>1, <1>3, <1>6, <3>2, <4>0, <4>2, <5>3
        <5>. QED
          BY <5>2, <5>3
      <4>. QED
        BY <1>2, <4>1, <4>2
    <3>. QED
      BY <1>1, <3>1, <3>2 DEF Rising
  <2>4. Ready(fl, DueAt(p, 0, y))
    <3>1. 0 \in 0 .. n
      BY <1>1
    <3>. QED
      BY <2>0, <2>1, <3>1
  <2>. QED
    BY <2>2, <2>3, <2>4 DEF Ordered, y
<1>7. Holds(fl, p)
  BY <1>0, <1>1, <1>4 DEF Holds
<1>. QED
  BY <1>5, <1>6, <1>7 DEF p
-----------------------------------------------------------------------------
(* The flash side goes from fl and q to g and p, with nothing new, ...       *)
Moves(fl, q, g, p) ==
  /\ Holds(g, p) /\ Numbers(g, p) \subseteq Numbers(fl, q)
  /\ \A x : Ordered(fl, q, x) => Ordered(g, p, x) /\ Older(fl, g)

(* ... or with a new operation, which is the step due *)
Newer(op, N) == op.seq # Blank => \A m \in N : m < op.seq

Takes(op, fl, q, g, p) ==
  /\ Holds(g, p) /\ Numbers(g, p) \subseteq Numbers(fl, q) \cup ({op.seq} \ {Blank})
  /\ Ordered(fl, q, Kind(op)) =>
       Older(fl, g) /\ (Newer(op, Numbers(fl, q)) => Ordered(g, p, After(Kind(op))))

(* Operations of the queue are done. *)
LEMMA RunMoves ==
  ASSUME NEW fl, NEW q, Holds(fl, q), NEW n \in 0 .. Len(q)
  PROVE  /\ Moves(fl, q, Run(fl, q)[n], SubSeq(q, n + 1, Len(q)))
         /\ Len(SubSeq(q, n + 1, Len(q))) = Len(q) - n
BY RunSome DEF Moves

(* The empty queue *)
LEMMA Nothing ==
  /\ <<>> \in Seq(Op) /\ Len(<<>>) = 0
  /\ \A q \in Seq(Op) : Len(q) \in Nat /\ (Len(q) = 0 => q = <<>>)
BY EmptySeq, LenProperties

(* A flash that does not change loses nothing. *)
LEMMA OlderSame == \A fl : Older(fl, fl)
BY DEF Older

(* An operation is done at once. *)
LEMMA DoneTakes ==
  ASSUME NEW fl, Holds(fl, <<>>), NEW op \in Op, op.seq \notin Numbers(fl, <<>>)
  PROVE  Takes(op, fl, <<>>, Apply(op, fl), <<>>)
<1>. DEFINE p == Append(<<>>, op)  g == Run(fl, p)[1]  e == SubSeq(p, 2, Len(p))
<1>1. /\ Holds(fl, p) /\ Numbers(fl, p) \subseteq Numbers(fl, <<>>) \cup ({op.seq} \ {Blank})
      /\ Ordered(fl, <<>>, Kind(op)) /\ (op.seq # Blank => \A m \in Numbers(fl, <<>>) : m < op.seq)
           => Ordered(fl, p, After(Kind(op)))
  BY AppendHolds
<1>2. p \in Seq(Op) /\ Len(p) = 1 /\ p[1] = op
  BY Nothing, AppendPlaces
<1>3. 1 \in 0 .. Len(p) /\ 1 + 1 = 2 /\ Len(p) - 1 = 0
  BY <1>2
<1>. HIDE DEF p
<1>4. /\ Holds(g, e) /\ Numbers(g, e) \subseteq Numbers(fl, p) /\ Len(e) = 0
      /\ \A x : Ordered(fl, p, x) => Ordered(g, e, x) /\ Older(fl, g)
  BY <1>1, <1>3, RunSome
<1>5. e = <<>>
  BY <1>4, Nothing DEF Holds
<1>6. g = Apply(op, fl)
  <2>1. fl \in Flash
    BY DEF Holds
  <2>2. 1 \in 1 .. Len(p) /\ 1 - 1 = 0
    BY <1>2
  <2>3. Run(fl, p)[0] = fl /\ Run(fl, p)[1] = Apply(p[1], Run(fl, p)[1 - 1])
    BY <1>2, <2>1, <2>2, RunUnfolds
  <2>. QED
    BY <1>2, <2>2, <2>3
<1>. HIDE DEF g, e
<1>7. Ordered(fl, <<>>, Kind(op)) => Older(fl, Apply(op, fl))
  BY Nothing, ApplyOlder DEF Ordered, DueAt, Holds
<1>. QED
  BY <1>1, <1>4, <1>5, <1>6, <1>7 DEF Takes, Newer

(* An operation follows after others are done. *)
LEMMA MovesTakes ==
  ASSUME NEW fl, NEW q, NEW g, NEW p, Holds(fl, q), Moves(fl, q, g, p), NEW op, NEW e, NEW d,
         op.seq \notin Numbers(fl, q), Takes(op, g, p, e, d),
         HeadersOf(e) \subseteq HeadersOf(g) \cup {op.seq}
  PROVE  Takes(op, fl, q, e, d)
<1>1. /\ Holds(e, d) /\ Numbers(e, d) \subseteq Numbers(fl, q) \cup ({op.seq} \ {Blank})
  BY DEF Takes, Moves
<1>2. ASSUME Ordered(fl, q, Kind(op))
      PROVE  Older(fl, e) /\ (Newer(op, Numbers(fl, q)) => Ordered(e, d, After(Kind(op))))
  <2>1. /\ Ordered(g, p, Kind(op)) /\ Older(fl, g)
        /\ Newer(op, Numbers(fl, q)) => Newer(op, Numbers(g, p))
    BY <1>2 DEF Moves, Newer
  <2>2. Older(g, e) /\ (Newer(op, Numbers(g, p)) => Ordered(e, d, After(Kind(op))))
    BY <2>1 DEF Takes
  <2>3. HeadersOf(fl) \cap HeadersOf(e) \subseteq HeadersOf(g)
    BY DEF Numbers
  <2>. QED
    BY <2>1, <2>2, <2>3, OlderChain
<1>. QED
  BY <1>1, <1>2 DEF Takes

(* An operation adds at most its own number. *)
LEMMA ApplyHeaders ==
  ASSUME NEW op \in Op, NEW fl \in Flash
  PROVE  HeadersOf(Apply(op, fl)) \subseteq HeadersOf(fl) \cup {op.seq}
<1>. DEFINE g == Apply(op, fl)
<1>1. \A s \in SectorSet : g[s] = op.seq \/ g[s] = fl[s]
  BY Applied
<1>. HIDE DEF g
<1>. QED
  BY <1>1 DEF HeadersOf, g

(* The flash takes an operation, at once or into its queue, ... *)
LEMMA AcceptedTakes ==
  ASSUME Holds(flash, queue), Len(queue) <= QueueLen, NEW op \in Op, NEW async \in BOOLEAN,
         op.seq \notin Numbers(flash, queue), Accepted(op, async)
  PROVE  /\ Takes(op, flash, queue, flash', queue') /\ Len(queue') <= QueueLen
         /\ ~ async => queue' = <<>> /\ \E g \in Flash : flash' = Apply(op, g)
                                                     /\ (queue = <<>> => g = flash)
<1>1. queue \in Seq(Op) /\ flash \in Flash /\ Len(queue) \in Nat
  BY LenProperties DEF Holds
<1>2. CASE async
  <2>1. flash' = flash /\ queue' = Append(queue, op) /\ Len(queue) < QueueLen
    BY <1>2 DEF Accepted
  <2>2. Len(Append(queue, op)) = Len(queue) + 1
    BY <1>1, AppendPlaces
  <2>3. Takes(op, flash, queue, flash, Append(queue, op))
    BY AppendHolds, OlderSame DEF Takes, Newer
  <2>. QED
    BY <1>1, <1>2, <2>1, <2>2, <2>3, Constants
<1>3. CASE ~ async
  <2>. DEFINE n == Len(queue)  g == Run(flash, queue)[n]  p == SubSeq(queue, n + 1, n)
  <2>1. flash' = Apply(op, g) /\ queue' = <<>>
    BY <1>3 DEF Accepted, Done, Apply
  <2>2. n \in 0 .. n /\ n - n = 0 /\ Len(<<>>) <= QueueLen
    BY <1>1, Constants, Nothing
  <2>3. Moves(flash, queue, g, p) /\ Len(p) = 0
    BY <2>2, RunMoves
  <2>4. queue = <<>> => g = flash
    BY <1>1, Nothing, RunUnfolds
  <2>. HIDE DEF g, p
  <2>5. p = <<>> /\ Holds(g, <<>>) /\ g \in Flash
    BY <2>3, Nothing DEF Moves, Holds
  <2>6. op.seq \notin Numbers(g, <<>>)
    BY <2>3, <2>5 DEF Moves
  <2>7. Takes(op, g, <<>>, Apply(op, g), <<>>)
    BY <2>5, <2>6, DoneTakes
  <2>8. Takes(op, flash, queue, Apply(op, g), <<>>)
    BY <2>3, <2>5, <2>7, ApplyHeaders, MovesTakes
  <2>. QED
    BY <1>3, <2>1, <2>2, <2>4, <2>5, <2>8
<1>. QED
  BY <1>2, <1>3

(* refuses it, ... *)
LEMMA RefusedMoves ==
  ASSUME Holds(flash, queue), Len(queue) <= QueueLen, Refused
  PROVE  Moves(flash, queue, flash', queue') /\ Len(queue') <= QueueLen
<1>1. queue \in Seq(Op) /\ Len(queue) \in Nat /\ Len(queue) = QueueLen
  BY LenProperties DEF Holds, Refused
<1>2. PICK n \in {0, 1} : queue' = SubSeq(queue, n + 1, Len(queue)) /\ flash' = Run(flash, queue)[n]
  BY DEF Refused, Done
<1>3. n \in 0 .. Len(queue)
  BY <1>1, Constants
<1>. QED
  BY <1>1, <1>2, <1>3, RunMoves

(* works off its oldest operation, ... *)
LEMMA TailIsCut == \A q \in Seq(Op) : q # <<>> => Tail(q) = SubSeq(q, 2, Len(q)) /\ Len(q) >= 1
BY TailIsSubSeq, EmptySeq, LenProperties

(* The step of the flash hook *)
LEMMA RunsMoves ==
  ASSUME Holds(flash, queue), Len(queue) <= QueueLen, FlashRuns
  PROVE  Moves(flash, queue, flash', queue') /\ Len(queue') <= QueueLen
<1>1. queue \in Seq(Op) /\ Len(queue) \in Nat
  BY LenProperties DEF Holds
<1>2. flash' = Run(flash, queue)[1] /\ queue' = SubSeq(queue, 2, Len(queue)) /\ Len(queue) >= 1
  BY <1>1, TailIsCut DEF FlashRuns, Done
<1>3. 1 \in 0 .. Len(queue) /\ 1 + 1 = 2 /\ Len(queue) - 1 <= QueueLen
  BY <1>1, <1>2, Constants
<1>. QED
  BY <1>1, <1>2, <1>3, RunMoves

(* works off all of them, or loses what it has not done. *)
LEMMA HoldsLess ==
  ASSUME NEW fl, NEW q, Holds(fl, q)
  PROVE  Holds(fl, <<>>) /\ Numbers(fl, <<>>) \subseteq Numbers(fl, q)
BY Nothing DEF Holds, Distinct, Numbers

(* Some operations done, and the others gone *)
LEMMA DonePart ==
  ASSUME Holds(flash, queue), NEW n \in 0 .. Len(queue), flash' = Done(n), queue' = <<>>
  PROVE  /\ Holds(flash', <<>>) /\ Numbers(flash', <<>>) \subseteq Numbers(flash, queue)
         /\ \A x \in Steps : Ordered(flash, queue, x) =>
              Older(flash, flash') /\ \E h \in SectorSet : Climbs(flash', h)
         /\ n = Len(queue) => Moves(flash, queue, flash', <<>>)
<1>. DEFINE g == Run(flash, queue)[n]  p == SubSeq(queue, n + 1, Len(queue))
<1>1. Moves(flash, queue, g, p) /\ Len(p) = Len(queue) - n
  BY RunMoves
<1>2. flash' = g
  BY DEF Done
<1>. HIDE DEF g, p
<1>3. Holds(g, p) /\ p \in Seq(Op)
  BY <1>1 DEF Moves, Holds
<1>4. Holds(g, <<>>) /\ Numbers(g, <<>>) \subseteq Numbers(flash, queue)
  BY <1>1, <1>3, HoldsLess DEF Moves
<1>5. ASSUME NEW x \in Steps, Ordered(flash, queue, x)
      PROVE  Older(flash, g) /\ \E h \in SectorSet : Climbs(g, h)
  <2>1. Ordered(g, p, x) /\ Older(flash, g)
    BY <1>1, <1>5 DEF Moves
  <2>2. Climbs(g, DueAt(p, 0, x)[1])
    BY <2>1 DEF Ordered, Ready
  <2>3. DueAt(p, 0, x)[1] \in SectorSet
    <3>1. CASE 0 < Len(p)
      <4>1. p[0 + 1] \in Op
        BY <1>3, <3>1, ElementOfSeq, LenProperties
      <4>. QED
        BY <3>1, <4>1 DEF DueAt, Kind, Op
    <3>2. CASE ~ (0 < Len(p))
      BY <3>2 DEF DueAt, Steps
    <3>. QED
      BY <3>1, <3>2
  <2>. QED
    BY <2>1, <2>2, <2>3
<1>6. n = Len(queue) => p = <<>>
  <2>1. Len(queue) \in Nat
    BY LenProperties DEF Holds
  <2>. QED
    BY <1>1, <1>3, <2>1, Nothing
<1>. QED
  BY <1>1, <1>2, <1>4, <1>5, <1>6
-----------------------------------------------------------------------------
(* The place of the flash: where it stands at the start of a sector, the     *)
(* sector due is that one, else the one behind.                              *)
Size == Sectors * SectorSize
Forward(o, n) == IF o + n >= Size THEN 0 ELSE o + n
SectorDue(o) == IF o % SectorSize = 0 THEN SectorAt(o) ELSE Round(SectorAt(o), Sectors)

(* The sectors are in the flash. *)
LEMMA Sector ==
  ASSUME NEW o \in 0 .. Size - 1
  PROVE  SectorAt(o) \in SectorSet /\ SectorDue(o) \in SectorSet
<1>1. SectorAt(o) \in SectorSet
  BY Constants DEF SectorAt, SectorSet, Size
<1>2. Round(SectorAt(o), Sectors) \in SectorSet
  BY <1>1, Constants, Places DEF SectorSet
<1>. QED
  BY <1>1, <1>2 DEF SectorDue

(* A start of a sector *)
LEMMA StartOfSector ==
  ASSUME NEW s \in SectorSet
  PROVE  /\ s * SectorSize \in 0 .. Size - 1 /\ (s * SectorSize) % SectorSize = 0
         /\ SectorDue(s * SectorSize) = s
<1>1. (s * SectorSize) % SectorSize = 0 /\ (s * SectorSize) \div SectorSize = s
  BY Constants DEF SectorSet
<1>2. s * SectorSize \in 0 .. Size - 1
  <2>1. s \in Nat /\ s + 1 <= Sectors
    BY Constants DEF SectorSet
  <2>2. /\ (s + 1) * SectorSize <= Sectors * SectorSize
        /\ (s + 1) * SectorSize = s * SectorSize + SectorSize
    BY <2>1, Constants
  <2>. QED
    BY <2>1, <2>2, Constants DEF Size
<1>. QED
  BY <1>1, <1>2 DEF SectorDue, SectorAt

(* Division by the sector size: the quotient, ... *)
LEMMA Quotient ==
  ASSUME NEW d \in Nat, d >= 2, NEW k \in Nat, NEW n \in Nat, n < d
  PROVE  (k * d + n) \div d = k
OBVIOUS

(* the remainder by the quotient, ... *)
LEMMA Division ==
  ASSUME NEW d \in Nat, d >= 2, NEW a \in Nat
  PROVE  a % d = a - d * (a \div d)
OBVIOUS

(* and the remainder. *)
LEMMA Remainder ==
  ASSUME NEW d \in Nat, d >= 2, NEW k \in Nat, NEW n \in Nat, n < d
  PROVE  (k * d + n) % d = n
<1>. DEFINE z == k * d  a == z + n
<1>1. z \in Nat /\ a \in Nat /\ a \div d = k
  BY Quotient
<1>2. a % d = a - d * k
  BY <1>1, Division
<1>3. d * k = z
  OBVIOUS
<1>. HIDE DEF z
<1>4. a % d = n
  BY <1>1, <1>2, <1>3
<1>. QED
  BY <1>4 DEF z

(* A buffer handed over moves the place on; a full one by one sector. *)
LEMMA ForwardDue ==
  ASSUME NEW o \in 0 .. Size - 1, o % SectorSize = 0, NEW n \in 1 .. SectorSize
  PROVE  /\ Forward(o, n) \in 0 .. Size - 1
         /\ SectorDue(Forward(o, n)) = Round(SectorAt(o), Sectors)
         /\ n = SectorSize => Forward(o, n) % SectorSize = 0
<1>. DEFINE d == SectorSize  k == SectorAt(o)
<1>1. /\ o = k * d /\ o \in Nat /\ k \in SectorSet /\ d \in Nat /\ d >= 2
      /\ k \in Nat /\ Sectors \in Nat /\ k + 1 <= Sectors
  BY Constants, Sector DEF SectorAt, SectorSet
<1>2. (k + 1) * d = o + d
  BY <1>1
<1>3. Size \in Nat
  BY Constants DEF Size
<1>4. CASE n < d
  <2>1. o + d <= Size
    BY <1>1, <1>2, Constants DEF Size
  <2>2. Forward(o, n) = o + n /\ o + n < Size
    BY <1>1, <1>3, <1>4, <2>1 DEF Forward
  <2>3. (o + n) \div d = k /\ (o + n) % d = n
    <3>1. n \in Nat /\ n < d /\ d \in Nat /\ d >= 2 /\ k \in Nat
      BY <1>1, <1>4
    <3>2. (k * d + n) \div d = k /\ (k * d + n) % d = n
      BY <3>1, Quotient, Remainder, Zenon
    <3>. QED
      BY <1>1, <3>2, Zenon
  <2>. QED
    BY <1>1, <1>3, <1>4, <2>2, <2>3 DEF SectorDue, SectorAt
<1>5. CASE n = d /\ k + 1 < Sectors
  <2>1. (k + 2) * d <= Size /\ (k + 2) * d = o + d + d
    BY <1>1, <1>5, Constants DEF Size
  <2>2. Forward(o, n) = (k + 1) * d /\ o + d < Size
    BY <1>1, <1>2, <1>3, <1>5, <2>1 DEF Forward
  <2>3. k + 1 \in SectorSet /\ Round(k, Sectors) = k + 1
    BY <1>1, <1>5 DEF SectorSet, Round
  <2>. QED
    BY <1>2, <1>5, <2>2, <2>3, StartOfSector
<1>6. CASE n = d /\ k + 1 = Sectors
  <2>1. Forward(o, n) = 0 /\ Round(k, Sectors) = 0
    BY <1>1, <1>2, <1>3, <1>6, Constants DEF Forward, Size, Round
  <2>2. 0 \in 0 .. Size - 1 /\ 0 % d = 0 /\ 0 \div d = 0
    <3>1. 0 * SectorSize = 0
      BY Constants
    <3>. QED
      BY <3>1, Constants, StartOfSector DEF SectorSet
  <2>. QED
    BY <1>6, <2>1, <2>2 DEF SectorDue, SectorAt
<1>. QED
  BY <1>1, <1>4, <1>5, <1>6

(* A buffer handed over is free. *)
LEMMA HandedFreed ==
  ASSUME NEW r, RingTypes(r)
  PROVE  [r EXCEPT !.buf[r.f].state = "FREE", !.f = Succ(@)] = Freed(r)
<1>1. r \in RingType /\ r.f \in Index
  BY DEF RingTypes, RingType
<1>. DEFINE c == [r.buf EXCEPT ![r.f] =
                    [state |-> "FREE", offset |-> r.buf[r.f].offset, seq |-> r.buf[r.f].seq]]
            z == [buf |-> c, w |-> r.w, f |-> r.f, seq |-> r.seq]
<1>2. [r EXCEPT !.buf[r.f].state = "FREE"] = z
  <2>1. [r EXCEPT !.buf[r.f].state = "FREE"]
          = [r EXCEPT !.buf[r.f].offset = r.buf[r.f].offset, !.buf[r.f].state = "FREE"]
    <3>. DEFINE b == r.buf[r.f]
    <3>1. b \in Buffer
      BY <1>1 DEF RingType
    <3>2. [b EXCEPT !.offset = b.offset] = b
      BY <3>1 DEF Buffer
    <3>3. [r.buf EXCEPT ![r.f].offset = b.offset] = r.buf
      BY <1>1, <3>2 DEF RingType
    <3>4. [r EXCEPT !.buf = [r.buf EXCEPT ![r.f].offset = b.offset]] = r
      BY <1>1, <3>3 DEF RingType
    <3>5. [r EXCEPT !.buf[r.f].offset = b.offset] = r
      BY <1>1, <3>4
    <3>. QED
      BY <3>5
  <2>2. [r EXCEPT !.buf[r.f].offset = r.buf[r.f].offset, !.buf[r.f].state = "FREE"] = z
    BY <1>1, RingExcept
  <2>. QED
    BY <2>1, <2>2
<1>. HIDE DEF c
<1>3. [z EXCEPT !.f = Succ(@)] = [buf |-> c, w |-> r.w, f |-> Succ(r.f), seq |-> r.seq]
  OBVIOUS
<1>. HIDE DEF z
<1>4. [r EXCEPT !.buf[r.f].state = "FREE", !.f = Succ(@)] = [z EXCEPT !.f = Succ(@)]
  BY <1>2
<1>. QED
  BY <1>3, <1>4 DEF c, Freed
-----------------------------------------------------------------------------
(* The search for the newest sector: there is one with the greatest number.  *)
LEMMA Greatest ==
  ASSUME NEW fl \in Flash
  PROVE  \E s \in SectorSet : \A u \in SectorSet : fl[s] >= fl[u]
<1>. DEFINE T == {k \in Nat : k < Sectors => \E s \in SectorSet : \A u \in 0 .. k : fl[s] >= fl[u]}
<1>1. \A s \in SectorSet : fl[s] \in Int
  BY FlashValues
<1>2. 0 \in T
  <2>1. \A u \in 0 .. 0 : u = 0
    OBVIOUS
  <2>. QED
    BY <1>1, <2>1, Constants
<1>3. ASSUME NEW k \in T PROVE k + 1 \in T
  <2>. SUFFICES ASSUME k + 1 < Sectors PROVE \E s \in SectorSet : \A u \in 0 .. k + 1 : fl[s] >= fl[u]
    OBVIOUS
  <2>1. /\ k \in Nat /\ k < Sectors /\ k + 1 \in SectorSet
        /\ \A u \in 0 .. k + 1 : u \in SectorSet /\ (u \in 0 .. k \/ u = k + 1)
    BY Constants DEF SectorSet
  <2>2. PICK s \in SectorSet : \A u \in 0 .. k : fl[s] >= fl[u]
    BY <2>1
  <2>3. CASE fl[s] >= fl[k + 1]
    BY <2>1, <2>2, <2>3
  <2>4. CASE ~ (fl[s] >= fl[k + 1])
    <3>1. \A u \in 0 .. k + 1 : fl[k + 1] >= fl[u]
      BY <1>1, <2>1, <2>2, <2>4
    <3>. QED
      BY <2>1, <3>1
  <2>. QED
    BY <2>3, <2>4
<1>4. \A k \in Nat : k \in T
  <2>. HIDE DEF T
  <2>1. T \in SUBSET Nat
    BY DEF T
  <2>. QED
    BY <1>2, <1>3, <2>1, Induction
<1>5. Sectors - 1 \in T /\ Sectors - 1 < Sectors
  BY <1>4, Constants
<1>. QED
  BY <1>5 DEF SectorSet

(* Behind the newest sector the numbers climb. *)
LEMMA ClimbsBehind ==
  ASSUME NEW fl \in Flash, NEW h \in SectorSet, Climbs(fl, h), NEW s \in SectorSet,
         fl[s] # Blank, \A u \in SectorSet : fl[s] >= fl[u]
  PROVE  Climbs(fl, Round(s, Sectors))
<1>. DEFINE k == Round(s, Sectors)  n == Sectors
<1>. SUFFICES ASSUME NEW t \in SectorSet, NEW u \in SectorSet, Place(t, k, n) < Place(u, k, n),
                     fl[t] # Blank, fl[u] # Blank
              PROVE  fl[t] < fl[u]
  BY DEF Climbs
<1>1. \A x \in SectorSet : fl[x] \in Int
  BY FlashValues
<1>2. \A x \in SectorSet : fl[x] # Blank => Place(x, h, n) <= Place(s, h, n)
  <2>1. \A x \in SectorSet : Place(x, h, n) \in Int
    BY Constants, Places DEF SectorSet
  <2>2. \A x \in SectorSet : fl[x] # Blank => ~ (Place(s, h, n) < Place(x, h, n))
    BY <1>1 DEF Climbs
  <2>. QED
    BY <2>1, <2>2
<1>3. \A x \in SectorSet : Place(x, h, n) <= Place(s, h, n) =>
        Place(x, k, n) = Place(x, h, n) + (n - 1 - Place(s, h, n))
  BY Constants DEF SectorSet, Place, Round
<1>4. Place(t, h, n) < Place(u, h, n)
  <2>1. \A x \in SectorSet : Place(x, h, n) \in Int
    BY Constants, Places DEF SectorSet
  <2>. QED
    BY <1>2, <1>3, <2>1, Constants
<1>. QED
  BY <1>4 DEF Climbs

(* The number and the sector to go on with *)
LEMMA GoOn ==
  ASSUME Holds(flash, <<>>)
  PROVE  /\ GetSeqnum[1] \in Nat /\ \A n \in HeadersOf(flash) : n < GetSeqnum[1]
         /\ GetSeqnum[2] \in SectorSet
         /\ (\E h \in SectorSet : Climbs(flash, h)) => Climbs(flash, GetSeqnum[2])
<1>1. flash \in Flash /\ Headers = HeadersOf(flash) /\ DOMAIN flash = SectorSet
  BY DEF Holds, Flash, Headers, HeadersOf
<1>2. \A n \in HeadersOf(flash) : n \in Nat /\ n # Blank /\ \E s \in SectorSet : flash[s] = n
  BY <1>1, FlashValues
<1>3. \A s \in SectorSet : flash[s] # Blank => flash[s] \in HeadersOf(flash)
  BY <1>1, FlashValues
<1>4. CASE Headers = {}
  <2>1. GetSeqnum = <<0, 0>>
    BY <1>4 DEF GetSeqnum
  <2>2. \A s \in SectorSet : flash[s] = Blank
    BY <1>1, <1>3, <1>4
  <2>. QED
    BY <1>1, <1>4, <2>1, <2>2, Constants DEF Climbs
<1>5. CASE Headers = {0}
  <2>1. GetSeqnum = <<1, 1>>
    BY <1>5, Constants DEF GetSeqnum
  <2>2. \A s, t \in SectorSet : flash[s] # Blank /\ flash[t] # Blank => s = t
    <3>1. \A s \in SectorSet : flash[s] # Blank => flash[s] = 0
      BY <1>1, <1>3, <1>5
    <3>2. \A s, t \in SectorSet : s # t /\ flash[s] = flash[t] => flash[s] = Blank
      BY DEF Holds, Distinct
    <3>. QED
      BY <3>1, <3>2
  <2>3. 1 \in SectorSet
    BY Constants DEF SectorSet
  <2>4. Climbs(flash, 1)
    <3>1. \A s \in SectorSet : Place(s, 1, Sectors) \in Int
      BY <2>3, Constants, Places DEF SectorSet
    <3>. QED
      BY <2>2, <3>1 DEF Climbs
  <2>. QED
    BY <1>1, <1>5, <2>1, <2>3, <2>4
<1>6. CASE Headers # {} /\ Headers # {0}
  <2>. DEFINE s == CHOOSE t \in DOMAIN flash : \A u \in DOMAIN flash : flash[t] >= flash[u]
  <2>1. s \in SectorSet /\ \A u \in SectorSet : flash[s] >= flash[u]
    <3>1. \E t \in DOMAIN flash : \A u \in DOMAIN flash : flash[t] >= flash[u]
      BY <1>1, Greatest
    <3>2. s \in DOMAIN flash /\ \A u \in DOMAIN flash : flash[s] >= flash[u]
      BY <3>1
    <3>. QED
      BY <1>1, <3>2
  <2>. DEFINE m == IF Headers = {0} THEN 0 ELSE s
  <2>9. GetSeqnum = <<(IF Headers = {0} THEN 0 ELSE flash[m]) + 1,
                      IF m + 1 >= Sectors THEN 0 ELSE m + 1>>
    BY <1>6, Zenon DEF GetSeqnum
  <2>. HIDE DEF s
  <2>2. GetSeqnum = <<flash[s] + 1, IF s + 1 >= Sectors THEN 0 ELSE s + 1>>
    BY <1>6, <2>9
  <2>3. \A u \in SectorSet : flash[u] \in Int
    BY <1>1, FlashValues
  <2>4. flash[s] \in Nat /\ flash[s] # Blank
    <3>1. PICK n \in HeadersOf(flash) : TRUE
      BY <1>1, <1>6
    <3>2. PICK u \in SectorSet : flash[u] = n /\ n \in Nat
      BY <1>2, <3>1
    <3>3. flash[s] >= n /\ flash[s] \in Int
      BY <2>1, <2>3, <3>2
    <3>. QED
      BY <3>2, <3>3 DEF Blank
  <2>5. (IF s + 1 >= Sectors THEN 0 ELSE s + 1) = Round(s, Sectors)
    BY <2>1, Constants DEF Round, SectorSet
  <2>6. Round(s, Sectors) \in SectorSet
    BY <2>1, Constants, Places DEF SectorSet
  <2>7. \A n \in HeadersOf(flash) : n < flash[s] + 1
    BY <1>2, <2>1, <2>3, <2>4
  <2>8. ASSUME NEW h \in SectorSet, Climbs(flash, h) PROVE Climbs(flash, Round(s, Sectors))
    BY <1>1, <2>1, <2>4, <2>8, ClimbsBehind
  <2>. QED
    BY <2>2, <2>4, <2>5, <2>6, <2>7, <2>8
<1>. QED
  BY <1>4, <1>5, <1>6
-----------------------------------------------------------------------------
(* The invariant: types and names, ...                                       *)
ControlOK ==
  /\ mode \in {"off", "run", "crash", "flushing", "dead"}
  /\ fstate \in {"IDLE", "ERASED", "WRITTING"}
  /\ offs \in 0 .. Size - 1 /\ boots \in 0 .. MaxBoots
  /\ hist \in [slipped : 0 .. MaxBoots, crash : SUBSET Nat]
  /\ mode = "off" => queue = <<>>
  /\ mode # "off" => boots >= 1
  /\ mode \in {"run", "crash"} \/ fstate # "IDLE" => offs % SectorSize = 0

NamesOK ==
  /\ RingTypes(ring) /\ Holds(flash, queue) /\ Len(queue) <= QueueLen
  /\ mode # "off" => RingNames(ring, Numbers(flash, queue))

(* and the order of the log, from which nothing old is left out. *)
Due == <<SectorDue(offs), fstate = "IDLE">>

OrderOK ==
  hist.slipped = 0 =>
    IF mode = "off" THEN \E h \in SectorSet : Climbs(flash, h)
    ELSE Ordered(flash, queue, Due) /\ RingOrder(ring, Numbers(flash, queue))

LogInv == ControlOK /\ NamesOK /\ OrderOK

OldestGone == hist.slipped = 0 => Older(flash, flash')

(* What is said of the ring and some numbers holds of fewer. *)
LEMMA FewerNames ==
  ASSUME NEW r, NEW N, NEW M \in SUBSET N
  PROVE  (RingNames(r, N) => RingNames(r, M)) /\ (RingOrder(r, N) => RingOrder(r, M))
BY DEF RingNames, RingOrder

(* The numbers are natural ones. *)
LEMMA NumbersTypes ==
  ASSUME NEW fl, NEW q, Holds(fl, q)
  PROVE  Numbers(fl, q) \in SUBSET Nat
<1>1. \A k \in 1 .. Len(q) : q[k].seq \in Nat \cup {Blank}
  <2>1. \A k \in 1 .. Len(q) : q[k] \in Op
    BY ElementOfSeq DEF Holds
  <2>. QED
    BY <2>1 DEF Op
<1>2. \A a \in HeadersOf(fl) : a \in Nat
  BY FlashValues DEF Holds
<1>. QED
  BY <1>1, <1>2 DEF Numbers

(* The flash works, and the log's state stays as it is. *)
LEMMA MovesLog ==
  ASSUME NamesOK, OrderOK, mode # "off", mode' # "off",
         Moves(flash, queue, flash', queue'), Len(queue') <= QueueLen,
         ring' = ring, hist'.slipped = hist.slipped, Due' = Due
  PROVE  NamesOK' /\ OrderOK' /\ OldestGone
<1>1. Holds(flash', queue') /\ Numbers(flash', queue') \in SUBSET Numbers(flash, queue)
  BY DEF Moves
<1>2. NamesOK'
  BY <1>1, FewerNames DEF NamesOK
<1>3. ASSUME hist.slipped = 0
      PROVE  Ordered(flash', queue', Due) /\ RingOrder(ring, Numbers(flash', queue')) /\ Older(flash, flash')
  <2>1. Ordered(flash, queue, Due) /\ RingOrder(ring, Numbers(flash, queue))
    BY <1>3 DEF OrderOK
  <2>. QED
    BY <1>1, <2>1, FewerNames DEF Moves
<1>. QED
  BY <1>2, <1>3 DEF OrderOK, OldestGone

(* The sector due is erased. *)
LEMMA EraseLog ==
  ASSUME ControlOK, NamesOK, OrderOK, mode # "off", mode' = mode, boots' = boots,
         NEW async \in BOOLEAN, FlushErase(async)
  PROVE  LogInv' /\ OldestGone
<1>1. /\ fstate = "IDLE" /\ offs % SectorSize = 0 /\ ring' = ring /\ offs' = offs /\ hist' = hist
      /\ offs \in 0 .. Size - 1
  BY DEF FlushErase, ControlOK
<1>2. Holds(flash, queue) /\ Len(queue) <= QueueLen
  BY DEF NamesOK
<1>3. ControlOK' <=> fstate' \in {"IDLE", "ERASED", "WRITTING"}
  BY <1>1 DEF ControlOK
<1>4. CASE Refused /\ fstate' = fstate
  <2>1. Moves(flash, queue, flash', queue') /\ Len(queue') <= QueueLen
    BY <1>2, <1>4, RefusedMoves
  <2>2. Due' = Due
    BY <1>1, <1>4 DEF Due
  <2>3. NamesOK' /\ OrderOK' /\ OldestGone
    BY <1>1, <2>1, <2>2, MovesLog
  <2>. QED
    BY <1>1, <1>3, <1>4, <2>3 DEF LogInv
<1>5. CASE Accepted(EraseOp, async) /\ fstate' = "ERASED"
  <2>. DEFINE op == EraseOp
  <2>1. op \in Op /\ op.seq = Blank /\ op.sector = SectorAt(offs) /\ SectorAt(offs) = SectorDue(offs)
    BY <1>1, Sector DEF EraseOp, Op, SectorDue
  <2>2. op.seq \notin Numbers(flash, queue)
    BY <2>1 DEF Numbers, HeadersOf
  <2>3. Takes(op, flash, queue, flash', queue') /\ Len(queue') <= QueueLen
    BY <1>2, <1>5, <2>1, <2>2, AcceptedTakes
  <2>4. Kind(op) = Due /\ After(Kind(op)) = Due'
    BY <1>1, <1>5, <2>1 DEF Kind, After, Due
  <2>5. Newer(op, Numbers(flash, queue))
    BY <2>1 DEF Newer
  <2>. HIDE DEF op
  <2>6. Holds(flash', queue') /\ Numbers(flash', queue') \in SUBSET Numbers(flash, queue)
    BY <2>1, <2>3 DEF Takes
  <2>7. NamesOK'
    BY <1>1, <2>3, <2>6, FewerNames DEF NamesOK
  <2>8. ASSUME hist.slipped = 0
        PROVE  Ordered(flash', queue', Due') /\ RingOrder(ring, Numbers(flash', queue')) /\ Older(flash, flash')
    <3>1. Ordered(flash, queue, Due) /\ RingOrder(ring, Numbers(flash, queue))
      BY <2>8 DEF OrderOK
    <3>. QED
      BY <2>3, <2>4, <2>5, <2>6, <3>1, FewerNames DEF Takes
  <2>9. OrderOK' /\ OldestGone
    BY <1>1, <2>8 DEF OrderOK, OldestGone
  <2>. QED
    BY <1>3, <1>5, <2>7, <2>9 DEF LogInv
<1>. QED
  BY <1>4, <1>5 DEF FlushErase
(* The flash takes a buffer. *)
LEMMA WriteLog ==
  ASSUME ControlOK, NamesOK, OrderOK, mode # "off", mode' = mode, boots' = boots,
         NEW allowed \in SUBSET {"WRITTING", "WRITTEN"},
         mode \in {"run", "crash"} => allowed = {"WRITTEN"},
         NEW async \in BOOLEAN, FlushWrite(allowed, async)
  PROVE  LogInv' /\ OldestGone
<1>. DEFINE b == ring.buf[ring.f]  op == WriteOp
<1>1. /\ fstate \in {"ERASED", "WRITTING"} /\ offs % SectorSize = 0 /\ offs \in 0 .. Size - 1
      /\ b.state \in allowed /\ InUse(ring, ring.f)
  BY DEF FlushWrite, ControlOK, InUse
<1>2. /\ Holds(flash, queue) /\ Len(queue) <= QueueLen
      /\ RingTypes(ring) /\ RingNames(ring, Numbers(flash, queue))
  BY DEF NamesOK
<1>3. CASE async /\ Refused /\ fstate' = "WRITTING" /\ UNCHANGED <<ring, offs, hist>>
  <2>1. Moves(flash, queue, flash', queue') /\ Len(queue') <= QueueLen
    BY <1>2, <1>3, RefusedMoves
  <2>2. Due' = Due
    BY <1>1, <1>3 DEF Due
  <2>3. NamesOK' /\ OrderOK' /\ OldestGone
    BY <1>3, <2>1, <2>2, MovesLog
  <2>4. ControlOK'
    BY <1>1, <1>3 DEF ControlOK
  <2>. QED
    BY <2>3, <2>4 DEF LogInv
<1>4. CASE /\ Accepted(WriteOp, async) /\ Handed
           /\ hist' = [hist EXCEPT !.slipped =
                IF ring.f = ring.w /\ ring.buf[ring.f].state = "WRITTEN" THEN boots ELSE @]
  <2>1. /\ ring.f \in Index /\ b.offset \in 1 .. SectorSize /\ b.seq \in Nat /\ b.seq < ring.seq
        /\ (b.state = "WRITTEN" => b.offset = SectorSize) /\ ring.seq \in Nat
    <3>1. b.state = "WRITTEN" \/ b.state = "WRITTING"
      BY <1>1
    <3>2. /\ ring.f \in Index /\ ring.seq \in Nat /\ b.offset \in Nat
          /\ InUse(ring, ring.f) => b.seq \in Nat /\ b.seq < ring.seq
          /\ b.state = "WRITTING" => b.offset \in 1 .. SectorSize - 1
          /\ b.state = "WRITTEN" => b.offset = SectorSize
      BY <1>2, RingParts
    <3>. QED
      BY <1>1, <3>1, <3>2, Constants
  <2>2. op \in Op /\ op.seq = b.seq /\ op.seq # Blank /\ op.sector = SectorAt(offs)
    BY <1>1, <2>1, Sector, Constants DEF WriteOp, Op
  <2>3. op.seq \notin Numbers(flash, queue)
    BY <1>1, <1>2, <2>1, <2>2 DEF RingNames
  <2>4. Takes(op, flash, queue, flash', queue') /\ Len(queue') <= QueueLen
    BY <1>2, <1>4, <2>2, <2>3, AcceptedTakes
  <2>5. /\ offs' = Forward(offs, b.offset) /\ offs' \in 0 .. Size - 1 /\ fstate' = "IDLE"
        /\ SectorDue(offs') = Round(SectorAt(offs), Sectors)
        /\ b.offset = SectorSize => offs' % SectorSize = 0
    <3>1. offs' = Forward(offs, b.offset) /\ fstate' = "IDLE"
      BY <1>4 DEF Handed, Forward, Size
    <3>. QED
      BY <1>1, <2>1, <3>1, ForwardDue
  <2>6. ring' = Freed(ring)
    BY <1>2, <1>4, HandedFreed DEF Handed
  <2>7. Kind(op) = Due /\ After(Kind(op)) = Due'
    BY <1>1, <2>2, <2>5 DEF Kind, After, Due, SectorDue
  <2>8. ControlOK'
    <3>1. mode \in {"run", "crash"} => b.offset = SectorSize
      BY <1>1, <2>1
    <3>2. hist' \in [slipped : 0 .. MaxBoots, crash : SUBSET Nat]
      BY <1>4 DEF ControlOK
    <3>. QED
      BY <2>5, <3>1, <3>2 DEF ControlOK
  <2>. HIDE DEF op
  <2>9. /\ Holds(flash', queue') /\ Numbers(flash, queue) \in SUBSET Nat
        /\ Numbers(flash', queue') \in SUBSET (Numbers(flash, queue) \cup {b.seq})
    BY <1>2, <2>2, <2>4, NumbersTypes DEF Takes
  <2>10. NamesOK'
    <3>1. RingTypes(Freed(ring))
      BY <1>2, FreedTypes
    <3>2. RingNames(Freed(ring), Numbers(flash', queue'))
      BY <1>1, <1>2, <2>9, FreedNames
    <3>. QED
      BY <2>4, <2>6, <2>9, <3>1, <3>2 DEF NamesOK
  <2>11. OldestGone
    BY <2>4, <2>7 DEF OldestGone, OrderOK, Takes
  <2>12. ASSUME hist'.slipped = 0
         PROVE  Ordered(flash', queue', Due') /\ RingOrder(ring', Numbers(flash', queue'))
    <3>1. hist.slipped = 0 /\ (ring.f # ring.w \/ b.state # "WRITTEN")
      BY <1>4, <2>12 DEF ControlOK
    <3>2. Ordered(flash, queue, Due) /\ RingOrder(ring, Numbers(flash, queue))
      BY <3>1 DEF OrderOK
    <3>3. Live(ring, ring.f)
      BY <1>1, <3>1 DEF Live
    <3>4. RingOrder(Freed(ring), Numbers(flash', queue'))
      BY <1>2, <2>9, <3>2, <3>3, FreedOrder
    <3>5. Newer(op, Numbers(flash, queue))
      BY <2>1, <2>2, <3>2, <3>3 DEF Newer, RingOrder
    <3>. QED
      BY <2>4, <2>6, <2>7, <3>2, <3>4, <3>5 DEF Takes
  <2>13. OrderOK'
    BY <2>12 DEF OrderOK
  <2>. QED
    BY <2>8, <2>10, <2>11, <2>13 DEF LogInv
<1>. QED
  BY <1>3, <1>4 DEF FlushWrite
(* At the start there is no log. *)
LEMMA InitLog == Init => LogInv
<1>. SUFFICES ASSUME Init PROVE LogInv
  OBVIOUS
<1>1. ControlOK
  <2>1. 0 \in 0 .. Size - 1
    BY Constants, StartOfSector DEF Size
  <2>. QED
    BY <2>1, Constants DEF Init, ControlOK, NoHistory
<1>2. RingTypes(ring)
  <2>1. ring = [buf |-> [i \in Index |-> FreeBuffer], w |-> 0, f |-> 0, seq |-> 0]
    BY DEF Init
  <2>2. FreeBuffer \in Buffer /\ FreeBuffer.state = "FREE"
    BY Constants DEF FreeBuffer, Buffer
  <2>. QED
    BY <2>1, <2>2, Constants DEF RingTypes, RingType, InUse
<1>3. flash \in Flash /\ queue = <<>> /\ \A s \in SectorSet : flash[s] = Blank
  BY DEF Init, Flash, SectorSet
<1>4. Holds(flash, queue) /\ Len(queue) <= QueueLen
  BY <1>3, Nothing, Constants DEF Holds, Distinct
<1>5. Climbs(flash, 0)
  BY <1>3 DEF Climbs
<1>. QED
  BY <1>1, <1>2, <1>4, <1>5, Constants DEF LogInv, NamesOK, OrderOK, Init

(* A step that leaves the log and the flash as they are *)
LEMMA SameLog ==
  ASSUME LogInv, UNCHANGED <<ring, fstate, offs, queue, flash>>, hist'.slipped = hist.slipped,
         mode # "off", mode' # "off", ControlOK'
  PROVE  LogInv' /\ OldestGone
<1>1. NamesOK' /\ OrderOK'
  BY DEF LogInv, NamesOK, OrderOK, Due
<1>. QED
  BY <1>1, OlderSame DEF LogInv, OldestGone

(* A boot goes on behind the newest sector with a higher number. *)
LEMMA BootLog ==
  ASSUME LogInv, Boot
  PROVE  LogInv' /\ OldestGone
<1>1. /\ mode = "off" /\ mode' = "run" /\ boots < MaxBoots /\ boots' = boots + 1
      /\ ring' = [buf |-> [i \in Index |-> FreeBuffer], w |-> 0, f |-> 0, seq |-> GetSeqnum[1]]
      /\ offs' = GetSeqnum[2] * SectorSize /\ fstate' = "IDLE"
      /\ hist' = [hist EXCEPT !.crash = {}] /\ queue' = queue /\ flash' = flash
      /\ queue = <<>> /\ Holds(flash, queue) /\ Len(queue) <= QueueLen
  BY DEF Boot, LogInv, ControlOK, NamesOK
<1>2. /\ GetSeqnum[1] \in Nat /\ \A n \in HeadersOf(flash) : n < GetSeqnum[1]
      /\ GetSeqnum[2] \in SectorSet
      /\ (\E h \in SectorSet : Climbs(flash, h)) => Climbs(flash, GetSeqnum[2])
  BY <1>1, GoOn
<1>3. /\ offs' \in 0 .. Size - 1 /\ offs' % SectorSize = 0 /\ SectorDue(offs') = GetSeqnum[2]
  BY <1>1, <1>2, StartOfSector
<1>4. ControlOK'
  <2>1. boots \in 0 .. MaxBoots /\ hist \in [slipped : 0 .. MaxBoots, crash : SUBSET Nat]
    BY DEF LogInv, ControlOK
  <2>2. boots' \in 0 .. MaxBoots /\ boots' >= 1
    BY <1>1, <2>1, Constants
  <2>3. hist' \in [slipped : 0 .. MaxBoots, crash : SUBSET Nat]
    BY <1>1, <2>1
  <2>. QED
    BY <1>1, <1>3, <2>2, <2>3 DEF ControlOK
<1>5. RingTypes(ring') /\ \A i \in Index : ~ InUse(ring', i)
  <2>1. FreeBuffer \in Buffer /\ FreeBuffer.state = "FREE"
    BY Constants DEF FreeBuffer, Buffer
  <2>. QED
    BY <1>1, <1>2, <2>1, Constants DEF RingTypes, RingType, InUse
<1>6. Numbers(flash, queue) = HeadersOf(flash) /\ ring'.seq = GetSeqnum[1]
  <2>1. Len(queue) = 0
    BY <1>1, Nothing
  <2>. QED
    BY <1>1, <2>1 DEF Numbers
<1>7. RingNames(ring', Numbers(flash, queue)) /\ RingOrder(ring', Numbers(flash, queue))
  BY <1>2, <1>5, <1>6 DEF RingNames, RingOrder, Live
<1>8. NamesOK'
  BY <1>1, <1>5, <1>7 DEF NamesOK
<1>9. ASSUME hist.slipped = 0 PROVE Ordered(flash, <<>>, Due')
  <2>1. Climbs(flash, GetSeqnum[2])
    BY <1>1, <1>2, <1>9 DEF LogInv, OrderOK
  <2>. DEFINE x == <<GetSeqnum[2], TRUE>>
  <2>2. x[1] = GetSeqnum[2] /\ x[2] = TRUE
    OBVIOUS
  <2>3. Due' = x
    BY <1>1, <1>3 DEF Due
  <2>. HIDE DEF x
  <2>4. DueAt(<<>>, 0, x) = x
    BY Nothing DEF DueAt
  <2>5. Ordered(flash, <<>>, x)
    BY <2>1, <2>2, <2>4, Nothing DEF Ordered, Ready, Path, Rising
  <2>. QED
    BY <2>3, <2>5
<1>10. OrderOK'
  <2>1. hist'.slipped = hist.slipped
    BY <1>1 DEF LogInv, ControlOK
  <2>. QED
    BY <1>1, <1>7, <1>9, <2>1 DEF OrderOK
<1>. QED
  BY <1>1, <1>4, <1>8, <1>10, OlderSame DEF LogInv, OldestGone

(* Output, however it splits over the buffers *)
LEMMA OutputLog ==
  ASSUME LogInv, NEW n \in 1 .. SectorSize - 1, Output(n)
  PROVE  LogInv' /\ OldestGone
<1>1. /\ mode # "off" /\ RingTypes(ring) /\ Holds(flash, queue) /\ Len(queue) <= QueueLen
      /\ RingNames(ring, Numbers(flash, queue))
      /\ UNCHANGED <<mode, fstate, offs, queue, flash, boots, hist>>
  BY DEF Output, LogInv, NamesOK
<1>2. Keeps(ring, ring')
  BY <1>1, OutputKeeps
<1>3. Numbers(flash, queue) \in SUBSET Nat
  BY <1>1, NumbersTypes
<1>4. NamesOK'
  BY <1>1, <1>2, <1>3 DEF NamesOK, Keeps
<1>5. OrderOK'
  <2>1. ASSUME hist.slipped = 0
        PROVE  Ordered(flash, queue, Due) /\ RingOrder(ring', Numbers(flash, queue))
    <3>1. Ordered(flash, queue, Due) /\ RingOrder(ring, Numbers(flash, queue))
      BY <1>1, <2>1 DEF LogInv, OrderOK
    <3>. QED
      BY <1>1, <1>2, <1>3, <3>1 DEF Keeps
  <2>. QED
    BY <1>1, <2>1 DEF OrderOK, Due
<1>6. ControlOK'
  BY <1>1 DEF LogInv, ControlOK
<1>. QED
  BY <1>1, <1>4, <1>5, <1>6, OlderSame DEF LogInv, OldestGone

(* A reset loses the queue but for what has happened of its first. *)
LEMMA ResetLog ==
  ASSUME LogInv, Reset
  PROVE  LogInv' /\ OldestGone
<1>1. PICK n \in {0, 1} : n <= Len(queue) /\ flash' = Done(n)
  BY DEF Reset
<1>2. /\ mode # "off" /\ mode' = "off" /\ queue' = <<>> /\ UNCHANGED <<ring, fstate, offs, boots, hist>>
      /\ Holds(flash, queue) /\ Len(queue) \in Nat
  BY LenProperties DEF Reset, LogInv, NamesOK, Holds
<1>3. n \in 0 .. Len(queue)
  BY <1>1, <1>2
<1>4. /\ Holds(flash', <<>>)
      /\ \A x \in Steps : Ordered(flash, queue, x) =>
           Older(flash, flash') /\ \E h \in SectorSet : Climbs(flash', h)
  BY <1>1, <1>2, <1>3, DonePart
<1>5. Due \in Steps
  BY Sector DEF Due, Steps, LogInv, ControlOK
<1>6. OldestGone /\ OrderOK'
  BY <1>2, <1>4, <1>5 DEF OldestGone, OrderOK, LogInv
<1>7. NamesOK'
  BY <1>2, <1>4, Nothing, Constants DEF LogInv, NamesOK
<1>8. ControlOK'
  BY <1>2 DEF LogInv, ControlOK
<1>. QED
  BY <1>6, <1>7, <1>8 DEF LogInv

(* Every step *)
LEMMA LogStep == LogInv /\ [Next]_vars => LogInv' /\ OldestGone
<1>. SUFFICES ASSUME LogInv, [Next]_vars PROVE LogInv' /\ OldestGone
  OBVIOUS
<1>0. ControlOK /\ NamesOK /\ OrderOK
  BY DEF LogInv
<1>1. CASE Boot
  BY <1>1, BootLog
<1>2. ASSUME NEW n \in 1 .. SectorSize - 1, Output(n) PROVE LogInv' /\ OldestGone
  BY <1>2, OutputLog
<1>3. CASE SleepHook
  <2>1. mode = "run" /\ mode' = mode /\ boots' = boots
    BY <1>3 DEF SleepHook
  <2>2. CASE FlushErase(TRUE)
    BY <1>0, <2>1, <2>2, EraseLog
  <2>3. CASE FlushWrite({"WRITTEN"}, TRUE)
    <3>1. {"WRITTEN"} \in SUBSET {"WRITTING", "WRITTEN"}
      OBVIOUS
    <3>. QED
      BY <1>0, <2>1, <2>3, <3>1, WriteLog
  <2>. QED
    BY <1>3, <2>2, <2>3 DEF SleepHook
<1>4. CASE FlashRuns
  <2>1. mode = "run" /\ UNCHANGED <<mode, ring, fstate, offs, boots, hist>>
    BY <1>4 DEF FlashRuns
  <2>2. Moves(flash, queue, flash', queue') /\ Len(queue') <= QueueLen
    BY <1>0, <1>4, RunsMoves DEF NamesOK
  <2>3. Due' = Due
    BY <2>1 DEF Due
  <2>4. NamesOK' /\ OrderOK' /\ OldestGone
    BY <1>0, <2>1, <2>2, <2>3, MovesLog
  <2>5. ControlOK'
    BY <1>0, <2>1 DEF ControlOK
  <2>. QED
    BY <2>4, <2>5 DEF LogInv
<1>5. CASE CrashStart
  <2>1. mode = "run" /\ mode' = "crash" /\ UNCHANGED <<ring, fstate, offs, queue, flash, boots, hist>>
    BY <1>5 DEF CrashStart
  <2>2. ControlOK'
    BY <1>0, <2>1 DEF ControlOK
  <2>. QED
    BY <2>1, <2>2, SameLog
<1>6. CASE CrashEnd
  <2>. DEFINE C == {ring.buf[i].seq : i \in {j \in Index : ring.buf[j].state # "FREE"}}
  <2>1. /\ mode = "crash" /\ mode' = "flushing" /\ UNCHANGED <<ring, fstate, offs, queue, flash, boots>>
        /\ hist' = [hist EXCEPT !.crash = C]
    BY <1>6 DEF CrashEnd
  <2>2. C \in SUBSET Nat
    <3>1. \A i \in Index : InUse(ring, i) => ring.buf[i].seq \in Nat
      BY <1>0, RingParts DEF NamesOK
    <3>. QED
      BY <3>1 DEF InUse
  <2>. HIDE DEF C
  <2>3. hist' \in [slipped : 0 .. MaxBoots, crash : SUBSET Nat] /\ hist'.slipped = hist.slipped
    BY <1>0, <2>1, <2>2 DEF ControlOK
  <2>4. ControlOK'
    BY <1>0, <2>1, <2>3 DEF ControlOK
  <2>. QED
    BY <2>1, <2>3, <2>4, SameLog
<1>7. CASE RemainRound
  <2>1. mode = "flushing" /\ mode' = mode /\ boots' = boots
    BY <1>7 DEF RemainRound
  <2>2. CASE FlushErase(FALSE)
    BY <1>0, <2>1, <2>2, EraseLog
  <2>3. CASE FlushWrite({"WRITTING", "WRITTEN"}, FALSE)
    <3>1. {"WRITTING", "WRITTEN"} \in SUBSET {"WRITTING", "WRITTEN"}
      OBVIOUS
    <3>. QED
      BY <1>0, <2>1, <2>3, <3>1, WriteLog
  <2>. QED
    BY <1>7, <2>2, <2>3 DEF RemainRound
<1>8. CASE RemainDone
  <2>1. /\ mode = "flushing" /\ mode' = "dead" /\ UNCHANGED <<ring, fstate, offs, boots, hist>>
        /\ flash' = Done(Len(queue)) /\ queue' = <<>>
    BY <1>8 DEF RemainDone
  <2>2. Holds(flash, queue) /\ Len(queue) \in 0 .. Len(queue)
    BY <1>0, LenProperties DEF NamesOK, Holds
  <2>3. Moves(flash, queue, flash', queue') /\ Len(queue') <= QueueLen
    BY <2>1, <2>2, DonePart, Nothing, Constants
  <2>4. Due' = Due
    BY <2>1 DEF Due
  <2>5. NamesOK' /\ OrderOK' /\ OldestGone
    BY <1>0, <2>1, <2>3, <2>4, MovesLog
  <2>6. ControlOK'
    BY <1>0, <2>1 DEF ControlOK
  <2>. QED
    BY <2>5, <2>6 DEF LogInv
<1>9. CASE Reset
  BY <1>9, ResetLog
<1>10. CASE UNCHANGED vars
  <2>1. LogInv'
    BY <1>0, <1>10 DEF LogInv, vars, ControlOK, NamesOK, OrderOK, Due
  <2>. QED
    BY <1>10, <2>1, OlderSame DEF OldestGone, vars
<1>. QED
  BY <1>1, <1>2, <1>3, <1>4, <1>5, <1>6, <1>7, <1>8, <1>9, <1>10 DEF Next
-----------------------------------------------------------------------------
(* The crash flush: what was in use is still in the ring or on the flash,    *)
(* no further behind the place of the flash than the number of buffers it    *)
(* has taken.                                                                *)
Used(r) == {i \in Index : InUse(r, i)}
Behind(s, c) == IF s < c THEN c - s ELSE c - s + Sectors

Kept(C, r, q, fl, c) ==
  \E j \in 0 .. Buffers :
    /\ j + Cardinality(Used(r)) <= Buffers
    /\ \A n \in C : \/ \E i \in Used(r) : r.buf[i].seq = n
                    \/ q = <<>> /\ \E s \in SectorSet : fl[s] = n /\ Behind(s, c) <= j

KeptOK == mode = "flushing" => Kept(hist.crash, ring, queue, flash, SectorDue(offs))

CrashInv == LogInv /\ KeptOK /\ CrashLogKept

(* There are at most Buffers of them. *)
LEMMA UsedCount ==
  ASSUME NEW r
  PROVE  /\ IsFiniteSet(Used(r)) /\ Cardinality(Used(r)) \in 0 .. Buffers
         /\ Used(r) # {} => Cardinality(Used(r)) >= 1
<1>1. IsFiniteSet(Index) /\ Cardinality(Index) = Buffers
  BY Constants, FS_Interval DEF Index
<1>2. Used(r) \subseteq Index
  BY DEF Used
<1>3. IsFiniteSet(Used(r)) /\ Cardinality(Used(r)) <= Buffers /\ Cardinality(Used(r)) \in Nat
  BY <1>1, <1>2, FS_Subset, FS_CardinalityType
<1>. QED
  BY <1>3, Constants, FS_EmptySet

(* How far behind, as the place moves on *)
LEMMA BehindNext ==
  ASSUME NEW c \in SectorSet
  PROVE  /\ Behind(c, c) = Sectors /\ Behind(c, Round(c, Sectors)) = 1
         /\ \A s \in SectorSet : s # c => Behind(s, Round(c, Sectors)) = Behind(s, c) + 1
         /\ \A s \in SectorSet : Behind(s, c) \in Nat
BY Constants DEF SectorSet, Behind, Round

(* An erase spares them, ... *)
LEMMA EraseKeeps ==
  ASSUME Buffers <= Sectors, NEW C, NEW r, NEW q, NEW fl \in Flash, NEW c \in SectorSet,
         Kept(C, r, q, fl, c), Used(r) # {},
         NEW op \in Op, op.sector = c, NEW g \in Flash, q = <<>> => g = fl
  PROVE  Kept(C, r, <<>>, Apply(op, g), c)
<1>1. PICK j \in 0 .. Buffers :
        /\ j + Cardinality(Used(r)) <= Buffers
        /\ \A n \in C : \/ \E i \in Used(r) : r.buf[i].seq = n
                        \/ q = <<>> /\ \E s \in SectorSet : fl[s] = n /\ Behind(s, c) <= j
  BY DEF Kept
<1>2. j < Sectors
  BY <1>1, UsedCount, Constants
<1>3. \A s \in SectorSet : s # c => Apply(op, g)[s] = g[s]
  BY Applied
<1>4. \A s \in SectorSet : Behind(s, c) <= j => s # c
  BY <1>2, BehindNext, Constants
<1>5. \A n \in C : \/ \E i \in Used(r) : r.buf[i].seq = n
                   \/ \E s \in SectorSet : Apply(op, g)[s] = n /\ Behind(s, c) <= j
  BY <1>1, <1>3, <1>4
<1>. QED
  BY <1>1, <1>5 DEF Kept

(* and a write adds the buffer it takes. *)
LEMMA WriteKeeps ==
  ASSUME Buffers <= Sectors, NEW C, NEW r, RingTypes(r), InUse(r, r.f),
         NEW q, NEW fl \in Flash, NEW c \in SectorSet, Kept(C, r, q, fl, c),
         NEW op \in Op, op.sector = c, op.seq = r.buf[r.f].seq,
         NEW g \in Flash, q = <<>> => g = fl
  PROVE  Kept(C, Freed(r), <<>>, Apply(op, g), Round(c, Sectors))
<1>. DEFINE e == Apply(op, g)  d == Round(c, Sectors)  p == Freed(r)
<1>1. PICK j \in 0 .. Buffers :
        /\ j + Cardinality(Used(r)) <= Buffers
        /\ \A n \in C : \/ \E i \in Used(r) : r.buf[i].seq = n
                        \/ q = <<>> /\ \E s \in SectorSet : fl[s] = n /\ Behind(s, c) <= j
  BY DEF Kept
<1>2. r.f \in Index /\ r.f \in Used(r)
  BY RingParts DEF Used
<1>3. /\ p.buf[r.f].state = "FREE" /\ \A i \in Index : i # r.f => p.buf[i] = r.buf[i]
  BY Replaced
<1>4. e[c] = op.seq /\ \A s \in SectorSet : s # c => e[s] = g[s]
  BY Applied
<1>. HIDE DEF p, e, d
<1>5. Used(p) = Used(r) \ {r.f}
  BY <1>2, <1>3 DEF Used, InUse
<1>6. Cardinality(Used(p)) = Cardinality(Used(r)) - 1
  BY <1>2, <1>5, UsedCount, FS_RemoveElement
<1>7. j < Sectors /\ j + 1 \in 0 .. Buffers /\ (j + 1) + Cardinality(Used(p)) <= Buffers
  BY <1>1, <1>2, <1>6, UsedCount, Constants
<1>8. Behind(c, d) <= j + 1 /\ \A s \in SectorSet : Behind(s, c) <= j => s # c /\ Behind(s, d) <= j + 1
  BY <1>1, <1>7, BehindNext, Constants DEF d
<1>9. ASSUME NEW n \in C
      PROVE  \/ \E i \in Used(p) : p.buf[i].seq = n
             \/ \E s \in SectorSet : e[s] = n /\ Behind(s, d) <= j + 1
  <2>1. CASE \E i \in Used(r) : r.buf[i].seq = n
    <3>1. PICK i \in Used(r) : r.buf[i].seq = n
      BY <2>1
    <3>2. CASE i = r.f
      BY <1>4, <1>8, <3>1, <3>2
    <3>3. CASE i # r.f
      <4>1. i \in Used(p) /\ i \in Index
        BY <1>5, <3>1, <3>3 DEF Used
      <4>. QED
        BY <1>3, <3>1, <3>3, <4>1
    <3>. QED
      BY <3>2, <3>3
  <2>2. CASE q = <<>> /\ \E s \in SectorSet : fl[s] = n /\ Behind(s, c) <= j
    BY <1>4, <1>8, <2>2
  <2>. QED
    BY <1>1, <2>1, <2>2
<1>. QED
  BY <1>7, <1>9 DEF Kept, p, e, d

(* A round of the crash flush keeps them. *)
LEMMA RoundKeeps ==
  ASSUME Buffers <= Sectors, LogInv, KeptOK, RemainRound
  PROVE  KeptOK'
<1>1. /\ mode = "flushing" /\ RingTypes(ring) /\ Holds(flash, queue) /\ Len(queue) <= QueueLen
      /\ flash \in Flash /\ offs \in 0 .. Size - 1 /\ Used(ring) # {}
      /\ RingNames(ring, Numbers(flash, queue))
  BY DEF RemainRound, Remaining, LogInv, NamesOK, ControlOK, Holds, Used, InUse
<1>2. Kept(hist.crash, ring, queue, flash, SectorDue(offs)) /\ SectorDue(offs) \in SectorSet
  BY <1>1, Sector DEF KeptOK
<1>3. CASE FlushErase(FALSE)
  <2>. DEFINE op == EraseOp
  <2>1. /\ offs % SectorSize = 0 /\ UNCHANGED <<ring, offs, hist>> /\ Accepted(op, FALSE)
    BY <1>3 DEF FlushErase
  <2>2. op \in Op /\ op.seq = Blank /\ op.sector = SectorDue(offs)
    BY <1>1, <2>1, Sector DEF EraseOp, Op, SectorDue
  <2>3. op.seq \notin Numbers(flash, queue)
    BY <2>2 DEF Numbers, HeadersOf
  <2>. HIDE DEF op
  <2>4. queue' = <<>> /\ \E g \in Flash : flash' = Apply(op, g) /\ (queue = <<>> => g = flash)
    BY <1>1, <2>1, <2>2, <2>3, AcceptedTakes
  <2>5. Kept(hist.crash, ring, queue', flash', SectorDue(offs))
    BY <1>1, <1>2, <2>2, <2>4, EraseKeeps
  <2>. QED
    BY <2>1, <2>5 DEF KeptOK
<1>4. CASE FlushWrite({"WRITTING", "WRITTEN"}, FALSE)
  <2>. DEFINE b == ring.buf[ring.f]  op == WriteOp
  <2>1. /\ fstate # "IDLE" /\ b.state \in {"WRITTING", "WRITTEN"} /\ Handed /\ Accepted(op, FALSE)
        /\ hist'.crash = hist.crash
    BY <1>4 DEF FlushWrite, LogInv, ControlOK
  <2>2. offs % SectorSize = 0 /\ InUse(ring, ring.f)
    BY <2>1 DEF LogInv, ControlOK, InUse
  <2>3. /\ ring.f \in Index /\ b.offset \in 1 .. SectorSize /\ b.seq \in Nat
    <3>1. /\ ring.f \in Index /\ b.offset \in Nat
          /\ InUse(ring, ring.f) => b.seq \in Nat
          /\ b.state = "WRITTING" => b.offset \in 1 .. SectorSize - 1
          /\ b.state = "WRITTEN" => b.offset = SectorSize
      BY <1>1, RingParts
    <3>. QED
      BY <2>1, <2>2, <3>1, Constants
  <2>4. op \in Op /\ op.seq = b.seq /\ op.sector = SectorDue(offs)
    BY <1>1, <2>2, <2>3, Sector DEF WriteOp, Op, SectorDue
  <2>5. op.seq \notin Numbers(flash, queue)
    BY <1>1, <2>2, <2>3, <2>4 DEF RingNames
  <2>. HIDE DEF op
  <2>6. queue' = <<>> /\ \E g \in Flash : flash' = Apply(op, g) /\ (queue = <<>> => g = flash)
    BY <1>1, <2>1, <2>4, <2>5, AcceptedTakes
  <2>7. ring' = Freed(ring) /\ offs' = Forward(offs, b.offset)
    BY <1>1, <2>1, HandedFreed DEF Handed, Forward, Size
  <2>8. SectorDue(offs') = Round(SectorDue(offs), Sectors)
    BY <1>1, <2>2, <2>3, <2>7, ForwardDue DEF SectorDue
  <2>9. Kept(hist.crash, ring', queue', flash', SectorDue(offs'))
    BY <1>1, <1>2, <2>2, <2>4, <2>6, <2>7, <2>8, WriteKeeps
  <2>. QED
    BY <2>1, <2>9 DEF KeptOK
<1>. QED
  BY <1>3, <1>4 DEF RemainRound

(* Every step keeps them. *)
LEMMA CrashStep == Buffers <= Sectors /\ CrashInv /\ [Next]_vars => CrashInv'
<1>. SUFFICES ASSUME Buffers <= Sectors, CrashInv, [Next]_vars PROVE CrashInv'
  OBVIOUS
<1>0. LogInv /\ KeptOK /\ CrashLogKept
  BY DEF CrashInv
<1>1. LogInv'
  BY <1>0, LogStep
<1>2. CASE mode' \notin {"flushing", "dead"}
  BY <1>1, <1>2 DEF CrashInv, KeptOK, CrashLogKept
<1>3. CASE UNCHANGED vars
  BY <1>0, <1>1, <1>3 DEF CrashInv, KeptOK, CrashLogKept, vars, Headers
<1>4. CASE CrashEnd
  <2>1. /\ mode' = "flushing" /\ UNCHANGED <<ring, queue, flash, offs>>
        /\ hist' = [hist EXCEPT !.crash =
             {ring.buf[i].seq : i \in {j \in Index : ring.buf[j].state # "FREE"}}]
    BY <1>4 DEF CrashEnd
  <2>2. hist'.crash = {ring.buf[i].seq : i \in Used(ring)}
    BY <1>0, <2>1 DEF Used, InUse, LogInv, ControlOK
  <2>3. \A n \in hist'.crash : \E i \in Used(ring) : ring.buf[i].seq = n
    BY <2>2
  <2>4. 0 \in 0 .. Buffers /\ 0 + Cardinality(Used(ring)) <= Buffers
    BY UsedCount, Constants
  <2>5. Kept(hist'.crash, ring', queue', flash', SectorDue(offs'))
    BY <2>1, <2>3, <2>4 DEF Kept
  <2>. QED
    BY <1>1, <2>1, <2>5 DEF CrashInv, KeptOK, CrashLogKept
<1>5. CASE RemainRound
  <2>1. KeptOK' /\ mode' = "flushing"
    BY <1>0, <1>5, RoundKeeps DEF RemainRound
  <2>. QED
    BY <1>1, <2>1 DEF CrashInv, CrashLogKept
<1>6. CASE RemainDone
  <2>1. /\ mode = "flushing" /\ mode' = "dead" /\ hist' = hist
        /\ flash' = Run(flash, queue)[Len(queue)] /\ Used(ring) = {}
    BY <1>6 DEF RemainDone, Done, Remaining, Used, InUse
  <2>2. Kept(hist.crash, ring, queue, flash, SectorDue(offs))
    BY <1>0, <2>1 DEF KeptOK
  <2>3. \A n \in hist.crash : queue = <<>> /\ \E s \in SectorSet : flash[s] = n
    BY <2>1, <2>2 DEF Kept
  <2>4. queue = <<>> => flash' = flash
    BY <1>0, <2>1, Nothing, RunUnfolds DEF LogInv, NamesOK, Holds
  <2>5. hist.crash \in SUBSET Nat /\ flash \in Flash
    BY <1>0 DEF LogInv, ControlOK, NamesOK, Holds
  <2>6. hist'.crash \subseteq Headers'
    BY <2>1, <2>3, <2>4, <2>5, Constants DEF Headers, Flash
  <2>. QED
    BY <1>1, <2>1, <2>6 DEF CrashInv, KeptOK, CrashLogKept
<1>7. CASE \/ Boot \/ SleepHook \/ FlashRuns \/ CrashStart \/ Reset
           \/ \E n \in 1 .. SectorSize - 1 : Output(n)
  <2>1. mode' \notin {"flushing", "dead"}
    BY <1>7 DEF Boot, SleepHook, FlashRuns, CrashStart, Reset, Output
  <2>. QED
    BY <1>2, <2>1
<1>. QED
  BY <1>3, <1>4, <1>5, <1>6, <1>7 DEF Next

-----------------------------------------------------------------------------
(* The invariant holds in every state. *)
LEMMA LogAlways == Spec => []LogInv
<1>1. Init => LogInv
  BY InitLog
<1>2. LogInv /\ [Next]_vars => LogInv'
  BY LogStep
<1>. QED
  BY <1>1, <1>2, PTL DEF Spec

(* Types, and the ASSERT of log_dump_output_handler: the writer never moves  *)
(* to a buffer that is still being filled.                                   *)
THEOREM TypeCorrect == Spec => []TypeOK
<1>1. LogInv => TypeOK
  <2>. SUFFICES ASSUME LogInv PROVE TypeOK
    OBVIOUS
  <2>1. RingTypes(ring) /\ ring.w \in Index /\ ring \in RingType
    BY RingParts DEF LogInv, NamesOK, RingTypes
  <2>2. WriterBufferOK
    BY <2>1 DEF WriterBufferOK, RingTypes, RingType, Buffer
  <2>3. hist.slipped \in 0 .. MaxBoots
    BY DEF LogInv, ControlOK
  <2>. QED
    BY <2>1, <2>2, <2>3
    DEF TypeOK, LogInv, ControlOK, NamesOK, RingType, Holds, Op, Flash, SectorSet, Size
<1>. QED
  BY <1>1, LogAlways, PTL

(* A sequence number names one sector's log, over every boot, crash and     *)
(* lost write (_get_seqnum, log_dump_output_handler).                        *)
THEOREM UniqueNumbers == Spec => []SeqUnique
<1>1. LogInv => SeqUnique
  <2>. SUFFICES ASSUME LogInv, mode # "off"
                PROVE
         /\ \A s, t \in DOMAIN flash : s # t /\ flash[s] = flash[t] => flash[s] = Blank
         /\ \A i, j \in Index : i # j => NumbersOf(i) \cap NumbersOf(j) = {}
         /\ \A i \in Index : \A n \in NumbersOf(i) : n < ring.seq /\ n \notin Headers
         /\ \A n \in Headers : n < ring.seq
         /\ \A k \in DOMAIN queue : queue[k].seq < ring.seq /\ queue[k].seq \notin Headers
    BY DEF SeqUnique
  <2>1. /\ RingTypes(ring) /\ RingNames(ring, Numbers(flash, queue)) /\ Distinct(flash, queue)
        /\ flash \in Flash /\ queue \in Seq(Op)
    BY DEF LogInv, NamesOK, Holds
  <2>2. DOMAIN flash = SectorSet /\ DOMAIN queue = 1 .. Len(queue) /\ Headers = HeadersOf(flash)
    BY <2>1, LenProperties DEF Flash, Headers, HeadersOf
  <2>3. \A i \in Index : \A n \in NumbersOf(i) : InUse(ring, i) /\ n = ring.buf[i].seq
    BY DEF NumbersOf, InUse
  <2>4. \A i \in Index : InUse(ring, i) => ring.buf[i].seq < ring.seq
    BY <2>1, RingParts
  <2>5. \A n \in Headers : n \in Numbers(flash, queue)
    BY <2>2 DEF Numbers
  <2>6. \A i, j \in Index : i # j => NumbersOf(i) \cap NumbersOf(j) = {}
    BY <2>1, <2>3 DEF RingNames
  <2>7. \A i \in Index : \A n \in NumbersOf(i) : n < ring.seq /\ n \notin Headers
    BY <2>1, <2>3, <2>4, <2>5 DEF RingNames
  <2>8. \A n \in Headers : n < ring.seq
    BY <2>1, <2>5 DEF RingNames
  <2>9. ASSUME NEW k \in 1 .. Len(queue) PROVE queue[k].seq < ring.seq /\ queue[k].seq \notin Headers
    <3>1. ring.seq \in Nat
      BY <2>1, RingParts
    <3>2. queue[k].seq \notin Headers
      BY <2>1, <2>2 DEF Distinct, HeadersOf
    <3>3. CASE queue[k].seq = Blank
      BY <3>1, <3>2, <3>3 DEF Blank
    <3>4. CASE queue[k].seq # Blank
      BY <2>1, <3>2, <3>4 DEF Numbers, RingNames
    <3>. QED
      BY <3>3, <3>4
  <2>10. \A s, t \in SectorSet : s # t /\ flash[s] = flash[t] => flash[s] = Blank
    BY <2>1 DEF Distinct
  <2>. QED
    BY <2>2, <2>6, <2>7, <2>8, <2>9, <2>10
<1>. QED
  BY <1>1, LogAlways, PTL

(* What _log_dump_flush takes from the flash is older than all it leaves,   *)
(* whatever a power loss or crash has cut short, as long as no buffer has    *)
(* slipped behind a newer one.                                               *)
THEOREM OldestFirst == Spec => OldestErased
<1>. DEFINE A == hist.slipped = 0 =>
                   \A a \in Headers \ Headers' : \A b \in Headers \cap Headers' : a < b
<1>1. LogInv /\ [Next]_vars => LogInv' /\ [A]_vars
  <2>. SUFFICES ASSUME LogInv, [Next]_vars PROVE LogInv' /\ A
    OBVIOUS
  <2>1. LogInv' /\ OldestGone
    BY LogStep
  <2>2. flash \in Flash /\ flash' \in Flash
    BY <2>1 DEF LogInv, NamesOK, Holds
  <2>3. Headers = HeadersOf(flash) /\ Headers' = HeadersOf(flash')
    BY <2>2 DEF Flash, Headers, HeadersOf
  <2>. QED
    BY <2>1, <2>3 DEF OldestGone, Older
<1>2. Init => LogInv
  BY InitLog
<1>3. Init /\ [][Next]_vars => [][A]_vars
  <2>. HIDE DEF A
  <2>. QED
    BY <1>1, <1>2, PTL
<1>. QED
  BY <1>3 DEF Spec, OldestErased

(* What was in use when the crash ended is on the flash when the system     *)
(* stops (_log_dump_flush_remain), if the region has at least as many        *)
(* sectors as there are buffers: with fewer the dump would overwrite itself. *)
THEOREM CrashKept ==
  ASSUME Buffers <= Sectors
  PROVE  Spec => []CrashLogKept
<1>1. Init => CrashInv
  BY InitLog DEF CrashInv, Init, KeptOK, CrashLogKept
<1>2. CrashInv /\ [Next]_vars => CrashInv'
  BY CrashStep
<1>3. CrashInv => CrashLogKept
  BY DEF CrashInv
<1>. QED
  BY <1>1, <1>2, <1>3, PTL DEF Spec
===============================================================================
