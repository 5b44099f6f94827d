-------------------------- MODULE RobinHoodProofs --------------------------
(***************************************************************************)
(* Proofs about the hash index, for every set of keys, every hash function *)
(* and every number of entries.                                            *)
(***************************************************************************)
EXTENDS RobinHood, FiniteSetTheorems, WellFoundedInduction, TLAPS

(***************************************************************************)
(* Arithmetic on the ring of C slots.                                      *)
(***************************************************************************)
RingDist(C, x, y) == IF y >= x THEN y - x ELSE C + y - x
RingNext(C, x) == IF x + 1 >= C THEN 0 ELSE x + 1

\* The two ways the code steps to the next slot agree.
LEMMA NextSlotMod ==
  ASSUME NEW C \in Nat \ {0}, NEW s \in 0 .. C - 1
  PROVE  (s + 1) % C = RingNext(C, s)
BY DEF RingNext

\* get_displacement computes the distance from the wanted slot.
LEMMA DisplacementIsDist ==
  ASSUME NEW C \in Nat \ {0}, NEW s \in 0 .. C - 1, NEW w \in 0 .. C - 1
  PROVE  (C + (s - w)) % C = RingDist(C, w, s)
BY DEF RingDist

\* Distances are slot numbers, and a distance determines its end point.
LEMMA DistType ==
  ASSUME NEW C \in Nat \ {0}, NEW x \in 0 .. C - 1, NEW y \in 0 .. C - 1
  PROVE  /\ RingDist(C, x, y) \in 0 .. C - 1
         /\ RingDist(C, x, y) = 0 <=> x = y
         /\ RingNext(C, x) \in 0 .. C - 1
BY DEF RingDist, RingNext

\* A slot further: one more to walk for every start but that slot itself.
LEMMA DistToNext ==
  ASSUME NEW C \in Nat \ {0}, NEW x \in 0 .. C - 1, NEW y \in 0 .. C - 1
  PROVE  RingDist(C, x, RingNext(C, y)) =
           IF x = RingNext(C, y) THEN 0 ELSE RingDist(C, x, y) + 1
BY DEF RingDist, RingNext

\* Starting a slot later: one less to walk, except from the end point.
LEMMA DistFromNext ==
  ASSUME NEW C \in Nat \ {0}, NEW x \in 0 .. C - 1, NEW y \in 0 .. C - 1, x # y
  PROVE  RingDist(C, RingNext(C, x), y) = RingDist(C, x, y) - 1
BY DEF RingDist, RingNext

\* Three slots in ring order: distances add up.
LEMMA DistAdds ==
  ASSUME NEW C \in Nat \ {0}, NEW h \in 0 .. C - 1,
         NEW x \in 0 .. C - 1, NEW y \in 0 .. C - 1,
         RingDist(C, h, x) <= RingDist(C, h, y)
  PROVE  RingDist(C, x, y) = RingDist(C, h, y) - RingDist(C, h, x)
BY DEF RingDist

(***************************************************************************)
(* The robin hood order of a table with capacity C, taken slots O and      *)
(* displacements D, and what the table updates of the code do to it.       *)
(***************************************************************************)
Ordered(C, O, D) ==
  \A t \in O, u \in 0 .. C - 1 :
    RingDist(C, u, t) <= D[t] => u \in O /\ D[u] >= D[t] - RingDist(C, u, t)

\* An entry with displacement d may be written to slot s: the slots it was
\* probed at before are taken by entries at least as displaced.
Fits(C, O, D, s, d) ==
  \A u \in 0 .. C - 1 :
    RingDist(C, u, s) \in 1 .. d => u \in O /\ D[u] >= d - RingDist(C, u, s)

\* hash_put writes a fitting entry to an empty slot, or over a less
\* displaced entry.
LEMMA PlaceKeepsOrder ==
  ASSUME NEW C \in Nat \ {0}, NEW O \in SUBSET (0 .. C - 1),
         NEW D \in [0 .. C - 1 -> Nat], NEW E \in [0 .. C - 1 -> Nat],
         NEW s \in 0 .. C - 1, NEW d \in Nat,
         Ordered(C, O, D), Fits(C, O, D, s, d),
         s \in O => D[s] <= d,
         \A u \in 0 .. C - 1 : E[u] = IF u = s THEN d ELSE D[u]
  PROVE  Ordered(C, O \cup {s}, E)
<1> SUFFICES ASSUME NEW t \in O \cup {s}, NEW u \in 0 .. C - 1,
                    RingDist(C, u, t) <= E[t]
             PROVE  u \in O \cup {s} /\ E[u] >= E[t] - RingDist(C, u, t)
  BY DEF Ordered
<1>0. t \in 0 .. C - 1
  OBVIOUS
<1>1. RingDist(C, u, t) \in 0 .. C - 1 /\ (RingDist(C, u, t) = 0 <=> u = t)
  BY DistType, <1>0
<1>2. CASE t = s
  <2>1. CASE u = s
    BY <1>1, <1>2, <2>1
  <2>2. CASE u # s
    <3>1. RingDist(C, u, s) \in 1 .. d
      BY <1>1, <1>2, <2>2
    <3> QED
      BY <1>2, <2>2, <3>1 DEF Fits
  <2> QED
    BY <2>1, <2>2
<1>3. CASE t # s
  <2>1. t \in O /\ RingDist(C, u, t) <= D[t]
    BY <1>0, <1>3
  <2>2. u \in O /\ D[u] >= D[t] - RingDist(C, u, t)
    BY <2>1 DEF Ordered
  <2>3. CASE u = s
    BY <1>0, <1>1, <1>3, <2>2, <2>3
  <2>4. CASE u # s
    BY <1>0, <1>3, <2>2, <2>4
  <2> QED
    BY <2>3, <2>4
<1> QED
  BY <1>2, <1>3

\* hash_delete copies a displaced entry one slot back.
LEMMA ShiftKeepsOrder ==
  ASSUME NEW C \in Nat \ {0}, NEW O \in SUBSET (0 .. C - 1),
         NEW D \in [0 .. C - 1 -> Nat], NEW E \in [0 .. C - 1 -> Nat],
         NEW s \in O, NEW n \in O, n = RingNext(C, s), Ordered(C, O, D),
         D[n] \in 1 .. C - 1, D[n] = E[s] + 1,
         \A u \in 0 .. C - 1 : u # s => E[u] = D[u]
  PROVE  Ordered(C, O, E)
<1> SUFFICES ASSUME NEW t \in O, NEW u \in 0 .. C - 1, RingDist(C, u, t) <= E[t]
             PROVE  u \in O /\ E[u] >= E[t] - RingDist(C, u, t)
  BY DEF Ordered
<1>0. t \in 0 .. C - 1 /\ s \in 0 .. C - 1 /\ n \in 0 .. C - 1
  BY DistType
<1>1. RingDist(C, u, t) \in 0 .. C - 1 /\ (RingDist(C, u, t) = 0 <=> u = t)
  BY DistType, <1>0
<1>2. CASE u = t
  BY SMTT(40), <1>0, <1>1, <1>2
<1>3. CASE t = s /\ u # t
  <2>1. u # n
    BY SMTT(40), <1>0, <1>1, <1>3 DEF RingDist, RingNext
  <2>2. RingDist(C, u, n) = RingDist(C, u, s) + 1
    BY DistToNext, <1>0, <2>1
  <2>3. u \in O /\ D[u] >= D[n] - RingDist(C, u, n)
    <3>1. RingDist(C, u, n) <= D[n]
      BY SMTT(40), <1>0, <1>1, <1>3, <2>2
    <3> QED
      BY <3>1 DEF Ordered
  <2> QED
    BY SMTT(40), <1>0, <1>1, <1>3, <2>2, <2>3
<1>4. CASE t # s /\ u = s
  <2>1. RingDist(C, n, t) = RingDist(C, s, t) - 1
    BY DistFromNext, <1>0, <1>4
  <2>2. D[n] >= D[t] - RingDist(C, n, t)
    BY SMTT(40), <1>0, <1>1, <1>4, <2>1 DEF Ordered
  <2> QED
    BY SMTT(40), <1>0, <1>1, <1>4, <2>1, <2>2
<1>5. CASE t # s /\ u # s
  BY <1>0, <1>5 DEF Ordered
<1> QED
  BY <1>2, <1>3, <1>4, <1>5

\* hash_delete empties the last slot of a run of displaced entries.
LEMMA ClearKeepsOrder ==
  ASSUME NEW C \in Nat \ {0}, NEW O \in SUBSET (0 .. C - 1),
         NEW D \in [0 .. C - 1 -> Nat], NEW E \in [0 .. C - 1 -> Nat],
         NEW s \in O, NEW n \in 0 .. C - 1, n = RingNext(C, s), Ordered(C, O, D),
         n \notin O \/ D[n] = 0,
         \A u \in 0 .. C - 1 : u # s => E[u] = D[u]
  PROVE  Ordered(C, O \ {s}, E)
<1> SUFFICES ASSUME NEW t \in O \ {s}, NEW u \in 0 .. C - 1, RingDist(C, u, t) <= E[t]
             PROVE  u \in O \ {s} /\ E[u] >= E[t] - RingDist(C, u, t)
  BY DEF Ordered
<1>0. t \in 0 .. C - 1 /\ s \in 0 .. C - 1 /\ n \in 0 .. C - 1
  BY DistType
<1>1. CASE u = s
  <2>1. RingDist(C, n, t) = RingDist(C, s, t) - 1
    BY DistFromNext, <1>0
  <2>2. RingDist(C, s, t) \in 0 .. C - 1
    BY <1>0, DistType
  <2>3. n \in O /\ D[n] >= D[t] - RingDist(C, n, t)
    <3>1. RingDist(C, n, t) <= D[t]
      BY SMTT(40), <1>0, <1>1, <2>1, <2>2
    <3> QED
      BY <1>0, <3>1 DEF Ordered
  <2>4. D[n] >= 1
    BY SMTT(40), <1>0, <1>1, <2>1, <2>2, <2>3
  <2> QED
    BY <2>3, <2>4
<1>2. CASE u # s
  BY <1>0, <1>2 DEF Ordered
<1> QED
  BY <1>1, <1>2

\* A probe that meets no displaced-enough entry has met the entry it looks
\* for if there is one: the argument behind "displacement >
\* other_displacement".
LEMMA ProbeMayStop ==
  ASSUME NEW C \in Nat \ {0}, NEW O \in SUBSET (0 .. C - 1),
         NEW D \in [0 .. C - 1 -> Nat], Ordered(C, O, D),
         NEW h \in 0 .. C - 1, NEW s \in 0 .. C - 1, NEW t \in O,
         D[t] = RingDist(C, h, t), D[t] >= RingDist(C, h, s)
  PROVE  s \in O /\ D[s] >= RingDist(C, h, s)
<1>1. RingDist(C, s, t) = D[t] - RingDist(C, h, s)
  BY DistAdds
<1>2. RingDist(C, h, s) \in 0 .. C - 1
  BY DistType
<1> QED
  BY <1>1, <1>2 DEF Ordered

\* A fitting entry whose slot is taken by one at least as displaced fits the
\* next slot too, with one more displacement.
LEMMA FitsNext ==
  ASSUME NEW C \in Nat \ {0}, NEW O \in SUBSET (0 .. C - 1),
         NEW D \in [0 .. C - 1 -> Nat],
         NEW s \in O, NEW n \in 0 .. C - 1, n = RingNext(C, s),
         NEW d \in Nat, Fits(C, O, D, s, d), D[s] >= d
  PROVE  Fits(C, O, D, n, d + 1)
<1> SUFFICES ASSUME NEW u \in 0 .. C - 1, RingDist(C, u, n) \in 1 .. d + 1
             PROVE  u \in O /\ D[u] >= d + 1 - RingDist(C, u, n)
  BY DEF Fits
<1>1. RingDist(C, u, n) = RingDist(C, u, s) + 1
  <2>1. u # n
    BY DistType
  <2> QED
    BY <2>1, DistToNext
<1>2. RingDist(C, u, s) \in 0 .. C - 1 /\ (RingDist(C, u, s) = 0 <=> u = s)
  BY DistType
<1>3. CASE u = s
  BY <1>1, <1>2, <1>3
<1>4. CASE u # s
  <2>1. RingDist(C, u, s) \in 1 .. d
    BY SMTT(40), <1>1, <1>2, <1>4
  <2>2. u \in O /\ D[u] >= d - RingDist(C, u, s)
    BY <2>1 DEF Fits
  <2> QED
    BY SMTT(40), <1>1, <1>2, <2>2
<1> QED
  BY <1>3, <1>4

-----------------------------------------------------------------------------
(***************************************************************************)
(* The inductive invariant.                                                *)
(***************************************************************************)
DispFn == [s \in Slots |-> SlotDisplacement(s)]

OrderInv == Ordered(capacity, Occupied, DispFn)

\* What hash_put carries fits the slot it is about to look at, and has not
\* gone round the table.
CarriedFits ==
  op = "put" => /\ disp = RingDist(capacity, WantedSlot(hash), slot)
                /\ Fits(capacity, Occupied, DispFn, slot, disp)

\* The hole of hash_delete still holds a stale entry, and the deleted entry
\* is in the log.
HoleInv == op = "shift" => slot \in Occupied /\ pos \in DOMAIN log

\* Every taken slot was paid for by a PUT entry of the log, and one PUT is
\* outstanding while hash_put runs.
CountInv ==
  /\ numEntries = Cardinality(Occupied)
  /\ Scanned("put") \in Nat
  /\ Scanned("put") <= numPuts
  /\ IF op = "put" THEN numEntries < Scanned("put") ELSE numEntries <= Scanned("put")

IndInv == /\ TypeOK /\ PointersArePuts /\ OrderInv
          /\ CarriedFits /\ HoleInv /\ CountInv

\* What hash_put and hash_delete need of the state, whatever the table was
\* dimensioned for and whoever calls them.
LoopTypes ==
  /\ keyHash \in HashFns /\ capacity \in Nat \ {0}
  /\ table \in [Slots -> [hash : Nat, pos : Nat]]
  /\ numEntries \in Nat /\ garbage \in Nat /\ log \in Seq(Entry)
  /\ op \in Ops /\ key \in Key \cup {NoKey} /\ slot \in Slots
  /\ disp \in 0 .. capacity /\ hash \in Nat /\ pos \in Nat /\ fresh \in BOOLEAN

LoopInv == /\ LoopTypes /\ PointersArePuts /\ OrderInv
           /\ CarriedFits /\ HoleInv /\ numEntries = Cardinality(Occupied)

\* The capacity is positive and has a slot for every PUT entry.
LEMMA CapacityRoom ==
  ASSUME NEW n \in Nat
  PROVE  HashCapacity(n) \in Nat \ {0} /\ HashCapacity(n) >= n
BY DEF HashCapacity

\* The capacity and the number of PUTs it is for.
LEMMA CapacityFacts ==
  ASSUME TypeOK
  PROVE  capacity \in Nat \ {0} /\ numPuts \in Nat /\ capacity >= numPuts
BY CapacityRoom, BoundAssumption DEF TypeOK

\* The types that the loops need, which also hold while the hash writer runs.
LEMMA TypeLoop == TypeOK => LoopTypes
BY CapacityFacts DEF TypeOK, LoopTypes

\* The invariant of the index has all that the loops need.
LEMMA IndLoop == IndInv => LoopInv
BY TypeLoop DEF IndInv, LoopInv, CountInv

\* Displacements are the distances from the wanted slots.
LEMMA SlotFacts ==
  ASSUME LoopTypes
  PROVE  /\ capacity \in Nat \ {0}
         /\ Slots = 0 .. capacity - 1 /\ slot \in Slots
         /\ Occupied \in SUBSET Slots
         /\ \A h \in Nat : WantedSlot(h) \in Slots
         /\ \A h \in Nat, s \in Slots :
              GetDisplacement(s, h) = RingDist(capacity, WantedSlot(h), s)
         /\ \A s \in Slots : /\ table[s] \in [hash : Nat, pos : Nat]
                             /\ NextSlot(s) = RingNext(capacity, s)
                             /\ NextSlot(s) \in Slots
                             /\ (s + 1) % capacity = NextSlot(s)
         /\ DispFn \in [Slots -> Nat]
         /\ \A s \in Slots :
              /\ DispFn[s] = RingDist(capacity, WantedSlot(table[s].hash), s)
              /\ DispFn[s] = GetDisplacement(s, table[s].hash)
              /\ DispFn[s] \in 0 .. capacity - 1
<1>1. capacity \in Nat \ {0}
  BY DEF LoopTypes
<1>2. Slots = 0 .. capacity - 1 /\ slot \in Slots /\ Occupied \in SUBSET Slots
  BY DEF LoopTypes, Slots, Occupied
<1>3. \A h \in Nat : WantedSlot(h) \in Slots
  BY <1>1 DEF WantedSlot, Slots
<1>4. \A h \in Nat, s \in Slots :
        GetDisplacement(s, h) = RingDist(capacity, WantedSlot(h), s)
  BY <1>1, <1>2, <1>3, DisplacementIsDist DEF GetDisplacement
<1>5. \A s \in Slots : table[s] \in [hash : Nat, pos : Nat]
  BY DEF LoopTypes
<1>6. \A s \in Slots : /\ NextSlot(s) = RingNext(capacity, s)
                       /\ NextSlot(s) \in Slots
                       /\ (s + 1) % capacity = NextSlot(s)
  BY <1>1, <1>2, NextSlotMod DEF NextSlot, RingNext
<1>7. \A s \in Slots :
        /\ DispFn[s] = GetDisplacement(s, table[s].hash)
        /\ DispFn[s] = RingDist(capacity, WantedSlot(table[s].hash), s)
  BY <1>4, <1>5 DEF DispFn, SlotDisplacement
<1>8. \A s \in Slots : DispFn[s] \in 0 .. capacity - 1
  <2> SUFFICES ASSUME NEW s \in Slots PROVE DispFn[s] \in 0 .. capacity - 1
    OBVIOUS
  <2>1. WantedSlot(table[s].hash) \in 0 .. capacity - 1
    BY <1>2, <1>3, <1>5
  <2>2. s \in 0 .. capacity - 1
    BY <1>2
  <2>3. RingDist(capacity, WantedSlot(table[s].hash), s) \in 0 .. capacity - 1
    BY <1>1, <2>1, <2>2, DistType
  <2> QED
    BY <1>7, <2>3
<1>9. DispFn \in [Slots -> Nat]
  <2>1. \A s \in Slots : DispFn[s] \in Nat
    BY <1>8
  <2> QED
    BY <2>1 DEF DispFn
<1> QED
  BY <1>1, <1>2, <1>3, <1>4, <1>5, <1>6, <1>7, <1>8, <1>9

\* The taken slots form a finite set, smaller than the table if one is free.
LEMMA OccupiedFinite ==
  ASSUME LoopTypes
  PROVE  /\ IsFiniteSet(Occupied) /\ Cardinality(Occupied) \in Nat
         /\ Cardinality(Occupied) < capacity => Occupied # Slots
<1>1. IsFiniteSet(Slots) /\ Cardinality(Slots) = capacity
  BY SMTT(40), SlotFacts, FS_Interval
<1>2. IsFiniteSet(Occupied)
  BY <1>1, SlotFacts, FS_Subset
<1> QED
  BY <1>1, <1>2, FS_CardinalityType, SlotFacts

(***************************************************************************)
(* Sizes.  What the hash writer counts for an entry is what log_add wrote. *)
(***************************************************************************)

\* Induction over the natural numbers from all smaller ones, for a set
\* instead of a predicate.
LEMMA LeastInduction ==
  ASSUME NEW S, \A n \in Nat : (\A m \in 0 .. n - 1 : m \in S) => n \in S
  PROVE  Nat \subseteq S
<1> DEFINE R == {ss \in Nat \X Nat : ss[1] < ss[2]}
           T == Nat \ S
<1>1. IsWellFoundedOn(R, Nat)
  BY NatLessThanWellFounded DEF OpToRel
<1> SUFFICES ASSUME T # {} PROVE FALSE
  OBVIOUS
<1>2. PICK x \in T : \A y \in T : ~(<<y, x>> \in R)
  <2> HIDE DEF R, T
  <2>1. T \subseteq Nat
    BY DEF T
  <2> QED
    BY <1>1, <2>1, WFMin
<1>3. \A m \in 0 .. x - 1 : m \in Nat /\ <<m, x>> \in R
  OBVIOUS
<1> QED
  BY <1>2, <1>3

\* unsigned_vlq_size returns a number.
LEMMA VlqSizeType ==
  ASSUME NEW n \in Nat
  PROVE  VlqSize(n) \in Nat
<1> DEFINE S == {k \in 1 .. 3 : n >= 2^(7 * k)}
<1>0. \A i, j \in Int : IsFiniteSet(i .. j)
  BY FS_Interval
<1>1. IsFiniteSet(1 .. 3)
  <2>1. 1 \in Int /\ 3 \in Int
    OBVIOUS
  <2> QED
    BY <1>0, <2>1, Zenon
<1>2. IsFiniteSet(S)
  BY <1>1, FS_Subset
<1>3. Cardinality(S) \in Nat
  BY <1>2, FS_CardinalityType
<1> QED
  BY <1>3 DEF VlqSize

(***************************************************************************)
(* write_vlq: the function that WriteVlq is, on the numbers up to n.       *)
(***************************************************************************)
VlqOf(f, m) == IF m < 2^7 THEN <<m>> ELSE <<(m % 2^7) + 2^7>> \o f[m \div 2^7]
IsVlq(f, n) == f = [m \in 0 .. n |-> VlqOf(f, m)]

\* The loop shifts the number to a smaller one.
LEMMA VlqShift ==
  ASSUME NEW m \in Nat, ~(m < 2^7)
  PROVE  m \div 2^7 \in 0 .. m - 1
BY PowersOfTwo

\* The functions for two numbers agree as far as both reach.
LEMMA VlqUnique ==
  ASSUME NEW n \in Nat, NEW k \in Nat, NEW f, NEW h, IsVlq(f, n), IsVlq(h, k),
         NEW m \in Nat, m <= n, m <= k
  PROVE  f[m] = h[m]
<1> DEFINE Good == {i \in Nat : i <= n /\ i <= k => f[i] = h[i]}
<1>1. ASSUME NEW i \in Nat, \A j \in 0 .. i - 1 : j \in Good PROVE i \in Good
  <2> SUFFICES ASSUME i <= n, i <= k PROVE f[i] = h[i]
    OBVIOUS
  <2>0. i \in 0 .. n /\ i \in 0 .. k
    OBVIOUS
  <2>1. f[i] = VlqOf(f, i) /\ h[i] = VlqOf(h, i)
    BY <2>0, Zenon DEF IsVlq
  <2>2. ~(i < 2^7) => f[i \div 2^7] = h[i \div 2^7]
    <3> SUFFICES ASSUME ~(i < 2^7) PROVE f[i \div 2^7] = h[i \div 2^7]
      OBVIOUS
    <3> DEFINE j == i \div 2^7
    <3>1. j \in 0 .. i - 1
      BY VlqShift
    <3> HIDE DEF j
    <3>2. f[j] = h[j]
      BY <1>1, <3>1
    <3> QED
      BY <3>2 DEF j
  <2> QED
    BY <2>1, <2>2, Zenon DEF VlqOf
<1> HIDE DEF Good
<1>2. Nat \subseteq Good
  BY <1>1, LeastInduction
<1> QED
  BY <1>2 DEF Good

\* They exist.
LEMMA VlqExists ==
  ASSUME NEW n \in Nat
  PROVE  \E f : IsVlq(f, n)
<1> DEFINE h(i) == CHOOSE f : IsVlq(f, i)
           Good == {i \in Nat : \E f : IsVlq(f, i)}
<1>1. ASSUME NEW i \in Nat, \A j \in 0 .. i - 1 : j \in Good PROVE i \in Good
  <2> DEFINE F == [m \in 0 .. i |-> IF m = i THEN (IF m < 2^7 THEN <<m>>
                     ELSE <<(m % 2^7) + 2^7>> \o h(m \div 2^7)[m \div 2^7]) ELSE h(m)[m]]
  <2>1. \A j \in 0 .. i - 1 : IsVlq(h(j), j)
    BY <1>1
  <2> HIDE DEF h, Good
  <2>2. ASSUME NEW m \in 0 .. i PROVE F[m] = VlqOf(F, m)
    <3> DEFINE j == m \div 2^7
    <3>1. ~(m < 2^7) => j \in 0 .. m - 1 /\ j \in 0 .. i - 1
      BY VlqShift
    <3>2. ~(m < 2^7) => F[j] = h(j)[j]
      <4> HIDE DEF j
      <4> QED
        BY <3>1
    <3>3. CASE m = i
      BY <3>2, <3>3 DEF VlqOf
    <3>4. CASE m # i
      <4>1. m \in 0 .. i - 1 /\ IsVlq(h(m), m) /\ F[m] = h(m)[m]
        BY <2>1, <3>4
      <4> HIDE DEF F
      <4>2. h(m)[m] = VlqOf(h(m), m)
        BY <4>1 DEF IsVlq
      <4>3. ~(m < 2^7) => h(m)[j] = h(j)[j]
        <5> SUFFICES ASSUME ~(m < 2^7) PROVE h(m)[j] = h(j)[j]
          OBVIOUS
        <5> HIDE DEF j
        <5>1. j \in Nat /\ m \in Nat /\ j <= j /\ j <= m /\ IsVlq(h(j), j)
          BY <2>1, <3>1
        <5> QED
          BY <4>1, <5>1, VlqUnique
      <4> QED
        BY <3>2, <4>1, <4>2, <4>3, Zenon DEF VlqOf
    <3> QED
      BY <3>3, <3>4
  <2>3. F = [m \in 0 .. i |-> F[m]]
    OBVIOUS
  <2> HIDE DEF F
  <2>4. IsVlq(F, i)
    BY <2>2, <2>3 DEF IsVlq
  <2> QED
    BY <2>4 DEF Good
<1> HIDE DEF Good
<1>2. Nat \subseteq Good
  BY <1>1, LeastInduction
<1> QED
  BY <1>2 DEF Good

\* write_vlq is what its loop says.
LEMMA WriteVlqIs ==
  ASSUME NEW n \in Nat
  PROVE  /\ n < 128 => WriteVlq[n] = <<n>>
         /\ ~(n < 128) => WriteVlq[n] = <<(n % 128) + 128>> \o WriteVlq[n \div 128]
<1> DEFINE h(i) == CHOOSE f : IsVlq(f, i)
           P(f, b) == f = [m \in Nat |-> IF m < b THEN <<m>>
                                         ELSE <<(m % b) + b>> \o f[m \div b]]
           F == [m \in Nat |-> h(m)[m]]
<1>1. \A i \in Nat : IsVlq(h(i), i)
  BY VlqExists
<1>2. ASSUME NEW m \in Nat PROVE F[m] = VlqOf(F, m)
  <2> DEFINE j == m \div 2^7
  <2> HIDE DEF h
  <2>1. ~(m < 2^7) => j \in 0 .. m - 1 /\ j \in Nat
    BY VlqShift
  <2>2. h(m)[m] = VlqOf(h(m), m)
    BY <1>1 DEF IsVlq
  <2>3. ~(m < 2^7) => h(m)[j] = h(j)[j]
    <3> HIDE DEF j
    <3> QED
      BY <1>1, <2>1, VlqUnique
  <2>4. F[m] = h(m)[m] /\ (~(m < 2^7) => F[j] = h(j)[j])
    <3> HIDE DEF j
    <3> QED
      BY <2>1
  <2> HIDE DEF F
  <2> QED
    BY <2>2, <2>3, <2>4, Zenon DEF VlqOf
<1>3. F = [m \in Nat |-> F[m]]
  OBVIOUS
<1> HIDE DEF F
<1>4. P(F, 2^7)
  BY <1>2, <1>3 DEF VlqOf
<1>5. WriteVlq = CHOOSE f : P(f, 2^7)
  BY DEF WriteVlq
<1>6. P(WriteVlq, 128)
  <2> HIDE DEF P
  <2> QED
    BY <1>4, <1>5, PowersOfTwo
<1>7. WriteVlq[n] = IF n < 128 THEN <<n>> ELSE <<(n % 128) + 128>> \o WriteVlq[n \div 128]
  BY <1>6, Zenon
<1> QED
  BY <1>7, Zenon

\* Its number of bytes, and that the hash writer computes the same.
LEMMA VlqSizeIs ==
  ASSUME NEW n \in Nat, n < 2^28
  PROVE  VlqSize(n) = Len(WriteVlq[n])
<1> DEFINE S == {k \in 1 .. 3 : n >= 2^(7 * k)}
           A == 2^14
           B == 2^21
           C == 2^28
<1>0. A = 128 * 128 /\ B = 128 * A /\ C = 128 * B /\ A \in Nat /\ B \in Nat /\ C \in Nat
  <2>1. A = 128 * 128 /\ A \in Nat
    BY PowersOfTwo
  <2> HIDE DEF A
  <2>2. B = 128 * A /\ B \in Nat
    BY <2>1, PowersOfTwo DEF A
  <2> HIDE DEF B
  <2>3. C = 128 * B /\ C \in Nat
    BY <2>2, PowersOfTwo DEF B
  <2> QED
    BY <2>1, <2>2, <2>3
<1>1. /\ 1 \in S <=> n >= 128
      /\ 2 \in S <=> n >= A
      /\ 3 \in S <=> n >= B
      /\ S \subseteq {1, 2, 3}
  <2>1. 7 * 1 = 7 /\ 7 * 2 = 14 /\ 7 * 3 = 21 /\ 1 .. 3 = {1, 2, 3}
    OBVIOUS
  <2>2. 2^(7 * 1) = 128 /\ 2^(7 * 2) = A /\ 2^(7 * 3) = B
    BY <2>1, PowersOfTwo
  <2> QED
    BY <2>1, <2>2
<1> HIDE DEF S, A, B, C
<1>2. Cardinality(S) = IF n < 128 THEN 0 ELSE IF n < A THEN 1
                       ELSE IF n < B THEN 2 ELSE 3
  <2>0. /\ Cardinality({}) = 0 /\ Cardinality({1}) = 1
        /\ Cardinality({1, 2}) = 2 /\ Cardinality({1, 2, 3}) = 3
    <3>1. IsFiniteSet({}) /\ Cardinality({}) = 0
      BY FS_EmptySet
    <3>2. IsFiniteSet({1}) /\ Cardinality({1}) = 1
      BY FS_Singleton
    <3>3. IsFiniteSet({1, 2}) /\ Cardinality({1, 2}) = 2
      <4>1. {1} \cup {2} = {1, 2} /\ 2 \notin {1}
        OBVIOUS
      <4>2. IsFiniteSet({1} \cup {2}) /\ Cardinality({1} \cup {2}) = Cardinality({1}) + 1
        BY <3>2, <4>1, FS_AddElement
      <4> QED
        BY <3>2, <4>1, <4>2
    <3>4. Cardinality({1, 2, 3}) = 3
      <4>1. {1, 2} \cup {3} = {1, 2, 3} /\ 3 \notin {1, 2}
        OBVIOUS
      <4>2. Cardinality({1, 2} \cup {3}) = Cardinality({1, 2}) + 1
        BY <3>3, <4>1, FS_AddElement
      <4> QED
        BY <3>3, <4>1, <4>2
    <3> QED
      BY <3>1, <3>2, <3>3, <3>4
  <2>5. S \subseteq {1, 2, 3}
    BY <1>1
  <2>1. CASE n < 128
    <3>1. 1 \notin S /\ 2 \notin S /\ 3 \notin S
      BY <1>0, <1>1, <2>1
    <3>2. S = {}
      BY <2>5, <3>1
    <3> QED
      BY <2>0, <2>1, <3>2
  <2>2. CASE n >= 128 /\ n < A
    <3>1. 1 \in S /\ 2 \notin S /\ 3 \notin S
      BY <1>0, <1>1, <2>2
    <3>2. S = {1}
      BY <2>5, <3>1
    <3> QED
      BY <2>0, <2>2, <3>2
  <2>3. CASE n >= A /\ n < B
    <3>1. 1 \in S /\ 2 \in S /\ 3 \notin S
      BY <1>0, <1>1, <2>3
    <3>2. S = {1, 2}
      BY <2>5, <3>1
    <3> QED
      BY <1>0, <2>0, <2>3, <3>2
  <2>4. CASE n >= B
    <3>1. 1 \in S /\ 2 \in S /\ 3 \in S
      BY <1>0, <1>1, <2>4
    <3>2. S = {1, 2, 3}
      BY <2>5, <3>1
    <3> QED
      BY <1>0, <2>0, <2>4, <3>2
  <2> QED
    BY <1>0, <2>1, <2>2, <2>3, <2>4
<1> DEFINE L(m) == Len(WriteVlq[m])
<1>3. \A m \in Nat : m < 128 => WriteVlq[m] \in Seq(Nat) /\ L(m) = 1
  <2> SUFFICES ASSUME NEW m \in Nat, m < 128
               PROVE  WriteVlq[m] \in Seq(Nat) /\ L(m) = 1
    OBVIOUS
  <2>1. WriteVlq[m] = <<m>>
    BY WriteVlqIs
  <2> QED
    BY <2>1
<1>4. ASSUME NEW m \in Nat, m >= 128, WriteVlq[m \div 128] \in Seq(Nat)
      PROVE  WriteVlq[m] \in Seq(Nat) /\ L(m) = L(m \div 128) + 1
  <2>1. WriteVlq[m] = <<(m % 128) + 128>> \o WriteVlq[m \div 128]
    <3>1. ~(m < 128)
      BY <1>4
    <3> QED
      BY <3>1, WriteVlqIs, Zenon
  <2>2. (m % 128) + 128 \in Nat
    OBVIOUS
  <2> DEFINE x == (m % 128) + 128
             w == WriteVlq[m \div 128]
  <2> HIDE DEF x, w
  <2>3. x \in Nat /\ w \in Seq(Nat)
    BY <1>4, <2>2 DEF x, w
  <2>4. <<x>> \o w \in Seq(Nat) /\ Len(<<x>> \o w) = Len(w) + 1
    BY <2>3
  <2> QED
    BY <2>1, <2>4 DEF x, w
<1> HIDE DEF L
<1>5. \A m \in Nat : m >= 128 /\ m < A => WriteVlq[m] \in Seq(Nat) /\ L(m) = 2
  BY <1>0, <1>3, <1>4
<1>6. \A m \in Nat : m >= A /\ m < B => WriteVlq[m] \in Seq(Nat) /\ L(m) = 3
  BY <1>0, <1>4, <1>5
<1>7. \A m \in Nat : m >= B /\ m < C => WriteVlq[m] \in Seq(Nat) /\ L(m) = 4
  BY <1>0, <1>4, <1>6
<1>8. VlqSize(n) = 1 + Cardinality(S) /\ n < C
  BY DEF VlqSize, S, C
<1> HIDE DEF L
<1> SUFFICES VlqSize(n) = L(n)
  BY DEF L
<1> QED
  BY <1>0, <1>2, <1>3, <1>5, <1>6, <1>7, <1>8

\* What the hash writer counts for an entry is what log_add wrote for it.
LEMMA SizesAgree ==
  ASSUME NEW e \in Entry
  PROVE  EntrySize(e) = LoggedSize(e)
<1> DEFINE k == KeyLen[e.key]
           v == e.vlen
           C == 2^28
<1>1. e.key \in Key /\ v \in ValueLens \cup {0} /\ e.type \in {"put", "delete"}
      /\ (e.type = "delete" => v = 0)
  BY DEF Entry, PutEntries, DeleteEntries
<1>2. C \in Nat /\ 128 < C
  BY PowersOfTwo
<1>3. k \in Nat /\ k + 1 < C /\ v \in Nat /\ v < C
  <2>1. k \in Nat /\ v \in Nat
    <3>1. k \in Nat
      BY <1>1, KeyAssumption
    <3>2. \A w \in ValueLens \cup {0} : w \in Nat
      BY KeyAssumption
    <3> HIDE DEF v
    <3> QED
      BY <1>1, <3>1, <3>2
  <2>2. k + 1 < C
    BY <1>1, LengthAssumption
  <2>3. v < C
    <3> HIDE DEF v, C
    <3>1. \A w \in ValueLens : w < C
      BY LengthAssumption DEF C
    <3> QED
      BY <1>1, <1>2, <3>1
  <2> QED
    BY <2>1, <2>2, <2>3
<1>4. /\ VlqSize(k + 1) = Len(WriteVlq[k + 1])
      /\ VlqSize(v) = Len(WriteVlq[v])
      /\ VlqSize(k) = Len(WriteVlq[k])
  <2> HIDE DEF k, v
  <2> QED
    BY <1>2, <1>3, VlqSizeIs
<1>5. Len(WriteVlq[0]) = 1
  <2>1. WriteVlq[0] = <<0>>
    <3>1. 0 \in Nat /\ 0 < 128
      OBVIOUS
    <3> QED
      BY <3>1, WriteVlqIs, Zenon
  <2> QED
    BY <2>1
<1>6. CASE e.type = "put"
  <2>1. EntrySize(e) = k + v + VlqSize(k + 1) + VlqSize(v)
    BY <1>6 DEF EntrySize
  <2>2. LoggedSize(e) = k + v + (Len(WriteVlq[k + 1]) + Len(WriteVlq[v]))
    BY <1>6 DEF LoggedSize
  <2>3. VlqSize(k + 1) \in Nat /\ VlqSize(v) \in Nat
    BY <1>3, VlqSizeType
  <2> DEFINE a == VlqSize(k + 1)
             b == VlqSize(v)
  <2>4. EntrySize(e) = k + v + a + b /\ LoggedSize(e) = k + v + (a + b)
    BY <1>4, <2>1, <2>2, Zenon
  <2>5. a \in Nat /\ b \in Nat
    BY <2>3
  <2> HIDE DEF k, v, a, b
  <2> QED
    BY <1>3, <2>4, <2>5
<1>7. CASE e.type = "delete"
  <2>1. EntrySize(e) = 1 + VlqSize(k) + k
    BY <1>7 DEF EntrySize
  <2>2. LoggedSize(e) = k + v + (Len(WriteVlq[0]) + Len(WriteVlq[k]))
    BY <1>7 DEF LoggedSize
  <2>3. v = 0 /\ VlqSize(k) \in Nat
    BY <1>1, <1>3, <1>7, VlqSizeType
  <2> HIDE DEF k, v
  <2> QED
    BY <1>3, <1>4, <1>5, <2>1, <2>2, <2>3
<1> QED
  BY <1>1, <1>6, <1>7

\* Sizes are numbers.
LEMMA EntrySizeType ==
  ASSUME NEW e \in Entry
  PROVE  EntrySize(e) \in Nat
<1>1. \A n \in Nat : VlqSize(n) \in Nat
  BY VlqSizeType
<1>2. KeyLen[e.key] \in Nat /\ e.vlen \in Nat
  <2>1. e.key \in Key /\ e.vlen \in ValueLens \cup {0}
    BY DEF Entry, PutEntries, DeleteEntries
  <2>2. \A k \in Key : KeyLen[k] \in Nat
    BY KeyAssumption
  <2>3. \A v \in ValueLens \cup {0} : v \in Nat
    BY KeyAssumption
  <2> QED
    BY <2>1, <2>2, <2>3, Zenon
<1>3. KeyLen[e.key] + 1 \in Nat
  BY <1>2
<1> QED
  BY <1>1, <1>2, <1>3 DEF EntrySize

\* A pointer to a PUT entry leads to an entry.
LEMMA PointerType ==
  ASSUME LoopTypes, NEW h, NEW p, IsPutPointer(h, p)
  PROVE  p \in Nat \ {0} /\ log[p] \in Entry /\ h \in Nat /\ log[p].key \in Key
<1>1. p \in 1 .. Len(log) /\ log[p] \in Entry /\ h = keyHash[log[p].key]
  BY DEF LoopTypes, IsPutPointer
<1>2. log[p].key \in Key
  BY <1>1 DEF Entry, PutEntries, DeleteEntries
<1>3. keyHash \in [Key -> Nat]
  BY KeyAssumption DEF LoopTypes
<1> QED
  BY <1>1, <1>2, <1>3

\* Initially the table is empty and nothing runs.
LEMMA InitInv == Init => IndInv
<1> SUFFICES ASSUME Init PROVE IndInv
  OBVIOUS
<1>1. numPuts \in Nat /\ capacity \in Nat \ {0}
  BY CapacityRoom, BoundAssumption DEF Init
<1>2. TypeOK
  <2>1. table \in [Slots -> [hash : Nat, pos : Nat]]
    <3>1. EmptySlot \in [hash : Nat, pos : Nat]
      BY DEF EmptySlot
    <3> QED
      BY <3>1 DEF Init
  <2>2. log \in Seq(Entry)
    BY DEF Init
  <2>3. 0 \in Slots /\ 0 \in 0 .. capacity
    BY <1>1 DEF Slots
  <2>4. header \in [maxDisp : Nat, collisions : Nat, entries : Nat]
    BY DEF Init
  <2>5. "idle" \in Ops
    BY DEF Ops
  <2> QED
    BY <2>1, <2>2, <2>3, <2>4, <2>5 DEF Init, TypeOK
<1>3. Occupied = {}
  BY DEF Init, Occupied, Empty, EmptySlot, Slots
<1>4. Scanned("put") = 0 /\ numEntries = Cardinality(Occupied)
  <2>1. {p \in DOMAIN log : log[p].type = "put"} = {}
    BY DEF Init
  <2> QED
    BY <2>1, <1>3, FS_EmptySet DEF Init, Scanned
<1>5. PointersArePuts
  BY <1>3 DEF Init, PointersArePuts
<1>6. OrderInv
  BY <1>3 DEF OrderInv, Ordered
<1>7. CarriedFits /\ HoleInv
  BY DEF Init, CarriedFits, HoleInv
<1>8. CountInv
  BY <1>1, <1>4 DEF CountInv, Init
<1> QED
  BY <1>2, <1>5, <1>6, <1>7, <1>8 DEF IndInv

\* Steps that leave the table alone leave what is derived from it alone.
LEMMA TableUnchanged ==
  ASSUME UNCHANGED <<table, capacity>>
  PROVE  Slots' = Slots /\ Occupied' = Occupied /\ DispFn' = DispFn
BY DEF Slots, Occupied, Empty, DispFn, SlotDisplacement, GetDisplacement, WantedSlot

\* Reading one more entry adds it to the PUTs or to the DELETEs.
LEMMA ScannedAppend ==
  ASSUME TypeOK, NEW e \in Entry, log' = Append(log, e)
  PROVE  Scanned("put") \in Nat =>
           Scanned("put")' = IF e.type = "put" THEN Scanned("put") + 1 ELSE Scanned("put")
<1> DEFINE P == {p \in DOMAIN log : log[p].type = "put"}
<1>1. log \in Seq(Entry) /\ log' \in Seq(Entry) /\ Len(log') = Len(log) + 1
  BY DEF TypeOK
<1>2. /\ DOMAIN log' = (DOMAIN log) \cup {Len(log) + 1}
      /\ \A p \in DOMAIN log : log'[p] = log[p]
      /\ log'[Len(log) + 1] = e /\ Len(log) + 1 \notin DOMAIN log
  BY <1>1
<1>3. IsFiniteSet(P)
  <2>1. IsFiniteSet(1 .. Len(log))
    BY <1>1, FS_Interval
  <2> QED
    BY <1>1, <2>1, FS_Subset
<1>4. {p \in DOMAIN log' : log'[p].type = "put"} =
        IF e.type = "put" THEN P \cup {Len(log) + 1} ELSE P
  BY <1>2
<1>5. Cardinality(P \cup {Len(log) + 1}) = Cardinality(P) + 1
  BY <1>2, <1>3, FS_AddElement
<1> QED
  BY <1>4, <1>5 DEF Scanned

\* What hash_put's write does to the taken slots and their displacements.
LEMMA PlaceEffect ==
  ASSUME LoopInv, op = "put", Place, capacity' = capacity
  PROVE  /\ Slots' = Slots
         /\ table' \in [Slots -> [hash : Nat, pos : Nat]]
         /\ Occupied' = Occupied \cup {slot}
         /\ DispFn' \in [Slots -> Nat]
         /\ \A u \in Slots : DispFn'[u] = IF u = slot THEN disp ELSE DispFn[u]
<1>1. LoopTypes /\ IsPutPointer(hash, pos)
  BY DEF LoopInv, PointersArePuts
<1>2. /\ capacity \in Nat \ {0} /\ slot \in Slots
      /\ pos \in Nat \ {0} /\ hash \in Nat
      /\ table \in [Slots -> [hash : Nat, pos : Nat]]
  BY <1>1, SlotFacts, PointerType DEF LoopTypes
<1>3. Slots' = Slots
  BY DEF Slots
<1>4. /\ table' \in [Slots -> [hash : Nat, pos : Nat]]
      /\ table'[slot] = [hash |-> hash, pos |-> pos]
      /\ \A u \in Slots : u # slot => table'[u] = table[u]
  BY <1>2 DEF Place
<1>5. Occupied' = Occupied \cup {slot}
  BY <1>2, <1>3, <1>4 DEF Occupied, Empty
<1>6. \A u \in Slots : DispFn'[u] = GetDisplacement(u, table'[u].hash)
  BY <1>3 DEF DispFn, SlotDisplacement, GetDisplacement, WantedSlot
<1>7. \A u \in Slots : u # slot => DispFn'[u] = DispFn[u]
  BY <1>4, <1>6 DEF DispFn, SlotDisplacement
<1>8. DispFn'[slot] = disp
  <2>1. table'[slot].hash = hash
    BY <1>4
  <2>2. DispFn'[slot] = GetDisplacement(slot, hash)
    BY <1>2, <1>6, <2>1
  <2>3. GetDisplacement(slot, hash) = RingDist(capacity, WantedSlot(hash), slot)
    BY <1>1, <1>2, SlotFacts
  <2> QED
    BY <2>2, <2>3 DEF LoopInv, CarriedFits
<1>9. DispFn' \in [Slots -> Nat]
  <2>1. \A u \in Slots : DispFn'[u] \in Nat
    <3>1. \A u \in Slots : DispFn[u] \in Nat
      BY <1>1, SlotFacts
    <3>2. disp \in Nat
      BY <1>1, <1>2 DEF LoopTypes
    <3> QED
      BY <1>7, <1>8, <3>1, <3>2
  <2> QED
    BY <1>3, <2>1 DEF DispFn
<1> QED
  BY <1>3, <1>4, <1>5, <1>7, <1>8, <1>9

\* What a round of hash_delete's shift loop does.
LEMMA ShiftBackEffect ==
  ASSUME LoopInv, ShiftBack
  PROVE  /\ Slots' = Slots /\ NextSlot(slot) \in Occupied /\ slot' = NextSlot(slot)
         /\ table' \in [Slots -> [hash : Nat, pos : Nat]]
         /\ Occupied' = Occupied
         /\ DispFn' \in [Slots -> Nat]
         /\ DispFn[NextSlot(slot)] \in 1 .. capacity - 1
         /\ DispFn[NextSlot(slot)] = DispFn'[slot] + 1
         /\ \A u \in Slots : u # slot => DispFn'[u] = DispFn[u]
<1> DEFINE n == NextSlot(slot)
<1>1. LoopTypes /\ slot \in Occupied /\ capacity' = capacity
  BY DEF LoopInv, HoleInv, ShiftBack
<1>2. /\ capacity \in Nat \ {0} /\ slot \in Slots /\ n \in Slots
      /\ (slot + 1) % capacity = n /\ n = RingNext(capacity, slot)
      /\ Slots = 0 .. capacity - 1
      /\ table \in [Slots -> [hash : Nat, pos : Nat]]
  BY <1>1, SlotFacts DEF LoopTypes
<1>3. Slots' = Slots /\ slot' = n
  BY <1>1, <1>2 DEF Slots, ShiftBack
<1> HIDE DEF n
<1>4. ~Empty(n) /\ WantedSlot(table[n].hash) # n
  BY <1>2 DEF ShiftBack, ShiftStops
<1>5. n \in Occupied
  BY <1>2, <1>4 DEF Occupied
<1>6. /\ table' \in [Slots -> [hash : Nat, pos : Nat]]
      /\ table'[slot] = table[n]
      /\ \A u \in Slots : u # slot => table'[u] = table[u]
  BY <1>2 DEF ShiftBack
<1>7. Occupied' = Occupied
  BY <1>1, <1>3, <1>5, <1>6 DEF Occupied, Empty
<1>8. \A u \in Slots : DispFn'[u] = GetDisplacement(u, table'[u].hash)
  BY <1>1, <1>3 DEF DispFn, SlotDisplacement, GetDisplacement, WantedSlot
<1>9. \A u \in Slots : u # slot => DispFn'[u] = DispFn[u]
  BY <1>6, <1>8 DEF DispFn, SlotDisplacement
<1>10. /\ DispFn[n] \in 1 .. capacity - 1
       /\ DispFn[n] = DispFn'[slot] + 1 /\ DispFn'[slot] \in Nat
  <2> DEFINE w == WantedSlot(table[n].hash)
  <2>1. /\ w \in Slots /\ table[n].hash \in Nat
        /\ DispFn[n] = RingDist(capacity, w, n) /\ DispFn[n] \in 0 .. capacity - 1
    BY <1>1, <1>2, SlotFacts
  <2>2. DispFn'[slot] = RingDist(capacity, w, slot)
    <3>1. DispFn'[slot] = GetDisplacement(slot, table[n].hash)
      BY <1>2, <1>6, <1>8
    <3> QED
      BY <1>1, <1>2, <2>1, <3>1, SlotFacts
  <2> HIDE DEF w
  <2>3. w # n
    BY <1>4 DEF w
  <2>4. RingDist(capacity, w, n) = RingDist(capacity, w, slot) + 1
    BY <1>2, <2>1, <2>3, DistToNext
  <2>5. RingDist(capacity, w, slot) \in 0 .. capacity - 1
    BY <1>2, <2>1, DistType
  <2>6. DispFn'[slot] \in 0 .. capacity - 1 /\ DispFn[n] = DispFn'[slot] + 1
    BY <2>1, <2>2, <2>4, <2>5
  <2>7. \A i, j \in 0 .. capacity - 1 :
          i = j + 1 => i \in 1 .. capacity - 1 /\ j \in Nat
    BY <1>2
  <2> QED
    BY <2>1, <2>6, <2>7
<1>11. DispFn' \in [Slots -> Nat]
  <2>1. \A u \in Slots : DispFn'[u] \in Nat
    <3>1. \A u \in Slots : DispFn[u] \in Nat
      BY <1>1, SlotFacts
    <3> QED
      BY <1>9, <1>10, <3>1
  <2> QED
    BY <1>3, <2>1 DEF DispFn
<1> QED
  BY <1>3, <1>5, <1>6, <1>7, <1>9, <1>10, <1>11 DEF n

\* What the end of the shift loop does.
LEMMA ShiftEndEffect ==
  ASSUME LoopInv, ShiftEnd
  PROVE  /\ Slots' = Slots
         /\ table' \in [Slots -> [hash : Nat, pos : Nat]]
         /\ Occupied' = Occupied \ {slot}
         /\ DispFn' \in [Slots -> Nat]
         /\ NextSlot(slot) \notin Occupied \/ DispFn[NextSlot(slot)] = 0
         /\ \A u \in Slots : u # slot => DispFn'[u] = DispFn[u]
<1> DEFINE n == NextSlot(slot)
<1>1. LoopTypes /\ slot \in Occupied /\ capacity' = capacity
  BY DEF LoopInv, HoleInv, ShiftEnd
<1>2. /\ capacity \in Nat \ {0} /\ slot \in Slots /\ n \in Slots
      /\ (slot + 1) % capacity = n /\ Slots = 0 .. capacity - 1
      /\ table \in [Slots -> [hash : Nat, pos : Nat]]
  BY <1>1, SlotFacts DEF LoopTypes
<1>3. Slots' = Slots
  BY <1>1 DEF Slots
<1> HIDE DEF n
<1>4. Empty(n) \/ WantedSlot(table[n].hash) = n
  BY <1>2 DEF ShiftEnd, ShiftStops
<1>5. /\ table' \in [Slots -> [hash : Nat, pos : Nat]]
      /\ table'[slot].pos = 0 /\ table'[slot].hash = 0
      /\ \A u \in Slots : u # slot => table'[u] = table[u]
  BY <1>2 DEF ShiftEnd, EmptySlot
<1>6. Occupied' = Occupied \ {slot}
  BY <1>3, <1>5 DEF Occupied, Empty
<1>7. \A u \in Slots : DispFn'[u] = GetDisplacement(u, table'[u].hash)
  BY <1>1, <1>3 DEF DispFn, SlotDisplacement, GetDisplacement, WantedSlot
<1>8. \A u \in Slots : u # slot => DispFn'[u] = DispFn[u]
  BY <1>5, <1>7 DEF DispFn, SlotDisplacement
<1>9. n \notin Occupied \/ DispFn[n] = 0
  <2>1. CASE Empty(n)
    BY <2>1 DEF Occupied
  <2>2. CASE WantedSlot(table[n].hash) = n
    <3>1. DispFn[n] = RingDist(capacity, n, n)
      BY <1>1, <1>2, <2>2, SlotFacts
    <3> QED
      BY <1>2, <3>1, DistType
  <2> QED
    BY <1>4, <2>1, <2>2
<1>10. DispFn' \in [Slots -> Nat]
  <2>1. DispFn'[slot] \in Nat
    <3>1. DispFn'[slot] = GetDisplacement(slot, 0)
      BY <1>2, <1>5, <1>7
    <3>2. /\ GetDisplacement(slot, 0) = RingDist(capacity, WantedSlot(0), slot)
          /\ WantedSlot(0) \in Slots
      BY <1>1, <1>2, SlotFacts
    <3>3. RingDist(capacity, WantedSlot(0), slot) \in 0 .. capacity - 1
      BY <1>2, <3>2, DistType
    <3> QED
      BY <3>1, <3>2, <3>3
  <2>2. \A u \in Slots : DispFn'[u] \in Nat
    BY <1>1, <1>8, <2>1, SlotFacts
  <2> QED
    BY <1>3, <2>2 DEF DispFn
<1> QED
  BY <1>3, <1>5, <1>6, <1>8, <1>9, <1>10 DEF n

-----------------------------------------------------------------------------
(***************************************************************************)
(* Every step keeps the inductive invariant: one lemma for each part.      *)
(***************************************************************************)

\* The steps that neither touch the table nor run hash_put or the shift
\* loop, before or after.
Quiet == /\ UNCHANGED <<keyHash, numPuts, capacity, table, numEntries, log>>
         /\ op' \notin {"put", "shift"} /\ op # "put"

\* A step reads an entry, is an iteration of a writer's loop, or is quiet.
LEMMA StepCases ==
  ASSUME Next
  PROVE  \/ \E k \in Key, v \in ValueLens : ScanPut(k, v)
         \/ \E k \in Key : ScanDelete(k)
         \/ WriterStep
         \/ Quiet
<1>1. CASE Publish
  BY <1>1 DEF Publish, Quiet, tableVars, probeVars
<1>2. CASE \E k \in Key : StartGet(k)
  BY <1>2 DEF StartGet, StartProbe, Quiet, tableVars
<1>3. CASE StartHashnext
  BY <1>3 DEF StartHashnext, Quiet, tableVars
<1>4. CASE ReaderStep
  <2>1. CASE GetMiss \/ GetFound \/ GetWalk
    BY <2>1 DEF GetMiss, GetFound, GetWalk, Return, Walk, Quiet, tableVars
  <2>2. CASE HashnextClosed \/ HashnextSkipsDelete \/ HashnextReadsPut
    BY <2>2 DEF HashnextClosed, HashnextSkipsDelete, HashnextReadsPut, Return,
                StartProbe, Quiet, tableVars, probeVars
  <2>3. CASE ProbeFound \/ ProbeMiss \/ ProbeWalk
    BY <2>3 DEF ProbeFound, ProbeMiss, ProbeWalk, Return, Walk, Quiet, tableVars
  <2> QED
    BY <1>4, <2>1, <2>2, <2>3 DEF ReaderStep
<1> QED
  BY <1>1, <1>2, <1>3, <1>4 DEF Next

\* The lookups of hash_delete.
LEMMA DeleteLooks ==
  ASSUME DeleteMiss \/ DeleteWalk
  PROVE  /\ UNCHANGED <<keyHash, capacity, table, numEntries, garbage, log>>
         /\ op' \in {"idle", "delete"} /\ op = "delete"
BY DEF DeleteMiss, DeleteWalk, Return, Walk, tableVars

\* Pointers stay valid when the log grows.
LEMMA PointersGrow ==
  ASSUME log \in Seq(Entry), keyHash' = keyHash,
         log' = log \/ \E e \in Entry : log' = Append(log, e),
         NEW h, NEW p, IsPutPointer(h, p)
  PROVE  IsPutPointer(h, p)'
<1>1. CASE log' = log
  BY <1>1 DEF IsPutPointer
<1>2. ASSUME NEW e \in Entry, log' = Append(log, e) PROVE IsPutPointer(h, p)'
  <2>1. p \in 1 .. Len(log) /\ log'[p] = log[p] /\ p \in DOMAIN log'
    BY <1>2 DEF IsPutPointer
  <2> QED
    BY <2>1 DEF IsPutPointer
<1> QED
  BY <1>1, <1>2

\* So do those of a table that is left alone.
LEMMA PointersKept ==
  ASSUME log \in Seq(Entry), PointersArePuts, keyHash' = keyHash,
         log' = log \/ \E e \in Entry : log' = Append(log, e),
         UNCHANGED <<table, capacity>>
  PROVE  \A s \in Occupied' : IsPutPointer(table[s].hash, table[s].pos)'
<1> SUFFICES ASSUME NEW s \in Occupied PROVE IsPutPointer(table[s].hash, table[s].pos)'
  BY TableUnchanged
<1> DEFINE h == table[s].hash
           p == table[s].pos
<1>1. IsPutPointer(h, p)
  BY DEF PointersArePuts
<1> HIDE DEF h, p
<1>2. IsPutPointer(h, p)'
  BY <1>1, PointersGrow DEF h, p
<1> QED
  BY <1>2 DEF h, p

\* hash_put's pointer and those of the table.
LEMMA LoopPointers == LoopInv /\ WriterStep => PointersArePuts'
<1> SUFFICES ASSUME LoopInv, WriterStep PROVE PointersArePuts'
  OBVIOUS
<1>0. LoopTypes /\ PointersArePuts /\ log \in Seq(Entry) /\ keyHash \in [Key -> Nat]
  BY KeyAssumption DEF LoopInv, LoopTypes
<1>5. ASSUME op = "put", Place, capacity' = capacity, keyHash' = keyHash, log' = log
      PROVE  \A s \in Occupied' : IsPutPointer(table[s].hash, table[s].pos)'
  <2>1. SUFFICES ASSUME NEW s \in Occupied \cup {slot}
                 PROVE  IsPutPointer(table'[s].hash, table'[s].pos)
    BY <1>5, PlaceEffect DEF IsPutPointer
  <2>2. slot \in Slots /\ Occupied \subseteq Slots /\ table \in [Slots -> [hash : Nat, pos : Nat]]
    BY <1>0, SlotFacts DEF LoopTypes
  <2>3. CASE s = slot
    BY <1>0, <1>5, <2>2, <2>3 DEF Place, PointersArePuts
  <2>4. CASE s # slot
    BY <1>0, <1>5, <2>2, <2>4 DEF Place, PointersArePuts
  <2> QED
    BY <2>3, <2>4
<1>6. CASE PutEmpty \/ PutReplace
  BY <1>5, <1>6 DEF PutEmpty, PutReplace, Return, PointersArePuts
<1>7. CASE PutSteal
  <2>1. slot \in Occupied
    BY <1>0, <1>7, SlotFacts DEF PutSteal, Occupied
  <2>2. IsPutPointer(hash, pos)'
    BY <1>0, <1>7, <2>1 DEF PutSteal, PointersArePuts, IsPutPointer
  <2> QED
    BY <1>5, <1>7, <2>2 DEF PutSteal, PointersArePuts
<1>8. CASE PutWalk
  <2>1. IsPutPointer(hash, pos)'
    BY <1>0, <1>8 DEF PutWalk, Walk, PointersArePuts, IsPutPointer, tableVars
  <2> QED
    BY <1>0, PointersKept, <1>8, <2>1 DEF PutWalk, Walk, PointersArePuts, tableVars
<1>9. CASE DeleteFound \/ DeleteMiss \/ DeleteWalk
  <2>1. op' # "put" /\ UNCHANGED <<keyHash, log, table, capacity>>
    BY <1>9, DeleteLooks DEF DeleteFound, tableVars
  <2> QED
    BY <1>0, <2>1, PointersKept DEF PointersArePuts
<1>10. CASE ShiftBack
  <2>1. /\ NextSlot(slot) \in Occupied /\ Occupied' = Occupied
        /\ (slot + 1) % capacity = NextSlot(slot) /\ Occupied \subseteq Slots
        /\ table \in [Slots -> [hash : Nat, pos : Nat]] /\ slot \in Slots
    BY <1>0, <1>10, ShiftBackEffect, SlotFacts DEF LoopTypes
  <2>2. SUFFICES ASSUME NEW s \in Occupied
                 PROVE  IsPutPointer(table'[s].hash, table'[s].pos)
    BY <1>10, <2>1 DEF ShiftBack, PointersArePuts, IsPutPointer
  <2>3. table'[s] = table[IF s = slot THEN NextSlot(slot) ELSE s]
    BY <1>10, <2>1 DEF ShiftBack
  <2> QED
    BY <1>0, <2>1, <2>3 DEF PointersArePuts
<1>11. CASE ShiftEnd
  <2>1. Occupied' = Occupied \ {slot} /\ Occupied \subseteq Slots
    BY <1>0, <1>11, ShiftEndEffect, SlotFacts
  <2>2. SUFFICES ASSUME NEW s \in Occupied \ {slot}
                 PROVE  IsPutPointer(table'[s].hash, table'[s].pos)
    BY <1>11, <2>1 DEF ShiftEnd, Return, PointersArePuts, IsPutPointer
  <2>3. table'[s] = table[s]
    BY <1>0, <1>11, <2>1 DEF ShiftEnd, LoopTypes
  <2> QED
    BY <1>0, <2>1, <2>3 DEF PointersArePuts
<1> QED
  BY <1>6, <1>7, <1>8, <1>9, <1>10, <1>11 DEF WriterStep

\* hash_put's pointer, the hash file's pointers and the log.
LEMMA PointersStep == IndInv /\ [Next]_vars => PointersArePuts'
<1> SUFFICES ASSUME IndInv, [Next]_vars PROVE PointersArePuts'
  OBVIOUS
<1>0. PointersArePuts /\ log \in Seq(Entry) /\ keyHash \in [Key -> Nat]
  BY KeyAssumption DEF IndInv, TypeOK
<1>1. ASSUME NEW k \in Key, NEW v \in ValueLens, ScanPut(k, v) PROVE PointersArePuts'
  <2> DEFINE e == [type |-> "put", key |-> k, vlen |-> v]
  <2>1. e \in Entry /\ log' = Append(log, e)
    BY <1>1 DEF Entry, PutEntries, DeleteEntries, ScanPut
  <2>2. Len(log) + 1 \in DOMAIN log' /\ log'[Len(log) + 1] = e
    BY <1>0, <2>1
  <2>3. IsPutPointer(hash, pos)'
    BY <1>1, <2>2 DEF ScanPut, StartProbe, IsPutPointer
  <2>4. \A s \in Occupied' : IsPutPointer(table[s].hash, table[s].pos)'
    BY <1>0, <1>1, <2>1, PointersKept DEF ScanPut
  <2> QED
    BY <2>3, <2>4 DEF PointersArePuts
<1>2. ASSUME NEW k \in Key, ScanDelete(k) PROVE PointersArePuts'
  <2> DEFINE e == [type |-> "delete", key |-> k, vlen |-> 0]
  <2>1. e \in Entry /\ log' = Append(log, e)
    BY <1>2 DEF Entry, PutEntries, DeleteEntries, ScanDelete
  <2>2. \A s \in Occupied' : IsPutPointer(table[s].hash, table[s].pos)'
    BY <1>0, <1>2, <2>1, PointersKept DEF ScanDelete
  <2> QED
    BY <1>2, <2>2 DEF PointersArePuts, ScanDelete, StartProbe
<1>3. CASE WriterStep
  BY <1>3, IndLoop, LoopPointers
<1>4. CASE Quiet
  BY <1>0, <1>4, PointersKept DEF Quiet, PointersArePuts
<1>5. CASE UNCHANGED vars
  <2>1. op = "put" => IsPutPointer(hash, pos)'
    BY <1>0, <1>5 DEF vars, tableVars, probeVars, PointersArePuts, IsPutPointer
  <2> QED
    BY <1>0, <1>5, <2>1, PointersKept DEF vars, tableVars, probeVars, PointersArePuts
<1> QED
  BY <1>1, <1>2, <1>3, <1>4, <1>5, StepCases

\* hash_put meets an entry: its displacement as the code computes it.
LEMMA MetEntry ==
  ASSUME LoopInv, op = "put", ~Empty(slot)
  PROVE  /\ slot \in Occupied
         /\ GetDisplacement(slot, table[slot].hash) = DispFn[slot]
         /\ DispFn[slot] \in 0 .. capacity - 1
         /\ disp \in 0 .. capacity - 1
         /\ disp = RingDist(capacity, WantedSlot(hash), slot)
         /\ WantedSlot(hash) \in Slots /\ WantedSlot(table[slot].hash) \in Slots
<1>1. LoopTypes /\ disp = RingDist(capacity, WantedSlot(hash), slot)
  BY DEF LoopInv, CarriedFits
<1>2. /\ slot \in Slots /\ Slots = 0 .. capacity - 1 /\ capacity \in Nat \ {0}
      /\ table[slot] \in [hash : Nat, pos : Nat] /\ hash \in Nat
  BY <1>1, SlotFacts DEF LoopTypes
<1>3. WantedSlot(hash) \in Slots /\ WantedSlot(table[slot].hash) \in Slots
  BY <1>1, <1>2, SlotFacts
<1>4. RingDist(capacity, WantedSlot(hash), slot) \in 0 .. capacity - 1
  BY <1>2, <1>3, DistType
<1>5. GetDisplacement(slot, table[slot].hash) = DispFn[slot] /\ DispFn[slot] \in 0 .. capacity - 1
  BY <1>1, <1>2, SlotFacts
<1> QED
  BY <1>1, <1>2, <1>3, <1>4, <1>5 DEF Occupied

\* The robin hood order, the carried entry and the hole, provided that
\* hash_put does not come back to the slot it started from.
LEMMA LoopOrder ==
  ASSUME LoopInv, WriterStep, PutWalk => disp # capacity - 1
  PROVE  OrderInv' /\ CarriedFits' /\ HoleInv'
<1>0. /\ LoopTypes /\ OrderInv /\ HoleInv
      /\ capacity \in Nat \ {0} /\ Slots = 0 .. capacity - 1 /\ slot \in Slots
      /\ Occupied \in SUBSET Slots /\ DispFn \in [Slots -> Nat]
      /\ NextSlot(slot) \in Slots /\ NextSlot(slot) = RingNext(capacity, slot)
  BY SlotFacts DEF LoopInv
<1>1. ASSUME UNCHANGED <<table, capacity>> PROVE OrderInv'
  BY <1>0, <1>1, TableUnchanged DEF OrderInv
<1>2. ASSUME op = "put", Place, capacity' = capacity, disp \in Nat,
             slot \in Occupied => DispFn[slot] <= disp
      PROVE  Ordered(capacity, Occupied \cup {slot}, DispFn')
  <2>1. Fits(capacity, Occupied, DispFn, slot, disp)
    BY <1>2 DEF LoopInv, CarriedFits
  <2>2. /\ DispFn' \in [Slots -> Nat]
        /\ \A u \in Slots : DispFn'[u] = IF u = slot THEN disp ELSE DispFn[u]
    BY <1>2, PlaceEffect
  <2> QED
    BY <1>0, <1>2, <2>1, <2>2, PlaceKeepsOrder DEF OrderInv
<1>5. CASE PutEmpty
  <2>1. slot \notin Occupied /\ disp \in Nat
    BY <1>0, <1>5 DEF PutEmpty, Occupied, LoopTypes
  <2>2. OrderInv'
    BY <1>2, <1>5, <2>1, PlaceEffect DEF PutEmpty, OrderInv
  <2> QED
    BY <1>5, <2>2 DEF PutEmpty, Return, CarriedFits, HoleInv
<1>6. CASE PutReplace
  <2>1. slot \in Occupied /\ disp \in Nat
    BY <1>0, <1>6, MetEntry DEF PutReplace, LoopTypes
  <2>2. DispFn[slot] = disp
    <3>1. table[slot].hash = hash
      BY <1>6 DEF PutReplace, Matches
    <3> QED
      BY <1>0, <1>6, <3>1, SlotFacts, MetEntry DEF PutReplace
  <2>3. OrderInv'
    <3>1. op = "put" /\ Place /\ capacity' = capacity
      BY <1>6 DEF PutReplace
    <3>2. Occupied' = Occupied \cup {slot}
      BY <3>1, PlaceEffect
    <3>3. DispFn[slot] <= disp
      BY <2>1, <2>2
    <3>4. Ordered(capacity, Occupied', DispFn')
      BY <1>2, <2>1, <3>1, <3>2, <3>3
    <3> QED
      BY <3>1, <3>4 DEF OrderInv
  <2> QED
    BY <1>6, <2>3 DEF PutReplace, Return, CarriedFits, HoleInv
<1>7. CASE PutSteal
  <2> DEFINE o == DispFn[slot]
  <2>1. /\ slot \in Occupied /\ o \in 0 .. capacity - 1 /\ disp \in 0 .. capacity - 1
        /\ o < disp /\ disp' = o + 1 /\ slot' = NextSlot(slot)
        /\ hash' = table[slot].hash /\ WantedSlot(table[slot].hash) \in Slots
        /\ capacity' = capacity /\ op = "put" /\ Place
    BY <1>7, MetEntry DEF PutSteal
  <2>2. /\ Occupied' = Occupied /\ DispFn' \in [Slots -> Nat]
        /\ \A u \in Slots : DispFn'[u] = IF u = slot THEN disp ELSE DispFn[u]
    BY <2>1, PlaceEffect
  <2> HIDE DEF o
  <2>3. OrderInv'
    <3>1. disp \in Nat /\ DispFn[slot] <= disp
      BY <2>1, <1>0 DEF o
    <3>2. Occupied' = Occupied \cup {slot}
      BY <2>1, PlaceEffect
    <3>3. Ordered(capacity, Occupied', DispFn')
      BY <1>2, <2>1, <3>1, <3>2
    <3> QED
      BY <2>1, <3>3 DEF OrderInv
  <2>4. Fits(capacity, Occupied, DispFn', slot, o)
    <3> SUFFICES ASSUME NEW u \in 0 .. capacity - 1, RingDist(capacity, u, slot) \in 1 .. o
                 PROVE  u \in Occupied /\ DispFn'[u] >= o - RingDist(capacity, u, slot)
      BY DEF Fits
    <3>1. u # slot
      BY <1>0, DistType
    <3>2. u \in Occupied /\ DispFn[u] >= o - RingDist(capacity, u, slot)
      BY <1>0, <2>1 DEF OrderInv, Ordered, o
    <3> QED
      BY <1>0, <2>2, <3>1, <3>2
  <2>5. Fits(capacity, Occupied, DispFn', slot', o + 1)
    <3>1. DispFn'[slot] >= o
      BY <1>0, <2>1, <2>2
    <3>2. /\ capacity \in Nat \ {0} /\ Occupied \in SUBSET (0 .. capacity - 1)
          /\ DispFn' \in [0 .. capacity - 1 -> Nat]
          /\ slot \in Occupied /\ slot' \in 0 .. capacity - 1
          /\ slot' = RingNext(capacity, slot) /\ o \in Nat
      BY SMTT(40), <1>0, <2>1, <2>2
    <3> QED
      BY <2>4, <3>1, <3>2, FitsNext
  <2>6. disp' = RingDist(capacity, WantedSlot(hash'), slot')
    <3> DEFINE w == WantedSlot(table[slot].hash)
    <3>1. RingDist(capacity, w, slot) = o
      BY <1>0, SlotFacts DEF o
    <3> HIDE DEF w
    <3>2. w # slot'
      <4>1. RingDist(capacity, slot', slot) = capacity - 1
        BY <1>0, <2>1 DEF RingDist, RingNext
      <4> QED
        BY <1>0, <2>1, <3>1, <4>1
    <3>3. RingDist(capacity, w, slot') = o + 1
      BY <1>0, <2>1, <3>1, <3>2, DistToNext DEF w
    <3> QED
      BY <2>1, <3>3 DEF w
  <2>7. CarriedFits'
    <3>1. WantedSlot(hash)' = WantedSlot(hash')
      BY <2>1 DEF WantedSlot
    <3> QED
      BY <2>1, <2>2, <2>5, <2>6, <3>1 DEF CarriedFits
  <2> QED
    BY <1>7, <2>3, <2>7 DEF PutSteal, HoleInv
<1>8. CASE PutWalk
  <2>1. /\ slot \in Occupied /\ disp \in 0 .. capacity - 1 /\ DispFn[slot] >= disp
        /\ disp = RingDist(capacity, WantedSlot(hash), slot)
        /\ WantedSlot(hash) \in Slots
        /\ disp' = disp + 1 /\ slot' = NextSlot(slot) /\ hash' = hash
        /\ UNCHANGED <<table, capacity>> /\ op = "put"
        /\ Fits(capacity, Occupied, DispFn, slot, disp)
    BY <1>0, <1>8, MetEntry DEF PutWalk, Walk, tableVars, LoopInv, CarriedFits
  <2>2. disp # capacity - 1
    BY <1>8
  <2>3. Fits(capacity, Occupied, DispFn, slot', disp')
    <3>1. /\ capacity \in Nat \ {0} /\ Occupied \in SUBSET (0 .. capacity - 1)
          /\ DispFn \in [0 .. capacity - 1 -> Nat]
          /\ slot \in Occupied /\ slot' \in 0 .. capacity - 1
          /\ slot' = RingNext(capacity, slot) /\ disp \in Nat
          /\ Fits(capacity, Occupied, DispFn, slot, disp) /\ DispFn[slot] >= disp
      BY SMTT(40), <1>0, <2>1
    <3>2. Fits(capacity, Occupied, DispFn, slot', disp + 1)
      BY <3>1, FitsNext
    <3> QED
      BY <2>1, <3>2
  <2>4. disp' = RingDist(capacity, WantedSlot(hash), slot')
    <3>1. WantedSlot(hash) # slot'
      <4>1. RingDist(capacity, slot', slot) = capacity - 1
        BY <1>0, <2>1 DEF RingDist, RingNext
      <4> QED
        BY <2>1, <2>2, <4>1
    <3> QED
      BY <1>0, <2>1, <3>1, DistToNext
  <2>5. CarriedFits'
    <3>1. WantedSlot(hash)' = WantedSlot(hash)
      BY <2>1 DEF WantedSlot
    <3> QED
      BY <2>1, <2>3, <2>4, <3>1, TableUnchanged DEF CarriedFits
  <2> QED
    BY <1>1, <1>8, <2>1, <2>5 DEF PutWalk, Walk, HoleInv
<1>4. CASE DeleteMiss \/ DeleteWalk
  BY <1>1, <1>4, DeleteLooks DEF CarriedFits, HoleInv
<1>9. CASE DeleteFound
  <2>1. slot \in Occupied /\ UNCHANGED <<table, capacity, slot, log>> /\ op' = "shift"
        /\ pos' = table[slot].pos
    BY <1>0, <1>9 DEF DeleteFound, Occupied, tableVars
  <2>2. table[slot].pos \in DOMAIN log
    BY <2>1 DEF LoopInv, PointersArePuts, IsPutPointer
  <2> QED
    BY <1>1, <2>1, <2>2, TableUnchanged DEF CarriedFits, HoleInv
<1>10. CASE ShiftBack
  <2> DEFINE n == NextSlot(slot)
  <2>1. /\ Occupied' = Occupied /\ slot' = n /\ DispFn' \in [Slots -> Nat]
        /\ n \in Occupied /\ DispFn[n] \in 1 .. capacity - 1
        /\ DispFn[n] = DispFn'[slot] + 1
        /\ \A u \in Slots : u # slot => DispFn'[u] = DispFn[u]
    BY <1>10, ShiftBackEffect
  <2>2. slot \in Occupied /\ pos \in DOMAIN log /\ UNCHANGED <<op, pos, log, capacity>>
        /\ op = "shift"
    BY <1>0, <1>10 DEF HoleInv, ShiftBack
  <2>3. Ordered(capacity, Occupied, DispFn')
    <3>1. n = RingNext(capacity, slot)
      BY <1>0
    <3> HIDE DEF n
    <3>2. /\ capacity \in Nat \ {0} /\ Occupied \in SUBSET (0 .. capacity - 1)
          /\ DispFn \in [0 .. capacity - 1 -> Nat]
          /\ DispFn' \in [0 .. capacity - 1 -> Nat]
          /\ slot \in Occupied /\ n \in Occupied /\ n = RingNext(capacity, slot)
          /\ DispFn[n] \in 1 .. capacity - 1
          /\ Ordered(capacity, Occupied, DispFn)
          /\ DispFn[n] = DispFn'[slot] + 1
          /\ \A u \in 0 .. capacity - 1 : u # slot => DispFn'[u] = DispFn[u]
      BY <1>0, <2>1, <2>2, <3>1 DEF OrderInv
    <3> DEFINE D == DispFn
               E == DispFn'
               O == Occupied
    <3> HIDE DEF D, E, O
    <3>3. /\ O \in SUBSET (0 .. capacity - 1) /\ slot \in O /\ n \in O
          /\ D \in [0 .. capacity - 1 -> Nat] /\ E \in [0 .. capacity - 1 -> Nat]
          /\ D[n] \in 1 .. capacity - 1 /\ Ordered(capacity, O, D)
          /\ D[n] = E[slot] + 1
          /\ \A u \in 0 .. capacity - 1 : u # slot => E[u] = D[u]
      BY <3>2 DEF D, E, O
    <3>4. Ordered(capacity, O, E)
      BY ZenonT(60), <1>0, <3>1, <3>3, ShiftKeepsOrder
    <3> QED
      BY <3>4 DEF E, O
  <2> QED
    BY <2>1, <2>2, <2>3 DEF OrderInv, CarriedFits, HoleInv
<1>11. CASE ShiftEnd
  <2> DEFINE n == NextSlot(slot)
  <2>1. /\ Occupied' = Occupied \ {slot} /\ DispFn' \in [Slots -> Nat]
        /\ n \notin Occupied \/ DispFn[n] = 0
        /\ \A u \in Slots : u # slot => DispFn'[u] = DispFn[u]
    BY <1>11, ShiftEndEffect
  <2>2. slot \in Occupied /\ capacity' = capacity /\ op' = "idle"
    BY <1>0, <1>11 DEF HoleInv, ShiftEnd, Return
  <2>3. Ordered(capacity, Occupied \ {slot}, DispFn')
    <3>1. n = RingNext(capacity, slot) /\ n \in 0 .. capacity - 1
      BY <1>0
    <3> HIDE DEF n
    <3> QED
      BY <1>0, <2>1, <2>2, <3>1, ClearKeepsOrder DEF OrderInv
  <2> QED
    BY <2>1, <2>2, <2>3 DEF OrderInv, CarriedFits, HoleInv
<1> QED
  BY <1>4, <1>5, <1>6, <1>7, <1>8, <1>9, <1>10, <1>11 DEF WriterStep

\* A probe of hash_put that comes to the slot before the one it started
\* from has seen every slot taken.
LEMMA RoundFull ==
  ASSUME LoopInv, PutWalk, disp = capacity - 1
  PROVE  Occupied = Slots
<1>0. /\ capacity \in Nat \ {0} /\ Slots = 0 .. capacity - 1 /\ slot \in Slots
      /\ slot \in Occupied /\ Occupied \in SUBSET Slots
      /\ Fits(capacity, Occupied, DispFn, slot, disp)
  BY SlotFacts, MetEntry DEF LoopInv, CarriedFits, PutWalk
<1> SUFFICES ASSUME NEW u \in Slots, u # slot PROVE u \in Occupied
  BY <1>0
<1>1. RingDist(capacity, u, slot) \in 1 .. disp
  <2>1. /\ RingDist(capacity, u, slot) \in 0 .. capacity - 1
        /\ RingDist(capacity, u, slot) # 0
    BY ZenonT(60), <1>0, DistType
  <2> QED
    BY <1>0, <2>1
<1> QED
  BY <1>0, <1>1 DEF Fits

\* CountInv keeps hash_put from going round.
LEMMA CountedRoom ==
  ASSUME IndInv, PutWalk
  PROVE  disp # capacity - 1
<1>1. TypeOK /\ LoopTypes /\ LoopInv /\ op = "put"
  BY IndLoop, TypeLoop DEF IndInv, PutWalk
<1>2. /\ Cardinality(Occupied) < Scanned("put") /\ Scanned("put") <= numPuts
      /\ Scanned("put") \in Nat
  BY <1>1 DEF IndInv, CountInv
<1>3. /\ numPuts \in Nat /\ capacity >= numPuts /\ Cardinality(Occupied) \in Nat
      /\ capacity \in Nat
  BY <1>1, CapacityFacts, OccupiedFinite
<1>4. Cardinality(Occupied) < capacity
  BY <1>2, <1>3
<1> QED
  BY <1>1, <1>4, OccupiedFinite, RoundFull

\* A probe that starts at its wanted slot has passed nothing.
LEMMA CarriedStarts ==
  ASSUME LoopTypes, NEW o, NEW k, NEW h \in Nat, NEW p, NEW f, StartProbe(o, k, h, p, f),
         UNCHANGED <<table, capacity>>
  PROVE  /\ slot' \in Slots' /\ disp' \in 0 .. capacity' /\ hash' \in Nat
         /\ CarriedFits'
<1>1. /\ disp' = 0 /\ hash' = h /\ slot' = WantedSlot(h) /\ WantedSlot(hash)' = slot'
      /\ capacity \in Nat \ {0} /\ Slots = 0 .. capacity - 1 /\ slot' \in Slots
  BY SlotFacts DEF StartProbe, WantedSlot
<1>2. RingDist(capacity, slot', slot') = 0
  BY <1>1, DistType
<1>3. Fits(capacity, Occupied, DispFn, slot', 0)
  BY DEF Fits
<1> QED
  BY <1>1, <1>2, <1>3, TableUnchanged DEF CarriedFits

\* The robin hood order, the carried entry and the hole.
LEMMA OrderStep == IndInv /\ [Next]_vars => OrderInv' /\ CarriedFits' /\ HoleInv'
<1> SUFFICES ASSUME IndInv, [Next]_vars PROVE OrderInv' /\ CarriedFits' /\ HoleInv'
  OBVIOUS
<1>0. /\ TypeOK /\ LoopTypes /\ OrderInv
      /\ capacity \in Nat \ {0} /\ Slots = 0 .. capacity - 1
  BY TypeLoop, SlotFacts DEF IndInv
<1>1. ASSUME UNCHANGED <<table, capacity>> PROVE OrderInv'
  BY <1>0, <1>1, TableUnchanged DEF OrderInv
<1>3. CASE \E k \in Key, v \in ValueLens : ScanPut(k, v)
  <2>1. PICK k \in Key, v \in ValueLens : ScanPut(k, v)
    BY <1>3
  <2>2. /\ UNCHANGED <<table, capacity>> /\ op' = "put" /\ keyHash[k] \in Nat
        /\ StartProbe("put", k, keyHash[k], Len(log) + 1, TRUE)
    BY SMTT(40), <1>0, <2>1, KeyAssumption DEF ScanPut, StartProbe, TypeOK
  <2> QED
    BY <1>0, <1>1, <2>2, CarriedStarts DEF HoleInv
<1>4. CASE \E k \in Key : ScanDelete(k)
  BY <1>1, <1>4 DEF ScanDelete, StartProbe, CarriedFits, HoleInv
<1>5. CASE WriterStep
  BY <1>5, IndLoop, LoopOrder, CountedRoom
<1>6. CASE Quiet
  BY <1>1, <1>6 DEF Quiet, CarriedFits, HoleInv
<1>7. CASE UNCHANGED vars
  <2>1. /\ UNCHANGED <<table, capacity, op, slot, disp, hash, pos, log>>
        /\ WantedSlot(hash)' = WantedSlot(hash)
    BY <1>7 DEF vars, tableVars, probeVars, WantedSlot
  <2>2. CarriedFits' /\ HoleInv'
    BY <2>1, TableUnchanged DEF IndInv, CarriedFits, HoleInv
  <2> QED
    BY <1>1, <2>1, <2>2
<1> QED
  BY <1>3, <1>4, <1>5, <1>6, <1>7, StepCases

\* The loops of hash_put and hash_delete change the table and their own
\* variables only.
LEMMA WriterKeeps ==
  ASSUME WriterStep
  PROVE  UNCHANGED <<keyHash, numPuts, capacity, log, readVars>>
BY DEF WriterStep, PutEmpty, PutReplace, PutSteal, PutWalk, DeleteMiss, DeleteFound,
       DeleteWalk, ShiftBack, ShiftEnd, tableVars

\* num_entries counts the taken slots through every iteration.
LEMMA LoopCount ==
  ASSUME LoopInv, WriterStep
  PROVE  numEntries' \in Nat /\ numEntries' = Cardinality(Occupied')
<1>0. /\ LoopTypes /\ numEntries = Cardinality(Occupied) /\ numEntries \in Nat
      /\ IsFiniteSet(Occupied) /\ slot \in Slots
  BY SlotFacts, OccupiedFinite DEF LoopInv, LoopTypes
<1>1. CASE PutEmpty
  <2>1. slot \notin Occupied /\ Occupied' = Occupied \cup {slot}
    BY <1>0, <1>1, PlaceEffect DEF PutEmpty, Occupied
  <2>2. Cardinality(Occupied') = Cardinality(Occupied) + 1
    BY <1>0, <2>1, FS_AddElement
  <2> QED
    BY <1>0, <1>1, <2>2 DEF PutEmpty
<1>2. CASE PutReplace \/ PutSteal
  <2>1. Occupied' = Occupied
    BY <1>0, <1>2, MetEntry, PlaceEffect DEF PutReplace, PutSteal
  <2> QED
    BY <1>0, <1>2, <2>1 DEF PutReplace, PutSteal
<1>3. CASE PutWalk \/ DeleteFound
  BY <1>0, <1>3, TableUnchanged DEF PutWalk, DeleteFound, tableVars
<1>4. CASE DeleteMiss \/ DeleteWalk
  BY <1>0, <1>4, TableUnchanged DEF DeleteMiss, DeleteWalk, tableVars
<1>5. CASE ShiftBack
  BY <1>0, <1>5, ShiftBackEffect DEF ShiftBack
<1>6. CASE ShiftEnd
  <2>1. slot \in Occupied /\ Occupied' = Occupied \ {slot}
    BY <1>0, <1>6, ShiftEndEffect DEF LoopInv, HoleInv, ShiftEnd
  <2>2. Cardinality(Occupied') = Cardinality(Occupied) - 1 /\ Cardinality(Occupied) # 0
    BY <1>0, <2>1, FS_RemoveElement, FS_EmptySet
  <2> QED
    BY <1>0, <1>6, <2>2 DEF ShiftEnd
<1> QED
  BY <1>1, <1>2, <1>3, <1>4, <1>5, <1>6 DEF WriterStep

\* num_entries, and the PUT entries that pay for the taken slots.
LEMMA CountStep == IndInv /\ [Next]_vars => CountInv'
<1> SUFFICES ASSUME IndInv, [Next]_vars PROVE CountInv'
  OBVIOUS
<1>0. /\ TypeOK /\ LoopInv /\ LoopTypes /\ CountInv /\ numPuts \in Nat /\ Scanned("put") \in Nat
      /\ IsFiniteSet(Occupied) /\ Cardinality(Occupied) \in Nat
      /\ numEntries \in Nat /\ slot \in Slots
  BY IndLoop, TypeLoop, CapacityFacts, SlotFacts, OccupiedFinite DEF IndInv, CountInv, TypeOK
<1>1. ASSUME log' = log PROVE Scanned("put")' = Scanned("put")
  BY <1>1 DEF Scanned
<1>2. CASE \E k \in Key, v \in ValueLens : ScanPut(k, v)
  <2>1. PICK k \in Key, v \in ValueLens : ScanPut(k, v)
    BY <1>2
  <2> DEFINE e == [type |-> "put", key |-> k, vlen |-> v]
  <2>2. e \in Entry /\ log' = Append(log, e)
    BY <2>1 DEF Entry, PutEntries, DeleteEntries, ScanPut
  <2>3. Scanned("put")' = Scanned("put") + 1
    BY <1>0, <2>2, ScannedAppend
  <2>4. /\ op = "idle" /\ op' = "put" /\ Scanned("put") < numPuts
        /\ UNCHANGED <<table, capacity, numEntries, numPuts>>
    BY <2>1 DEF ScanPut, StartProbe
  <2> QED
    BY <1>0, <2>3, <2>4, TableUnchanged DEF CountInv
<1>3. CASE \E k \in Key : ScanDelete(k)
  <2>1. PICK k \in Key : ScanDelete(k)
    BY <1>3
  <2> DEFINE e == [type |-> "delete", key |-> k, vlen |-> 0]
  <2>2. e \in Entry /\ log' = Append(log, e)
    BY <2>1 DEF Entry, PutEntries, DeleteEntries, ScanDelete
  <2>3. Scanned("put")' = Scanned("put")
    BY <1>0, <2>2, ScannedAppend
  <2>4. /\ op = "idle" /\ op' = "delete"
        /\ UNCHANGED <<table, capacity, numEntries, numPuts>>
    BY <2>1 DEF ScanDelete, StartProbe
  <2> QED
    BY <1>0, <2>3, <2>4, TableUnchanged DEF CountInv
<1>4. CASE WriterStep
  <2>1. /\ numEntries' = Cardinality(Occupied') /\ Scanned("put")' = Scanned("put")
        /\ numPuts' = numPuts
    BY <1>0, <1>1, <1>4, LoopCount, WriterKeeps
  <2>2. IF op' = "put" THEN numEntries' < Scanned("put") ELSE numEntries' <= Scanned("put")
    <3>1. CASE PutEmpty
      BY <1>0, <3>1 DEF PutEmpty, Return, CountInv
    <3>2. CASE PutReplace \/ PutSteal \/ PutWalk
      BY <1>0, <3>2 DEF PutReplace, PutSteal, PutWalk, Walk, Return, tableVars, CountInv
    <3>3. CASE DeleteMiss \/ DeleteFound \/ DeleteWalk
      BY <1>0, <3>3 DEF DeleteMiss, DeleteFound, DeleteWalk, Walk, Return, tableVars, CountInv
    <3>4. CASE ShiftBack \/ ShiftEnd
      BY <1>0, <3>4 DEF ShiftBack, ShiftEnd, Return, CountInv
    <3> QED
      BY <1>4, <3>1, <3>2, <3>3, <3>4 DEF WriterStep
  <2> QED
    BY <1>0, <2>1, <2>2 DEF CountInv
<1>9. CASE Quiet
  BY <1>0, <1>1, <1>9, TableUnchanged DEF Quiet, CountInv
<1>10. CASE UNCHANGED vars
  BY <1>0, <1>1, <1>10, TableUnchanged DEF vars, tableVars, probeVars, CountInv
<1> QED
  BY <1>2, <1>3, <1>4, <1>9, <1>10, StepCases

\* The loops keep their types.
LEMMA LoopTypesStep ==
  ASSUME LoopInv, WriterStep
  PROVE  LoopTypes'
<1>0. /\ LoopTypes /\ capacity \in Nat \ {0} /\ Slots = 0 .. capacity - 1
      /\ slot \in Slots /\ 0 \in Slots /\ 0 \in 0 .. capacity
      /\ NextSlot(slot) \in Slots /\ (slot + 1) % capacity = NextSlot(slot)
      /\ table[slot] \in [hash : Nat, pos : Nat]
      /\ GetDisplacement(slot, table[slot].hash) \in 0 .. capacity - 1
      /\ log \in Seq(Entry) /\ garbage \in Nat
  <2>1. LoopTypes
    BY DEF LoopInv
  <2>2. /\ capacity \in Nat \ {0} /\ Slots = 0 .. capacity - 1 /\ slot \in Slots
        /\ NextSlot(slot) \in Slots /\ (slot + 1) % capacity = NextSlot(slot)
        /\ table[slot] \in [hash : Nat, pos : Nat]
    BY <2>1, SlotFacts
  <2>3. 0 \in Slots /\ 0 \in 0 .. capacity
    BY <2>2
  <2>4. GetDisplacement(slot, table[slot].hash) \in 0 .. capacity - 1
    <3>1. /\ GetDisplacement(slot, table[slot].hash) = DispFn[slot]
          /\ DispFn[slot] \in 0 .. capacity - 1
      BY <2>1, <2>2, SlotFacts
    <3> QED
      BY <3>1
  <2> QED
    BY <2>1, <2>2, <2>3, <2>4 DEF LoopTypes
<1>1. keyHash' = keyHash /\ capacity' = capacity /\ log' = log /\ Slots' = Slots
  BY WriterKeeps DEF Slots
<1>2. ASSUME Return
      PROVE  /\ op' \in Ops /\ key' \in Key \cup {NoKey} /\ slot' \in Slots'
             /\ disp' \in 0 .. capacity' /\ hash' \in Nat /\ pos' \in Nat
             /\ fresh' \in BOOLEAN
  BY <1>0, <1>1, <1>2 DEF Return, Ops
<1>5. \A p \in DOMAIN log : EntrySize(log[p]) \in Nat
  <2>1. \A p \in DOMAIN log : log[p] \in Entry
    BY <1>0
  <2> QED
    BY <2>1, EntrySizeType
<1>6. numEntries' \in Nat
  BY LoopCount
<1>8. CASE PutEmpty
  BY <1>0, <1>1, <1>2, <1>6, <1>8, PlaceEffect DEF PutEmpty, LoopTypes
<1>9. CASE PutReplace
  <2>1. table[slot].pos \in DOMAIN log
    BY <1>0, <1>9, MetEntry DEF PutReplace, LoopInv, PointersArePuts, IsPutPointer
  <2>2. garbage' \in Nat
    <3>1. garbage' = garbage + EntrySize(log[table[slot].pos])
      BY <1>9 DEF PutReplace
    <3> QED
      BY <1>0, <1>5, <2>1, <3>1
  <2> QED
    BY <1>0, <1>1, <1>2, <1>6, <1>9, <2>2, PlaceEffect DEF PutReplace, LoopTypes
<1>10. CASE PutSteal
  <2>1. disp' \in 0 .. capacity'
    BY <1>0, <1>10 DEF PutSteal
  <2>2. hash' \in Nat /\ pos' \in Nat
    BY <1>0, <1>10 DEF PutSteal
  <2> QED
    BY <1>0, <1>1, <1>6, <1>10, <2>1, <2>2, PlaceEffect DEF PutSteal, LoopTypes
<1>11. CASE PutWalk \/ DeleteWalk
  <2>1. Walk /\ disp <= GetDisplacement(slot, table[slot].hash)
    BY <1>11 DEF PutWalk, DeleteWalk
  <2>2. disp + 1 \in 0 .. capacity
    BY SMTT(40), <1>0, <2>1 DEF LoopTypes
  <2> QED
    BY <1>0, <1>1, <1>11, <2>1, <2>2 DEF Walk, PutWalk, DeleteWalk, tableVars, LoopTypes
<1>12. CASE DeleteMiss
  BY <1>0, <1>1, <1>2, <1>12 DEF DeleteMiss, tableVars, LoopTypes
<1>13. CASE DeleteFound
  <2>1. "shift" \in Ops /\ pos' \in Nat
    BY <1>0, <1>13 DEF DeleteFound, Ops
  <2> QED
    BY <1>0, <1>1, <1>13, <2>1 DEF DeleteFound, tableVars, LoopTypes
<1>14. CASE ShiftBack
  BY <1>0, <1>1, <1>14, ShiftBackEffect DEF ShiftBack, LoopTypes
<1>15. CASE ShiftEnd
  <2>1. garbage' \in Nat
    <3>1. garbage' = garbage + EntrySize(log[pos]) /\ pos \in DOMAIN log
      BY <1>15 DEF ShiftEnd, LoopInv, HoleInv
    <3> QED
      BY <1>0, <1>5, <3>1
  <2> QED
    BY <1>0, <1>1, <1>2, <1>6, <1>15, <2>1, ShiftEndEffect DEF ShiftEnd, LoopTypes
<1> QED
  BY <1>8, <1>9, <1>10, <1>11, <1>12, <1>13, <1>14, <1>15 DEF WriterStep

\* The types.
LEMMA TypeStep == IndInv /\ [Next]_vars => TypeOK'
<1> SUFFICES ASSUME IndInv, [Next]_vars PROVE TypeOK'
  OBVIOUS
<1>0. /\ TypeOK /\ LoopTypes /\ LoopInv /\ capacity \in Nat \ {0} /\ Slots = 0 .. capacity - 1
      /\ slot \in Slots /\ 0 \in Slots /\ 0 \in 0 .. capacity
      /\ NextSlot(slot) \in Slots /\ (slot + 1) % capacity = NextSlot(slot)
      /\ table[slot] \in [hash : Nat, pos : Nat]
      /\ GetDisplacement(slot, table[slot].hash) \in 0 .. capacity - 1
      /\ keyHash \in [Key -> Nat]
      /\ log \in Seq(Entry) /\ garbage \in Nat /\ iterPos \in Nat
  <2>1. TypeOK /\ LoopTypes
    BY TypeLoop DEF IndInv
  <2>2. /\ capacity \in Nat \ {0} /\ Slots = 0 .. capacity - 1 /\ slot \in Slots
        /\ NextSlot(slot) \in Slots /\ (slot + 1) % capacity = NextSlot(slot)
        /\ table[slot] \in [hash : Nat, pos : Nat]
    BY <2>1, SlotFacts
  <2>3. 0 \in Slots /\ 0 \in 0 .. capacity
    BY <2>2
  <2>4. GetDisplacement(slot, table[slot].hash) \in 0 .. capacity - 1
    <3>1. /\ GetDisplacement(slot, table[slot].hash) = DispFn[slot]
          /\ DispFn[slot] \in 0 .. capacity - 1
      BY <2>1, <2>2, SlotFacts
    <3> QED
      BY <3>1
  <2>5. keyHash \in [Key -> Nat]
    BY <2>1, KeyAssumption DEF TypeOK
  <2>6. log \in Seq(Entry) /\ garbage \in Nat /\ iterPos \in Nat
    BY <2>1 DEF TypeOK
  <2> QED
    BY <2>1, <2>2, <2>3, <2>4, <2>5, <2>6, IndLoop
<1>1. ASSUME UNCHANGED <<numPuts, capacity>> PROVE Slots' = Slots
  BY <1>1 DEF Slots
<1>2. ASSUME Return, UNCHANGED <<numPuts, capacity>>
      PROVE  /\ op' \in Ops /\ key' \in Key \cup {NoKey} /\ slot' \in Slots'
             /\ disp' \in 0 .. capacity' /\ hash' \in Nat /\ pos' \in Nat
             /\ fresh' \in BOOLEAN
  BY <1>0, <1>1, <1>2 DEF Return, Ops
<1>3. ASSUME Walk, UNCHANGED <<numPuts, capacity>>,
             disp <= GetDisplacement(slot, table[slot].hash)
      PROVE  /\ op' \in Ops /\ key' \in Key \cup {NoKey} /\ slot' \in Slots'
             /\ disp' \in 0 .. capacity' /\ hash' \in Nat /\ pos' \in Nat
             /\ fresh' \in BOOLEAN
  <2>1. disp + 1 \in 0 .. capacity
    BY SMTT(40), <1>0, <1>3 DEF TypeOK
  <2> QED
    BY <1>0, <1>1, <1>3, <2>1 DEF Walk, TypeOK
<1>4. ASSUME NEW o \in Ops, NEW k \in Key, NEW p \in Nat,
             StartProbe(o, k, keyHash[k], p, TRUE), UNCHANGED <<numPuts, capacity>>
      PROVE  /\ op' \in Ops /\ key' \in Key \cup {NoKey} /\ slot' \in Slots'
             /\ disp' \in 0 .. capacity' /\ hash' \in Nat /\ pos' \in Nat
             /\ fresh' \in BOOLEAN
  <2>1. keyHash[k] \in Nat /\ WantedSlot(keyHash[k]) \in Slots
    BY <1>0, SlotFacts
  <2> QED
    BY <1>0, <1>1, <1>4, <2>1 DEF StartProbe
<1>5. \A p \in DOMAIN log : log[p] \in Entry /\ EntrySize(log[p]) \in Nat
  <2>1. \A p \in DOMAIN log : log[p] \in Entry
    BY <1>0
  <2> QED
    BY <2>1, EntrySizeType
<1>6. CASE \E k \in Key, v \in ValueLens : ScanPut(k, v)
  <2>1. PICK k \in Key, v \in ValueLens : ScanPut(k, v)
    BY <1>6
  <2>2. log' \in Seq(Entry)
    <3>1. [type |-> "put", key |-> k, vlen |-> v] \in Entry
      BY DEF Entry, PutEntries, DeleteEntries
    <3> QED
      BY <1>0, <2>1, <3>1 DEF ScanPut, TypeOK
  <2>3. "put" \in Ops /\ Len(log) + 1 \in Nat
    BY <1>0 DEF Ops, TypeOK
  <2> QED
    BY <1>0, <1>1, <1>4, <2>1, <2>2, <2>3 DEF ScanPut, readVars, TypeOK
<1>7. CASE \E k \in Key : ScanDelete(k)
  <2>1. PICK k \in Key : ScanDelete(k)
    BY <1>7
  <2> DEFINE e == [type |-> "delete", key |-> k, vlen |-> 0]
  <2>2. e \in Entry
    BY DEF Entry, PutEntries, DeleteEntries
  <2>3. log' \in Seq(Entry) /\ garbage' \in Nat
    <3>1. log' = Append(log, e) /\ garbage' = garbage + EntrySize(e)
      BY <2>1 DEF ScanDelete
    <3>2. EntrySize(e) \in Nat
      BY <2>2, EntrySizeType
    <3> HIDE DEF e
    <3> QED
      BY <1>0, <2>2, <3>1, <3>2
  <2>4. "delete" \in Ops
    BY DEF Ops
  <2> QED
    BY <1>0, <1>1, <1>4, <2>1, <2>3, <2>4 DEF ScanDelete, readVars, TypeOK
<1>8. CASE WriterStep
  BY <1>0, <1>8, LoopTypesStep, WriterKeeps DEF readVars, LoopTypes, TypeOK
<1>11. CASE GetWalk \/ ProbeWalk
  BY <1>0, <1>1, <1>3, <1>11 DEF GetWalk, ProbeWalk, tableVars, readVars, TypeOK
<1>16. CASE Publish
  <2>1. HashCollisions \in Nat
    <3> DEFINE S == {s \in Slots \ {0} :
                       s - 1 \in Occupied /\ table[s - 1].hash = table[s].hash}
    <3>1. IsFiniteSet(Slots)
      <4>1. 0 \in Int /\ capacity - 1 \in Int
        BY <1>0
      <4> QED
        BY <1>0, <4>1, FS_Interval, Zenon
    <3>2. Cardinality(S) \in Nat
      BY <3>1, FS_Subset, FS_CardinalityType
    <3> HIDE DEF S
    <3>3. HashCollisions = Cardinality(S) + IF /\ {0, capacity - 1} \subseteq Occupied
                                               /\ table[0].hash = table[capacity - 1].hash
                                            THEN 1 ELSE 0
      BY DEF HashCollisions, S
    <3> QED
      BY <3>2, <3>3
  <2>2. header' \in [maxDisp : Nat, collisions : Nat, entries : Nat]
    BY <1>0, <1>16, <2>1 DEF Publish, TypeOK
  <2> QED
    BY <1>0, <1>1, <1>16, <2>2 DEF Publish, tableVars, probeVars, TypeOK
<1>17. CASE \E k \in Key : StartGet(k)
  <2>1. "get" \in Ops
    BY DEF Ops
  <2> QED
    BY <1>0, <1>1, <1>4, <1>17, <2>1 DEF StartGet, tableVars, readVars, TypeOK
<1>18. CASE StartHashnext \/ ProbeMiss
  BY <1>0, <1>1, <1>18 DEF StartHashnext, ProbeMiss, tableVars, readVars, TypeOK, Ops
<1>19. CASE GetMiss \/ GetFound \/ HashnextClosed \/ ProbeFound
  <2>1. Return /\ UNCHANGED <<tableVars, published, header>>
    BY <1>19 DEF GetMiss, GetFound, HashnextClosed, ProbeFound
  <2>2. result' \in Nat /\ iterPos' \in Nat
    <3>1. 0 \in Nat /\ pos \in Nat /\ table[slot].pos \in Nat
          /\ iterPos \in Nat /\ iterPos + 1 \in Nat
      BY <1>0 DEF TypeOK
    <3>2. iterPos' \in {iterPos, iterPos + 1} /\ result' \in {0, pos, table[slot].pos}
      BY <1>19 DEF GetMiss, GetFound, HashnextClosed, ProbeFound
    <3> QED
      BY <3>1, <3>2, Zenon
  <2> QED
    BY <1>0, <1>1, <1>2, <2>1, <2>2 DEF tableVars, TypeOK
<1>20. CASE HashnextSkipsDelete
  BY <1>0, <1>1, <1>20 DEF HashnextSkipsDelete, tableVars, probeVars, TypeOK
<1>21. CASE HashnextReadsPut
  <2>1. iterPos + 1 \in DOMAIN log /\ iterPos + 1 \in Nat /\ log[iterPos + 1].key \in Key
    <3>1. iterPos < Len(log)
      BY <1>21 DEF HashnextReadsPut
    <3>2. iterPos + 1 \in DOMAIN log
      BY <1>0, <3>1
    <3> QED
      BY SMTT(40), <1>0, <1>5, <3>2 DEF Entry, PutEntries, DeleteEntries
  <2>2. "probe" \in Ops
    BY DEF Ops
  <2> QED
    BY <1>0, <1>1, <1>4, <1>21, <2>1, <2>2 DEF HashnextReadsPut, tableVars, TypeOK
<1>22. CASE UNCHANGED vars
  BY <1>0, <1>1, <1>22 DEF vars, tableVars, probeVars, readVars, TypeOK
<1> QED
  BY <1>6, <1>7, <1>8, <1>11, <1>16, <1>17, <1>18, <1>19, <1>20, <1>21, <1>22
  DEF Next, ReaderStep

-----------------------------------------------------------------------------
\* The invariant is inductive.
THEOREM Inductive == Spec => []IndInv
<1>1. IndInv /\ [Next]_vars => IndInv'
  BY TypeStep, PointersStep, OrderStep, CountStep DEF IndInv
<1> QED
  BY InitInv, <1>1, PTL DEF Spec

\* hash_put, hash_delete, hash_get and hashnext keep the types of the table,
\* of the header fields and of their own variables; in particular no probe
\* goes round the table more than once.
THEOREM TypeCorrect == Spec => []TypeOK
BY Inductive, PTL DEF IndInv

\* The robin hood order that the early exits of all four probe loops rely on
\* is never broken, not even between two iterations of a loop.
THEOREM OrderCorrect == Spec => []RobinHoodOrder
<1>1. IndInv => RobinHoodOrder
  <2> SUFFICES ASSUME IndInv, NEW t \in Occupied, NEW u \in Slots,
                      Dist(u, t) <= SlotDisplacement(t)
               PROVE  u \in Occupied /\ SlotDisplacement(u) >= SlotDisplacement(t) - Dist(u, t)
    BY DEF RobinHoodOrder
  <2>1. Slots = 0 .. capacity - 1 /\ t \in Slots
    BY DEF Slots, Occupied
  <2>2. Dist(u, t) = RingDist(capacity, u, t)
    BY DEF Dist, RingDist
  <2>3. SlotDisplacement(t) = DispFn[t] /\ SlotDisplacement(u) = DispFn[u]
    BY <2>1 DEF DispFn
  <2> QED
    BY <2>1, <2>2, <2>3 DEF IndInv, OrderInv, Ordered
<1> QED
  BY Inductive, <1>1, PTL

\* Every pointer in the table leads to a PUT entry with the slot's hash: the
\* "bug:" branches of hash_put and hash_delete are dead code.
THEOREM PointersCorrect == Spec => []PointersArePuts
BY Inductive, PTL DEF IndInv

\* hash_capacity leaves an empty slot whenever hash_put looks for one.
THEOREM RoomCorrect == Spec => []RoomForPut
<1>1. IndInv => RoomForPut
  <2> SUFFICES ASSUME IndInv PROVE RoomForPut
    OBVIOUS
  <2>1. /\ numPuts \in Nat /\ capacity \in Nat /\ capacity >= numPuts
        /\ numEntries \in Nat
    BY CapacityFacts DEF IndInv, TypeOK
  <2> QED
    BY <2>1 DEF IndInv, CountInv, RoomForPut
<1> QED
  BY Inductive, <1>1, PTL
============================================================================
