------------------------- MODULE RobinHoodMapProofs -------------------------
(***************************************************************************)
(* The table is the index: proofs that the robin hood table holds exactly  *)
(* the live entries of the log, that lookups and walks answer from them,   *)
(* and that it implements the abstract index of IndexMap.                  *)
(***************************************************************************)
EXTENDS RobinHoodMap, RobinHoodProofs, FunctionTheorems

(***************************************************************************)
(* Live entries.                                                           *)
(***************************************************************************)
LiveIn(es) ==
  {p \in DOMAIN es :
     es[p].type = "put" /\ \A q \in DOMAIN es : q > p => es[q].key # es[p].key}

\* A PUT replaces the live entry of its key, a DELETE removes it.
LEMMA LiveAppend ==
  ASSUME NEW es \in Seq(Entry), NEW e \in Entry
  PROVE  LiveIn(Append(es, e)) =
           {p \in LiveIn(es) : es[p].key # e.key}
             \cup IF e.type = "put" THEN {Len(es) + 1} ELSE {}
<1> DEFINE fs == Append(es, e)
           n == Len(es) + 1
<1>1. /\ fs \in Seq(Entry) /\ Len(fs) = n /\ DOMAIN es = 1 .. Len(es) /\ Len(es) \in Nat
      /\ DOMAIN fs = 1 .. n /\ fs[n] = e /\ \A p \in DOMAIN es : fs[p] = es[p]
  OBVIOUS
<1> HIDE DEF fs
<1>2. DOMAIN fs = (DOMAIN es) \cup {n} /\ n \notin DOMAIN es
      /\ \A p \in DOMAIN es : n > p /\ ~(p > n)
  BY <1>1
<1>3. ~(n > n)
  BY <1>1
<1> HIDE DEF n
<1>4. ASSUME NEW p \in DOMAIN es
      PROVE  p \in LiveIn(fs) <=> p \in LiveIn(es) /\ es[p].key # e.key
  BY <1>1, <1>2 DEF LiveIn
<1>5. n \in LiveIn(fs) <=> e.type = "put"
  BY <1>1, <1>2, <1>3 DEF LiveIn
<1>6. LiveIn(fs) \subseteq DOMAIN fs /\ LiveIn(es) \subseteq DOMAIN es
  BY DEF LiveIn
<1> QED
  BY <1>2, <1>4, <1>5, <1>6 DEF fs, n

(***************************************************************************)
(* The inductive invariant: what the calls know, how far the probes have   *)
(* come, and what the table stands for.                                    *)
(***************************************************************************)
CallInv ==
  /\ op = "put" /\ fresh => pos = Len(log) /\ log # << >> /\ log[pos].key = key
  /\ op = "delete" => /\ log # << >> /\ log[Len(log)].key = key
                      /\ log[Len(log)].type = "delete"
  /\ op \in {"put", "delete", "shift"} => ~published
  /\ op \in {"get", "hashnext", "probe"} => published
  /\ op = "probe" => /\ pos = iterPos /\ pos \in DOMAIN log
                     /\ log[pos].type = "put" /\ log[pos].key = key
  /\ op = "hashnext" => iterPos <= Len(log)

\* The loops that look for something, and whether slot t holds it: hashnext
\* looks for a position, the others for a key.
Probing == op \in {"delete", "get", "probe"} \/ (op = "put" /\ fresh)
SoughtAt(t) == IF op = "probe" THEN table[t].pos = pos ELSE log[table[t].pos].key = key

\* What is looked for is not in a slot that the probe has passed.
ProbeInv ==
  Probing =>
    /\ key \in Key /\ hash = keyHash[key]
    /\ \/ disp = RingDist(capacity, WantedSlot(hash), slot)
       \/ disp = capacity /\ slot = WantedSlot(hash)
    /\ \A t \in Occupied : SoughtAt(t) => DispFn[t] >= disp

\* A key has one slot, the hole apart, and none while its entry is carried.
KeyAt(s) == log[table[s].pos].key
KeyInv ==
  /\ \A s, t \in Occupied \ Hole : KeyAt(s) = KeyAt(t) => s = t
  /\ op = "put" => IF fresh THEN log[pos].key = key
                   ELSE \A s \in Occupied : KeyAt(s) # log[pos].key
  /\ op = "probe" => log[pos].key = key

\* What the loops keep, whoever calls them and whatever the table is for.
LoopMapInv == LoopInv /\ ProbeInv /\ KeyInv

\* The table, with the entry hash_put carries and without the hole that
\* hash_delete moves, points at the live entries.
IndexInv == LivePointers = LiveIn(AbsorbedLog)

MapInv == IndInv /\ CallInv /\ ProbeInv /\ KeyInv /\ IndexInv

\* The invariant has all that the loops of hash_put and hash_delete need.
LEMMA MapLoop == MapInv => LoopMapInv /\ LoopInv /\ LoopTypes
BY IndLoop DEF MapInv, LoopMapInv, LoopInv

\* The absorbed entries are the log, or all but the last entry of it.
LEMMA AbsorbedFacts ==
  ASSUME TypeOK, CallInv
  PROVE  /\ AbsorbedLog \in Seq(Entry)
         /\ \A p \in DOMAIN AbsorbedLog : p \in DOMAIN log /\ AbsorbedLog[p] = log[p]
         /\ ~Pending => AbsorbedLog = log
         /\ Pending => /\ Len(log) \in DOMAIN log /\ log[Len(log)] \in Entry
                       /\ log[Len(log)].key = key
                       /\ log = Append(AbsorbedLog, log[Len(log)])
                       /\ Len(AbsorbedLog) + 1 = Len(log)
                       /\ Len(log) \notin DOMAIN AbsorbedLog
                       /\ DOMAIN log = DOMAIN AbsorbedLog \cup {Len(log)}
<1>1. log \in Seq(Entry) /\ Len(log) \in Nat /\ DOMAIN log = 1 .. Len(log)
  BY SMTT(40) DEF TypeOK
<1>2. CASE ~Pending
  BY Zenon, <1>1, <1>2 DEF AbsorbedLog
<1>3. CASE Pending
  <2> DEFINE n == Len(log)
             es == SubSeq(log, 1, n - 1)
  <2>1. n \in 1 .. n /\ n \in Nat \ {0} /\ log[n].key = key
    BY <1>1, <1>3 DEF Pending, CallInv
  <2>2. es \in Seq(Entry) /\ Len(es) = n - 1 /\ \A p \in 1 .. n - 1 : es[p] = log[p]
    BY <1>1, <2>1
  <2>3. Append(es, log[n]) = log
    BY <1>1, <2>1, <2>2
  <2>4. AbsorbedLog = es
    BY <1>3 DEF AbsorbedLog
  <2>5. DOMAIN es = 1 .. n - 1 /\ 1 .. n = (1 .. n - 1) \cup {n} /\ n \notin 1 .. n - 1
    BY <2>1, <2>2
  <2>6. log[n] \in Entry /\ Len(es) + 1 = n
    BY <1>1, <2>1, <2>2
  <2> HIDE DEF es
  <2>7. /\ AbsorbedLog \in Seq(Entry)
        /\ \A p \in DOMAIN AbsorbedLog : p \in DOMAIN log /\ AbsorbedLog[p] = log[p]
    BY <1>1, <2>2, <2>4, <2>5
  <2> QED
    BY <1>1, <1>3, <2>1, <2>3, <2>4, <2>5, <2>6, <2>7
<1> QED
  BY <1>2, <1>3

\* The pointers of taken slots are to PUT entries, under their hashes.
LEMMA PointedKey ==
  ASSUME LoopInv, NEW s \in Occupied
  PROVE  /\ s \in Slots /\ table[s].pos \in DOMAIN log
         /\ table[s].hash = keyHash[KeyAt(s)] /\ KeyAt(s) \in Key
<1>1. s \in Slots /\ LoopTypes /\ IsPutPointer(table[s].hash, table[s].pos)
  BY DEF Occupied, LoopInv, PointersArePuts
<1>2. log[table[s].pos].key \in Key
  BY <1>1, PointerType
<1> QED
  BY <1>1, <1>2 DEF IsPutPointer, KeyAt

\* Slots at the same distance from a slot are the same.
LEMMA DistInjective ==
  ASSUME NEW C \in Nat \ {0}, NEW h \in 0 .. C - 1, NEW x \in 0 .. C - 1,
         NEW y \in 0 .. C - 1, RingDist(C, h, x) = RingDist(C, h, y)
  PROVE  x = y
BY DEF RingDist

(***************************************************************************)
(* Probes.                                                                 *)
(***************************************************************************)

\* The code's comparison finds what the probe is for.
LEMMA MatchesIsSought ==
  ASSUME LoopMapInv, Probing, op # "probe", NEW s \in Occupied
  PROVE  Matches(s) <=> SoughtAt(s)
<1>1. table[s].hash = keyHash[KeyAt(s)]
  BY PointedKey DEF LoopMapInv
<1> QED
  BY <1>1 DEF LoopMapInv, ProbeInv, Matches, SoughtAt, KeyAt

\* The entry that is looked for is as far from its wanted slot as a probe
\* that reaches it.
LEMMA SoughtDistance ==
  ASSUME LoopMapInv, Probing, NEW t \in Occupied, SoughtAt(t)
  PROVE  /\ DispFn[t] = RingDist(capacity, WantedSlot(hash), t)
         /\ DispFn[t] >= disp /\ disp \in 0 .. capacity - 1
         /\ disp = RingDist(capacity, WantedSlot(hash), slot)
<1>0. LoopTypes /\ LoopInv
  BY DEF LoopMapInv, LoopInv
<1>1. table[t].hash = keyHash[KeyAt(t)] /\ t \in Slots
  BY <1>0, PointedKey
<1>2. KeyAt(t) = key
  BY DEF SoughtAt, KeyAt, LoopMapInv, KeyInv
<1>3. table[t].hash = hash
  BY <1>1, <1>2 DEF LoopMapInv, ProbeInv
<1>4. DispFn[t] = RingDist(capacity, WantedSlot(hash), t) /\ DispFn[t] \in 0 .. capacity - 1
  BY <1>0, <1>1, <1>3, SlotFacts
<1>5. DispFn[t] >= disp
  BY DEF LoopMapInv, ProbeInv
<1>6. capacity \in Nat \ {0} /\ disp \in 0 .. capacity
  BY <1>0, SlotFacts DEF LoopTypes
<1>7. disp \in 0 .. capacity - 1 /\ disp # capacity
  BY <1>4, <1>5, <1>6
<1>8. disp = RingDist(capacity, WantedSlot(hash), slot)
  BY <1>7 DEF LoopMapInv, ProbeInv
<1> QED
  BY <1>4, <1>5, <1>7, <1>8

\* A probe that ends at an empty slot or before a less displaced entry has
\* missed nothing.
LEMMA ProbeStops ==
  ASSUME LoopMapInv, Probing, slot \in Occupied => disp > DispFn[slot]
  PROVE  \A t \in Occupied : ~SoughtAt(t)
<1> SUFFICES ASSUME NEW t \in Occupied, SoughtAt(t) PROVE FALSE
  OBVIOUS
<1>0. /\ LoopTypes /\ capacity \in Nat \ {0} /\ Slots = 0 .. capacity - 1 /\ slot \in Slots
      /\ Occupied \in SUBSET Slots /\ DispFn \in [Slots -> Nat] /\ hash \in Nat
      /\ WantedSlot(hash) \in Slots
  BY SlotFacts DEF LoopMapInv, LoopInv, LoopTypes
<1>1. /\ DispFn[t] = RingDist(capacity, WantedSlot(hash), t)
      /\ DispFn[t] >= disp /\ disp \in 0 .. capacity - 1
      /\ disp = RingDist(capacity, WantedSlot(hash), slot)
  BY SoughtDistance
<1>2. Ordered(capacity, Occupied, DispFn)
  BY DEF LoopMapInv, LoopInv, OrderInv
<1> DEFINE h == WantedSlot(hash)
           D == DispFn
           O == Occupied
<1>3. /\ O \in SUBSET (0 .. capacity - 1) /\ D \in [0 .. capacity - 1 -> Nat]
      /\ Ordered(capacity, O, D) /\ h \in 0 .. capacity - 1 /\ slot \in 0 .. capacity - 1
      /\ t \in O /\ D[t] = RingDist(capacity, h, t) /\ D[t] >= RingDist(capacity, h, slot)
  BY <1>0, <1>1, <1>2
<1> HIDE DEF h, D, O
<1>4. slot \in O /\ D[slot] >= RingDist(capacity, h, slot)
  BY <1>0, <1>3, ProbeMayStop
<1>5. slot \in Occupied /\ DispFn[slot] >= disp
  BY <1>1, <1>4 DEF h, D, O
<1>6. disp \in Nat /\ DispFn[slot] \in Nat
  BY <1>0, <1>1
<1> QED
  BY <1>5, <1>6

\* A probe that goes on has not passed what it looks for.
LEMMA ProbeWalks ==
  ASSUME LoopMapInv, Probing, slot \in Occupied, ~SoughtAt(slot), disp <= DispFn[slot],
         Walk, UNCHANGED tableVars
  PROVE  ProbeInv'
<1>0. /\ LoopTypes /\ capacity \in Nat \ {0} /\ Slots = 0 .. capacity - 1 /\ slot \in Slots
      /\ Occupied \in SUBSET Slots /\ DispFn \in [Slots -> Nat] /\ hash \in Nat
      /\ WantedSlot(hash) \in Slots /\ NextSlot(slot) = RingNext(capacity, slot)
      /\ \A s \in Slots : DispFn[s] \in 0 .. capacity - 1
      /\ disp \in 0 .. capacity
  BY SlotFacts DEF LoopMapInv, LoopInv, LoopTypes
<1>1. /\ slot' = NextSlot(slot) /\ disp' = disp + 1
      /\ UNCHANGED <<op, key, hash, pos, fresh, table, capacity, log, keyHash>>
  BY DEF Walk, tableVars
<1>2. Occupied' = Occupied /\ DispFn' = DispFn /\ WantedSlot(hash)' = WantedSlot(hash)
  BY <1>1, TableUnchanged DEF WantedSlot
<1>3. \A t \in Occupied : SoughtAt(t)' <=> SoughtAt(t)
  BY <1>1 DEF SoughtAt
<1>4. disp = RingDist(capacity, WantedSlot(hash), slot) /\ disp \in 0 .. capacity - 1
  <2>1. disp # capacity
    BY <1>0
  <2> QED
    BY <1>0, <2>1 DEF LoopMapInv, ProbeInv
<1> DEFINE h == WantedSlot(hash)
<1>5. \/ disp + 1 = RingDist(capacity, h, RingNext(capacity, slot))
      \/ disp + 1 = capacity /\ RingNext(capacity, slot) = h
  <2>1. h \in 0 .. capacity - 1 /\ slot \in 0 .. capacity - 1 /\ disp = RingDist(capacity, h, slot)
    BY <1>0, <1>4
  <2> HIDE DEF h
  <2>2. CASE h = RingNext(capacity, slot)
    <3>1. RingDist(capacity, h, slot) = capacity - 1
      BY <1>0, <2>1, <2>2 DEF RingDist, RingNext
    <3> QED
      BY <1>0, <2>1, <2>2, <3>1
  <2>3. CASE h # RingNext(capacity, slot)
    BY <1>0, <2>1, <2>3, DistToNext
  <2> QED
    BY <2>2, <2>3
<1>6. ASSUME NEW t \in Occupied, SoughtAt(t) PROVE DispFn[t] >= disp + 1
  <2>1. DispFn[t] = RingDist(capacity, h, t) /\ DispFn[t] >= disp
    BY <1>6, SoughtDistance
  <2>2. DispFn[t] # disp
    <3> SUFFICES ASSUME DispFn[t] = disp PROVE FALSE
      OBVIOUS
    <3>1. /\ h \in 0 .. capacity - 1 /\ slot \in 0 .. capacity - 1 /\ t \in 0 .. capacity - 1
          /\ RingDist(capacity, h, t) = RingDist(capacity, h, slot)
      BY <1>0, <1>4, <2>1
    <3> HIDE DEF h
    <3>2. t = slot
      BY <1>0, <3>1, DistInjective
    <3> QED
      BY <1>6, <3>2
  <2>3. DispFn[t] \in Nat /\ disp \in Nat
    BY <1>0, <1>4
  <2> QED
    BY <2>1, <2>2, <2>3
<1>7. key \in Key /\ hash = keyHash[key]
  BY DEF LoopMapInv, ProbeInv
<1> QED
  BY <1>0, <1>1, <1>2, <1>3, <1>5, <1>6, <1>7 DEF ProbeInv

\* Every probe starts at the wanted slot: it has passed nothing.
LEMMA ProbeStarts ==
  ASSUME LoopTypes, NEW o, NEW k \in Key, NEW p, StartProbe(o, k, keyHash[k], p, TRUE),
         UNCHANGED <<table, capacity, keyHash>>
  PROVE  ProbeInv'
<1>1. /\ key' = k /\ hash' = keyHash[k] /\ slot' = WantedSlot(hash') /\ disp' = 0
      /\ keyHash' = keyHash /\ capacity' = capacity
  BY DEF StartProbe
<1>2. keyHash[k] \in Nat /\ capacity \in Nat \ {0} /\ Slots = 0 .. capacity - 1
  BY KeyAssumption, SlotFacts DEF LoopTypes
<1>3. WantedSlot(hash)' = slot' /\ slot' \in 0 .. capacity - 1
  BY <1>1, <1>2, SlotFacts DEF WantedSlot
<1>4. RingDist(capacity, slot', slot') = 0
  BY <1>2, <1>3, DistType
<1>5. \A t \in Occupied' : DispFn'[t] >= 0
  <2>1. Occupied' = Occupied /\ DispFn' = DispFn
    BY TableUnchanged
  <2>2. \A t \in Occupied : DispFn[t] \in Nat
    BY SlotFacts
  <2> QED
    BY <2>1, <2>2
<1> QED
  BY <1>1, <1>3, <1>4, <1>5 DEF ProbeInv

-----------------------------------------------------------------------------
(***************************************************************************)
(* What an iteration of a loop does to the pointers that count: nothing,   *)
(* or the entry that was read last takes effect.                           *)
(***************************************************************************)
Kept == {p \in LivePointers : log[p].key # key}
Takes == /\ Pending /\ ~Pending'
         /\ LivePointers' = Kept \cup IF op = "put" THEN {pos} ELSE {}
Rests == LivePointers' = LivePointers /\ Pending' = Pending

Pointers(S) == {table[s].pos : s \in S}

\* Before the entry takes effect, all pointers that count are in the table.
LEMMA PendingFacts ==
  ASSUME Pending
  PROVE  /\ Probing /\ op # "probe" /\ Hole = {} /\ Carried = {}
         /\ LivePointers = Pointers(Occupied)
         /\ \A s \in Occupied : KeyAt(s) = key <=> SoughtAt(s)
<1>1. Probing /\ op # "probe" /\ Hole = {} /\ Carried = {}
  BY DEF Pending, Probing, Hole, Carried
<1>2. LivePointers = Pointers(Occupied)
  BY <1>1 DEF LivePointers, Pointers
<1>3. \A s \in Occupied : KeyAt(s) = key <=> SoughtAt(s)
  BY <1>1 DEF SoughtAt, KeyAt
<1> QED
  BY <1>1, <1>2, <1>3

\* A key that is not in the table: everything is kept.
LEMMA NoneSought ==
  ASSUME Pending, \A t \in Occupied : ~SoughtAt(t)
  PROVE  Kept = Pointers(Occupied)
BY PendingFacts DEF Kept, Pointers, KeyAt

\* A key that is in the table is there once: everything else is kept.
LEMMA OneSought ==
  ASSUME KeyInv, Pending, slot \in Occupied, SoughtAt(slot)
  PROVE  /\ Kept = Pointers(Occupied \ {slot})
         /\ \A s \in Occupied \ {slot} : KeyAt(s) # key
<1>1. ASSUME NEW s \in Occupied, SoughtAt(s) PROVE s = slot
  <2>1. KeyAt(s) = key /\ KeyAt(slot) = key /\ Hole = {}
    BY <1>1, PendingFacts
  <2> QED
    BY <2>1 DEF KeyInv
<1>2. \A s \in Occupied \ {slot} : KeyAt(s) # key
  BY <1>1, PendingFacts
<1>3. KeyAt(slot) = key
  BY PendingFacts
<1> QED
  BY <1>2, <1>3, PendingFacts DEF Kept, Pointers, KeyAt

\* hash_put writes a slot: its pointer takes the place of the slot's.
LEMMA PlacedPointers ==
  ASSUME LoopInv, op = "put", Place, capacity' = capacity
  PROVE  Pointers(Occupied)' = Pointers(Occupied \ {slot}) \cup {pos}
<1>1. Occupied' = Occupied \cup {slot}
  BY PlaceEffect
<1>2. slot \in Slots /\ Occupied \subseteq Slots
      /\ table \in [Slots -> [hash : Nat, pos : Nat]]
  BY SlotFacts DEF LoopInv, LoopTypes
<1>3. table'[slot].pos = pos /\ \A s \in Slots : s # slot => table'[s] = table[s]
  BY <1>2 DEF Place
<1> QED
  BY <1>1, <1>2, <1>3 DEF Pointers

\* A lookup's displacement of the entry it meets.
LEMMA MetDisplacement ==
  ASSUME LoopTypes, ~Empty(slot)
  PROVE  slot \in Occupied /\ GetDisplacement(slot, table[slot].hash) = DispFn[slot]
BY SlotFacts DEF Occupied

\* The slot that hash_put writes is the only one that may hold the key of
\* what it writes, and holds it only if it is replaced.
LEMMA PutMeets ==
  ASSUME LoopMapInv, PutEmpty \/ PutReplace \/ PutSteal
  PROVE  /\ ~PutReplace => \A s \in Occupied : KeyAt(s) # log[pos].key
         /\ ~PutReplace /\ fresh => \A t \in Occupied : ~SoughtAt(t)
         /\ PutReplace => fresh /\ slot \in Occupied /\ SoughtAt(slot)
         /\ \A s \in Occupied \ {slot} : KeyAt(s) # log[pos].key
<1>0. /\ LoopTypes /\ KeyInv /\ op = "put" /\ (fresh => Pending /\ Probing /\ log[pos].key = key)
  BY DEF LoopMapInv, LoopInv, KeyInv, PutEmpty, PutReplace, PutSteal, Pending, Probing
<1>1. CASE PutReplace
  <2>1. fresh /\ slot \in Occupied /\ Matches(slot)
    BY <1>0, <1>1, MetDisplacement DEF PutReplace
  <2>2. SoughtAt(slot)
    BY <1>0, <2>1, MatchesIsSought
  <2> QED
    BY <1>0, <1>1, <2>1, <2>2, OneSought
<1>2. CASE ~PutReplace
  <2>1. slot \in Occupied => disp > DispFn[slot]
    BY <1>0, <1>2, MetDisplacement DEF PutEmpty, PutSteal, Occupied
  <2>2. fresh => \A t \in Occupied : ~SoughtAt(t)
    BY <1>0, <2>1, ProbeStops
  <2>3. \A s \in Occupied : KeyAt(s) # log[pos].key
    BY <1>0, <2>2, PendingFacts DEF KeyInv
  <2> QED
    BY <1>2, <2>2, <2>3
<1> QED
  BY <1>1, <1>2

\* The steps of hash_put.
LEMMA PutEffect ==
  ASSUME LoopMapInv, PutEmpty \/ PutReplace \/ PutSteal
  PROVE  IF fresh THEN Takes ELSE Rests
<1>0. /\ LoopInv /\ op = "put" /\ Place /\ Hole = {} /\ Hole' = {} /\ capacity' = capacity
  BY DEF LoopMapInv, PutEmpty, PutReplace, PutSteal, Hole, Return
<1>1. (Pending <=> fresh) /\ ~Pending'
  BY <1>0 DEF PutEmpty, PutReplace, PutSteal, Return, Pending
<1>2. KeyInv
  BY DEF LoopMapInv
<1>3. LivePointers' = Pointers(Occupied)' \cup Carried'
  BY <1>0 DEF LivePointers, Pointers
<1>4. Pointers(Occupied)' = Pointers(Occupied \ {slot}) \cup {pos}
  BY <1>0, PlacedPointers
<1>5. ASSUME ~PutReplace, LivePointers' = Pointers(Occupied) \cup {pos}
      PROVE  IF fresh THEN Takes ELSE Rests
  <2>1. CASE fresh
    <3>1. Kept = Pointers(Occupied)
      BY <1>1, <1>5, <2>1, PutMeets, NoneSought
    <3> QED
      BY <1>0, <1>1, <1>5, <2>1, <3>1 DEF Takes
  <2>2. CASE ~fresh
    <3>1. LivePointers = Pointers(Occupied) \cup {pos}
      BY <1>0, <2>2 DEF LivePointers, Pointers, Carried
    <3> QED
      BY <1>1, <1>5, <2>2, <3>1 DEF Rests, Pending
  <2> QED
    BY <2>1, <2>2
<1>8. CASE PutEmpty
  <2>1. Carried' = {} /\ slot \notin Occupied /\ ~PutReplace
    BY <1>8 DEF PutEmpty, PutReplace, Return, Carried, Occupied
  <2>2. Occupied \ {slot} = Occupied
    BY <2>1
  <2> QED
    BY <1>3, <1>4, <1>5, <2>1, <2>2
<1>9. CASE PutReplace
  <2>1. Carried' = {}
    BY <1>9 DEF PutReplace, Return, Carried
  <2>2. fresh /\ Kept = Pointers(Occupied \ {slot})
    BY <1>1, <1>2, <1>9, PutMeets, OneSought
  <2> QED
    BY <1>0, <1>1, <1>3, <1>4, <2>1, <2>2 DEF Takes
<1>10. CASE PutSteal
  <2>1. Carried' = {table[slot].pos} /\ slot \in Occupied /\ ~PutReplace
    BY <1>0, <1>10, MetEntry DEF PutSteal, PutReplace, Carried
  <2>2. Pointers(Occupied) = Pointers(Occupied \ {slot}) \cup {table[slot].pos}
    BY <2>1 DEF Pointers
  <2> QED
    BY <1>3, <1>4, <1>5, <2>1, <2>2
<1> QED
  BY <1>8, <1>9, <1>10

\* hash_delete takes effect when it finds the key or gives up.
LEMMA DeleteEffect ==
  ASSUME LoopMapInv, DeleteFound \/ DeleteMiss
  PROVE  Takes
<1>0. /\ op = "delete" /\ Pending /\ Probing /\ op # "probe"
      /\ table' = table /\ capacity' = capacity /\ LoopTypes /\ KeyInv
  BY DEF DeleteFound, DeleteMiss, Pending, Probing, LoopMapInv, LoopInv, tableVars
<1>1. ~Pending'
  BY DEF DeleteFound, DeleteMiss, Return, Pending
<1>2. Carried' = {} /\ Occupied' = Occupied
  BY <1>0, TableUnchanged DEF DeleteFound, DeleteMiss, Return, Carried
<1>3. LivePointers' = Pointers(Occupied \ Hole')
  BY <1>0, <1>2 DEF LivePointers, Pointers
<1>4. CASE DeleteFound
  <2>1. Hole' = {slot}
    BY <1>4 DEF DeleteFound, Hole
  <2>2. slot \in Occupied /\ SoughtAt(slot)
    BY <1>0, <1>4, MetDisplacement, MatchesIsSought DEF DeleteFound
  <2> QED
    BY <1>0, <1>1, <1>3, <2>1, <2>2, OneSought DEF Takes
<1>5. CASE DeleteMiss
  <2>1. Hole' = {}
    BY <1>5 DEF DeleteMiss, Return, Hole
  <2>2. slot \in Occupied => disp > DispFn[slot]
    BY <1>0, <1>5, MetDisplacement DEF DeleteMiss, Occupied
  <2>3. \A t \in Occupied : ~SoughtAt(t)
    BY <1>0, <2>2, ProbeStops
  <2>4. Kept = Pointers(Occupied \ {})
    BY <1>0, <2>3, NoneSought
  <2> QED
    BY <1>0, <1>1, <1>3, <2>1, <2>4 DEF Takes
<1> QED
  BY <1>4, <1>5

\* The shift loop moves pointers and the hole.
LEMMA ShiftEffect ==
  ASSUME LoopInv, ShiftBack \/ ShiftEnd
  PROVE  /\ Rests
         /\ Occupied' \ Hole' = IF ShiftBack THEN Occupied \ {NextSlot(slot)}
                                ELSE Occupied \ {slot}
         /\ \A s \in Slots : s # slot => table'[s] = table[s]
         /\ slot \in Occupied /\ Hole = {slot}
         /\ ShiftBack => table'[slot] = table[NextSlot(slot)] /\ NextSlot(slot) \in Occupied
<1>0. /\ slot \in Occupied /\ slot \in Slots /\ Occupied \subseteq Slots /\ op = "shift"
      /\ Hole = {slot} /\ Carried = {} /\ ~Pending
      /\ table \in [Slots -> [hash : Nat, pos : Nat]] /\ (slot + 1) % capacity = NextSlot(slot)
  BY SlotFacts DEF LoopInv, LoopTypes, HoleInv, ShiftBack, ShiftEnd, Hole, Carried, Pending
<1>1. ~Pending'
  BY DEF ShiftBack, ShiftEnd, Return, Pending
<1>2. LivePointers = Pointers(Occupied \ {slot})
  BY <1>0 DEF LivePointers, Pointers
<1>3. CASE ShiftBack
  <2> DEFINE n == NextSlot(slot)
  <2>1. n \in Occupied /\ slot' = n /\ Occupied' = Occupied
    BY <1>0, <1>3, ShiftBackEffect
  <2>3. table'[slot] = table[n] /\ \A s \in Slots : s # slot => table'[s] = table[s]
    BY <1>0, <1>3 DEF ShiftBack
  <2>4. Hole' = {n} /\ Carried' = {}
    BY <1>3, <2>1 DEF ShiftBack, Hole, Carried
  <2> HIDE DEF n
  <2>5. LivePointers' = {table'[s].pos : s \in Occupied \ {n}}
    BY <2>1, <2>4 DEF LivePointers
  <2>6. {table'[s].pos : s \in Occupied \ {n}} = {table[s].pos : s \in Occupied \ {slot}}
    BY <1>0, <2>1, <2>3
  <2>7. Rests
    BY <1>0, <1>1, <1>2, <2>5, <2>6 DEF Rests, Pointers, Pending
  <2> QED
    BY <1>0, <1>3, <2>1, <2>3, <2>4, <2>7 DEF n
<1>4. CASE ShiftEnd
  <2>1. Occupied' = Occupied \ {slot}
    BY <1>0, <1>4, ShiftEndEffect
  <2>2. \A s \in Slots : s # slot => table'[s] = table[s]
    BY <1>0, <1>4 DEF ShiftEnd
  <2>3. Hole' = {} /\ Carried' = {}
    BY <1>4 DEF ShiftEnd, Return, Hole, Carried
  <2>4. LivePointers' = {table'[s].pos : s \in Occupied \ {slot}}
    BY <2>1, <2>3 DEF LivePointers
  <2>5. {table'[s].pos : s \in Occupied \ {slot}} = {table[s].pos : s \in Occupied \ {slot}}
    BY <1>0, <2>2
  <2>6. ~ShiftBack
    BY <1>4 DEF ShiftBack, ShiftEnd
  <2>7. Rests
    BY <1>0, <1>1, <1>2, <2>4, <2>5 DEF Rests, Pointers, Pending
  <2> QED
    BY <1>0, <2>1, <2>2, <2>3, <2>6, <2>7
<1> QED
  BY <1>3, <1>4

\* A probe that walks on moves nothing.
LEMMA WalkEffect ==
  ASSUME PutWalk \/ DeleteWalk
  PROVE  Rests /\ Hole = {} /\ Hole' = {} /\ Occupied' = Occupied /\ UNCHANGED <<table, log>>
<1>1. UNCHANGED <<table, capacity, log, op, fresh, pos>> /\ op # "shift"
  BY DEF PutWalk, DeleteWalk, Walk, tableVars
<1>2. Hole = {} /\ Hole' = {} /\ Carried' = Carried /\ Pending' = Pending
  BY <1>1 DEF Hole, Carried, Pending
<1>3. Occupied' = Occupied
  BY <1>1, TableUnchanged
<1> QED
  BY <1>1, <1>2, <1>3 DEF Rests, LivePointers

\* Every iteration of hash_put or hash_delete.
LEMMA LoopEffect ==
  ASSUME LoopMapInv, WriterStep
  PROVE  Takes \/ Rests
BY PutEffect, DeleteEffect, ShiftEffect, WalkEffect DEF WriterStep, LoopMapInv

\* How far the probe has come after an iteration.
LEMMA LoopProbe ==
  ASSUME LoopMapInv, WriterStep
  PROVE  ProbeInv'
<1>0. LoopTypes
  BY DEF LoopMapInv, LoopInv
<1>2. CASE ~Probing'
  BY <1>2 DEF ProbeInv
<1>3. CASE PutEmpty \/ PutReplace \/ PutSteal
  BY <1>2, <1>3 DEF PutEmpty, PutReplace, PutSteal, Return, Probing
<1>4. CASE DeleteMiss \/ DeleteFound \/ ShiftBack \/ ShiftEnd
  BY <1>2, <1>4 DEF DeleteMiss, DeleteFound, ShiftBack, ShiftEnd, Return, Probing
<1>8. CASE PutWalk
  <2>1. /\ op = "put" /\ ~Empty(slot) /\ ~(fresh /\ Matches(slot)) /\ Walk
        /\ disp <= GetDisplacement(slot, table[slot].hash) /\ UNCHANGED tableVars
    BY <1>8 DEF PutWalk
  <2>2. CASE ~fresh
    BY <1>2, <2>1, <2>2 DEF Walk, Probing
  <2>3. CASE fresh
    BY <1>0, <2>1, <2>3, MetDisplacement, MatchesIsSought, ProbeWalks DEF Probing
  <2> QED
    BY <2>2, <2>3
<1>9. CASE DeleteWalk
  <2>1. /\ op = "delete" /\ ~Empty(slot) /\ ~Matches(slot) /\ Walk
        /\ disp <= GetDisplacement(slot, table[slot].hash) /\ UNCHANGED tableVars
    BY <1>9 DEF DeleteWalk
  <2> QED
    BY <1>0, <2>1, MetDisplacement, MatchesIsSought, ProbeWalks DEF Probing
<1> QED
  BY <1>3, <1>4, <1>8, <1>9 DEF WriterStep

\* Every key keeps one slot.
LEMMA LoopKeys ==
  ASSUME LoopMapInv, WriterStep
  PROVE  KeyInv'
<1>0. /\ LoopInv /\ LoopTypes /\ KeyInv /\ slot \in Slots /\ Occupied \subseteq Slots
      /\ table \in [Slots -> [hash : Nat, pos : Nat]] /\ log' = log
  BY SlotFacts, WriterKeeps DEF LoopMapInv, LoopInv, LoopTypes
<1>1. op' # "probe"
  BY DEF WriterStep, PutEmpty, PutReplace, PutSteal, PutWalk, DeleteMiss, DeleteFound,
         DeleteWalk, ShiftBack, ShiftEnd, Return, Walk
<1>2. \A s \in Slots : table'[s] = table[s] => KeyAt(s)' = KeyAt(s)
  BY <1>0 DEF KeyAt
<1>3. CASE PutWalk \/ DeleteWalk
  <2>1. UNCHANGED <<op, fresh, pos, key>> /\ \A s \in Occupied : KeyAt(s)' = KeyAt(s)
    BY <1>2, <1>3, WalkEffect DEF PutWalk, DeleteWalk, Walk, Occupied
  <2> QED
    BY <1>0, <1>1, <1>3, <2>1, WalkEffect DEF KeyInv
<1>4. CASE PutEmpty \/ PutReplace \/ PutSteal
  <2>1. /\ op = "put" /\ Place /\ capacity' = capacity /\ Hole = {} /\ Hole' = {}
        /\ op' = "put" => PutSteal
    BY <1>4 DEF PutEmpty, PutReplace, PutSteal, Return, Hole
  <2>2. Occupied' = Occupied \cup {slot}
    BY <1>0, <2>1, PlaceEffect
  <2>3. \A s \in Slots : KeyAt(s)' = IF s = slot THEN log[pos].key ELSE KeyAt(s)
    BY <1>0, <2>1 DEF Place, KeyAt
  <2>4. /\ \A s, t \in Occupied : KeyAt(s) = KeyAt(t) => s = t
        /\ \A s \in Occupied \ {slot} : KeyAt(s) # log[pos].key
    BY <1>0, <1>4, <2>1, PutMeets DEF KeyInv
  <2>5. \A s, t \in Occupied' : KeyAt(s)' = KeyAt(t)' => s = t
    BY <1>0, <2>2, <2>3, <2>4
  <2>6. ASSUME PutSteal
        PROVE  fresh' = FALSE /\ \A s \in Occupied' : KeyAt(s)' # log[pos'].key
    <3>1. slot \in Occupied /\ pos' = table[slot].pos /\ fresh' = FALSE /\ ~PutReplace
      BY <1>0, <2>6, MetDisplacement DEF PutSteal, PutReplace
    <3>2. KeyAt(slot) = log[pos'].key /\ KeyAt(slot) # log[pos].key
      BY <1>4, <3>1, PutMeets DEF KeyAt
    <3> QED
      BY <1>0, <2>2, <2>3, <2>4, <3>1, <3>2
  <2> QED
    BY <1>0, <1>1, <2>1, <2>5, <2>6 DEF KeyInv
<1>5. CASE DeleteFound \/ DeleteMiss
  <2>1. /\ op = "delete" /\ op' # "put" /\ Hole = {} /\ UNCHANGED <<table, capacity>>
    BY <1>5 DEF DeleteFound, DeleteMiss, Return, Hole, tableVars
  <2>2. Occupied' = Occupied /\ \A s \in Occupied : KeyAt(s)' = KeyAt(s)
    BY <1>0, <1>2, <2>1, TableUnchanged
  <2> QED
    BY <1>0, <1>1, <2>1, <2>2 DEF KeyInv
<1>6. CASE ShiftBack \/ ShiftEnd
  <2>1. op' # "put"
    BY <1>6 DEF ShiftBack, ShiftEnd, Return
  <2>2. \A s, t \in Occupied \ {slot} : KeyAt(s) = KeyAt(t) => s = t
    BY <1>0, <1>6, ShiftEffect DEF KeyInv
  <2>3. \A s \in Slots : s # slot => KeyAt(s)' = KeyAt(s)
    BY <1>0, <1>2, <1>6, ShiftEffect
  <2>4. ShiftBack => \A s \in Slots : s = slot => KeyAt(s)' = KeyAt(NextSlot(slot))
    BY <1>0, ShiftEffect DEF KeyAt
  <2>5. ASSUME NEW s \in Occupied' \ Hole', NEW t \in Occupied' \ Hole',
               KeyAt(s)' = KeyAt(t)'
        PROVE  s = t
    <3>1. CASE ShiftBack
      <4>1. /\ s \in Occupied \ {NextSlot(slot)} /\ t \in Occupied \ {NextSlot(slot)}
            /\ NextSlot(slot) \in Occupied
        BY <1>0, <2>5, <3>1, ShiftEffect
      <4> QED
        BY <1>0, <2>2, <2>3, <2>4, <2>5, <3>1, <4>1
    <3>2. CASE ~ShiftBack
      <4>1. s \in Occupied \ {slot} /\ t \in Occupied \ {slot}
        BY <1>0, <1>6, <2>5, <3>2, ShiftEffect
      <4> QED
        BY <1>0, <2>2, <2>3, <2>5, <4>1
    <3> QED
      BY <3>1, <3>2
  <2> QED
    BY <1>1, <2>1, <2>5 DEF KeyInv
<1> QED
  BY <1>3, <1>4, <1>5, <1>6 DEF WriterStep

\* The loops keep their invariant as long as hash_put finds a slot.
LEMMA LoopMapStep ==
  ASSUME LoopMapInv, WriterStep, PutWalk => disp # capacity - 1
  PROVE  LoopMapInv'
<1>1. LoopInv'
  BY LoopTypesStep, LoopPointers, LoopOrder, LoopCount DEF LoopMapInv, LoopInv
<1> QED
  BY <1>1, LoopProbe, LoopKeys DEF LoopMapInv

-----------------------------------------------------------------------------
(***************************************************************************)
(* What a step does to the entries that are absorbed and to the live       *)
(* pointers: nothing, or it absorbs the entry that was read last.          *)
(***************************************************************************)
Settled == AbsorbedLog' = AbsorbedLog /\ LivePointers' = LivePointers

Newest == log[Len(log)]
Remaining == {p \in LivePointers : AbsorbedLog[p].key # Newest.key}
Absorbs == /\ Pending /\ Newest \in Entry
           /\ AbsorbedLog' = Append(AbsorbedLog, Newest)
           /\ LivePointers' = Remaining \cup IF Newest.type = "put"
                                            THEN {Len(AbsorbedLog) + 1} ELSE {}

\* The iterations of the loops, seen from the log.
LEMMA WriterEffect ==
  ASSUME MapInv, WriterStep
  PROVE  Settled \/ Absorbs
<1>0. /\ LoopMapInv /\ TypeOK /\ CallInv /\ log' = log
      /\ LivePointers = LiveIn(AbsorbedLog)
  BY MapLoop, WriterKeeps DEF MapInv, IndInv, IndexInv
<1>1. CASE Rests
  BY <1>0, <1>1 DEF Rests, Settled, AbsorbedLog
<1>2. CASE Takes
  <2>1. /\ Pending /\ AbsorbedLog' = log /\ op \in {"put", "delete"}
        /\ LivePointers' = Kept \cup IF op = "put" THEN {pos} ELSE {}
    BY <1>0, <1>2 DEF Takes, AbsorbedLog, Pending
  <2>2. /\ Newest \in Entry /\ Newest.key = key
        /\ log = Append(AbsorbedLog, Newest) /\ Len(AbsorbedLog) + 1 = Len(log)
        /\ \A p \in LivePointers : AbsorbedLog[p] = log[p]
    BY <1>0, <2>1, AbsorbedFacts DEF Newest, LiveIn
  <2>3. Kept = Remaining
    BY <2>2 DEF Kept, Remaining
  <2>4. Newest.type = op /\ (op = "put" => pos = Len(log))
    BY <1>0, <2>1
    DEF Newest, Pending, CallInv, MapInv, IndInv, PointersArePuts, IsPutPointer
  <2> QED
    BY <2>1, <2>2, <2>3, <2>4 DEF Absorbs
<1> QED
  BY <1>0, <1>1, <1>2, LoopEffect

\* The steps of readers and the publication leave table and log alone.
Reading == /\ UNCHANGED tableVars
           /\ op \notin {"put", "delete", "shift"} /\ op' \notin {"put", "delete", "shift"}

\* Which steps these are.
LEMMA ReadingSteps ==
  ASSUME Publish \/ (\E k \in Key : StartGet(k)) \/ StartHashnext \/ ReaderStep
  PROVE  Reading
<1>1. CASE Publish
  BY <1>1 DEF Publish, probeVars, Reading
<1>2. CASE \E k \in Key : StartGet(k)
  BY <1>2 DEF StartGet, StartProbe, Reading
<1>3. CASE StartHashnext
  BY <1>3 DEF StartHashnext, Reading
<1>4. CASE GetMiss \/ GetFound \/ GetWalk
  BY <1>4 DEF GetMiss, GetFound, GetWalk, Return, Walk, Reading
<1>5. CASE HashnextClosed \/ HashnextSkipsDelete \/ HashnextReadsPut
  BY <1>5 DEF HashnextClosed, HashnextSkipsDelete, HashnextReadsPut, Return,
              StartProbe, probeVars, Reading
<1>6. CASE ProbeFound \/ ProbeMiss \/ ProbeWalk
  BY <1>6 DEF ProbeFound, ProbeMiss, ProbeWalk, Return, Walk, Reading
<1> QED
  BY <1>1, <1>2, <1>3, <1>4, <1>5, <1>6 DEF ReaderStep

\* Readers do not touch the index.
LEMMA ReadingEffect ==
  ASSUME Reading
  PROVE  /\ Settled /\ Hole = {} /\ Hole' = {} /\ ~Pending /\ ~Pending'
         /\ Occupied' = Occupied /\ UNCHANGED <<table, log>>
<1>1. UNCHANGED <<table, capacity, log>>
  BY DEF Reading, tableVars
<1>2. /\ Hole = {} /\ Hole' = {} /\ Carried = {} /\ Carried' = {} /\ ~Pending /\ ~Pending'
  BY DEF Reading, Hole, Carried, Pending
<1>3. Occupied' = Occupied
  BY <1>1, TableUnchanged
<1> QED
  BY <1>1, <1>2, <1>3 DEF Settled, LivePointers, AbsorbedLog

\* Reading an entry of the log: it waits to be absorbed.
Scan == (\E k \in Key, v \in ValueLens : ScanPut(k, v)) \/ \E k \in Key : ScanDelete(k)

\* The scan's probe starts with the entry that was read.
LEMMA ScanFacts ==
  ASSUME TypeOK, Scan
  PROVE  /\ UNCHANGED <<table, capacity, keyHash, readVars>> /\ ~published /\ op = "idle"
         /\ \E e \in Entry :
              /\ log' = Append(log, e) /\ key' = e.key /\ e.key \in Key
              /\ StartProbe(e.type, e.key, keyHash[e.key],
                            IF e.type = "put" THEN Len(log) + 1 ELSE 0, TRUE)
<1>1. ASSUME NEW k \in Key, NEW v \in ValueLens, ScanPut(k, v)
      PROVE  /\ UNCHANGED <<table, capacity, keyHash, readVars>> /\ ~published /\ op = "idle"
             /\ \E e \in Entry :
                  /\ log' = Append(log, e) /\ key' = e.key /\ e.key \in Key
                  /\ StartProbe(e.type, e.key, keyHash[e.key],
                                IF e.type = "put" THEN Len(log) + 1 ELSE 0, TRUE)
  <2> DEFINE e == [type |-> "put", key |-> k, vlen |-> v]
  <2>1. e \in Entry /\ e.key = k /\ e.type = "put"
    BY DEF Entry, PutEntries, DeleteEntries
  <2>2. log' = Append(log, e) /\ StartProbe("put", k, keyHash[k], Len(log) + 1, TRUE)
    BY <1>1 DEF ScanPut
  <2> HIDE DEF e
  <2>3. key' = k
    BY <2>2 DEF StartProbe
  <2> QED
    BY <1>1, <2>1, <2>2, <2>3 DEF ScanPut
<1>2. ASSUME NEW k \in Key, ScanDelete(k)
      PROVE  /\ UNCHANGED <<table, capacity, keyHash, readVars>> /\ ~published /\ op = "idle"
             /\ \E e \in Entry :
                  /\ log' = Append(log, e) /\ key' = e.key /\ e.key \in Key
                  /\ StartProbe(e.type, e.key, keyHash[e.key],
                                IF e.type = "put" THEN Len(log) + 1 ELSE 0, TRUE)
  <2> DEFINE e == [type |-> "delete", key |-> k, vlen |-> 0]
  <2>1. e \in Entry /\ e.key = k /\ e.type = "delete"
    BY DEF Entry, PutEntries, DeleteEntries
  <2>2. log' = Append(log, e) /\ StartProbe("delete", k, keyHash[k], 0, TRUE)
    BY <1>2 DEF ScanDelete
  <2> HIDE DEF e
  <2>3. key' = k
    BY <2>2 DEF StartProbe
  <2> QED
    BY <1>2, <2>1, <2>2, <2>3 DEF ScanDelete
<1> QED
  BY <1>1, <1>2 DEF Scan

\* The index does not change before the entry is absorbed.
LEMMA ScanEffect ==
  ASSUME MapInv, Scan
  PROVE  /\ Settled /\ Hole = {} /\ Hole' = {} /\ Occupied' = Occupied /\ CallInv'
         /\ UNCHANGED table /\ (op' = "put" => pos' = Len(log) + 1)
<1>0. TypeOK /\ log \in Seq(Entry)
  BY DEF MapInv, IndInv, TypeOK
<1>1. /\ UNCHANGED <<table, capacity, readVars>> /\ ~published /\ op = "idle"
      /\ Occupied' = Occupied
  BY <1>0, ScanFacts, TableUnchanged
<1>2. PICK e \in Entry :
        /\ log' = Append(log, e) /\ key' = e.key /\ e.key \in Key
        /\ StartProbe(e.type, e.key, keyHash[e.key],
                      IF e.type = "put" THEN Len(log) + 1 ELSE 0, TRUE)
  BY <1>0, ScanFacts
<1>3. /\ e.type \in {"put", "delete"} /\ op' = e.type /\ fresh' = TRUE
      /\ e.type = "put" => pos' = Len(log) + 1
  BY <1>2 DEF StartProbe, Entry, PutEntries, DeleteEntries
<1>4. Hole = {} /\ Hole' = {} /\ Carried = {} /\ Carried' = {} /\ ~Pending /\ Pending'
  BY <1>1, <1>3 DEF Hole, Carried, Pending
<1>5. /\ Len(log') = Len(log) + 1 /\ log'[Len(log) + 1] = e /\ log' # << >>
      /\ SubSeq(log', 1, Len(log') - 1) = log
  BY <1>0, <1>2
<1>6. Settled
  BY <1>1, <1>4, <1>5 DEF Settled, LivePointers, AbsorbedLog
<1>7. CallInv'
  BY <1>1, <1>2, <1>3, <1>5 DEF CallInv, readVars
<1> QED
  BY <1>1, <1>3, <1>4, <1>6, <1>7

-----------------------------------------------------------------------------
(***************************************************************************)
(* Every step keeps the invariant: one lemma for each part.                *)
(***************************************************************************)

\* What a call knows while it runs.
LEMMA CallInvStep == MapInv /\ [Next]_vars => CallInv'
<1> SUFFICES ASSUME MapInv, [Next]_vars PROVE CallInv'
  OBVIOUS
<1>0. TypeOK /\ CallInv /\ Len(log) \in Nat /\ DOMAIN log = 1 .. Len(log) /\ iterPos \in Nat
  BY DEF MapInv, IndInv, TypeOK
<1>1. CASE Scan
  BY <1>1, ScanEffect
<1>2. CASE op' = "idle"
  BY <1>2 DEF CallInv
<1>3. CASE PutEmpty \/ PutReplace \/ DeleteMiss \/ ShiftEnd
  BY <1>2, <1>3 DEF PutEmpty, PutReplace, DeleteMiss, ShiftEnd, Return
<1>4. CASE GetMiss \/ GetFound \/ HashnextClosed \/ ProbeFound
  BY <1>2, <1>4 DEF GetMiss, GetFound, HashnextClosed, ProbeFound, Return
<1>5. CASE PutSteal
  BY <1>0, <1>5 DEF PutSteal, CallInv, readVars
<1>6. CASE PutWalk \/ DeleteWalk
  BY <1>0, <1>6 DEF PutWalk, DeleteWalk, Walk, CallInv, readVars, tableVars
<1>7. CASE DeleteFound
  BY <1>0, <1>7 DEF DeleteFound, CallInv, readVars
<1>8. CASE ShiftBack
  BY <1>0, <1>8 DEF ShiftBack, CallInv, readVars
<1>9. CASE Publish
  BY <1>2, <1>9 DEF Publish, probeVars
<1>10. CASE \E k \in Key : StartGet(k)
  BY <1>10 DEF StartGet, StartProbe, CallInv, readVars
<1>11. CASE StartHashnext
  BY <1>0, <1>11 DEF StartHashnext, CallInv, readVars, tableVars
<1>12. CASE GetWalk
  BY <1>0, <1>12 DEF GetWalk, Walk, CallInv, readVars
<1>13. CASE HashnextSkipsDelete
  BY <1>0, <1>13 DEF HashnextSkipsDelete, CallInv, probeVars, tableVars
<1>14. CASE HashnextReadsPut
  <2>1. iterPos + 1 \in DOMAIN log
    BY <1>0, <1>14 DEF HashnextReadsPut
  <2> QED
    BY <1>0, <1>14, <2>1 DEF HashnextReadsPut, StartProbe, CallInv, tableVars
<1>15. CASE ProbeMiss
  BY <1>0, <1>15 DEF ProbeMiss, CallInv, readVars, tableVars
<1>16. CASE ProbeWalk
  BY <1>0, <1>16 DEF ProbeWalk, Walk, CallInv, readVars, tableVars
<1>17. CASE UNCHANGED vars
  BY <1>0, <1>17 DEF vars, tableVars, probeVars, readVars, CallInv
<1> QED
  BY <1>1, <1>3, <1>4, <1>5, <1>6, <1>7, <1>8, <1>9, <1>10, <1>11, <1>12, <1>13, <1>14,
     <1>15, <1>16, <1>17 DEF Next, Scan, WriterStep, ReaderStep

\* How far the probes have come.
LEMMA ProbeStep == MapInv /\ [Next]_vars => ProbeInv'
<1> SUFFICES ASSUME MapInv, [Next]_vars PROVE ProbeInv'
  OBVIOUS
<1>0. TypeOK /\ LoopTypes /\ LoopMapInv
  BY MapLoop DEF MapInv, IndInv
<1>1. CASE Scan
  <2>1. /\ UNCHANGED <<table, capacity, keyHash>>
        /\ \E e \in Entry :
             /\ e.key \in Key
             /\ StartProbe(e.type, e.key, keyHash[e.key],
                           IF e.type = "put" THEN Len(log) + 1 ELSE 0, TRUE)
    BY <1>0, <1>1, ScanFacts
  <2> QED
    BY <1>0, <2>1, ProbeStarts
<1>2. CASE ~Probing'
  BY <1>2 DEF ProbeInv
<1>3. CASE WriterStep
  BY <1>0, <1>3, LoopProbe
<1>5. CASE Publish \/ StartHashnext
  BY <1>2, <1>5 DEF Publish, StartHashnext, Probing, probeVars
<1>6. CASE GetMiss \/ GetFound \/ HashnextClosed \/ HashnextSkipsDelete
  BY <1>2, <1>6 DEF GetMiss, GetFound, HashnextClosed, HashnextSkipsDelete, Return,
                    Probing, probeVars
<1>7. CASE ProbeFound \/ ProbeMiss
  BY <1>2, <1>7 DEF ProbeFound, ProbeMiss, Return, Probing
<1>9. CASE GetWalk
  <2>1. /\ op = "get" /\ ~Empty(slot) /\ ~Matches(slot) /\ Walk
        /\ disp <= GetDisplacement(slot, table[slot].hash) /\ UNCHANGED tableVars
    BY <1>9 DEF GetWalk
  <2> QED
    BY <1>0, <2>1, MetDisplacement, MatchesIsSought, ProbeWalks DEF Probing
<1>10. CASE ProbeWalk
  <2>1. /\ op = "probe" /\ ~Empty(slot) /\ table[slot].pos # pos /\ Walk
        /\ disp <= GetDisplacement(slot, table[slot].hash) /\ UNCHANGED tableVars
    BY <1>10 DEF ProbeWalk
  <2> QED
    BY <1>0, <2>1, MetDisplacement, ProbeWalks DEF Probing, SoughtAt
<1>11. CASE \E k \in Key : StartGet(k)
  BY <1>0, <1>11, ProbeStarts DEF StartGet, tableVars
<1>12. CASE HashnextReadsPut
  <2>1. iterPos < Len(log) /\ log \in Seq(Entry) /\ iterPos \in Nat
    BY <1>0, <1>12 DEF HashnextReadsPut, TypeOK
  <2>2. log[iterPos + 1] \in Entry
    BY <2>1
  <2>3. log[iterPos + 1].key \in Key
    BY <2>2 DEF Entry, PutEntries, DeleteEntries
  <2> QED
    BY <1>0, <1>12, <2>3, ProbeStarts DEF HashnextReadsPut, tableVars
<1>13. CASE UNCHANGED vars
  <2>1. Occupied' = Occupied /\ DispFn' = DispFn
    BY <1>13, TableUnchanged DEF vars, tableVars
  <2> QED
    BY <1>13, <2>1
    DEF MapInv, ProbeInv, Probing, SoughtAt, WantedSlot, vars, tableVars, probeVars
<1> QED
  BY <1>1, <1>3, <1>5, <1>6, <1>7, <1>9, <1>10, <1>11, <1>12, <1>13
  DEF Next, Scan, ReaderStep

\* What the table stands for stays the index of the absorbed entries.
LEMMA IndexFollows ==
  ASSUME MapInv, Settled \/ Absorbs
  PROVE  LivePointers' = LiveIn(AbsorbedLog)'
<1>0. LivePointers = LiveIn(AbsorbedLog) /\ AbsorbedLog \in Seq(Entry)
  BY AbsorbedFacts DEF MapInv, IndInv, IndexInv
<1>1. CASE Settled
  BY <1>0, <1>1 DEF Settled, LiveIn
<1>2. CASE Absorbs
  <2>1. LiveIn(Append(AbsorbedLog, Newest)) = LivePointers'
    BY <1>0, <1>2, LiveAppend DEF Absorbs, Remaining
  <2>2. LiveIn(AbsorbedLog)' = LiveIn(AbsorbedLog')
    BY DEF LiveIn
  <2> QED
    BY <1>2, <2>1, <2>2 DEF Absorbs
<1> QED
  BY <1>1, <1>2

\* The table points at the live entries.
LEMMA IndexStep == MapInv /\ [Next]_vars => IndexInv'
<1> SUFFICES ASSUME MapInv, [Next]_vars PROVE Settled \/ Absorbs
  BY IndexFollows DEF IndexInv
<1>1. CASE UNCHANGED vars
  <2>1. UNCHANGED <<table, capacity, log, op, fresh, pos, slot>>
    BY <1>1 DEF vars, tableVars, probeVars
  <2>2. Occupied' = Occupied /\ Hole' = Hole /\ Carried' = Carried /\ Pending' = Pending
    BY <2>1, TableUnchanged DEF Hole, Carried, Pending
  <2> QED
    BY <2>1, <2>2 DEF Settled, LivePointers, AbsorbedLog
<1> QED
  BY <1>1, ScanEffect, WriterEffect, ReadingSteps, ReadingEffect DEF Next, Scan

\* A key has one slot.
LEMMA KeyStep == MapInv /\ [Next]_vars => KeyInv'
<1> SUFFICES ASSUME MapInv, [Next]_vars PROVE KeyInv'
  OBVIOUS
<1>0. TypeOK /\ LoopMapInv /\ LoopInv /\ KeyInv /\ CallInv' /\ log \in Seq(Entry)
  BY MapLoop, CallInvStep DEF MapInv, IndInv, TypeOK
<1>1. CASE WriterStep
  BY <1>0, <1>1, LoopKeys
<1>2. ASSUME Occupied' = Occupied, Hole = {}, Hole' = {}, UNCHANGED table,
             \A s \in Occupied : log'[table[s].pos] = log[table[s].pos],
             op' # "put" \/ fresh'
      PROVE  KeyInv'
  <2>1. \A s \in Occupied : KeyAt(s)' = KeyAt(s)
    BY <1>2 DEF KeyAt
  <2>2. \A s, t \in Occupied' \ Hole' : KeyAt(s)' = KeyAt(t)' => s = t
    BY <1>0, <1>2, <2>1 DEF KeyInv
  <2> QED
    BY <1>0, <1>2, <2>2 DEF KeyInv, CallInv
<1>3. CASE Scan
  <2>1. PICK e \in Entry :
          /\ log' = Append(log, e)
          /\ StartProbe(e.type, e.key, keyHash[e.key],
                        IF e.type = "put" THEN Len(log) + 1 ELSE 0, TRUE)
    BY <1>0, <1>3, ScanFacts
  <2>2. \A s \in Occupied : table[s].pos \in DOMAIN log
    BY <1>0, PointedKey
  <2>3. \A p \in DOMAIN log : log'[p] = log[p]
    BY <1>0, <2>1
  <2>4. fresh'
    BY <2>1 DEF StartProbe
  <2> QED
    BY <1>2, <1>3, <2>2, <2>3, <2>4, ScanEffect
<1>4. CASE Reading
  BY <1>2, <1>4, ReadingEffect DEF Reading
<1>5. CASE UNCHANGED vars
  <2>1. UNCHANGED <<table, capacity, log, op, fresh, pos, slot, key>>
    BY <1>5 DEF vars, tableVars, probeVars
  <2>2. Occupied' = Occupied /\ Hole' = Hole /\ \A s \in Occupied : KeyAt(s)' = KeyAt(s)
    BY <2>1, TableUnchanged DEF Hole, KeyAt
  <2> QED
    BY <1>0, <2>1, <2>2 DEF KeyInv
<1> QED
  BY <1>1, <1>3, <1>4, <1>5, ReadingSteps DEF Next, Scan

\* Nothing is in the index before anything is read.
LEMMA MapInitInv == Init => MapInv
<1> SUFFICES ASSUME Init PROVE MapInv
  OBVIOUS
<1>1. op = "idle" /\ log = << >> /\ Occupied = {}
  BY DEF Init, Occupied, Empty, EmptySlot, Slots
<1>2. CallInv /\ ProbeInv /\ KeyInv
  BY <1>1 DEF CallInv, ProbeInv, KeyInv, Probing
<1>3. LivePointers = {} /\ AbsorbedLog = << >>
  BY <1>1 DEF LivePointers, Carried, AbsorbedLog, Pending
<1>4. LiveIn(<< >>) = {}
  BY DEF LiveIn
<1> QED
  BY <1>1, <1>2, <1>3, <1>4, InitInv DEF MapInv, IndexInv

-----------------------------------------------------------------------------
\* The invariant is inductive.
THEOREM MapInductive == Spec => []MapInv
<1>1. MapInv /\ [Next]_vars => MapInv'
  <2>1. IndInv /\ [Next]_vars => IndInv'
    BY TypeStep, PointersStep, OrderStep, CountStep DEF IndInv
  <2> QED
    BY <2>1, CallInvStep, ProbeStep, KeyStep, IndexStep DEF MapInv
<1> QED
  BY MapInitInv, <1>1, PTL DEF Spec

\* Between calls the table is the index of the whole log.
LEMMA IndexBetweenCalls ==
  ASSUME MapInv, op \notin {"put", "delete", "shift"}
  PROVE  /\ AbsorbedLog = log /\ Hole = {} /\ Carried = {}
         /\ LivePointers = LivePositions /\ Pointers(Occupied) = LivePositions
         /\ \A s, t \in Occupied : table[s].pos = table[t].pos => s = t
<1>1. AbsorbedLog = log /\ Hole = {} /\ Carried = {}
  BY DEF AbsorbedLog, Pending, Hole, Carried
<1>2. LivePointers = Pointers(Occupied)
  BY <1>1 DEF LivePointers, Pointers
<1>3. LivePositions = LiveIn(log)
  BY DEF LivePositions, LiveIn
<1>4. \A s, t \in Occupied : table[s].pos = table[t].pos => s = t
  BY <1>1 DEF MapInv, KeyInv, KeyAt
<1> QED
  BY <1>1, <1>2, <1>3, <1>4 DEF MapInv, IndexInv

\* After every call of hash_put and hash_delete, and for every reader, the
\* table has exactly one slot for each live entry of the log that was read.
THEOREM IndexCorrect == Spec => []IndexExact
<1>1. MapInv => IndexExact
  <2> SUFFICES ASSUME MapInv, op \in {"idle", "get", "hashnext", "probe"}
               PROVE  /\ {table[s].pos : s \in Occupied} = LivePositions
                      /\ Cardinality(Occupied) = Cardinality(LivePositions)
    BY DEF IndexExact
  <2>1. /\ {table[s].pos : s \in Occupied} = LivePositions
        /\ \A s, t \in Occupied : table[s].pos = table[t].pos => s = t
    BY IndexBetweenCalls DEF Pointers
  <2> DEFINE f == [s \in Occupied |-> table[s].pos]
  <2>2. f \in Bijection(Occupied, LivePositions)
    <3>1. f \in [Occupied -> LivePositions]
      BY <2>1
    <3>2. \A s, t \in Occupied : f[s] = f[t] => s = t
      BY <2>1
    <3>3. \A p \in LivePositions : \E s \in Occupied : f[s] = p
      BY <2>1
    <3> HIDE DEF f
    <3> QED
      BY <3>1, <3>2, <3>3, Fun_IsBij
  <2>3. IsFiniteSet(Occupied)
    BY MapLoop, OccupiedFinite
  <2>4. ExistsBijection(Occupied, LivePositions)
    BY <2>2 DEF ExistsBijection
  <2>5. Cardinality(Occupied) = Cardinality(LivePositions)
    BY <2>3, <2>4, FS_Bijection
  <2> QED
    BY <2>1, <2>5
<1> QED
  BY MapInductive, <1>1, PTL

\* An entry is live exactly if a slot of the table points at it.
LEMMA LiveIsPointed ==
  ASSUME MapInv, op \notin {"put", "delete", "shift"}
  PROVE  \A p : p \in LivePositions <=> \E s \in Occupied : table[s].pos = p
<1>1. LivePositions = {table[s].pos : s \in Occupied}
  BY IndexBetweenCalls DEF Pointers
<1> QED
  BY <1>1

\* A lookup that ends has found the live entry of its key, if there is one.
LEMMA GetReturns ==
  ASSUME MapInv, GetMiss \/ GetFound
  PROVE  IF \E p \in LivePositions : log[p].key = key
         THEN result' \in LivePositions /\ log[result'].key = key
         ELSE result' = 0
<1>1. CASE GetFound
  <2>1. op = "get" /\ ~Empty(slot) /\ Matches(slot) /\ result' = table[slot].pos
    BY <1>1 DEF GetFound
  <2>2. slot \in Occupied /\ SoughtAt(slot) /\ log[table[slot].pos].key = key
    BY <2>1, MapLoop, MetDisplacement, MatchesIsSought DEF Probing, Matches
  <2>3. result' \in LivePositions
    BY <2>1, <2>2, LiveIsPointed
  <2> QED
    BY <2>1, <2>2, <2>3
<1>2. CASE GetMiss
  <2>1. op = "get" /\ result' = 0
    BY <1>2 DEF GetMiss
  <2>2. slot \in Occupied => disp > DispFn[slot]
    BY <1>2, MapLoop, MetDisplacement DEF GetMiss, Occupied
  <2>3. \A t \in Occupied : ~SoughtAt(t)
    BY <2>1, <2>2, MapLoop, ProbeStops DEF Probing
  <2>4. \A p \in LivePositions : log[p].key # key
    BY <2>1, <2>3, LiveIsPointed DEF SoughtAt
  <2> QED
    BY <2>1, <2>4
<1> QED
  BY <1>1, <1>2

\* sparkey_hash_get returns the newest entry of its key, or a miss exactly
\* when the log has no live entry for it.
THEOREM GetCorrect == Spec => GetExact
<1>1. ASSUME MapInv, [Next]_vars, op = "get", op' = "idle"
      PROVE  GetMiss \/ GetFound
  <2>1. op # op'
    BY <1>1
  <2>2. ~UNCHANGED vars
    BY <2>1 DEF vars, probeVars
  <2>3. ~(Scan \/ Publish \/ (\E k \in Key : StartGet(k)) \/ StartHashnext \/ GetWalk)
    BY <1>1 DEF Scan, ScanPut, ScanDelete, Publish, StartGet, StartHashnext, GetWalk, Walk
  <2>4. ~WriterStep
    BY <1>1 DEF WriterStep, PutEmpty, PutReplace, PutSteal, PutWalk, DeleteMiss, DeleteFound,
                DeleteWalk, ShiftBack, ShiftEnd
  <2> QED
    BY <1>1, <2>2, <2>3, <2>4
    DEF Next, Scan, ReaderStep, HashnextClosed, HashnextSkipsDelete, HashnextReadsPut,
        ProbeFound, ProbeMiss, ProbeWalk
<1>2. MapInv /\ [Next]_vars =>
        (op = "get" /\ op' = "idle" =>
           IF \E p \in LivePositions : log[p].key = key
           THEN result' \in LivePositions /\ log[result'].key = key
           ELSE result' = 0)
  BY <1>1, GetReturns
<1> QED
  BY MapInductive, <1>2, PTL DEF Spec, GetExact

\* The inner loop of hashnext finds the entry exactly if it is live.
LEMMA ProbeReturns ==
  ASSUME MapInv
  PROVE  /\ ProbeMiss => pos \notin LivePositions
         /\ ProbeFound => pos \in LivePositions /\ result' = pos
<1>1. ASSUME ProbeFound PROVE pos \in LivePositions /\ result' = pos
  <2>1. op = "probe" /\ ~Empty(slot) /\ table[slot].pos = pos /\ result' = pos
    BY <1>1 DEF ProbeFound
  <2>2. slot \in Occupied
    BY <2>1, MapLoop, MetDisplacement
  <2> QED
    BY <2>1, <2>2, LiveIsPointed
<1>2. ASSUME ProbeMiss PROVE pos \notin LivePositions
  <2>1. op = "probe"
    BY <1>2 DEF ProbeMiss
  <2>2. slot \in Occupied => disp > DispFn[slot]
    BY <1>2, MapLoop, MetDisplacement DEF ProbeMiss, Occupied
  <2>3. \A t \in Occupied : ~SoughtAt(t)
    BY <2>1, <2>2, MapLoop, ProbeStops DEF Probing
  <2> QED
    BY <2>1, <2>3, LiveIsPointed DEF SoughtAt
<1> QED
  BY <1>1, <1>2

\* sparkey_logiter_hashnext stops at a PUT entry exactly if it is live.
THEOREM HashnextCorrect == Spec => HashnextExact
<1>1. ASSUME [Next]_vars, op = "probe", op' # "probe"
      PROVE  \/ ProbeMiss /\ op' = "hashnext"
             \/ ProbeFound /\ op' = "idle"
  <2>1. op # op'
    BY <1>1
  <2>2. ~UNCHANGED vars
    BY <2>1 DEF vars, probeVars
  <2>3. ~(Scan \/ Publish \/ (\E k \in Key : StartGet(k)) \/ StartHashnext \/ ProbeWalk)
    BY <1>1 DEF Scan, ScanPut, ScanDelete, Publish, StartGet, StartHashnext, ProbeWalk, Walk
  <2>4. ~WriterStep
    BY <1>1 DEF WriterStep, PutEmpty, PutReplace, PutSteal, PutWalk, DeleteMiss, DeleteFound,
                DeleteWalk, ShiftBack, ShiftEnd
  <2>5. ProbeMiss \/ ProbeFound
    BY <1>1, <2>2, <2>3, <2>4
    DEF Next, Scan, ReaderStep, HashnextClosed, HashnextSkipsDelete, HashnextReadsPut,
        GetMiss, GetFound, GetWalk
  <2> QED
    BY <2>5 DEF ProbeMiss, ProbeFound, Return
<1>2. MapInv /\ [Next]_vars =>
        /\ op = "probe" /\ op' = "hashnext" => pos \notin LivePositions
        /\ op = "probe" /\ op' = "idle" => pos \in LivePositions /\ result' = pos
  BY <1>1, ProbeReturns
<1> QED
  BY MapInductive, <1>2, PTL DEF Spec, HashnextExact

-----------------------------------------------------------------------------
(***************************************************************************)
(* The table implements the abstract index.                                *)
(***************************************************************************)
Unseen == UNCHANGED <<published, AskedKey, WalkCursor, result>>

\* A step that moves entries at most, and one that absorbs an entry.
LEMMA WriterMaps ==
  ASSUME MapInv, ~published, Unseen, Settled \/ Absorbs
  PROVE  [Map!MapNext]_(Map!mapVars)
<1>1. CASE Settled
  BY <1>1 DEF Settled, Unseen, Map!mapVars
<1>2. CASE Absorbs
  <2>1. Newest \in Entry /\ Map!Absorb(Newest)
    BY <1>2 DEF Absorbs, Remaining, Unseen, Map!Absorb
  <2> QED
    BY <2>1 DEF Map!MapNext
<1> QED
  BY <1>1, <1>2

\* Every loop iteration of the writer absorbs one entry or is not visible.
LEMMA WriterStepMaps ==
  ASSUME MapInv, Scan \/ WriterStep
  PROVE  [Map!MapNext]_(Map!mapVars)
<1>1. CASE Scan
  <2>1. TypeOK
    BY DEF MapInv, IndInv
  <2>2. UNCHANGED readVars /\ ~published /\ op = "idle" /\ op' \in {"put", "delete"}
    BY <1>1, <2>1, ScanFacts DEF Entry, PutEntries, DeleteEntries, StartProbe
  <2>3. Unseen
    BY <2>2 DEF Unseen, AskedKey, WalkCursor, readVars
  <2> QED
    BY <1>1, <2>2, <2>3, ScanEffect, WriterMaps
<1>2. ASSUME WriterStep PROVE ~published /\ Unseen
  <2>1. op \in {"put", "delete", "shift"}
    BY <1>2 DEF WriterStep, PutEmpty, PutReplace, PutSteal, PutWalk, DeleteMiss, DeleteFound,
                DeleteWalk, ShiftBack, ShiftEnd
  <2>2. UNCHANGED readVars /\ op' \in {"put", "delete", "shift", "idle"}
    BY <1>2 DEF WriterStep, PutEmpty, PutReplace, PutSteal, PutWalk, DeleteMiss, DeleteFound,
                DeleteWalk, ShiftBack, ShiftEnd, Return, Walk
  <2> QED
    BY <2>1, <2>2 DEF MapInv, CallInv, Unseen, AskedKey, WalkCursor, readVars
<1>3. CASE WriterStep
  <2>1. Settled \/ Absorbs
    BY <1>3, WriterEffect
  <2> QED
    BY <1>2, <1>3, <2>1, WriterMaps
<1> QED
  BY <1>1, <1>3

\* Lookups: the call asks, its return tells, the walk is not visible.
LEMMA GetMaps ==
  ASSUME MapInv, (\E k \in Key : StartGet(k)) \/ GetMiss \/ GetFound \/ GetWalk
  PROVE  [Map!MapNext]_(Map!mapVars)
<1>0. Reading /\ Settled /\ op \in {"idle", "get"}
  BY ReadingSteps, ReadingEffect DEF ReaderStep, StartGet, GetMiss, GetFound, GetWalk
<1>1. ASSUME NEW k \in Key, StartGet(k) PROVE Map!Ask(k)
  BY <1>0, <1>1 DEF StartGet, StartProbe, readVars, AskedKey, WalkCursor, Settled, Map!Ask
<1>2. CASE GetWalk
  BY <1>0, <1>2 DEF GetWalk, Walk, readVars, AskedKey, WalkCursor, Settled, Map!mapVars
<1>3. CASE GetMiss \/ GetFound
  <2>1. /\ op = "get" /\ op' = "idle" /\ UNCHANGED <<published, iterPos>>
    BY <1>3 DEF GetMiss, GetFound, Return
  <2>2. AskedKey = key /\ AskedKey' = NoKey /\ WalkCursor' = WalkCursor /\ AskedKey # NoKey
    BY <2>1, KeyAssumption DEF AskedKey, WalkCursor, MapInv, ProbeInv, Probing
  <2>3. IF \E p \in LivePositions : log[p].key = key
        THEN result' \in LivePositions /\ log[result'].key = key
        ELSE result' = 0
    BY <1>3, GetReturns
  <2>4. LivePointers = LivePositions /\ AbsorbedLog = log
    BY <2>1, IndexBetweenCalls
  <2>5. Map!Tell
    BY <1>0, <2>1, <2>2, <2>3, <2>4 DEF Map!Tell, Settled
  <2> QED
    BY <2>5 DEF Map!MapNext
<1> QED
  BY <1>1, <1>2, <1>3 DEF Map!MapNext

\* Walks: the entry that is looked up is passed when its probe ends.
LEMMA HashnextMaps ==
  ASSUME MapInv, \/ StartHashnext \/ HashnextClosed \/ HashnextSkipsDelete
                 \/ HashnextReadsPut \/ ProbeFound \/ ProbeMiss \/ ProbeWalk
  PROVE  [Map!MapNext]_(Map!mapVars)
<1>0. /\ Reading /\ Settled
      /\ op \in {"idle", "hashnext", "probe"} /\ op' \in {"idle", "hashnext", "probe"}
      /\ published' = published /\ AskedKey = NoKey /\ AskedKey' = NoKey
  <2>1. Reading /\ Settled
    BY ReadingSteps, ReadingEffect DEF ReaderStep
  <2>2. CASE StartHashnext \/ HashnextClosed \/ HashnextSkipsDelete \/ HashnextReadsPut
    BY <2>1, <2>2 DEF StartHashnext, HashnextClosed, HashnextSkipsDelete, HashnextReadsPut,
                      Return, StartProbe, probeVars, readVars, AskedKey
  <2>3. CASE ProbeFound \/ ProbeMiss \/ ProbeWalk
    BY <2>1, <2>3 DEF ProbeFound, ProbeMiss, ProbeWalk, Return, Walk, readVars, AskedKey
  <2> QED
    BY <2>2, <2>3
<1>1. /\ LivePointers = LivePositions /\ AbsorbedLog = log /\ iterPos \in Nat
      /\ Len(log) \in Nat /\ DOMAIN log = 1 .. Len(log)
  BY <1>0, IndexBetweenCalls DEF MapInv, IndInv, TypeOK
<1>2. ASSUME UNCHANGED <<WalkCursor, result>> PROVE UNCHANGED Map!mapVars
  BY <1>0, <1>2 DEF Settled, Map!mapVars
<1>3. ASSUME published, WalkCursor' = WalkCursor + 1,
             \/ WalkCursor + 1 \in LivePositions /\ result' = WalkCursor + 1
             \/ WalkCursor < Len(log) /\ WalkCursor + 1 \notin LivePositions /\ result' = result
             \/ WalkCursor = Len(log) /\ result' = 0
      PROVE  Map!MapNext
  <2>1. Map!WalkStops \/ Map!WalkPasses \/ Map!WalkEnds
    BY <1>1, <1>3 DEF Map!WalkStops, Map!WalkPasses, Map!WalkEnds
  <2>2. Map!WalkOn
    BY <1>0, <1>3, <2>1 DEF Map!WalkOn, Settled
  <2> QED
    BY <2>2 DEF Map!MapNext
<1>4. CASE StartHashnext
  BY <1>2, <1>4 DEF StartHashnext, readVars, WalkCursor
<1>5. CASE HashnextClosed
  <2>1. published /\ op = "hashnext" /\ op' = "idle" /\ iterPos' = iterPos + 1
        /\ iterPos = Len(log) /\ result' = 0
    BY <1>5 DEF HashnextClosed, Return, MapInv, CallInv
  <2> QED
    BY <1>3, <2>1 DEF WalkCursor
<1>6. CASE HashnextSkipsDelete
  <2>1. published /\ op = "hashnext" /\ op' = "hashnext" /\ iterPos' = iterPos + 1
        /\ iterPos < Len(log) /\ result' = result /\ log[iterPos + 1].type = "delete"
    BY <1>6 DEF HashnextSkipsDelete, probeVars, MapInv, CallInv
  <2>2. iterPos + 1 \notin LivePositions
    BY <2>1 DEF LivePositions
  <2> QED
    BY <1>3, <2>1, <2>2 DEF WalkCursor
<1>7. CASE HashnextReadsPut
  <2>1. op = "hashnext" /\ op' = "probe" /\ iterPos' = iterPos + 1 /\ result' = result
    BY <1>7 DEF HashnextReadsPut, StartProbe
  <2>2. WalkCursor' = WalkCursor
    BY <1>1, <2>1 DEF WalkCursor
  <2> QED
    BY <1>2, <2>1, <2>2
<1>8. ASSUME ProbeFound \/ ProbeMiss
      PROVE  /\ published /\ WalkCursor' = WalkCursor + 1 /\ WalkCursor + 1 = pos
             /\ WalkCursor < Len(log)
  <2>1. /\ op = "probe" /\ op' # "probe" /\ iterPos' = iterPos
        /\ published /\ pos = iterPos /\ pos \in DOMAIN log
    BY <1>8 DEF ProbeFound, ProbeMiss, Return, readVars, MapInv, CallInv
  <2> QED
    BY <1>1, <2>1 DEF WalkCursor
<1>9. CASE ProbeFound
  BY <1>3, <1>8, <1>9, ProbeReturns
<1>10. CASE ProbeMiss
  <2>1. result' = result
    BY <1>10 DEF ProbeMiss, readVars
  <2> QED
    BY <1>3, <1>8, <1>10, <2>1, ProbeReturns
<1>11. CASE ProbeWalk
  BY <1>2, <1>11 DEF ProbeWalk, Walk, readVars, WalkCursor
<1> QED
  BY <1>4, <1>5, <1>6, <1>7, <1>9, <1>10, <1>11

\* The robin hood table implements the abstract index: every iteration of a
\* probe loop, of the shift loop or of the scan is one of its steps or leaves
\* it as it is.
THEOREM Refinement == Spec => ImplementsMap
<1>1. Init => Map!MapInit
  <2> SUFFICES ASSUME Init PROVE Map!MapInit
    OBVIOUS
  <2>1. op = "idle" /\ log = << >> /\ Occupied = {} /\ iterPos = 0 /\ result = 0 /\ published = FALSE
    BY DEF Init, Occupied, Empty, EmptySlot, Slots
  <2> QED
    BY <2>1 DEF Map!MapInit, LivePointers, Carried, AbsorbedLog, Pending, WalkCursor, AskedKey
<1>2. MapInv /\ [Next]_vars => [Map!MapNext]_(Map!mapVars)
  <2> SUFFICES ASSUME MapInv, [Next]_vars PROVE [Map!MapNext]_(Map!mapVars)
    OBVIOUS
  <2>1. CASE UNCHANGED vars
    <3>1. UNCHANGED <<table, capacity, log, probeVars, readVars>>
      BY <2>1 DEF vars, tableVars
    <3>2. Occupied' = Occupied
      BY <3>1, TableUnchanged
    <3> QED
      BY <3>1, <3>2 DEF probeVars, readVars, Map!mapVars, LivePointers, Hole, Carried,
                        AbsorbedLog, Pending, WalkCursor, AskedKey
  <2>2. CASE Publish
    <3>1. Settled
      BY <2>2, ReadingSteps, ReadingEffect
    <3>2. Map!Open
      BY <2>2, <3>1 DEF Publish, probeVars, Settled, Map!Open, AskedKey, WalkCursor
    <3> QED
      BY <3>2 DEF Map!MapNext
  <2> QED
    BY <2>1, <2>2, WriterStepMaps, GetMaps, HashnextMaps DEF Next, Scan, ReaderStep
<1> QED
  BY <1>1, <1>2, MapInductive, PTL DEF Spec, ImplementsMap, Map!MapSpec

-----------------------------------------------------------------------------
(***************************************************************************)
(* The header of the hash file.                                            *)
(***************************************************************************)

\* A displaced entry has a taken slot for every step of its displacement.
LEMMA DisplacementBound ==
  ASSUME LoopInv, NEW s \in Occupied
  PROVE  DispFn[s] <= Cardinality(Occupied)
<1> DEFINE d == DispFn[s]
           f == [i \in 1 .. d |-> IF s >= i THEN s - i ELSE capacity + s - i]
<1>1. /\ LoopTypes /\ capacity \in Nat \ {0} /\ s \in 0 .. capacity - 1 /\ d \in 0 .. capacity - 1
      /\ Ordered(capacity, Occupied, DispFn) /\ Occupied \subseteq 0 .. capacity - 1
  BY SlotFacts DEF LoopInv, OrderInv
<1>2. IsFiniteSet(Occupied) /\ Cardinality(Occupied) \in Nat
  BY <1>1, OccupiedFinite
<1> HIDE DEF d
<1>3. ASSUME NEW i \in 1 .. d PROVE f[i] \in 0 .. capacity - 1 /\ RingDist(capacity, f[i], s) = i
  BY <1>1 DEF RingDist
<1>4. f \in [1 .. d -> Occupied]
  <2> SUFFICES ASSUME NEW i \in 1 .. d PROVE f[i] \in Occupied
    OBVIOUS
  <2>1. f[i] \in 0 .. capacity - 1 /\ RingDist(capacity, f[i], s) <= DispFn[s]
    BY <1>3 DEF d
  <2> QED
    BY <1>1, <2>1 DEF Ordered
<1>5. \A i, j \in 1 .. d : f[i] = f[j] => i = j
  BY <1>3
<1>6. f \in Injection(1 .. d, Occupied)
  <2> HIDE DEF f
  <2> QED
    BY <1>4, <1>5, Fun_IsInj
<1>7. Cardinality(1 .. d) <= Cardinality(Occupied)
  BY <1>2, <1>6, FS_Injection
<1>8. Cardinality(1 .. d) = d
  <2>1. 1 \in Int /\ d \in Int /\ (IF 1 > d THEN 0 ELSE d - 1 + 1) = d
    BY <1>1
  <2> QED
    BY <2>1, FS_Interval
<1> QED
  BY <1>7, <1>8 DEF d

\* A collision is counted at the second of two slots, the first is taken.
LEMMA CollisionBound ==
  ASSUME LoopInv
  PROVE  HashCollisions \in Nat /\ HashCollisions <= Cardinality(Occupied)
<1> DEFINE A == {s \in Slots \ {0} : s - 1 \in Occupied /\ table[s - 1].hash = table[s].hash}
           B == Occupied \ {capacity - 1}
           f == [s \in A |-> s - 1]
<1>1. /\ LoopTypes /\ capacity \in Nat \ {0} /\ Slots = 0 .. capacity - 1
      /\ IsFiniteSet(Occupied) /\ Cardinality(Occupied) \in Nat
  BY SlotFacts, OccupiedFinite DEF LoopInv
<1>2. f \in [A -> B] /\ \A s, t \in A : f[s] = f[t] => s = t
  BY <1>1
<1>3. IsFiniteSet(B) /\ Cardinality(B) \in Nat
      /\ Cardinality(B) = IF capacity - 1 \in Occupied THEN Cardinality(Occupied) - 1
                          ELSE Cardinality(Occupied)
  <2>1. IsFiniteSet(B)
    BY <1>1, FS_RemoveElement
  <2>2. Cardinality(B) \in Nat
    BY <2>1, FS_CardinalityType
  <2> QED
    BY <1>1, <2>1, <2>2, FS_RemoveElement
<1>4. Cardinality(A) \in Nat /\ Cardinality(A) <= Cardinality(B)
  <2> HIDE DEF A, B, f
  <2>1. f \in Injection(A, B)
    BY <1>2, Fun_IsInj
  <2>2. IsFiniteSet(A) /\ Cardinality(A) <= Cardinality(B)
    BY <1>3, <2>1, FS_Injection
  <2> QED
    BY <2>2, FS_CardinalityType
<1>5. HashCollisions = Cardinality(A) + IF /\ {0, capacity - 1} \subseteq Occupied
                                          /\ table[0].hash = table[capacity - 1].hash
                                       THEN 1 ELSE 0
  BY DEF HashCollisions
<1> HIDE DEF A, B
<1>6. CASE capacity - 1 \in Occupied
  BY <1>1, <1>3, <1>4, <1>5, <1>6
<1>7. CASE capacity - 1 \notin Occupied
  <2>1. ~({0, capacity - 1} \subseteq Occupied)
    BY <1>7
  <2> QED
    BY <1>1, <1>3, <1>4, <1>5, <1>7, <2>1
<1> QED
  BY <1>6, <1>7

\* The header that is written passes the checks of hashheader_version0.
THEOREM HeaderCorrect == Spec => []HeaderLoadable
<1>1. Init => HeaderLoadable
  BY DEF Init, HeaderLoadable
<1>2. IndInv /\ HeaderLoadable /\ [Next]_vars => HeaderLoadable'
  <2> SUFFICES ASSUME IndInv, HeaderLoadable, [Next]_vars PROVE HeaderLoadable'
    OBVIOUS
  <2>1. CASE Publish
    <3>1. PICK d \in Slots :
            /\ IsMaxDisplacement(d)
            /\ header' = [maxDisp |-> d, collisions |-> HashCollisions, entries |-> numEntries]
      BY <2>1 DEF Publish
    <3>2. /\ Scanned("put") = numPuts /\ numPuts' = numPuts /\ numEntries \in Nat
          /\ numEntries = Cardinality(Occupied) /\ numEntries <= numPuts
      BY <2>1 DEF Publish, tableVars, IndInv, CountInv, TypeOK
    <3>3. d <= numEntries
      <4>1. CASE d = 0
        BY <3>2, <4>1
      <4>2. ASSUME NEW s \in Occupied, SlotDisplacement(s) = d PROVE d <= numEntries
        <5>1. s \in Slots
          BY DEF Occupied
        <5>2. DispFn[s] = d
          BY <4>2, <5>1 DEF DispFn
        <5> QED
          BY <3>2, <5>2, IndLoop, DisplacementBound
      <4> QED
        BY <3>1, <4>1, <4>2 DEF IsMaxDisplacement
    <3>4. HashCollisions <= numEntries
      BY <3>2, IndLoop, CollisionBound
    <3> QED
      BY <3>1, <3>2, <3>3, <3>4 DEF HeaderLoadable
  <2>2. CASE UNCHANGED <<published, header, numPuts>>
    BY <2>2 DEF HeaderLoadable
  <2>4. CASE (\E k \in Key, v \in ValueLens : ScanPut(k, v)) \/ \E k \in Key : ScanDelete(k)
    BY <2>2, <2>4 DEF ScanPut, ScanDelete, readVars
  <2>5. CASE WriterStep
    BY <2>2, <2>5 DEF WriterStep, PutEmpty, PutReplace, PutSteal, PutWalk, DeleteMiss,
                      DeleteFound, DeleteWalk, ShiftBack, ShiftEnd, readVars, tableVars
  <2>6. CASE (\E k \in Key : StartGet(k)) \/ StartHashnext
    BY <2>2, <2>6 DEF StartGet, StartHashnext, readVars, tableVars
  <2>7. CASE ReaderStep
    BY <2>2, <2>7 DEF ReaderStep, GetMiss, GetFound, GetWalk, HashnextClosed,
                      HashnextSkipsDelete, HashnextReadsPut, ProbeFound, ProbeMiss, ProbeWalk,
                      readVars, tableVars
  <2>8. CASE UNCHANGED vars
    BY <2>2, <2>8 DEF vars, readVars, tableVars
  <2> QED
    BY <2>1, <2>4, <2>5, <2>6, <2>7, <2>8 DEF Next
<1> QED
  BY Inductive, <1>1, <1>2, PTL DEF Spec

-----------------------------------------------------------------------------
(***************************************************************************)
(* Sums over finite sets, as MapThenSumSet computes them: the numbers g[x] *)
(* for all x in a set.                                                     *)
(***************************************************************************)
Some(s) == CHOOSE x \in s : TRUE
IsTotal(f, g, S) ==
  f = [s \in SUBSET S |-> IF s = {} THEN 0 ELSE g[Some(s)] + f[s \ {Some(s)}]]
Total(g, S) == (CHOOSE f : IsTotal(f, g, S))[S]

\* A property of finite sets that passes from the subsets to the set holds
\* for all: there is no smallest set without it.
LEMMA SubsetInduction ==
  ASSUME NEW S, NEW Good, IsFiniteSet(S),
         \A s \in SUBSET S : (\A t \in SUBSET s : t # s => t \in Good) => s \in Good
  PROVE  S \in Good
<1> DEFINE B == {s \in SUBSET S : s \notin Good}
           R == StrictSubsetOrdering(S)
<1> SUFFICES ASSUME B # {} PROVE FALSE
  OBVIOUS
<1>1. B \subseteq FiniteSubsetsOf(S)
  BY FS_Subset DEF FiniteSubsetsOf
<1>2. IsWellFoundedOn(R, FiniteSubsetsOf(S))
  BY FS_StrictSubsetOrderingWellFounded
<1>3. PICK s \in B : \A t \in B : ~(<<t, s>> \in R)
  <2> HIDE DEF B, R
  <2> QED
    BY <1>1, <1>2, WFMin
<1>4. \A t \in SUBSET s : t # s => t \in Good
  <2> SUFFICES ASSUME NEW t \in SUBSET s, t # s, t \notin Good PROVE FALSE
    OBVIOUS
  <2>1. t \in B
    OBVIOUS
  <2>2. <<t, s>> \in R
    BY DEF StrictSubsetOrdering
  <2> QED
    BY <1>3, <2>1, <2>2
<1> QED
  BY <1>4

\* The chosen element is one.
LEMMA SomeIn ==
  ASSUME NEW s, s # {}
  PROVE  Some(s) \in s /\ s \ {Some(s)} \in SUBSET s /\ s \ {Some(s)} # s
<1>1. \E x \in s : TRUE
  OBVIOUS
<1>2. Some(s) \in s
  BY <1>1 DEF Some
<1> QED
  BY <1>2

\* The sums of the subsets do not depend on the set, nor on the numbers of
\* others.
LEMMA TotalUnique ==
  ASSUME NEW S, NEW T, NEW f, NEW h, NEW g, NEW k, IsTotal(f, g, S), IsTotal(h, k, T),
         NEW u, IsFiniteSet(u), u \subseteq S, u \subseteq T, \A x \in u : g[x] = k[x]
  PROVE  f[u] = h[u]
<1> DEFINE Good == {s \in SUBSET u : f[s] = h[s]}
<1>1. ASSUME NEW s \in SUBSET u, \A t \in SUBSET s : t # s => t \in Good
      PROVE  s \in Good
  <2>1. s \in SUBSET S /\ s \in SUBSET T
    OBVIOUS
  <2>2. /\ f[s] = IF s = {} THEN 0 ELSE g[Some(s)] + f[s \ {Some(s)}]
        /\ h[s] = IF s = {} THEN 0 ELSE k[Some(s)] + h[s \ {Some(s)}]
    BY <2>1 DEF IsTotal
  <2>3. CASE s = {}
    BY <2>2, <2>3
  <2>4. CASE s # {}
    <3>1. Some(s) \in u /\ s \ {Some(s)} \in Good
      BY <1>1, <2>4, SomeIn
    <3> QED
      BY <2>2, <2>4, <3>1
  <2> QED
    BY <2>3, <2>4
<1> HIDE DEF Good
<1>2. u \in Good
  BY <1>1, SubsetInduction
<1> QED
  BY <1>2 DEF Good

\* The sums exist.
LEMMA TotalExists ==
  ASSUME NEW S, NEW g, IsFiniteSet(S)
  PROVE  \E f : IsTotal(f, g, S)
<1> DEFINE Good == {s \in SUBSET S : \E f : IsTotal(f, g, s)}
<1>1. ASSUME NEW s \in SUBSET S, \A t \in SUBSET s : t # s => t \in Good
      PROVE  s \in Good
  <2> DEFINE F == [t \in SUBSET s |-> IF t = s
                     THEN (IF s = {} THEN 0 ELSE g[Some(s)] + Total(g, s \ {Some(s)}))
                     ELSE Total(g, t)]
  <2>1. ASSUME NEW t \in SUBSET s
        PROVE  F[t] = IF t = {} THEN 0 ELSE g[Some(t)] + F[t \ {Some(t)}]
    <3>1. t # {} => t \ {Some(t)} # s /\ t \ {Some(t)} \in SUBSET s /\ Some(t) \in t
      BY SomeIn
    <3>2. t # {} => F[t \ {Some(t)}] = Total(g, t \ {Some(t)})
      BY <3>1
    <3>3. CASE t = s
      BY <3>2, <3>3
    <3>4. CASE t # s
      <4> DEFINE h(r) == CHOOSE f : IsTotal(f, g, r)
      <4>1. ASSUME NEW r \in SUBSET s, r # s PROVE IsTotal(h(r), g, r)
        BY <1>1, <4>1
      <4>2. IsTotal(h(t), g, t) /\ Total(g, t) = h(t)[t]
        BY <3>4, <4>1 DEF Total
      <4>3. h(t)[t] = IF t = {} THEN 0 ELSE g[Some(t)] + h(t)[t \ {Some(t)}]
        <5> HIDE DEF h
        <5> QED
          BY <4>2 DEF IsTotal
      <4>4. ASSUME t # {} PROVE h(t)[t \ {Some(t)}] = Total(g, t \ {Some(t)})
        <5> DEFINE u == t \ {Some(t)}
        <5>1. IsTotal(h(u), g, u) /\ Total(g, u) = h(u)[u] /\ u \subseteq t /\ IsFiniteSet(u)
          BY <3>1, <4>1, <4>4, FS_Subset DEF Total
        <5> HIDE DEF h, u
        <5>2. h(t)[u] = h(u)[u]
          BY <4>2, <5>1, TotalUnique
        <5> QED
          BY <5>1, <5>2 DEF u
      <4> HIDE DEF h
      <4>5. F[t] = Total(g, t)
        BY <3>4
      <4> QED
        BY <3>2, <4>2, <4>3, <4>4, <4>5
    <3> QED
      BY <3>3, <3>4
  <2>2. F = [t \in SUBSET s |-> F[t]]
    OBVIOUS
  <2> HIDE DEF F
  <2>3. IsTotal(F, g, s)
    BY <2>1, <2>2 DEF IsTotal
  <2> QED
    BY <2>3
<1> HIDE DEF Good
<1>2. S \in Good
  BY <1>1, SubsetInduction
<1> QED
  BY <1>2 DEF Good

\* The sum of a set is that of its subset without the chosen element, and
\* that element's number.
LEMMA TotalStep ==
  ASSUME NEW S, NEW g, IsFiniteSet(S)
  PROVE  Total(g, S) = IF S = {} THEN 0 ELSE g[Some(S)] + Total(g, S \ {Some(S)})
<1> DEFINE h(r) == CHOOSE f : IsTotal(f, g, r)
<1>1. IsTotal(h(S), g, S) /\ Total(g, S) = h(S)[S]
  BY TotalExists DEF Total
<1>2. h(S)[S] = IF S = {} THEN 0 ELSE g[Some(S)] + h(S)[S \ {Some(S)}]
  <2> HIDE DEF h
  <2> QED
    BY <1>1 DEF IsTotal
<1> DEFINE u == S \ {Some(S)}
<1>3. IsFiniteSet(u) /\ u \subseteq S
  BY FS_Subset
<1>4. IsTotal(h(u), g, u) /\ Total(g, u) = h(u)[u]
  BY <1>3, TotalExists DEF Total
<1> HIDE DEF h, u
<1>5. h(S)[u] = h(u)[u]
  BY <1>1, <1>3, <1>4, TotalUnique
<1> QED
  BY <1>1, <1>2, <1>4, <1>5 DEF u

\* Only the numbers of the set count.
LEMMA TotalLocal ==
  ASSUME NEW S, NEW g, NEW k, IsFiniteSet(S), \A x \in S : g[x] = k[x]
  PROVE  Total(g, S) = Total(k, S)
<1> DEFINE f == CHOOSE e : IsTotal(e, g, S)
           h == CHOOSE e : IsTotal(e, k, S)
<1>1. IsTotal(f, g, S) /\ IsTotal(h, k, S)
  BY TotalExists
<1>2. Total(g, S) = f[S] /\ Total(k, S) = h[S]
  BY DEF Total
<1> HIDE DEF f, h
<1> QED
  BY <1>1, <1>2, TotalUnique

\* Any element can be taken out.
LEMMA TotalRemove ==
  ASSUME NEW S, NEW g, IsFiniteSet(S), \A x \in S : g[x] \in Nat
  PROVE  /\ Total(g, S) \in Nat
         /\ \A x \in S : Total(g, S) = g[x] + Total(g, S \ {x}) /\ Total(g, S \ {x}) \in Nat
<1> DEFINE Q(s) == /\ Total(g, s) \in Nat
                   /\ \A x \in s : /\ Total(g, s) = g[x] + Total(g, s \ {x})
                                   /\ Total(g, s \ {x}) \in Nat
           Good == {s \in SUBSET S : Q(s)}
<1>1. ASSUME NEW s \in SUBSET S, \A t \in SUBSET s : t # s => t \in Good
      PROVE  s \in Good
  <2>0. IsFiniteSet(s)
    BY FS_Subset
  <2>1. CASE s = {}
    BY <2>0, <2>1, TotalStep
  <2>2. CASE s # {}
    <3> DEFINE c == Some(s)
    <3>1. c \in s /\ s \ {c} \in Good /\ g[c] \in Nat
      BY <1>1, <2>2, SomeIn
    <3>2. Total(g, s) = g[c] + Total(g, s \ {c}) /\ Total(g, s \ {c}) \in Nat
      BY <2>0, <2>2, <3>1, TotalStep
    <3>3. ASSUME NEW x \in s, x # c
          PROVE  Total(g, s) = g[x] + Total(g, s \ {x}) /\ Total(g, s \ {x}) \in Nat
      <4>1. s \ {x} \in Good /\ c \in s \ {x} /\ x \in s \ {c} /\ g[x] \in Nat
        BY <1>1, <3>1, <3>3
      <4>2. (s \ {x}) \ {c} = (s \ {c}) \ {x}
        OBVIOUS
      <4>3. /\ Total(g, s \ {c}) = g[x] + Total(g, (s \ {c}) \ {x})
            /\ Total(g, (s \ {c}) \ {x}) \in Nat
        BY <3>1, <4>1
      <4>4. Total(g, s \ {x}) = g[c] + Total(g, (s \ {c}) \ {x}) /\ Total(g, s \ {x}) \in Nat
        BY <4>1, <4>2
      <4> HIDE DEF c, Good
      <4> QED
        BY <3>1, <3>2, <4>1, <4>3, <4>4
    <3>4. Total(g, s) \in Nat
      BY <3>1, <3>2
    <3> HIDE DEF c
    <3>5. Q(s)
      BY <3>2, <3>3, <3>4
    <3> QED
      BY <3>5
  <2> QED
    BY <2>1, <2>2
<1>2. S \in Good
  <2> HIDE DEF Good
  <2> QED
    BY <1>1, SubsetInduction
<1> QED
  BY <1>2

\* So can one be added.
LEMMA TotalAdd ==
  ASSUME NEW S, NEW g, IsFiniteSet(S), \A x \in S : g[x] \in Nat, NEW y, y \notin S, g[y] \in Nat
  PROVE  Total(g, S \cup {y}) = Total(g, S) + g[y] /\ Total(g, S) \in Nat
<1>1. IsFiniteSet(S \cup {y}) /\ \A x \in S \cup {y} : g[x] \in Nat
  BY FS_AddElement
<1>2. (S \cup {y}) \ {y} = S /\ y \in S \cup {y}
  OBVIOUS
<1>3. Total(g, S \cup {y}) = g[y] + Total(g, S) /\ Total(g, S) \in Nat
  BY <1>1, <1>2, TotalRemove
<1> QED
  BY <1>3

(***************************************************************************)
(* The sizes of the entries.                                               *)
(***************************************************************************)

LogSizes == [p \in DOMAIN log |-> SizeAt(p)]
SizeOf(S) == Total(LogSizes, S)

\* The sums of the properties are these.
LEMMA SumIsTotal ==
  ASSUME NEW S, IsFiniteSet(S), S \subseteq DOMAIN log
  PROVE  MapThenSumSet(SizeAt, S) = SizeOf(S)
<1> DEFINE P(e) == e = [s \in SUBSET S |-> IF s = {} THEN 0
                          ELSE SizeAt(Some(s)) + e[s \ {Some(s)}]]
<1>1. \A s \in SUBSET S : s # {} => SizeAt(Some(s)) = LogSizes[Some(s)]
  BY SomeIn DEF LogSizes
<1>2. \A e : P(e) <=> IsTotal(e, LogSizes, S)
  <2> SUFFICES ASSUME NEW e PROVE P(e) <=> IsTotal(e, LogSizes, S)
    OBVIOUS
  <2>1. [s \in SUBSET S |-> IF s = {} THEN 0 ELSE SizeAt(Some(s)) + e[s \ {Some(s)}]]
          = [s \in SUBSET S |-> IF s = {} THEN 0 ELSE LogSizes[Some(s)] + e[s \ {Some(s)}]]
    BY <1>1
  <2> QED
    BY <2>1 DEF IsTotal
<1> DEFINE f == CHOOSE e : P(e)
           h == CHOOSE e : IsTotal(e, LogSizes, S)
<1>3. MapThenSumSet(SizeAt, S) = f[S]
  BY DEF MapThenSumSet, MapThenFoldSet, Some
<1>4. IsTotal(h, LogSizes, S)
  BY TotalExists
<1>5. P(f)
  <2>1. \E e : P(e)
    <3> HIDE DEF P, h
    <3> QED
      BY <1>2, <1>4
  <2> HIDE DEF P
  <2> QED
    BY <2>1
<1> HIDE DEF P, h, f
<1>6. f[S] = h[S]
  BY <1>2, <1>4, <1>5, TotalUnique
<1> QED
  BY <1>3, <1>6 DEF SizeOf, Total, h

\* They are numbers, those that the hash writer counts.
LEMMA SizeFacts ==
  ASSUME log \in Seq(Entry)
  PROVE  /\ DOMAIN log = 1 .. Len(log) /\ IsFiniteSet(DOMAIN log)
         /\ \A p \in DOMAIN log : LogSizes[p] = EntrySize(log[p]) /\ LogSizes[p] \in Nat
<1>1. DOMAIN log = 1 .. Len(log) /\ Len(log) \in Nat /\ \A p \in DOMAIN log : log[p] \in Entry
  OBVIOUS
<1>2. IsFiniteSet(1 .. Len(log))
  BY <1>1, FS_Interval
<1> QED
  BY <1>1, <1>2, EntrySizeType, SizesAgree DEF LogSizes, SizeAt

\* The pointers that count are to entries of the log.
LEMMA LiveInLog ==
  ASSUME LoopInv
  PROVE  LivePointers \subseteq DOMAIN log /\ (op = "put" => pos \in DOMAIN log)
BY DEF LoopInv, PointersArePuts, IsPutPointer, LivePointers, Carried

\* What is to be counted as garbage or to be pointed at before the call
\* returns: the entry that is about to be placed, or the deleted one.
Owed == IF (Pending /\ op = "put") \/ op = "shift" THEN LogSizes[pos] ELSE 0
Accounted == garbage + SizeOf(LivePointers) + Owed

\* An iteration of a loop neither loses nor invents a byte.
LEMMA LoopGarbage ==
  ASSUME LoopMapInv, WriterStep
  PROVE  Accounted' = Accounted
<1>0. /\ LoopInv /\ LoopTypes /\ KeyInv /\ log' = log /\ LogSizes' = LogSizes
      /\ \A S : SizeOf(S)' = SizeOf(S)
      /\ log \in Seq(Entry) /\ garbage \in Nat
  BY WriterKeeps DEF LoopMapInv, LoopInv, LoopTypes, LogSizes, SizeAt, SizeOf
<1> DEFINE L == LivePointers
           N(p) == LogSizes[p]
<1>1. /\ L \subseteq DOMAIN log /\ IsFiniteSet(L)
      /\ \A p \in DOMAIN log : N(p) = EntrySize(log[p]) /\ N(p) \in Nat
  BY <1>0, SizeFacts, LiveInLog, FS_Subset
<1>2. SizeOf(L) \in Nat
  BY <1>1, TotalRemove DEF SizeOf
<1>3. ASSUME NEW p \in DOMAIN log, p \notin L
      PROVE  SizeOf(L \cup {p}) = SizeOf(L) + N(p)
  BY <1>1, <1>3, TotalAdd DEF SizeOf
<1>4. ASSUME NEW p \in L
      PROVE  SizeOf(L) = N(p) + SizeOf(L \ {p}) /\ SizeOf(L \ {p}) \in Nat
  BY <1>1, <1>4, TotalRemove DEF SizeOf
<1>5. CASE (PutEmpty \/ PutSteal \/ PutReplace) /\ fresh
  <2>1. /\ Takes /\ op = "put" /\ Pending /\ Owed = N(pos) /\ Owed' = 0 /\ pos \in DOMAIN log
        /\ log[pos].key = key /\ Kept \subseteq L
    <3>1. Takes /\ op = "put" /\ Pending
      BY <1>5, PutEffect DEF PutEmpty, PutSteal, PutReplace, Pending
    <3>2. Owed' = 0
      BY <1>5 DEF PutEmpty, PutSteal, PutReplace, Return, Owed, Pending
    <3> QED
      BY <1>0, <1>5, <3>1, <3>2, LiveInLog DEF Owed, KeyInv, Kept
  <2>2. L' = Kept \cup {pos} /\ pos \notin Kept
    BY <2>1 DEF Takes, Kept
  <2>3. CASE PutEmpty \/ PutSteal
    <3>1. ~PutReplace
      BY <2>3 DEF PutEmpty, PutSteal, PutReplace
    <3>2. Kept = L
      BY <2>1, <2>3, <3>1, <1>5, PutMeets, NoneSought, PendingFacts
    <3>3. garbage' = garbage
      BY <2>3 DEF PutEmpty, PutSteal
    <3>4. SizeOf(L)' = SizeOf(L) + N(pos)
      BY <1>0, <1>3, <2>1, <2>2, <3>2 DEF SizeOf
    <3> HIDE DEF N
    <3> QED
      BY <1>0, <1>1, <1>2, <2>1, <3>3, <3>4 DEF Accounted
  <2>4. CASE PutReplace
    <3> DEFINE q == table[slot].pos
    <3>1. slot \in Occupied /\ SoughtAt(slot) /\ Kept = Pointers(Occupied \ {slot})
      BY <1>0, <2>1, <2>4, PutMeets, OneSought
    <3>2. q \in L /\ Kept = L \ {q}
      <4>1. L = Pointers(Occupied) /\ KeyAt(slot) = key
        BY <2>1, <3>1, PendingFacts
      <4>2. q \in L /\ L = Pointers(Occupied \ {slot}) \cup {q}
        BY <3>1, <4>1 DEF Pointers
      <4>3. q \notin Kept
        BY <4>1 DEF Kept, KeyAt
      <4> QED
        BY <3>1, <4>2, <4>3
    <3>3. garbage' = garbage + EntrySize(log[q])
      BY <2>4 DEF PutReplace
    <3>4. SizeOf(L) = N(q) + SizeOf(Kept) /\ SizeOf(Kept) \in Nat /\ N(q) = EntrySize(log[q])
          /\ N(q) \in Nat
      BY <1>1, <1>4, <3>2
    <3>5. SizeOf(Kept \cup {pos}) = SizeOf(Kept) + N(pos)
      <4>1. IsFiniteSet(Kept) /\ \A p \in Kept : LogSizes[p] \in Nat
        BY <1>1, <2>1, FS_Subset
      <4> QED
        BY <1>1, <2>1, <2>2, <4>1, TotalAdd DEF SizeOf
    <3>6. SizeOf(L)' = SizeOf(Kept) + N(pos) /\ N(pos) \in Nat
      BY <1>0, <1>1, <2>1, <2>2, <3>5 DEF SizeOf
    <3> HIDE DEF N, L, q
    <3> QED
      BY <1>0, <2>1, <3>3, <3>4, <3>6 DEF Accounted, L
  <2> QED
    BY <1>5, <2>3, <2>4
<1>6. CASE (PutEmpty \/ PutSteal) /\ ~fresh
  <2>1. Rests /\ garbage' = garbage /\ Owed = 0 /\ Owed' = 0
    <3>1. Rests /\ op = "put" /\ ~Pending /\ garbage' = garbage
      BY <1>6, PutEffect DEF PutEmpty, PutSteal, Pending
    <3>2. ~Pending' /\ op' # "shift"
      BY <1>6, <3>1 DEF PutEmpty, PutSteal, Return, Rests
    <3> QED
      BY <3>1, <3>2 DEF Owed
  <2> QED
    BY <1>0, <2>1 DEF Accounted, Rests, SizeOf
<1>7. CASE DeleteMiss
  <2>1. Takes /\ garbage' = garbage /\ op = "delete" /\ op' = "idle" /\ Pending
    BY <1>7, DeleteEffect DEF DeleteMiss, Return, tableVars, Pending
  <2>2. \A t \in Occupied : ~SoughtAt(t)
    <3>1. Probing /\ (slot \in Occupied => disp > DispFn[slot])
      BY <1>0, <1>7, MetDisplacement DEF DeleteMiss, Probing, Occupied
    <3> QED
      BY <3>1, ProbeStops
  <2>3. L' = L
    BY <2>1, <2>2, NoneSought, PendingFacts DEF Takes
  <2> QED
    BY <1>0, <2>1, <2>3 DEF Accounted, Owed, SizeOf
<1>8. CASE DeleteFound
  <2> DEFINE q == table[slot].pos
  <2>1. /\ Takes /\ garbage' = garbage /\ op = "delete" /\ op' = "shift" /\ Pending /\ pos' = q
        /\ ~Empty(slot) /\ Matches(slot)
    BY <1>8, DeleteEffect DEF DeleteFound, tableVars, Pending
  <2>2. slot \in Occupied /\ SoughtAt(slot) /\ Kept = Pointers(Occupied \ {slot})
    BY <1>0, <2>1, MetDisplacement, MatchesIsSought, OneSought, PendingFacts
  <2>3. q \in L /\ L' = L \ {q}
    <3>1. L = Pointers(Occupied) /\ KeyAt(slot) = key
      BY <2>1, <2>2, PendingFacts
    <3>2. q \in L /\ L = Pointers(Occupied \ {slot}) \cup {q}
      BY <2>2, <3>1 DEF Pointers
    <3>3. q \notin Kept /\ L' = Kept
      BY <2>1, <3>1 DEF Kept, KeyAt, Takes
    <3> QED
      BY <2>2, <3>2, <3>3
  <2>4. Owed = 0 /\ Owed' = N(q)
    BY <1>0, <2>1 DEF Owed
  <2>5. /\ SizeOf(L) = N(q) + SizeOf(L \ {q}) /\ SizeOf(L \ {q}) \in Nat /\ N(q) \in Nat
        /\ SizeOf(L)' = SizeOf(L \ {q})
    BY <1>0, <1>1, <1>4, <2>3 DEF SizeOf
  <2> HIDE DEF N, L, q
  <2> QED
    BY <1>0, <2>1, <2>4, <2>5 DEF Accounted, L
<1>9. CASE PutWalk \/ DeleteWalk
  <2>1. Rests /\ UNCHANGED <<garbage, op, pos>>
    BY <1>9, WalkEffect DEF PutWalk, DeleteWalk, Walk, tableVars
  <2> QED
    BY <1>0, <2>1 DEF Accounted, Rests, SizeOf, Owed
<1>10. CASE ShiftBack
  <2>1. Rests /\ UNCHANGED <<garbage, op, pos>>
    BY <1>0, <1>10, ShiftEffect DEF ShiftBack
  <2> QED
    BY <1>0, <2>1 DEF Accounted, Rests, SizeOf, Owed
<1>11. CASE ShiftEnd
  <2>1. Rests /\ garbage' = garbage + EntrySize(log[pos]) /\ op = "shift" /\ op' = "idle"
    BY <1>0, <1>11, ShiftEffect DEF ShiftEnd, Return
  <2>2. Owed = N(pos) /\ Owed' = 0 /\ N(pos) = EntrySize(log[pos]) /\ N(pos) \in Nat
    BY <1>0, <1>1, <2>1 DEF Owed, LoopInv, HoleInv, Pending
  <2>3. SizeOf(L)' = SizeOf(L)
    BY <1>0, <2>1 DEF Rests, SizeOf
  <2> HIDE DEF N
  <2> QED
    BY <1>0, <1>2, <2>1, <2>2, <2>3 DEF Accounted
<1> QED
  BY <1>5, <1>6, <1>7, <1>8, <1>9, <1>10, <1>11 DEF WriterStep, PutReplace

\* An entry is appended: the sizes of the others stay.
LEMMA SizesKept ==
  ASSUME log \in Seq(Entry), NEW e \in Entry, log' = Append(log, e)
  PROVE  /\ \A S \in SUBSET DOMAIN log : SizeOf(S)' = SizeOf(S)
         /\ LogSizes'[Len(log) + 1] = EntrySize(e) /\ EntrySize(e) \in Nat
         /\ SizeOf(DOMAIN log)' = SizeOf(DOMAIN log) + EntrySize(e)
         /\ SizeOf(DOMAIN log) \in Nat
<1> DEFINE n == Len(log) + 1
<1>1. /\ DOMAIN log' = DOMAIN log \cup {n} /\ n \notin DOMAIN log /\ log'[n] = e
      /\ \A p \in DOMAIN log : log'[p] = log[p]
  OBVIOUS
<1>2. /\ IsFiniteSet(DOMAIN log) /\ \A p \in DOMAIN log : LogSizes[p] \in Nat
  BY SizeFacts
<1>3. EntrySize(e) \in Nat /\ LoggedSize(e) = EntrySize(e)
  BY EntrySizeType, SizesAgree
<1> HIDE DEF n
<1>4. LogSizes'[n] = EntrySize(e) /\ \A p \in DOMAIN log : LogSizes'[p] = LogSizes[p]
  BY <1>1, <1>3 DEF LogSizes, SizeAt
<1>5. ASSUME NEW S \in SUBSET DOMAIN log PROVE Total(LogSizes', S) = Total(LogSizes, S)
  <2>1. IsFiniteSet(S) /\ \A p \in S : LogSizes'[p] = LogSizes[p]
    BY <1>2, <1>4, FS_Subset
  <2> QED
    BY <2>1, TotalLocal
<1>6. \A S \in SUBSET DOMAIN log : SizeOf(S)' = SizeOf(S)
  BY <1>5 DEF SizeOf
<1>7. Total(LogSizes', DOMAIN log \cup {n}) = Total(LogSizes', DOMAIN log) + EntrySize(e)
  <2>1. \A p \in DOMAIN log : LogSizes'[p] \in Nat
    BY <1>2, <1>4
  <2>2. LogSizes'[n] \in Nat
    BY <1>3, <1>4
  <2> QED
    BY <1>1, <1>2, <1>4, <2>1, <2>2, TotalAdd
<1>8. SizeOf(DOMAIN log) \in Nat
  BY <1>2, TotalRemove DEF SizeOf
<1>9. SizeOf(DOMAIN log)' = SizeOf(DOMAIN log) + EntrySize(e)
  BY <1>1, <1>5, <1>7 DEF SizeOf
<1> QED
  BY <1>3, <1>4, <1>6, <1>8, <1>9 DEF n

\* Every byte of the entries that were read is live, counted as garbage, or
\* owed by the call that runs.
GarbageInv == Accounted = SizeOf(DOMAIN log)

\* No step loses a byte.
LEMMA GarbageStep ==
  ASSUME MapInv, GarbageInv, [Next]_vars
  PROVE  GarbageInv'
<1>0. TypeOK /\ LoopMapInv /\ LoopInv /\ log \in Seq(Entry) /\ garbage \in Nat
  BY MapLoop DEF MapInv, IndInv, TypeOK
<1>1. CASE WriterStep
  <2>1. SizeOf(DOMAIN log)' = SizeOf(DOMAIN log)
    BY <1>1, WriterKeeps DEF SizeOf, LogSizes, SizeAt
  <2> QED
    BY <1>0, <1>1, <2>1, LoopGarbage DEF GarbageInv
<1>2. CASE Scan
  <2>1. PICK e \in Entry :
          /\ log' = Append(log, e)
          /\ garbage' = IF e.type = "put" THEN garbage ELSE garbage + EntrySize(e)
          /\ op' = e.type /\ fresh' = TRUE /\ (e.type = "put" => pos' = Len(log) + 1)
    <3>1. ASSUME NEW k \in Key, NEW v \in ValueLens, ScanPut(k, v)
          PROVE  \E e \in Entry :
                   /\ log' = Append(log, e)
                   /\ garbage' = IF e.type = "put" THEN garbage ELSE garbage + EntrySize(e)
                   /\ op' = e.type /\ fresh' = TRUE /\ (e.type = "put" => pos' = Len(log) + 1)
      <4> DEFINE e == [type |-> "put", key |-> k, vlen |-> v]
      <4>1. e \in Entry /\ e.type = "put"
        BY DEF Entry, PutEntries, DeleteEntries
      <4>2. /\ log' = Append(log, e) /\ garbage' = garbage /\ op' = "put" /\ fresh' = TRUE
            /\ pos' = Len(log) + 1
        BY <3>1 DEF ScanPut, StartProbe
      <4> HIDE DEF e
      <4> QED
        BY <4>1, <4>2
    <3>2. ASSUME NEW k \in Key, ScanDelete(k)
          PROVE  \E e \in Entry :
                   /\ log' = Append(log, e)
                   /\ garbage' = IF e.type = "put" THEN garbage ELSE garbage + EntrySize(e)
                   /\ op' = e.type /\ fresh' = TRUE /\ (e.type = "put" => pos' = Len(log) + 1)
      <4> DEFINE e == [type |-> "delete", key |-> k, vlen |-> 0]
      <4>1. e \in Entry /\ e.type = "delete"
        BY DEF Entry, PutEntries, DeleteEntries
      <4>2. /\ log' = Append(log, e) /\ garbage' = garbage + EntrySize(e) /\ op' = "delete"
            /\ fresh' = TRUE
        BY <3>2 DEF ScanDelete, StartProbe
      <4> HIDE DEF e
      <4> QED
        BY <4>1, <4>2
    <3> QED
      BY <1>2, <3>1, <3>2 DEF Scan
  <2>2. /\ SizeOf(LivePointers)' = SizeOf(LivePointers) /\ SizeOf(LivePointers) \in Nat
        /\ op = "idle"
    <3>1. LivePointers' = LivePointers /\ op = "idle"
      BY <1>0, <1>2, ScanEffect, ScanFacts DEF Settled
    <3>2. LivePointers \in SUBSET DOMAIN log /\ IsFiniteSet(LivePointers)
          /\ \A p \in LivePointers : LogSizes[p] \in Nat
      BY <1>0, LiveInLog, SizeFacts, FS_Subset
    <3>3. SizeOf(LivePointers) \in Nat
      BY <3>2, TotalRemove DEF SizeOf
    <3>4. \A S \in SUBSET DOMAIN log : SizeOf(S)' = SizeOf(S)
      BY <1>0, <2>1, SizesKept
    <3> QED
      BY <3>1, <3>2, <3>3, <3>4 DEF SizeOf
  <2>3. /\ LogSizes'[Len(log) + 1] = EntrySize(e) /\ EntrySize(e) \in Nat
        /\ SizeOf(DOMAIN log)' = SizeOf(DOMAIN log) + EntrySize(e)
        /\ SizeOf(DOMAIN log) \in Nat
    BY <1>0, <2>1, SizesKept
  <2>4. Owed = 0 /\ Owed' = IF e.type = "put" THEN EntrySize(e) ELSE 0
    <3>1. e.type \in {"put", "delete"}
      BY DEF Entry, PutEntries, DeleteEntries
    <3> QED
      BY <2>1, <2>2, <2>3, <3>1 DEF Owed, Pending
  <2> QED
    BY <1>0, <2>1, <2>2, <2>3, <2>4 DEF GarbageInv, Accounted
<1>3. CASE Reading
  <2>1. /\ LivePointers' = LivePointers /\ UNCHANGED <<log, garbage>> /\ Owed = 0 /\ Owed' = 0
    BY <1>3, ReadingEffect DEF Settled, Reading, tableVars, Owed
  <2> QED
    BY <2>1 DEF GarbageInv, Accounted, SizeOf, LogSizes, SizeAt
<1>4. CASE UNCHANGED vars
  <2>1. UNCHANGED <<table, capacity, log, garbage, op, fresh, pos, slot>>
    BY <1>4 DEF vars, tableVars, probeVars
  <2>2. Occupied' = Occupied /\ Hole' = Hole /\ Carried' = Carried /\ Pending' = Pending
    BY <2>1, TableUnchanged DEF Hole, Carried, Pending
  <2> QED
    BY <2>1, <2>2 DEF GarbageInv, Accounted, SizeOf, LogSizes, SizeAt, LivePointers, Owed
<1> QED
  BY <1>1, <1>2, <1>3, <1>4, ReadingSteps DEF Next, Scan

\* After every call of hash_put and hash_delete, garbage_size and the live
\* entries make up the bytes that log_add wrote.
THEOREM GarbageCorrect == Spec => []GarbageConserved
<1>1. Init => GarbageInv
  <2> SUFFICES ASSUME Init PROVE GarbageInv
    OBVIOUS
  <2>1. log = << >> /\ DOMAIN log = {} /\ op = "idle" /\ garbage = 0 /\ log \in Seq(Entry)
    BY DEF Init
  <2>2. LivePointers = {}
    BY <2>1, MapInitInv, MapLoop, LiveInLog
  <2>3. SizeOf({}) = 0
    BY FS_EmptySet, TotalStep DEF SizeOf
  <2> QED
    BY <2>1, <2>2, <2>3 DEF GarbageInv, Accounted, Owed
<1>2. MapInv /\ GarbageInv => GarbageConserved
  <2> SUFFICES ASSUME MapInv, GarbageInv, op = "idle"
               PROVE  garbage + MapThenSumSet(SizeAt, LivePositions)
                        = MapThenSumSet(SizeAt, DOMAIN log)
    BY DEF GarbageConserved
  <2>1. LivePointers = LivePositions /\ LivePositions \subseteq DOMAIN log /\ log \in Seq(Entry)
        /\ garbage \in Nat
    BY IndexBetweenCalls DEF LivePositions, MapInv, IndInv, TypeOK
  <2>2. IsFiniteSet(DOMAIN log) /\ IsFiniteSet(LivePositions)
        /\ \A p \in LivePositions : LogSizes[p] \in Nat
    BY <2>1, SizeFacts, FS_Subset
  <2>3. MapThenSumSet(SizeAt, LivePositions) = SizeOf(LivePositions)
    BY <2>1, <2>2, SumIsTotal
  <2>4. MapThenSumSet(SizeAt, DOMAIN log) = SizeOf(DOMAIN log)
    BY <2>2, SumIsTotal
  <2>5. Owed = 0 /\ SizeOf(LivePositions) \in Nat
    BY <2>2, TotalRemove DEF Owed, SizeOf
  <2> QED
    BY <2>1, <2>3, <2>4, <2>5 DEF GarbageInv, Accounted
<1>3. MapInv /\ GarbageInv /\ [Next]_vars => GarbageInv'
  BY GarbageStep
<1> QED
  BY <1>1, <1>2, <1>3, MapInductive, PTL DEF Spec
=============================================================================
