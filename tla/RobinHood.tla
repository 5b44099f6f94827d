----------------------------- MODULE RobinHood -----------------------------
(***************************************************************************)
(* The hash index of sparkey: an open-addressing table with linear probing *)
(* in "robin hood" order, built by one scan of the log (hashwriter.c) and  *)
(* probed by readers (hashreader.c).                                       *)
(*                                                                         *)
(* One action is one iteration of a probe loop: hash_put, hash_delete with *)
(* its backward-shift loop, sparkey_hash_get and the lookup inside         *)
(* sparkey_logiter_hashnext.  A log entry is [type, key, vlen]; its log    *)
(* position (block position and entry index in the code) is its index in   *)
(* the sequence log, so that 0 is never a position, as in the code, where  *)
(* the log header precedes every entry.                                    *)
(***************************************************************************)
EXTENDS Vlq, FiniteSets, FiniteSetsExt

CONSTANTS
  Key,        \* the keys of the log
  NoKey,      \* the value of key between calls
  HashFns,    \* the hash functions Key -> Nat that a random seed may select
  KeyLen,     \* [Key -> Nat], the length of a key in bytes
  ValueLens,  \* the value lengths that occur
  MaxPuts,    \* bound: PUT entries in the log
  MaxDeletes  \* bound: DELETE entries in the log

ASSUME KeyAssumption == /\ HashFns \subseteq [Key -> Nat]
                        /\ KeyLen \in [Key -> Nat]
                        /\ ValueLens \subseteq Nat
                        /\ NoKey \notin Key
\* Lengths for which VlqSize is unsigned_vlq_size, whose later branches would
\* overflow the model checker's integers.
ASSUME LengthAssumption == /\ \A k \in Key : KeyLen[k] + 1 < 2^28
                           /\ \A v \in ValueLens : v < 2^28
ASSUME BoundAssumption == MaxPuts \in Nat /\ MaxDeletes \in Nat

VARIABLES
  keyHash,    \* hash_algorithm.hash with the seed of this table
  numPuts,    \* log_header.num_puts, from which the table is dimensioned
  capacity,   \* hash_header.hash_capacity
  table,      \* hashtable: slot -> [hash, pos], pos = 0 for an empty slot
  numEntries, \* hash_header.num_entries
  garbage,    \* hash_header.garbage_size
  log,        \* the log entries scanned so far
  published,  \* the table and its header are in the hash file
  header,     \* the statistics written to the hash file
  op,         \* the loop that runs: see Ops
  key,        \* the key that is looked for
  slot,       \* slot
  disp,       \* displacement
  hash,       \* hash
  pos,        \* position (the pointer to place, or the one hashnext looks for)
  fresh,      \* might_be_collision
  iterPos,    \* the reader's log iterator: entries 1..iterPos were passed
  result      \* what the last lookup returned: a log position, 0 for a miss

tableVars == <<keyHash, numPuts, capacity, table, numEntries, garbage, log>>
probeVars == <<op, key, slot, disp, hash, pos, fresh>>
readVars == <<published, header, iterPos, result>>
vars == <<tableVars, probeVars, readVars>>

(***************************************************************************)
(* Sizes and addresses.                                                    *)
(***************************************************************************)
PutEntries == [type : {"put"}, key : Key, vlen : ValueLens]
DeleteEntries == [type : {"delete"}, key : Key, vlen : {0}]
Entry == PutEntries \cup DeleteEntries

Ops == {"idle", "put", "delete", "shift", "get", "hashnext", "probe"}

\* unsigned_vlq_size, for numbers below 2^28: see LengthAssumption.
VlqSize(n) == 1 + Cardinality({k \in 1..3 : n >= 2^(7 * k)})

\* What an entry occupies in the log, as the hash writer accounts for it.
EntrySize(e) ==
  IF e.type = "put"
  THEN KeyLen[e.key] + e.vlen + VlqSize(KeyLen[e.key] + 1) + VlqSize(e.vlen)
  ELSE 1 + VlqSize(KeyLen[e.key]) + KeyLen[e.key]

\* What log_add writes: the two lengths, the key and the value.
LoggedSize(e) ==
  KeyLen[e.key] + e.vlen
    + IF e.type = "put" THEN Len(WriteVlq[KeyLen[e.key] + 1]) + Len(WriteVlq[e.vlen])
      ELSE Len(WriteVlq[0]) + Len(WriteVlq[KeyLen[e.key]])

\* cap = n * 1.3; hash_capacity = 1 | (uint64_t) cap
HashCapacityTooSmall(n) == LET cap == (10 * n) \div 13  \* Mutant: n / 1.3.
                           IN  IF cap % 2 = 0 THEN cap + 1 ELSE cap
HashCapacity(n) == LET cap == (13 * n) \div 10
                   IN  IF cap % 2 = 0 THEN cap + 1 ELSE cap

Slots == 0 .. capacity - 1
EmptySlot == [hash |-> 0, pos |-> 0]
Empty(s) == table[s].pos = 0
WantedSlot(h) == h % capacity
NextSlotNoWrap(s) == s + 1  \* Mutant: the table is not a ring.
NextSlot(s) == IF s + 1 >= capacity THEN 0 ELSE s + 1

\* get_displacement
GetDisplacement(s, h) == (capacity + (s - WantedSlot(h))) % capacity

\* The probing loops' test that slot s holds the key they look for.
MatchesHash(s) == table[s].hash = hash  \* Mutant: the keys are not compared.
Matches(s) == table[s].hash = hash /\ log[table[s].pos].key = key

(***************************************************************************)
(* sparkey_hash_write without an old index: a table for the num_puts of    *)
(* the log header, filled by one scan of the log.                          *)
(***************************************************************************)
Init ==
  /\ keyHash \in HashFns
  /\ numPuts \in 0 .. MaxPuts
  /\ capacity = HashCapacity(numPuts)
  /\ table = [s \in Slots |-> EmptySlot]
  /\ numEntries = 0 /\ garbage = 0
  /\ log = << >>
  /\ published = FALSE
  /\ header = [maxDisp |-> 0, collisions |-> 0, entries |-> 0]
  /\ op = "idle"
  /\ key = NoKey /\ slot = 0 /\ disp = 0 /\ hash = 0 /\ pos = 0 /\ fresh = FALSE
  /\ iterPos = 0 /\ result = 0

Scanned(type) == Cardinality({p \in DOMAIN log : log[p].type = type})

\* The probe loops start at the slot the hash asks for, with displacement 0.
StartProbe(o, k, h, p, f) ==
  /\ op' = o /\ key' = k /\ hash' = h /\ pos' = p /\ fresh' = f
  /\ slot' = WantedSlot(h) /\ disp' = 0

\* The scan loop reads a PUT entry and calls hash_put.
ScanPut(k, v) ==
  /\ op = "idle" /\ ~published
  /\ Scanned("put") < numPuts
  /\ log' = Append(log, [type |-> "put", key |-> k, vlen |-> v])
  /\ StartProbe("put", k, keyHash[k], Len(log) + 1, TRUE)
  /\ UNCHANGED <<keyHash, numPuts, capacity, table, numEntries, garbage, readVars>>

\* Mutant: the DELETE entry itself is not counted as garbage.
ScanDeleteUncounted(k) ==
  /\ op = "idle" /\ ~published
  /\ Scanned("delete") < MaxDeletes
  /\ log' = Append(log, [type |-> "delete", key |-> k, vlen |-> 0])
  /\ StartProbe("delete", k, keyHash[k], 0, TRUE)
  /\ UNCHANGED <<keyHash, numPuts, capacity, table, numEntries, garbage, readVars>>

\* The scan loop reads a DELETE entry, counts it as garbage and calls
\* hash_delete.
ScanDelete(k) ==
  /\ op = "idle" /\ ~published
  /\ Scanned("delete") < MaxDeletes
  /\ LET e == [type |-> "delete", key |-> k, vlen |-> 0]
     IN  /\ log' = Append(log, e)
         /\ garbage' = garbage + EntrySize(e)
  /\ StartProbe("delete", k, keyHash[k], 0, TRUE)
  /\ UNCHANGED <<keyHash, numPuts, capacity, table, numEntries, readVars>>

\* The loop's local variables go out of scope.
Return == /\ op' = "idle" /\ key' = NoKey
          /\ slot' = 0 /\ disp' = 0 /\ hash' = 0 /\ pos' = 0 /\ fresh' = FALSE

\* Mutant: displacement is not counted.
WalkUncounted == /\ slot' = NextSlot(slot)
                 /\ UNCHANGED <<op, key, disp, hash, pos, fresh>>

Walk == /\ slot' = NextSlot(slot)
        /\ disp' = disp + 1
        /\ UNCHANGED <<op, key, hash, pos, fresh>>

(***************************************************************************)
(* hash_put: one action per way through the loop body.                     *)
(***************************************************************************)
PlaceAddress == table' = [table EXCEPT ![slot].pos = pos]  \* Mutant: no write_hash.
Place == table' = [table EXCEPT ![slot] = [hash |-> hash, pos |-> pos]]

PutEmpty ==
  /\ op = "put" /\ Empty(slot)
  /\ Place
  /\ numEntries' = numEntries + 1
  /\ Return
  /\ UNCHANGED <<keyHash, numPuts, capacity, garbage, log, readVars>>

PutReplace ==
  /\ op = "put" /\ ~Empty(slot)
  /\ fresh /\ Matches(slot)
  /\ Place
  /\ garbage' = garbage + EntrySize(log[table[slot].pos])
  /\ Return
  /\ UNCHANGED <<keyHash, numPuts, capacity, numEntries, log, readVars>>

\* Mutant: the old entry is read after the slot was overwritten.
PutStealOverwrites ==
  /\ op = "put" /\ ~Empty(slot)
  /\ ~(fresh /\ Matches(slot))
  /\ disp > GetDisplacement(slot, table[slot].hash)
  /\ Place
  /\ disp' = disp + 1
  /\ slot' = NextSlot(slot)
  /\ fresh' = FALSE
  /\ UNCHANGED <<keyHash, numPuts, capacity, numEntries, garbage, log,
                 op, key, hash, pos, readVars>>

\* Steal the slot, and go on with the entry that was in it.
PutSteal ==
  /\ op = "put" /\ ~Empty(slot)
  /\ ~(fresh /\ Matches(slot))
  /\ disp > GetDisplacement(slot, table[slot].hash)
  /\ Place
  /\ hash' = table[slot].hash /\ pos' = table[slot].pos
  /\ disp' = GetDisplacement(slot, table[slot].hash) + 1
  /\ slot' = NextSlot(slot)
  /\ fresh' = FALSE
  /\ UNCHANGED <<keyHash, numPuts, capacity, numEntries, garbage, log,
                 op, key, readVars>>

PutWalk ==
  /\ op = "put" /\ ~Empty(slot)
  /\ ~(fresh /\ Matches(slot))
  /\ disp <= GetDisplacement(slot, table[slot].hash)
  /\ Walk
  /\ UNCHANGED <<tableVars, readVars>>

(***************************************************************************)
(* hash_delete: the lookup, then the loop that shifts the entries behind   *)
(* the deleted one back by a slot.                                         *)
(***************************************************************************)
DeleteMiss ==
  /\ op = "delete"
  /\ \/ Empty(slot)
     \/ /\ ~Empty(slot) /\ ~Matches(slot)
        /\ disp > GetDisplacement(slot, table[slot].hash)
  /\ Return
  /\ UNCHANGED <<tableVars, readVars>>

\* The entry is found; pos keeps its position (keylen2 and valuelen2).
DeleteFound ==
  /\ op = "delete" /\ ~Empty(slot) /\ Matches(slot)
  /\ op' = "shift" /\ pos' = table[slot].pos
  /\ UNCHANGED <<tableVars, readVars, key, slot, disp, hash, fresh>>

DeleteWalk ==
  /\ op = "delete" /\ ~Empty(slot) /\ ~Matches(slot)
  /\ disp <= GetDisplacement(slot, table[slot].hash)
  /\ Walk
  /\ UNCHANGED <<tableVars, readVars>>

ShiftStopsAtEmpty == Empty((slot + 1) % capacity)  \* Mutant: shifts entries from home.

\* The next slot is empty or holds an entry that is where it wants to be.
ShiftStops == LET next == (slot + 1) % capacity
              IN  Empty(next) \/ WantedSlot(table[next].hash) = next

ShiftBack ==
  /\ op = "shift" /\ ~ShiftStops
  /\ table' = [table EXCEPT ![slot] = table[(slot + 1) % capacity]]
  /\ slot' = (slot + 1) % capacity
  /\ UNCHANGED <<keyHash, numPuts, capacity, numEntries, garbage, log,
                 op, key, disp, hash, pos, fresh, readVars>>

ShiftEnd ==
  /\ op = "shift" /\ ShiftStops
  /\ table' = [table EXCEPT ![slot] = EmptySlot]
  /\ garbage' = garbage + EntrySize(log[pos])
  /\ numEntries' = numEntries - 1
  /\ Return
  /\ UNCHANGED <<keyHash, numPuts, capacity, log, readVars>>

(***************************************************************************)
(* calculate_max_displacement, and the hash file is written.  The total    *)
(* displacement, which is only ever printed, is left out.                  *)
(***************************************************************************)
Occupied == {s \in Slots : ~Empty(s)}
SlotDisplacement(s) == GetDisplacement(s, table[s].hash)

IsMaxDisplacement(d) ==
  /\ \A s \in Occupied : SlotDisplacement(s) <= d
  /\ d = 0 \/ \E s \in Occupied : SlotDisplacement(s) = d

\* Mutant: empty neighbours are compared too.
HashCollisionsOfAll == Cardinality({s \in Slots \ {0} : table[s - 1].hash = table[s].hash})

\* Neighbours with equal hashes, the last and the first slot included; an
\* empty slot (hash 0) after an entry with hash 0 counts too.
HashCollisions ==
  Cardinality({s \in Slots \ {0} :
                 s - 1 \in Occupied /\ table[s - 1].hash = table[s].hash})
  + IF /\ {0, capacity - 1} \subseteq Occupied
       /\ table[0].hash = table[capacity - 1].hash
    THEN 1 ELSE 0

Publish ==
  /\ op = "idle" /\ ~published
  /\ Scanned("put") = numPuts
  /\ \E d \in Slots :
       /\ IsMaxDisplacement(d)
       /\ header' = [maxDisp |-> d, collisions |-> HashCollisions, entries |-> numEntries]
  /\ published' = TRUE
  /\ UNCHANGED <<tableVars, probeVars, iterPos, result>>

(***************************************************************************)
(* sparkey_hash_get on the published table.                                *)
(***************************************************************************)
StartGet(k) ==
  /\ op = "idle" /\ published
  /\ StartProbe("get", k, keyHash[k], 0, TRUE)
  /\ UNCHANGED <<tableVars, readVars>>

\* Mutant: gives up at an equal displacement.
GetMissEarly ==
  /\ op = "get" /\ ~Empty(slot) /\ ~Matches(slot)
  /\ disp >= GetDisplacement(slot, table[slot].hash)
  /\ result' = 0
  /\ Return
  /\ UNCHANGED <<tableVars, published, header, iterPos>>

GetMiss ==
  /\ op = "get"
  /\ \/ Empty(slot)
     \/ /\ ~Empty(slot) /\ ~Matches(slot)
        /\ disp > GetDisplacement(slot, table[slot].hash)
  /\ result' = 0
  /\ Return
  /\ UNCHANGED <<tableVars, published, header, iterPos>>

GetFound ==
  /\ op = "get" /\ ~Empty(slot) /\ Matches(slot)
  /\ result' = table[slot].pos
  /\ Return
  /\ UNCHANGED <<tableVars, published, header, iterPos>>

GetWalk ==
  /\ op = "get" /\ ~Empty(slot) /\ ~Matches(slot)
  /\ disp <= GetDisplacement(slot, table[slot].hash)
  /\ Walk
  /\ UNCHANGED <<tableVars, readVars>>

(***************************************************************************)
(* sparkey_logiter_hashnext: the outer loop walks the log, the inner loop  *)
(* looks for a table slot that points at the entry.                        *)
(***************************************************************************)
StartHashnext ==
  /\ op = "idle" /\ published /\ iterPos < Len(log) + 1
  /\ op' = "hashnext"
  /\ UNCHANGED <<tableVars, readVars, key, slot, disp, hash, pos, fresh>>

\* sparkey_logiter_next at the end of the log: ITER_CLOSED.
HashnextClosed ==
  /\ op = "hashnext" /\ iterPos = Len(log)
  /\ iterPos' = iterPos + 1
  /\ result' = 0
  /\ Return
  /\ UNCHANGED <<tableVars, published, header>>

HashnextSkipsDelete ==
  /\ op = "hashnext" /\ iterPos < Len(log)
  /\ log[iterPos + 1].type = "delete"
  /\ iterPos' = iterPos + 1
  /\ UNCHANGED <<tableVars, probeVars, published, header, result>>

HashnextReadsPut ==
  /\ op = "hashnext" /\ iterPos < Len(log)
  /\ LET e == log[iterPos + 1]
     IN  e.type = "put" /\ StartProbe("probe", e.key, keyHash[e.key], iterPos + 1, TRUE)
  /\ iterPos' = iterPos + 1
  /\ UNCHANGED <<tableVars, published, header, result>>

ProbeFound ==
  /\ op = "probe" /\ ~Empty(slot) /\ table[slot].pos = pos
  /\ result' = pos
  /\ Return
  /\ UNCHANGED <<tableVars, published, header, iterPos>>

\* Mutant: gives up at an equal displacement.
ProbeMissEarly ==
  /\ op = "probe" /\ ~Empty(slot) /\ table[slot].pos # pos
  /\ disp >= GetDisplacement(slot, table[slot].hash)
  /\ op' = "hashnext"
  /\ UNCHANGED <<tableVars, readVars, key, slot, disp, hash, pos, fresh>>

\* Not in the table: the outer loop goes on with the next log entry.
ProbeMiss ==
  /\ op = "probe"
  /\ \/ Empty(slot)
     \/ /\ ~Empty(slot) /\ table[slot].pos # pos
        /\ disp > GetDisplacement(slot, table[slot].hash)
  /\ op' = "hashnext"
  /\ UNCHANGED <<tableVars, readVars, key, slot, disp, hash, pos, fresh>>

ProbeWalk ==
  /\ op = "probe" /\ ~Empty(slot) /\ table[slot].pos # pos
  /\ disp <= GetDisplacement(slot, table[slot].hash)
  /\ Walk
  /\ UNCHANGED <<tableVars, readVars>>

WriterStep == \/ PutEmpty \/ PutReplace \/ PutSteal \/ PutWalk
              \/ DeleteMiss \/ DeleteFound \/ DeleteWalk \/ ShiftBack \/ ShiftEnd
ReaderStep == \/ GetMiss \/ GetFound \/ GetWalk
              \/ HashnextClosed \/ HashnextSkipsDelete \/ HashnextReadsPut
              \/ ProbeFound \/ ProbeMiss \/ ProbeWalk

Next == \/ \E k \in Key, v \in ValueLens : ScanPut(k, v)
        \/ \E k \in Key : ScanDelete(k)
        \/ Publish
        \/ \E k \in Key : StartGet(k)
        \/ StartHashnext
        \/ WriterStep
        \/ ReaderStep

Spec == Init /\ [][Next]_vars

\* A call that was made runs to its return: nothing blocks in these loops.
FairSpec == Spec /\ WF_vars(WriterStep) /\ WF_vars(ReaderStep)
-----------------------------------------------------------------------------
(***************************************************************************)
(* Properties.                                                             *)
(***************************************************************************)

\* The variables keep their types; displacements stay within the capacity,
\* so that no probe loop goes round the table more than once.
TypeOK ==
  /\ keyHash \in HashFns
  /\ numPuts \in 0 .. MaxPuts
  /\ capacity = HashCapacity(numPuts)
  /\ table \in [Slots -> [hash : Nat, pos : Nat]]
  /\ numEntries \in Nat /\ garbage \in Nat
  /\ log \in Seq(Entry)
  /\ published \in BOOLEAN
  /\ header \in [maxDisp : Nat, collisions : Nat, entries : Nat]
  /\ op \in Ops
  /\ key \in Key \cup {NoKey} /\ slot \in Slots /\ disp \in 0 .. capacity
  /\ hash \in Nat /\ pos \in Nat /\ fresh \in BOOLEAN
  /\ iterPos \in Nat /\ result \in Nat

\* How many slots after a the slot b comes, going round.
Dist(a, b) == IF b >= a THEN b - a ELSE capacity + b - a

\* The robin hood order, which lets hash_put, hash_delete, hash_get and
\* hashnext give up when "displacement > other_displacement": every slot
\* between an entry and its wanted slot is taken, by an entry that is at
\* least as far from home as the probe for the first one would be there.
\* It holds between any two loop iterations, also while an entry is carried
\* by hash_put or a hole travels through hash_delete.
RobinHoodOrder ==
  \A t \in Occupied, u \in Slots :
    Dist(u, t) <= SlotDisplacement(t)
      => u \in Occupied /\ SlotDisplacement(u) >= SlotDisplacement(t) - Dist(u, t)

\* Every pointer in the table, and the one hash_put carries, is to a PUT
\* entry that was scanned, under that entry's hash: the "bug:" branches of
\* hash_put and hash_delete and the INTERNAL_ERROR of hash_get cannot be
\* taken.
IsPutPointer(h, p) == p \in DOMAIN log /\ log[p].type = "put" /\ h = keyHash[log[p].key]
PointersArePuts ==
  /\ \A s \in Occupied : IsPutPointer(table[s].hash, table[s].pos)
  /\ op = "put" => IsPutPointer(hash, pos)

\* hash_capacity leaves room: num_entries counts the taken slots, and when
\* hash_put is called, or carries an entry on, some slot is empty.  Without
\* one its loop would never end.
RoomForPut ==
  /\ numEntries = Cardinality(Occupied)
  /\ op = "put" => numEntries < capacity

\* The positions of the log's live entries: PUTs with no later entry for
\* the same key.
LivePositions ==
  {p \in DOMAIN log :
     log[p].type = "put" /\ \A q \in DOMAIN log : q > p => log[q].key # log[p].key}

\* Between calls the table is exactly the index of the log scanned so far:
\* one slot for every live entry and no other.
IndexExact ==
  op \in {"idle", "get", "hashnext", "probe"} =>
    /\ {table[s].pos : s \in Occupied} = LivePositions
    /\ Cardinality(Occupied) = Cardinality(LivePositions)

\* garbage_size is what a rewrite of the log would save: with the bytes that
\* log_add wrote for the live entries it makes up the whole log.
SizeAt(p) == LoggedSize(log[p])
GarbageConserved ==
  op = "idle" => garbage + MapThenSumSet(SizeAt, LivePositions)
                   = MapThenSumSet(SizeAt, DOMAIN log)

\* The header that is written passes the checks of hashheader_version0 when
\* it is read again: num_entries <= num_puts, max_displacement <=
\* num_entries and hash_collisions <= num_entries.
HeaderLoadable ==
  published => /\ header.entries <= numPuts
               /\ header.maxDisp <= header.entries
               /\ header.collisions <= header.entries

\* sparkey_hash_get returns the newest entry of the key, or a miss when the
\* key was never put or was deleted last.
GetExact ==
  [][op = "get" /\ op' = "idle" =>
       IF \E p \in LivePositions : log[p].key = key
       THEN result' \in LivePositions /\ log[result'].key = key
       ELSE result' = 0]_vars

\* sparkey_logiter_hashnext stops at a PUT entry exactly if it is live, so
\* that it visits every live entry once, in log order.
HashnextExact ==
  [][/\ op = "probe" /\ op' = "hashnext" => pos \notin LivePositions
     /\ op = "probe" /\ op' = "idle" => pos \in LivePositions /\ result' = pos]_vars

\* Every hash_put, hash_delete, hash_get and hashnext call returns.
CallsReturn == op # "idle" ~> op = "idle"
============================================================================
