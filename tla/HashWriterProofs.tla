-------------------------- MODULE HashWriterProofs --------------------------
(***************************************************************************)
(* sparkey_hash_write as a whole: proofs that the hash file is the index   *)
(* of the log however often it was extended, that it covers its data_end   *)
(* when the log grew during the call, and that it can be loaded again.     *)
(***************************************************************************)
EXTENDS HashWriter, RobinHoodMapProofs

(***************************************************************************)
(* The inductive invariant.                                                *)
(***************************************************************************)

\* The pointers of the hash file, and those of them that were copied.
FilePointers == {hashFile.table[s].pos : s \in FileSlots}
CopiedSlots == {s \in FileSlots : s < copySlot}
CopiedPointers == {hashFile.table[s].pos : s \in CopiedSlots}

\* An index S after the log's entries from n + 1 to m took effect on it.
Merged(S, n, m) ==
  {p \in S : \A q \in n + 1 .. m : log[q].key # log[p].key}
    \cup {p \in n + 1 .. m :
            log[p].type = "put" /\ \A q \in p + 1 .. m : log[q].key # log[p].key}

\* A slot of the hash file points at a PUT, with the hash of its key.
FilePut(s) ==
  /\ hashFile.table[s].pos \in DOMAIN log
  /\ log[hashFile.table[s].pos].type = "put"
  /\ hashFile.table[s].hash = hashFile.keyHash[log[hashFile.table[s].pos].key]

\* What a hash file says whose addresses lead to their entries.
FileInv ==
  /\ hashFile.capacity \in Nat \ {0}
  /\ hashFile.table \in [0 .. hashFile.capacity - 1 -> [hash : Nat, pos : Nat]]
  /\ hashFile.keyHash \in HashFns
  /\ hashFile.numEntries = Cardinality(FileSlots)
  /\ hashFile.dataEnd \in 0 .. Len(log)
  /\ \E n \in hashFile.dataEnd .. Len(log) :
       /\ FilePointers = LiveUpTo(n)
       /\ hashFile.raced \/ n = hashFile.dataEnd
  /\ \A s, t \in FileSlots : hashFile.table[s].pos = hashFile.table[t].pos => s = t
  /\ \A s \in FileSlots : FilePut(s)

\* What the header of any hash file says.
FileHeader ==
  /\ hashFile.bad \in BOOLEAN /\ (hashFile.bad => TightAddresses)
  /\ hashFile.numEntries \in Nat /\ hashFile.numPuts \in Nat
  /\ hashFile.garbage \in Nat /\ hashFile.hashSize \in {4, 8}
  /\ hashFile.dataEnd \in 0 .. Len(log)
  /\ PutsUpTo(hashFile.dataEnd) <= hashFile.numPuts /\ hashFile.numPuts <= diskPuts
  /\ hashFile.raced \/ hashFile.numEntries <= hashFile.numPuts

FileOK == FileHeader /\ (~hashFile.bad => FileInv)

\* The header of the log on disk: num_puts is not behind data_end.
DiskInv ==
  /\ diskPuts \in Nat
  /\ PutsUpTo(Len(log)) + (IF flush.step = "end" THEN flush.puts ELSE 0) <= diskPuts

\* What the call read from the two log headers, and where it is.
HeadersInv ==
  /\ log \in Seq(Entry) /\ keyHash \in HashFns
  /\ phase # "out" => /\ numPuts \in Nat /\ numPuts <= diskPuts
                      /\ PutsUpTo(loadedEnd) <= numPuts
                      /\ hashFile.exists => /\ hashFile.dataEnd <= loadedEnd
                                            /\ hashFile.numPuts <= numPuts
  /\ phase \in {"out", "loaded", "astray"} => op = "idle"
  /\ phase = "astray" => TightAddresses
  /\ phase \in {"copy", "scan"} => logEnd = Len(log) /\ (CopyOld => ~hashFile.bad)
  /\ phase = "copy" => /\ CopyOld /\ iterPos = hashFile.dataEnd
                       /\ capacity >= hashFile.numEntries
                       /\ keyHash = hashFile.keyHash

\* hash_put has an empty slot, or a slot to replace.
Room == op = "put" => Occupied # Slots \/ (fresh /\ \E s \in Occupied : KeyAt(s) = key)

CopiedBase == IF CopyOld THEN FilePointers ELSE {}
ScannedTo == IF Pending THEN iterPos - 1 ELSE iterPos

\* What the new table holds: the part of the old one that was copied, then
\* that index with the log's entries up to the iterator merged into it.
ContentInv ==
  /\ op \in {"idle", "put", "delete", "shift"}
  /\ op = "idle" => slot = 0 /\ disp = 0
  /\ phase = "copy" => /\ op = "idle" \/ (op = "put" /\ ~fresh)
                       /\ LivePointers = CopiedPointers
  /\ phase = "scan" => /\ iterPos \in Nat /\ ScannedTo \in ScanStart .. logEnd
                       /\ LivePointers = Merged(CopiedBase, ScanStart, ScannedTo)
                       /\ Pending => /\ iterPos \in 1 .. logEnd
                                     /\ log[iterPos].key = key /\ log[iterPos].type = op
                                     /\ op = "put" => pos = iterPos
                       /\ Room

\* hash_put has met a full table and goes round it for ever: the capacity
\* is from the first load of the log header, the entries from the second,
\* or the old entries are scanned into a table that is too small for them,
\* or the old header counted PUTs that were not below its data_end.
Stuck ==
  /\ phase = "scan" /\ op = "put" /\ capacity \in Nat \ {0}
  /\ table \in [Slots -> [hash : Nat, pos : Nat]]
  /\ slot \in Slots /\ hash \in Nat /\ pos \in Nat \ {0} /\ fresh \in BOOLEAN
  /\ \A s \in Slots : ~Empty(s) /\ ~(fresh /\ Matches(s))

HWInv == /\ HWTypeOK /\ HeadersInv /\ DiskInv
         /\ hashFile.exists => FileOK
         /\ Stuck \/ (LoopMapInv /\ ContentInv)

-----------------------------------------------------------------------------
(***************************************************************************)
(* Live entries and the number of PUTs in the first entries of the log.    *)
(***************************************************************************)

\* The log is kept, or entries are appended.
Extends ==
  /\ log' \in Seq(Entry) /\ Len(log) <= Len(log')
  /\ \A p \in 1 .. Len(log) : log'[p] = log[p]

\* What is appended does not change what came before.
LEMMA LogKept ==
  ASSUME log \in Seq(Entry), Extends
  PROVE  /\ Len(log) \in Nat /\ Len(log') \in Nat /\ 0 .. Len(log) \subseteq 0 .. Len(log')
         /\ DOMAIN log \subseteq DOMAIN log'
         /\ \A n \in 0 .. Len(log) : LiveUpTo(n)' = LiveUpTo(n) /\ PutsUpTo(n)' = PutsUpTo(n)
<1>1. /\ Len(log) \in Nat /\ Len(log') \in Nat /\ Len(log) <= Len(log')
      /\ \A p \in 1 .. Len(log) : log'[p] = log[p]
      /\ DOMAIN log = 1 .. Len(log) /\ DOMAIN log' = 1 .. Len(log')
  BY DEF Extends
<1>2. ASSUME NEW n \in 0 .. Len(log)
      PROVE  LiveUpTo(n)' = LiveUpTo(n) /\ PutsUpTo(n)' = PutsUpTo(n)
  <2>1. \A p \in 1 .. n : log'[p] = log[p]
    BY <1>1
  <2>2. \A p \in 1 .. n : \A q \in p + 1 .. n : log'[q] = log[q]
    BY <1>1
  <2> QED
    BY <2>1, <2>2 DEF LiveUpTo, PutsUpTo
<1> QED
  BY <1>1, <1>2

\* The number of PUTs grows with the log, and bounds the live entries.
LEMMA PutsMonotone ==
  ASSUME NEW m \in Nat, NEW n \in 0 .. m
  PROVE  /\ PutsUpTo(n) \in Nat /\ PutsUpTo(m) \in Nat /\ PutsUpTo(n) <= PutsUpTo(m)
         /\ Cardinality(LiveUpTo(n)) <= PutsUpTo(n)
         /\ IsFiniteSet(LiveUpTo(n)) /\ Cardinality(LiveUpTo(n)) \in Nat
<1> DEFINE P(i) == {p \in 1 .. i : log[p].type = "put"}
<1>1. IsFiniteSet(1 .. n) /\ IsFiniteSet(1 .. m)
  BY FS_Interval
<1>2. P(n) \subseteq P(m) /\ P(n) \subseteq 1 .. n /\ P(m) \subseteq 1 .. m /\ LiveUpTo(n) \subseteq P(n)
  BY DEF LiveUpTo
<1>3. PutsUpTo(n) = Cardinality(P(n)) /\ PutsUpTo(m) = Cardinality(P(m))
  BY DEF PutsUpTo
<1> HIDE DEF P
<1>4. IsFiniteSet(P(n)) /\ IsFiniteSet(P(m)) /\ IsFiniteSet(LiveUpTo(n))
  BY <1>1, <1>2, FS_Subset
<1>5. /\ Cardinality(P(n)) <= Cardinality(P(m))
      /\ Cardinality(LiveUpTo(n)) <= Cardinality(P(n))
  BY <1>2, <1>4, FS_Subset
<1> QED
  BY <1>3, <1>4, <1>5, FS_CardinalityType

\* A key has one live entry at most.
LEMMA LiveUpToUnique ==
  ASSUME NEW n \in Nat, NEW p \in LiveUpTo(n), NEW q \in LiveUpTo(n), log[p].key = log[q].key
  PROVE  p = q
<1>1. p \in 1 .. n /\ q \in 1 .. n /\ ~(q \in p + 1 .. n) /\ ~(p \in q + 1 .. n)
  BY DEF LiveUpTo
<1> QED
  BY <1>1

\* One more entry of the log takes effect.
LEMMA MergedNext ==
  ASSUME NEW S, NEW n \in Nat, NEW m \in Nat, n <= m
  PROVE  Merged(S, n, m + 1) =
           {p \in Merged(S, n, m) : log[p].key # log[m + 1].key}
             \cup IF log[m + 1].type = "put" THEN {m + 1} ELSE {}
<1>1. /\ n + 1 .. m + 1 = (n + 1 .. m) \cup {m + 1} /\ m + 1 \notin n + 1 .. m
      /\ m + 2 .. m + 1 = {}
      /\ \A p \in n + 1 .. m : p + 1 .. m + 1 = (p + 1 .. m) \cup {m + 1}
  OBVIOUS
<1> DEFINE A(k) == {p \in S : \A q \in n + 1 .. k : log[q].key # log[p].key}
           B(k) == {p \in n + 1 .. k :
                      log[p].type = "put" /\ \A q \in p + 1 .. k : log[q].key # log[p].key}
<1>2. A(m + 1) = {p \in A(m) : log[p].key # log[m + 1].key}
  BY <1>1
<1>3. B(m + 1) = {p \in B(m) : log[p].key # log[m + 1].key}
                   \cup IF log[m + 1].type = "put" THEN {m + 1} ELSE {}
  <2>1. ASSUME NEW p \in n + 1 .. m
        PROVE  p \in B(m + 1) <=> p \in B(m) /\ log[p].key # log[m + 1].key
    <3>1. p + 1 .. m + 1 = (p + 1 .. m) \cup {m + 1} /\ p \in n + 1 .. m + 1
      BY <1>1
    <3> QED
      BY <3>1
  <2>2. m + 1 \in B(m + 1) <=> log[m + 1].type = "put"
    BY <1>1
  <2>3. B(m + 1) \subseteq (n + 1 .. m) \cup {m + 1} /\ B(m) \subseteq n + 1 .. m
    BY <1>1
  <2>4. m + 1 \notin n + 1 .. m
    BY <1>1
  <2> HIDE DEF B
  <2> QED
    BY <2>1, <2>2, <2>3, <2>4
<1>4. \A k : Merged(S, n, k) = A(k) \cup B(k)
  BY DEF Merged
<1> HIDE DEF A, B
<1> QED
  BY <1>2, <1>3, <1>4

\* The entries from n + 1 on, merged into an index that covers n, give the
\* index of the whole, even if the index has seen some of them.
LEMMA MergedLive ==
  ASSUME NEW n \in Nat, NEW i \in Nat, NEW m \in Nat, n <= i, i <= m
  PROVE  Merged(LiveUpTo(i), n, m) = LiveUpTo(m)
<1>1. ASSUME NEW p \in LiveUpTo(m) PROVE p \in Merged(LiveUpTo(i), n, m)
  <2>1. p \in 1 .. m /\ log[p].type = "put" /\ \A q \in p + 1 .. m : log[q].key # log[p].key
    BY DEF LiveUpTo
  <2>2. CASE p > n
    BY <2>1, <2>2 DEF Merged
  <2>3. CASE p <= n
    <3>1. p \in 1 .. i /\ \A q \in p + 1 .. i : q \in p + 1 .. m
      BY <2>1, <2>3
    <3>2. p \in LiveUpTo(i)
      BY <2>1, <3>1 DEF LiveUpTo
    <3>3. \A q \in n + 1 .. m : q \in p + 1 .. m
      BY <2>1, <2>3
    <3> QED
      BY <2>1, <3>2, <3>3 DEF Merged
  <2> QED
    BY <2>1, <2>2, <2>3
<1>2. ASSUME NEW p \in LiveUpTo(i), \A q \in n + 1 .. m : log[q].key # log[p].key
      PROVE  p \in LiveUpTo(m)
  <2>1. p \in 1 .. i /\ log[p].type = "put" /\ \A q \in p + 1 .. i : log[q].key # log[p].key
    BY DEF LiveUpTo
  <2>2. ASSUME NEW q \in p + 1 .. m PROVE log[q].key # log[p].key
    <3>1. q \in p + 1 .. i \/ q \in n + 1 .. m
      BY <2>1
    <3> QED
      BY <1>2, <2>1, <3>1
  <2>3. p \in 1 .. m
    BY <2>1
  <2> QED
    BY <2>1, <2>2, <2>3 DEF LiveUpTo
<1>3. ASSUME NEW p \in n + 1 .. m, log[p].type = "put",
             \A q \in p + 1 .. m : log[q].key # log[p].key
      PROVE  p \in LiveUpTo(m)
  <2>1. p \in 1 .. m
    OBVIOUS
  <2> QED
    BY <1>3, <2>1 DEF LiveUpTo
<1> QED
  BY <1>1, <1>2, <1>3 DEF Merged

\* Without an old index, the whole log is scanned.
LEMMA MergedAll ==
  ASSUME NEW m \in Nat
  PROVE  Merged({}, 0, m) = LiveUpTo(m)
<1>1. 0 + 1 .. m = 1 .. m
  OBVIOUS
<1> QED
  BY <1>1 DEF Merged, LiveUpTo

(***************************************************************************)
(* The hash file.                                                          *)
(***************************************************************************)

\* Slots with different pointers are as many as their pointers.
LEMMA PointerCount ==
  ASSUME NEW T, NEW tab, IsFiniteSet(T), \A s, t \in T : tab[s].pos = tab[t].pos => s = t
  PROVE  /\ IsFiniteSet({tab[s].pos : s \in T})
         /\ Cardinality({tab[s].pos : s \in T}) = Cardinality(T)
<1> DEFINE f == [s \in T |-> tab[s].pos]
           R == {tab[s].pos : s \in T}
<1>1. f \in Bijection(T, R)
  <2>1. f \in [T -> R]
    OBVIOUS
  <2>2. \A s, t \in T : f[s] = f[t] => s = t
    OBVIOUS
  <2>3. \A p \in R : \E s \in T : f[s] = p
    OBVIOUS
  <2> HIDE DEF f, R
  <2> QED
    BY <2>1, <2>2, <2>3, Fun_IsBij
<1> HIDE DEF f, R
<1>2. ExistsBijection(T, R)
  BY <1>1 DEF ExistsBijection
<1>3. IsFiniteSet(R) /\ Cardinality(R) = Cardinality(T)
  BY <1>2, FS_Bijection
<1> QED
  BY <1>3 DEF R

\* The file's slots, counted.
LEMMA FileFacts ==
  ASSUME FileInv
  PROVE  /\ IsFiniteSet(FileSlots) /\ FileSlots \subseteq 0 .. hashFile.capacity - 1
         /\ IsFiniteSet(FilePointers) /\ Cardinality(FilePointers) = hashFile.numEntries
         /\ hashFile.numEntries \in Nat
<1>1. FileSlots \subseteq 0 .. hashFile.capacity - 1 /\ hashFile.capacity \in Nat \ {0}
  BY DEF FileSlots, FileInv
<1>2. IsFiniteSet(0 .. hashFile.capacity - 1)
  <2>1. 0 \in Int /\ hashFile.capacity - 1 \in Int
    BY <1>1
  <2> QED
    BY <2>1, FS_Interval
<1>3. IsFiniteSet(FileSlots) /\ Cardinality(FileSlots) \in Nat
  BY <1>1, <1>2, FS_Subset, FS_CardinalityType
<1>4. IsFiniteSet(FilePointers) /\ Cardinality(FilePointers) = Cardinality(FileSlots)
  <2> DEFINE T == FileSlots
             tab == hashFile.table
  <2>1. \A s, t \in T : tab[s].pos = tab[t].pos => s = t
    BY DEF FileInv
  <2>2. FilePointers = {tab[s].pos : s \in T} /\ IsFiniteSet(T)
    BY <1>3 DEF FilePointers
  <2> HIDE DEF T, tab
  <2>3. IsFiniteSet(FilePointers) /\ Cardinality(FilePointers) = Cardinality(T)
    BY <2>1, <2>2, PointerCount, Zenon
  <2> QED
    BY <2>3 DEF T
<1> QED
  BY <1>1, <1>3, <1>4 DEF FileInv

\* The same of a file that a step has just written.
LEMMA FileFactsNext ==
  FileInv' => (hashFile.numEntries \in Nat /\ Cardinality(FilePointers) = hashFile.numEntries)'
<1>1. FileInv => hashFile.numEntries \in Nat /\ Cardinality(FilePointers) = hashFile.numEntries
  BY FileFacts
<1> QED
  BY <1>1, PTL

\* Its live entries, counted.
LEMMA FileIndexes ==
  ASSUME FileInv, NEW n, FilePointers = LiveUpTo(n)
  PROVE  IndexOf(n)
<1>1. Cardinality(FilePointers) = Cardinality(FileSlots)
  BY FileFacts DEF FileInv
<1> QED
  BY <1>1 DEF IndexOf, FilePointers

\* The file stays what it is when nothing it speaks of changes, and when the
\* log grows.
LEMMA FileKept ==
  ASSUME FileOK, hashFile' = hashFile, log \in Seq(Entry), Extends, diskPuts \in Nat,
         diskPuts' \in Nat, diskPuts <= diskPuts'
  PROVE  FileOK'
<1>1. /\ FileSlots' = FileSlots /\ FilePointers' = FilePointers
      /\ hashFile.dataEnd \in 0 .. Len(log) /\ hashFile.dataEnd \in 0 .. Len(log')
  BY LogKept DEF FileSlots, FilePointers, FileOK, FileHeader
<1>2. FileHeader'
  <2>1. PutsUpTo(hashFile.dataEnd)' = PutsUpTo(hashFile.dataEnd)
    <3>1. \A n \in 0 .. Len(log) :
            Cardinality({p \in 1 .. n : log'[p].type = "put"}) = PutsUpTo(n)
      BY LogKept DEF PutsUpTo
    <3> QED
      BY <1>1, <3>1 DEF PutsUpTo
  <2>2. hashFile.numPuts <= diskPuts'
    BY DEF FileOK, FileHeader
  <2> QED
    BY <1>1, <2>1, <2>2 DEF FileOK, FileHeader
<1>3. ASSUME ~hashFile.bad PROVE FileInv'
  <2>1. FileInv
    BY <1>3 DEF FileOK
  <2>2. \E n \in hashFile.dataEnd .. Len(log') :
          /\ FilePointers' = LiveUpTo(n)'
          /\ hashFile.raced \/ n = hashFile.dataEnd
    <3>1. PICK n \in hashFile.dataEnd .. Len(log) :
            /\ FilePointers = LiveUpTo(n)
            /\ hashFile.raced \/ n = hashFile.dataEnd
      BY <2>1 DEF FileInv
    <3>2. n \in 0 .. Len(log) /\ n \in hashFile.dataEnd .. Len(log')
      BY <1>1, <3>1, LogKept
    <3> QED
      BY <1>1, <3>1, <3>2, LogKept
  <2>3. \A s \in FileSlots : FilePut(s)'
    <3>1. \A p \in DOMAIN log : p \in DOMAIN log' /\ log'[p] = log[p]
      BY LogKept DEF Extends
    <3> QED
      BY <2>1, <3>1 DEF FileInv, FilePut
  <2> QED
    BY <1>1, <2>1, <2>2, <2>3 DEF FileInv
<1> QED
  BY <1>2, <1>3 DEF FileOK

\* So it does while the log stays as it is.
LEMMA FileSame ==
  ASSUME HWInv, hashFile.exists, UNCHANGED <<hashFile, log, diskPuts>>
  PROVE  FileOK'
<1>1. log \in Seq(Entry) /\ Extends /\ diskPuts \in Nat /\ FileOK
  BY DEF HWInv, HeadersInv, DiskInv, Extends
<1> QED
  BY <1>1, FileKept

\* A copied file leads to the entries of the log.
LEMMA CopiedFile ==
  ASSUME HWInv, CopyOld, phase \in {"copy", "scan"}
  PROVE  OldLoads /\ hashFile.exists /\ FileHeader /\ FileInv
BY DEF HWInv, HeadersInv, FileOK, CopyOld, OldLoads

\* The decisions of the call stay the same while it runs.
LEMMA DecisionsKept ==
  ASSUME UNCHANGED <<hashFile, numPuts, sizeArg>>
  PROVE  /\ CopyOld' = CopyOld /\ ScanStart' = ScanStart
         /\ FilePointers' = FilePointers /\ CopiedBase' = CopiedBase
         /\ OldLoads' = OldLoads /\ FileSlots' = FileSlots
BY DEF CopyOld, ScanStart, OldLoads, NewHashSize, AutoHashSize, OldHashSize, NewCapacity,
       FilePointers, FileSlots, CopiedBase

(***************************************************************************)
(* How the loops start and how the table is set up.                        *)
(***************************************************************************)
Fresh ==
  /\ keyHash \in HashFns /\ log \in Seq(Entry) /\ capacity \in Nat \ {0}
  /\ table = [s \in 0 .. capacity - 1 |-> EmptySlot] /\ numEntries = 0 /\ garbage \in Nat
  /\ op = "idle" /\ key \in Key \cup {NoKey} /\ slot = 0 /\ disp = 0
  /\ hash \in Nat /\ pos \in Nat /\ fresh \in BOOLEAN

\* An empty table satisfies the invariant of the loops.
LEMMA FreshLoop == Fresh => LoopMapInv /\ LivePointers = {} /\ ~Pending
<1> SUFFICES ASSUME Fresh PROVE LoopMapInv /\ LivePointers = {} /\ ~Pending
  OBVIOUS
<1>1. Slots = 0 .. capacity - 1 /\ 0 \in Slots /\ 0 \in 0 .. capacity
  BY DEF Fresh, Slots
<1>2. EmptySlot \in [hash : Nat, pos : Nat] /\ EmptySlot.pos = 0
  BY DEF EmptySlot
<1>3. Occupied = {}
  BY <1>1, <1>2 DEF Fresh, Occupied, Empty
<1>4. LoopTypes
  BY <1>1, <1>2 DEF Fresh, LoopTypes, Ops
<1>5. numEntries = Cardinality(Occupied)
  BY <1>3, FS_EmptySet DEF Fresh
<1>6. PointersArePuts /\ OrderInv /\ CarriedFits /\ HoleInv
  BY <1>3 DEF Fresh, PointersArePuts, OrderInv, Ordered, CarriedFits, HoleInv
<1>7. ProbeInv /\ KeyInv /\ ~Pending
  BY <1>3 DEF Fresh, ProbeInv, Probing, KeyInv, Pending
<1>8. LivePointers = {}
  BY <1>3 DEF Fresh, LivePointers, Carried
<1> QED
  BY <1>4, <1>5, <1>6, <1>7, <1>8 DEF LoopMapInv, LoopInv

\* The same of the table that a step has just allocated.
LEMMA FreshNext == Fresh' => LoopMapInv' /\ (LivePointers = {})' /\ ~Pending'
BY FreshLoop, PTL

\* Between calls of the loops the log may grow.
LEMMA LoopKept ==
  ASSUME LoopMapInv, op = "idle", UNCHANGED <<keyHash, capacity, table, numEntries, garbage>>,
         UNCHANGED probeVars, log' \in Seq(Entry),
         \A p \in 1 .. Len(log) : p \in 1 .. Len(log') /\ log'[p] = log[p]
  PROVE  LoopMapInv' /\ LivePointers' = LivePointers /\ ~Pending'
<1>0. LoopTypes /\ LoopInv /\ log \in Seq(Entry) /\ DOMAIN log = 1 .. Len(log)
      /\ DOMAIN log' = 1 .. Len(log')
  BY DEF LoopMapInv, LoopInv, LoopTypes
<1>1. op' = "idle" /\ UNCHANGED <<key, slot, disp, hash, pos, fresh>>
  BY DEF probeVars
<1>2. Slots' = Slots /\ Occupied' = Occupied /\ DispFn' = DispFn
  BY TableUnchanged
<1>3. LoopTypes'
  BY <1>0, <1>1, <1>2 DEF LoopTypes
<1>4. PointersArePuts'
  BY <1>0, <1>1, <1>2 DEF LoopInv, PointersArePuts, IsPutPointer
<1>5. OrderInv' /\ CarriedFits' /\ HoleInv' /\ numEntries' = Cardinality(Occupied')
  BY <1>0, <1>1, <1>2 DEF LoopInv, OrderInv, CarriedFits, HoleInv
<1>6. \A s \in Occupied : KeyAt(s)' = KeyAt(s)
  BY <1>0, PointedKey DEF KeyAt
<1>7. Hole = {} /\ Hole' = {} /\ Carried = {} /\ Carried' = {} /\ ~Pending'
  BY <1>1 DEF Hole, Carried, Pending
<1>8. ProbeInv' /\ KeyInv'
  BY <1>1, <1>2, <1>6, <1>7 DEF LoopMapInv, ProbeInv, Probing, KeyInv
<1>9. LivePointers' = LivePointers
  BY <1>2, <1>7 DEF LivePointers
<1> QED
  BY <1>3, <1>4, <1>5, <1>7, <1>8, <1>9 DEF LoopMapInv, LoopInv

\* A call of hash_put or hash_delete starts.
LEMMA LoopStarts ==
  ASSUME LoopMapInv, op = "idle", UNCHANGED <<keyHash, capacity, table, numEntries, log>>,
         garbage' \in Nat, NEW o \in {"put", "delete"}, NEW k \in Key \cup {NoKey},
         NEW h \in Nat, NEW p \in Nat, NEW f \in BOOLEAN, StartProbe(o, k, h, p, f),
         f => k \in Key /\ h = keyHash[k],
         o = "delete" => f,
         o = "put" => /\ IsPutPointer(h, p)
                      /\ IF f THEN log[p].key = k
                         ELSE \A s \in Occupied : KeyAt(s) # log[p].key
  PROVE  /\ LoopMapInv'
         /\ LivePointers' = LivePointers \cup IF f THEN {} ELSE {p}
         /\ Pending' = f
<1>0. LoopTypes /\ LoopInv
  BY DEF LoopMapInv, LoopInv
<1>1. /\ op' = o /\ key' = k /\ hash' = h /\ pos' = p /\ fresh' = f
  BY DEF StartProbe
<1>2. Slots' = Slots /\ Occupied' = Occupied /\ DispFn' = DispFn
  BY TableUnchanged
<1>3. slot' \in Slots' /\ disp' \in 0 .. capacity' /\ hash' \in Nat /\ CarriedFits'
  BY <1>0, CarriedStarts
<1>4. LoopTypes'
  BY <1>0, <1>1, <1>2, <1>3 DEF LoopTypes, Ops
<1>5. PointersArePuts'
  BY <1>0, <1>1, <1>2 DEF LoopInv, PointersArePuts, IsPutPointer
<1>6. OrderInv' /\ HoleInv' /\ numEntries' = Cardinality(Occupied')
  BY <1>0, <1>1, <1>2 DEF LoopInv, OrderInv, HoleInv
<1>7. \A s \in Occupied : KeyAt(s)' = KeyAt(s)
  BY DEF KeyAt
<1>8. Hole = {} /\ Hole' = {} /\ Carried = {} /\ Carried' = IF f THEN {} ELSE {p}
  BY <1>1 DEF Hole, Carried
<1>9. KeyInv'
  BY <1>1, <1>2, <1>7, <1>8 DEF LoopMapInv, KeyInv
<1>10. ProbeInv'
  <2>1. CASE f
    BY <1>0, <2>1, ProbeStarts
  <2>2. CASE ~f
    BY <1>1, <2>2 DEF ProbeInv, Probing
  <2> QED
    BY <2>1, <2>2
<1>11. Pending' = f
  BY <1>1 DEF Pending
<1>12. LivePointers' = LivePointers \cup IF f THEN {} ELSE {p}
  BY <1>2, <1>8 DEF LivePointers
<1> QED
  BY <1>3, <1>4, <1>5, <1>6, <1>9, <1>10, <1>11, <1>12 DEF LoopMapInv, LoopInv

-----------------------------------------------------------------------------
(***************************************************************************)
(* Every step keeps the invariant: one lemma for each action.              *)
(***************************************************************************)

\* Outside the loop that does not end, the invariant of the loops holds.
LEMMA NotStuck ==
  ASSUME HWInv, op # "put" \/ phase # "scan"
  PROVE  LoopMapInv /\ ContentInv /\ LoopInv /\ LoopTypes
BY DEF HWInv, Stuck, LoopMapInv, LoopInv

\* Before the first call there is no hash file.
LEMMA HWInitInv == HWInit => HWInv
<1> SUFFICES ASSUME HWInit PROVE HWInv
  OBVIOUS
<1>1. /\ Init /\ numPuts = 0 /\ hashFile.exists = FALSE /\ phase = "out" /\ sizeArg = 0
      /\ loadedEnd = 0 /\ logEnd = 0 /\ hashSize = 4 /\ copySlot = 0
      /\ diskPuts = 0 /\ covered = {} /\ cuts = 0 /\ loadedCovered = {}
      /\ flush = [step |-> "none", puts |-> 0, start |-> 0]
  BY DEF HWInit, NoFile, NoFlush
<1>2. log = << >> /\ Len(log) = 0 /\ log \in Seq(Entry) /\ op = "idle" /\ slot = 0 /\ disp = 0
  BY <1>1 DEF Init
<1>3. HWTypeOK
  <2>1. hashFile.exists \in BOOLEAN
    BY <1>1, Zenon
  <2>2. 0 \in 0 .. Len(log)
    BY <1>2
  <2> QED
    BY <1>1, <2>1, <2>2 DEF HWTypeOK, Phases
<1>4. HeadersInv
  BY <1>1, <1>2 DEF HeadersInv, Init
<1>5. Fresh
  <2>1. capacity \in Nat \ {0}
    BY <1>1, CapacityRoom DEF Init
  <2> QED
    BY <1>1, <1>2, <2>1 DEF Init, Fresh, Slots
<1>6. LoopMapInv
  BY <1>5, FreshLoop
<1>7. ContentInv
  BY <1>1, <1>2 DEF ContentInv
<1>8. DiskInv
  <2>1. PutsUpTo(0) = 0
    <3>1. {p \in 1 .. 0 : log[p].type = "put"} = {}
      OBVIOUS
    <3> QED
      BY <3>1, FS_EmptySet DEF PutsUpTo
  <2> QED
    BY <1>1, <1>2, <2>1 DEF DiskInv
<1> QED
  BY <1>1, <1>3, <1>4, <1>6, <1>7, <1>8 DEF HWInv

\* What a step of a flush does: the log may grow, num_puts stays ahead of it.
LEMMA GrowsFacts ==
  ASSUME HWInv, LogGrows
  PROVE  /\ FlushUnseen /\ UNCHANGED callUnchanged /\ Extends
         /\ DiskInv' /\ diskPuts' \in Nat /\ diskPuts <= diskPuts'
         /\ cuts' \in Nat /\ covered' \subseteq 1 .. Len(log')
         /\ flush' \in [step : {"none", "end", "max"}, puts : Nat, start : 0 .. Len(log')]
<1>1. /\ log \in Seq(Entry) /\ Len(log) \in Nat /\ diskPuts \in Nat /\ cuts \in Nat
      /\ covered \subseteq 1 .. Len(log)
      /\ flush \in [step : {"none", "end", "max"}, puts : Nat, start : 0 .. Len(log)]
      /\ PutsUpTo(Len(log)) + (IF flush.step = "end" THEN flush.puts ELSE 0) <= diskPuts
  BY DEF HWInv, HeadersInv, HWTypeOK, DiskInv
<1>2. PutsUpTo(Len(log)) \in Nat /\ flush.puts \in Nat /\ PutsUpTo(Len(log)) <= diskPuts
  <2>1. PutsUpTo(Len(log)) \in Nat
    BY <1>1, PutsMonotone
  <2> QED
    BY <1>1, <2>1
<1>3. log' = log => PutsUpTo(Len(log))' = PutsUpTo(Len(log)) /\ Extends
  BY <1>1 DEF PutsUpTo, Extends
<1>4. NoFlush \in [step : {"none", "end", "max"}, puts : Nat, start : 0 .. Len(log)]
      /\ NoFlush.step # "end"
  BY <1>1 DEF NoFlush
<1>5. ASSUME NEW n \in 0 .. MaxFlush, WritePuts(n)
      PROVE  /\ FlushUnseen /\ UNCHANGED callUnchanged /\ Extends
             /\ DiskInv' /\ diskPuts' \in Nat /\ diskPuts <= diskPuts'
             /\ cuts' \in Nat /\ covered' \subseteq 1 .. Len(log')
             /\ flush' \in [step : {"none", "end", "max"}, puts : Nat, start : 0 .. Len(log')]
  <2>1. /\ FlushUnseen /\ UNCHANGED callUnchanged /\ UNCHANGED <<log, covered, cuts>>
        /\ diskPuts' = diskPuts + n
        /\ flush' = [step |-> "end", puts |-> n, start |-> Len(log)] /\ n \in Nat
    BY <1>5 DEF WritePuts
  <2>2. DiskInv'
    BY <1>1, <1>2, <1>3, <2>1 DEF DiskInv
  <2> QED
    BY <1>1, <1>3, <2>1, <2>2
<1>6. ASSUME NEW n \in 1 .. MaxFlush, NEW es \in [1 .. n -> Entry], WriteEnd(es)
      PROVE  /\ FlushUnseen /\ UNCHANGED callUnchanged /\ Extends
             /\ DiskInv' /\ diskPuts' \in Nat /\ diskPuts <= diskPuts'
             /\ cuts' \in Nat /\ covered' \subseteq 1 .. Len(log')
             /\ flush' \in [step : {"none", "end", "max"}, puts : Nat, start : 0 .. Len(log')]
  <2>1. /\ FlushUnseen /\ UNCHANGED callUnchanged /\ UNCHANGED <<diskPuts, covered, cuts>>
        /\ log' = log \o es /\ flush.step = "end" /\ flush' = [flush EXCEPT !.step = "max"]
        /\ PutsIn(log \o es) = PutsIn(log) + flush.puts
    BY <1>6 DEF WriteEnd
  <2>2. es \in Seq(Entry)
    BY <1>6
  <2>3. /\ log' \in Seq(Entry) /\ Len(log') \in Nat /\ Len(log) <= Len(log')
        /\ \A p \in 1 .. Len(log) : log'[p] = log[p]
        /\ DOMAIN log = 1 .. Len(log) /\ DOMAIN log' = 1 .. Len(log')
    BY <1>1, <2>1, <2>2
  <2>4. PutsUpTo(Len(log)) = PutsIn(log) /\ PutsUpTo(Len(log))' = PutsIn(log \o es)
    BY <2>1, <2>3 DEF PutsUpTo, PutsIn
  <2>5. DiskInv'
    BY <1>1, <1>2, <2>1, <2>4 DEF DiskInv
  <2>6. covered' \subseteq 1 .. Len(log')
    BY <1>1, <2>1, <2>3
  <2>7. flush' \in [step : {"none", "end", "max"}, puts : Nat, start : 0 .. Len(log')]
    BY <1>1, <2>1, <2>3
  <2> QED
    BY <1>1, <2>1, <2>3, <2>5, <2>6, <2>7 DEF Extends
<1>7. CASE WriteMax
  <2>1. /\ FlushUnseen /\ UNCHANGED callUnchanged /\ UNCHANGED <<log, diskPuts, cuts>>
        /\ covered' = covered \cup (flush.start + 1 .. Len(log)) /\ flush' = NoFlush
    BY <1>7 DEF WriteMax
  <2>2. DiskInv'
    BY <1>1, <1>2, <1>3, <1>4, <2>1 DEF DiskInv
  <2>3. covered' \subseteq 1 .. Len(log')
    <3>1. flush.start \in 0 .. Len(log)
      BY <1>1
    <3>2. flush.start + 1 .. Len(log) \subseteq 1 .. Len(log)
      BY <1>1, <3>1
    <3> QED
      BY <1>1, <2>1, <3>2
  <2> QED
    BY <1>1, <1>3, <1>4, <2>1, <2>2, <2>3
<1>8. CASE FlushCut
  <2>1. /\ FlushUnseen /\ UNCHANGED callUnchanged /\ UNCHANGED <<log, diskPuts, covered>>
        /\ cuts' = cuts + 1 /\ flush' = NoFlush
    BY <1>8 DEF FlushCut
  <2>2. DiskInv'
    BY <1>1, <1>2, <1>3, <1>4, <2>1 DEF DiskInv
  <2> QED
    BY <1>1, <1>3, <1>4, <2>1, <2>2
<1> QED
  BY <1>5, <1>6, <1>7, <1>8 DEF LogGrows

\* The log writer writes a part of a flush.
LEMMA GrowsKeeps ==
  ASSUME HWInv, LogGrows
  PROVE  HWInv'
<1>1. /\ FlushUnseen /\ UNCHANGED callUnchanged /\ Extends
      /\ DiskInv' /\ diskPuts' \in Nat /\ diskPuts <= diskPuts'
      /\ cuts' \in Nat /\ covered' \subseteq 1 .. Len(log')
      /\ flush' \in [step : {"none", "end", "max"}, puts : Nat, start : 0 .. Len(log')]
  BY GrowsFacts
<1>2. /\ phase \in {"out", "loaded"}
      /\ UNCHANGED <<keyHash, numPuts, capacity, table, numEntries, garbage, iterPos>>
      /\ UNCHANGED <<hashFile, phase, sizeArg, loadedEnd, loadedCovered, logEnd, hashSize, copySlot>>
      /\ UNCHANGED probeVars /\ op' = op /\ slot' = slot /\ disp' = disp
  BY <1>1 DEF FlushUnseen, callUnchanged, callVars, probeVars, readVars
<1>3. /\ log \in Seq(Entry) /\ op = "idle" /\ HWTypeOK /\ HeadersInv /\ Len(log) \in Nat
      /\ LoopMapInv /\ ContentInv /\ diskPuts \in Nat /\ loadedEnd \in 0 .. Len(log)
  BY <1>2, NotStuck DEF HWInv, HeadersInv, DiskInv, HWTypeOK
<1>4. /\ log' \in Seq(Entry) /\ Len(log') \in Nat /\ 0 .. Len(log) \subseteq 0 .. Len(log')
      /\ \A n \in 0 .. Len(log) : PutsUpTo(n)' = PutsUpTo(n)
      /\ \A p \in 1 .. Len(log) : p \in 1 .. Len(log') /\ log'[p] = log[p]
  <2>1. /\ log' \in Seq(Entry) /\ \A p \in 1 .. Len(log) : log'[p] = log[p]
    BY <1>1 DEF Extends
  <2>2. /\ Len(log') \in Nat /\ 0 .. Len(log) \subseteq 0 .. Len(log')
        /\ \A n \in 0 .. Len(log) : PutsUpTo(n)' = PutsUpTo(n)
    BY <1>1, <1>3, LogKept
  <2>3. \A p \in 1 .. Len(log) : p \in 1 .. Len(log')
    BY <1>3, <2>2
  <2> QED
    BY <2>1, <2>2, <2>3
<1>5. HWTypeOK'
  BY <1>1, <1>2, <1>3, <1>4 DEF HWTypeOK
<1>6. HeadersInv'
  <2>1. PutsUpTo(loadedEnd)' = PutsUpTo(loadedEnd)
    BY <1>2, <1>3, <1>4
  <2>2. phase # "out" => numPuts <= diskPuts'
    BY <1>1, <1>3 DEF HeadersInv
  <2> QED
    BY <1>2, <1>3, <1>4, <2>1, <2>2 DEF HeadersInv
<1>7. hashFile.exists => FileOK'
  BY <1>1, <1>2, <1>3, FileKept DEF HWInv
<1>8. LoopMapInv'
  BY <1>2, <1>3, <1>4, LoopKept
<1>9. ContentInv'
  BY <1>2, <1>3 DEF ContentInv
<1> QED
  BY <1>1, <1>2, <1>5, <1>6, <1>7, <1>8, <1>9 DEF HWInv

\* sparkey_hash_write loads the log header.
LEMMA CallKeeps ==
  ASSUME HWInv, NEW size \in HashSizeArgs, CallHashWrite(size)
  PROVE  HWInv'
<1>1. /\ phase = "out" /\ phase' = "loaded" /\ sizeArg' = size /\ numPuts' = diskPuts
      /\ loadedEnd' = Len(log) /\ loadedCovered' = covered
      /\ UNCHANGED <<keyHash, capacity, table, numEntries, garbage, log, iterPos>>
      /\ UNCHANGED <<hashFile, diskPuts, covered, flush, cuts, logEnd, hashSize, copySlot>>
      /\ UNCHANGED probeVars /\ op' = op /\ slot' = slot /\ disp' = disp
  BY DEF CallHashWrite, probeVars, readVars, diskVars
<1>2. /\ log \in Seq(Entry) /\ op = "idle" /\ HWTypeOK /\ HeadersInv /\ Len(log) \in Nat
      /\ LoopMapInv /\ ContentInv /\ DiskInv /\ diskPuts \in Nat
  BY <1>1, NotStuck DEF HWInv, HeadersInv, DiskInv
<1>3. HWTypeOK'
  BY <1>1, <1>2 DEF HWTypeOK, Phases
<1>4. hashFile.exists => FileHeader /\ FileOK'
  BY <1>1, FileSame DEF HWInv, FileOK
<1>5. HeadersInv' /\ DiskInv'
  <2>1. PutsUpTo(loadedEnd)' = PutsUpTo(Len(log)) /\ PutsUpTo(Len(log))' = PutsUpTo(Len(log))
    BY <1>1 DEF PutsUpTo
  <2>2. hashFile.exists => hashFile.dataEnd <= Len(log) /\ hashFile.numPuts <= diskPuts
    BY <1>4 DEF FileHeader
  <2>3. PutsUpTo(Len(log)) <= diskPuts
    <3>1. PutsUpTo(Len(log)) \in Nat /\ flush.puts \in Nat
      BY <1>2, PutsMonotone DEF HWTypeOK
    <3> QED
      BY <1>2, <3>1 DEF DiskInv
  <2> QED
    BY <1>1, <1>2, <2>1, <2>2, <2>3 DEF HeadersInv, DiskInv
<1>6. LoopMapInv'
  BY <1>1, <1>2, LoopKept
<1>7. ContentInv'
  BY <1>1, <1>2 DEF ContentInv
<1> QED
  BY <1>1, <1>3, <1>4, <1>5, <1>6, <1>7 DEF HWInv

\* While the log is not written to, its header stays as it is.
LEMMA DiskSame ==
  ASSUME HWInv, UNCHANGED <<log, diskPuts, flush>>
  PROVE  DiskInv' /\ \A n : PutsUpTo(n)' = PutsUpTo(n)
BY DEF HWInv, DiskInv, PutsUpTo

\* The call returns: its table is gone.
LEMMA LeaveKeeps ==
  ASSUME HWInv, op = "idle", Leave, UNCHANGED <<keyHash, log, probeVars, diskVars>>,
         hashFile'.exists => FileOK', hashFile'.exists \in BOOLEAN
  PROVE  HWInv'
<1>1. /\ phase' = "out" /\ capacity' = 1 /\ table' = [s \in {0} |-> EmptySlot]
      /\ numEntries' = 0 /\ garbage' = 0 /\ sizeArg' = 0 /\ loadedEnd' = 0 /\ logEnd' = 0
      /\ hashSize' = 4 /\ copySlot' = 0 /\ loadedCovered' = {}
      /\ UNCHANGED <<op, key, slot, disp, hash, pos, fresh, diskPuts, covered, flush, cuts>>
  BY DEF Leave, probeVars, diskVars
<1>2. /\ LoopMapInv /\ ContentInv /\ LoopTypes /\ log \in Seq(Entry) /\ keyHash \in HashFns
      /\ HWTypeOK
  BY NotStuck DEF HWInv, HeadersInv
<1>3. Fresh'
  <2>1. 0 .. 1 - 1 = {0}
    OBVIOUS
  <2> QED
    BY <1>1, <1>2, <2>1 DEF Fresh, ContentInv, LoopTypes
<1>4. LoopMapInv'
  BY <1>3, FreshNext
<1>5. HWTypeOK'
  BY <1>1, <1>2 DEF HWTypeOK, Phases
<1>6. HeadersInv' /\ DiskInv'
  BY <1>1, <1>2, DiskSame DEF HeadersInv
<1>7. ContentInv'
  BY <1>1, <1>2 DEF ContentInv
<1> QED
  BY <1>4, <1>5, <1>6, <1>7 DEF HWInv

\* A log header that is refused, an invalid hash_size, nothing to do, or an
\* error from an address that leads astray.
LEMMA ReturnsKeeps ==
  ASSUME HWInv, OpenRefused \/ OpenRejects \/ OpenNothingToDo \/ AstrayFails
  PROVE  HWInv'
<1>1. phase \in {"loaded", "astray"} /\ op = "idle"
  BY DEF OpenRefused, OpenRejects, OpenNothingToDo, AstrayFails, HWInv, HeadersInv
<1>2. UNCHANGED <<keyHash, log, probeVars, diskVars, diskPuts, hashFile>> /\ Leave
  BY DEF OpenRefused, OpenRejects, OpenNothingToDo, AstrayFails, LeaveUnchanged, diskVars
<1>3. hashFile'.exists \in BOOLEAN /\ (hashFile'.exists => FileOK')
  BY <1>2, FileSame DEF HWInv, HWTypeOK
<1> QED
  BY <1>1, <1>2, <1>3, LeaveKeeps

\* The capacity and the hash size that are chosen.
LEMMA Chosen ==
  ASSUME HWInv, phase # "out"
  PROVE  /\ NewCapacity \in Nat \ {0} /\ OldGarbage \in Nat
         /\ sizeArg \in {0, 4, 8} => NewHashSize \in {4, 8}
         /\ OldLoads => NewCapacity >= hashFile.numEntries + (numPuts - hashFile.numPuts)
         /\ OldLoads => /\ hashFile.numEntries \in Nat /\ hashFile.numPuts \in Nat
                        /\ numPuts - hashFile.numPuts \in Nat
         /\ numPuts \in Nat /\ (~OldLoads => NewCapacity >= numPuts)
<1>1. numPuts \in Nat
  BY DEF HWInv, HeadersInv
<1>2. ASSUME OldLoads
      PROVE  /\ FileHeader /\ hashFile.numEntries \in Nat /\ hashFile.numPuts \in Nat
             /\ numPuts - hashFile.numPuts \in Nat
  <2>1. FileHeader /\ hashFile.exists
    BY <1>2 DEF OldLoads, HWInv, FileOK
  <2>2. hashFile.numPuts <= numPuts
    BY <2>1 DEF HWInv, HeadersInv
  <2> QED
    BY <1>1, <2>1, <2>2 DEF FileHeader
<1>4. CASE OldLoads
  <2> DEFINE n == (numPuts - hashFile.numPuts) + hashFile.numEntries
  <2>1. n \in Nat
    BY <1>2, <1>4
  <2>2. NewCapacity = HashCapacity(n)
    BY <1>4 DEF NewCapacity
  <2>3. NewCapacity \in Nat \ {0} /\ NewCapacity >= n
    BY <2>1, <2>2, CapacityRoom
  <2>4. OldGarbage \in Nat /\ hashFile.hashSize \in {4, 8}
    BY <1>2, <1>4 DEF OldGarbage, FileHeader
  <2>5. sizeArg \in {0, 4, 8} => NewHashSize \in {4, 8}
    BY DEF NewHashSize, AutoHashSize
  <2> QED
    BY <1>1, <1>2, <1>4, <2>3, <2>4, <2>5
<1>5. CASE ~OldLoads
  <2>1. NewCapacity \in Nat \ {0} /\ NewCapacity >= numPuts
    BY <1>1, <1>5, CapacityRoom DEF NewCapacity
  <2> QED
    BY <1>1, <1>5, <2>1 DEF OldGarbage, NewHashSize, AutoHashSize
<1> QED
  BY <1>4, <1>5

\* The table is allocated.
LEMMA PreparesKeeps ==
  ASSUME HWInv, OpenPrepares
  PROVE  HWInv'
<1>1. /\ phase = "loaded" /\ sizeArg \in {0, 4, 8} /\ logEnd' = Len(log)
      /\ capacity' = NewCapacity /\ hashSize' = NewHashSize
      /\ table' = [s \in 0 .. NewCapacity - 1 |-> EmptySlot] /\ numEntries' = 0
      /\ garbage' = OldGarbage /\ keyHash' \in IF CopyOld THEN {hashFile.keyHash} ELSE HashFns
      /\ phase' = IF CopyOld THEN "copy" ELSE "scan"
      /\ iterPos' = ScanStart /\ copySlot' = 0 /\ (CopyOld => ~hashFile.bad)
      /\ UNCHANGED <<numPuts, log, hashFile, sizeArg, loadedEnd, loadedCovered>>
      /\ UNCHANGED <<diskPuts, covered, flush, cuts, op, key, slot, disp, hash, pos, fresh>>
  BY DEF OpenPrepares, EmptyTable, probeVars, diskVars
<1>2. /\ log \in Seq(Entry) /\ op = "idle" /\ HWTypeOK /\ HeadersInv /\ Len(log) \in Nat
      /\ LoopMapInv /\ ContentInv /\ LoopTypes /\ keyHash \in HashFns
  BY <1>1, NotStuck DEF HWInv, HeadersInv
<1>3. /\ CopyOld' = CopyOld /\ ScanStart' = ScanStart /\ CopiedBase' = CopiedBase
      /\ FileSlots' = FileSlots
  BY <1>1, DecisionsKept
<1>4. /\ NewCapacity \in Nat \ {0} /\ NewHashSize \in {4, 8} /\ OldGarbage \in Nat
      /\ CopyOld => /\ NewCapacity >= hashFile.numEntries /\ hashFile.exists /\ FileInv
                    /\ hashFile.dataEnd \in 0 .. Len(log) /\ hashFile.capacity \in Nat
                    /\ hashFile.keyHash \in HashFns
  <2>1. CopyOld => OldLoads /\ hashFile.exists /\ FileInv
    BY <1>1 DEF CopyOld, OldLoads, HWInv, FileOK
  <2>2. OldLoads => NewCapacity >= hashFile.numEntries
    BY <1>1, Chosen
  <2> QED
    BY <1>1, <2>1, <2>2, Chosen DEF FileInv
<1>5. Fresh'
  BY <1>1, <1>2, <1>4 DEF Fresh, ContentInv, LoopTypes
<1>6. LoopMapInv' /\ LivePointers' = {} /\ ~Pending'
  BY <1>5, FreshNext
<1>7. HWTypeOK'
  BY <1>1, <1>2, <1>4 DEF HWTypeOK, Phases
<1>8. hashFile'.exists => FileOK'
  BY <1>1, FileSame
<1>9. HeadersInv' /\ DiskInv'
  <2>1. DiskInv' /\ PutsUpTo(loadedEnd)' = PutsUpTo(loadedEnd)
    BY <1>1, DiskSame DEF PutsUpTo
  <2> QED
    BY <1>1, <1>2, <1>3, <1>4, <2>1 DEF HeadersInv, ScanStart
<1>10. ContentInv'
  <2>1. CASE CopyOld
    <3>1. CopiedSlots' = {}
      BY <1>1, <1>3, <1>4, <2>1, FileFacts DEF CopiedSlots
    <3>2. CopiedPointers' = {}
      BY <3>1 DEF CopiedPointers
    <3> QED
      BY <1>1, <1>2, <1>6, <2>1, <3>2 DEF ContentInv
  <2>2. CASE ~CopyOld
    <3>1. ScanStart' = 0 /\ CopiedBase' = {} /\ iterPos' = 0
      BY <1>1, <1>3, <2>2 DEF ScanStart, CopiedBase
    <3>2. Merged({}, 0, 0)' = {}
      BY DEF Merged
    <3>3. ScannedTo' = 0 /\ 0 \in 0 .. logEnd'
      BY <1>1, <1>2, <1>6, <3>1 DEF ScannedTo
    <3>4. Merged(CopiedBase, ScanStart, ScannedTo)' = {}
      BY <3>1, <3>2, <3>3 DEF Merged
    <3> QED
      BY <1>1, <1>2, <1>6, <2>2, <3>1, <3>3, <3>4 DEF ContentInv, Room
  <2> QED
    BY <2>1, <2>2
<1> QED
  BY <1>6, <1>7, <1>8, <1>9, <1>10 DEF HWInv

\* Addresses lead astray: what the call does with its table is left open.
LEMMA AstrayKeeps ==
  ASSUME HWInv, OpenAstray \/ ScanAstray
  PROVE  HWInv'
<1>1. /\ phase \in {"loaded", "scan"} /\ phase' = "astray" /\ TightAddresses
      /\ logEnd' \in 0 .. Len(log) /\ hashSize' \in {4, 8}
      /\ UNCHANGED <<vars, hashFile, sizeArg, loadedEnd, loadedCovered, copySlot>>
      /\ UNCHANGED <<diskPuts, covered, flush, cuts>>
  <2>1. CASE OpenAstray
    <3>1. phase = "loaded" /\ hashSize' = NewHashSize /\ sizeArg \in {0, 4, 8}
      BY <2>1 DEF OpenAstray
    <3>2. NewHashSize \in {4, 8}
      BY <3>1, Chosen
    <3>3. TightAddresses
      BY <2>1 DEF OpenAstray, CopyOld, OldLoads, HWInv, FileOK, FileHeader
    <3>4. Len(log) \in 0 .. Len(log)
      BY DEF HWInv, HeadersInv
    <3> QED
      BY <2>1, <3>1, <3>2, <3>3, <3>4 DEF OpenAstray, diskVars
  <2>2. CASE ScanAstray
    BY <2>2 DEF ScanAstray, diskVars, HWInv, HWTypeOK
  <2> QED
    BY <2>1, <2>2
<1>2. /\ UNCHANGED <<keyHash, numPuts, capacity, table, numEntries, garbage, log>>
      /\ UNCHANGED probeVars /\ UNCHANGED <<op, slot, disp>> /\ op = "idle"
  <2>1. op = "idle"
    BY DEF OpenAstray, ScanAstray, HWInv, HeadersInv
  <2> QED
    BY <1>1, <2>1 DEF vars, tableVars, probeVars
<1>3. /\ HWTypeOK /\ HeadersInv /\ LoopMapInv /\ ContentInv /\ log \in Seq(Entry)
      /\ Len(log) \in Nat
  BY <1>2, NotStuck DEF HWInv, HeadersInv
<1>4. HWTypeOK'
  BY <1>1, <1>2, <1>3 DEF HWTypeOK, Phases
<1>5. HeadersInv' /\ DiskInv'
  <2>1. DiskInv' /\ PutsUpTo(loadedEnd)' = PutsUpTo(loadedEnd)
    BY <1>1, <1>2, DiskSame DEF PutsUpTo
  <2> QED
    BY <1>1, <1>2, <1>3, <2>1 DEF HeadersInv
<1>6. hashFile'.exists => FileOK'
  BY <1>1, <1>2, FileSame
<1>7. LoopMapInv'
  BY <1>2, <1>3, LoopKept
<1>8. ContentInv'
  BY <1>1, <1>2, <1>3 DEF ContentInv
<1> QED
  BY <1>4, <1>5, <1>6, <1>7, <1>8 DEF HWInv

\* A file is written all the same.
LEMMA AstrayWritesKeeps ==
  ASSUME HWInv, NEW n \in 0 .. MaxPuts + 1, AstrayWrites(n)
  PROVE  HWInv'
<1>1. /\ phase = "astray" /\ Leave /\ UNCHANGED <<keyHash, log, probeVars, diskVars, diskPuts>>
      /\ n <= numPuts \/ AstrayRaced
  BY DEF AstrayWrites, LeaveUnchanged, diskVars
<1>2. /\ hashFile'.exists = TRUE /\ hashFile'.bad = TRUE /\ hashFile'.numEntries = n
      /\ hashFile'.garbage = 0 /\ hashFile'.numPuts = numPuts /\ hashFile'.dataEnd = loadedEnd
      /\ hashFile'.hashSize = hashSize /\ hashFile'.raced = AstrayRaced
  BY DEF AstrayWrites
<1>3. /\ op = "idle" /\ loadedEnd \in 0 .. Len(log) /\ hashSize \in {4, 8} /\ numPuts \in Nat
      /\ numPuts <= diskPuts /\ PutsUpTo(loadedEnd) <= numPuts /\ n \in Nat
  BY <1>1, BoundAssumption DEF HWInv, HWTypeOK, HeadersInv
<1>4. hashFile'.bad \in BOOLEAN /\ hashFile'.bad /\ TightAddresses /\ hashFile'.exists \in BOOLEAN
  BY <1>1, <1>2, Zenon DEF HWInv, HeadersInv
<1>5. PutsUpTo(hashFile.dataEnd)' = PutsUpTo(loadedEnd)
  BY <1>1, <1>2 DEF PutsUpTo
<1>6. FileHeader'
  BY <1>1, <1>2, <1>3, <1>4, <1>5 DEF FileHeader
<1>7. FileOK'
  BY <1>4, <1>6 DEF FileOK
<1> QED
  BY <1>1, <1>3, <1>4, <1>7, LeaveKeeps

\* hash_copy goes on to the next slot of the old table.
LEMMA CopyNextKeeps ==
  ASSUME HWInv, CopyNext
  PROVE  HWInv'
<1> DEFINE old == hashFile.table[copySlot]
<1>1. /\ phase = "copy" /\ op = "idle" /\ copySlot < hashFile.capacity
      /\ IF old.pos # 0 THEN StartProbe("put", NoKey, old.hash, old.pos, FALSE)
         ELSE UNCHANGED probeVars
      /\ copySlot' = copySlot + 1
      /\ UNCHANGED <<keyHash, numPuts, capacity, table, numEntries, garbage, log, iterPos>>
      /\ UNCHANGED <<hashFile, phase, sizeArg, loadedEnd, loadedCovered, logEnd, hashSize>>
      /\ UNCHANGED <<diskPuts, covered, flush, cuts>>
  BY DEF CopyNext, tableVars, readVars, diskVars
<1>2. /\ log \in Seq(Entry) /\ HWTypeOK /\ HeadersInv /\ Len(log) \in Nat /\ garbage \in Nat
      /\ LoopMapInv /\ ContentInv /\ LoopInv /\ LoopTypes /\ CopyOld /\ hashFile.exists /\ FileInv
      /\ copySlot \in Nat /\ hashFile.capacity \in Nat \ {0} /\ keyHash = hashFile.keyHash
  <2>1. HWTypeOK /\ HeadersInv /\ LoopMapInv /\ ContentInv /\ LoopInv /\ LoopTypes
    BY <1>1, NotStuck DEF HWInv
  <2>2. /\ log \in Seq(Entry) /\ Len(log) \in Nat /\ garbage \in Nat /\ CopyOld
        /\ copySlot \in Nat /\ keyHash = hashFile.keyHash
    BY <1>1, <2>1 DEF HeadersInv, LoopTypes, HWTypeOK
  <2>3. hashFile.exists /\ FileInv
    BY <1>1, <2>2, CopiedFile
  <2> QED
    BY <2>1, <2>2, <2>3 DEF FileInv
<1>3. CopyOld' = CopyOld /\ FileSlots' = FileSlots /\ FilePointers' = FilePointers
  BY <1>1, DecisionsKept
<1>4. HWTypeOK'
  BY <1>1, <1>2 DEF HWTypeOK
<1>5. FileOK'
  BY <1>1, <1>2, FileSame
<1>6. HeadersInv' /\ DiskInv'
  <2>1. DiskInv' /\ PutsUpTo(loadedEnd)' = PutsUpTo(loadedEnd)
    BY <1>1, DiskSame DEF PutsUpTo
  <2>2. op' # "idle" => phase' = "copy"
    BY <1>1
  <2> QED
    BY <1>1, <1>2, <1>3, <2>1 DEF HeadersInv
<1>7. copySlot \in 0 .. hashFile.capacity - 1 /\ old \in [hash : Nat, pos : Nat]
  BY <1>1, <1>2 DEF FileInv
<1>8. LivePointers = CopiedPointers
  BY <1>1, <1>2 DEF ContentInv
<1>9. CASE old.pos = 0
  <2>1. CopiedSlots' = CopiedSlots
    <3>1. copySlot \notin FileSlots
      BY <1>9 DEF FileSlots
    <3> QED
      BY <1>1, <1>2, <1>3, <3>1, FileFacts DEF CopiedSlots
  <2>2. CopiedPointers' = CopiedPointers
    BY <1>1, <2>1 DEF CopiedPointers
  <2>3. UNCHANGED probeVars /\ op' = "idle" /\ slot' = slot /\ disp' = disp
    BY <1>1, <1>9 DEF probeVars
  <2>4. LoopMapInv' /\ LivePointers' = LivePointers
    BY <1>1, <1>2, <2>3, LoopKept
  <2>5. ContentInv'
    BY <1>1, <1>2, <1>8, <2>2, <2>3, <2>4 DEF ContentInv
  <2> QED
    BY <1>4, <1>5, <1>6, <2>4, <2>5 DEF HWInv
<1>10. CASE old.pos # 0
  <2>1. copySlot \in FileSlots
    BY <1>7, <1>10 DEF FileSlots
  <2>2. CopiedSlots' = CopiedSlots \cup {copySlot} /\ copySlot \notin CopiedSlots
    <3>1. \A s \in FileSlots : s \in Int
      BY <1>2, FileFacts
    <3>2. \A s \in FileSlots : s < copySlot + 1 <=> s < copySlot \/ s = copySlot
      BY <1>2, <3>1
    <3>3. ~(copySlot < copySlot)
      BY <1>2
    <3> QED
      BY <1>1, <1>3, <2>1, <3>2, <3>3 DEF CopiedSlots
  <2>3. CopiedPointers' = CopiedPointers \cup {old.pos}
    BY <1>1, <2>2 DEF CopiedPointers
  <2>4. IsPutPointer(old.hash, old.pos)
    BY <1>1, <1>2, <2>1 DEF FileInv, FilePut, IsPutPointer
  <2>5. ASSUME NEW s \in Occupied PROVE KeyAt(s) # log[old.pos].key
    <3>1. Hole = {} /\ table[s].pos \in LivePointers
      BY <1>1 DEF Hole, LivePointers
    <3>2. PICK t \in CopiedSlots : table[s].pos = hashFile.table[t].pos
      BY <1>8, <3>1 DEF CopiedPointers
    <3>3. t \in FileSlots /\ t # copySlot
      BY <2>2, <3>2 DEF CopiedSlots
    <3>4. hashFile.table[t].pos # old.pos
      BY <1>2, <2>1, <3>3 DEF FileInv
    <3>5. PICK n \in hashFile.dataEnd .. Len(log) : FilePointers = LiveUpTo(n)
      BY <1>2 DEF FileInv
    <3>6. n \in Nat /\ hashFile.table[t].pos \in LiveUpTo(n) /\ old.pos \in LiveUpTo(n)
      BY <1>2, <2>1, <3>3, <3>5 DEF FilePointers, FileInv
    <3> QED
      BY <3>2, <3>4, <3>6, LiveUpToUnique DEF KeyAt
  <2>6. StartProbe("put", NoKey, old.hash, old.pos, FALSE)
    BY <1>1, <1>10
  <2>7. old.hash \in Nat /\ old.pos \in Nat /\ NoKey \in Key \cup {NoKey}
    BY <1>7
  <2> HIDE DEF old
  <2>8. LoopMapInv' /\ LivePointers' = LivePointers \cup {old.pos} /\ Pending' = FALSE
    BY <1>1, <1>2, <2>4, <2>5, <2>6, <2>7, LoopStarts
  <2>9. op' = "put" /\ fresh' = FALSE
    BY <2>6 DEF StartProbe
  <2>10. ContentInv'
    BY <1>1, <1>8, <2>3, <2>8, <2>9 DEF ContentInv
  <2> QED
    BY <1>4, <1>5, <1>6, <2>8, <2>10 DEF HWInv
<1> QED
  BY <1>9, <1>10

\* hash_copy has come to the end of the old table.
LEMMA CopyDoneKeeps ==
  ASSUME HWInv, CopyDone
  PROVE  HWInv'
<1>1. /\ phase = "copy" /\ op = "idle" /\ copySlot = hashFile.capacity /\ phase' = "scan"
      /\ UNCHANGED <<keyHash, numPuts, capacity, table, numEntries, garbage, log, iterPos>>
      /\ UNCHANGED <<hashFile, sizeArg, loadedEnd, loadedCovered, logEnd, hashSize, copySlot>>
      /\ UNCHANGED <<diskPuts, covered, flush, cuts>>
      /\ UNCHANGED probeVars /\ op' = op /\ slot' = slot /\ disp' = disp
  BY DEF CopyDone, tableVars, readVars, probeVars, diskVars
<1>2. /\ log \in Seq(Entry) /\ HWTypeOK /\ HeadersInv /\ Len(log) \in Nat
      /\ LoopMapInv /\ ContentInv /\ CopyOld /\ iterPos = hashFile.dataEnd /\ logEnd = Len(log)
      /\ hashFile.exists /\ FileInv /\ hashFile.dataEnd \in 0 .. Len(log)
  <2>1. HWTypeOK /\ HeadersInv /\ LoopMapInv /\ ContentInv
    BY <1>1, NotStuck DEF HWInv
  <2>2. log \in Seq(Entry) /\ CopyOld /\ iterPos = hashFile.dataEnd /\ logEnd = Len(log)
    BY <1>1, <2>1 DEF HeadersInv
  <2>3. hashFile.exists /\ FileInv
    BY <1>1, <2>2, CopiedFile
  <2> QED
    BY <2>1, <2>2, <2>3 DEF FileInv
<1>3. CopyOld' = CopyOld /\ ScanStart' = ScanStart /\ CopiedBase' = CopiedBase
  BY <1>1, DecisionsKept
<1>4. HWTypeOK'
  BY <1>1, <1>2 DEF HWTypeOK, Phases
<1>5. FileOK'
  BY <1>1, <1>2, FileSame
<1>6. HeadersInv' /\ DiskInv'
  <2>1. DiskInv' /\ PutsUpTo(loadedEnd)' = PutsUpTo(loadedEnd)
    BY <1>1, DiskSame DEF PutsUpTo
  <2> QED
    BY <1>1, <1>2, <1>3, <2>1 DEF HeadersInv
<1>7. LoopMapInv' /\ LivePointers' = LivePointers /\ ~Pending'
  BY <1>1, <1>2, LoopKept
<1>8. LivePointers = FilePointers
  <2>1. CopiedSlots = FileSlots
    BY <1>1, <1>2, FileFacts DEF CopiedSlots, FileInv
  <2> QED
    BY <1>1, <1>2, <2>1 DEF ContentInv, CopiedPointers, FilePointers
<1>9. ContentInv'
  <2>1. ScanStart' = iterPos /\ CopiedBase' = FilePointers
    BY <1>2, <1>3 DEF ScanStart, CopiedBase
  <2>2. ScannedTo' = iterPos
    BY <1>1, <1>7 DEF ScannedTo
  <2>3. Merged(FilePointers, iterPos, iterPos)' = FilePointers'
    <3>1. iterPos' \in Nat
      BY <1>1, <1>2
    <3>2. \A i \in Nat : i + 1 .. i = {}
      OBVIOUS
    <3> QED
      BY <3>1, <3>2 DEF Merged
  <2>4. FilePointers' = FilePointers
    BY <1>1, DecisionsKept
  <2>5. Merged(CopiedBase, ScanStart, ScannedTo)' = FilePointers
    BY <1>1, <2>1, <2>2, <2>3, <2>4 DEF Merged
  <2>6. iterPos' \in Nat /\ ScannedTo' \in ScanStart' .. logEnd'
    BY <1>1, <1>2, <2>1, <2>2
  <2> QED
    BY <1>1, <1>2, <1>7, <1>8, <2>5, <2>6 DEF ContentInv, Room
<1> QED
  BY <1>1, <1>4, <1>5, <1>6, <1>7, <1>9 DEF HWInv

\* The scan reads the next entry of the log.
LEMMA ScanNextKeeps ==
  ASSUME HWInv, ScanNext
  PROVE  HWInv'
<1> DEFINE e == log[iterPos + 1]
           p == IF e.type = "put" THEN iterPos + 1 ELSE 0
<1>1. /\ phase = "scan" /\ op = "idle" /\ iterPos < logEnd /\ iterPos' = iterPos + 1
      /\ e.type \in {"put", "delete"}
      /\ StartProbe(e.type, e.key, keyHash[e.key], p, TRUE)
      /\ garbage' = garbage \/ garbage' = garbage + EntrySize(e)
      /\ UNCHANGED <<keyHash, numPuts, capacity, table, numEntries, log>>
      /\ UNCHANGED <<hashFile, phase, sizeArg, loadedEnd, loadedCovered, logEnd, hashSize, copySlot>>
      /\ UNCHANGED <<diskPuts, covered, flush, cuts>>
  BY DEF ScanNext, callVars, diskVars
<1>2. /\ log \in Seq(Entry) /\ HWTypeOK /\ HeadersInv /\ Len(log) \in Nat
      /\ LoopMapInv /\ ContentInv /\ LoopInv /\ LoopTypes /\ garbage \in Nat
      /\ logEnd = Len(log) /\ iterPos \in Nat /\ ~Pending /\ ScannedTo = iterPos
      /\ keyHash \in HashFns
  <2>1. HWTypeOK /\ HeadersInv /\ LoopMapInv /\ ContentInv /\ LoopInv /\ LoopTypes /\ ~Pending
    BY <1>1, NotStuck DEF HWInv, Pending
  <2> QED
    BY <1>1, <2>1 DEF HeadersInv, ContentInv, LoopTypes, ScannedTo
<1>3. iterPos + 1 \in 1 .. Len(log) /\ e \in Entry /\ e.key \in Key /\ keyHash[e.key] \in Nat
  <2>1. iterPos + 1 \in 1 .. Len(log) /\ e \in Entry
    BY <1>1, <1>2
  <2>2. e.key \in Key
    BY <2>1 DEF Entry, PutEntries, DeleteEntries
  <2>3. keyHash \in [Key -> Nat]
    BY <1>2, KeyAssumption
  <2> QED
    BY <2>1, <2>2, <2>3
<1>4. /\ CopyOld' = CopyOld /\ ScanStart' = ScanStart /\ CopiedBase' = CopiedBase
  BY <1>1, DecisionsKept
<1>5. HWTypeOK'
  BY <1>1, <1>2 DEF HWTypeOK
<1>6. hashFile.exists => FileOK'
  BY <1>1, FileSame
<1>7. HeadersInv' /\ DiskInv'
  <2>1. DiskInv' /\ PutsUpTo(loadedEnd)' = PutsUpTo(loadedEnd)
    BY <1>1, DiskSame DEF PutsUpTo
  <2> QED
    BY <1>1, <1>2, <1>4, <2>1 DEF HeadersInv
<1>8. /\ LoopMapInv' /\ LivePointers' = LivePointers /\ Pending' = TRUE
  <2>1. garbage' \in Nat
    <3>1. EntrySize(e) \in Nat
      BY <1>3, EntrySizeType
    <3> QED
      BY <1>1, <1>2, <3>1
  <2>2. e.type = "put" => p = iterPos + 1 /\ IsPutPointer(keyHash[e.key], p) /\ log[p].key = e.key
    BY <1>2, <1>3 DEF IsPutPointer
  <2>3. p \in Nat /\ e.key \in Key \cup {NoKey}
    BY <1>2, <1>3
  <2> DEFINE o == e.type
             k == e.key
             h == keyHash[k]
             f == TRUE
  <2>4. /\ o \in {"put", "delete"} /\ k \in Key \cup {NoKey} /\ h \in Nat
        /\ p \in Nat /\ f \in BOOLEAN /\ StartProbe(o, k, h, p, f) /\ f
        /\ k \in Key /\ h = keyHash[k]
        /\ o = "put" => /\ IsPutPointer(h, p)
                        /\ IF f THEN log[p].key = k
                           ELSE \A s \in Occupied : KeyAt(s) # log[p].key
    BY <1>1, <1>3, <2>2, <2>3
  <2> HIDE DEF o, k, h, f, p, e
  <2>5. LoopMapInv' /\ LivePointers' = LivePointers \cup (IF f THEN {} ELSE {p}) /\ Pending' = f
    BY <1>1, <1>2, <2>1, <2>4, LoopStarts
  <2> QED
    BY <2>4, <2>5 DEF f
<1>9. /\ op' = e.type /\ key' = e.key /\ hash' = keyHash[e.key] /\ pos' = p /\ fresh' = TRUE
  BY <1>1 DEF StartProbe
<1>10. ASSUME Room' PROVE ContentInv'
  <2>1. ScannedTo' = iterPos
    BY <1>1, <1>2, <1>8 DEF ScannedTo
  <2>2. Merged(CopiedBase, ScanStart, ScannedTo)' = Merged(CopiedBase, ScanStart, ScannedTo)
    BY <1>1, <1>2, <1>4, <2>1 DEF Merged
  <2>3. LivePointers' = Merged(CopiedBase, ScanStart, ScannedTo)'
    BY <1>1, <1>2, <1>8, <2>2 DEF ContentInv
  <2>4. iterPos' \in Nat /\ ScannedTo' \in ScanStart' .. logEnd' /\ iterPos' \in 1 .. logEnd'
    BY <1>1, <1>2, <1>3, <1>4, <2>1 DEF ContentInv
  <2>5. /\ log'[iterPos'].key = key' /\ log'[iterPos'].type = op'
        /\ op' = "put" => pos' = iterPos'
    BY <1>1, <1>9
  <2>6. op' \in {"idle", "put", "delete", "shift"} /\ op' # "idle"
    BY <1>1, <1>9
  <2> HIDE DEF e, p
  <2> QED
    BY <1>1, <1>10, <2>3, <2>4, <2>5, <2>6 DEF ContentInv
<1>11. ASSUME ~Room' PROVE Stuck'
  <2>1. op' = "put" /\ Occupied' = Slots' /\ \A s \in Occupied' : log[table[s].pos].key # key'
    BY <1>1, <1>9, <1>11 DEF Room, KeyAt
  <2>2. LoopTypes'
    BY <1>8 DEF LoopMapInv, LoopInv
  <2>3. pos' \in Nat \ {0}
    BY <1>2, <1>9, <2>1
  <2>4. \A s \in Slots' : ~Empty(s)' /\ ~Matches(s)'
    BY <1>1, <2>1 DEF Occupied, Empty, Matches
  <2> QED
    BY <1>1, <2>1, <2>2, <2>3, <2>4 DEF Stuck, LoopTypes
<1> QED
  BY <1>1, <1>5, <1>6, <1>7, <1>8, <1>10, <1>11 DEF HWInv

\* The table that is complete is the index of the whole log.
LEMMA CompleteIndex ==
  ASSUME HWInv, phase = "scan", op = "idle", iterPos = logEnd
  PROVE  LivePointers = LiveUpTo(Len(log)) /\ Len(log) \in Nat /\ logEnd = Len(log)
<1>1. HeadersInv /\ ContentInv
  BY NotStuck DEF HWInv
<1>2. logEnd = Len(log) /\ Len(log) \in Nat /\ ~Pending
  BY <1>1 DEF HeadersInv, Pending
<1>3. LivePointers = Merged(CopiedBase, ScanStart, Len(log))
  BY <1>1, <1>2 DEF ContentInv, ScannedTo
<1>4. CASE CopyOld
  <2>1. hashFile.exists /\ FileInv
    BY <1>4, CopiedFile
  <2>2. PICK n \in hashFile.dataEnd .. Len(log) : FilePointers = LiveUpTo(n)
    BY <2>1 DEF FileInv
  <2>3. hashFile.dataEnd \in Nat /\ n \in Nat /\ hashFile.dataEnd <= n /\ n <= Len(log)
    BY <1>2, <2>1, <2>2 DEF FileInv
  <2>4. Merged(LiveUpTo(n), hashFile.dataEnd, Len(log)) = LiveUpTo(Len(log))
    BY <1>2, <2>3, MergedLive
  <2> QED
    BY <1>2, <1>3, <1>4, <2>2, <2>4 DEF CopiedBase, ScanStart
<1>5. CASE ~CopyOld
  BY <1>2, <1>3, <1>5, MergedAll DEF CopiedBase, ScanStart
<1> QED
  BY <1>4, <1>5

\* The new hash file is written.
LEMMA WriteKeeps ==
  ASSUME HWInv, WriteHashFile
  PROVE  HWInv'
<1>1. /\ phase = "scan" /\ op = "idle" /\ iterPos = logEnd /\ Leave
      /\ UNCHANGED <<keyHash, log, probeVars, diskVars, diskPuts>> /\ phase' = "out"
  BY DEF WriteHashFile, Leave, LeaveUnchanged, diskVars
<1>2. /\ hashFile'.exists = TRUE /\ hashFile'.table = table /\ hashFile'.capacity = capacity
      /\ hashFile'.bad = FALSE /\ hashFile'.keyHash = keyHash
      /\ hashFile'.numEntries = numEntries /\ hashFile'.garbage = garbage
      /\ hashFile'.numPuts = numPuts /\ hashFile'.dataEnd = loadedEnd
      /\ hashFile'.hashSize = hashSize /\ hashFile'.raced = (loadedEnd # logEnd)
  BY DEF WriteHashFile, Raced
<1>3. /\ HWTypeOK /\ HeadersInv /\ LoopMapInv /\ ContentInv /\ LoopInv /\ LoopTypes
      /\ loadedEnd \in 0 .. Len(log) /\ hashSize \in {4, 8} /\ keyHash \in HashFns
      /\ numPuts \in Nat /\ PutsUpTo(loadedEnd) <= numPuts /\ numPuts <= diskPuts
  BY <1>1, NotStuck DEF HWInv, HWTypeOK, HeadersInv
<1>4. LivePointers = LiveUpTo(Len(log)) /\ Len(log) \in Nat /\ logEnd = Len(log)
  BY <1>1, CompleteIndex
<1>5. FileSlots' = Occupied
  BY <1>2 DEF FileSlots, Occupied, Slots, Empty
<1>6. FilePointers' = LiveUpTo(Len(log))' /\ LiveUpTo(Len(log))' = LiveUpTo(Len(log))
  <2>1. LivePointers = Pointers(Occupied)
    BY <1>1 DEF LivePointers, Hole, Carried, Pointers
  <2>2. FilePointers' = Pointers(Occupied)
    BY <1>2, <1>5 DEF FilePointers, Pointers
  <2>3. LiveUpTo(Len(log))' = LiveUpTo(Len(log))
    BY <1>1 DEF LiveUpTo
  <2> QED
    BY <1>4, <2>1, <2>2, <2>3
<1>7. FileInv'
  <2>1. /\ capacity \in Nat \ {0} /\ table \in [0 .. capacity - 1 -> [hash : Nat, pos : Nat]]
        /\ numEntries = Cardinality(Occupied) /\ garbage \in Nat
    BY <1>3 DEF LoopInv, LoopTypes, Slots
  <2>4. \E n \in loadedEnd .. Len(log) :
          FilePointers' = LiveUpTo(n)' /\ ((loadedEnd # logEnd) \/ n = loadedEnd)
    <3>1. Len(log) \in loadedEnd .. Len(log)
      BY <1>3, <1>4
    <3>2. (loadedEnd # logEnd) \/ Len(log) = loadedEnd
      BY <1>4
    <3> DEFINE m == Len(log)
    <3>3. FilePointers' = {q \in 1 .. m : log'[q].type = "put"
                             /\ \A r \in q + 1 .. m : log'[r].key # log'[q].key}
      BY <1>1, <1>6 DEF LiveUpTo
    <3> QED
      BY <3>1, <3>2, <3>3 DEF LiveUpTo
  <2>5. \A s, t \in Occupied : table[s].pos = table[t].pos => s = t
    BY <1>1, <1>3 DEF LoopMapInv, KeyInv, KeyAt, Hole
  <2>6. \A s \in Occupied : FilePut(s)'
    BY <1>1, <1>2, <1>3 DEF LoopInv, PointersArePuts, IsPutPointer, FilePut
  <2> QED
    BY <1>1, <1>2, <1>3, <1>5, <2>1, <2>4, <2>5, <2>6 DEF FileInv
<1>8. hashFile'.exists \in BOOLEAN /\ hashFile'.bad \in BOOLEAN /\ ~hashFile'.bad
  BY <1>2, Zenon
<1>9. FileHeader'
  <2>1. PutsUpTo(hashFile.dataEnd)' = PutsUpTo(loadedEnd)
    BY <1>1, <1>2 DEF PutsUpTo
  <2>2. numEntries \in Nat /\ garbage \in Nat
    BY <1>2, <1>7, FileFactsNext, <1>3 DEF LoopTypes
  <2>3. loadedEnd # logEnd \/ numEntries <= numPuts
    <3> SUFFICES ASSUME loadedEnd = Len(log) PROVE numEntries <= numPuts
      BY <1>4
    <3>1. /\ Cardinality(LiveUpTo(loadedEnd)) <= PutsUpTo(loadedEnd) /\ PutsUpTo(loadedEnd) \in Nat
          /\ Cardinality(LiveUpTo(loadedEnd)) \in Nat
      BY <1>4, PutsMonotone
    <3>2. numEntries = Cardinality(LiveUpTo(loadedEnd))
      BY <1>2, <1>6, <1>7, FileFactsNext
    <3> QED
      BY <1>3, <3>1, <3>2
  <2> QED
    BY <1>1, <1>2, <1>3, <1>8, <2>1, <2>2, <2>3 DEF FileHeader
<1>10. FileOK'
  BY <1>7, <1>9 DEF FileOK
<1> QED
  BY <1>1, <1>8, <1>10, LeaveKeeps

(***************************************************************************)
(* The iterations of the loops.                                            *)
(***************************************************************************)

\* hash_put never leaves a full table.
LEMMA StuckStays ==
  ASSUME Stuck, WriterStep, phase' = phase
  PROVE  Stuck'
<1>1. /\ phase = "scan" /\ op = "put" /\ capacity \in Nat \ {0} /\ Slots = 0 .. capacity - 1
      /\ table \in [Slots -> [hash : Nat, pos : Nat]]
      /\ slot \in Slots /\ hash \in Nat /\ pos \in Nat \ {0} /\ fresh \in BOOLEAN
      /\ \A s \in Slots : table[s].pos # 0 /\ ~(fresh /\ Matches(s))
  BY DEF Stuck, Empty, Slots
<1>2. PutSteal \/ PutWalk
  BY <1>1 DEF WriterStep, PutEmpty, PutReplace, DeleteMiss, DeleteFound, DeleteWalk, ShiftBack,
              ShiftEnd, Empty
<1>3. NextSlot(slot) \in Slots
  BY <1>1 DEF NextSlot
<1>4. CASE PutSteal
  <2>1. /\ op' = "put" /\ capacity' = capacity /\ slot' = NextSlot(slot) /\ fresh' = FALSE
        /\ hash' = table[slot].hash /\ pos' = table[slot].pos /\ Slots' = Slots
        /\ table' = [table EXCEPT ![slot] = [hash |-> hash, pos |-> pos]]
    BY <1>1, <1>4 DEF PutSteal, Place, Slots
  <2>2. table' \in [Slots -> [hash : Nat, pos : Nat]] /\ \A s \in Slots : table'[s].pos # 0
    BY <1>1, <2>1
  <2>3. hash' \in Nat /\ pos' \in Nat \ {0}
    BY <1>1, <2>1
  <2>4. fresh' \in BOOLEAN /\ ~fresh'
    BY <2>1, Zenon
  <2> QED
    BY <1>1, <1>3, <2>1, <2>2, <2>3, <2>4 DEF Stuck, Empty
<1>5. CASE PutWalk
  <2>1. slot' = NextSlot(slot) /\ UNCHANGED <<op, key, hash, pos, fresh, capacity, table, log>>
    BY <1>5 DEF PutWalk, Walk, tableVars
  <2>2. Slots' = Slots /\ \A s \in Slots : Matches(s)' = Matches(s)
    BY <2>1 DEF Slots, Matches
  <2> QED
    BY <1>1, <1>3, <2>1, <2>2 DEF Stuck, Empty
<1> QED
  BY <1>2, <1>4, <1>5

\* A full table has a pointer in every slot, and hash_put may carry one more.
LEMMA FullCount ==
  ASSUME LoopMapInv, op \in {"idle", "put"}, Occupied = Slots
  PROVE  /\ IsFiniteSet(LivePointers)
         /\ Cardinality(LivePointers) = IF op = "put" /\ ~fresh THEN capacity + 1 ELSE capacity
<1>1. LoopInv /\ LoopTypes /\ capacity \in Nat \ {0}
  BY DEF LoopMapInv, LoopInv, LoopTypes
<1>2. IsFiniteSet(Slots) /\ Cardinality(Slots) = capacity
  <2>1. IsFiniteSet(0 .. capacity - 1) /\ Cardinality(0 .. capacity - 1) = capacity
    <3>1. 0 \in Int /\ capacity - 1 \in Int /\ 0 <= capacity - 1 + 1 /\ capacity - 1 - 0 + 1 = capacity
      BY <1>1
    <3> QED
      BY <1>1, <3>1, FS_Interval
  <2> QED
    BY <2>1 DEF Slots
<1>3. IsFiniteSet(Pointers(Slots)) /\ Cardinality(Pointers(Slots)) = capacity
  <2>1. \A s, t \in Slots : table[s].pos = table[t].pos => s = t
    BY DEF LoopMapInv, KeyInv, KeyAt, Hole
  <2> DEFINE T == Slots
             tab == table
  <2>2. /\ IsFiniteSet(T) /\ \A s, t \in T : tab[s].pos = tab[t].pos => s = t
        /\ Pointers(Slots) = {tab[s].pos : s \in T}
    BY <1>2, <2>1 DEF Pointers
  <2> HIDE DEF T, tab
  <2>3. /\ IsFiniteSet({tab[s].pos : s \in T})
        /\ Cardinality({tab[s].pos : s \in T}) = Cardinality(T)
    BY <2>2, PointerCount, Zenon
  <2> QED
    BY <1>2, <2>2, <2>3 DEF T
<1>4. CASE op = "put" /\ ~fresh
  <2>1. \A s \in Slots : KeyAt(s) # log[pos].key
    BY <1>4 DEF LoopMapInv, KeyInv
  <2>2. LivePointers = Pointers(Slots) \cup {pos} /\ pos \notin Pointers(Slots)
    BY <1>4, <2>1 DEF LivePointers, Hole, Carried, Pointers, KeyAt
  <2> QED
    BY <1>3, <1>4, <2>2, FS_AddElement
<1>5. CASE ~(op = "put" /\ ~fresh)
  <2>1. LivePointers = Pointers(Slots)
    BY <1>5 DEF LivePointers, Hole, Carried, Pointers
  <2> QED
    BY <1>3, <1>5, <2>1
<1> QED
  BY <1>4, <1>5

\* The copy of the old table always finds a slot.
LEMMA CopyNotFull ==
  ASSUME HWInv, phase = "copy", op = "put"
  PROVE  Occupied # Slots
<1> SUFFICES ASSUME Occupied = Slots PROVE FALSE
  OBVIOUS
<1>1. /\ LoopMapInv /\ ContentInv /\ LoopTypes /\ HeadersInv /\ ~fresh
      /\ LivePointers = CopiedPointers
  <2>1. LoopMapInv /\ ContentInv /\ LoopTypes /\ HeadersInv
    BY NotStuck DEF HWInv
  <2> QED
    BY <2>1 DEF ContentInv
<1>2. /\ hashFile.exists /\ FileInv /\ capacity >= hashFile.numEntries
      /\ capacity \in Nat \ {0}
  BY <1>1, CopiedFile DEF HeadersInv, LoopTypes
<1>3. Cardinality(LivePointers) = capacity + 1
  BY <1>1, FullCount
<1>4. LivePointers \subseteq FilePointers
  BY <1>1 DEF CopiedPointers, CopiedSlots, FilePointers
<1>5. Cardinality(LivePointers) <= hashFile.numEntries /\ hashFile.numEntries \in Nat
  BY <1>2, <1>4, FileFacts, FS_Subset
<1> QED
  BY <1>2, <1>3, <1>5

\* So it never goes round.
LEMMA CopyRoom ==
  ASSUME HWInv, phase = "copy", PutWalk
  PROVE  disp # capacity - 1
<1>1. op = "put" /\ LoopInv /\ LoopTypes
  BY NotStuck DEF PutWalk
<1> QED
  BY <1>1, CopyNotFull, RoundFull

\* So does the scan, unless it is stuck.
LEMMA ScanRoom ==
  ASSUME LoopMapInv, Room, PutWalk
  PROVE  disp # capacity - 1
<1> SUFFICES ASSUME disp = capacity - 1 PROVE FALSE
  OBVIOUS
<1>1. LoopInv /\ LoopTypes /\ op = "put" /\ ~Empty(slot) /\ ~(fresh /\ Matches(slot))
  BY DEF LoopMapInv, LoopInv, PutWalk
<1>2. Occupied = Slots
  BY <1>1, RoundFull
<1>3. PICK t \in Occupied : fresh /\ KeyAt(t) = key
  BY <1>1, <1>2 DEF Room
<1>4. Probing /\ op # "probe" /\ SoughtAt(t)
  BY <1>1, <1>3 DEF Probing, SoughtAt, KeyAt
<1>5. /\ DispFn[t] = RingDist(capacity, WantedSlot(hash), t) /\ DispFn[t] >= disp
      /\ disp = RingDist(capacity, WantedSlot(hash), slot)
  BY <1>4, SoughtDistance
<1>6. /\ capacity \in Nat \ {0} /\ Slots = 0 .. capacity - 1 /\ slot \in Slots /\ t \in Slots
      /\ WantedSlot(hash) \in Slots /\ DispFn[t] \in 0 .. capacity - 1 /\ hash \in Nat
  <2>1. hash \in Nat /\ t \in Slots
    BY <1>1, <1>2 DEF LoopTypes
  <2> QED
    BY <1>1, <2>1, SlotFacts
<1>7. RingDist(capacity, WantedSlot(hash), t) = RingDist(capacity, WantedSlot(hash), slot)
  BY <1>5, <1>6
<1>8. t = slot
  <2> DEFINE h == WantedSlot(hash)
  <2>1. h \in 0 .. capacity - 1 /\ RingDist(capacity, h, t) = RingDist(capacity, h, slot)
    BY <1>6, <1>7
  <2> HIDE DEF h
  <2> QED
    BY <1>6, <2>1, DistInjective
<1> QED
  BY <1>1, <1>3, <1>4, <1>8, MatchesIsSought

\* The new entry takes effect, or nothing changes: what the table holds
\* follows the log.
LEMMA ScanContent ==
  ASSUME LoopMapInv, ContentInv, phase = "scan", WriterStep,
         UNCHANGED <<hashFile, callVars>>, ScanStart \in Nat, logEnd \in Nat
  PROVE  ContentInv'
<1>1. /\ UNCHANGED <<log, numPuts, iterPos>>
      /\ UNCHANGED <<hashFile, phase, sizeArg, loadedEnd, logEnd, hashSize, copySlot>>
  BY WriterKeeps DEF readVars, callVars
<1>2. /\ iterPos \in Nat /\ ScannedTo \in ScanStart .. logEnd
      /\ LivePointers = Merged(CopiedBase, ScanStart, ScannedTo) /\ Room
      /\ Pending => /\ iterPos \in 1 .. logEnd
                    /\ log[iterPos].key = key /\ log[iterPos].type = op
                    /\ op = "put" => pos = iterPos
  BY DEF ContentInv
<1>3. ScanStart' = ScanStart /\ CopiedBase' = CopiedBase
  BY <1>1, DecisionsKept
<1>4. op' \in {"idle", "put", "delete", "shift"} /\ (op' = "idle" => slot' = 0 /\ disp' = 0)
  BY DEF WriterStep, PutEmpty, PutReplace, PutSteal, PutWalk, DeleteMiss, DeleteFound,
         DeleteWalk, ShiftBack, ShiftEnd, Return, Walk
<1>5. Pending' => Pending /\ UNCHANGED <<op, key, pos>>
  BY DEF WriterStep, PutEmpty, PutReplace, PutSteal, PutWalk, DeleteMiss, DeleteFound,
         DeleteWalk, ShiftBack, ShiftEnd, Return, Walk, Pending
<1>6. Pending' => /\ iterPos' \in 1 .. logEnd'
                  /\ log'[iterPos'].key = key' /\ log'[iterPos'].type = op'
                  /\ op' = "put" => pos' = iterPos'
  BY <1>1, <1>2, <1>5
<1>7. /\ ScannedTo' \in ScanStart .. logEnd
      /\ LivePointers' = Merged(CopiedBase, ScanStart, ScannedTo')
  <2>1. CASE Rests
    <3>1. ScannedTo' = ScannedTo
      BY <1>1, <2>1 DEF Rests, ScannedTo
    <3> QED
      BY <1>2, <2>1, <3>1 DEF Rests
  <2>2. CASE Takes
    <3>1. Pending /\ ScannedTo = iterPos - 1 /\ ScannedTo' = iterPos /\ op \in {"put", "delete"}
      BY <1>1, <2>2 DEF Takes, ScannedTo, Pending
    <3>2. /\ iterPos - 1 \in Nat /\ ScanStart <= iterPos - 1 /\ (iterPos - 1) + 1 = iterPos
          /\ iterPos \in ScanStart .. logEnd
      BY <1>2, <3>1
    <3>3. Merged(CopiedBase, ScanStart, iterPos) =
            {p \in LivePointers : log[p].key # log[iterPos].key}
              \cup IF log[iterPos].type = "put" THEN {iterPos} ELSE {}
      <4> DEFINE m == iterPos - 1
      <4>1. m \in Nat /\ ScanStart <= m /\ m + 1 = iterPos /\ LivePointers = Merged(CopiedBase, ScanStart, m)
        BY <1>2, <3>1, <3>2
      <4> HIDE DEF m
      <4> QED
        BY <4>1, MergedNext
    <3>4. LivePointers' = Kept \cup IF op = "put" THEN {iterPos} ELSE {}
      BY <1>2, <2>2, <3>1 DEF Takes
    <3>5. Kept = {p \in LivePointers : log[p].key # log[iterPos].key}
      BY <1>2, <3>1 DEF Kept
    <3> QED
      BY <1>2, <3>1, <3>2, <3>3, <3>4, <3>5
  <2> QED
    BY <2>1, <2>2, LoopEffect
<1>8. Room'
  <2> SUFFICES ASSUME op' = "put"
               PROVE  (Occupied # Slots)' \/ (fresh' /\ \E s \in Occupied' : KeyAt(s)' = key')
    BY DEF Room
  <2>1. op = "put" /\ (PutSteal \/ PutWalk)
    BY DEF WriterStep, PutEmpty, PutReplace, PutSteal, PutWalk, DeleteMiss, DeleteFound,
           DeleteWalk, ShiftBack, ShiftEnd, Return, Walk
  <2>2. CASE PutWalk
    <3>1. UNCHANGED <<table, capacity, log, key, fresh>> /\ Occupied' = Occupied /\ Slots' = Slots
      BY <2>2, TableUnchanged DEF PutWalk, Walk, tableVars
    <3> QED
      BY <1>2, <2>1, <3>1 DEF Room, KeyAt
  <2>3. CASE PutSteal
    <3>1. ~PutReplace
      BY <2>3 DEF PutSteal, PutReplace
    <3>2. fresh => Pending
      BY <2>1 DEF Pending
    <3>3. fresh => \A s \in Occupied : KeyAt(s) # key
      BY <2>3, <3>1, <3>2, PutMeets, PendingFacts
    <3>4. Occupied # Slots
      BY <1>2, <2>1, <3>3 DEF Room
    <3>5. Occupied' = Occupied \cup {slot} /\ slot \in Occupied
      BY <2>1, <2>3, PlaceEffect, MetEntry DEF PutSteal, LoopMapInv
    <3>6. Slots' = Slots
      BY <2>3 DEF PutSteal, Slots
    <3> QED
      BY <3>4, <3>5, <3>6
  <2> QED
    BY <2>1, <2>2, <2>3
<1>9. Merged(CopiedBase, ScanStart, ScannedTo)' = Merged(CopiedBase, ScanStart, ScannedTo')
  BY <1>1, <1>3 DEF Merged
<1> QED
  BY <1>1, <1>2, <1>3, <1>4, <1>6, <1>7, <1>8, <1>9 DEF ContentInv

\* An iteration of a loop.
LEMMA LoopStepKeeps ==
  ASSUME HWInv, LoopStep
  PROVE  HWInv'
<1>1. /\ WriterStep /\ UNCHANGED <<hashFile, callVars>>
      /\ UNCHANGED <<keyHash, numPuts, capacity, log, iterPos>>
      /\ UNCHANGED <<hashFile, phase, sizeArg, loadedEnd, loadedCovered, logEnd, hashSize, copySlot>>
      /\ UNCHANGED <<diskPuts, covered, flush, cuts>>
  BY WriterKeeps DEF LoopStep, callVars, readVars, diskVars
<1>2. HWTypeOK /\ HeadersInv /\ log \in Seq(Entry) /\ Len(log) \in Nat /\ op # "idle"
  <2>1. op # "idle"
    BY <1>1 DEF WriterStep, PutEmpty, PutReplace, PutSteal, PutWalk, DeleteMiss, DeleteFound,
                DeleteWalk, ShiftBack, ShiftEnd
  <2> QED
    BY <2>1 DEF HWInv, HeadersInv
<1>3. phase \in {"copy", "scan"}
  BY <1>2 DEF HWTypeOK, Phases, HeadersInv
<1>4. /\ CopyOld' = CopyOld /\ ScanStart' = ScanStart /\ CopiedBase' = CopiedBase
      /\ FileSlots' = FileSlots
  BY <1>1, DecisionsKept
<1>5. HWTypeOK'
  BY <1>1, <1>2 DEF HWTypeOK
<1>6. hashFile.exists => FileOK'
  BY <1>1, FileSame
<1>7. HeadersInv' /\ DiskInv'
  <2>1. DiskInv' /\ PutsUpTo(loadedEnd)' = PutsUpTo(loadedEnd)
    BY <1>1, DiskSame DEF PutsUpTo
  <2> QED
    BY <1>1, <1>2, <1>3, <1>4, <2>1 DEF HeadersInv
<1>8. CASE Stuck
  <2>1. Stuck'
    BY <1>1, <1>8, StuckStays
  <2> QED
    BY <1>1, <1>5, <1>6, <1>7, <2>1 DEF HWInv
<1>9. CASE ~Stuck
  <2>1. LoopMapInv /\ ContentInv
    BY <1>9 DEF HWInv
  <2>2. CASE phase = "copy"
    <3>1. op = "put" /\ ~fresh /\ ~Pending /\ LivePointers = CopiedPointers
      BY <1>2, <2>1, <2>2 DEF ContentInv, Pending
    <3>2. LoopMapInv'
      BY <1>1, <2>1, <2>2, CopyRoom, LoopMapStep
    <3>3. LivePointers' = LivePointers
      BY <1>1, <2>1, <3>1, LoopEffect DEF Takes, Rests
    <3>4. /\ op' = "idle" \/ (op' = "put" /\ ~fresh')
          /\ op' = "idle" => slot' = 0 /\ disp' = 0
      BY <1>1, <3>1
      DEF WriterStep, PutEmpty, PutReplace, PutSteal, PutWalk, DeleteMiss, DeleteFound,
          DeleteWalk, ShiftBack, ShiftEnd, Return, Walk
    <3>5. CopiedPointers' = CopiedPointers
      BY <1>1, <1>4 DEF CopiedPointers, CopiedSlots
    <3>6. ContentInv'
      BY <1>1, <2>2, <3>1, <3>3, <3>4, <3>5 DEF ContentInv
    <3> QED
      BY <1>1, <1>5, <1>6, <1>7, <3>2, <3>6 DEF HWInv
  <2>3. CASE phase = "scan"
    <3>1. Room
      BY <2>1, <2>3 DEF ContentInv
    <3>2. LoopMapInv'
      BY <1>1, <2>1, <3>1, ScanRoom, LoopMapStep
    <3>3. ScanStart \in Nat /\ logEnd \in Nat
      <4>1. CopyOld => hashFile.dataEnd \in Nat
        BY DEF CopyOld, OldLoads, HWInv, FileOK, FileHeader
      <4> QED
        BY <1>2, <4>1 DEF ScanStart, HWTypeOK
    <3>4. ContentInv'
      BY <1>1, <2>1, <2>3, <3>3, ScanContent
    <3> QED
      BY <1>1, <1>5, <1>6, <1>7, <3>2, <3>4 DEF HWInv
  <2> QED
    BY <1>3, <2>2, <2>3
<1> QED
  BY <1>8, <1>9

\* Nothing happens.
LEMMA StutterKeeps ==
  ASSUME HWInv, UNCHANGED hwVars
  PROVE  HWInv'
<1>1. /\ UNCHANGED <<keyHash, numPuts, capacity, table, numEntries, garbage, log, iterPos>>
      /\ UNCHANGED <<hashFile, phase, sizeArg, loadedEnd, loadedCovered, logEnd, hashSize, copySlot>>
      /\ UNCHANGED <<op, key, slot, disp, hash, pos, fresh, diskPuts, covered, flush, cuts>>
  BY DEF hwVars, vars, tableVars, probeVars, readVars, callVars, diskVars
<1>2. /\ CopyOld' = CopyOld /\ ScanStart' = ScanStart /\ CopiedBase' = CopiedBase
      /\ FileSlots' = FileSlots
  BY <1>1, DecisionsKept
<1>3. HWTypeOK' /\ HeadersInv' /\ DiskInv'
  <2>1. DiskInv' /\ PutsUpTo(loadedEnd)' = PutsUpTo(loadedEnd)
    BY <1>1, DiskSame DEF PutsUpTo
  <2> QED
    BY <1>1, <1>2, <2>1 DEF HWInv, HWTypeOK, HeadersInv
<1>4. hashFile.exists => FileOK'
  BY <1>1, FileSame
<1>5. /\ Slots' = Slots /\ Occupied' = Occupied /\ DispFn' = DispFn /\ Hole' = Hole
      /\ Carried' = Carried /\ WantedSlot(hash)' = WantedSlot(hash) /\ Pending' = Pending
      /\ Probing' = Probing
      /\ \A s : Empty(s)' = Empty(s) /\ Matches(s)' = Matches(s) /\ KeyAt(s)' = KeyAt(s)
      /\ \A s : SoughtAt(s)' = SoughtAt(s)
  BY <1>1, TableUnchanged DEF Hole, Carried, WantedSlot, Pending, Probing, Empty, Matches, KeyAt,
                              SoughtAt
<1>6. CASE Stuck
  <2>1. Stuck'
    BY <1>1, <1>5, <1>6 DEF Stuck
  <2> QED
    BY <1>1, <1>3, <1>4, <2>1 DEF HWInv
<1>7. CASE ~Stuck
  <2>1. LoopInv /\ ProbeInv /\ KeyInv /\ ContentInv
    BY <1>7 DEF HWInv, LoopMapInv
  <2>2. LoopTypes' /\ HoleInv' /\ OrderInv' /\ numEntries' = Cardinality(Occupied')
    BY <1>1, <1>5, <2>1 DEF LoopInv, LoopTypes, HoleInv, OrderInv
  <2>3. PointersArePuts' /\ CarriedFits'
    BY <1>1, <1>5, <2>1 DEF LoopInv, PointersArePuts, IsPutPointer, CarriedFits
  <2>4. ProbeInv' /\ KeyInv'
    BY <1>1, <1>5, <2>1 DEF ProbeInv, KeyInv
  <2>5. LivePointers' = LivePointers /\ ScannedTo' = ScannedTo /\ (Room => Room')
    BY <1>1, <1>5 DEF LivePointers, ScannedTo, Room
  <2>6. Merged(CopiedBase, ScanStart, ScannedTo)' = Merged(CopiedBase, ScanStart, ScannedTo)
    BY <1>1, <1>2, <2>5 DEF Merged
  <2>7. CopiedPointers' = CopiedPointers
    BY <1>1, <1>2 DEF CopiedPointers, CopiedSlots
  <2>8. ContentInv'
    BY <1>1, <1>2, <1>5, <2>1, <2>5, <2>6, <2>7 DEF ContentInv
  <2> QED
    BY <1>1, <1>3, <1>4, <2>2, <2>3, <2>4, <2>8 DEF HWInv, LoopMapInv, LoopInv
<1> QED
  BY <1>6, <1>7

-----------------------------------------------------------------------------
(***************************************************************************)
(* The theorems.                                                           *)
(***************************************************************************)

\* The invariant of sparkey_hash_write is inductive: between any two steps
\* of any sequence of calls, with flushes that are under way, complete or cut
\* off whenever a log header is loaded, num_puts is not behind data_end in
\* what the call loaded and in the hash file; a hash file without wrong
\* addresses is the index of a prefix of the log that covers its data_end,
\* and the table of the running call is the copied part of it with the
\* scanned entries merged into it, unless the call goes round a full table
\* or has met a wrong address.
THEOREM HWInductive == HWSpec => []HWInv
<1>1. ASSUME HWInv, [HWNext]_hwVars PROVE HWInv'
  <2>1. CASE LogGrows
    BY <1>1, <2>1, GrowsKeeps
  <2>2. ASSUME NEW size \in HashSizeArgs, CallHashWrite(size) PROVE HWInv'
    BY <1>1, <2>2, CallKeeps
  <2>3. CASE OpenRefused \/ OpenRejects \/ OpenNothingToDo \/ AstrayFails
    BY <1>1, <2>3, ReturnsKeeps
  <2>4. CASE OpenPrepares
    BY <1>1, <2>4, PreparesKeeps
  <2>5. CASE CopyNext
    BY <1>1, <2>5, CopyNextKeeps
  <2>6. CASE CopyDone
    BY <1>1, <2>6, CopyDoneKeeps
  <2>7. CASE ScanNext
    BY <1>1, <2>7, ScanNextKeeps
  <2>8. CASE WriteHashFile
    BY <1>1, <2>8, WriteKeeps
  <2>9. CASE LoopStep
    BY <1>1, <2>9, LoopStepKeeps
  <2>10. CASE UNCHANGED hwVars
    BY <1>1, <2>10, StutterKeeps
  <2>11. CASE OpenAstray \/ ScanAstray
    BY <1>1, <2>11, AstrayKeeps
  <2>12. ASSUME NEW n \in 0 .. MaxPuts + 1, AstrayWrites(n) PROVE HWInv'
    BY <1>1, <2>12, AstrayWritesKeeps
  <2> QED
    BY <1>1, <2>1, <2>2, <2>3, <2>4, <2>5, <2>6, <2>7, <2>8, <2>9, <2>10, <2>11, <2>12
    DEF HWNext, CallStep
<1> QED
  BY <1>1, HWInitInv, PTL DEF HWSpec

\* The variables of a call have their types at all times.
THEOREM HWTypeCorrect == HWSpec => []HWTypeOK
<1>1. HWInv => HWTypeOK
  BY DEF HWInv
<1> QED
  BY <1>1, HWInductive, PTL

\* A file with wide enough addresses leads to the entries of the log.
LEMMA SoundFile ==
  ASSUME HWInv, Sound
  PROVE  FileInv /\ FileHeader
BY DEF HWInv, Sound, FileOK, FileHeader

\* However often hash_write was called and whatever of the old table it
\* reused, and wherever in a flush it loaded the log header, a hash file from
\* a call that loaded the same data_end twice, with addresses wide enough for
\* the log, is the index of the log up to its data_end: num_entries is what
\* it has, num_puts at least the PUTs of that part of the log.
THEOREM FileExactCorrect == HWSpec => []FileExact
<1>1. HWInv => FileExact
  <2> SUFFICES ASSUME HWInv, Sound, ~hashFile.raced
               PROVE  /\ IndexOf(hashFile.dataEnd)
                      /\ hashFile.numPuts >= PutsUpTo(hashFile.dataEnd)
                      /\ hashFile.numEntries = Cardinality(FileSlots)
    BY DEF FileExact
  <2>1. FileInv /\ FileHeader
    BY SoundFile
  <2>2. FilePointers = LiveUpTo(hashFile.dataEnd)
    BY <2>1 DEF FileInv
  <2>3. IndexOf(hashFile.dataEnd)
    BY <2>1, <2>2, FileIndexes
  <2>4. hashFile.numPuts >= PutsUpTo(hashFile.dataEnd)
    <3>1. hashFile.dataEnd \in Nat /\ hashFile.dataEnd \in 0 .. hashFile.dataEnd
      BY <2>1 DEF FileHeader
    <3>2. PutsUpTo(hashFile.dataEnd) \in Nat
      BY <3>1, PutsMonotone
    <3> QED
      BY <2>1, <3>2 DEF FileHeader
  <2> QED
    BY <2>1, <2>3, <2>4 DEF FileInv
<1> QED
  BY <1>1, HWInductive, PTL

\* Whatever is appended to the log during a call, a hash file with addresses
\* wide enough for the log is its index up to some point that is not before
\* data_end.  The file may be bad only where the log is compressed or about
\* to exceed 2^32 bytes: there the addresses of entries that the first load
\* of the log header does not account for may name other entries.
THEOREM FileCoversCorrect == HWSpec => []FileCovers
<1>1. HWInv => FileCovers
  <2> SUFFICES ASSUME HWInv, Sound
               PROVE  \E n \in hashFile.dataEnd .. Len(log) : IndexOf(n)
    BY DEF FileCovers
  <2>1. FileInv
    BY SoundFile
  <2>2. PICK n \in hashFile.dataEnd .. Len(log) : FilePointers = LiveUpTo(n)
    BY <2>1 DEF FileInv
  <2>3. IndexOf(n)
    BY <2>1, <2>2, FileIndexes
  <2> QED
    BY <2>2, <2>3
<1> QED
  BY <1>1, HWInductive, PTL

\* A written hash file never reaches beyond the log, and has no more entries
\* than puts unless the log grew between the two loads of its header: the
\* checks with which it is opened again.
THEOREM FileLoadableCorrect == HWSpec => []FileLoadable
<1>1. HWInv => FileLoadable
  <2> SUFFICES ASSUME HWInv, hashFile.exists
               PROVE  /\ hashFile.raced \/ hashFile.numEntries <= hashFile.numPuts
                      /\ hashFile.dataEnd <= Len(log)
    BY DEF FileLoadable
  <2>1. FileHeader /\ Len(log) \in Nat
    BY DEF HWInv, HeadersInv, FileOK
  <2> QED
    BY <2>1 DEF FileHeader
<1> QED
  BY <1>1, HWInductive, PTL

-----------------------------------------------------------------------------
(***************************************************************************)
(* garbage_size.                                                           *)
(***************************************************************************)

\* The hash file's garbage and live entries make up the log it covers.
FileSizes ==
  hashFile.exists /\ ~hashFile.raced /\ ~hashFile.recounted =>
    hashFile.garbage + SizeOf(LiveUpTo(hashFile.dataEnd)) = SizeOf(1 .. hashFile.dataEnd)

\* The running call goes on from there, or starts at the first entry with
\* no garbage; otherwise it counts entries again.
CallSizes ==
  /\ phase \in {"copy", "scan"} => hashSize = NewHashSize
  /\ phase = "copy" => garbage = hashFile.garbage
  /\ phase = "scan" => Stuck \/ CountsAgain \/ Accounted = SizeOf(1 .. iterPos)

SizesInv == FileSizes /\ CallSizes

\* The sizes that the file is about do not change with the log.
LEMMA FileSizesKept ==
  ASSUME HWInv, FileSizes, hashFile' = hashFile,
         \A S \in SUBSET DOMAIN log : SizeOf(S)' = SizeOf(S),
         \A n \in 0 .. Len(log) : LiveUpTo(n)' = LiveUpTo(n)
  PROVE  FileSizes'
<1> SUFFICES ASSUME hashFile.exists, ~hashFile.raced, ~hashFile.recounted
             PROVE  (hashFile.garbage + SizeOf(LiveUpTo(hashFile.dataEnd))
                       = SizeOf(1 .. hashFile.dataEnd))'
  BY DEF FileSizes
<1> DEFINE n == hashFile.dataEnd
<1>1. n \in 0 .. Len(log) /\ log \in Seq(Entry) /\ DOMAIN log = 1 .. Len(log)
  BY DEF HWInv, HeadersInv, FileOK, FileHeader
<1>2. LiveUpTo(n) \in SUBSET DOMAIN log /\ 1 .. n \in SUBSET DOMAIN log
  BY <1>1 DEF LiveUpTo
<1>3. /\ Total(LogSizes', LiveUpTo(n)) = SizeOf(LiveUpTo(n))
      /\ Total(LogSizes', 1 .. n) = SizeOf(1 .. n)
  BY <1>2 DEF SizeOf
<1>4. LiveUpTo(n)' = LiveUpTo(n)
  <2>1. \A m \in 0 .. Len(log) : {p \in 1 .. m : log'[p].type = "put"
                                   /\ \A q \in p + 1 .. m : log'[q].key # log'[p].key} = LiveUpTo(m)
    BY DEF LiveUpTo
  <2> QED
    BY <1>1, <2>1 DEF LiveUpTo
<1> QED
  BY <1>3, <1>4 DEF FileSizes, SizeOf

\* Nothing is counted before the first call.
LEMMA SizesInit == HWInit => SizesInv
BY DEF HWInit, SizesInv, FileSizes, CallSizes, NoFile

\* What is appended does not change the sizes of what came before.
LEMMA ExtendedSizes ==
  ASSUME log \in Seq(Entry), Extends
  PROVE  \A S \in SUBSET DOMAIN log : SizeOf(S)' = SizeOf(S)
<1>1. \A p \in DOMAIN log : p \in DOMAIN log' /\ log'[p] = log[p]
  BY LogKept DEF Extends
<1>2. IsFiniteSet(DOMAIN log)
  BY SizeFacts
<1>3. \A p \in DOMAIN log : LogSizes'[p] = LogSizes[p]
  BY <1>1 DEF LogSizes, SizeAt
<1> SUFFICES ASSUME NEW S \in SUBSET DOMAIN log
             PROVE  Total(LogSizes', S) = Total(LogSizes, S)
  BY DEF SizeOf
<1>4. IsFiniteSet(S) /\ \A p \in S : LogSizes'[p] = LogSizes[p]
  BY <1>2, <1>3, FS_Subset
<1> QED
  BY <1>4, TotalLocal

\* The log writer writes a part of a flush.
LEMMA GrowsSizes ==
  ASSUME HWInv, SizesInv, LogGrows
  PROVE  SizesInv'
<1>1. phase \in {"out", "loaded"} /\ Extends /\ UNCHANGED <<hashFile, phase>>
  BY GrowsFacts DEF FlushUnseen, callUnchanged, callVars
<1>2. log \in Seq(Entry)
  BY DEF HWInv, HeadersInv
<1>3. FileSizes'
  BY <1>1, <1>2, ExtendedSizes, LogKept, FileSizesKept DEF SizesInv
<1> QED
  BY <1>1, <1>3 DEF SizesInv, CallSizes

\* While the log stays as it is, so do the sizes.
LEMMA SizesSame ==
  ASSUME log' = log
  PROVE  /\ \A S : SizeOf(S)' = SizeOf(S)
         /\ LogSizes' = LogSizes
         /\ \A n : LiveUpTo(n)' = LiveUpTo(n)
BY DEF SizeOf, LogSizes, SizeAt, LiveUpTo

\* The call begins, returns without a new file, or meets a wrong address.
LEMMA CallSizesKept ==
  ASSUME HWInv, SizesInv, log' = log, hashFile' = hashFile,
         phase' \in {"out", "loaded", "astray"}
  PROVE  SizesInv'
<1>1. FileSizes'
  BY SizesSame, FileSizesKept DEF SizesInv
<1> QED
  BY <1>1 DEF SizesInv, CallSizes

\* The garbage of the old file is kept.
LEMMA PreparesSizes ==
  ASSUME HWInv, HWInv', SizesInv, OpenPrepares
  PROVE  SizesInv'
<1>1. /\ phase = "loaded" /\ hashSize' = NewHashSize /\ garbage' = OldGarbage
      /\ table' = [s \in 0 .. NewCapacity - 1 |-> EmptySlot] /\ capacity' = NewCapacity
      /\ phase' = IF CopyOld THEN "copy" ELSE "scan"
      /\ iterPos' = ScanStart
      /\ UNCHANGED <<numPuts, log, hashFile, sizeArg, op>>
  BY DEF OpenPrepares, EmptyTable, probeVars
<1>2. FileSizes'
  BY <1>1, SizesSame, FileSizesKept DEF SizesInv
<1>3. NewHashSize' = NewHashSize /\ OldLoads' = OldLoads /\ OldHashSize' = OldHashSize
  BY <1>1 DEF NewHashSize, AutoHashSize, OldHashSize, OldLoads, NewCapacity
<1>4. CASE CopyOld
  BY <1>1, <1>2, <1>3, <1>4 DEF SizesInv, CallSizes, CopyOld, OldGarbage
<1>5. CASE ~CopyOld
  <2>1. OldLoads => CountsAgain'
    BY <1>1, <1>3, <1>5 DEF CopyOld, CountsAgain
  <2>2. ASSUME ~OldLoads PROVE Accounted' = SizeOf(1 .. iterPos)'
    <3>1. op = "idle"
      BY <1>1 DEF HWInv, HeadersInv
    <3>2. Occupied' = {}
      BY <1>1 DEF Occupied, Empty, Slots, EmptySlot
    <3>3. LivePointers' = {} /\ Owed' = 0 /\ garbage' = 0
      BY <1>1, <2>2, <3>1, <3>2 DEF LivePointers, Carried, Owed, OldGarbage
    <3>4. iterPos' = 0 /\ 1 .. 0 = {}
      BY <1>1, <1>5 DEF ScanStart
    <3>5. Total(LogSizes', {}) = 0
      BY FS_EmptySet, TotalStep
    <3> QED
      BY <3>3, <3>4, <3>5 DEF Accounted, SizeOf
  <2> QED
    BY <1>1, <1>2, <1>3, <1>5, <2>1, <2>2 DEF SizesInv, CallSizes
<1> QED
  BY <1>4, <1>5

\* The decisions and what they say of the garbage stay the same.
LEMMA CountsKept ==
  ASSUME UNCHANGED <<hashFile, numPuts, sizeArg, hashSize>>
  PROVE  CountsAgain' = CountsAgain /\ NewHashSize' = NewHashSize /\ OldLoads' = OldLoads
BY DEF CountsAgain, OldLoads, NewHashSize, AutoHashSize, OldHashSize, NewCapacity

\* hash_copy goes on to the next slot of the old table.
LEMMA CopyNextSizes ==
  ASSUME HWInv, SizesInv, CopyNext
  PROVE  SizesInv'
<1>1. phase = "copy" /\ UNCHANGED <<hashFile, phase, hashSize, numPuts, sizeArg, garbage, log>>
  BY DEF CopyNext, tableVars
<1>2. FileSizes'
  BY <1>1, SizesSame, FileSizesKept DEF SizesInv
<1> QED
  BY <1>1, <1>2, CountsKept DEF SizesInv, CallSizes

\* hash_copy has come to the end of the old table: the table is the index
\* of the log that the old file covers, and its garbage is the old one.
LEMMA CopyDoneSizes ==
  ASSUME HWInv, HWInv', SizesInv, CopyDone
  PROVE  SizesInv'
<1>1. /\ phase = "copy" /\ op = "idle" /\ phase' = "scan"
      /\ UNCHANGED <<hashFile, hashSize, numPuts, sizeArg, garbage, log, op, iterPos>>
  BY DEF CopyDone, tableVars, readVars, probeVars
<1>2. FileSizes'
  BY <1>1, SizesSame, FileSizesKept DEF SizesInv
<1>3. CopyOld /\ iterPos = hashFile.dataEnd /\ log \in Seq(Entry) /\ OldLoads /\ hashFile.exists
  BY <1>1 DEF HWInv, HeadersInv, CopyOld, OldLoads
<1>4. FileInv /\ FileHeader /\ hashFile.dataEnd \in Nat
  BY <1>1, <1>3, CopiedFile DEF FileInv
<1>5. ASSUME ~CountsAgain' PROVE Accounted' = SizeOf(1 .. iterPos)'
  <2>1. ~hashFile.raced /\ ~hashFile.recounted
    BY <1>1, <1>3, <1>5, CountsKept DEF CountsAgain
  <2>2. FilePointers = LiveUpTo(hashFile.dataEnd)
    BY <1>4, <2>1 DEF FileInv
  <2>3. LivePointers' = FilePointers
    <3>1. ContentInv'
      BY <1>1 DEF HWInv, Stuck
    <3>2. /\ ScanStart' = iterPos /\ CopiedBase' = FilePointers /\ ~Pending'
      BY <1>1, <1>3, DecisionsKept DEF ScanStart, CopiedBase, Pending
    <3>3. ScannedTo' = iterPos
      BY <1>1, <3>2 DEF ScannedTo
    <3>4. LivePointers' = Merged(CopiedBase, ScanStart, ScannedTo)'
      BY <1>1, <3>1 DEF ContentInv
    <3>5. iterPos + 1 .. iterPos = {}
      BY <1>3, <1>4
    <3> QED
      BY <3>2, <3>3, <3>4, <3>5 DEF Merged
  <2>4. garbage' = hashFile.garbage /\ Owed' = 0
    BY <1>1 DEF SizesInv, CallSizes, Owed
  <2>5. hashFile.garbage + SizeOf(LiveUpTo(hashFile.dataEnd)) = SizeOf(1 .. hashFile.dataEnd)
    BY <1>3, <2>1 DEF SizesInv, FileSizes
  <2>6. SizeOf(LivePointers)' = SizeOf(LiveUpTo(hashFile.dataEnd))
    BY <1>1, <2>2, <2>3, SizesSame DEF SizeOf
  <2>7. SizeOf(1 .. iterPos)' = SizeOf(1 .. hashFile.dataEnd)
    BY <1>1, <1>3, SizesSame DEF SizeOf
  <2>8. hashFile.garbage \in Nat /\ SizeOf(LiveUpTo(hashFile.dataEnd)) \in Nat
    <3>1. LiveUpTo(hashFile.dataEnd) \subseteq DOMAIN log
      BY <1>3, <1>4 DEF LiveUpTo, FileInv
    <3>2. /\ IsFiniteSet(LiveUpTo(hashFile.dataEnd))
          /\ \A p \in LiveUpTo(hashFile.dataEnd) : LogSizes[p] \in Nat
      BY <1>3, <3>1, SizeFacts, FS_Subset
    <3> QED
      BY <1>4, <3>2, TotalRemove DEF SizeOf, FileHeader
  <2> QED
    BY <2>4, <2>5, <2>6, <2>7, <2>8 DEF Accounted
<1> QED
  BY <1>1, <1>2, <1>5, CountsKept DEF SizesInv, CallSizes

\* The scan reads the next entry of the log, and owes or counts it.
LEMMA ScanNextSizes ==
  ASSUME HWInv, SizesInv, ScanNext
  PROVE  SizesInv'
<1> DEFINE e == log[iterPos + 1]
           i == iterPos
<1>1. /\ phase = "scan" /\ op = "idle" /\ iterPos < logEnd /\ iterPos' = iterPos + 1
      /\ \/ e.type = "put" /\ op' = "put" /\ pos' = iterPos + 1 /\ garbage' = garbage
         \/ e.type = "delete" /\ op' = "delete" /\ garbage' = garbage + EntrySize(e)
      /\ fresh' = TRUE
      /\ UNCHANGED <<hashFile, phase, hashSize, numPuts, sizeArg, log, table, capacity>>
  BY DEF ScanNext, StartProbe, callVars
<1>2. FileSizes'
  BY <1>1, SizesSame, FileSizesKept DEF SizesInv
<1>3. LoopInv /\ LoopTypes /\ log \in Seq(Entry) /\ garbage \in Nat /\ i \in Nat /\ logEnd = Len(log)
      /\ ~Stuck
  <2>1. LoopInv /\ LoopTypes /\ ContentInv /\ HeadersInv
    BY <1>1, NotStuck DEF HWInv
  <2> QED
    BY <1>1, <2>1 DEF LoopTypes, ContentInv, HeadersInv, Stuck
<1>4. ASSUME ~CountsAgain' PROVE Accounted' = SizeOf(1 .. iterPos)'
  <2>1. Accounted = SizeOf(1 .. i)
    BY <1>1, <1>3, <1>4, CountsKept DEF SizesInv, CallSizes
  <2>2. Occupied' = Occupied
    BY <1>1 DEF Occupied, Slots, Empty
  <2>3. LivePointers' = LivePointers
    BY <1>1, <2>2 DEF LivePointers, Carried, Hole
  <2>4. SizeOf(LivePointers)' = SizeOf(LivePointers) /\ SizeOf(LivePointers) \in Nat
    <3>1. LivePointers \subseteq DOMAIN log
      BY <1>3, LiveInLog
    <3>2. IsFiniteSet(LivePointers) /\ \A p \in LivePointers : LogSizes[p] \in Nat
      BY <1>3, <3>1, SizeFacts, FS_Subset
    <3> QED
      BY <1>1, <2>3, <3>2, SizesSame, TotalRemove DEF SizeOf
  <2>5. i + 1 \in DOMAIN log /\ LogSizes[i + 1] = EntrySize(e) /\ EntrySize(e) \in Nat
    <3>1. DOMAIN log = 1 .. Len(log)
          /\ \A p \in DOMAIN log : LogSizes[p] = EntrySize(log[p]) /\ LogSizes[p] \in Nat
      BY <1>3, SizeFacts
    <3>2. i + 1 \in 1 .. Len(log)
      BY <1>1, <1>3
    <3> QED
      BY <3>1, <3>2
  <2>6. SizeOf(1 .. i + 1) = SizeOf(1 .. i) + EntrySize(e) /\ SizeOf(1 .. i) \in Nat
    <3>1. 1 .. i + 1 = (1 .. i) \cup {i + 1} /\ i + 1 \notin 1 .. i /\ 1 .. i \subseteq DOMAIN log
      BY <1>1, <1>3
    <3>2. IsFiniteSet(1 .. i) /\ \A p \in 1 .. i : LogSizes[p] \in Nat
      BY <1>3, <3>1, SizeFacts, FS_Subset
    <3> DEFINE y == i + 1
    <3> HIDE DEF y
    <3>3. y \notin 1 .. i /\ LogSizes[y] \in Nat
      BY <2>5, <3>1 DEF y
    <3>4. Total(LogSizes, (1 .. i) \cup {y}) = Total(LogSizes, 1 .. i) + LogSizes[y]
          /\ Total(LogSizes, 1 .. i) \in Nat
      BY <3>2, <3>3, TotalAdd
    <3> QED
      BY <2>5, <3>1, <3>4 DEF SizeOf, y
  <2>7. SizeOf(1 .. iterPos)' = SizeOf(1 .. i + 1)
    BY <1>1, SizesSame DEF SizeOf
  <2>8. Owed = 0 /\ LogSizes' = LogSizes
    BY <1>1, SizesSame DEF Owed, Pending
  <2>9. garbage' + Owed' = garbage + EntrySize(e) /\ garbage' \in Nat /\ Owed' \in Nat
    <3>1. CASE e.type = "put"
      <4>1. garbage' = garbage /\ Owed' = LogSizes[i + 1]
        BY <1>1, <2>8, <3>1 DEF Owed, Pending
      <4> QED
        BY <1>3, <2>5, <4>1
    <3>2. CASE e.type = "delete"
      <4>1. garbage' = garbage + EntrySize(e) /\ Owed' = 0
        BY <1>1, <3>2 DEF Owed, Pending
      <4> QED
        BY <1>3, <2>5, <4>1
    <3> QED
      BY <1>1, <3>1, <3>2
  <2>10. Accounted = garbage + SizeOf(LivePointers)
         /\ Accounted' = garbage' + SizeOf(LivePointers) + Owed'
    BY <1>3, <2>4, <2>8 DEF Accounted
  <2> DEFINE x == SizeOf(LivePointers)
             y == EntrySize(e)
             z == SizeOf(1 .. i)
             g == garbage'
             o == Owed'
  <2>11. /\ x \in Nat /\ y \in Nat /\ z \in Nat /\ g \in Nat /\ o \in Nat
         /\ z = garbage + x /\ Accounted' = g + x + o /\ g + o = garbage + y
         /\ SizeOf(1 .. i + 1) = z + y
    BY <2>1, <2>4, <2>5, <2>6, <2>9, <2>10
  <2> HIDE DEF x, y, z, g, o
  <2>12. Accounted' = SizeOf(1 .. i + 1)
    BY <1>3, <2>11
  <2> QED
    BY <2>7, <2>12
<1> QED
  BY <1>1, <1>2, <1>4, CountsKept DEF SizesInv, CallSizes

\* An iteration of a loop neither loses nor invents a byte.
LEMMA LoopStepSizes ==
  ASSUME HWInv, SizesInv, LoopStep
  PROVE  SizesInv'
<1>1. /\ WriterStep /\ UNCHANGED <<hashFile, phase, hashSize, numPuts, sizeArg, log, iterPos>>
  BY WriterKeeps DEF LoopStep, callVars, readVars
<1>2. FileSizes'
  BY <1>1, SizesSame, FileSizesKept DEF SizesInv
<1>3. phase = "copy" => garbage' = garbage
  <2> SUFFICES ASSUME phase = "copy" PROVE garbage' = garbage
    OBVIOUS
  <2>1. op = "idle" \/ (op = "put" /\ ~fresh)
    BY NotStuck DEF ContentInv
  <2> QED
    BY <1>1, <2>1 DEF WriterStep, PutEmpty, PutReplace, PutSteal, PutWalk, DeleteMiss,
                      DeleteFound, DeleteWalk, ShiftBack, ShiftEnd, tableVars
<1>4. phase = "scan" => Stuck' \/ CountsAgain' \/ Accounted' = SizeOf(1 .. iterPos)'
  <2>1. CASE Stuck
    BY <1>1, <2>1, StuckStays
  <2>2. CASE ~Stuck
    <3>1. Accounted' = Accounted
      BY <1>1, <2>2, LoopGarbage DEF HWInv
    <3>2. SizeOf(1 .. iterPos)' = SizeOf(1 .. iterPos)
      BY <1>1, SizesSame DEF SizeOf
    <3> QED
      BY <1>1, <2>2, <3>1, <3>2, CountsKept DEF SizesInv, CallSizes
  <2> QED
    BY <2>1, <2>2
<1> QED
  BY <1>1, <1>2, <1>3, <1>4, CountsKept DEF SizesInv, CallSizes

\* The new file: nothing is owed any more, and the table is the index.
LEMMA WriteSizes ==
  ASSUME HWInv, SizesInv, WriteHashFile
  PROVE  SizesInv'
<1>1. /\ phase = "scan" /\ op = "idle" /\ iterPos = logEnd /\ phase' = "out" /\ log' = log
      /\ hashFile'.garbage = garbage /\ hashFile'.dataEnd = loadedEnd
      /\ hashFile'.raced = (loadedEnd # logEnd) /\ hashFile'.recounted = CountsAgain
  BY DEF WriteHashFile, Leave, LeaveUnchanged, Raced
<1>2. ASSUME ~hashFile'.raced, ~hashFile'.recounted
      PROVE  (hashFile.garbage + SizeOf(LiveUpTo(hashFile.dataEnd))
                = SizeOf(1 .. hashFile.dataEnd))'
  <2>1. loadedEnd = Len(log) /\ iterPos = Len(log) /\ LivePointers = LiveUpTo(Len(log))
    BY <1>1, <1>2, CompleteIndex
  <2>2. Accounted = SizeOf(1 .. iterPos) /\ Owed = 0 /\ log \in Seq(Entry) /\ garbage \in Nat
    <3>1. LoopTypes /\ ~Stuck
      BY <1>1, NotStuck DEF Stuck
    <3> QED
      BY <1>1, <1>2, <3>1 DEF SizesInv, CallSizes, Owed, Pending, LoopTypes
  <2>3. SizeOf(LiveUpTo(Len(log))) \in Nat
    <3>1. LoopInv
      BY <1>1, NotStuck
    <3>2. LivePointers \subseteq DOMAIN log
      BY <3>1, LiveInLog
    <3>3. IsFiniteSet(LivePointers) /\ \A p \in LivePointers : LogSizes[p] \in Nat
      BY <2>2, <3>2, SizeFacts, FS_Subset
    <3> QED
      BY <2>1, <3>3, TotalRemove DEF SizeOf
  <2>4. garbage + SizeOf(LiveUpTo(Len(log))) = SizeOf(1 .. Len(log))
    BY <2>1, <2>2, <2>3 DEF Accounted
  <2>5. LiveUpTo(hashFile.dataEnd)' = LiveUpTo(Len(log)) /\ LogSizes' = LogSizes
    BY <1>1, <2>1, SizesSame DEF LiveUpTo
  <2> QED
    BY <1>1, <2>1, <2>4, <2>5 DEF SizeOf
<1> QED
  BY <1>1, <1>2 DEF SizesInv, FileSizes, CallSizes

\* Nothing happens.
LEMMA StutterSizes ==
  ASSUME HWInv, SizesInv, UNCHANGED hwVars
  PROVE  SizesInv'
<1>1. /\ UNCHANGED <<keyHash, numPuts, capacity, table, numEntries, garbage, log, iterPos>>
      /\ UNCHANGED <<hashFile, phase, sizeArg, loadedEnd, logEnd, hashSize, copySlot>>
      /\ UNCHANGED <<op, key, slot, disp, hash, pos, fresh>>
  BY DEF hwVars, vars, tableVars, probeVars, readVars, callVars
<1>2. FileSizes'
  BY <1>1, SizesSame, FileSizesKept DEF SizesInv
<1>3. /\ Slots' = Slots /\ Occupied' = Occupied /\ LivePointers' = LivePointers
      /\ LogSizes' = LogSizes /\ Owed' = Owed /\ Stuck' = Stuck
  BY <1>1, SizesSame DEF Slots, Occupied, Empty, LivePointers, Carried, Hole, Owed, Pending, Stuck,
                         Matches
<1>4. Accounted' = Accounted /\ SizeOf(1 .. iterPos)' = SizeOf(1 .. iterPos)
  BY <1>1, <1>3 DEF Accounted, SizeOf
<1> QED
  BY <1>1, <1>2, <1>3, <1>4, CountsKept DEF SizesInv, CallSizes

\* The garbage_size that is written to the hash file and the live entries
\* make up the bytes that log_add wrote to the log up to data_end, after any
\* number of calls, unless entries that the old header covers had to be
\* counted again.
THEOREM FileGarbageCorrect == HWSpec => []FileGarbage
<1>1. ASSUME HWInv, HWInv', SizesInv, [HWNext]_hwVars PROVE SizesInv'
  <2>1. CASE LogGrows
    BY <1>1, <2>1, GrowsSizes
  <2>2. ASSUME NEW size \in HashSizeArgs, CallHashWrite(size) PROVE SizesInv'
    BY <1>1, <2>2, CallSizesKept DEF CallHashWrite
  <2>3. CASE OpenRefused \/ OpenRejects \/ OpenNothingToDo \/ AstrayFails
    BY <1>1, <2>3, CallSizesKept DEF OpenRefused, OpenRejects, OpenNothingToDo, AstrayFails, Leave,
                                     LeaveUnchanged
  <2>4. CASE OpenPrepares
    BY <1>1, <2>4, PreparesSizes
  <2>5. CASE CopyNext
    BY <1>1, <2>5, CopyNextSizes
  <2>6. CASE CopyDone
    BY <1>1, <2>6, CopyDoneSizes
  <2>7. CASE ScanNext
    BY <1>1, <2>7, ScanNextSizes
  <2>8. CASE WriteHashFile
    BY <1>1, <2>8, WriteSizes
  <2>9. CASE LoopStep
    BY <1>1, <2>9, LoopStepSizes
  <2>10. CASE UNCHANGED hwVars
    BY <1>1, <2>10, StutterSizes
  <2>11. CASE OpenAstray \/ ScanAstray
    BY <1>1, <2>11, CallSizesKept DEF OpenAstray, ScanAstray, vars, tableVars
  <2>12. ASSUME NEW n \in 0 .. MaxPuts + 1, AstrayWrites(n) PROVE SizesInv'
    <3>1. phase' = "out" /\ hashFile'.recounted
      BY <2>12 DEF AstrayWrites, Leave
    <3> QED
      BY <3>1 DEF SizesInv, FileSizes, CallSizes
  <2> QED
    BY <1>1, <2>1, <2>2, <2>3, <2>4, <2>5, <2>6, <2>7, <2>8, <2>9, <2>10, <2>11, <2>12
    DEF HWNext, CallStep
<1>2. ASSUME HWInv, SizesInv PROVE FileGarbage
  <2> SUFFICES ASSUME hashFile.exists, ~hashFile.raced, ~hashFile.recounted
               PROVE  hashFile.garbage + MapThenSumSet(SizeAt, LiveUpTo(hashFile.dataEnd))
                        = MapThenSumSet(SizeAt, 1 .. hashFile.dataEnd)
    BY DEF FileGarbage, Sound
  <2> DEFINE n == hashFile.dataEnd
  <2>1. log \in Seq(Entry) /\ n \in 0 .. Len(log)
    BY <1>2 DEF HWInv, HeadersInv, FileOK, FileHeader
  <2>2. LiveUpTo(n) \subseteq DOMAIN log /\ 1 .. n \subseteq DOMAIN log
    BY <2>1 DEF LiveUpTo
  <2>3. IsFiniteSet(LiveUpTo(n)) /\ IsFiniteSet(1 .. n)
    BY <2>1, <2>2, SizeFacts, FS_Subset
  <2>4. /\ MapThenSumSet(SizeAt, LiveUpTo(n)) = SizeOf(LiveUpTo(n))
        /\ MapThenSumSet(SizeAt, 1 .. n) = SizeOf(1 .. n)
    BY <2>2, <2>3, SumIsTotal
  <2> QED
    BY <1>2, <2>4 DEF SizesInv, FileSizes
<1> QED
  BY <1>1, <1>2, SizesInit, HWInductive, PTL DEF HWSpec

-----------------------------------------------------------------------------
(***************************************************************************)
(* Room in the table.                                                      *)
(***************************************************************************)

\* Entries merged into an index add at most one pointer for each PUT.
LEMMA MergedCount ==
  ASSUME NEW S, IsFiniteSet(S), NEW n \in Nat, NEW m \in Nat, n <= m
  PROVE  /\ IsFiniteSet(Merged(S, n, m)) /\ Cardinality(Merged(S, n, m)) \in Nat
         /\ Cardinality(Merged(S, n, m)) <= Cardinality(S) + (PutsUpTo(m) - PutsUpTo(n))
<1> DEFINE P(i) == {p \in 1 .. i : log[p].type = "put"}
           D == {p \in n + 1 .. m : log[p].type = "put"}
<1>1. IsFiniteSet(1 .. m)
  BY FS_Interval
<1>2. P(m) = P(n) \cup D /\ P(n) \cap D = {} /\ D \subseteq 1 .. m /\ P(n) \subseteq 1 .. m
  <2>1. 1 .. m = (1 .. n) \cup (n + 1 .. m) /\ (1 .. n) \cap (n + 1 .. m) = {}
    OBVIOUS
  <2> QED
    BY <2>1
<1>3. PutsUpTo(n) = Cardinality(P(n)) /\ PutsUpTo(m) = Cardinality(P(m))
  BY DEF PutsUpTo
<1>4. Merged(S, n, m) \subseteq S \cup D
  BY DEF Merged
<1> HIDE DEF P, D
<1>5. IsFiniteSet(P(n)) /\ IsFiniteSet(D)
  BY <1>1, <1>2, FS_Subset
<1>6. /\ Cardinality(S) \in Nat /\ Cardinality(D) \in Nat /\ Cardinality(P(n)) \in Nat
      /\ Cardinality(S \cap D) \in Nat /\ Cardinality({}) = 0
  <2>1. IsFiniteSet(S \cap D)
    BY FS_Intersection
  <2> QED
    BY <1>5, <2>1, FS_CardinalityType, FS_EmptySet
<1>7. Cardinality(P(m)) = Cardinality(P(n)) + Cardinality(D)
  <2>1. Cardinality(P(n) \cup D) = Cardinality(P(n)) + Cardinality(D) - Cardinality(P(n) \cap D)
    BY <1>5, FS_Union
  <2>2. Cardinality(P(m)) = Cardinality(P(n)) + Cardinality(D) - 0
    <3>1. P(m) = P(n) \cup D /\ P(n) \cap D = {} /\ Cardinality({}) = 0
      BY <1>2, <1>6
    <3> QED
      BY <2>1, <3>1, Zenon
  <2> QED
    BY <1>6, <2>2
<1>8. IsFiniteSet(S \cup D) /\ Cardinality(S \cup D) <= Cardinality(S) + Cardinality(D)
  <2>1. IsFiniteSet(S \cup D)
        /\ Cardinality(S \cup D) = Cardinality(S) + Cardinality(D) - Cardinality(S \cap D)
    BY <1>5, FS_Union
  <2> QED
    BY <1>6, <2>1
<1>9. /\ IsFiniteSet(Merged(S, n, m))
      /\ Cardinality(Merged(S, n, m)) <= Cardinality(S \cup D)
  BY <1>4, <1>8, FS_Subset
<1>10. Cardinality(Merged(S, n, m)) \in Nat /\ Cardinality(S \cup D) \in Nat
  BY <1>8, <1>9, FS_CardinalityType
<1> QED
  BY <1>3, <1>6, <1>7, <1>8, <1>9, <1>10

\* One PUT more.
LEMMA PutsNext ==
  ASSUME NEW m \in Nat, log[m + 1].type = "put"
  PROVE  PutsUpTo(m + 1) = PutsUpTo(m) + 1
<1> DEFINE P(i) == {p \in 1 .. i : log[p].type = "put"}
<1>1. IsFiniteSet(1 .. m)
  BY FS_Interval
<1>2. P(m + 1) = P(m) \cup {m + 1} /\ m + 1 \notin P(m) /\ P(m) \subseteq 1 .. m
  <2>1. 1 .. m + 1 = (1 .. m) \cup {m + 1} /\ m + 1 \notin 1 .. m
    OBVIOUS
  <2> QED
    BY <2>1
<1>3. PutsUpTo(m) = Cardinality(P(m)) /\ PutsUpTo(m + 1) = Cardinality(P(m + 1))
  BY DEF PutsUpTo
<1> HIDE DEF P
<1>4. IsFiniteSet(P(m))
  BY <1>1, <1>2, FS_Subset
<1>5. Cardinality(P(m) \cup {m + 1}) = Cardinality(P(m)) + 1
  BY <1>2, <1>4, FS_AddElement
<1> QED
  BY <1>2, <1>3, <1>5

\* The capacity was not chosen for the entries that are scanned.
Unroomy == Raced \/ (OldLoads /\ ~CopyOld) \/ Ahead

\* The table has the capacity that was chosen, and hash_put only goes round
\* for ever in a table that was not chosen for what is scanned.
RoomInv ==
  /\ phase \in {"copy", "scan"} => capacity = NewCapacity
  /\ Stuck => Unroomy

\* What is indexed after the entries up to m leaves a slot for every PUT
\* that is still to be scanned.
LEMMA ScanCount ==
  ASSUME HWInv, RoomInv, phase = "scan", ~Unroomy, NEW m \in ScanStart .. logEnd
  PROVE  /\ Cardinality(Merged(CopiedBase, ScanStart, m))
              <= capacity - (PutsUpTo(logEnd) - PutsUpTo(m))
         /\ Cardinality(Merged(CopiedBase, ScanStart, m)) \in Nat
         /\ PutsUpTo(logEnd) \in Nat /\ logEnd \in Nat /\ m \in Nat
         /\ PutsUpTo(m) \in Nat /\ capacity \in Nat
<1>1. /\ logEnd \in Nat /\ capacity = NewCapacity /\ loadedEnd = logEnd
      /\ numPuts \in Nat /\ PutsUpTo(logEnd) <= numPuts
  BY DEF HWInv, HeadersInv, HWTypeOK, Unroomy, Raced, RoomInv
<1>2. NewCapacity \in Nat /\ PutsUpTo(logEnd) \in Nat
  BY <1>1, Chosen, PutsMonotone
<1>3. CASE CopyOld
  <2>1. FileInv /\ FileHeader /\ hashFile.exists /\ OldLoads
    BY <1>3, CopiedFile
  <2>2. /\ ScanStart = hashFile.dataEnd /\ CopiedBase = FilePointers /\ ScanStart \in Nat
    BY <1>3, <2>1 DEF ScanStart, CopiedBase, FileInv
  <2>3. IsFiniteSet(CopiedBase) /\ Cardinality(CopiedBase) = hashFile.numEntries
    BY <2>1, <2>2, FileFacts
  <2>4. m \in Nat /\ ScanStart <= m
    BY <1>1, <2>2
  <2>5. /\ NewCapacity >= hashFile.numEntries + (numPuts - hashFile.numPuts)
        /\ hashFile.numEntries \in Nat /\ hashFile.numPuts \in Nat
    BY <2>1, Chosen
  <2>6. /\ Cardinality(Merged(CopiedBase, ScanStart, m))
             <= hashFile.numEntries + (PutsUpTo(m) - PutsUpTo(ScanStart))
        /\ Cardinality(Merged(CopiedBase, ScanStart, m)) \in Nat
    <3> DEFINE S == CopiedBase
               n == ScanStart
    <3> HIDE DEF S, n
    <3>1. IsFiniteSet(S) /\ n \in Nat /\ m \in Nat /\ n <= m
      BY <2>2, <2>3, <2>4 DEF S, n
    <3>2. /\ Cardinality(Merged(S, n, m)) \in Nat
          /\ Cardinality(Merged(S, n, m)) <= Cardinality(S) + (PutsUpTo(m) - PutsUpTo(n))
      BY <3>1, MergedCount
    <3> QED
      BY <2>3, <3>2 DEF S, n
  <2>7. PutsUpTo(m) \in Nat /\ PutsUpTo(ScanStart) \in Nat
    BY <2>2, <2>4, PutsMonotone
  <2>8. hashFile.numPuts - PutsUpTo(ScanStart) <= numPuts - PutsUpTo(logEnd)
    <3>1. ~(hashFile.numPuts - PutsUpTo(ScanStart) > numPuts - PutsUpTo(logEnd))
      BY <1>1, <2>1, <2>2 DEF Unroomy, Ahead
    <3> QED
      BY <1>1, <1>2, <2>5, <2>7, <3>1
  <2> DEFINE c == Cardinality(Merged(CopiedBase, ScanStart, m))
             e == hashFile.numEntries
             k == hashFile.numPuts
             a == PutsUpTo(ScanStart)
             b == PutsUpTo(m)
             d == PutsUpTo(logEnd)
  <2>9. /\ c \in Nat /\ e \in Nat /\ k \in Nat /\ a \in Nat /\ b \in Nat /\ d \in Nat
        /\ NewCapacity >= e + (numPuts - k) /\ c <= e + (b - a) /\ k - a <= numPuts - d
    BY <1>2, <2>5, <2>6, <2>7, <2>8
  <2> HIDE DEF c, e, k, a, b, d
  <2>10. c <= NewCapacity - (d - b)
    BY <1>1, <1>2, <2>9
  <2> QED
    BY <1>1, <1>2, <2>4, <2>6, <2>7, <2>10 DEF c, b, d
<1>4. CASE ~CopyOld
  <2>1. ~OldLoads /\ ScanStart = 0 /\ CopiedBase = {}
    BY <1>4 DEF Unroomy, ScanStart, CopiedBase
  <2>2. NewCapacity >= numPuts
    BY <2>1, Chosen
  <2>3. m \in Nat /\ 0 <= m
    BY <1>1, <2>1
  <2>4. PutsUpTo(m) \in Nat /\ PutsUpTo(0) \in Nat
    BY <2>3, PutsMonotone
  <2>5. IsFiniteSet({}) /\ Cardinality({}) = 0
    BY FS_EmptySet
  <2>6. /\ Cardinality(Merged({}, 0, m)) \in Nat
        /\ Cardinality(Merged({}, 0, m)) <= 0 + (PutsUpTo(m) - PutsUpTo(0))
    BY <2>3, <2>5, MergedCount
  <2>7. /\ Cardinality(Merged(CopiedBase, ScanStart, m)) \in Nat
        /\ Cardinality(Merged(CopiedBase, ScanStart, m)) <= PutsUpTo(m)
    BY <2>1, <2>4, <2>6
  <2> QED
    BY <1>1, <1>2, <2>2, <2>3, <2>4, <2>7
<1> QED
  BY <1>3, <1>4

\* A table that was chosen for what is scanned has an empty slot when
\* hash_put is about to be called and while it runs.
LEMMA ScanNotFull ==
  ASSUME HWInv, RoomInv, phase = "scan", ~Unroomy,
         op = "put" \/ (op = "idle" /\ iterPos < logEnd /\ log[iterPos + 1].type = "put")
  PROVE  Occupied # Slots
<1> SUFFICES ASSUME Occupied = Slots PROVE FALSE
  OBVIOUS
<1>1. LoopMapInv /\ ContentInv /\ op \in {"idle", "put"} /\ LoopTypes
  BY DEF RoomInv, HWInv, LoopMapInv, LoopInv
<1>2. /\ iterPos \in Nat /\ ScannedTo \in ScanStart .. logEnd
      /\ LivePointers = Merged(CopiedBase, ScanStart, ScannedTo)
      /\ Pending => iterPos \in 1 .. logEnd /\ log[iterPos].type = "put"
  BY <1>1 DEF ContentInv, Pending
<1>3. /\ Cardinality(LivePointers) <= capacity - (PutsUpTo(logEnd) - PutsUpTo(ScannedTo))
      /\ Cardinality(LivePointers) \in Nat
      /\ PutsUpTo(logEnd) \in Nat /\ logEnd \in Nat /\ ScannedTo \in Nat
      /\ PutsUpTo(ScannedTo) \in Nat /\ capacity \in Nat
  BY <1>2, ScanCount
<1>4. Cardinality(LivePointers) = IF op = "put" /\ ~fresh THEN capacity + 1 ELSE capacity
  BY <1>1, FullCount
<1>5. PutsUpTo(ScannedTo) <= PutsUpTo(logEnd)
  <2>1. ScannedTo \in 0 .. logEnd
    BY <1>2, <1>3
  <2> QED
    BY <1>3, <2>1, PutsMonotone
<1>6. CASE op = "put" /\ ~fresh
  BY <1>3, <1>4, <1>5, <1>6
<1>7. CASE ~(op = "put" /\ ~fresh)
  <2>1. ScannedTo + 1 <= logEnd /\ log[ScannedTo + 1].type = "put"
    <3>1. CASE op = "put"
      <4>1. Pending
        BY <1>7, <3>1 DEF Pending
      <4>2. ScannedTo = iterPos - 1
        BY <4>1 DEF ScannedTo
      <4>3. iterPos = ScannedTo + 1
        BY <1>2, <4>2
      <4> QED
        BY <1>2, <1>3, <4>1, <4>3
    <3>2. CASE op = "idle"
      <4>1. ScannedTo = iterPos
        BY <3>2 DEF ScannedTo, Pending
      <4> QED
        BY <1>2, <1>3, <3>2, <4>1
    <3> QED
      BY <1>1, <3>1, <3>2
  <2>2. PutsUpTo(ScannedTo + 1) = PutsUpTo(ScannedTo) + 1
    BY <1>3, <2>1, PutsNext
  <2>3. ScannedTo + 1 \in 0 .. logEnd
    BY <1>3, <2>1
  <2>4. PutsUpTo(ScannedTo + 1) <= PutsUpTo(logEnd)
    BY <1>3, <2>3, PutsMonotone
  <2> QED
    BY <1>3, <1>4, <1>7, <2>2, <2>4
<1> QED
  BY <1>6, <1>7

\* Every step keeps the table roomy.
LEMMA RoomStep ==
  ASSUME HWInv, HWInv', RoomInv, [HWNext]_hwVars
  PROVE  RoomInv'
<1>1. CASE LogGrows
  BY <1>1, GrowsFacts DEF FlushUnseen, callUnchanged, callVars, RoomInv, Stuck
<1>2. ASSUME NEW size \in HashSizeArgs, CallHashWrite(size) PROVE RoomInv'
  BY <1>2 DEF CallHashWrite, RoomInv, Stuck
<1>3. CASE OpenRefused \/ OpenRejects \/ OpenNothingToDo \/ WriteHashFile \/ AstrayFails
  BY <1>3 DEF OpenRefused, OpenRejects, OpenNothingToDo, WriteHashFile, AstrayFails, Leave,
              RoomInv, Stuck
<1>4. CASE OpenPrepares
  <2>1. capacity' = NewCapacity /\ UNCHANGED <<hashFile, numPuts, op>> /\ phase = "loaded"
    BY <1>4 DEF OpenPrepares, probeVars
  <2>2. NewCapacity' = NewCapacity /\ op' = "idle"
    BY <2>1 DEF NewCapacity, OldLoads, HWInv, HeadersInv
  <2> QED
    BY <2>1, <2>2 DEF RoomInv, Stuck
<1>5. CASE CopyNext \/ CopyDone
  <2>1. /\ phase = "copy" /\ UNCHANGED <<hashFile, numPuts, capacity>>
        /\ phase' = "copy" \/ op' = "idle"
    BY <1>5 DEF CopyNext, CopyDone, tableVars, probeVars
  <2>2. NewCapacity' = NewCapacity
    BY <2>1 DEF NewCapacity, OldLoads
  <2> QED
    BY <2>1, <2>2 DEF RoomInv, Stuck
<1>6. ASSUME UNCHANGED <<hashFile, numPuts, sizeArg, loadedEnd, logEnd, capacity, phase, log>>
      PROVE  NewCapacity' = NewCapacity /\ Unroomy' = Unroomy /\ Slots' = Slots
  BY <1>6, DecisionsKept DEF NewCapacity, OldLoads, Unroomy, Raced, Ahead, PutsUpTo, Slots
<1>7. CASE ScanNext
  <2>1. /\ UNCHANGED <<hashFile, numPuts, sizeArg, loadedEnd, logEnd, capacity, phase, log>>
        /\ table' = table
        /\ phase = "scan" /\ op = "idle" /\ iterPos < logEnd
        /\ op' = "put" => log[iterPos + 1].type = "put"
    BY <1>7 DEF ScanNext, StartProbe, callVars
  <2>2. Occupied' = Occupied
    BY <2>1 DEF Occupied, Slots, Empty
  <2>3. Stuck' => op' = "put" /\ Occupied' = Slots'
    BY DEF Stuck, Occupied
  <2> QED
    BY <1>6, <2>1, <2>2, <2>3, ScanNotFull DEF RoomInv
<1>8. CASE LoopStep
  <2>1. /\ UNCHANGED <<hashFile, numPuts, sizeArg, loadedEnd, logEnd, capacity, phase, log>>
        /\ WriterStep
    BY <1>8, WriterKeeps DEF LoopStep, callVars
  <2>2. CASE Stuck
    BY <1>6, <2>1, <2>2 DEF RoomInv
  <2>3. ASSUME ~Stuck, Stuck' PROVE Unroomy
    <3>1. op' = "put" /\ phase = "scan" /\ Occupied' = Slots'
      BY <2>1, <2>3 DEF Stuck, Occupied
    <3>2. PutSteal \/ PutWalk
      BY <2>1, <3>1 DEF WriterStep, PutEmpty, PutReplace, DeleteMiss, DeleteFound, DeleteWalk,
                        ShiftBack, ShiftEnd, Return, Walk
    <3>3. op = "put" /\ Occupied' = Occupied
      <4>1. LoopTypes /\ LoopInv
        BY <2>3 DEF HWInv, LoopMapInv, LoopInv
      <4>2. CASE PutWalk
        BY <4>2 DEF PutWalk, tableVars, Occupied, Slots, Empty
      <4>3. CASE PutSteal
        <5>1. op = "put" /\ slot \in Slots /\ table[slot].pos # 0
              /\ table' = [table EXCEPT ![slot] = [hash |-> hash, pos |-> pos]] /\ capacity' = capacity
              /\ table \in [Slots -> [hash : Nat, pos : Nat]]
          BY <4>1, <4>3 DEF PutSteal, Place, LoopTypes, Empty
        <5>2. pos # 0
          BY <4>1, <5>1 DEF LoopInv, PointersArePuts, IsPutPointer, LoopTypes
        <5>3. \A s \in Slots : table'[s].pos = 0 <=> table[s].pos = 0
          BY <5>1, <5>2
        <5> QED
          BY <5>1, <5>3 DEF Occupied, Slots, Empty
      <4> QED
        BY <3>2, <4>2, <4>3
    <3> QED
      BY <1>6, <2>1, <3>1, <3>3, ScanNotFull
  <2> QED
    BY <1>6, <2>1, <2>2, <2>3 DEF RoomInv
<1>9. CASE UNCHANGED hwVars
  <2>1. /\ UNCHANGED <<hashFile, numPuts, sizeArg, loadedEnd, logEnd, capacity, phase, log>>
        /\ UNCHANGED <<table, log, op, key, slot, hash, pos, fresh>>
    BY <1>9 DEF hwVars, vars, tableVars, probeVars, callVars
  <2>2. Stuck' = Stuck
    BY <2>1 DEF Stuck, Slots, Empty, Matches
  <2> QED
    BY <1>6, <2>1, <2>2 DEF RoomInv
<1>10. CASE OpenAstray \/ ScanAstray
  BY <1>10 DEF OpenAstray, ScanAstray, RoomInv, Stuck
<1>11. ASSUME NEW n \in 0 .. MaxPuts + 1, AstrayWrites(n) PROVE RoomInv'
  BY <1>11 DEF AstrayWrites, Leave, RoomInv, Stuck
<1> QED
  BY <1>1, <1>2, <1>3, <1>4, <1>5, <1>7, <1>8, <1>9, <1>10, <1>11 DEF HWNext, CallStep

\* While the old table is copied and while the log is scanned, hash_put has
\* an empty slot to end at, in every sequence of calls, however the log grew
\* and wherever in a flush its header was loaded, except in three cases: the
\* data_end changed between the two loads; the old header was counted but
\* the old table not copied; the old header counts more PUTs beyond its
\* data_end than the new one, as it was loaded before a flush wrote data_end.
THEOREM HashPutRoomCorrect == HWSpec => []HashPutRoom
<1>1. HWInit => RoomInv
  BY DEF HWInit, RoomInv, Stuck
<1>2. ASSUME HWInv, RoomInv PROVE HashPutRoom
  <2> SUFFICES ASSUME op = "put", ~Raced, OldLoads => CopyOld, ~Ahead PROVE Occupied # Slots
    BY DEF HashPutRoom
  <2>1. phase \in {"copy", "scan"}
    BY <1>2 DEF HWInv, HWTypeOK, Phases, HeadersInv
  <2>2. ~Unroomy
    BY DEF Unroomy
  <2> QED
    BY <1>2, <2>1, <2>2, CopyNotFull, ScanNotFull
<1> QED
  BY <1>1, <1>2, RoomStep, HWInductive, PTL DEF HWSpec
=============================================================================
