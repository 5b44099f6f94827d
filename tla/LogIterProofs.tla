--------------------------- MODULE LogIterProofs ---------------------------
(***************************************************************************)
(* The layout of a log and the iterator that reads it: proofs about the    *)
(* blocks that log_add and sparkey_logwriter_flush leave, and about the    *)
(* calls of sparkey_logiter_* on them, for every block size, entries of    *)
(* any lengths and any sequence of calls.                                  *)
(*                                                                         *)
(* WriterInv says that the blocks are chains of consecutive units which    *)
(* continue one another.  IterInv says where the iterator is in them.  An  *)
(* operator such as HasRun, Taken or CmpAt names what a lemma assumes.     *)
(***************************************************************************)
EXTENDS LogIter, LogFormatProofs, SequenceTheorems, FiniteSetTheorems

\* The largest element of an interval, and of a set that has the bound.
LEMMA MaxOf ==
  ASSUME NEW S \in SUBSET Nat, NEW x \in S, \A y \in S : x >= y
  PROVE  Max(S) = x
<1>1. \A z \in S : (\A y \in S : z >= y) => z = x
  <2> SUFFICES ASSUME NEW z \in S, \A y \in S : z >= y PROVE z = x
    OBVIOUS
  <2>1. z >= x /\ x >= z /\ z \in Nat /\ x \in Nat
    OBVIOUS
  <2> QED
    BY <2>1
<1> QED
  BY <1>1 DEF Max

\* The smallest element of a set.
LEMMA MinOf ==
  ASSUME NEW S \in SUBSET Nat, NEW x \in S, \A y \in S : x <= y
  PROVE  Min(S) = x
<1>1. \A z \in S : (\A y \in S : z <= y) => z = x
  <2> SUFFICES ASSUME NEW z \in S, \A y \in S : z <= y PROVE z = x
    OBVIOUS
  <2>1. z <= x /\ x <= z /\ z \in Nat /\ x \in Nat
    OBVIOUS
  <2> QED
    BY <2>1
<1> QED
  BY <1>1 DEF Min

\* The larger and the smaller of two numbers.
LEMMA MaxPair ==
  ASSUME NEW x \in Nat, NEW y \in Nat
  PROVE  /\ Max({x, y}) = IF x >= y THEN x ELSE y
         /\ Min({x, y}) = IF x <= y THEN x ELSE y
         /\ Max({x, y}) \in Nat /\ Min({x, y}) \in Nat
<1>1. Max({x, y}) = IF x >= y THEN x ELSE y
  <2>1. CASE x >= y
    BY <2>1, MaxOf
  <2>2. CASE ~(x >= y)
    BY <2>2, MaxOf
  <2> QED
    BY <2>1, <2>2
<1>2. Min({x, y}) = IF x <= y THEN x ELSE y
  <2>1. CASE x <= y
    BY <2>1, MinOf
  <2>2. CASE ~(x <= y)
    BY <2>2, MinOf
  <2> QED
    BY <2>1, <2>2
<1> QED
  BY <1>1, <1>2

\* A set of numbers up to n has a largest.
LEMMA MaxIn ==
  ASSUME NEW n \in Nat, NEW S \in SUBSET (1 .. n), S # {}
  PROVE  Max(S) \in S /\ Max(S) \in 1 .. n
<1> DEFINE T == {m \in Nat : \A s \in SUBSET (1 .. m) : s # {} => \E x \in s : \A y \in s : x >= y}
<1>1. 0 \in T
  <2>1. \A s \in SUBSET (1 .. 0) : s = {}
    OBVIOUS
  <2> QED
    BY Zenon, <2>1, 0 \in Nat
<1>2. ASSUME NEW m \in Nat, m \in T PROVE m + 1 \in T
  <2>0. m + 1 \in Nat
    OBVIOUS
  <2> SUFFICES ASSUME NEW s \in SUBSET (1 .. m + 1), s # {}
               PROVE  \E x \in s : \A y \in s : x >= y
    BY Zenon, <2>0
  <2>1. CASE m + 1 \in s
    BY <2>1
  <2>2. CASE m + 1 \notin s
    <3>1. s \in SUBSET (1 .. m)
      BY <2>2
    <3> QED
      BY Zenon, <1>2, <3>1
  <2> QED
    BY <2>1, <2>2
<1> HIDE DEF T
<1>3. Nat \subseteq T
  BY <1>1, <1>2, SetInduction
<1>4. \E x \in S : \A y \in S : x >= y
  BY <1>3 DEF T
<1> QED
  BY <1>4 DEF Max

\* The folds of sequences: the function that MapThenFoldSet is defined by.
IsFold(f, b, n, F) ==
  f = [s \in SUBSET (1 .. n) |-> IF s = {} THEN b ELSE F[Max(s)][f[s \ {Max(s)}]]]

\* It exists, for steps F[k] that stay in a set V.
LEMMA FoldExists ==
  ASSUME NEW V, NEW b \in V, NEW n \in Nat, NEW F,
         \A k \in 1 .. n : F[k] \in [V -> V]
  PROVE  \E f \in [SUBSET (1 .. n) -> V] : IsFold(f, b, n, F)
<1> DEFINE S == {m \in Nat : m <= n => \E f \in [SUBSET (1 .. m) -> V] : IsFold(f, b, m, F)}
<1>1. 0 \in S
  <2> DEFINE f == [s \in SUBSET (1 .. 0) |-> b]
  <2>1. 1 .. 0 = {} /\ \A s \in SUBSET (1 .. 0) : s = {}
    OBVIOUS
  <2>2. IsFold(f, b, 0, F)
    BY <2>1 DEF IsFold
  <2> QED
    BY <2>2
<1>2. ASSUME NEW m \in Nat, m \in S PROVE m + 1 \in S
  <2>0. m + 1 \in Nat /\ (m + 1 <= n => m <= n)
    OBVIOUS
  <2> SUFFICES ASSUME m + 1 <= n
               PROVE  \E g \in [SUBSET (1 .. m + 1) -> V] : IsFold(g, b, m + 1, F)
    BY Zenon, <2>0
  <2>1. PICK f \in [SUBSET (1 .. m) -> V] : IsFold(f, b, m, F)
    BY Zenon, <1>2, <2>0
  <2> DEFINE g == [s \in SUBSET (1 .. m + 1) |->
                     IF m + 1 \in s THEN F[m + 1][f[s \ {m + 1}]] ELSE f[s]]
  <2>2. ASSUME NEW s \in SUBSET (1 .. m + 1), m + 1 \notin s
        PROVE  s \in SUBSET (1 .. m)
    BY <2>2
  <2>3. \A s \in SUBSET (1 .. m + 1) : s \ {m + 1} \in SUBSET (1 .. m)
    OBVIOUS
  <2>4. g \in [SUBSET (1 .. m + 1) -> V]
    <3>1. m + 1 \in 1 .. n
      OBVIOUS
    <3>2. F[m + 1] \in [V -> V]
      BY <3>1
    <3> QED
      BY <2>2, <2>3, <3>2
  <2>5. ASSUME NEW s \in SUBSET (1 .. m + 1)
        PROVE  g[s] = IF s = {} THEN b ELSE F[Max(s)][g[s \ {Max(s)}]]
    <3>1. CASE m + 1 \in s
      <4>1. Max(s) = m + 1
        BY <3>1, MaxOf
      <4>2. s # {} /\ m + 1 \notin s \ {m + 1} /\ s \ {m + 1} \in SUBSET (1 .. m + 1)
        BY <3>1
      <4>3. g[s \ {m + 1}] = f[s \ {m + 1}]
        BY <4>2
      <4>4. g[s] = F[m + 1][f[s \ {m + 1}]]
        BY <3>1
      <4> HIDE DEF g
      <4> QED
        BY <4>1, <4>2, <4>3, <4>4
    <3>2. CASE m + 1 \notin s
      <4>1. s \in SUBSET (1 .. m) /\ g[s] = f[s]
        BY SMTT(40), <2>2, <3>2
      <4>2. f[s] = IF s = {} THEN b ELSE F[Max(s)][f[s \ {Max(s)}]]
        BY <2>1, <4>1 DEF IsFold
      <4>3. g[s \ {Max(s)}] = f[s \ {Max(s)}]
        <5>1. s \ {Max(s)} \in SUBSET (1 .. m + 1) /\ m + 1 \notin s \ {Max(s)}
          BY <3>2
        <5> QED
          BY <5>1
      <4> HIDE DEF g
      <4> QED
        BY <4>1, <4>2, <4>3
    <3> QED
      BY <3>1, <3>2
  <2>6. g = [s \in SUBSET (1 .. m + 1) |-> g[s]]
    OBVIOUS
  <2> HIDE DEF g
  <2>7. IsFold(g, b, m + 1, F)
    BY <2>5, <2>6 DEF IsFold
  <2> QED
    BY <2>4, <2>7
<1> HIDE DEF S
<1>3. Nat \subseteq S
  BY <1>1, <1>2, SetInduction
<1> QED
  BY SMTT(40), <1>3 DEF S

\* The first k + 1 numbers without the last.
LEMMA Interval ==
  ASSUME NEW k \in Nat
  PROVE  /\ 1 .. 0 = {} /\ 1 .. (k + 1) # {} /\ Max(1 .. (k + 1)) = k + 1
         /\ (1 .. (k + 1)) \ {k + 1} = 1 .. k
<1>1. k + 1 \in 1 .. (k + 1) /\ \A y \in 1 .. (k + 1) : k + 1 >= y
  OBVIOUS
<1>2. Max(1 .. (k + 1)) = k + 1
  BY <1>1, MaxOf
<1> QED
  BY <1>1, <1>2

(***************************************************************************)
(* The units in the order of the log.                                      *)
(***************************************************************************)
WType == [compressed : BOOLEAN, file : Seq(Seq(LogUnit)), blockBuf : Seq(LogUnit),
          entryCount : Nat, flushed : BOOLEAN, maxEntriesPerBlock : Nat, headerMax : Nat]
LIEntry == [id : Nat, type : {"put", "delete"}, key : Seq(Nat), klen : Nat, vlen : Nat]
Size(es, i) == Prelude + es[i].klen + es[i].vlen
UnitOf(es) == {u \in LogUnit : u[1] \in DOMAIN es /\ u[2] \in 1 .. Size(es, u[1])}

\* The unit after u, and the one after the units of b.
Succ(es, u) == IF u[2] < Size(es, u[1]) THEN <<u[1], u[2] + 1>> ELSE <<u[1] + 1, 1>>
After(es, b) == Succ(es, b[Len(b)])
LogEnd(es) == <<Len(es) + 1, 1>>

\* Consecutive units.
Chain(es, b) == /\ b \in Seq(UnitOf(es)) /\ b # << >>
                /\ \A k \in 1 .. Len(b) - 1 : b[k + 1] = Succ(es, b[k])

\* What BlocksParse says of a chain.
Parses(b) == /\ b[Len(b)][2] # 1
             /\ b[1][2] # 1 => \A k \in 1 .. Len(b) : b[k][1] = b[1][1]

FileEnd(es, f) == IF f = << >> THEN <<1, 1>> ELSE After(es, f[Len(f)])

\* Block p parses, and continues the one before.
BlockOK(es, l, p) ==
  /\ Chain(es, l.file[p]) /\ Parses(l.file[p]) /\ Len(l.file[p]) <= BlockSize
  /\ l.file[p][1] = IF p = 1 THEN <<1, 1>> ELSE After(es, l.file[p - 1])
  /\ l.file[p][1][2] = 1 =>
       l.file[p][Len(l.file[p])][1] - l.file[p][1][1] < l.maxEntriesPerBlock

\* The blocks of the file and the block buffer, when u is the next unit.
Writing(es, l, u) ==
  /\ l \in WType
  /\ \A p \in 1 .. Len(l.file) : BlockOK(es, l, p)
  /\ Len(l.blockBuf) <= BlockSize
  /\ IF l.blockBuf = << >> THEN u = FileEnd(es, l.file)
     ELSE /\ Chain(es, l.blockBuf)
          /\ l.blockBuf[1] = FileEnd(es, l.file)
          /\ u = After(es, l.blockBuf)

\* Between two calls of log_add.
WriterOK(es, l) ==
  /\ Writing(es, l, LogEnd(es))
  /\ l.blockBuf # << >> =>
       /\ l.blockBuf[1][2] = 1 /\ l.blockBuf[Len(l.blockBuf)][2] # 1
       /\ l.blockBuf[Len(l.blockBuf)][1] - l.blockBuf[1][1] < l.entryCount

\* In log_add of the last entry of es, after k units.
NextOf(es, k) == IF k < Size(es, Len(es)) THEN <<Len(es), k + 1>> ELSE LogEnd(es)
AddingOK(es, l, k) ==
  /\ Writing(es, l, NextOf(es, k))
  /\ k <= 2 => Len(l.blockBuf) + 2 - k <= BlockSize
  /\ k = 0 => l.entryCount > 0
  /\ k > 0 => l.blockBuf # << >> /\ l.blockBuf[Len(l.blockBuf)] = <<Len(es), k>>
  /\ l.blockBuf # << >> =>
       \/ l.blockBuf[1][2] = 1 /\ Len(es) - l.blockBuf[1][1] < l.entryCount
       \/ /\ l.flushed /\ k > 0
          /\ l.blockBuf[1][2] # 1
          /\ \A j \in 1 .. Len(l.blockBuf) : l.blockBuf[j][1] = Len(es)

\* A log without compression has no blocks: its file is one chain.
PlainType == [compressed : BOOLEAN, file : Seq(LogUnit), blockBuf : Seq(LogUnit),
              entryCount : Nat, flushed : BOOLEAN, maxEntriesPerBlock : Nat, headerMax : Nat]
PlainOK(es, l) ==
  /\ l \in PlainType /\ l.blockBuf = << >> /\ l.maxEntriesPerBlock = 0 /\ l.headerMax = 0
  /\ l.file = << >> => es = << >>
  /\ l.file # << >> => /\ Chain(es, l.file) /\ l.file[1] = <<1, 1>>
                       /\ After(es, l.file) = LogEnd(es)

\* The log in every phase.
WriterInv ==
  /\ phase \in {"write", "scan", "read"}
  /\ entries \in Seq(LIEntry) /\ Len(entries) <= MaxEntries
  /\ \A i \in 1 .. Len(entries) : entries[i].id = i /\ entries[i].klen = Len(entries[i].key)
  /\ w.compressed \in BOOLEAN
  /\ IF w.compressed THEN WriterOK(entries, w) ELSE PlainOK(entries, w)
  /\ w.maxEntriesPerBlock <= Len(entries) /\ w.entryCount <= Len(entries)
  /\ w.headerMax <= Len(entries)
  /\ phase # "write" => /\ entries # << >> /\ w.blockBuf = << >>
                        /\ ~StaleHeaders => w.headerMax = w.maxEntriesPerBlock

(***************************************************************************)
(* The iterator.                                                           *)
(***************************************************************************)
\* The fields of a sparkey_logiter.
LIter == [blockPosition : Nat, nextBlockPosition : Nat, blockOffset : Nat, entryCount : Int,
          entryBlockPosition : Nat, entryBlockOffset : Nat,
          state : {"new", "active", "closed", "invalid"}, type : {"put", "delete"},
          keylen : Nat, valuelen : Nat, keyRemaining : Nat, valueRemaining : Nat]

\* The fields of an iterator that say where it is.
RangeOK(it) ==
  /\ it \in LIter
  /\ it.blockPosition \in 0 .. Len(w.file) /\ it.nextBlockPosition \in 1 .. DataEnd
  /\ it.blockOffset \in 0 .. Len(Block(it))
  /\ it.blockPosition # 0 => it.nextBlockPosition = NextBlock(it.blockPosition)
  /\ it.keyRemaining <= it.keylen /\ it.valueRemaining <= it.valuelen

\* The unit that it reads next.
NextUnit(it) == IF Available(it) > 0 THEN Block(it)[it.blockOffset + 1]
                ELSE IF it.nextBlockPosition >= DataEnd THEN LogEnd(entries)
                ELSE BlockAt(it.nextBlockPosition)[1]

\* Unit k of entry a, or the one after the entry.
Canon(a, k) == IF k <= Size(entries, a) THEN <<a, k>> ELSE <<a + 1, 1>>

\* The iterator is in the block in which entry a begins and has not left it.
AtHome(it, a) == /\ it.blockPosition = it.entryBlockPosition
                 /\ it.entryCount = a - Block(it)[1][1]

\* Entry a spans blocks, and the iterator is in one of them.
Away(it, a) ==
  LET home == BlockAt(it.entryBlockPosition)
  IN  /\ w.compressed
      /\ home[Len(home)][1] = a /\ home[Len(home)][2] < Size(entries, a)
      /\ \/ it.blockPosition = it.entryBlockPosition
         \/ it.blockPosition # 0 /\ Block(it)[1][1] = a /\ Block(it)[1][2] # 1

\* How much of its entry has been read.
Read(it) == it.keylen - it.keyRemaining + it.valuelen - it.valueRemaining

\* An active iterator: it is on entry a, and reads next what it has not read of it.
OnEntry(it, a) ==
  /\ a \in DOMAIN entries
  /\ it.type = entries[a].type /\ it.keylen = entries[a].klen /\ it.valuelen = entries[a].vlen
  /\ it.keyRemaining > 0 => it.valueRemaining = it.valuelen
  /\ NextUnit(it) = Canon(a, Prelude + Read(it) + 1)
  /\ it.entryBlockPosition \in 1 .. Len(w.file)
  /\ it.entryBlockOffset \in Prelude .. Len(BlockAt(it.entryBlockPosition))
  /\ BlockAt(it.entryBlockPosition)[it.entryBlockOffset] = <<a, Prelude>>
  /\ BlockAt(it.entryBlockPosition)[1][2] = 1
  /\ ~w.compressed => BlockAt(it.entryBlockPosition)[1][1] = a
  /\ AtHome(it, a) \/ Away(it, a)

\* A new iterator: entry j is next, or the end of the log.
BeforeEntry(it, j) ==
  /\ j \in 1 .. Len(entries) + 1
  /\ NextUnit(it) = <<j, 1>>
  /\ Available(it) > 0 => it.entryCount = j - Block(it)[1][1] - 1 /\ Block(it)[1][2] = 1

\* The iterator is on entry a, or has a entries behind it, or is closed.
IterOK(it, a) ==
  /\ RangeOK(it) /\ a \in 0 .. Len(entries) + 1
  /\ it.state = "active" => OnEntry(it, a)
  /\ it.state = "new" => BeforeEntry(it, a + 1)
  /\ it.state = "closed" => a = Len(entries) + 1

\* v is the address of entry i: the entry begins in block p, after n others.
AddressOK(v, i) ==
  \E p \in 1 .. Len(w.file), n \in 0 .. i - 1 :
    /\ v = Address(p, n) /\ n < 2^EntryBlockBits /\ (~w.compressed => n = 0)
    /\ BlockAt(p)[1] = <<i - n, 1>>
    /\ \E k \in 1 .. Len(BlockAt(p)) : BlockAt(p)[k] = <<i, Prelude>>
IndexOK(i) == AddressOK(index[i], i)

(***************************************************************************)
(* Chains.                                                                 *)
(***************************************************************************)

\* An entry has its two lengths at least.
LEMMA SizeType ==
  ASSUME NEW es \in Seq(LIEntry), NEW i \in 1 .. Len(es)
  PROVE  Size(es, i) \in Nat /\ Size(es, i) >= 2
<1>1. es[i] \in LIEntry
  OBVIOUS
<1>2. es[i].klen \in Nat /\ es[i].vlen \in Nat
  BY <1>1 DEF LIEntry
<1> QED
  BY <1>2 DEF Size, Prelude

\* A unit of the entries is a pair of numbers.
LEMMA UnitFacts ==
  ASSUME NEW es \in Seq(LIEntry), NEW u \in UnitOf(es)
  PROVE  /\ u \in LogUnit /\ u = <<u[1], u[2]>> /\ u[1] \in Nat /\ u[2] \in Nat
         /\ u[1] \in 1 .. Len(es) /\ u[2] \in 1 .. Size(es, u[1])
         /\ Size(es, u[1]) \in Nat /\ Size(es, u[1]) >= 2
         /\ Succ(es, u) \in LogUnit
<1>1. u \in LogUnit /\ u[1] \in 1 .. Len(es) /\ u[2] \in 1 .. Size(es, u[1])
  BY DEF UnitOf
<1>2. u[1] \in Nat /\ u[2] \in Nat /\ u = <<u[1], u[2]>>
  BY <1>1 DEF LogUnit
<1>3. Size(es, u[1]) \in Nat /\ Size(es, u[1]) >= 2
  BY <1>1, SizeType
<1> QED
  BY <1>1, <1>2, <1>3 DEF Succ, LogUnit

\* The elements of a chain.
LEMMA ChainFacts ==
  ASSUME NEW es \in Seq(LIEntry), NEW b, Chain(es, b)
  PROVE  /\ b \in Seq(LogUnit) /\ b # << >> /\ Len(b) \in Nat /\ Len(b) >= 1
         /\ \A k \in 1 .. Len(b) : b[k] \in UnitOf(es)
         /\ \A k \in 1 .. Len(b) - 1 : b[k + 1] = Succ(es, b[k])
         /\ b[1] \in UnitOf(es) /\ b[Len(b)] \in UnitOf(es)
<1>1. b \in Seq(UnitOf(es)) /\ b # << >>
  BY DEF Chain
<1>2. Len(b) \in Nat /\ Len(b) >= 1 /\ \A k \in 1 .. Len(b) : b[k] \in UnitOf(es)
  BY <1>1
<1>3. UnitOf(es) \subseteq LogUnit
  BY DEF UnitOf
<1>4. b \in Seq(LogUnit)
  BY <1>1, <1>3
<1>5. 1 \in 1 .. Len(b) /\ Len(b) \in 1 .. Len(b)
  BY <1>2
<1> QED
  BY <1>1, <1>2, <1>4, <1>5 DEF Chain

\* One unit more.
LEMMA ChainAppend ==
  ASSUME NEW es \in Seq(LIEntry), NEW b, NEW u \in UnitOf(es),
         b = << >> \/ (Chain(es, b) /\ u = After(es, b))
  PROVE  /\ Chain(es, Append(b, u)) /\ Append(b, u)[Len(Append(b, u))] = u
         /\ b # << >> => Append(b, u)[1] = b[1]
         /\ b = << >> => Append(b, u)[1] = u
         /\ Len(Append(b, u)) = Len(b) + 1
<1>1. CASE b = << >>
  <2>1. Append(b, u) = <<u>> /\ Len(b) = 0
    BY <1>1
  <2> QED
    BY <1>1, <2>1 DEF Chain
<1>2. CASE b # << >>
  <2> DEFINE c == Append(b, u)
  <2>1. /\ b \in Seq(UnitOf(es)) /\ Len(b) \in Nat /\ Len(b) >= 1 /\ Chain(es, b)
        /\ u = Succ(es, b[Len(b)])
    BY <1>2, ChainFacts DEF After, Chain
  <2>2. /\ c \in Seq(UnitOf(es)) /\ Len(c) = Len(b) + 1 /\ c # << >> /\ c[Len(b) + 1] = u
        /\ \A k \in 1 .. Len(b) : c[k] = b[k]
    BY <2>1
  <2> HIDE DEF c
  <2>3. ASSUME NEW k \in 1 .. Len(c) - 1 PROVE c[k + 1] = Succ(es, c[k])
    <3>1. k \in 1 .. Len(b) /\ c[k] = b[k] /\ (k = Len(b) \/ k \in 1 .. Len(b) - 1)
      BY <2>1, <2>2
    <3>2. CASE k = Len(b)
      BY <2>1, <2>2, <3>1, <3>2
    <3>3. CASE k \in 1 .. Len(b) - 1
      <4>1. k + 1 \in 1 .. Len(b) /\ b[k + 1] = Succ(es, b[k])
        BY <2>1, <3>3 DEF Chain
      <4> QED
        BY <2>2, <3>1, <4>1
    <3> QED
      BY <3>1, <3>2, <3>3
  <2>4. Chain(es, c)
    BY <2>2, <2>3 DEF Chain
  <2> QED
    BY <1>2, <2>1, <2>2, <2>4 DEF c
<1> QED
  BY <1>1, <1>2

\* An entry more changes nothing for the units of the others.
LEMMA SuccGrow ==
  ASSUME NEW es \in Seq(LIEntry), NEW e \in LIEntry, NEW u \in UnitOf(es)
  PROVE  u \in UnitOf(Append(es, e)) /\ Succ(Append(es, e), u) = Succ(es, u)
<1>1. u \in LogUnit /\ u[1] \in 1 .. Len(es) /\ u[2] \in 1 .. Size(es, u[1])
  BY UnitFacts
<1>2. Append(es, e)[u[1]] = es[u[1]] /\ u[1] \in DOMAIN Append(es, e)
  BY <1>1
<1>3. Size(Append(es, e), u[1]) = Size(es, u[1])
  BY <1>2 DEF Size
<1> QED
  BY <1>1, <1>2, <1>3 DEF UnitOf, Succ

\* A chain of units stays one when an entry is added to the log.
LEMMA ChainGrow ==
  ASSUME NEW es \in Seq(LIEntry), NEW e \in LIEntry, NEW b, Chain(es, b)
  PROVE  Chain(Append(es, e), b) /\ After(Append(es, e), b) = After(es, b)
<1>1. /\ b \in Seq(LogUnit) /\ b # << >> /\ Len(b) \in Nat /\ Len(b) >= 1
      /\ \A k \in 1 .. Len(b) : b[k] \in UnitOf(es)
      /\ \A k \in 1 .. Len(b) - 1 : b[k + 1] = Succ(es, b[k])
  BY ChainFacts
<1>2. \A k \in 1 .. Len(b) : /\ b[k] \in UnitOf(Append(es, e))
                             /\ Succ(Append(es, e), b[k]) = Succ(es, b[k])
  BY <1>1, SuccGrow
<1>3. b \in Seq(UnitOf(Append(es, e)))
  BY <1>1, <1>2
<1>4. \A k \in 1 .. Len(b) - 1 : k \in 1 .. Len(b)
  BY <1>1
<1>5. Len(b) \in 1 .. Len(b)
  BY <1>1
<1> QED
  BY <1>1, <1>2, <1>3, <1>4, <1>5 DEF Chain, After

(***************************************************************************)
(* The compressed log.                                                     *)
(***************************************************************************)

\* flush_compressed and compressed_add return a writer.
LEMMA FlushType ==
  ASSUME NEW l \in WType
  PROVE  FlushCompressed(l) \in WType
<1>1. Max({l.maxEntriesPerBlock, l.entryCount}) \in Nat
  BY MaxPair DEF WType
<1>2. Append(l.file, l.blockBuf) \in Seq(Seq(LogUnit)) /\ << >> \in Seq(LogUnit) /\ 0 \in Nat
  BY DEF WType
<1>3. TRUE \in BOOLEAN
  BY Zenon
<1> QED
  BY <1>1, <1>2, <1>3 DEF WType, FlushCompressed

\* compressed_add of a unit returns a writer.
LEMMA AddType ==
  ASSUME NEW l \in WType, NEW u \in LogUnit
  PROVE  CompressedAdd(l, u) \in WType
<1> DEFINE l1 == IF Len(l.blockBuf) = BlockSize THEN FlushCompressed(l) ELSE l
<1>1. l1 \in WType
  BY FlushType
<1>2. CompressedAdd(l, u) = [l1 EXCEPT !.blockBuf = Append(@, u)]
  BY DEF CompressedAdd
<1> HIDE DEF l1
<1>3. Append(l1.blockBuf, u) \in Seq(LogUnit)
  BY <1>1 DEF WType
<1> QED
  BY <1>1, <1>2, <1>3 DEF WType

\* compressed_add of a sequence of units, as log_add does it, is a step for each
\* unit: the writers f[0], f[1], ... in between exist.
LEMMA AddChain ==
  ASSUME NEW l \in WType, NEW us \in Seq(LogUnit)
  PROVE  \E G : /\ G[0] = l
                /\ \A k \in 0 .. Len(us) - 1 : G[k + 1] = CompressedAdd(G[k], us[k + 1])
                /\ FoldLeft(CompressedAdd, l, us) = G[Len(us)]
<1> DEFINE n == Len(us)
           D == DOMAIN us
           F == [k \in 1 .. n |-> [v \in WType |-> CompressedAdd(v, us[k])]]
           P(f) == f = [s \in SUBSET D |-> IF s = {} THEN l
                          ELSE CompressedAdd(f[s \ {Max(s)}], us[Max(s)])]
           f0 == CHOOSE f : P(f)
           G == [k \in 0 .. n |-> f0[1 .. k]]
<1>1. FoldLeft(CompressedAdd, l, us) = f0[D]
  BY DEF FoldLeft, MapThenFoldSet
<1>2. n \in Nat /\ D = 1 .. n /\ \A k \in 1 .. n : us[k] \in LogUnit
  OBVIOUS
<1> HIDE DEF n, D
<1>3. \A k \in 1 .. n : F[k] \in [WType -> WType]
  BY <1>2, AddType
<1>4. PICK f \in [SUBSET (1 .. n) -> WType] : IsFold(f, l, n, F)
  <2> HIDE DEF F
  <2> QED
    BY <1>2, <1>3, FoldExists
<1>5. P(f)
  <2>1. ASSUME NEW s \in SUBSET (1 .. n), s # {}
        PROVE  F[Max(s)][f[s \ {Max(s)}]] = CompressedAdd(f[s \ {Max(s)}], us[Max(s)])
    <3>1. Max(s) \in 1 .. n
      BY <1>2, <2>1, MaxIn
    <3>2. f[s \ {Max(s)}] \in WType
      OBVIOUS
    <3> QED
      BY <3>1, <3>2
  <2> HIDE DEF F
  <2>2. [s \in SUBSET D |-> IF s = {} THEN l
                          ELSE CompressedAdd(f[s \ {Max(s)}], us[Max(s)])]
        = [s \in SUBSET (1 .. n) |-> IF s = {} THEN l ELSE F[Max(s)][f[s \ {Max(s)}]]]
    BY <1>2, <2>1
  <2> QED
    BY <1>4, <2>2 DEF IsFold
<1>6. P(f0)
  <2> HIDE DEF P
  <2> QED
    BY <1>5
<1>7. G[0] = l
  <2>1. {} \in SUBSET D /\ 1 .. 0 = {} /\ 0 \in 0 .. n
    BY <1>2
  <2> HIDE DEF f0
  <2>2. f0[{}] = l
    BY Zenon, <1>6, <2>1
  <2> QED
    BY <2>1, <2>2
<1>8. ASSUME NEW k \in 0 .. n - 1
      PROVE  G[k + 1] = CompressedAdd(G[k], us[k + 1])
  <2>1. /\ k \in Nat /\ k \in 0 .. n /\ k + 1 \in 0 .. n /\ 1 .. (k + 1) \in SUBSET D
    BY <1>2
  <2> HIDE DEF f0
  <2>2. f0[1 .. (k + 1)] = CompressedAdd(f0[(1 .. (k + 1)) \ {Max(1 .. (k + 1))}], us[Max(1 .. (k + 1))])
    BY Zenon, <1>6, <2>1, Interval
  <2> QED
    BY <2>1, <2>2, Interval
<1>9. FoldLeft(CompressedAdd, l, us) = G[n]
  BY <1>1, <1>2
<1> HIDE DEF G
<1> QED
  BY <1>7, <1>8, <1>9 DEF n

\* A sequence with one more element.
LEMMA AppendFacts ==
  ASSUME NEW T, NEW s \in Seq(T), NEW x \in T
  PROVE  /\ Append(s, x) \in Seq(T) /\ Len(s) \in Nat /\ Append(s, x) # << >>
         /\ Len(Append(s, x)) = Len(s) + 1 /\ Append(s, x)[Len(s) + 1] = x
         /\ \A i \in 1 .. Len(s) : Append(s, x)[i] = s[i]
<1>1. Len(Append(s, x)) = Len(s) + 1 /\ Len(s) \in Nat /\ Append(s, x) \in Seq(T)
  OBVIOUS
<1>2. Append(s, x) # << >>
  <2> SUFFICES ASSUME Append(s, x) = << >> PROVE FALSE
    OBVIOUS
  <2>1. Len(Append(s, x)) = 0
    OBVIOUS
  <2> QED
    BY <1>1, <2>1
<1> QED
  BY <1>1, <1>2

\* What flush_compressed leaves.
LEMMA FlushFields ==
  ASSUME NEW l \in WType, NEW l2, l2 = FlushCompressed(l)
  PROVE  /\ l2 \in WType /\ l2.flushed = TRUE /\ l2.entryCount = 0 /\ l2.blockBuf = << >>
         /\ l2.file = Append(l.file, l.blockBuf)
         /\ l2.compressed = l.compressed /\ l2.headerMax = l.headerMax
         /\ l2.maxEntriesPerBlock = IF l.maxEntriesPerBlock >= l.entryCount
                                    THEN l.maxEntriesPerBlock ELSE l.entryCount
<1>1. l2 \in WType
  BY FlushType
<1>2. Max({l.maxEntriesPerBlock, l.entryCount})
        = IF l.maxEntriesPerBlock >= l.entryCount THEN l.maxEntriesPerBlock ELSE l.entryCount
  BY MaxPair DEF WType
<1> QED
  BY <1>1, <1>2 DEF WType, FlushCompressed

\* Flushing a buffer that parses keeps the log whole.
LEMMA FlushKeeps ==
  ASSUME NEW es \in Seq(LIEntry), NEW l, NEW u, Writing(es, l, u), l.blockBuf # << >>,
         Parses(l.blockBuf),
         l.blockBuf[1][2] = 1 => l.blockBuf[Len(l.blockBuf)][1] - l.blockBuf[1][1] < l.entryCount
  PROVE  Writing(es, FlushCompressed(l), u)
<1> DEFINE m == FlushCompressed(l)
           b == l.blockBuf
           n == Len(l.file)
<1>1. /\ l \in WType /\ m \in WType /\ m.blockBuf = << >>
      /\ m.file = Append(l.file, b)
      /\ m.maxEntriesPerBlock = IF l.maxEntriesPerBlock >= l.entryCount
                                THEN l.maxEntriesPerBlock ELSE l.entryCount
  BY FlushFields DEF Writing
<1>2. /\ l.file \in Seq(Seq(LogUnit)) /\ b \in Seq(LogUnit) /\ l.entryCount \in Nat
      /\ l.maxEntriesPerBlock \in Nat
  BY <1>1 DEF WType
<1>3. /\ Chain(es, b) /\ b[1] = FileEnd(es, l.file) /\ u = After(es, b) /\ Len(b) <= BlockSize
      /\ \A p \in 1 .. n : BlockOK(es, l, p)
  BY DEF Writing
<1> HIDE DEF m, b
<1>4. /\ n \in Nat /\ Len(m.file) = n + 1 /\ m.file[n + 1] = b
      /\ \A p \in 1 .. n : m.file[p] = l.file[p]
      /\ m.file # << >>
  <2> DEFINE T == Seq(LogUnit)
  <2>1. l.file \in Seq(T) /\ b \in T /\ m.file = Append(l.file, b)
    BY <1>1, <1>2
  <2> HIDE DEF T
  <2> QED
    BY <2>1, AppendFacts
<1>5. u = FileEnd(es, m.file)
  BY <1>3, <1>4 DEF FileEnd
<1>6. ASSUME NEW p \in 1 .. n PROVE BlockOK(es, m, p)
  <2>1. BlockOK(es, l, p) /\ Chain(es, l.file[p])
    BY <1>3 DEF BlockOK
  <2> DEFINE q == l.file[p]
             x == q[1][1]
             y == q[Len(q)][1]
  <2>2. x \in Nat /\ y \in Nat
    <3>1. Chain(es, q)
      BY <2>1
    <3> HIDE DEF q
    <3>2. q[1] \in UnitOf(es) /\ q[Len(q)] \in UnitOf(es)
      BY <3>1, ChainFacts
    <3> QED
      BY <3>2, UnitFacts
  <2>3. m.file[p] = l.file[p] /\ (p # 1 => m.file[p - 1] = l.file[p - 1])
    BY SMTT(40), <1>4
  <2>4. q[1][2] = 1 => y - x < m.maxEntriesPerBlock
    <3>1. q[1][2] = 1 => y - x < l.maxEntriesPerBlock
      BY <2>1 DEF BlockOK
    <3> HIDE DEF x, y
    <3> QED
      BY SMTT(40), <1>1, <1>2, <2>2, <3>1
  <2> QED
    BY <2>1, <2>3, <2>4 DEF BlockOK
<1>7. BlockOK(es, m, n + 1)
  <2>1. b[1][1] \in Nat /\ b[Len(b)][1] \in Nat
    BY <1>3, ChainFacts, UnitFacts
  <2>2. b[1][2] = 1 => b[Len(b)][1] - b[1][1] < m.maxEntriesPerBlock
    BY SMTT(40), <1>1, <1>2, <2>1 DEF b
  <2>3. b[1] = IF n + 1 = 1 THEN <<1, 1>> ELSE After(es, m.file[(n + 1) - 1])
    <3>1. CASE n = 0
      BY <1>2, <1>3, <3>1 DEF FileEnd
    <3>2. CASE n # 0
      <4>1. (n + 1) - 1 = n /\ n \in 1 .. n /\ n + 1 # 1 /\ l.file # << >>
        BY <1>2, <1>4, <3>2
      <4> QED
        BY <1>3, <1>4, <4>1 DEF FileEnd
    <3> QED
      BY <3>1, <3>2
  <2> QED
    BY <1>3, <1>4, <2>2, <2>3 DEF BlockOK, b
<1>8. \A p \in 1 .. Len(m.file) : BlockOK(es, m, p)
  BY <1>4, <1>6, <1>7
<1>9. Len(m.blockBuf) <= BlockSize
  BY <1>1, LayoutAssumption
<1> QED
  BY <1>1, <1>5, <1>8, <1>9 DEF Writing, m

\* The buffer in the middle of an entry parses.
LEMMA AddingParses ==
  ASSUME NEW es \in Seq(LIEntry), es # << >>, NEW l, NEW k \in Nat, AddingOK(es, l, k), k >= 2
  PROVE  /\ l.blockBuf # << >> /\ Chain(es, l.blockBuf) /\ Parses(l.blockBuf)
         /\ l.blockBuf[1][2] = 1 =>
              l.blockBuf[Len(l.blockBuf)][1] - l.blockBuf[1][1] < l.entryCount
<1>1. /\ l.blockBuf # << >> /\ l.blockBuf[Len(l.blockBuf)] = <<Len(es), k>>
      /\ Chain(es, l.blockBuf) /\ l \in WType
  BY DEF AddingOK, Writing
<1>2. l.blockBuf[1][1] \in Nat /\ 1 \in 1 .. Len(l.blockBuf)
  BY <1>1, ChainFacts, UnitFacts
<1> QED
  BY <1>1, <1>2 DEF AddingOK, Parses

\* compressed_add of the next unit.
LEMMA AddStep ==
  ASSUME NEW es \in Seq(LIEntry), es # << >>, NEW l, NEW k \in Nat,
         AddingOK(es, l, k), k < Size(es, Len(es))
  PROVE  AddingOK(es, CompressedAdd(l, <<Len(es), k + 1>>), k + 1)
<1> DEFINE full == Len(l.blockBuf) = BlockSize
           m == IF full THEN FlushCompressed(l) ELSE l
           n == Len(es)
           u == <<n, k + 1>>
           r == CompressedAdd(l, u)
           c == Append(m.blockBuf, u)
<1>0. /\ n \in Nat /\ n \in 1 .. Len(es) /\ Size(es, n) \in Nat /\ Size(es, n) >= 2
      /\ DOMAIN es = 1 .. n
  BY SizeType
<1>1. u \in UnitOf(es) /\ u[1] = n /\ u[2] = k + 1 /\ u \in LogUnit
  BY <1>0 DEF UnitOf, LogUnit
<1>2. l \in WType /\ Writing(es, l, u) /\ BlockSize \in Nat /\ BlockSize >= 2
  BY LayoutAssumption DEF AddingOK, Writing, NextOf, Prelude
<1>3. full => k >= 2
  <2>1. Len(l.blockBuf) \in Nat
    BY <1>2 DEF WType
  <2> QED
    BY <1>2, <2>1 DEF AddingOK
<1>4. /\ Writing(es, m, u) /\ m \in WType
      /\ Len(m.blockBuf) < BlockSize
      /\ k = 0 => m.entryCount > 0
      /\ m.blockBuf # << >> =>
           \/ m.blockBuf[1][2] = 1 /\ n - m.blockBuf[1][1] < m.entryCount
           \/ /\ m.flushed /\ k > 0
              /\ m.blockBuf[1][2] # 1
              /\ \A j \in 1 .. Len(m.blockBuf) : m.blockBuf[j][1] = n
      /\ m.blockBuf = << >> => k = 0 \/ (m.flushed /\ k >= 2)
      /\ k < 2 => Len(m.blockBuf) + 2 - k <= BlockSize
  <2>1. CASE full
    <3>1. Writing(es, m, u)
      BY <1>2, <1>3, <2>1, AddingParses, FlushKeeps
    <3>2. m \in WType /\ m.blockBuf = << >> /\ m.flushed = TRUE
      BY <1>2, <2>1, FlushFields
    <3>3. Len(m.blockBuf) = 0
      BY <3>2
    <3> HIDE DEF m, full
    <3> QED
      BY <1>2, <1>3, <2>1, <3>1, <3>2, <3>3
  <2>2. CASE ~full
    <3>1. m = l /\ Len(l.blockBuf) \in Nat /\ Len(l.blockBuf) <= BlockSize
      BY <1>2, <2>2 DEF WType, Writing
    <3>2. Len(l.blockBuf) < BlockSize
      BY <1>2, <2>2, <3>1
    <3> HIDE DEF m, full
    <3> QED
      BY <1>2, <3>1, <3>2 DEF AddingOK
  <2> QED
    BY <2>1, <2>2
<1>5. r = [m EXCEPT !.blockBuf = Append(@, u)]
  BY DEF CompressedAdd
<1> HIDE DEF m, full, r, u
<1>6. /\ m.file \in Seq(Seq(LogUnit)) /\ m.blockBuf \in Seq(LogUnit)
      /\ Len(m.blockBuf) \in Nat
  BY <1>4 DEF WType
<1>7. /\ Chain(es, c) /\ c[Len(c)] = u
      /\ m.blockBuf # << >> => c[1] = m.blockBuf[1]
      /\ m.blockBuf = << >> => c[1] = u
      /\ Len(c) = Len(m.blockBuf) + 1
  BY <1>1, <1>4, ChainAppend DEF Writing
<1>8. /\ c \in Seq(LogUnit) /\ c # << >> /\ c[1] = FileEnd(es, m.file)
      /\ \A j \in 1 .. Len(m.blockBuf) : c[j] = m.blockBuf[j]
  <2>1. c \in Seq(LogUnit) /\ \A j \in 1 .. Len(m.blockBuf) : c[j] = m.blockBuf[j]
    BY <1>1, <1>6
  <2>2. c[1] = FileEnd(es, m.file)
    <3>1. IF m.blockBuf = << >> THEN u = FileEnd(es, m.file) ELSE m.blockBuf[1] = FileEnd(es, m.file)
      BY <1>1, <1>4 DEF Writing
    <3> HIDE DEF c
    <3> QED
      BY <1>7, <3>1
  <2>3. c # << >>
    BY <1>7 DEF Chain
  <2> QED
    BY <2>1, <2>2, <2>3
<1>9. After(es, c) = NextOf(es, k + 1)
  BY <1>0, <1>1, <1>7 DEF After, NextOf, Succ, LogEnd
<1> HIDE DEF c
<1>10. /\ r \in WType /\ r.blockBuf = c /\ r.file = m.file /\ r.entryCount = m.entryCount
       /\ r.flushed = m.flushed /\ r.maxEntriesPerBlock = m.maxEntriesPerBlock
  BY <1>4, <1>5, <1>8 DEF WType, c
<1>11. \A p \in 1 .. Len(r.file) : BlockOK(es, r, p)
  BY <1>4, <1>10 DEF Writing, BlockOK
<1>12. Writing(es, r, NextOf(es, k + 1))
  BY <1>2, <1>4, <1>6, <1>7, <1>8, <1>9, <1>10, <1>11 DEF Writing
<1>13. k + 1 <= 2 => Len(c) + 2 - (k + 1) <= BlockSize
  BY SMTT(40), <1>2, <1>4, <1>6, <1>7
<1>14. \/ c[1][2] = 1 /\ n - c[1][1] < r.entryCount
       \/ /\ r.flushed /\ k + 1 > 0 /\ c[1][2] # 1
          /\ \A j \in 1 .. Len(c) : c[j][1] = n
  <2>1. CASE m.blockBuf = << >>
    <3>1. c[1] = u /\ Len(c) = 1 /\ m.entryCount \in Nat
      BY <1>4, <1>7, <2>1 DEF WType
    <3>2. CASE k = 0
      BY <1>0, <1>1, <1>4, <1>10, <3>1, <3>2
    <3>3. CASE k # 0
      BY <1>0, <1>1, <1>4, <1>10, <2>1, <3>1, <3>3
    <3> QED
      BY <3>2, <3>3
  <2>2. CASE m.blockBuf # << >>
    <3>1. c[1] = m.blockBuf[1] /\ c[Len(m.blockBuf) + 1][1] = n
      BY <1>1, <1>7, <2>2
    <3>2. \A j \in 1 .. Len(c) : j \in 1 .. Len(m.blockBuf) \/ j = Len(m.blockBuf) + 1
      BY <1>6, <1>7
    <3> QED
      BY SMTT(40), <1>4, <1>8, <1>10, <2>2, <3>1, <3>2
  <2> QED
    BY <2>1, <2>2
<1>15. k + 1 # 0 /\ c[Len(c)] = <<n, k + 1>>
  BY <1>7 DEF u
<1>16. AddingOK(es, r, k + 1)
  BY <1>8, <1>10, <1>12, <1>13, <1>14, <1>15 DEF AddingOK
<1> QED
  BY <1>16 DEF r, u

\* An entry more: what was written stays as it is.
LEMMA WritingGrow ==
  ASSUME NEW es \in Seq(LIEntry), NEW e \in LIEntry, NEW l, NEW u, Writing(es, l, u)
  PROVE  Writing(Append(es, e), l, u)
<1> DEFINE fs == Append(es, e)
<1>1. l \in WType
  BY DEF Writing
<1>2. ASSUME NEW p \in 1 .. Len(l.file) PROVE BlockOK(fs, l, p)
  <2>1. BlockOK(es, l, p) /\ (p # 1 => BlockOK(es, l, p - 1)) /\ Len(l.file) \in Nat
    <3>1. l.file \in Seq(Seq(LogUnit))
      BY <1>1 DEF WType
    <3>2. Len(l.file) \in Nat
      BY <3>1
    <3>3. p # 1 => p - 1 \in 1 .. Len(l.file)
      BY <3>2
    <3> QED
      BY <3>2, <3>3 DEF Writing
  <2>2. Chain(fs, l.file[p]) /\ (p # 1 => After(fs, l.file[p - 1]) = After(es, l.file[p - 1]))
    BY <2>1, ChainGrow DEF BlockOK
  <2> HIDE DEF fs
  <2> QED
    BY <2>1, <2>2 DEF BlockOK
<1>3. FileEnd(fs, l.file) = FileEnd(es, l.file)
  <2>1. CASE l.file = << >>
    BY <2>1 DEF FileEnd
  <2>2. CASE l.file # << >>
    <3>1. Len(l.file) \in 1 .. Len(l.file)
      BY <1>1, <2>2 DEF WType
    <3>2. Chain(es, l.file[Len(l.file)])
      BY <3>1 DEF Writing, BlockOK
    <3> QED
      BY <2>2, <3>2, ChainGrow DEF FileEnd
  <2> QED
    BY <2>1, <2>2
<1>4. l.blockBuf # << >> => /\ Chain(fs, l.blockBuf)
                            /\ After(fs, l.blockBuf) = After(es, l.blockBuf)
  BY ChainGrow DEF Writing
<1> HIDE DEF fs
<1>5. Writing(fs, l, u)
  BY <1>1, <1>2, <1>3, <1>4 DEF Writing
<1> QED
  BY <1>5 DEF fs

\* The units of the entry that is added.
LEMMA UnitsOf ==
  ASSUME NEW es \in Seq(LIEntry), NEW e \in LIEntry, e.id = Len(es) + 1
  PROVE  LET fs == Append(es, e)
         IN  /\ EntryUnits(e) \in Seq(LogUnit) /\ fs \in Seq(LIEntry) /\ fs # << >>
             /\ Len(fs) = Len(es) + 1 /\ Len(es) \in Nat
             /\ Len(EntryUnits(e)) = Size(fs, Len(fs)) /\ Size(fs, Len(fs)) \in Nat
             /\ Size(fs, Len(fs)) >= 2
             /\ \A k \in 1 .. Size(fs, Len(fs)) : EntryUnits(e)[k] = <<Len(fs), k>>
<1> DEFINE fs == Append(es, e)
           n == Prelude + e.klen + e.vlen
<1>1. /\ fs \in Seq(LIEntry) /\ fs # << >> /\ Len(fs) = Len(es) + 1 /\ Len(es) \in Nat
      /\ fs[Len(fs)] = e
  <2>1. /\ fs \in Seq(LIEntry) /\ fs # << >> /\ Len(fs) = Len(es) + 1 /\ Len(es) \in Nat
        /\ fs[Len(es) + 1] = e
    BY AppendFacts
  <2> QED
    BY <2>1
<1>2. n \in Nat /\ n >= 2 /\ Size(fs, Len(fs)) = n
  <2>1. e.klen \in Nat /\ e.vlen \in Nat
    BY DEF LIEntry
  <2>2. Size(fs, Len(fs)) = n
    BY <1>1 DEF Size
  <2> QED
    BY <2>1, <2>2 DEF Prelude
<1>3. EntryUnits(e) = [i \in 1 .. n |-> <<Len(fs), i>>]
  BY <1>1 DEF EntryUnits
<1> HIDE DEF n, fs
<1>4. [i \in 1 .. n |-> <<Len(fs), i>>] \in [1 .. n -> LogUnit]
  BY <1>1, <1>2 DEF LogUnit
<1>5. EntryUnits(e) \in Seq(LogUnit) /\ Len(EntryUnits(e)) = n
  BY <1>2, <1>3, <1>4
<1>6. \A k \in 1 .. n : EntryUnits(e)[k] = <<Len(fs), k>>
  BY <1>3
<1> QED
  BY <1>1, <1>2, <1>5, <1>6 DEF fs

\* The counters of the writer.
Counters(l, m, N) == /\ m.compressed = l.compressed /\ m.headerMax = l.headerMax
                     /\ l.entryCount <= N /\ l.maxEntriesPerBlock <= N =>
                          m.entryCount <= N /\ m.maxEntriesPerBlock <= N

\* The counters of entries never pass the number of entries in the log.
LEMMA FlushCounters ==
  ASSUME NEW l \in WType, NEW N \in Nat
  PROVE  Counters(l, FlushCompressed(l), N)
<1> DEFINE m == FlushCompressed(l)
<1>1. /\ m.entryCount = 0 /\ m.compressed = l.compressed /\ m.headerMax = l.headerMax
      /\ m.maxEntriesPerBlock = IF l.maxEntriesPerBlock >= l.entryCount
                                THEN l.maxEntriesPerBlock ELSE l.entryCount
  BY FlushFields
<1> HIDE DEF m
<1>2. Counters(l, m, N)
  BY <1>1 DEF Counters, WType
<1> QED
  BY <1>2 DEF m

\* compressed_add leaves the counters within that bound too.
LEMMA AddCounters ==
  ASSUME NEW l \in WType, NEW N \in Nat, NEW u \in LogUnit
  PROVE  Counters(l, CompressedAdd(l, u), N)
<1> DEFINE m == IF Len(l.blockBuf) = BlockSize THEN FlushCompressed(l) ELSE l
<1>1. m \in WType /\ Counters(l, m, N)
  BY FlushType, FlushCounters DEF Counters
<1>2. CompressedAdd(l, u) = [m EXCEPT !.blockBuf = Append(@, u)]
  BY DEF CompressedAdd
<1> HIDE DEF m
<1> QED
  BY <1>1, <1>2 DEF Counters, WType

\* log_add keeps the compressed log whole.
LEMMA LogAddKeeps ==
  ASSUME NEW es \in Seq(LIEntry), NEW e \in LIEntry, e.id = Len(es) + 1, NEW l, WriterOK(es, l)
  PROVE  /\ WriterOK(Append(es, e), LogAdd(l, EntryUnits(e)))
         /\ LogAdd(l, EntryUnits(e)).compressed = l.compressed
         /\ LogAdd(l, EntryUnits(e)).headerMax = l.headerMax
         /\ l.entryCount <= Len(es) /\ l.maxEntriesPerBlock <= Len(es) =>
              /\ LogAdd(l, EntryUnits(e)).entryCount <= Len(es) + 1
              /\ LogAdd(l, EntryUnits(e)).maxEntriesPerBlock <= Len(es) + 1
<1> DEFINE fs == Append(es, e)
           us == EntryUnits(e)
           n == Len(us)
           id == Len(fs)
           need == NeedsNewBlock(l, n)
           l1 == IF need THEN FlushCompressed(l) ELSE l
           l2 == [l1 EXCEPT !.entryCount = @ + 1, !.flushed = FALSE]
           l3 == FoldLeft(CompressedAdd, l2, us)
           l4 == IF l3.flushed /\ l3.blockBuf # << >> THEN FlushCompressed(l3) ELSE l3
<1>1. LogAdd(l, us) = l4
  BY DEF LogAdd
<1>2. /\ us \in Seq(LogUnit) /\ fs \in Seq(LIEntry) /\ fs # << >>
      /\ id = Len(es) + 1 /\ Len(es) \in Nat /\ id \in Nat /\ id # 0
      /\ n = Size(fs, id) /\ n \in Nat /\ n >= 2
      /\ \A k \in 1 .. n : us[k] = <<id, k>>
  BY UnitsOf
<1>3. l \in WType /\ Writing(fs, l, <<id, 1>>) /\ BlockSize \in Nat /\ BlockSize >= 2
  <2>1. Writing(es, l, <<id, 1>>)
    BY <1>2 DEF WriterOK, LogEnd
  <2>2. Writing(fs, l, <<id, 1>>)
    BY <2>1, WritingGrow
  <2>3. l \in WType
    BY <2>1 DEF Writing
  <2> QED
    BY <2>2, <2>3, LayoutAssumption DEF Prelude
<1>4. l.blockBuf \in Seq(LogUnit) /\ Len(l.blockBuf) \in Nat /\ Len(l.blockBuf) <= BlockSize
  BY <1>3 DEF WType, Writing
<1>5. l.blockBuf # << >> => /\ Chain(fs, l.blockBuf) /\ Parses(l.blockBuf)
                            /\ l.blockBuf[1][2] = 1
                            /\ l.blockBuf[1][1] \in Nat
                            /\ id - l.blockBuf[1][1] < l.entryCount + 1
  <2> SUFFICES ASSUME l.blockBuf # << >>
               PROVE  /\ Chain(fs, l.blockBuf) /\ Parses(l.blockBuf)
                      /\ l.blockBuf[1][2] = 1 /\ l.blockBuf[1][1] \in Nat
                      /\ id - l.blockBuf[1][1] < l.entryCount + 1
    OBVIOUS
  <2> DEFINE b == l.blockBuf
             x == b[1][1]
             y == b[Len(b)][1]
  <2>1. Chain(fs, b) /\ b[1][2] = 1 /\ b[Len(b)][2] # 1 /\ y - x < l.entryCount
    BY <1>3 DEF Writing, WriterOK
  <2>2. After(fs, b) = <<id, 1>>
    BY <1>3 DEF Writing
  <2>3. b[Len(b)] \in UnitOf(fs) /\ b[1] \in UnitOf(fs)
    BY <1>2, <2>1, ChainFacts
  <2>4. x \in Nat /\ y \in Nat /\ b[Len(b)][2] \in Nat /\ b[Len(b)][2] >= 1
    <3> HIDE DEF fs, b
    <3>1. ASSUME NEW v \in UnitOf(fs) PROVE v[1] \in Nat /\ v[2] \in Nat /\ v[2] >= 1
      BY <1>2, UnitFacts
    <3> QED
      BY <2>3, <3>1
  <2>5. y + 1 = id
    <3>1. After(fs, b) = <<y, b[Len(b)][2] + 1>> \/ After(fs, b) = <<y + 1, 1>>
      BY DEF After, Succ
    <3> HIDE DEF y, b
    <3> QED
      BY <2>2, <2>4, <3>1
  <2>6. id - x < l.entryCount + 1
    <3>1. l.entryCount \in Nat
      BY <1>3 DEF WType
    <3> HIDE DEF x, y
    <3> QED
      BY <1>2, <2>1, <2>4, <2>5, <3>1
  <2> QED
    BY <2>1, <2>4, <2>6 DEF Parses
<1>6. need => l.blockBuf # << >>
  <2> SUFFICES ASSUME need, l.blockBuf = << >> PROVE FALSE
    OBVIOUS
  <2>1. Len(l.blockBuf) = 0
    OBVIOUS
  <2> QED
    BY <1>2, <1>3, <2>1 DEF NeedsNewBlock, Prelude
<1>7. /\ l1 \in WType /\ Writing(fs, l1, <<id, 1>>)
      /\ Len(l1.blockBuf) + 2 <= BlockSize
      /\ l1.blockBuf # << >> => l1.blockBuf[1][2] = 1 /\ id - l1.blockBuf[1][1] < l1.entryCount + 1
      /\ Counters(l, l1, Len(es))
  <2>1. CASE need
    <3>1. l.blockBuf[Len(l.blockBuf)][1] - l.blockBuf[1][1] < l.entryCount
      BY <1>6, <2>1 DEF WriterOK
    <3>2. Writing(fs, l1, <<id, 1>>)
      BY <1>2, <1>3, <1>5, <1>6, <2>1, <3>1, FlushKeeps
    <3>3. l1 \in WType /\ l1.blockBuf = << >> /\ Counters(l, l1, Len(es))
      BY <1>2, <1>3, <2>1, FlushFields, FlushCounters
    <3>4. Len(l1.blockBuf) = 0
      BY <3>3
    <3> HIDE DEF l1
    <3> QED
      BY <1>3, <3>2, <3>3, <3>4
  <2>2. CASE ~need
    <3>1. l1 = l
      BY <2>2
    <3>2. Len(l.blockBuf) + 2 <= BlockSize
      BY <1>3, <1>4, <2>2 DEF NeedsNewBlock, Prelude
    <3> HIDE DEF l1, need
    <3> QED
      BY <1>3, <1>5, <3>1, <3>2 DEF Counters
  <2> QED
    BY <2>1, <2>2
<1> HIDE DEF l1, us, fs, n, id, need
<1>8. /\ l2 \in WType /\ l2.entryCount = l1.entryCount + 1 /\ l2.blockBuf = l1.blockBuf
      /\ l2.file = l1.file /\ l2.maxEntriesPerBlock = l1.maxEntriesPerBlock /\ l2.flushed = FALSE
      /\ l2.compressed = l1.compressed /\ l2.headerMax = l1.headerMax
  <2>1. FALSE \in BOOLEAN
    BY Zenon
  <2>2. l1.entryCount + 1 \in Nat
    BY <1>7 DEF WType
  <2>3. l2 \in WType
    BY <1>7, <2>1, <2>2 DEF WType
  <2> QED
    BY <1>7, <2>3 DEF WType
<1> HIDE DEF l2
<1>9. AddingOK(fs, l2, 0)
  <2>1. l1.entryCount \in Nat
    BY <1>7 DEF WType
  <2>2. Writing(fs, l2, <<id, 1>>)
    BY <1>7, <1>8 DEF Writing, BlockOK
  <2>3. NextOf(fs, 0) = <<id, 1>>
    BY <1>2 DEF NextOf, id
  <2>4. Len(l2.blockBuf) + 2 - 0 <= BlockSize
    <3>1. Len(l1.blockBuf) \in Nat
      BY <1>7 DEF WType
    <3> QED
      BY <1>3, <1>7, <1>8, <3>1
  <2>5. l2.entryCount > 0
    BY <1>8, <2>1
  <2> QED
    BY <1>7, <1>8, <2>2, <2>3, <2>4, <2>5 DEF AddingOK, id
<1>10. PICK G : /\ G[0] = l2
                /\ \A k \in 0 .. n - 1 : G[k + 1] = CompressedAdd(G[k], us[k + 1])
                /\ FoldLeft(CompressedAdd, l2, us) = G[n]
  BY <1>2, <1>8, AddChain DEF n
<1> DEFINE S == {k \in Nat : k <= n => /\ AddingOK(fs, G[k], k) /\ G[k] \in WType
                                       /\ Counters(l2, G[k], id)}
<1>11. 0 \in S
  BY <1>8, <1>9, <1>10 DEF Counters
<1>12. ASSUME NEW k \in Nat, k \in S PROVE k + 1 \in S
  <2>0. k + 1 \in Nat /\ (k + 1 <= n => k <= n /\ k < n /\ k \in 0 .. n - 1 /\ k + 1 \in 1 .. n)
    BY <1>2
  <2> SUFFICES ASSUME k + 1 <= n
               PROVE  /\ AddingOK(fs, G[k + 1], k + 1) /\ G[k + 1] \in WType
                      /\ Counters(l2, G[k + 1], id)
    BY Zenon, <2>0
  <2>1. AddingOK(fs, G[k], k) /\ G[k] \in WType /\ Counters(l2, G[k], id)
    BY Zenon, <1>12, <2>0
  <2>2. G[k + 1] = CompressedAdd(G[k], <<id, k + 1>>)
    BY <1>2, <1>10, <2>0
  <2>3. AddingOK(fs, G[k + 1], k + 1)
    BY <1>2, <2>0, <2>1, <2>2, AddStep DEF id
  <2>4. <<id, k + 1>> \in LogUnit
    BY <1>2 DEF LogUnit
  <2>5. G[k + 1] \in WType /\ Counters(G[k], G[k + 1], id)
    BY <1>2, <2>1, <2>2, <2>4, AddType, AddCounters
  <2> QED
    BY <2>1, <2>3, <2>5 DEF Counters
<1> HIDE DEF S
<1>13. Nat \subseteq S
  BY <1>11, <1>12, SetInduction
<1>14. AddingOK(fs, l3, n) /\ l3 \in WType /\ Counters(l2, l3, id)
  <2>1. n <= n /\ l3 = G[n]
    BY <1>2, <1>10
  <2> QED
    BY <1>2, <1>13, <2>1 DEF S
<1> HIDE DEF l3
<1>15. NextOf(fs, n) = LogEnd(fs)
  BY <1>2 DEF NextOf, id
<1>16. Writing(fs, l3, LogEnd(fs))
  BY <1>14, <1>15 DEF AddingOK
<1>17. /\ l3.blockBuf # << >> /\ Chain(fs, l3.blockBuf) /\ Parses(l3.blockBuf)
       /\ l3.blockBuf[1][2] = 1 =>
            l3.blockBuf[Len(l3.blockBuf)][1] - l3.blockBuf[1][1] < l3.entryCount
  BY <1>2, <1>14, AddingParses
<1>18. WriterOK(fs, l4) /\ l4 \in WType /\ Counters(l3, l4, id)
  <2>1. CASE l3.flushed
    <3>1. l4 = FlushCompressed(l3)
      BY <1>17, <2>1
    <3>2. Writing(fs, l4, LogEnd(fs))
      BY <1>2, <1>16, <1>17, <3>1, FlushKeeps
    <3>3. l4.blockBuf = << >> /\ l4 \in WType /\ Counters(l3, l4, id)
      BY <1>2, <1>14, <3>1, FlushFields, FlushCounters
    <3> HIDE DEF l4
    <3> QED
      BY <3>2, <3>3 DEF WriterOK
  <2>2. CASE ~l3.flushed
    <3>1. l4 = l3
      BY <2>2
    <3>2. l3.blockBuf[1][2] = 1
      BY <1>14, <1>17, <2>2 DEF AddingOK
    <3> HIDE DEF l4
    <3> QED
      BY <1>14, <1>16, <1>17, <3>1, <3>2 DEF WriterOK, Parses, Counters
  <2> QED
    BY <2>1, <2>2
<1> HIDE DEF l4
<1>19. /\ l4.compressed = l.compressed /\ l4.headerMax = l.headerMax
       /\ l.entryCount <= Len(es) /\ l.maxEntriesPerBlock <= Len(es) =>
              l4.entryCount <= id /\ l4.maxEntriesPerBlock <= id
  <2>1. /\ l.entryCount \in Nat /\ l.maxEntriesPerBlock \in Nat
        /\ l1.entryCount \in Nat /\ l1.maxEntriesPerBlock \in Nat
    BY <1>3, <1>7 DEF WType
  <2>2. l.entryCount <= Len(es) /\ l.maxEntriesPerBlock <= Len(es) =>
          l2.entryCount <= id /\ l2.maxEntriesPerBlock <= id
    BY SMTT(40), <1>2, <1>7, <1>8, <2>1 DEF Counters
  <2> QED
    BY <1>7, <1>8, <1>14, <1>18, <2>2 DEF Counters
<1> QED
  BY <1>1, <1>2, <1>18, <1>19 DEF us, fs

(***************************************************************************)
(* The uncompressed log.                                                   *)
(***************************************************************************)

\* The units of an entry behind a chain that ends before it.
LEMMA PlainAdd ==
  ASSUME NEW es \in Seq(LIEntry), NEW e \in LIEntry, e.id = Len(es) + 1, NEW l, PlainOK(es, l)
  PROVE  PlainOK(Append(es, e), [l EXCEPT !.file = @ \o EntryUnits(e)])
<1> DEFINE fs == Append(es, e)
           us == EntryUnits(e)
           n == Len(us)
           id == Len(fs)
           b == l.file
           c == b \o us
           m == [l EXCEPT !.file = @ \o us]
<1>1. /\ us \in Seq(LogUnit) /\ fs \in Seq(LIEntry) /\ fs # << >>
      /\ id = Len(es) + 1 /\ Len(es) \in Nat /\ id \in Nat /\ id # 0
      /\ n = Size(fs, id) /\ n \in Nat /\ n >= 2
      /\ \A k \in 1 .. n : us[k] = <<id, k>>
  BY UnitsOf
<1>2. l \in PlainType /\ b \in Seq(LogUnit) /\ Len(b) \in Nat
  BY DEF PlainOK, PlainType
<1>3. b # << >> => Chain(fs, b) /\ b[1] = <<1, 1>> /\ After(fs, b) = <<id, 1>>
  BY <1>1, ChainGrow DEF PlainOK, LogEnd
<1>4. b = << >> => id = 1 /\ Len(b) = 0
  BY <1>1 DEF PlainOK
<1>5. /\ m \in PlainType /\ m.file = c /\ m.blockBuf = << >> /\ m.maxEntriesPerBlock = 0
      /\ m.headerMax = 0
  <2>1. c \in Seq(LogUnit)
    BY <1>1, <1>2
  <2> HIDE DEF us, c
  <2>2. m \in PlainType /\ m.file = c
    BY <1>2, <2>1 DEF PlainType, c
  <2>3. m.blockBuf = << >> /\ m.maxEntriesPerBlock = 0 /\ m.headerMax = 0
    BY <1>2 DEF PlainOK, PlainType
  <2> QED
    BY <2>2, <2>3
<1> HIDE DEF us, fs, n, id, m
<1>6. /\ c \in Seq(LogUnit) /\ Len(c) = Len(b) + n
      /\ \A k \in 1 .. Len(b) : c[k] = b[k]
      /\ \A k \in 1 .. n : c[Len(b) + k] = <<id, k>>
  <2>1. Len(us) = n
    BY DEF n
  <2>2. \A k \in 1 .. n : c[Len(b) + k] = us[k]
    BY <1>1, <1>2, <2>1
  <2>3. \A k \in 1 .. n : c[Len(b) + k] = <<id, k>>
    BY <1>1, <2>2
  <2> HIDE DEF b
  <2>4. c \in Seq(LogUnit) /\ Len(c) = Len(b) + Len(us) /\ \A k \in 1 .. Len(b) : c[k] = b[k]
    BY <1>1, <1>2
  <2> HIDE DEF c
  <2> QED
    BY <2>1, <2>3, <2>4
<1> HIDE DEF c, b
<1>7. \A k \in 1 .. n : <<id, k>> \in UnitOf(fs)
  BY <1>1 DEF UnitOf, LogUnit, id
<1>8. \A k \in 1 .. Len(c) : k \in 1 .. Len(b) \/ (k - Len(b) \in 1 .. n /\ k = Len(b) + (k - Len(b)))
  BY SMTT(40), <1>1, <1>2, <1>6
<1>9. \A k \in 1 .. Len(c) : c[k] \in UnitOf(fs)
  <2> SUFFICES ASSUME NEW k \in 1 .. Len(c) PROVE c[k] \in UnitOf(fs)
    OBVIOUS
  <2>1. CASE k \in 1 .. Len(b)
    <3>1. b # << >>
      BY <2>1
    <3> QED
      BY ZenonT(60), <1>1, <1>3, <1>6, <2>1, <3>1, ChainFacts
  <2>2. CASE k \notin 1 .. Len(b)
    BY ZenonT(60), <1>6, <1>7, <1>8, <2>2
  <2> QED
    BY <2>1, <2>2
<1>10. ASSUME NEW k \in 1 .. Len(c) - 1 PROVE c[k + 1] = Succ(fs, c[k])
  <2>1. CASE k \in 1 .. Len(b) - 1
    <3>1. b # << >> /\ k \in 1 .. Len(b) /\ k + 1 \in 1 .. Len(b)
      BY <1>2, <2>1
    <3> QED
      BY SMTT(40), <1>1, <1>3, <1>6, <2>1, <3>1, ChainFacts
  <2>2. CASE k = Len(b)
    <3>1. b # << >> /\ 1 \in 1 .. n /\ k \in 1 .. Len(b) /\ k + 1 = Len(b) + 1
      BY <1>1, <1>2, <2>2
    <3>2. c[k + 1] = <<id, 1>> /\ c[k] = b[Len(b)]
      BY <1>6, <2>2, <3>1
    <3> QED
      BY <1>3, <3>1, <3>2 DEF After
  <2>3. CASE k \notin 1 .. Len(b)
    <3> DEFINE j == k - Len(b)
    <3>1. j \in 1 .. n /\ j + 1 \in 1 .. n /\ k = Len(b) + j /\ k + 1 = Len(b) + (j + 1)
      BY SMTT(40), <1>1, <1>2, <1>6, <2>3
    <3>2. c[k] = <<id, j>> /\ c[k + 1] = <<id, j + 1>>
      BY <1>6, <3>1
    <3> HIDE DEF j
    <3> QED
      BY SMTT(40), <1>1, <3>1, <3>2 DEF Succ
  <2>4. k \in 1 .. Len(b) - 1 \/ k = Len(b) \/ k \notin 1 .. Len(b)
    BY <1>2
  <2> QED
    BY <2>1, <2>2, <2>3, <2>4
<1>11. c # << >> /\ Len(c) \in Nat
  BY <1>1, <1>2, <1>6
<1>12. Chain(fs, c)
  <2>1. c \in Seq(UnitOf(fs))
    BY <1>6, <1>9
  <2> QED
    BY <1>10, <1>11, <2>1 DEF Chain
<1>13. c[1] = <<1, 1>>
  <2>1. CASE b = << >>
    <3>1. Len(b) + 1 = 1 /\ 1 \in 1 .. n /\ id = 1
      BY <1>1, <1>4, <2>1
    <3> QED
      BY <1>6, <3>1
  <2>2. CASE b # << >>
    <3>1. 1 \in 1 .. Len(b)
      BY <1>2, <2>2 DEF b
    <3> QED
      BY <1>3, <1>6, <2>2, <3>1
  <2> QED
    BY <2>1, <2>2
<1>14. After(fs, c) = LogEnd(fs)
  <2>1. n \in 1 .. n
    BY <1>1
  <2>2. c[Len(c)] = <<id, n>>
    BY <1>6, <2>1
  <2> QED
    BY <1>1, <2>2 DEF After, Succ, LogEnd, id
<1>15. PlainOK(fs, m)
  BY <1>5, <1>11, <1>12, <1>13, <1>14 DEF PlainOK
<1> QED
  BY <1>15 DEF fs, m, us

(***************************************************************************)
(* The writer.                                                             *)
(***************************************************************************)

\* What is on disk after the buffer was flushed.
LEMMA FlushDataKeeps ==
  ASSUME NEW es \in Seq(LIEntry), NEW l, WriterOK(es, l),
         l.entryCount <= Len(es), l.maxEntriesPerBlock <= Len(es)
  PROVE  LET m == FlushData(l)
         IN  /\ WriterOK(es, m) /\ m.blockBuf = << >> /\ m \in WType
             /\ m.compressed = l.compressed /\ m.headerMax = l.headerMax
             /\ m.entryCount <= Len(es) /\ m.maxEntriesPerBlock <= Len(es)
<1> DEFINE m == FlushData(l)
<1>1. l \in WType /\ Writing(es, l, LogEnd(es)) /\ Len(es) \in Nat
  BY DEF WriterOK, Writing
<1>2. CASE l.blockBuf = << >>
  <2>1. m = l
    BY <1>2 DEF FlushData
  <2> QED
    BY <1>1, <1>2, <2>1
<1>3. CASE l.blockBuf # << >>
  <2>1. m = FlushCompressed(l)
    BY <1>3 DEF FlushData
  <2>2. /\ Parses(l.blockBuf)
        /\ l.blockBuf[Len(l.blockBuf)][1] - l.blockBuf[1][1] < l.entryCount
    BY <1>3 DEF WriterOK, Parses
  <2>3. Writing(es, m, LogEnd(es))
    BY <1>1, <1>3, <2>1, <2>2, FlushKeeps
  <2>4. m \in WType /\ m.blockBuf = << >> /\ Counters(l, m, Len(es))
    BY <1>1, <2>1, FlushFields, FlushCounters
  <2> HIDE DEF m
  <2>5. WriterOK(es, m)
    BY <2>3, <2>4 DEF WriterOK
  <2> QED
    BY <2>4, <2>5 DEF m, Counters
<1> QED
  BY <1>2, <1>3

\* Writing the header changes no block.
LEMMA HeaderKeeps ==
  ASSUME NEW es \in Seq(LIEntry), NEW l, WriterOK(es, l), l.maxEntriesPerBlock <= Len(es)
  PROVE  LET m == WriteHeader(l)
         IN  /\ WriterOK(es, m) /\ m.blockBuf = l.blockBuf /\ m.compressed = l.compressed
             /\ m.headerMax = l.maxEntriesPerBlock
             /\ m.entryCount = l.entryCount /\ m.maxEntriesPerBlock = l.maxEntriesPerBlock
<1> DEFINE m == WriteHeader(l)
<1>1. l \in WType
  BY DEF WriterOK, Writing
<1>2. /\ m \in WType /\ m.blockBuf = l.blockBuf /\ m.file = l.file
      /\ m.entryCount = l.entryCount /\ m.maxEntriesPerBlock = l.maxEntriesPerBlock
      /\ m.headerMax = l.maxEntriesPerBlock /\ m.compressed = l.compressed
  BY <1>1 DEF WriteHeader, WType
<1> HIDE DEF m
<1>3. WriterOK(es, m)
  BY <1>2 DEF WriterOK, Writing, BlockOK
<1> QED
  BY <1>2, <1>3 DEF m

\* A log that is not compressed has nothing to flush.
LEMMA PlainFlush ==
  ASSUME NEW es \in Seq(LIEntry), NEW l, PlainOK(es, l)
  PROVE  FlushData(l) = l /\ WriteHeader(l) = l
<1>1. l \in PlainType /\ l.blockBuf = << >> /\ l.maxEntriesPerBlock = 0 /\ l.headerMax = 0
  BY DEF PlainOK
<1>2. FlushData(l) = l
  BY <1>1 DEF FlushData
<1>3. [l EXCEPT !.headerMax = 0] = l
  BY <1>1 DEF PlainType
<1> QED
  BY <1>1, <1>2, <1>3 DEF WriteHeader

\* The invariant of the writer at the start.
LEMMA WriterInit == LIInit => WriterInv
<1> SUFFICES ASSUME LIInit PROVE WriterInv
  OBVIOUS
<1>1. PICK c \in Compressions :
        w = [compressed |-> c, file |-> << >>, blockBuf |-> << >>, entryCount |-> 0,
             flushed |-> FALSE, maxEntriesPerBlock |-> 0, headerMax |-> 0]
  BY DEF LIInit
<1>2. /\ c \in BOOLEAN /\ BlockSize \in Nat /\ MaxEntries \in Nat
      /\ entries = << >> /\ phase = "write"
  BY LayoutAssumption DEF LIInit
<1>3. /\ w.compressed = c /\ w.file = << >> /\ w.blockBuf = << >> /\ w.entryCount = 0
      /\ w.maxEntriesPerBlock = 0 /\ w.headerMax = 0 /\ w.flushed = FALSE
  BY <1>1
<1>4. FALSE \in BOOLEAN
  BY Zenon
<1>5. /\ << >> \in Seq(LogUnit) /\ << >> \in Seq(Seq(LogUnit)) /\ << >> \in Seq(LIEntry)
      /\ Len(<< >>) = 0
  OBVIOUS
<1>6. w \in WType /\ w \in PlainType
  BY <1>1, <1>2, <1>4, <1>5 DEF WType, PlainType
<1>7. WriterOK(entries, w)
  <2>1. LogEnd(entries) = FileEnd(entries, w.file)
    BY <1>2, <1>3, <1>5 DEF LogEnd, FileEnd
  <2>2. Len(w.file) = 0 /\ Len(w.blockBuf) = 0
    BY <1>3, <1>5
  <2> QED
    BY <1>2, <1>3, <1>6, <2>1, <2>2 DEF WriterOK, Writing
<1>8. PlainOK(entries, w)
  BY <1>2, <1>3, <1>6 DEF PlainOK
<1>9. Len(entries) = 0
  BY <1>2, <1>5
<1> QED
  BY <1>2, <1>3, <1>5, <1>7, <1>8, <1>9 DEF WriterInv

\* sparkey_logwriter_put and sparkey_logwriter_delete.
LEMMA WriterAdd ==
  ASSUME WriterInv, NEW s \in Shapes, Add(s)
  PROVE  WriterInv'
<1> DEFINE e == [id |-> Len(entries) + 1, type |-> s.type, key |-> s.key,
                 klen |-> s.klen, vlen |-> s.vlen]
           N == Len(entries)
<1>1. /\ phase = "write" /\ phase' = "write" /\ N < MaxEntries
      /\ entries' = Append(entries, e)
      /\ w' = IF w.compressed THEN LogAdd(w, EntryUnits(e))
              ELSE [w EXCEPT !.file = @ \o EntryUnits(e)]
  BY DEF Add
<1>2. entries \in Seq(LIEntry) /\ N \in Nat /\ MaxEntries \in Nat /\ w.compressed \in BOOLEAN
  BY LayoutAssumption DEF WriterInv
<1>3. e \in LIEntry /\ e.id = N + 1 /\ e.klen = Len(e.key)
  <2>1. /\ s.type \in {"put", "delete"} /\ s.key \in Seq(Nat) /\ s.klen = Len(s.key)
        /\ s.vlen \in Nat
    BY LayoutAssumption
  <2>2. s.klen \in Nat
    BY <2>1
  <2> QED
    BY <1>2, <2>1, <2>2 DEF LIEntry
<1> HIDE DEF e
<1>4. /\ entries' \in Seq(LIEntry) /\ Len(entries') = N + 1 /\ entries'[N + 1] = e
      /\ \A i \in 1 .. N : entries'[i] = entries[i]
  BY <1>1, <1>2, <1>3, AppendFacts
<1>5. \A i \in 1 .. Len(entries') : /\ entries'[i].id = i
                                    /\ entries'[i].klen = Len(entries'[i].key)
  <2>1. \A i \in 1 .. Len(entries') : i \in 1 .. N \/ i = N + 1
    BY <1>2, <1>4
  <2> QED
    BY <1>3, <1>4, <2>1 DEF WriterInv
<1>6. CASE w.compressed
  <2>1. /\ WriterOK(entries', w') /\ w'.compressed = w.compressed /\ w'.headerMax = w.headerMax
        /\ w'.entryCount <= N + 1 /\ w'.maxEntriesPerBlock <= N + 1
    BY <1>1, <1>2, <1>3, <1>6, LogAddKeeps DEF WriterInv
  <2>2. w.headerMax \in Nat /\ w.headerMax <= N
    BY <1>6 DEF WriterInv, WriterOK, Writing, WType
  <2>3. w'.headerMax <= N + 1
    BY <1>2, <2>1, <2>2
  <2>4. Len(entries') <= MaxEntries
    BY <1>1, <1>2, <1>4
  <2>5. /\ w'.maxEntriesPerBlock <= Len(entries') /\ w'.entryCount <= Len(entries')
        /\ w'.headerMax <= Len(entries')
    BY <1>4, <2>1, <2>3
  <2> QED
    BY <1>1, <1>2, <1>4, <1>5, <1>6, <2>1, <2>4, <2>5 DEF WriterInv
<1>7. CASE ~w.compressed
  <2>1. PlainOK(entries', w') /\ PlainOK(entries, w)
    BY <1>1, <1>2, <1>3, <1>7, PlainAdd DEF WriterInv
  <2>2. w'.compressed = w.compressed /\ w'.entryCount = w.entryCount
    BY <1>1, <1>7, <2>1 DEF PlainOK, PlainType
  <2>3. w.entryCount \in Nat /\ w.entryCount <= N
    BY <2>1 DEF WriterInv, PlainOK, PlainType
  <2>4. w'.maxEntriesPerBlock = 0 /\ w'.headerMax = 0
    BY <2>1 DEF PlainOK
  <2>5. w'.entryCount <= N + 1 /\ w'.maxEntriesPerBlock <= N + 1 /\ w'.headerMax <= N + 1
    BY <1>2, <2>2, <2>3, <2>4
  <2> QED
    BY <1>1, <1>2, <1>4, <1>5, <1>7, <2>1, <2>2, <2>5 DEF WriterInv
<1> QED
  BY <1>2, <1>6, <1>7

\* sparkey_logwriter_flush, and what a reader opens.
LEMMA WriterFlush ==
  ASSUME WriterInv, phase = "write", entries' = entries, phase' \in {"write", "scan"},
         w' = WriteHeader(FlushData(w)) \/ (StaleHeaders /\ w' = FlushData(w)),
         phase' = "write" \/ entries # << >>
  PROVE  WriterInv'
<1> DEFINE N == Len(entries)
           d == FlushData(w)
<1>1. entries \in Seq(LIEntry) /\ N \in Nat /\ w.compressed \in BOOLEAN
  BY DEF WriterInv
<1>2. CASE w.compressed
  <2>1. /\ WriterOK(entries, d) /\ d.blockBuf = << >> /\ d \in WType
        /\ d.compressed = w.compressed /\ d.headerMax = w.headerMax
        /\ d.entryCount <= N /\ d.maxEntriesPerBlock <= N
    BY <1>1, <1>2, FlushDataKeeps DEF WriterInv
  <2>2. w.headerMax <= N
    BY DEF WriterInv
  <2> HIDE DEF d
  <2>3. CASE w' = d /\ StaleHeaders
    BY <1>1, <1>2, <2>1, <2>2, <2>3 DEF WriterInv
  <2>4. CASE w' = WriteHeader(d)
    <3>1. /\ WriterOK(entries, w') /\ w'.blockBuf = << >> /\ w'.compressed = w.compressed
          /\ w'.headerMax = w'.maxEntriesPerBlock
          /\ w'.entryCount <= N /\ w'.maxEntriesPerBlock <= N
      BY <1>1, <2>1, <2>4, HeaderKeeps
    <3> QED
      BY <1>1, <1>2, <3>1 DEF WriterInv
  <2> QED
    BY <2>3, <2>4 DEF d
<1>3. CASE ~w.compressed
  <2>1. PlainOK(entries, w)
    BY <1>3 DEF WriterInv
  <2>2. w' = w /\ w.blockBuf = << >> /\ w.headerMax = w.maxEntriesPerBlock
    BY <1>1, <2>1, PlainFlush DEF PlainOK
  <2> QED
    BY <1>1, <1>3, <2>1, <2>2 DEF WriterInv
<1> QED
  BY <1>1, <1>2, <1>3

\* Reading changes nothing in the log.
LEMMA WriterRead ==
  ASSUME WriterInv, w' = w, entries' = entries,
         phase' = phase \/ (phase # "write" /\ phase' = "read")
  PROVE  WriterInv'
BY DEF WriterInv

\* Every step keeps the invariant of the writer.
LEMMA WriterNext ==
  ASSUME WriterInv, [LINext]_liVars
  PROVE  WriterInv'
<1>1. ASSUME NEW s \in Shapes, Add(s) PROVE WriterInv'
  BY <1>1, WriterAdd
<1>2. CASE FlushBlock
  BY <1>2, WriterFlush DEF FlushBlock, Flushes
<1>3. CASE CloseWriter
  BY <1>3, WriterFlush DEF CloseWriter, Flushes
<1>4. CASE ScanEnds
  BY <1>4, WriterRead DEF ScanEnds
<1>5. CASE ScanEntry
  BY <1>5, WriterRead DEF ScanEntry
<1>6. ASSUME NEW i \in DOMAIN entries, ScanCompares(i) PROVE WriterInv'
  BY <1>6, WriterRead DEF ScanCompares
<1>7. ASSUME NEW n \in 1 .. 2, Next(n) PROVE WriterInv'
  BY <1>7, WriterRead DEF Next
<1>8. ASSUME NEW m \in ChunkLens, KeyChunk(m) \/ ValueChunk(m) \/ FillKey(m) \/ FillValue(m)
      PROVE  WriterInv'
  BY <1>8, WriterRead DEF KeyChunk, ValueChunk, FillKey, FillValue, Reads
<1>9. CASE Reset
  BY <1>9, WriterRead DEF Reset
<1>10. ASSUME NEW i \in DOMAIN entries, Keycmp(i) PROVE WriterInv'
  BY <1>10, WriterRead DEF Keycmp
<1>11. ASSUME NEW i \in 1 .. Len(entries) + 1, Seek(i) PROVE WriterInv'
  BY <1>11, WriterRead DEF Seek
<1>12. ASSUME NEW i \in DOMAIN entries,
              HashGetFound(i) \/ \E n \in 0 .. 1 : HashGetCollides(i, n)
       PROVE  WriterInv'
  BY <1>12, WriterRead DEF HashGetFound, HashGetCollides
<1>13. CASE HashGetMisses
  BY <1>13, WriterRead DEF HashGetMisses
<1>14. CASE UNCHANGED liVars
  BY <1>14, WriterRead DEF liVars
<1> QED
  BY <1>1, <1>2, <1>3, <1>4, <1>5, <1>6, <1>7, <1>8, <1>9, <1>10, <1>11, <1>12, <1>13, <1>14
     DEF LINext

\* The inductive invariant of the writer: whatever the block size and the entries,
\* the blocks that log_add and sparkey_logwriter_flush leave are chains of units that
\* continue one another, and the reading calls change none of them.
THEOREM WriterInductive == LISpec => []WriterInv
<1>1. LIInit => WriterInv
  BY WriterInit
<1>2. WriterInv /\ [LINext]_liVars => WriterInv'
  BY WriterNext
<1> QED
  BY <1>1, <1>2, PTL DEF LISpec

\* A block of the file, or the buffer, is as BlocksParse says.
LEMMA ParsesChain ==
  ASSUME NEW es \in Seq(LIEntry), NEW b, Chain(es, b), Parses(b)
  PROVE  /\ \A k \in DOMAIN b : b[k][2] = 1 => k < Len(b) /\ b[k + 1] = <<b[k][1], 2>>
         /\ b[1][2] # 1 => \A k \in DOMAIN b : b[k][1] = b[1][1]
<1>1. /\ b \in Seq(LogUnit) /\ Len(b) \in Nat /\ DOMAIN b = 1 .. Len(b)
      /\ \A k \in 1 .. Len(b) : b[k] \in UnitOf(es)
      /\ \A k \in 1 .. Len(b) - 1 : b[k + 1] = Succ(es, b[k])
  BY ChainFacts
<1>2. ASSUME NEW k \in 1 .. Len(b), b[k][2] = 1
      PROVE  k < Len(b) /\ b[k + 1] = <<b[k][1], 2>>
  <2>1. k # Len(b)
    BY <1>2 DEF Parses
  <2>2. k < Len(b) /\ k \in 1 .. Len(b) - 1
    <3> DEFINE n == Len(b)
    <3>1. n \in Nat /\ k \in 1 .. n /\ k # n
      BY <1>1, <2>1
    <3> HIDE DEF n
    <3>2. k < n /\ k \in 1 .. n - 1
      BY <3>1
    <3> QED
      BY SMTT(40), <3>2 DEF n
  <2>3. Size(es, b[k][1]) \in Nat /\ Size(es, b[k][1]) >= 2
    BY <1>1, UnitFacts
  <2>4. b[k + 1] = Succ(es, b[k])
    BY <1>1, <2>2
  <2> QED
    BY <1>2, <2>2, <2>3, <2>4 DEF Succ
<1> QED
  BY SMTT(40), <1>1, <1>2 DEF Parses

\* The invariant gives what a reader of a block relies on.
LEMMA WriterParses == WriterInv => BlocksParse
<1> SUFFICES ASSUME WriterInv, w.compressed,
                    NEW b \in ToSet(w.file) \cup ({w.blockBuf} \ {<< >>})
             PROVE  /\ \A k \in DOMAIN b : b[k][2] = 1 => k < Len(b) /\ b[k + 1] = <<b[k][1], 2>>
                    /\ b[1][2] # 1 => \A k \in DOMAIN b : b[k][1] = b[1][1]
  BY DEF BlocksParse
<1>1. entries \in Seq(LIEntry) /\ WriterOK(entries, w)
  BY DEF WriterInv
<1>2. Chain(entries, b) /\ Parses(b)
  <2>1. CASE b \in ToSet(w.file)
    <3>1. w.file \in Seq(Seq(LogUnit))
      BY <1>1 DEF WriterOK, Writing, WType
    <3>2. PICK p \in 1 .. Len(w.file) : b = w.file[p]
      BY <2>1, <3>1 DEF ToSet
    <3> QED
      BY <1>1, <3>2 DEF WriterOK, Writing, BlockOK
  <2>2. CASE b = w.blockBuf /\ b # << >>
    BY <1>1, <2>2 DEF WriterOK, Writing, Parses
  <2> QED
    BY <2>1, <2>2
<1> QED
  BY <1>1, <1>2, ParsesChain

\* log_add: the lengths of an entry are in one block, and a block that starts
\* inside an entry holds nothing else, for every block size and any entries.
THEOREM BlocksParseCorrect == LISpec => []BlocksParse
<1>1. WriterInv => BlocksParse
  BY WriterParses
<1> QED
  BY <1>1, WriterInductive, PTL

(***************************************************************************)
(* The blocks that an iterator sees.                                       *)
(***************************************************************************)

\* The end of a chain is a chain.
LEMMA SuffixChain ==
  ASSUME NEW es \in Seq(LIEntry), NEW f, Chain(es, f), NEW p \in 1 .. Len(f)
  PROVE  LET b == SubSeq(f, p, Len(f))
         IN  /\ Chain(es, b) /\ Len(b) = Len(f) - p + 1
             /\ \A k \in 1 .. Len(b) : b[k] = f[p + k - 1]
             /\ After(es, b) = After(es, f) /\ b[Len(b)] = f[Len(f)]
<1> DEFINE b == SubSeq(f, p, Len(f))
           n == Len(f)
<1>1. /\ f \in Seq(LogUnit) /\ n \in Nat /\ p \in 1 .. n
      /\ \A k \in 1 .. n : f[k] \in UnitOf(es)
      /\ \A k \in 1 .. n - 1 : f[k + 1] = Succ(es, f[k])
  BY ChainFacts
<1>2. /\ b \in Seq(LogUnit) /\ Len(b) = n - p + 1
      /\ \A k \in 1 .. Len(b) : b[k] = f[p + k - 1]
  BY <1>1
<1> HIDE DEF b, n
<1>3. /\ Len(b) \in Nat /\ Len(b) >= 1
      /\ \A k \in 1 .. Len(b) : p + k - 1 \in 1 .. n
      /\ \A k \in 1 .. Len(b) - 1 : /\ p + k - 1 \in 1 .. n - 1 /\ k \in 1 .. Len(b)
                                    /\ k + 1 \in 1 .. Len(b) /\ p + (k + 1) - 1 = (p + k - 1) + 1
      /\ Len(b) \in 1 .. Len(b) /\ p + Len(b) - 1 = n
  BY <1>1, <1>2
<1>4. \A k \in 1 .. Len(b) : b[k] \in UnitOf(es)
  BY <1>1, <1>2, <1>3
<1>5. \A k \in 1 .. Len(b) - 1 : b[k + 1] = Succ(es, b[k])
  <2> SUFFICES ASSUME NEW k \in 1 .. Len(b) - 1 PROVE b[k + 1] = Succ(es, b[k])
    OBVIOUS
  <2>1. b[k] = f[p + k - 1] /\ b[k + 1] = f[(p + k - 1) + 1]
    BY SMTT(40), <1>2, <1>3
  <2> QED
    BY <1>1, <1>3, <2>1
<1>6. b # << >>
  <2> SUFFICES ASSUME b = << >> PROVE FALSE
    OBVIOUS
  <2>1. Len(b) = 0
    OBVIOUS
  <2> QED
    BY <1>3, <2>1
<1>7. b \in Seq(UnitOf(es))
  BY <1>2, <1>4
<1>8. b[Len(b)] = f[n]
  BY <1>2, <1>3
<1>9. Chain(es, b)
  BY <1>5, <1>6, <1>7 DEF Chain
<1> QED
  BY <1>2, <1>8, <1>9 DEF b, n, After

\* A log that is read.
Reading == WriterInv /\ phase # "write"

\* What an open log has.
LEMMA FileFacts ==
  ASSUME Reading
  PROVE  /\ entries \in Seq(LIEntry) /\ Len(entries) \in Nat /\ Len(entries) >= 1
         /\ Len(w.file) \in Nat /\ Len(w.file) >= 1 /\ DataEnd = Len(w.file) + 1
         /\ BlockAt(0) = << >> /\ w.compressed \in BOOLEAN
<1>1. entries \in Seq(LIEntry) /\ entries # << >> /\ w.compressed \in BOOLEAN /\ w.blockBuf = << >>
  BY DEF Reading, WriterInv
<1>2. Len(entries) \in Nat /\ Len(entries) >= 1
  BY <1>1
<1>3. Len(w.file) \in Nat /\ Len(w.file) >= 1
  <2>1. CASE w.compressed
    <3>1. WriterOK(entries, w) /\ w.file \in Seq(Seq(LogUnit))
      BY <2>1 DEF Reading, WriterInv, WriterOK, Writing, WType
    <3>2. w.file # << >>
      <4>1. LogEnd(entries) = FileEnd(entries, w.file)
        BY <1>1, <3>1 DEF WriterOK, Writing
      <4> QED
        BY <1>2, <4>1 DEF LogEnd, FileEnd
    <3> QED
      BY <3>1, <3>2
  <2>2. CASE ~w.compressed
    BY <1>1, <2>2 DEF Reading, WriterInv, PlainOK, PlainType
  <2> QED
    BY <1>1, <2>1, <2>2
<1> QED
  BY <1>1, <1>2, <1>3 DEF DataEnd, BlockAt

\* The blocks are chains that follow one another.
LEMMA BlockFacts ==
  ASSUME Reading, NEW p \in 1 .. Len(w.file)
  PROVE  /\ Chain(entries, BlockAt(p)) /\ BlockAt(p)[Len(BlockAt(p))][2] # 1
         /\ NextBlock(p) \in p + 1 .. DataEnd
         /\ NextBlock(p) = DataEnd => After(entries, BlockAt(p)) = LogEnd(entries)
         /\ NextBlock(p) # DataEnd => BlockAt(NextBlock(p))[1] = After(entries, BlockAt(p))
         /\ p = 1 => BlockAt(p)[1] = <<1, 1>>
<1>0. /\ entries \in Seq(LIEntry) /\ Len(w.file) \in Nat /\ DataEnd = Len(w.file) + 1
      /\ p # 0 /\ p \in Nat /\ Len(entries) \in Nat /\ Len(entries) >= 1
  BY FileFacts
<1>1. CASE w.compressed
  <2>1. /\ WriterOK(entries, w) /\ w.file \in Seq(Seq(LogUnit)) /\ w.blockBuf = << >>
    BY <1>1 DEF Reading, WriterInv, WriterOK, Writing, WType
  <2>2. BlockAt(p) = w.file[p] /\ NextBlock(p) = p + 1
    BY <1>0, <1>1 DEF BlockAt, NextBlock
  <2>3. \A q \in 1 .. Len(w.file) : BlockOK(entries, w, q)
    BY <2>1 DEF WriterOK, Writing
  <2>4. NextBlock(p) # DataEnd => BlockAt(NextBlock(p))[1] = After(entries, BlockAt(p))
    <3> SUFFICES ASSUME NextBlock(p) # DataEnd
                 PROVE  BlockAt(NextBlock(p))[1] = After(entries, BlockAt(p))
      OBVIOUS
    <3>1. p + 1 \in 1 .. Len(w.file) /\ p + 1 # 1 /\ (p + 1) - 1 = p /\ p + 1 # 0
      BY <1>0, <2>2
    <3>2. w.file[p + 1][1] = After(entries, w.file[p])
      BY <2>3, <3>1 DEF BlockOK
    <3>3. BlockAt(p + 1) = w.file[p + 1]
      BY <1>1, <3>1 DEF BlockAt
    <3> QED
      BY <2>2, <3>2, <3>3
  <2>5. NextBlock(p) = DataEnd => After(entries, BlockAt(p)) = LogEnd(entries)
    <3> SUFFICES ASSUME NextBlock(p) = DataEnd
                 PROVE  After(entries, BlockAt(p)) = LogEnd(entries)
      OBVIOUS
    <3>1. p = Len(w.file)
      BY <1>0, <2>2
    <3>2. LogEnd(entries) = FileEnd(entries, w.file)
      BY <2>1 DEF WriterOK, Writing
    <3>3. w.file # << >>
      BY <1>0
    <3> QED
      BY <2>2, <3>1, <3>2, <3>3 DEF FileEnd
  <2>6. BlockOK(entries, w, p)
    BY <2>3
  <2>7. NextBlock(p) \in p + 1 .. DataEnd
    BY <1>0, <2>2
  <2> QED
    BY <2>2, <2>4, <2>5, <2>6, <2>7 DEF BlockOK, Parses
<1>2. CASE ~w.compressed
  <2>1. PlainOK(entries, w) /\ w.file # << >>
    BY <1>0, <1>2 DEF Reading, WriterInv, PlainOK
  <2>2. Chain(entries, w.file) /\ w.file[1] = <<1, 1>> /\ After(entries, w.file) = LogEnd(entries)
    BY <2>1 DEF PlainOK
  <2>3. BlockAt(p) = SubSeq(w.file, p, Len(w.file)) /\ NextBlock(p) = DataEnd
    BY <1>0, <1>2 DEF BlockAt, NextBlock
  <2> DEFINE b == BlockAt(p)
             u == w.file[Len(w.file)]
  <2>4. /\ Chain(entries, b) /\ Len(b) = Len(w.file) - p + 1
        /\ \A k \in 1 .. Len(b) : b[k] = w.file[p + k - 1]
        /\ After(entries, b) = LogEnd(entries) /\ b[Len(b)] = u
    BY <1>0, <2>2, <2>3, SuffixChain
  <2>5. u[2] # 1
    <3>1. u \in UnitOf(entries)
      BY <1>0, <2>2, ChainFacts
    <3>2. /\ u[1] \in 1 .. Len(entries) /\ Size(entries, u[1]) \in Nat
          /\ Size(entries, u[1]) >= 2 /\ u[2] \in 1 .. Size(entries, u[1])
      BY <1>0, <3>1, UnitFacts
    <3>3. Succ(entries, u) = <<Len(entries) + 1, 1>>
      BY <2>2 DEF After, LogEnd
    <3> HIDE DEF u
    <3>4. u[2] < Size(entries, u[1]) => u[1] = Len(entries) + 1
      BY <3>3 DEF Succ
    <3> QED
      BY <1>0, <3>2, <3>4
  <2>6. p = 1 => b[1] = <<1, 1>>
    BY <1>0, <2>2, <2>4
  <2>7. NextBlock(p) \in p + 1 .. DataEnd
    BY <1>0, <2>3
  <2> QED
    BY <2>3, <2>4, <2>5, <2>6, <2>7
<1>3. w.compressed \in BOOLEAN
  BY FileFacts
<1> QED
  BY <1>1, <1>2, <1>3

\* In a compressed log, a block that starts inside an entry has no other.
LEMMA BlockParses ==
  ASSUME Reading, w.compressed, NEW p \in 1 .. Len(w.file)
  PROVE  /\ Parses(BlockAt(p)) /\ NextBlock(p) = p + 1 /\ BlockAt(p) = w.file[p]
         /\ BlockAt(p)[1][2] = 1 =>
              BlockAt(p)[Len(BlockAt(p))][1] - BlockAt(p)[1][1] < w.maxEntriesPerBlock
<1>1. BlockOK(entries, w, p)
  BY DEF Reading, WriterInv, WriterOK, Writing
<1>2. BlockAt(p) = w.file[p] /\ NextBlock(p) = p + 1
  BY FileFacts DEF BlockAt, NextBlock
<1> QED
  BY <1>1, <1>2 DEF BlockOK

\* The end of the log is no unit.
LEMMA EndNoUnit ==
  ASSUME Reading
  PROVE  LogEnd(entries) \notin UnitOf(entries)
BY FileFacts DEF LogEnd, UnitOf

(***************************************************************************)
(* Moving an iterator.                                                     *)
(***************************************************************************)

\* Where an iterator can be.
LEMMA RangeFacts ==
  ASSUME Reading, NEW it, RangeOK(it)
  PROVE  /\ it \in LIter /\ Len(Block(it)) \in Nat /\ Available(it) \in Nat
         /\ it.blockOffset \in Nat /\ it.blockPosition \in Nat /\ it.nextBlockPosition \in Nat
         /\ Available(it) > 0 => it.blockPosition # 0
         /\ it.blockPosition # 0 => /\ it.blockPosition \in 1 .. Len(w.file)
                                    /\ Chain(entries, Block(it))
         /\ NextUnit(it) \in UnitOf(entries) \cup {LogEnd(entries)}
<1>0. /\ entries \in Seq(LIEntry) /\ Len(w.file) \in Nat /\ DataEnd = Len(w.file) + 1
      /\ BlockAt(0) = << >>
  BY FileFacts
<1>1. /\ it \in LIter /\ it.blockPosition \in 0 .. Len(w.file)
      /\ it.nextBlockPosition \in 1 .. DataEnd /\ it.blockOffset \in 0 .. Len(Block(it))
  BY DEF RangeOK
<1>2. it.blockPosition # 0 => /\ it.blockPosition \in 1 .. Len(w.file)
                              /\ Chain(entries, Block(it)) /\ Len(Block(it)) \in Nat
  <2> SUFFICES ASSUME it.blockPosition # 0
               PROVE  /\ it.blockPosition \in 1 .. Len(w.file)
                      /\ Chain(entries, Block(it)) /\ Len(Block(it)) \in Nat
    OBVIOUS
  <2>1. it.blockPosition \in 1 .. Len(w.file)
    BY <1>0, <1>1
  <2>2. Chain(entries, Block(it))
    BY <2>1, BlockFacts DEF Block
  <2> QED
    BY <1>0, <2>1, <2>2, ChainFacts
<1>3. it.blockPosition = 0 => Block(it) = << >> /\ Len(Block(it)) = 0
  BY <1>0 DEF Block
<1>4. Len(Block(it)) \in Nat
  BY <1>2, <1>3
<1>5. it.blockOffset \in Nat /\ it.blockPosition \in Nat /\ it.nextBlockPosition \in Nat
  BY <1>0, <1>1, <1>4
<1>6. Available(it) \in Nat /\ (Available(it) > 0 => it.blockPosition # 0)
  <2>1. Available(it) \in Nat
    BY <1>1, <1>4 DEF Available
  <2>2. it.blockPosition = 0 => Available(it) = 0
    BY <1>1, <1>3 DEF Available
  <2> QED
    BY <2>1, <2>2
<1>7. NextUnit(it) \in UnitOf(entries) \cup {LogEnd(entries)}
  <2>1. CASE Available(it) > 0
    <3>1. it.blockOffset + 1 \in 1 .. Len(Block(it))
      BY <1>1, <1>4, <2>1 DEF Available
    <3> QED
      BY <1>0, <1>2, <1>6, <2>1, <3>1, ChainFacts DEF NextUnit
  <2>2. CASE ~(Available(it) > 0) /\ it.nextBlockPosition >= DataEnd
    BY <2>2 DEF NextUnit
  <2>3. CASE ~(Available(it) > 0) /\ ~(it.nextBlockPosition >= DataEnd)
    <3>1. it.nextBlockPosition \in 1 .. Len(w.file)
      BY <1>0, <1>1, <1>5, <2>3
    <3> QED
      BY <1>0, <2>3, <3>1, BlockFacts, ChainFacts DEF NextUnit
  <2> QED
    BY <2>1, <2>2, <2>3
<1> QED
  BY <1>1, <1>2, <1>4, <1>5, <1>6, <1>7

\* The fields that moving leaves alone.
Same(i, it) ==
  /\ i.entryBlockPosition = it.entryBlockPosition /\ i.entryBlockOffset = it.entryBlockOffset
  /\ i.state = it.state /\ i.type = it.type
  /\ i.keylen = it.keylen /\ i.valuelen = it.valuelen
  /\ i.keyRemaining = it.keyRemaining /\ i.valueRemaining = it.valueRemaining

\* Records that differ in the position.
AtPosition(it, p, o) == [it EXCEPT !.blockPosition = p, !.blockOffset = o]
InBlock(it, p, q) == [it EXCEPT !.blockOffset = 0, !.blockPosition = p, !.nextBlockPosition = q]

\* An iterator with another offset in its block.
LEMMA IterOffset ==
  ASSUME NEW it \in LIter, NEW o \in Nat, NEW i, i = [it EXCEPT !.blockOffset = o]
  PROVE  /\ i \in LIter /\ i.blockPosition = it.blockPosition /\ i.blockOffset = o
         /\ i.nextBlockPosition = it.nextBlockPosition
         /\ i.entryCount = it.entryCount /\ Same(i, it)
<1>1. i \in LIter
  BY DEF LIter
<1> QED
  BY <1>1 DEF LIter, Same

\* An iterator at another position.
LEMMA IterPosition ==
  ASSUME NEW it \in LIter, NEW o \in Nat, NEW p \in Nat, NEW i, i = AtPosition(it, p, o)
  PROVE  /\ i \in LIter /\ i.blockPosition = p /\ i.blockOffset = o
         /\ i.nextBlockPosition = it.nextBlockPosition
         /\ i.entryCount = it.entryCount /\ Same(i, it)
<1>1. i \in LIter
  BY DEF LIter, AtPosition
<1> QED
  BY <1>1 DEF LIter, Same, AtPosition

\* An iterator at the start of a block.
LEMMA IterNext ==
  ASSUME NEW it \in LIter, NEW p \in Nat, NEW q \in Nat, NEW i, i = InBlock(it, p, q)
  PROVE  /\ i \in LIter /\ i.blockPosition = p /\ i.blockOffset = 0
         /\ i.nextBlockPosition = q
         /\ i.entryCount = it.entryCount /\ Same(i, it)
<1>1. i \in LIter
  BY DEF LIter, InBlock
<1> QED
  BY <1>1 DEF LIter, Same, InBlock

\* seekblock goes to the first unit of the block.
LEMMA SeekBlockFacts ==
  ASSUME Reading, NEW it, RangeOK(it), NEW p \in 1 .. Len(w.file), NEW i, i = SeekBlock(it, p)
  PROVE  /\ RangeOK(i) /\ i.blockPosition = p /\ i.blockOffset = 0 /\ Same(i, it)
         /\ i.nextBlockPosition = NextBlock(p) /\ i.entryCount = it.entryCount
         /\ Block(i) = BlockAt(p) /\ NextUnit(i) = BlockAt(p)[1] /\ Available(i) > 0
<1>0. /\ entries \in Seq(LIEntry) /\ Len(w.file) \in Nat /\ DataEnd = Len(w.file) + 1
      /\ p \in Nat /\ p # 0 /\ it \in LIter
  BY FileFacts DEF RangeOK
<1>1. NextBlock(p) \in 1 .. DataEnd /\ Chain(entries, BlockAt(p)) /\ NextBlock(p) \in Nat
  <2>1. NextBlock(p) \in p + 1 .. DataEnd /\ Chain(entries, BlockAt(p))
    BY BlockFacts
  <2> QED
    BY <1>0, <2>1
<1>2. Len(BlockAt(p)) \in Nat /\ Len(BlockAt(p)) >= 1
  BY <1>0, <1>1, ChainFacts
<1>3. /\ i \in LIter /\ i.blockPosition = p /\ i.blockOffset = 0 /\ Same(i, it)
      /\ i.nextBlockPosition = NextBlock(p) /\ i.entryCount = it.entryCount
  <2>1. CASE it.blockPosition = p
    <3>0. it.nextBlockPosition = NextBlock(p) /\ it.blockPosition = p
      BY <1>0, <2>1 DEF RangeOK
    <3>1. i = [it EXCEPT !.blockOffset = 0]
      BY <2>1 DEF SeekBlock
    <3>2. /\ i \in LIter /\ i.blockPosition = it.blockPosition /\ i.blockOffset = 0
          /\ i.entryCount = it.entryCount
          /\ i.nextBlockPosition = it.nextBlockPosition /\ Same(i, it)
      <4>1. it \in LIter
        BY <1>0
      <4> QED
        BY <3>1, <4>1, IterOffset
    <3> QED
      BY <3>0, <3>2
  <2>2. CASE it.blockPosition # p
    <3>1. i = InBlock(it, p, NextBlock(p))
      BY <2>2 DEF SeekBlock, InBlock
    <3>2. it \in LIter /\ p \in Nat
      BY <1>0
    <3> DEFINE q == NextBlock(p)
    <3>3. q \in Nat
      BY <1>1
    <3>4. i = InBlock(it, p, q)
      BY <3>1
    <3> HIDE DEF q
    <3>5. /\ i \in LIter /\ i.blockPosition = p /\ i.blockOffset = 0
          /\ i.nextBlockPosition = q
          /\ i.entryCount = it.entryCount /\ Same(i, it)
      BY <3>2, <3>3, <3>4, IterNext
    <3> QED
      BY <3>5 DEF q
  <2> QED
    BY <2>1, <2>2
<1>4. Block(i) = BlockAt(p)
  BY <1>3 DEF Block
<1>5. RangeOK(i)
  <2>1. i.blockPosition \in 0 .. Len(w.file) /\ i.blockOffset \in 0 .. Len(Block(i))
    BY <1>0, <1>2, <1>3, <1>4
  <2>2. i.keyRemaining <= i.keylen /\ i.valueRemaining <= i.valuelen
    BY <1>3 DEF RangeOK, Same
  <2> QED
    BY <1>1, <1>3, <2>1, <2>2 DEF RangeOK
<1>6. Available(i) > 0
  BY <1>2, <1>3, <1>4 DEF Available
<1>7. NextUnit(i) = BlockAt(p)[1]
  BY <1>3, <1>4, <1>6 DEF NextUnit
<1> QED
  BY <1>3, <1>4, <1>5, <1>6, <1>7

\* ensure_available goes to the block that has the next unit, if there is one.
LEMMA EnsureFacts ==
  ASSUME Reading, NEW it, RangeOK(it), NEW i, i = EnsureAvailable(it)
  PROVE  /\ RangeOK(i) /\ Same(i, it) /\ NextUnit(i) = NextUnit(it)
         /\ Available(i) > 0 <=> NextUnit(it) # LogEnd(entries)
         /\ Available(i) > 0 => Block(i)[i.blockOffset + 1] = NextUnit(it)
         /\ Available(i) > 0 =>
              \/ i = it
              \/ /\ Available(it) = 0 /\ it.nextBlockPosition < DataEnd
                 /\ i.blockPosition = it.nextBlockPosition /\ i.blockOffset = 0
                 /\ i.entryCount = -1 /\ Block(i)[1] = NextUnit(it)
<1>0. /\ entries \in Seq(LIEntry) /\ Len(w.file) \in Nat /\ DataEnd = Len(w.file) + 1
      /\ BlockAt(0) = << >>
  BY FileFacts
<1>1. /\ it \in LIter /\ Available(it) \in Nat /\ it.nextBlockPosition \in Nat
      /\ it.nextBlockPosition \in 1 .. DataEnd
  BY RangeFacts DEF RangeOK
<1>2. \A j : RangeOK(j) /\ Available(j) > 0 =>
               NextUnit(j) = Block(j)[j.blockOffset + 1] /\ NextUnit(j) # LogEnd(entries)
  <2> SUFFICES ASSUME NEW j, RangeOK(j), Available(j) > 0
               PROVE  NextUnit(j) = Block(j)[j.blockOffset + 1] /\ NextUnit(j) # LogEnd(entries)
    OBVIOUS
  <2>1. /\ Chain(entries, Block(j)) /\ Len(Block(j)) \in Nat /\ j.blockOffset \in Nat
        /\ j.blockOffset \in 0 .. Len(Block(j))
    BY RangeFacts DEF RangeOK
  <2>2. j.blockOffset + 1 \in 1 .. Len(Block(j))
    BY <2>1 DEF Available
  <2>3. Block(j)[j.blockOffset + 1] \in UnitOf(entries)
    BY <1>0, <2>1, <2>2, ChainFacts
  <2> QED
    BY <2>3, EndNoUnit DEF NextUnit
<1>3. CASE Available(it) > 0
  <2>1. i = it
    BY <1>3 DEF EnsureAvailable
  <2> QED
    BY <1>2, <1>3, <2>1 DEF Same
<1>4. CASE ~(Available(it) > 0) /\ it.nextBlockPosition >= DataEnd
  <2>1. i = AtPosition(it, 0, 0)
    BY <1>4 DEF EnsureAvailable, AtPosition
  <2>2. /\ i \in LIter /\ i.blockPosition = 0 /\ i.blockOffset = 0
        /\ i.nextBlockPosition = it.nextBlockPosition /\ Same(i, it)
    <3>1. it \in LIter /\ 0 \in Nat
      BY <1>1
    <3> QED
      BY <2>1, <3>1, IterPosition
  <2>3. Block(i) = << >> /\ Len(Block(i)) = 0
    BY <1>0, <2>2 DEF Block
  <2>4. Available(i) = 0
    BY <2>2, <2>3 DEF Available
  <2>5. RangeOK(i)
    <3>1. i.keyRemaining <= i.keylen /\ i.valueRemaining <= i.valuelen
      BY <2>2 DEF RangeOK, Same
    <3> QED
      BY <1>0, <1>1, <2>2, <2>3, <3>1 DEF RangeOK
  <2>6. NextUnit(i) = LogEnd(entries) /\ NextUnit(it) = LogEnd(entries)
    BY <1>4, <2>2, <2>4 DEF NextUnit
  <2> QED
    BY <2>2, <2>4, <2>5, <2>6
<1>5. CASE ~(Available(it) > 0) /\ ~(it.nextBlockPosition >= DataEnd)
  <2> DEFINE p == it.nextBlockPosition
             j == SeekBlock(it, p)
  <2>1. i = [j EXCEPT !.entryCount = -1] /\ p \in 1 .. Len(w.file) /\ p < DataEnd
    BY <1>0, <1>1, <1>5 DEF EnsureAvailable
  <2>2. /\ RangeOK(j) /\ j.blockPosition = p /\ j.blockOffset = 0 /\ Same(j, it)
        /\ j.nextBlockPosition = NextBlock(p)
        /\ Block(j) = BlockAt(p) /\ NextUnit(j) = BlockAt(p)[1] /\ Available(j) > 0
    BY <2>1, SeekBlockFacts
  <2> HIDE DEF j
  <2>3. j \in LIter
    BY <2>2 DEF RangeOK
  <2>4. /\ i \in LIter /\ i.blockPosition = p /\ i.blockOffset = 0 /\ i.entryCount = -1
        /\ i.nextBlockPosition = NextBlock(p)
        /\ Same(i, it) /\ Same(i, j)
    <3>1. -1 \in Int
      OBVIOUS
    <3>2. i \in LIter /\ i.entryCount = -1
      BY <2>1, <2>3, <3>1 DEF LIter
    <3>3. i.blockPosition = p /\ i.blockOffset = 0 /\ i.nextBlockPosition = NextBlock(p) /\ Same(i, j)
      BY <2>1, <2>2, <2>3 DEF LIter, Same
    <3> QED
      BY <2>2, <3>2, <3>3 DEF Same
  <2>5. Block(i) = Block(j) /\ Available(i) = Available(j) /\ NextUnit(i) = NextUnit(j)
    BY <2>2, <2>4 DEF Block, Available, NextUnit
  <2>6. RangeOK(i)
    BY <2>2, <2>4, <2>5 DEF RangeOK, Same
  <2>7. NextUnit(it) = BlockAt(p)[1]
    BY <1>5 DEF NextUnit
  <2>8. Available(it) = 0
    BY <1>1, <1>5
  <2> QED
    BY <1>2, <2>1, <2>2, <2>4, <2>5, <2>6, <2>7, <2>8
<1> QED
  BY <1>3, <1>4, <1>5

\* One unit on in a block.
LEMMA StepUnit ==
  ASSUME Reading, NEW it, RangeOK(it), Available(it) > 0,
         NEW i \in LIter, i.blockPosition = it.blockPosition,
         i.nextBlockPosition = it.nextBlockPosition, i.blockOffset = it.blockOffset + 1,
         i.keyRemaining <= i.keylen, i.valueRemaining <= i.valuelen
  PROVE  /\ RangeOK(i) /\ Block(i) = Block(it)
         /\ NextUnit(i) = Succ(entries, Block(it)[it.blockOffset + 1])
<1> DEFINE b == Block(it)
           o == it.blockOffset
           p == it.blockPosition
<1>0. entries \in Seq(LIEntry) /\ Len(w.file) \in Nat /\ DataEnd = Len(w.file) + 1
  BY FileFacts
<1>1. /\ it \in LIter /\ Len(b) \in Nat /\ o \in Nat /\ o \in 0 .. Len(b) /\ Len(b) - o > 0
      /\ p \in 1 .. Len(w.file) /\ p # 0 /\ Chain(entries, b)
      /\ it.nextBlockPosition = NextBlock(p) /\ it.nextBlockPosition \in 1 .. DataEnd
  BY RangeFacts DEF RangeOK, Available
<1>2. Block(i) = b /\ b = BlockAt(p)
  BY DEF Block
<1>3. RangeOK(i)
  <2>1. o + 1 \in 0 .. Len(b) /\ p \in 0 .. Len(w.file)
    BY <1>0, <1>1
  <2> HIDE DEF b, o, p
  <2>2. i.blockPosition = p /\ i.blockOffset = o + 1
    BY DEF p, o
  <2> QED
    BY <1>1, <1>2, <2>1, <2>2 DEF RangeOK
<1>4. CASE o + 1 < Len(b)
  <2>1. Available(i) > 0
    BY <1>1, <1>2, <1>4 DEF Available
  <2>2. b[(o + 1) + 1] = Succ(entries, b[o + 1])
    <3>1. o + 1 \in 1 .. Len(b) - 1
      BY <1>1, <1>4
    <3> QED
      BY <1>0, <1>1, <3>1, ChainFacts
  <2>3. NextUnit(i) = b[(o + 1) + 1]
    BY <1>2, <2>1 DEF NextUnit
  <2> QED
    BY <1>2, <1>3, <2>2, <2>3
<1>5. CASE ~(o + 1 < Len(b))
  <2>1. o + 1 = Len(b)
    BY <1>1, <1>5
  <2>2. ~(Available(i) > 0)
    BY <1>1, <1>2, <2>1 DEF Available
  <2>3. After(entries, b) = Succ(entries, b[o + 1])
    BY <2>1 DEF After
  <2>4. NextUnit(i) = After(entries, b)
    <3>1. CASE NextBlock(p) = DataEnd
      <4>1. After(entries, b) = LogEnd(entries)
        BY <1>1, <1>2, <3>1, BlockFacts
      <4>2. it.nextBlockPosition >= DataEnd
        BY <1>0, <1>1, <3>1
      <4> QED
        BY <2>2, <4>1, <4>2 DEF NextUnit
    <3>2. CASE NextBlock(p) # DataEnd
      <4>1. BlockAt(NextBlock(p))[1] = After(entries, b)
        BY <1>1, <1>2, <3>2, BlockFacts
      <4>2. ~(it.nextBlockPosition >= DataEnd)
        BY <1>0, <1>1, <3>2
      <4> QED
        BY <1>1, <2>2, <4>1, <4>2 DEF NextUnit
    <3> QED
      BY <3>1, <3>2
  <2> QED
    BY <1>2, <1>3, <2>3, <2>4
<1> QED
  BY <1>4, <1>5

\* skip of one unit.
LEMMA SkipUnitFacts ==
  ASSUME Reading, NEW it, RangeOK(it), NEW j, j = SkipUnit(it)
  PROVE  /\ RangeOK(j) /\ Same(j, it)
         /\ NextUnit(it) # LogEnd(entries) =>
              /\ NextUnit(j) = Succ(entries, NextUnit(it))
              /\ j.blockPosition = EnsureAvailable(it).blockPosition
              /\ j.entryCount = EnsureAvailable(it).entryCount
<1> DEFINE i == EnsureAvailable(it)
<1>1. /\ RangeOK(i) /\ Same(i, it)
      /\ Available(i) > 0 <=> NextUnit(it) # LogEnd(entries)
      /\ Available(i) > 0 => Block(i)[i.blockOffset + 1] = NextUnit(it)
  BY EnsureFacts
<1>2. j = IF Available(i) = 0 THEN i ELSE [i EXCEPT !.blockOffset = i.blockOffset + 1]
  BY DEF SkipUnit
<1> HIDE DEF i
<1>3. i \in LIter /\ Available(i) \in Nat /\ i.blockOffset \in Nat
  BY <1>1, RangeFacts
<1>4. CASE Available(i) = 0
  <2>1. j = i
    BY <1>2, <1>4
  <2> QED
    BY <1>1, <1>4, <2>1
<1>5. CASE Available(i) # 0
  <2>1. Available(i) > 0
    BY <1>3, <1>5
  <2> DEFINE o == i.blockOffset + 1
  <2>2. j = [i EXCEPT !.blockOffset = o] /\ i \in LIter /\ o \in Nat
    BY <1>2, <1>3, <1>5
  <2>3. /\ j \in LIter /\ j.blockPosition = i.blockPosition /\ j.blockOffset = o
        /\ j.nextBlockPosition = i.nextBlockPosition
        /\ j.entryCount = i.entryCount /\ Same(j, i)
    <3> HIDE DEF o
    <3> QED
      BY <2>2, IterOffset
  <2>4. j.keyRemaining <= j.keylen /\ j.valueRemaining <= j.valuelen /\ Same(j, it)
    BY <1>1, <2>3 DEF RangeOK, Same
  <2>5. /\ RangeOK(j) /\ Block(j) = Block(i)
        /\ NextUnit(j) = Succ(entries, Block(i)[i.blockOffset + 1])
    BY <1>1, <2>1, <2>3, <2>4, StepUnit
  <2> QED
    BY <1>1, <2>1, <2>3, <2>4, <2>5 DEF i
<1> QED
  BY <1>4, <1>5

\* The block in which the entry begins, and the place of the iterator.
Place(it, a) ==
  /\ it.entryBlockPosition \in 1 .. Len(w.file)
  /\ BlockAt(it.entryBlockPosition)[1][2] = 1
  /\ AtHome(it, a) \/ Away(it, a)

\* Only some fields matter for the place.
LEMMA PlaceSame ==
  ASSUME NEW i, NEW it, NEW a, Place(it, a), i.blockPosition = it.blockPosition,
         i.entryCount = it.entryCount, i.entryBlockPosition = it.entryBlockPosition
  PROVE  Place(i, a)
BY DEF Place, AtHome, Away, Block

\* An iterator that goes to the next block inside an entry stays in the entry.
LEMMA EnsurePlace ==
  ASSUME Reading, NEW it, RangeOK(it), NEW a \in 1 .. Len(entries), NEW k \in Nat,
         1 < k, k <= Size(entries, a), NextUnit(it) = <<a, k>>, Place(it, a),
         NEW i, i = EnsureAvailable(it)
  PROVE  Place(i, a)
<1>0. /\ entries \in Seq(LIEntry) /\ Len(w.file) \in Nat /\ DataEnd = Len(w.file) + 1
      /\ Len(entries) \in Nat /\ w.compressed \in BOOLEAN
  BY FileFacts
<1>1. NextUnit(it) # LogEnd(entries)
  BY <1>0 DEF LogEnd
<1>2. /\ Same(i, it)
      /\ \/ i = it
         \/ /\ Available(it) = 0 /\ it.nextBlockPosition < DataEnd
            /\ i.blockPosition = it.nextBlockPosition /\ i.blockOffset = 0
            /\ i.entryCount = -1 /\ Block(i)[1] = NextUnit(it)
  BY <1>1, EnsureFacts
<1>3. CASE i = it
  BY <1>3
<1>4. CASE i # it
  <2> DEFINE p == it.blockPosition
             e == it.entryBlockPosition
  <2>1. /\ Available(it) = 0 /\ it.nextBlockPosition < DataEnd
        /\ i.blockPosition = it.nextBlockPosition
        /\ Block(i)[1] = <<a, k>> /\ i.entryBlockPosition = e
    BY <1>2, <1>4 DEF Same
  <2>2. e \in 1 .. Len(w.file) /\ BlockAt(e)[1][2] = 1
    BY DEF Place
  <2>3. p # 0 /\ p \in 1 .. Len(w.file) /\ it.nextBlockPosition = NextBlock(p)
    <3>1. p # 0
      BY <1>0, <2>2 DEF Place, AtHome, Away
    <3> QED
      BY <3>1, RangeFacts DEF RangeOK
  <2>4. w.compressed
    BY <1>0, <2>1, <2>3 DEF NextBlock
  <2>5. i.blockPosition # 0 /\ Block(i)[1][1] = a /\ Block(i)[1][2] # 1
    <3>1. NextBlock(p) \in p + 1 .. DataEnd
      BY <2>3, BlockFacts
    <3> QED
      BY <1>0, <2>1, <2>3, <3>1
  <2> DEFINE home == BlockAt(e)
  <2>6. home[Len(home)][1] = a /\ home[Len(home)][2] < Size(entries, a)
    <3>1. CASE Away(it, a)
      BY <3>1 DEF Away
    <3>2. CASE AtHome(it, a)
      <4>1. p = e
        BY <3>2 DEF AtHome
      <4>2. BlockAt(NextBlock(p))[1] = After(entries, home) /\ Chain(entries, home)
        BY <1>0, <2>1, <2>3, <4>1, BlockFacts
      <4>3. Succ(entries, home[Len(home)]) = <<a, k>>
        BY <2>1, <2>3, <4>2 DEF After, Block
      <4> DEFINE u == home[Len(home)]
      <4>4. /\ u[1] \in Nat /\ u[2] \in Nat /\ u[2] \in 1 .. Size(entries, u[1])
            /\ Size(entries, u[1]) \in Nat
        BY <1>0, <4>2, ChainFacts, UnitFacts
      <4> HIDE DEF u, home
      <4>5. Succ(entries, u) = <<a, k>>
        BY <4>3 DEF u
      <4>6. CASE u[2] < Size(entries, u[1])
        <5>1. <<u[1], u[2] + 1>> = <<a, k>>
          BY <4>5, <4>6 DEF Succ
        <5>2. u[1] = a
          BY <5>1
        <5> QED
          BY <4>6, <5>2 DEF u
      <4>7. CASE ~(u[2] < Size(entries, u[1]))
        <5>1. <<u[1] + 1, 1>> = <<a, k>>
          BY <4>5, <4>7 DEF Succ
        <5> QED
          BY <5>1
      <4> QED
        BY <4>6, <4>7
    <3> QED
      BY <3>1, <3>2 DEF Place
  <2> QED
    BY <2>1, <2>2, <2>4, <2>5, <2>6 DEF Place, Away
<1> QED
  BY <1>3, <1>4

\* The iterator is in entry a before unit k.
Spot(it, a, k) ==
  /\ RangeOK(it) /\ a \in 1 .. Len(entries)
  /\ NextUnit(it) = Canon(a, k) /\ Place(it, a)

\* One unit on in an entry.
LEMMA SpotStep ==
  ASSUME Reading, NEW it, NEW a, NEW k \in Nat, Spot(it, a, k),
         1 < k, k <= Size(entries, a), NEW j, j = SkipUnit(it)
  PROVE  Spot(j, a, k + 1) /\ Same(j, it)
<1>0. /\ entries \in Seq(LIEntry) /\ a \in 1 .. Len(entries) /\ Len(entries) \in Nat
      /\ RangeOK(it) /\ Place(it, a) /\ Size(entries, a) \in Nat
  BY FileFacts, SizeType DEF Spot
<1>1. NextUnit(it) = <<a, k>>
  BY DEF Spot, Canon
<1>2. NextUnit(it) # LogEnd(entries)
  BY <1>0, <1>1 DEF LogEnd
<1> DEFINE i == EnsureAvailable(it)
<1>3. Place(i, a)
  BY <1>0, <1>1, EnsurePlace
<1>4. Same(i, it)
  BY <1>0, EnsureFacts
<1>5. /\ RangeOK(j) /\ Same(j, it) /\ NextUnit(j) = Succ(entries, NextUnit(it))
      /\ j.blockPosition = i.blockPosition /\ j.entryCount = i.entryCount
  BY <1>0, <1>2, SkipUnitFacts
<1> HIDE DEF i
<1>6. j.entryBlockPosition = i.entryBlockPosition
  BY <1>4, <1>5 DEF Same
<1>7. Place(j, a)
  BY <1>3, <1>5, <1>6, PlaceSame
<1>8. NextUnit(j) = Canon(a, k + 1)
  <2>1. <<a, k>>[1] = a /\ <<a, k>>[2] = k
    OBVIOUS
  <2>2. Succ(entries, <<a, k>>) = Canon(a, k + 1)
    BY <1>0, <2>1 DEF Succ, Canon
  <2> QED
    BY <1>1, <1>5, <2>2
<1> QED
  BY <1>0, <1>5, <1>7, <1>8 DEF Spot

Iters == {i \in LIter : RangeOK(i)}

\* The length of the counting sequence that Repeat folds over.
LEMMA Counting ==
  ASSUME NEW n \in Nat
  PROVE  /\ DOMAIN [k \in 1 .. n |-> k] = 1 .. n
         /\ \A s \in SUBSET (1 .. n) : s # {} => Max(s) \in 1 .. n
BY MaxIn

\* skip is a step for each unit: the iterators in between.
LEMMA SkipChain ==
  ASSUME Reading, NEW it, RangeOK(it), NEW n \in Nat
  PROVE  \E G : /\ G[0] = it
                /\ \A k \in 0 .. n - 1 : G[k + 1] = SkipUnit(G[k])
                /\ Skip(it, n) = G[n]
<1> DEFINE D == DOMAIN [k \in 1 .. n |-> k]
           F == [k \in 1 .. n |-> [v \in Iters |-> SkipUnit(v)]]
           P(f) == f = [s \in SUBSET D |-> IF s = {} THEN it ELSE SkipUnit(f[s \ {Max(s)}])]
           f0 == CHOOSE f : P(f)
           G == [k \in 0 .. n |-> f0[1 .. k]]
<1>1. Skip(it, n) = f0[D]
  BY DEF Skip, Repeat, FoldLeft, MapThenFoldSet
<1>2. D = 1 .. n /\ it \in Iters
  BY RangeFacts DEF Iters
<1> HIDE DEF D
<1>3. \A k \in 1 .. n : F[k] \in [Iters -> Iters]
  <2>1. \A v \in Iters : SkipUnit(v) \in Iters
    BY SkipUnitFacts, RangeFacts DEF Iters
  <2> QED
    BY <2>1
<1>4. PICK f \in [SUBSET (1 .. n) -> Iters] : IsFold(f, it, n, F)
  <2> HIDE DEF F
  <2> QED
    BY <1>2, <1>3, FoldExists
<1>5. P(f)
  <2>1. ASSUME NEW s \in SUBSET (1 .. n), s # {}
        PROVE  F[Max(s)][f[s \ {Max(s)}]] = SkipUnit(f[s \ {Max(s)}])
    <3>1. Max(s) \in 1 .. n
      BY <2>1, Counting
    <3>2. f[s \ {Max(s)}] \in Iters
      OBVIOUS
    <3> QED
      BY <3>1, <3>2
  <2> HIDE DEF F
  <2>2. [s \in SUBSET D |-> IF s = {} THEN it ELSE SkipUnit(f[s \ {Max(s)}])]
        = [s \in SUBSET (1 .. n) |-> IF s = {} THEN it ELSE F[Max(s)][f[s \ {Max(s)}]]]
    BY <1>2, <2>1
  <2> QED
    BY <1>4, <2>2 DEF IsFold
<1>6. P(f0)
  <2> HIDE DEF P
  <2> QED
    BY <1>5
<1>7. G[0] = it
  <2>1. {} \in SUBSET D /\ 1 .. 0 = {} /\ 0 \in 0 .. n
    BY <1>2
  <2> HIDE DEF f0
  <2>2. f0[{}] = it
    BY Zenon, <1>6, <2>1
  <2> QED
    BY <2>1, <2>2
<1>8. ASSUME NEW k \in 0 .. n - 1
      PROVE  G[k + 1] = SkipUnit(G[k])
  <2>1. /\ k \in Nat /\ k \in 0 .. n /\ k + 1 \in 0 .. n /\ 1 .. (k + 1) \in SUBSET D
    BY <1>2
  <2> HIDE DEF f0
  <2>2. f0[1 .. (k + 1)] = SkipUnit(f0[(1 .. (k + 1)) \ {Max(1 .. (k + 1))}])
    BY Zenon, <1>6, <2>1, Interval
  <2> QED
    BY <2>1, <2>2, Interval
<1>9. Skip(it, n) = G[n]
  BY <1>1, <1>2
<1> HIDE DEF G
<1> QED
  BY <1>7, <1>8, <1>9

\* skip of n units of an entry.
LEMMA SkipSpot ==
  ASSUME Reading, NEW it, NEW a, NEW k \in Nat, NEW n \in Nat, Spot(it, a, k),
         1 < k, k + n <= Size(entries, a) + 1, NEW j, j = Skip(it, n)
  PROVE  Spot(j, a, k + n) /\ Same(j, it)
<1>0. RangeOK(it) /\ Size(entries, a) \in Nat
  BY FileFacts, SizeType DEF Spot
<1>1. PICK G : /\ G[0] = it
               /\ \A m \in 0 .. n - 1 : G[m + 1] = SkipUnit(G[m])
               /\ Skip(it, n) = G[n]
  BY <1>0, SkipChain
<1> DEFINE S == {m \in Nat : m <= n => Spot(G[m], a, k + m) /\ Same(G[m], it)}
<1>2. 0 \in S
  <2>1. Same(it, it) /\ k + 0 = k
    BY DEF Same
  <2> QED
    BY <1>1, <2>1
<1>3. ASSUME NEW m \in Nat, m \in S PROVE m + 1 \in S
  <2>0. m + 1 \in Nat
    OBVIOUS
  <2> SUFFICES ASSUME m + 1 <= n PROVE Spot(G[m + 1], a, k + (m + 1)) /\ Same(G[m + 1], it)
    BY Zenon, <2>0
  <2>1. /\ m <= n /\ k + m \in Nat /\ 1 < k + m /\ k + m <= Size(entries, a)
        /\ m \in 0 .. n - 1 /\ (k + m) + 1 = k + (m + 1)
    BY <1>0
  <2>2. Spot(G[m], a, k + m) /\ Same(G[m], it) /\ G[m + 1] = SkipUnit(G[m])
    BY <1>1, <1>3, <2>1
  <2> DEFINE c == k + m
  <2>3. Spot(G[m + 1], a, c + 1) /\ Same(G[m + 1], G[m])
    <3>1. c \in Nat /\ 1 < c /\ c <= Size(entries, a) /\ Spot(G[m], a, c)
      BY <2>1, <2>2
    <3> HIDE DEF c
    <3> QED
      BY <2>2, <3>1, SpotStep
  <2> QED
    BY <2>1, <2>2, <2>3 DEF Same
<1> HIDE DEF S
<1>4. Nat \subseteq S
  BY <1>2, <1>3, SetInduction
<1> QED
  BY <1>1, <1>4 DEF S

(***************************************************************************)
(* sparkey_logiter_next.                                                   *)
(***************************************************************************)

\* The order of the units.
Before(u, v) == u[1] < v[1] \/ (u[1] = v[1] /\ u[2] < v[2])

\* It is transitive.
LEMMA BeforeTrans ==
  ASSUME NEW u, NEW v, NEW x, Before(u, v), Before(v, x),
         NEW u1 \in Nat, NEW u2 \in Nat, NEW v1 \in Nat, NEW v2 \in Nat, NEW x1 \in Nat, NEW x2 \in Nat,
         u1 = u[1], u2 = u[2], v1 = v[1], v2 = v[2], x1 = x[1], x2 = x[2]
  PROVE  Before(u, x)
<1>1. (u1 < v1 \/ (u1 = v1 /\ u2 < v2)) /\ (v1 < x1 \/ (v1 = x1 /\ v2 < x2))
  BY DEF Before
<1>2. u1 < x1 \/ (u1 = x1 /\ u2 < x2)
  BY <1>1
<1> QED
  BY <1>2 DEF Before

\* A chain is in that order.
LEMMA ChainOrder ==
  ASSUME NEW es \in Seq(LIEntry), NEW b, Chain(es, b), NEW i \in 1 .. Len(b), NEW j \in 1 .. Len(b),
         i < j
  PROVE  Before(b[i], b[j])
<1>0. /\ Len(b) \in Nat /\ \A k \in 1 .. Len(b) : b[k] \in UnitOf(es)
      /\ \A k \in 1 .. Len(b) - 1 : b[k + 1] = Succ(es, b[k])
  BY ChainFacts
<1>1. ASSUME NEW u \in UnitOf(es)
      PROVE  Before(u, Succ(es, u)) /\ u[1] \in Nat /\ u[2] \in Nat
  <2>1. u[1] \in Nat /\ u[2] \in Nat /\ Size(es, u[1]) \in Nat
    BY UnitFacts
  <2> QED
    BY <2>1 DEF Before, Succ
<1> DEFINE S == {d \in Nat : i + (d + 1) <= Len(b) => Before(b[i], b[i + (d + 1)])}
<1>2. 0 \in S
  <2> SUFFICES ASSUME i + (0 + 1) <= Len(b) PROVE Before(b[i], b[i + (0 + 1)])
    OBVIOUS
  <2>1. i \in 1 .. Len(b) - 1 /\ i + (0 + 1) = i + 1
    BY <1>0
  <2>2. b[i + 1] = Succ(es, b[i]) /\ b[i] \in UnitOf(es)
    BY <1>0, <2>1
  <2> QED
    BY <1>1, <2>1, <2>2
<1>3. ASSUME NEW d \in Nat, d \in S PROVE d + 1 \in S
  <2>0. d + 1 \in Nat
    OBVIOUS
  <2> SUFFICES ASSUME i + ((d + 1) + 1) <= Len(b) PROVE Before(b[i], b[i + ((d + 1) + 1)])
    BY Zenon, <2>0
  <2> DEFINE m == i + (d + 1)
  <2>1. m \in 1 .. Len(b) - 1 /\ m \in 1 .. Len(b) /\ i + ((d + 1) + 1) = m + 1 /\ m <= Len(b)
    BY <1>0
  <2>2. Before(b[i], b[m])
    BY <1>3, <2>1
  <2> HIDE DEF m
  <2>3. b[m + 1] = Succ(es, b[m]) /\ b[m] \in UnitOf(es) /\ m + 1 \in 1 .. Len(b)
    BY <1>0, <2>1
  <2>4. b[m + 1] \in UnitOf(es) /\ b[i] \in UnitOf(es)
    BY <1>0, <2>3
  <2>5. Before(b[m], b[m + 1])
    BY <1>1, <2>3
  <2>6. Before(b[i], b[m + 1])
    <3>1. /\ b[i][1] \in Nat /\ b[i][2] \in Nat /\ b[m][1] \in Nat /\ b[m][2] \in Nat
          /\ b[m + 1][1] \in Nat /\ b[m + 1][2] \in Nat
      BY <1>1, <2>3, <2>4
    <3> QED
      BY <2>2, <2>5, <3>1, BeforeTrans
  <2> QED
    BY <2>1, <2>6
<1> HIDE DEF S
<1>4. Nat \subseteq S
  BY <1>2, <1>3, SetInduction
<1>5. (j - i) - 1 \in Nat /\ i + (((j - i) - 1) + 1) = j
  OBVIOUS
<1>6. (j - i) - 1 \in S
  BY <1>4, <1>5
<1> QED
  BY <1>0, <1>5, <1>6 DEF S

\* When the units of an entry are read, the next entry is before the iterator.
LEMMA EntryEnd ==
  ASSUME Reading, NEW it, NEW a, Spot(it, a, Size(entries, a) + 1)
  PROVE  BeforeEntry(it, a + 1)
<1>0. /\ entries \in Seq(LIEntry) /\ Len(entries) \in Nat /\ a \in 1 .. Len(entries) /\ RangeOK(it)
      /\ Size(entries, a) \in Nat /\ Len(w.file) \in Nat
  BY FileFacts, SizeType DEF Spot
<1>1. NextUnit(it) = <<a + 1, 1>> /\ a + 1 \in 1 .. Len(entries) + 1
  BY <1>0 DEF Spot, Canon
<1>2. ASSUME Available(it) > 0
      PROVE  it.entryCount = (a + 1) - Block(it)[1][1] - 1 /\ Block(it)[1][2] = 1
  <2> DEFINE b == Block(it)
             o == it.blockOffset
             home == BlockAt(it.entryBlockPosition)
  <2>1. /\ Chain(entries, b) /\ o \in Nat /\ Len(b) \in Nat /\ o + 1 \in 1 .. Len(b)
        /\ it.blockPosition \in 1 .. Len(w.file)
    BY SMTT(40), <1>2, RangeFacts, <1>0 DEF Available
  <2>2. b[o + 1] = <<a + 1, 1>>
    BY <1>1, <1>2 DEF NextUnit
  <2>3. b[1] \in UnitOf(entries) /\ b[Len(b)] \in UnitOf(entries)
    BY <1>0, <2>1, ChainFacts
  <2>4. b[1][1] \in Nat /\ b[Len(b)][1] \in Nat /\ b[Len(b)][2] \in Nat
    BY <1>0, <2>3, UnitFacts
  <2>5. b[Len(b)][1] >= a + 1
    <3>1. CASE o + 1 = Len(b)
      BY <1>0, <2>2, <3>1
    <3>2. CASE o + 1 # Len(b)
      <4>1. o + 1 < Len(b) /\ Len(b) \in 1 .. Len(b)
        BY <2>1, <3>2
      <4>2. Before(b[o + 1], b[Len(b)])
        BY <1>0, <2>1, <4>1, ChainOrder
      <4> HIDE DEF b, o
      <4> QED
        BY SMTT(40), <1>0, <2>2, <2>4, <4>2 DEF Before
    <3> QED
      BY <3>1, <3>2
  <2>6. ~Away(it, a)
    <3> SUFFICES ASSUME Away(it, a) PROVE FALSE
      OBVIOUS
    <3>1. /\ w.compressed /\ home[Len(home)][1] = a
          /\ \/ it.blockPosition = it.entryBlockPosition
             \/ b[1][1] = a /\ b[1][2] # 1
      BY DEF Away
    <3>2. CASE it.blockPosition = it.entryBlockPosition
      <4>1. home = b
        BY <3>2 DEF Block
      <4> QED
        BY <1>0, <2>5, <3>1, <4>1
    <3>3. CASE b[1][1] = a /\ b[1][2] # 1
      <4>1. \A k \in 1 .. Len(b) : b[k][1] = b[1][1]
        BY <2>1, <3>1, <3>3, BlockParses DEF Block, Parses
      <4>2. b[o + 1][1] = a
        BY <2>1, <3>3, <4>1
      <4> QED
        BY <1>0, <2>2, <4>2
    <3> QED
      BY <3>1, <3>2, <3>3
  <2>7. AtHome(it, a) /\ BlockAt(it.entryBlockPosition)[1][2] = 1
    BY <2>6 DEF Spot, Place
  <2>8. it.entryCount = a - b[1][1] /\ b[1][2] = 1
    BY <2>7 DEF AtHome, Block
  <2> DEFINE c == b[1][1]
  <2>9. it.entryCount = a - c /\ c \in Nat
    BY <2>4, <2>8
  <2> HIDE DEF c
  <2>10. it.entryCount = (a + 1) - c - 1
    BY <1>0, <2>9
  <2> QED
    BY <2>8, <2>10 DEF c
<1> QED
  BY <1>1, <1>2 DEF BeforeEntry

\* ensure_available before an entry.
LEMMA EnsureBefore ==
  ASSUME Reading, NEW it, RangeOK(it), NEW j, BeforeEntry(it, j), NEW i, i = EnsureAvailable(it)
  PROVE  /\ RangeOK(i) /\ Same(i, it) /\ BeforeEntry(i, j) /\ j \in 1 .. Len(entries) + 1
         /\ Available(i) > 0 <=> j \in 1 .. Len(entries)
         /\ Available(i) > 0 => Block(i)[i.blockOffset + 1] = <<j, 1>>
<1>0. Len(entries) \in Nat /\ j \in 1 .. Len(entries) + 1 /\ NextUnit(it) = <<j, 1>>
  BY FileFacts DEF BeforeEntry
<1>1. /\ RangeOK(i) /\ Same(i, it) /\ NextUnit(i) = NextUnit(it)
      /\ Available(i) > 0 <=> NextUnit(it) # LogEnd(entries)
      /\ Available(i) > 0 => Block(i)[i.blockOffset + 1] = NextUnit(it)
      /\ Available(i) > 0 =>
              \/ i = it
              \/ /\ i.entryCount = -1 /\ Block(i)[1] = NextUnit(it)
  BY EnsureFacts
<1>2. Available(i) > 0 <=> j \in 1 .. Len(entries)
  BY <1>0, <1>1 DEF LogEnd
<1>3. BeforeEntry(i, j)
  <2>1. ASSUME Available(i) > 0, i # it
        PROVE  i.entryCount = j - Block(i)[1][1] - 1 /\ Block(i)[1][2] = 1
    BY <1>0, <1>1, <2>1
  <2> QED
    BY <1>0, <1>1, <2>1 DEF BeforeEntry
<1> QED
  BY <1>0, <1>1, <1>2, <1>3

\* The iterator where read_vlq takes the lengths of entry j.
AtLengths(x, j) ==
  /\ RangeOK(x) /\ Available(x) > 0 /\ j \in 1 .. Len(entries)
  /\ Block(x)[x.blockOffset + 1] = <<j, 1>> /\ Block(x)[1][2] = 1
  /\ x.entryCount = j - Block(x)[1][1] - 1
  /\ ~w.compressed => Block(x)[1][1] = j

\* An iterator that begins a block of an uncompressed log.
LEMMA IterRebase ==
  ASSUME NEW it \in LIter, NEW p \in Nat,
         NEW i, i = [it EXCEPT !.blockPosition = p, !.blockOffset = 0, !.entryCount = -1]
  PROVE  /\ i \in LIter /\ i.blockPosition = p /\ i.blockOffset = 0
         /\ i.nextBlockPosition = it.nextBlockPosition
         /\ i.entryCount = -1 /\ Same(i, it)
<1>1. i \in LIter
  <2>1. -1 \in Int
    OBVIOUS
  <2> QED
    BY <2>1 DEF LIter
<1> QED
  BY <1>1 DEF LIter, Same

\* In an uncompressed log the entry begins a block.
LEMMA RebaseFacts ==
  ASSUME Reading, NEW i, RangeOK(i), NEW j \in 1 .. Len(entries), Available(i) > 0,
         BeforeEntry(i, j), NEW x, x = Rebase(i)
  PROVE  AtLengths(x, j) /\ Same(x, i)
<1>0. /\ entries \in Seq(LIEntry) /\ Len(w.file) \in Nat /\ DataEnd = Len(w.file) + 1
      /\ w.compressed \in BOOLEAN /\ Len(entries) \in Nat
  BY FileFacts
<1> DEFINE b == Block(i)
           o == i.blockOffset
           p == i.blockPosition
<1>1. /\ i \in LIter /\ o \in Nat /\ Len(b) \in Nat /\ o + 1 \in 1 .. Len(b) /\ Chain(entries, b)
      /\ p \in 1 .. Len(w.file) /\ p \in Nat /\ p # 0
      /\ i.nextBlockPosition = NextBlock(p)
  BY SMTT(40), RangeFacts DEF Available, RangeOK
<1>2. /\ b[o + 1] = <<j, 1>> /\ i.entryCount = j - b[1][1] - 1 /\ b[1][2] = 1
  BY DEF BeforeEntry, NextUnit
<1>3. CASE w.compressed
  <2>1. x = i
    BY <1>3 DEF Rebase
  <2> QED
    BY <1>2, <1>3, <2>1 DEF AtLengths, Same
<1>4. CASE ~w.compressed
  <2> DEFINE q == p + o
  <2>1. q \in Nat /\ q # 0 /\ x = [i EXCEPT !.blockPosition = q, !.blockOffset = 0, !.entryCount = -1]
    BY <1>1, <1>4 DEF Rebase
  <2>2. /\ x \in LIter /\ x.blockPosition = q /\ x.blockOffset = 0
        /\ x.nextBlockPosition = i.nextBlockPosition
        /\ x.entryCount = -1 /\ Same(x, i)
    <3> HIDE DEF q
    <3> QED
      BY <1>1, <2>1, IterRebase
  <2>3. Chain(entries, w.file) /\ w.file # << >>
    BY <1>0, <1>4 DEF Reading, WriterInv, PlainOK
  <2>4. b = SubSeq(w.file, p, Len(w.file)) /\ Block(x) = SubSeq(w.file, q, Len(w.file))
    BY <1>1, <1>4, <2>1, <2>2 DEF Block, BlockAt
  <2>5. Len(b) = Len(w.file) - p + 1 /\ \A k \in 1 .. Len(b) : b[k] = w.file[p + k - 1]
    <3>1. p \in 1 .. Len(w.file) /\ b = SubSeq(w.file, p, Len(w.file))
      BY <1>1, <2>4
    <3> HIDE DEF p, b
    <3> QED
      BY <1>0, <2>3, <3>1, SuffixChain
  <2>6. q \in 1 .. Len(w.file)
    <3>1. Len(b) = Len(w.file) - p + 1 /\ o + 1 \in 1 .. Len(b) /\ p \in 1 .. Len(w.file) /\ o \in Nat
      BY <1>1, <2>5
    <3> HIDE DEF p, b, o
    <3> QED
      BY <1>0, <3>1
  <2>7. /\ Len(Block(x)) = Len(w.file) - q + 1
        /\ \A k \in 1 .. Len(Block(x)) : Block(x)[k] = w.file[q + k - 1]
    BY SMTT(40), <1>0, <2>3, <2>4, <2>6, SuffixChain
  <2>8. Block(x)[1] = <<j, 1>>
    <3>0. 1 \in 1 .. Len(Block(x)) /\ q + 1 - 1 = q
      BY <1>0, <2>1, <2>6, <2>7
    <3>1. 1 \in 1 .. Len(Block(x)) /\ q + 1 - 1 = q /\ p + (o + 1) - 1 = q
      <4>1. p \in Nat /\ o \in Nat
        BY <1>1
      <4> HIDE DEF p, o
      <4> QED
        BY <3>0, <4>1
    <3>2. Block(x)[1] = w.file[q] /\ b[o + 1] = w.file[q]
      BY <1>1, <2>5, <2>7, <3>1
    <3> QED
      BY <1>2, <3>2
  <2>9. RangeOK(x)
    <3>1. x.keyRemaining <= x.keylen /\ x.valueRemaining <= x.valuelen
      BY <2>2 DEF RangeOK, Same
    <3>2. NextBlock(q) = DataEnd /\ NextBlock(p) = DataEnd
      BY <1>4 DEF NextBlock
    <3>3. Len(Block(x)) \in Nat /\ 0 \in 0 .. Len(Block(x)) /\ q \in 0 .. Len(w.file)
      BY <1>0, <2>6, <2>7
    <3>4. DataEnd \in 1 .. DataEnd
      BY <1>0
    <3> HIDE DEF q, p, o, b
    <3> QED
      BY <1>1, <2>2, <3>1, <3>2, <3>3, <3>4 DEF RangeOK
  <2>10. Available(x) > 0
    BY <1>0, <2>2, <2>6, <2>7 DEF Available
  <2>11. x.entryCount = j - Block(x)[1][1] - 1 /\ Block(x)[1][2] = 1 /\ Block(x)[1][1] = j
    BY <1>0, <2>2, <2>8
  <2>12. Block(x)[x.blockOffset + 1] = <<j, 1>>
    BY <2>2, <2>8
  <2> QED
    BY <2>2, <2>9, <2>10, <2>11, <2>12 DEF AtLengths
<1> QED
  BY <1>0, <1>3, <1>4

OnLengths(x, e, p, o, c) ==
  [x EXCEPT !.entryCount = c,
            !.type = e.type, !.keylen = e.klen, !.valuelen = e.vlen,
            !.keyRemaining = e.klen, !.valueRemaining = e.vlen,
            !.blockOffset = o, !.entryBlockPosition = p, !.entryBlockOffset = o,
            !.state = "active"]

\* The iterator after the lengths were read.
LEMMA IterRead ==
  ASSUME NEW x \in LIter, NEW e \in LIEntry, NEW p \in Nat, NEW o \in Nat, NEW c \in Int, NEW r,
         r = OnLengths(x, e, p, o, c)
  PROVE  /\ r \in LIter /\ r.entryCount = c /\ r.type = e.type
         /\ r.keylen = e.klen /\ r.valuelen = e.vlen
         /\ r.keyRemaining = e.klen /\ r.valueRemaining = e.vlen
         /\ r.blockOffset = o /\ r.entryBlockPosition = p /\ r.entryBlockOffset = o
         /\ r.state = "active" /\ r.blockPosition = x.blockPosition
         /\ r.nextBlockPosition = x.nextBlockPosition
<1>1. e.type \in {"put", "delete"} /\ e.klen \in Nat /\ e.vlen \in Nat
  BY DEF LIEntry
<1>2. r \in LIter
  BY <1>1 DEF LIter, OnLengths
<1> QED
  BY ZenonT(60), <1>2 DEF LIter, OnLengths

\* read_vlq of the two lengths puts the iterator on the entry, in its block.
LEMMA ReadFacts ==
  ASSUME Reading, NEW x, NEW j, AtLengths(x, j), NEW r, r = ReadEntry(x)
  PROVE  /\ IterOK(r, j) /\ r.state = "active" /\ AtHome(r, j) /\ Clean(r)
<1>0. /\ entries \in Seq(LIEntry) /\ Len(w.file) \in Nat /\ Len(entries) \in Nat
      /\ j \in 1 .. Len(entries) /\ RangeOK(x) /\ Available(x) > 0 /\ j \in Nat
  BY FileFacts DEF AtLengths
<1> DEFINE b == Block(x)
           o == x.blockOffset
           p == x.blockPosition
           e == entries[j]
<1>1. /\ x \in LIter /\ o \in Nat /\ Len(b) \in Nat /\ o + 1 \in 1 .. Len(b) /\ Chain(entries, b)
      /\ p \in 1 .. Len(w.file) /\ p \in Nat
  BY <1>0, RangeFacts DEF Available
<1>2. b[o + 1] = <<j, 1>> /\ x.entryCount = j - b[1][1] - 1 /\ b[1][2] = 1
  BY DEF AtLengths
<1>3. Size(entries, j) \in Nat /\ Size(entries, j) >= 2 /\ e \in LIEntry
  BY <1>0, SizeType
<1>4. o + 1 < Len(b)
  <2>1. b[Len(b)][2] # 1
    BY <1>1, BlockFacts DEF Block
  <2>2. b[o + 1][2] = 1
    BY <1>2
  <2> QED
    BY <1>1, <2>1, <2>2
<1>5. b[(o + 1) + 1] = <<j, 2>>
  <2>1. o + 1 \in 1 .. Len(b) - 1
    BY <1>1, <1>4
  <2>2. b[(o + 1) + 1] = Succ(entries, <<j, 1>>)
    <3>1. \A k \in 1 .. Len(b) - 1 : b[k + 1] = Succ(entries, b[k])
      BY <1>0, <1>1, ChainFacts
    <3> HIDE DEF b, o
    <3> QED
      BY <1>2, <2>1, <3>1
  <2>3. <<j, 1>>[1] = j /\ <<j, 1>>[2] = 1
    OBVIOUS
  <2> QED
    BY <1>0, <1>3, <2>2, <2>3 DEF Succ
<1>6. EntryHere(x) = e
  <2>1. b[o + 1][1] = j /\ b[o + 1][2] = 1
    BY <1>2
  <2> QED
    BY <2>1 DEF EntryHere
<1> DEFINE c == x.entryCount + 1
<1>7. r = OnLengths(x, e, p, o + Prelude, c)
  BY <1>6 DEF ReadEntry, OnLengths
<1>8. /\ r \in LIter /\ r.entryCount = c /\ r.type = e.type
      /\ r.keylen = e.klen /\ r.valuelen = e.vlen
      /\ r.keyRemaining = e.klen /\ r.valueRemaining = e.vlen
      /\ r.blockOffset = o + Prelude /\ r.entryBlockPosition = p /\ r.entryBlockOffset = o + Prelude
      /\ r.state = "active" /\ r.blockPosition = p
      /\ r.nextBlockPosition = x.nextBlockPosition
  <2>1. c \in Int /\ o + Prelude \in Nat
    <3>1. x.entryCount \in Int
      BY <1>1 DEF LIter
    <3> QED
      BY <1>1, <3>1 DEF Prelude
  <2>2. x \in LIter /\ p \in Nat /\ e \in LIEntry
    BY <1>1, <1>3
  <2> DEFINE q == o + Prelude
  <2>3. q \in Nat
    BY <2>1
  <2> HIDE DEF q, e, c
  <2>4. r = OnLengths(x, e, p, q, c)
    BY <1>7 DEF q
  <2> HIDE DEF p
  <2>5. /\ r \in LIter /\ r.entryCount = c /\ r.type = e.type
        /\ r.keylen = e.klen /\ r.valuelen = e.vlen
        /\ r.keyRemaining = e.klen /\ r.valueRemaining = e.vlen
        /\ r.blockOffset = q /\ r.entryBlockPosition = p /\ r.entryBlockOffset = q
        /\ r.state = "active" /\ r.blockPosition = x.blockPosition
        /\ r.nextBlockPosition = x.nextBlockPosition
    <3>1. x \in LIter
      BY <2>2
    <3>2. e \in LIEntry
      BY <2>2
    <3>3. p \in Nat
      BY <2>2
    <3>4. c \in Int
      BY <2>1
    <3> QED
      BY <2>3, <2>4, <3>1, <3>2, <3>3, <3>4, IterRead
  <2> QED
    BY <2>5 DEF q, p
<1>9. r.keylen \in Nat /\ r.valuelen \in Nat /\ r.keyRemaining = r.keylen /\ r.valueRemaining = r.valuelen
  BY <1>8 DEF LIter
<1> DEFINE y == [x EXCEPT !.blockOffset = o + 1]
<1>10. /\ y \in LIter /\ y.blockPosition = p /\ y.blockOffset = o + 1
       /\ y.nextBlockPosition = x.nextBlockPosition /\ Same(y, x)
  <2> DEFINE q == o + 1
  <2>1. x \in LIter /\ q \in Nat /\ y = [x EXCEPT !.blockOffset = q]
    BY <1>1
  <2> HIDE DEF q, y
  <2>2. /\ y \in LIter /\ y.blockPosition = x.blockPosition /\ y.blockOffset = q
        /\ y.nextBlockPosition = x.nextBlockPosition /\ Same(y, x)
    BY <2>1, IterOffset
  <2> QED
    BY <2>2 DEF q
<1> HIDE DEF y
<1>11. y.keyRemaining <= y.keylen /\ y.valueRemaining <= y.valuelen
  BY <1>0, <1>10 DEF RangeOK, Same
<1>12. RangeOK(y) /\ Block(y) = b
  BY <1>0, <1>10, <1>11, StepUnit
<1>13. Available(y) > 0
  <2>1. Len(b) - (o + 1) > 0
    BY <1>1, <1>4
  <2> QED
    BY <1>10, <1>12, <2>1 DEF Available
<1>14. /\ RangeOK(r) /\ Block(r) = b
       /\ NextUnit(r) = Succ(entries, b[(o + 1) + 1])
  <2>1. r.blockOffset = y.blockOffset + 1
    BY <1>1, <1>8, <1>10 DEF Prelude
  <2>2. r.keyRemaining <= r.keylen /\ r.valueRemaining <= r.valuelen
    BY <1>9
  <2>3. /\ RangeOK(r) /\ Block(r) = Block(y)
        /\ NextUnit(r) = Succ(entries, Block(y)[y.blockOffset + 1])
    BY <1>8, <1>10, <1>12, <1>13, <2>1, <2>2, StepUnit
  <2> QED
    BY <1>10, <1>12, <2>3
<1>15. NextUnit(r) = Canon(j, Prelude + Read(r) + 1)
  <2>1. Read(r) = 0 /\ Prelude + 0 + 1 = 3
    BY <1>9 DEF Read, Prelude
  <2>2. <<j, 2>>[1] = j /\ <<j, 2>>[2] = 2
    OBVIOUS
  <2>3. Succ(entries, <<j, 2>>) = Canon(j, 3)
    BY <1>0, <1>3, <2>2 DEF Succ, Canon
  <2> QED
    BY <1>5, <1>14, <2>1, <2>3
<1>16. AtHome(r, j)
  <2>1. b[1][1] \in Nat
    BY <1>0, <1>1, ChainFacts, UnitFacts
  <2>2. r.entryCount = j - b[1][1]
    <3> DEFINE d == b[1][1]
    <3>1. d \in Nat /\ x.entryCount = j - d - 1 /\ r.entryCount = x.entryCount + 1
      BY <1>2, <1>8, <2>1
    <3> HIDE DEF d
    <3>2. r.entryCount = j - d
      BY <1>0, <3>1
    <3> QED
      BY <3>2 DEF d
  <2> QED
    BY <1>8, <1>14, <2>2 DEF AtHome
<1>17. /\ BlockAt(p) = b /\ o + Prelude \in Prelude .. Len(b) /\ b[o + Prelude] = <<j, Prelude>>
  BY SMTT(40), <1>1, <1>4, <1>5 DEF Block, Prelude
<1>18. OnEntry(r, j)
  <2>1. /\ r.entryBlockPosition \in 1 .. Len(w.file)
        /\ r.entryBlockOffset \in Prelude .. Len(BlockAt(r.entryBlockPosition))
        /\ BlockAt(r.entryBlockPosition)[r.entryBlockOffset] = <<j, Prelude>>
        /\ BlockAt(r.entryBlockPosition)[1][2] = 1
        /\ ~w.compressed => BlockAt(r.entryBlockPosition)[1][1] = j
    BY <1>1, <1>2, <1>8, <1>17 DEF AtLengths
  <2>2. j \in DOMAIN entries
    BY <1>0
  <2> HIDE DEF e, b, o, p, c
  <2> QED
    BY <1>8, <1>9, <1>15, <1>16, <2>1, <2>2 DEF OnEntry, e
<1>19. j \in 0 .. Len(entries) + 1
  BY <1>0
<1> HIDE DEF e, b, o, p, c
<1>20. IterOK(r, j)
  BY <1>8, <1>14, <1>18, <1>19 DEF IterOK
<1> QED
  BY <1>8, <1>9, <1>16, <1>20 DEF Clean

\* An iterator that differs in no field that says where it is.
LEMMA RangeSame ==
  ASSUME NEW it, RangeOK(it), NEW i \in LIter, i.blockPosition = it.blockPosition,
         i.nextBlockPosition = it.nextBlockPosition, i.blockOffset = it.blockOffset,
         i.keyRemaining <= i.keylen, i.valueRemaining <= i.valuelen
  PROVE  /\ RangeOK(i) /\ Block(i) = Block(it) /\ Available(i) = Available(it)
         /\ NextUnit(i) = NextUnit(it)
<1>1. Block(i) = Block(it)
  BY DEF Block
<1>2. Available(i) = Available(it)
  BY <1>1 DEF Available
<1>3. NextUnit(i) = NextUnit(it)
  BY <1>1, <1>2 DEF NextUnit
<1>4. RangeOK(i)
  BY <1>1 DEF RangeOK
<1> QED
  BY <1>1, <1>2, <1>3, <1>4

\* The iterator that sparkey_logiter_next begins with.
LEMMA ClearedFacts ==
  ASSUME NEW it \in LIter, NEW c, c = Cleared(it)
  PROVE  /\ c \in LIter /\ c.blockPosition = it.blockPosition
         /\ c.nextBlockPosition = it.nextBlockPosition /\ c.blockOffset = it.blockOffset
         /\ c.entryCount = it.entryCount /\ c.entryBlockPosition = it.entryBlockPosition
         /\ c.entryBlockOffset = it.entryBlockOffset
         /\ c.keyRemaining <= c.keylen /\ c.valueRemaining <= c.valuelen
<1>1. c \in LIter
  BY DEF LIter, Cleared
<1>2. c.keyRemaining = 0 /\ c.keylen = 0 /\ c.valueRemaining = 0 /\ c.valuelen = 0
  BY <1>1 DEF LIter, Cleared
<1> QED
  BY <1>1, <1>2 DEF LIter, Cleared

\* An iterator with another state.
LEMMA IterState ==
  ASSUME NEW it \in LIter, NEW s \in {"new", "active", "closed", "invalid"},
         NEW i, i = [it EXCEPT !.state = s]
  PROVE  /\ i \in LIter /\ i.state = s /\ i.blockPosition = it.blockPosition
         /\ i.nextBlockPosition = it.nextBlockPosition /\ i.blockOffset = it.blockOffset
         /\ i.entryCount = it.entryCount /\ i.entryBlockPosition = it.entryBlockPosition
         /\ i.entryBlockOffset = it.entryBlockOffset /\ i.type = it.type
         /\ i.keylen = it.keylen /\ i.valuelen = it.valuelen
         /\ i.keyRemaining = it.keyRemaining /\ i.valueRemaining = it.valueRemaining
<1>1. i \in LIter
  BY DEF LIter
<1> QED
  BY <1>1 DEF LIter

\* What remains of an entry.
LEMMA OnEntryFacts ==
  ASSUME Reading, NEW it, RangeOK(it), NEW a, OnEntry(it, a)
  PROVE  /\ a \in 1 .. Len(entries) /\ Read(it) \in Nat /\ it.keyRemaining \in Nat
         /\ it.valueRemaining \in Nat /\ it.keylen \in Nat /\ it.valuelen \in Nat
         /\ Size(entries, a) \in Nat
         /\ Prelude + Read(it) + it.keyRemaining + it.valueRemaining = Size(entries, a)
         /\ Spot(it, a, Prelude + Read(it) + 1)
<1>1. /\ entries \in Seq(LIEntry) /\ a \in DOMAIN entries /\ Len(entries) \in Nat
      /\ it.keylen = entries[a].klen /\ it.valuelen = entries[a].vlen
  BY FileFacts DEF OnEntry
<1>2. a \in 1 .. Len(entries) /\ Size(entries, a) \in Nat
  BY <1>1, SizeType
<1>3. /\ it.keyRemaining \in Nat /\ it.valueRemaining \in Nat /\ it.keylen \in Nat
      /\ it.valuelen \in Nat /\ it.keyRemaining <= it.keylen /\ it.valueRemaining <= it.valuelen
  BY DEF RangeOK, LIter
<1>4. Read(it) \in Nat /\ Prelude + Read(it) + it.keyRemaining + it.valueRemaining = Size(entries, a)
  <2> DEFINE kl == it.keylen
             vl == it.valuelen
             kr == it.keyRemaining
             vr == it.valueRemaining
  <2>1. Read(it) = kl - kr + vl - vr /\ Size(entries, a) = 2 + kl + vl
    BY <1>1 DEF Read, Size, Prelude
  <2>2. kl \in Nat /\ vl \in Nat /\ kr \in Nat /\ vr \in Nat /\ kr <= kl /\ vr <= vl
    BY <1>3
  <2> HIDE DEF kl, vl, kr, vr
  <2>3. Read(it) \in Nat /\ 2 + Read(it) + kr + vr = Size(entries, a)
    BY <2>1, <2>2
  <2> QED
    BY <2>3 DEF kr, vr, Prelude
<1>5. Spot(it, a, Prelude + Read(it) + 1)
  BY <1>2 DEF Spot, OnEntry, Place
<1> QED
  BY <1>2, <1>3, <1>4, <1>5

\* Skipping what remains of entry a, or nothing, gets before the next entry.
LEMMA NextBefore ==
  ASSUME Reading, NEW it, NEW a, IterOK(it, a), it.state \in {"new", "active"}, NEW i2,
         LET active == it.state = "active"
             i1 == Skip(Cleared(it), IF active THEN it.keyRemaining ELSE 0)
         IN  i2 = Skip(i1, IF active THEN it.valueRemaining ELSE 0)
  PROVE  RangeOK(i2) /\ BeforeEntry(i2, a + 1)
<1> DEFINE c == Cleared(it)
<1>0. RangeOK(it) /\ it \in LIter
  BY DEF IterOK, RangeOK
<1>1. /\ c \in LIter /\ c.blockPosition = it.blockPosition
      /\ c.nextBlockPosition = it.nextBlockPosition /\ c.blockOffset = it.blockOffset
      /\ c.entryCount = it.entryCount /\ c.entryBlockPosition = it.entryBlockPosition
      /\ c.keyRemaining <= c.keylen /\ c.valueRemaining <= c.valuelen
  BY <1>0, ClearedFacts
<1> HIDE DEF c
<1>2. /\ RangeOK(c) /\ Block(c) = Block(it) /\ Available(c) = Available(it)
      /\ NextUnit(c) = NextUnit(it)
  BY <1>0, <1>1, RangeSame
<1>3. CASE it.state = "active"
  <2> DEFINE i1 == Skip(c, it.keyRemaining)
             k == Prelude + Read(it) + 1
             m == it.keyRemaining
             v == it.valueRemaining
  <2>1. i2 = Skip(i1, v)
    BY <1>3 DEF c
  <2>2. OnEntry(it, a)
    BY <1>3 DEF IterOK
  <2>3. /\ a \in 1 .. Len(entries) /\ Read(it) \in Nat /\ m \in Nat /\ v \in Nat
        /\ Size(entries, a) \in Nat /\ Prelude + Read(it) + m + v = Size(entries, a)
        /\ Spot(it, a, k)
    BY <1>0, <2>2, OnEntryFacts
  <2>4. Spot(c, a, k)
    <3>1. Place(c, a)
      BY <1>1, <2>3, PlaceSame DEF Spot
    <3> QED
      BY <1>2, <2>3, <3>1 DEF Spot
  <2>5. /\ k \in Nat /\ 1 < k /\ k + m <= Size(entries, a) + 1
        /\ k + m \in Nat /\ 1 < k + m /\ (k + m) + v = Size(entries, a) + 1
    <3> DEFINE rd == Read(it)
               sz == Size(entries, a)
    <3>1. rd \in Nat /\ m \in Nat /\ v \in Nat /\ sz \in Nat /\ 2 + rd + m + v = sz /\ k = 2 + rd + 1
      BY <2>3 DEF Prelude
    <3> HIDE DEF rd, sz, k, m, v
    <3>2. /\ k \in Nat /\ 1 < k /\ k + m <= sz + 1
          /\ k + m \in Nat /\ 1 < k + m /\ (k + m) + v = sz + 1
      BY <3>1
    <3> QED
      BY <3>2 DEF sz
  <2> HIDE DEF k, m, v
  <2>6. Spot(i1, a, k + m)
    <3>1. i1 = Skip(c, m)
      BY DEF m
    <3> HIDE DEF i1
    <3> QED
      BY <2>3, <2>4, <2>5, <3>1, SkipSpot
  <2> HIDE DEF i1
  <2>7. Spot(i2, a, (k + m) + v)
    <3> DEFINE d == k + m
    <3>1. d \in Nat /\ 1 < d /\ d + v <= Size(entries, a) + 1 /\ Spot(i1, a, d)
      BY <2>3, <2>5, <2>6
    <3> HIDE DEF d
    <3>2. Spot(i2, a, d + v)
      BY <2>1, <2>3, <3>1, SkipSpot
    <3> QED
      BY <3>2 DEF d
  <2>8. Spot(i2, a, Size(entries, a) + 1)
    BY <2>5, <2>7
  <2> QED
    BY <2>8, EntryEnd DEF Spot
<1>4. CASE it.state = "new"
  <2>1. i2 = Skip(Skip(c, 0), 0)
    BY <1>4 DEF c
  <2>2. Skip(c, 0) = c
    BY <1>2, SkipChain
  <2>3. i2 = c
    BY <2>1, <2>2
  <2>4. BeforeEntry(it, a + 1)
    BY <1>4 DEF IterOK
  <2> QED
    BY <1>1, <1>2, <2>3, <2>4 DEF BeforeEntry
<1> QED
  BY <1>3, <1>4

\* sparkey_logiter_next goes to the next entry, or closes the iterator.
LEMMA NextFacts ==
  ASSUME Reading, NEW it, NEW a, IterOK(it, a), it.state # "invalid", NEW r, r = NextEntry(it)
  PROVE  /\ a < Len(entries) => /\ IterOK(r, a + 1) /\ r.state = "active"
                                /\ AtHome(r, a + 1) /\ Clean(r)
         /\ a >= Len(entries) => IterOK(r, Len(entries) + 1) /\ r.state = "closed"
<1>0. /\ Len(entries) \in Nat /\ a \in 0 .. Len(entries) + 1 /\ RangeOK(it)
      /\ it.state \in {"new", "active", "closed"}
  BY FileFacts DEF IterOK, RangeOK, LIter
<1>1. CASE it.state = "closed"
  <2>1. r = it /\ a = Len(entries) + 1
    BY <1>1 DEF NextEntry, IterOK
  <2> QED
    BY <1>0, <1>1, <2>1
<1>2. CASE it.state # "closed"
  <2> DEFINE active == it.state = "active"
             i1 == Skip(Cleared(it), IF active THEN it.keyRemaining ELSE 0)
             i2 == Skip(i1, IF active THEN it.valueRemaining ELSE 0)
             i3 == EnsureAvailable(i2)
  <2>1. r = IF Available(i3) = 0 THEN [i3 EXCEPT !.state = "closed"] ELSE ReadEntry(Rebase(i3))
    BY <1>2 DEF NextEntry
  <2>2. RangeOK(i2) /\ BeforeEntry(i2, a + 1)
    BY <1>0, <1>2, NextBefore
  <2> HIDE DEF i2
  <2>3. /\ RangeOK(i3) /\ Same(i3, i2) /\ BeforeEntry(i3, a + 1)
        /\ a + 1 \in 1 .. Len(entries) + 1
        /\ Available(i3) > 0 <=> a + 1 \in 1 .. Len(entries)
    BY <2>2, EnsureBefore
  <2> HIDE DEF i3
  <2>4. Available(i3) \in Nat /\ i3 \in LIter
    BY <2>3, RangeFacts
  <2>5. CASE a < Len(entries)
    <3>1. a + 1 \in 1 .. Len(entries) /\ Available(i3) > 0
      BY <1>0, <2>3, <2>5
    <3> DEFINE x == Rebase(i3)
               j == a + 1
    <3>2. r = ReadEntry(x)
      BY <2>1, <2>4, <3>1
    <3>3. AtLengths(x, j)
      BY <2>3, <3>1, RebaseFacts
    <3> HIDE DEF x, j
    <3>4. IterOK(r, j) /\ r.state = "active" /\ AtHome(r, j) /\ Clean(r)
      BY <3>2, <3>3, ReadFacts
    <3> QED
      BY <1>0, <2>5, <3>4 DEF j
  <2>6. CASE ~(a < Len(entries))
    <3>1. ~(Available(i3) > 0)
      BY <1>0, <2>3, <2>6
    <3>2. r = [i3 EXCEPT !.state = "closed"]
      BY <2>1, <2>4, <3>1
    <3>3. /\ r \in LIter /\ r.state = "closed" /\ r.blockPosition = i3.blockPosition
          /\ r.nextBlockPosition = i3.nextBlockPosition /\ r.blockOffset = i3.blockOffset
          /\ r.keylen = i3.keylen /\ r.valuelen = i3.valuelen
          /\ r.keyRemaining = i3.keyRemaining /\ r.valueRemaining = i3.valueRemaining
      BY <2>4, <3>2, IterState
    <3>4. r.keyRemaining <= r.keylen /\ r.valueRemaining <= r.valuelen
      BY <2>3, <3>3 DEF RangeOK
    <3>5. RangeOK(r)
      BY <2>3, <3>3, <3>4, RangeSame
    <3> QED
      BY <1>0, <2>6, <3>3, <3>5 DEF IterOK
  <2> QED
    BY <2>5, <2>6
<1> QED
  BY <1>1, <1>2

\* The iterators that are on an entry, before one, or closed.
Live == {i \in LIter : \E a : IterOK(i, a) /\ i.state # "invalid"}

\* Repeated calls of sparkey_logiter_next: the iterators in between.
LEMMA NextChain ==
  ASSUME Reading, NEW it \in Live, NEW n \in Nat
  PROVE  \E G : /\ G[0] = it
                /\ \A k \in 0 .. n - 1 : G[k + 1] = NextEntry(G[k])
                /\ Repeat(NextEntry, it, n) = G[n]
<1> DEFINE D == DOMAIN [k \in 1 .. n |-> k]
           F == [k \in 1 .. n |-> [v \in Live |-> NextEntry(v)]]
           P(f) == f = [s \in SUBSET D |-> IF s = {} THEN it ELSE NextEntry(f[s \ {Max(s)}])]
           f0 == CHOOSE f : P(f)
           G == [k \in 0 .. n |-> f0[1 .. k]]
<1>1. Repeat(NextEntry, it, n) = f0[D]
  BY DEF Repeat, FoldLeft, MapThenFoldSet
<1>2. D = 1 .. n /\ it \in Live
  OBVIOUS
<1> HIDE DEF D
<1>3. \A k \in 1 .. n : F[k] \in [Live -> Live]
  <2>1. \A v \in Live : NextEntry(v) \in Live
    <3> SUFFICES ASSUME NEW v \in Live PROVE NextEntry(v) \in Live
      OBVIOUS
    <3>1. PICK a : IterOK(v, a) /\ v.state # "invalid"
      BY DEF Live
    <3>2. Len(entries) \in Nat /\ a \in 0 .. Len(entries) + 1
      BY <3>1, FileFacts DEF IterOK
    <3>3. \E d : IterOK(NextEntry(v), d) /\ NextEntry(v).state # "invalid"
      <4> DEFINE r == NextEntry(v)
      <4>1. /\ a < Len(entries) => IterOK(r, a + 1) /\ r.state = "active"
            /\ a >= Len(entries) => IterOK(r, Len(entries) + 1) /\ r.state = "closed"
        BY <3>1, NextFacts
      <4> HIDE DEF r
      <4>2. \E d : IterOK(r, d) /\ r.state # "invalid"
        BY <3>2, <4>1
      <4> QED
        BY <4>2 DEF r
    <3> QED
      BY <3>3 DEF Live, IterOK, RangeOK
  <2> QED
    BY <2>1
<1>4. PICK f \in [SUBSET (1 .. n) -> Live] : IsFold(f, it, n, F)
  <2> HIDE DEF F
  <2> QED
    BY <1>2, <1>3, FoldExists
<1>5. P(f)
  <2>1. ASSUME NEW s \in SUBSET (1 .. n), s # {}
        PROVE  F[Max(s)][f[s \ {Max(s)}]] = NextEntry(f[s \ {Max(s)}])
    <3>1. Max(s) \in 1 .. n
      BY <2>1, Counting
    <3>2. f[s \ {Max(s)}] \in Live
      OBVIOUS
    <3> QED
      BY <3>1, <3>2
  <2> HIDE DEF F
  <2>2. [s \in SUBSET D |-> IF s = {} THEN it ELSE NextEntry(f[s \ {Max(s)}])]
        = [s \in SUBSET (1 .. n) |-> IF s = {} THEN it ELSE F[Max(s)][f[s \ {Max(s)}]]]
    BY <1>2, <2>1
  <2> QED
    BY <1>4, <2>2 DEF IsFold
<1>6. P(f0)
  <2> HIDE DEF P
  <2> QED
    BY <1>5
<1>7. G[0] = it
  <2>1. {} \in SUBSET D /\ 1 .. 0 = {} /\ 0 \in 0 .. n
    BY <1>2
  <2> HIDE DEF f0
  <2>2. f0[{}] = it
    BY Zenon, <1>6, <2>1
  <2> QED
    BY <2>1, <2>2
<1>8. ASSUME NEW k \in 0 .. n - 1
      PROVE  G[k + 1] = NextEntry(G[k])
  <2>1. /\ k \in Nat /\ k \in 0 .. n /\ k + 1 \in 0 .. n /\ 1 .. (k + 1) \in SUBSET D
    BY <1>2
  <2> HIDE DEF f0
  <2>2. f0[1 .. (k + 1)] = NextEntry(f0[(1 .. (k + 1)) \ {Max(1 .. (k + 1))}])
    BY Zenon, <1>6, <2>1, Interval
  <2> QED
    BY <2>1, <2>2, Interval
<1>9. Repeat(NextEntry, it, n) = G[n]
  BY <1>1, <1>2
<1> HIDE DEF G
<1> QED
  BY <1>7, <1>8, <1>9

\* n calls of sparkey_logiter_next go n entries on, or close the iterator.
LEMMA NextMany ==
  ASSUME Reading, NEW it, NEW a, IterOK(it, a), it.state # "invalid", NEW n \in Nat, n # 0,
         NEW r, r = Repeat(NextEntry, it, n)
  PROVE  /\ a + n <= Len(entries) => /\ IterOK(r, a + n) /\ r.state = "active"
                                     /\ AtHome(r, a + n) /\ Clean(r)
         /\ a + n > Len(entries) => IterOK(r, Len(entries) + 1) /\ r.state = "closed"
<1>0. Len(entries) \in Nat /\ a \in Nat /\ it \in Live
  <2>1. Len(entries) \in Nat /\ a \in 0 .. Len(entries) + 1 /\ it \in LIter
    BY FileFacts DEF IterOK, RangeOK
  <2> QED
    BY <2>1 DEF Live
<1>1. PICK G : /\ G[0] = it
               /\ \A m \in 0 .. n - 1 : G[m + 1] = NextEntry(G[m])
               /\ Repeat(NextEntry, it, n) = G[n]
  BY <1>0, NextChain
<1> DEFINE Got(i, d) == /\ d <= Len(entries) => /\ IterOK(i, d) /\ i.state = "active"
                                                /\ AtHome(i, d) /\ Clean(i)
                        /\ d > Len(entries) => IterOK(i, Len(entries) + 1) /\ i.state = "closed"
           S == {m \in Nat : m + 1 <= n => Got(G[m + 1], a + (m + 1))}
<1>2. 0 \in S
  <2>1. 0 \in 0 .. n - 1 /\ 0 + 1 = 1
    OBVIOUS
  <2>2. G[1] = NextEntry(it)
    BY <1>1, <2>1
  <2>3. Got(G[1], a + 1)
    <3> DEFINE i == G[1]
    <3>1. i = NextEntry(it)
      BY <2>2
    <3> HIDE DEF i
    <3>2. /\ a < Len(entries) => /\ IterOK(i, a + 1) /\ i.state = "active"
                                 /\ AtHome(i, a + 1) /\ Clean(i)
          /\ a >= Len(entries) => IterOK(i, Len(entries) + 1) /\ i.state = "closed"
      BY <3>1, NextFacts
    <3>3. (a + 1 <= Len(entries) => a < Len(entries)) /\ (a + 1 > Len(entries) => a >= Len(entries))
      BY <1>0
    <3>4. Got(i, a + 1)
      BY <3>2, <3>3
    <3> QED
      BY <3>4 DEF i
  <2> HIDE DEF Got
  <2> QED
    BY <2>1, <2>3
<1>3. ASSUME NEW m \in Nat, m \in S PROVE m + 1 \in S
  <2>0. m + 1 \in Nat
    OBVIOUS
  <2> HIDE DEF Got
  <2> SUFFICES ASSUME (m + 1) + 1 <= n PROVE Got(G[(m + 1) + 1], a + ((m + 1) + 1))
    BY Zenon, <2>0
  <2> DEFINE d == a + (m + 1)
             k == m + 1
  <2>1. m + 1 <= n /\ k \in 0 .. n - 1 /\ d \in Nat /\ a + ((m + 1) + 1) = d + 1
    BY <1>0
  <2>2. Got(G[k], d) /\ G[k + 1] = NextEntry(G[k])
    BY <1>1, <1>3, <2>1
  <2> HIDE DEF d
  <2> HIDE DEF k
  <2>3. CASE d <= Len(entries)
    <3>1. IterOK(G[k], d) /\ G[k].state # "invalid"
      BY <2>2, <2>3 DEF Got
    <3>2. /\ d < Len(entries) => /\ IterOK(G[k + 1], d + 1) /\ G[k + 1].state = "active"
                                 /\ AtHome(G[k + 1], d + 1) /\ Clean(G[k + 1])
          /\ d >= Len(entries) => /\ IterOK(G[k + 1], Len(entries) + 1)
                                  /\ G[k + 1].state = "closed"
      BY <2>2, <3>1, NextFacts
    <3>3. Got(G[k + 1], d + 1)
      BY <1>0, <2>1, <3>2 DEF Got
    <3> QED
      BY <2>1, <3>3 DEF k
  <2>4. CASE ~(d <= Len(entries))
    <3>1. IterOK(G[k], Len(entries) + 1) /\ G[k].state = "closed"
      BY <1>0, <2>1, <2>2, <2>4 DEF Got
    <3>2. G[k + 1] = G[k]
      BY <2>2, <3>1 DEF NextEntry
    <3>3. Got(G[k + 1], d + 1)
      BY <1>0, <2>1, <2>4, <3>1, <3>2 DEF Got
    <3> QED
      BY <2>1, <3>3 DEF k
  <2> QED
    BY <2>3, <2>4
<1> HIDE DEF S
<1>4. Nat \subseteq S
  BY <1>2, <1>3, SetInduction
<1>5. n - 1 \in Nat /\ (n - 1) + 1 = n
  OBVIOUS
<1>6. Got(G[n], a + n)
  <2>1. n - 1 \in S
    BY <1>4, <1>5
  <2> HIDE DEF Got
  <2>2. (n - 1) + 1 <= n => Got(G[(n - 1) + 1], a + ((n - 1) + 1))
    BY <2>1 DEF S
  <2> QED
    BY <1>5, <2>2
<1> QED
  BY <1>1, <1>6

(***************************************************************************)
(* Seeks, addresses and lookups.                                           *)
(***************************************************************************)

\* sparkey_logiter_create.
LEMMA NewFacts ==
  ASSUME Reading
  PROVE  IterOK(NewIter, 0) /\ NewIter.state = "new"
<1>0. /\ Len(entries) \in Nat /\ Len(w.file) \in Nat /\ Len(w.file) >= 1 /\ DataEnd = Len(w.file) + 1
      /\ BlockAt(0) = << >>
  BY FileFacts
<1> DEFINE i == NewIter
<1>1. i \in LIter
  <2>1. -1 \in Int
    OBVIOUS
  <2> QED
    BY <2>1 DEF NewIter, LIter
<1>2. /\ i.blockPosition = 0 /\ i.nextBlockPosition = 1 /\ i.blockOffset = 0 /\ i.state = "new"
      /\ i.keyRemaining = 0 /\ i.keylen = 0 /\ i.valueRemaining = 0 /\ i.valuelen = 0
  BY DEF NewIter
<1> HIDE DEF i
<1>3. Block(i) = << >> /\ Len(Block(i)) = 0 /\ Available(i) = 0
  BY <1>0, <1>2 DEF Block, Available
<1>4. RangeOK(i)
  BY <1>0, <1>1, <1>2, <1>3 DEF RangeOK
<1>5. BlockAt(1)[1] = <<1, 1>>
  <2>1. 1 \in 1 .. Len(w.file)
    BY <1>0
  <2> QED
    BY <2>1, BlockFacts
<1>6. NextUnit(i) = <<1, 1>>
  BY <1>0, <1>2, <1>3, <1>5 DEF NextUnit
<1>7. BeforeEntry(i, 0 + 1)
  BY <1>0, <1>3, <1>6 DEF BeforeEntry
<1>8. IterOK(i, 0)
  BY <1>0, <1>2, <1>4, <1>7 DEF IterOK
<1> QED
  BY <1>2, <1>8 DEF i

\* sparkey_logiter_seek to a block that starts with entry j.
LEMMA SeekFacts ==
  ASSUME Reading, NEW it, RangeOK(it), NEW p \in 1 .. Len(w.file), NEW j \in 1 .. Len(entries),
         BlockAt(p)[1] = <<j, 1>>, NEW s, s = SeekTo(it, p)
  PROVE  IterOK(s, j - 1) /\ s.state = "new"
<1>0. Len(entries) \in Nat /\ Len(w.file) \in Nat /\ DataEnd = Len(w.file) + 1
  BY FileFacts
<1> DEFINE b == SeekBlock(it, p)
<1>1. /\ RangeOK(b) /\ b.blockPosition = p /\ b.blockOffset = 0
      /\ Block(b) = BlockAt(p) /\ NextUnit(b) = BlockAt(p)[1] /\ Available(b) > 0
  <2>1. \A i : i = b =>
          /\ RangeOK(i) /\ i.blockPosition = p /\ i.blockOffset = 0
          /\ Block(i) = BlockAt(p) /\ Available(i) > 0
    BY SeekBlockFacts
  <2> HIDE DEF b
  <2>2. /\ RangeOK(b) /\ b.blockPosition = p /\ b.blockOffset = 0
        /\ Block(b) = BlockAt(p) /\ Available(b) > 0
    BY <2>1
  <2>3. NextUnit(b) = BlockAt(p)[1]
    BY <2>2 DEF NextUnit
  <2> QED
    BY <2>2, <2>3
<1>2. p # DataEnd
  BY <1>0
<1>3. s = [b EXCEPT !.entryCount = -1, !.state = "new"]
  BY <1>2 DEF SeekTo
<1> HIDE DEF b
<1>4. b \in LIter
  BY <1>1 DEF RangeOK
<1>5. s \in LIter /\ s.entryCount = -1 /\ s.state = "new"
  <2>1. -1 \in Int
    OBVIOUS
  <2> QED
    BY <1>3, <1>4, <2>1 DEF LIter
<1>6. /\ s.blockPosition = b.blockPosition /\ s.nextBlockPosition = b.nextBlockPosition
      /\ s.blockOffset = b.blockOffset /\ s.keylen = b.keylen /\ s.valuelen = b.valuelen
      /\ s.keyRemaining = b.keyRemaining /\ s.valueRemaining = b.valueRemaining
  BY <1>3, <1>4 DEF LIter
<1>7. s.keyRemaining <= s.keylen /\ s.valueRemaining <= s.valuelen
  BY <1>1, <1>6 DEF RangeOK
<1>8. /\ RangeOK(s) /\ Block(s) = Block(b) /\ Available(s) = Available(b)
      /\ NextUnit(s) = NextUnit(b)
  BY <1>1, <1>5, <1>6, <1>7, RangeSame
<1>9. BeforeEntry(s, (j - 1) + 1)
  <2>1. (j - 1) + 1 = j /\ j \in 1 .. Len(entries) + 1
    BY <1>0
  <2>2. NextUnit(s) = <<j, 1>> /\ Block(s)[1] = <<j, 1>>
    BY <1>1, <1>8
  <2>3. s.entryCount = j - Block(s)[1][1] - 1 /\ Block(s)[1][2] = 1
    BY <1>0, <1>5, <2>2
  <2> QED
    BY <2>1, <2>2, <2>3 DEF BeforeEntry
<1>10. j - 1 \in 0 .. Len(entries) + 1
  BY <1>0
<1> QED
  BY <1>5, <1>8, <1>9, <1>10 DEF IterOK

\* The number of entry_block_bits exists for every header.
LEMMA BitsExist ==
  ASSUME NEW x \in Nat, x <= MaxEntries
  PROVE  \E n \in 0 .. x : 2^n \in Nat /\ 2^n > x /\ (n = 0 \/ 2^(n - 1) <= x)
<1>0. MaxEntries \in Nat
  BY LayoutAssumption
<1> DEFINE Bits(y, n) == 2^n \in Nat /\ 2^n > y /\ (n = 0 \/ 2^(n - 1) <= y)
           S == {y \in Nat : y <= MaxEntries => \E n \in 0 .. y : Bits(y, n)}
<1>1. 0 \in S
  <2>1. 2^0 = 1
    BY PowersOfTwo
  <2>2. Bits(0, 0)
    BY <2>1
  <2> HIDE DEF Bits
  <2> QED
    BY <2>2
<1>2. ASSUME NEW y \in Nat, y \in S PROVE y + 1 \in S
  <2>0. y + 1 \in Nat
    OBVIOUS
  <2> HIDE DEF Bits
  <2> SUFFICES ASSUME y + 1 <= MaxEntries PROVE \E n \in 0 .. (y + 1) : Bits(y + 1, n)
    BY Zenon, <2>0
  <2>1. y <= MaxEntries
    BY <1>0
  <2>2. PICK n \in 0 .. y : Bits(y, n)
    BY Zenon, <1>2, <2>1
  <2> DEFINE t == 2^n
  <2>3. t \in Nat /\ t > y /\ (n = 0 \/ 2^(n - 1) <= y) /\ n \in Nat
    BY <2>2 DEF Bits
  <2>4. CASE t > y + 1
    <3>1. Bits(y + 1, n)
      <4>1. n = 0 \/ 2^(n - 1) <= y + 1
        <5>1. CASE n = 0
          BY <5>1
        <5>2. CASE n # 0
          <6> DEFINE h == 2^(n - 1)
          <6>1. h <= y /\ n - 1 \in Nat /\ (n - 1) + 1 = n /\ n - 1 \in 0 .. MaxEntries
            BY <1>0, <2>1, <2>3, <5>2
          <6>2. t = 2 * h
            BY <6>1, PowersOfTwo
          <6>3. h \in Int
            OBVIOUS
          <6> HIDE DEF h
          <6>4. h <= y + 1
            BY <6>1, <6>3
          <6> QED
            BY <6>4 DEF h
        <5> QED
          BY <5>1, <5>2
      <4> QED
        BY <2>3, <2>4, <4>1 DEF Bits
    <3> QED
      BY <3>1
  <2>5. CASE ~(t > y + 1)
    <3>1. t = y + 1 /\ n + 1 \in 0 .. (y + 1) /\ (n + 1) - 1 = n /\ n \in 0 .. MaxEntries
      <4> HIDE DEF t
      <4> QED
        BY <1>0, <2>1, <2>3, <2>5
    <3> DEFINE u == 2^(n + 1)
    <3>2. u = 2 * t
      BY <3>1, PowersOfTwo
    <3> HIDE DEF t, u
    <3>3. u \in Nat /\ u > y + 1 /\ t <= y + 1
      BY <2>3, <3>1, <3>2
    <3>4. Bits(y + 1, n + 1)
      BY <3>1, <3>3 DEF Bits, t, u
    <3> QED
      BY <3>1, <3>4
  <2> QED
    BY <2>4, <2>5
<1> HIDE DEF S, Bits
<1>3. Nat \subseteq S
  BY <1>1, <1>2, SetInduction
<1>4. \E n \in 0 .. x : Bits(x, n)
  BY <1>3 DEF S
<1> QED
  BY <1>4 DEF Bits

\* entry_block_bits has room for the entries of a block.
LEMMA BitsFacts ==
  ASSUME Reading
  PROVE  2^EntryBlockBits \in Nat /\ 2^EntryBlockBits > w.headerMax /\ w.headerMax \in Nat
<1>1. w.headerMax \in Nat /\ w.headerMax <= MaxEntries
  <2>1. w.headerMax <= Len(entries) /\ Len(entries) <= MaxEntries /\ Len(entries) \in Nat
    BY FileFacts DEF Reading, WriterInv
  <2>2. w.headerMax \in Nat
    <3>1. w.compressed \in BOOLEAN
      BY FileFacts
    <3>2. CASE w.compressed
      BY <3>2 DEF Reading, WriterInv, WriterOK, Writing, WType
    <3>3. CASE ~w.compressed
      BY <3>3 DEF Reading, WriterInv, PlainOK
    <3> QED
      BY <3>1, <3>2, <3>3
  <2> QED
    BY <2>1, <2>2, LayoutAssumption
<1> DEFINE x == w.headerMax
<1>2. \E n \in 0 .. x : 2^n \in Nat /\ 2^n > x /\ (n = 0 \/ 2^(n - 1) <= x)
  BY <1>1, BitsExist
<1>3. EntryBlockBits = CHOOSE n \in 0 .. x : 2^n > x /\ (n = 0 \/ 2^(n - 1) <= x)
  BY DEF EntryBlockBits, IntLog2
<1> HIDE DEF x
<1>4. EntryBlockBits \in 0 .. x /\ 2^EntryBlockBits > x
  BY Zenon, <1>2, <1>3
<1>5. \A n \in Nat : n <= MaxEntries => 2^n \in Nat
  <2> DEFINE S == {n \in Nat : n <= MaxEntries => 2^n \in Nat}
  <2>1. 0 \in S
    BY PowersOfTwo
  <2>2. ASSUME NEW n \in Nat, n \in S PROVE n + 1 \in S
    <3>1. n + 1 <= MaxEntries => n \in 0 .. MaxEntries /\ n <= MaxEntries
      BY LayoutAssumption
    <3>2. n \in 0 .. MaxEntries => 2^(n + 1) = 2 * 2^n
      BY PowersOfTwo
    <3>3. n <= MaxEntries => 2^n \in Nat
      BY <2>2
    <3> DEFINE t == 2^n
               u == 2^(n + 1)
    <3>4. n + 1 <= MaxEntries => u = 2 * t /\ t \in Nat
      BY <3>1, <3>2, <3>3
    <3> HIDE DEF t, u
    <3>5. n + 1 <= MaxEntries => u \in Nat
      BY <3>4
    <3> QED
      BY <3>5 DEF u
  <2> HIDE DEF S
  <2>3. Nat \subseteq S
    BY <2>1, <2>2, SetInduction
  <2> QED
    BY <2>3 DEF S
<1>6. 2^EntryBlockBits \in Nat
  <2>1. EntryBlockBits \in Nat /\ EntryBlockBits <= MaxEntries
    BY <1>1, <1>4, LayoutAssumption DEF x
  <2> QED
    BY <1>5, <2>1
<1> QED
  BY <1>1, <1>4, <1>6 DEF x

\* The two parts of an address.
LEMMA DivMod ==
  ASSUME NEW p \in Nat, NEW n \in Nat, NEW b \in Nat, n < b
  PROVE  (p * b + n) \div b = p /\ (p * b + n) % b = n
<1> DEFINE v == p * b + n
           q == v \div b
           r == v % b
<1>1. v \in Nat /\ b > 0 /\ p * b \in Nat
  OBVIOUS
<1>2. q \in Int /\ r \in Int /\ 0 <= r /\ r < b /\ v = b * q + r
  BY <1>1
<1> HIDE DEF q, r
<1>3. q = p
  <2>1. b * (q - p) = n - r
    BY <1>2
  <2>2. CASE q > p
    <3>1. q - p >= 1
      BY <1>2, <2>2
    <3>2. b * (q - p) >= b
      BY <1>2, <3>1
    <3> QED
      BY <1>2, <2>1, <3>2
  <2>3. CASE q < p
    <3>1. q - p <= -1
      BY <1>2, <2>3
    <3>2. b * (q - p) <= -b
      BY <1>2, <3>1
    <3> QED
      BY <1>2, <2>1, <3>2
  <2> QED
    BY <1>2, <2>2, <2>3
<1>4. r = n
  BY <1>2, <1>3
<1> QED
  BY <1>3, <1>4 DEF q, r

\* sparkey_hash_get and the others: the address of an entry leads to it.
LEMMA LookupFacts ==
  ASSUME Reading, NEW it, RangeOK(it), NEW i \in 1 .. Len(entries), IndexOK(i),
         NEW r, r = LookupWith(it, i)
  PROVE  IterOK(r, i) /\ r.state = "active" /\ AtHome(r, i) /\ Clean(r)
<1>0. Len(entries) \in Nat /\ Len(w.file) \in Nat /\ 2^EntryBlockBits \in Nat
  BY FileFacts, BitsFacts
<1> DEFINE b == 2^EntryBlockBits
<1>1. PICK p \in 1 .. Len(w.file), n \in 0 .. i - 1 :
             index[i] = Address(p, n) /\ n < b /\ BlockAt(p)[1] = <<i - n, 1>>
  BY DEF IndexOK, AddressOK
<1>2. index[i] = p * b + n
  BY <1>1 DEF Address
<1>3. r = Repeat(NextEntry, SeekTo(it, index[i] \div b), (index[i] % b) + 1)
  BY DEF LookupWith
<1>4. b \in Nat /\ p \in Nat /\ n \in Nat /\ i \in Nat
  BY <1>0
<1> HIDE DEF b
<1>5. index[i] \div b = p /\ index[i] % b = n
  BY ZenonT(60), <1>1, <1>2, <1>4, DivMod
<1> DEFINE s == SeekTo(it, p)
           j == i - n
<1>6. r = Repeat(NextEntry, s, n + 1)
  BY <1>3, <1>5
<1>7. IterOK(s, j - 1) /\ s.state = "new"
  <2>1. j \in 1 .. Len(entries) /\ BlockAt(p)[1] = <<j, 1>>
    BY <1>0, <1>1, <1>4
  <2> HIDE DEF j
  <2> QED
    BY <2>1, SeekFacts
<1> HIDE DEF s
<1> DEFINE m == n + 1
           a == j - 1
<1>8. m \in Nat /\ m # 0 /\ a + m = i /\ i <= Len(entries)
  BY <1>0, <1>4
<1>9. IterOK(s, a) /\ s.state # "invalid" /\ r = Repeat(NextEntry, s, m)
  BY <1>6, <1>7
<1> HIDE DEF m, a, j
<1> QED
  BY <1>8, <1>9, NextMany

\* Before is no loop.
LEMMA BeforeNot ==
  ASSUME NEW u, NEW u1 \in Nat, NEW u2 \in Nat, u1 = u[1], u2 = u[2]
  PROVE  ~Before(u, u)
<1>1. ~(u1 < u1) /\ ~(u2 < u2)
  OBVIOUS
<1> QED
  BY <1>1 DEF Before

\* The blocks of a compressed log are in the order of the units.
LEMMA FileOrder ==
  ASSUME Reading, w.compressed, NEW p \in 1 .. Len(w.file), NEW q \in 1 .. Len(w.file), p < q,
         NEW k \in 1 .. Len(BlockAt(p)), NEW m \in 1 .. Len(BlockAt(q))
  PROVE  Before(BlockAt(p)[k], BlockAt(q)[m])
<1>0. /\ entries \in Seq(LIEntry) /\ Len(w.file) \in Nat /\ DataEnd = Len(w.file) + 1
  BY FileFacts
<1> DEFINE Final(x) == BlockAt(x)[Len(BlockAt(x))]
<1>1. ASSUME NEW x \in 1 .. Len(w.file)
      PROVE  /\ Chain(entries, BlockAt(x)) /\ Len(BlockAt(x)) \in Nat /\ Len(BlockAt(x)) >= 1
             /\ \A c \in 1 .. Len(BlockAt(x)) : BlockAt(x)[c] \in UnitOf(entries)
    BY <1>0, BlockFacts, ChainFacts
<1>2. ASSUME NEW u \in UnitOf(entries)
      PROVE  u[1] \in Nat /\ u[2] \in Nat /\ Before(u, Succ(entries, u))
  <2>1. u[1] \in Nat /\ u[2] \in Nat /\ Size(entries, u[1]) \in Nat
    BY <1>0, UnitFacts
  <2> QED
    BY <2>1 DEF Before, Succ
<1>3. ASSUME NEW u \in UnitOf(entries), NEW v \in UnitOf(entries), NEW x \in UnitOf(entries),
             u = v \/ Before(u, v), Before(v, x)
      PROVE  Before(u, x)
  <2>1. CASE u = v
    BY <1>3, <2>1
  <2>2. CASE Before(u, v)
    BY <1>2, <1>3, <2>2, BeforeTrans
  <2> QED
    BY <1>3, <2>1, <2>2
<1>4. ASSUME NEW x \in 1 .. Len(w.file), NEW c \in 1 .. Len(BlockAt(x))
      PROVE  /\ BlockAt(x)[c] = Final(x) \/ Before(BlockAt(x)[c], Final(x))
             /\ BlockAt(x)[c] \in UnitOf(entries) /\ Final(x) \in UnitOf(entries)
  <2>1. Len(BlockAt(x)) \in 1 .. Len(BlockAt(x))
    BY <1>1
  <2>2. CASE c = Len(BlockAt(x))
    BY <1>1, <2>2
  <2>3. CASE c # Len(BlockAt(x))
    <3>1. c < Len(BlockAt(x))
      BY <1>1, <2>3
    <3>2. Chain(entries, BlockAt(x))
      BY <1>1
    <3>3. Before(BlockAt(x)[c], Final(x))
      BY <1>0, <2>1, <3>1, <3>2, ChainOrder
    <3> QED
      BY <1>1, <2>1, <3>3
  <2> QED
    BY <2>2, <2>3
<1>5. ASSUME NEW x \in 1 .. Len(w.file), x + 1 \in 1 .. Len(w.file),
             NEW c \in 1 .. Len(BlockAt(x + 1))
      PROVE  Before(Final(x), BlockAt(x + 1)[c])
  <2>1. NextBlock(x) = x + 1 /\ x + 1 # DataEnd
    <3>1. NextBlock(x) = x + 1
      BY BlockParses
    <3>2. x + 1 # DataEnd
      BY <1>0, <1>5
    <3> QED
      BY <3>1, <3>2
  <2>2. BlockAt(x + 1)[1] = Succ(entries, Final(x))
    BY <2>1, BlockFacts DEF After
  <2>3. 1 \in 1 .. Len(BlockAt(x + 1)) /\ Chain(entries, BlockAt(x + 1))
    BY <1>1, <1>5
  <2>4. Final(x) \in UnitOf(entries)
    <3>1. Len(BlockAt(x)) \in 1 .. Len(BlockAt(x))
      BY <1>1
    <3> QED
      BY <1>1, <3>1
  <2>5. Before(Final(x), BlockAt(x + 1)[1])
    BY <1>2, <2>2, <2>4
  <2>6. CASE c = 1
    BY <2>5, <2>6
  <2>7. CASE c # 1
    <3>1. 1 < c
      BY <1>1, <1>5, <2>7
    <3>2. Before(BlockAt(x + 1)[1], BlockAt(x + 1)[c])
      BY <1>0, <2>3, <3>1, ChainOrder
    <3>3. BlockAt(x + 1)[1] \in UnitOf(entries) /\ BlockAt(x + 1)[c] \in UnitOf(entries)
      BY <1>1, <1>5, <2>3
    <3> HIDE DEF Final
    <3> QED
      BY <1>3, <2>4, <2>5, <3>2, <3>3
  <2> QED
    BY <2>6, <2>7
<1> DEFINE S == {d \in Nat : p + (d + 1) \in 1 .. Len(w.file) =>
                   \A c \in 1 .. Len(BlockAt(p + (d + 1))) : Before(Final(p), BlockAt(p + (d + 1))[c])}
<1>6. 0 \in S
  <2>1. p + (0 + 1) = p + 1 /\ 0 \in Nat
    BY <1>0
  <2> HIDE DEF Final
  <2> QED
    BY <1>5, <2>1
<1>7. ASSUME NEW d \in Nat, d \in S PROVE d + 1 \in S
  <2>0. d + 1 \in Nat
    OBVIOUS
  <2> HIDE DEF Final
  <2> SUFFICES ASSUME p + ((d + 1) + 1) \in 1 .. Len(w.file),
                      NEW c \in 1 .. Len(BlockAt(p + ((d + 1) + 1)))
               PROVE  Before(Final(p), BlockAt(p + ((d + 1) + 1))[c])
    BY Zenon, <2>0
  <2> DEFINE x == p + (d + 1)
  <2>1. x \in 1 .. Len(w.file) /\ p + ((d + 1) + 1) = x + 1 /\ x + 1 \in 1 .. Len(w.file)
    BY SMTT(40), <1>0
  <2>2. \A e \in 1 .. Len(BlockAt(x)) : Before(Final(p), BlockAt(x)[e])
    BY <1>7, <2>1
  <2> HIDE DEF x
  <2>3. c \in 1 .. Len(BlockAt(x + 1))
    BY <2>1
  <2>4. Len(BlockAt(x)) \in 1 .. Len(BlockAt(x)) /\ Len(BlockAt(p)) \in 1 .. Len(BlockAt(p))
    BY <1>1, <2>1
  <2>5. Before(Final(p), Final(x)) /\ Final(x) \in UnitOf(entries) /\ Final(p) \in UnitOf(entries)
    BY <1>1, <2>1, <2>2, <2>4 DEF Final
  <2>6. Before(Final(x), BlockAt(x + 1)[c])
    BY <1>5, <2>1, <2>3
  <2>7. BlockAt(x + 1)[c] \in UnitOf(entries)
    BY <1>1, <2>1, <2>3
  <2>8. Before(Final(p), BlockAt(x + 1)[c])
    BY <1>3, <2>5, <2>6, <2>7
  <2> QED
    BY <2>1, <2>8
<1> HIDE DEF S
<1>8. Nat \subseteq S
  BY <1>6, <1>7, SetInduction
<1>9. (q - p) - 1 \in Nat /\ p + (((q - p) - 1) + 1) = q
  BY <1>0
<1>10. Before(Final(p), BlockAt(q)[m])
  <2>1. (q - p) - 1 \in S
    BY <1>8, <1>9
  <2> HIDE DEF Final
  <2> QED
    BY <1>9, <2>1 DEF S
<1>11. BlockAt(q)[m] \in UnitOf(entries)
  BY <1>1
<1> HIDE DEF Final
<1> QED
  BY <1>3, <1>4, <1>10, <1>11

\* No unit is in the file twice.
LEMMA HomeUnique ==
  ASSUME Reading, NEW p \in 1 .. Len(w.file), NEW q \in 1 .. Len(w.file),
         NEW k \in 1 .. Len(BlockAt(p)), NEW m \in 1 .. Len(BlockAt(q)),
         BlockAt(p)[k] = BlockAt(q)[m], w.compressed \/ (k = 1 /\ m = 1)
  PROVE  p = q
<1>0. /\ entries \in Seq(LIEntry) /\ Len(w.file) \in Nat /\ w.compressed \in BOOLEAN
      /\ p \in Nat /\ q \in Nat
  BY FileFacts
<1> DEFINE u == BlockAt(p)[k]
<1>1. u \in UnitOf(entries)
  BY <1>0, BlockFacts, ChainFacts
<1>2. u[1] \in Nat /\ u[2] \in Nat
  BY <1>0, <1>1, UnitFacts
<1>3. ~Before(u, u)
  <2> HIDE DEF u
  <2> QED
    BY <1>2, BeforeNot
<1>4. CASE w.compressed
  <2>1. p < q => Before(BlockAt(p)[k], BlockAt(q)[m])
    BY <1>4, FileOrder
  <2>2. q < p => Before(BlockAt(q)[m], BlockAt(p)[k])
    BY <1>4, FileOrder
  <2>3. ~(p < q) /\ ~(q < p)
    BY <1>3, <2>1, <2>2
  <2> QED
    BY <1>0, <2>3
<1>5. CASE ~w.compressed
  <2>1. Chain(entries, w.file) /\ w.file # << >>
    BY <1>0, <1>5 DEF Reading, WriterInv, PlainOK
  <2>2. ASSUME NEW x \in 1 .. Len(w.file) PROVE BlockAt(x)[1] = w.file[x]
    <3>1. BlockAt(x) = SubSeq(w.file, x, Len(w.file)) /\ x \in Nat
      BY SMTT(40), <1>0, <1>5 DEF BlockAt
    <3>2. /\ Len(BlockAt(x)) = Len(w.file) - x + 1
          /\ \A c \in 1 .. Len(BlockAt(x)) : BlockAt(x)[c] = w.file[x + c - 1]
      BY <1>0, <2>1, <3>1, SuffixChain
    <3>3. 1 \in 1 .. Len(BlockAt(x)) /\ x + 1 - 1 = x
      BY <1>0, <3>1, <3>2
    <3> QED
      BY <3>2, <3>3
  <2>3. w.file[p] = u /\ w.file[q] = u
    BY <1>5, <2>2
  <2>4. p < q => Before(w.file[p], w.file[q])
    BY <1>0, <2>1, ChainOrder
  <2>5. q < p => Before(w.file[q], w.file[p])
    BY <1>0, <2>1, ChainOrder
  <2>6. ~(p < q) /\ ~(q < p)
    BY <1>3, <2>3, <2>4, <2>5
  <2> QED
    BY <1>0, <2>6
<1> QED
  BY <1>0, <1>4, <1>5

\* Block p begins with an entry, and entry a begins in it.
HomeOf(p, a) ==
  /\ p \in 1 .. Len(w.file) /\ a \in 1 .. Len(entries)
  /\ BlockAt(p)[1] = <<BlockAt(p)[1][1], 1>> /\ BlockAt(p)[1][1] \in 1 .. a
  /\ \E k \in 1 .. Len(BlockAt(p)) : BlockAt(p)[k] = <<a, Prelude>>
  /\ w.compressed => a - BlockAt(p)[1][1] < w.maxEntriesPerBlock
  /\ ~w.compressed => BlockAt(p)[1][1] = a

\* The block that the iterator remembers is such a block.
LEMMA HomeFacts ==
  ASSUME Reading, NEW it, NEW a, OnEntry(it, a), NEW p, p = it.entryBlockPosition
  PROVE  HomeOf(p, a)
<1> DEFINE b == BlockAt(p)
           k == it.entryBlockOffset
<1>0. entries \in Seq(LIEntry) /\ Len(w.file) \in Nat /\ w.compressed \in BOOLEAN /\ Len(entries) \in Nat
  BY FileFacts
<1>1. /\ p \in 1 .. Len(w.file) /\ k \in Prelude .. Len(b) /\ b[k] = <<a, Prelude>> /\ b[1][2] = 1
      /\ ~w.compressed => b[1][1] = a
      /\ a \in DOMAIN entries
  BY DEF OnEntry
<1>2. /\ Chain(entries, b) /\ Len(b) \in Nat /\ Len(b) >= 1 /\ b[1] \in UnitOf(entries)
      /\ b[Len(b)] \in UnitOf(entries)
  BY <1>0, <1>1, BlockFacts, ChainFacts
<1>3. /\ b[1] = <<b[1][1], b[1][2]>> /\ b[1][1] \in Nat /\ b[1][1] \in 1 .. Len(entries)
      /\ b[Len(b)][1] \in Nat
  BY <1>0, <1>2, UnitFacts
<1>4. a \in 1 .. Len(entries) /\ k \in 1 .. Len(b) /\ 1 < k /\ 1 \in 1 .. Len(b)
  BY <1>0, <1>1, <1>2 DEF Prelude
<1>5. Before(b[1], <<a, Prelude>>)
  <2>1. Before(b[1], b[k])
    BY <1>0, <1>2, <1>4, ChainOrder
  <2> QED
    BY <1>1, <2>1
<1>6. b[1][1] \in 1 .. a
  <2> DEFINE d == b[1][1]
  <2>1. d < a \/ d = a
    BY <1>5 DEF Before
  <2>2. d \in 1 .. Len(entries)
    BY <1>3
  <2> HIDE DEF d
  <2>3. d \in 1 .. a
    BY <1>0, <1>4, <2>1, <2>2
  <2> QED
    BY <2>3 DEF d
<1>7. b[Len(b)][1] >= a
  <2>1. CASE k = Len(b)
    BY <1>1, <1>4, <2>1
  <2>2. CASE k # Len(b)
    <3>1. k < Len(b) /\ Len(b) \in 1 .. Len(b)
      BY <1>2, <1>4, <2>2
    <3>2. Before(b[k], b[Len(b)])
      BY <1>0, <1>2, <1>4, <3>1, ChainOrder
    <3>3. Before(<<a, Prelude>>, b[Len(b)])
      BY <1>1, <3>2
    <3> DEFINE d == b[Len(b)][1]
    <3>4. a < d \/ a = d
      BY <3>3 DEF Before
    <3>5. d \in Nat
      BY <1>3
    <3> HIDE DEF d
    <3>6. d >= a
      BY <1>0, <1>4, <3>4, <3>5
    <3> QED
      BY <3>6 DEF d
  <2> QED
    BY <2>1, <2>2
<1>8. w.compressed => a - b[1][1] < w.maxEntriesPerBlock
  <2> SUFFICES ASSUME w.compressed PROVE a - b[1][1] < w.maxEntriesPerBlock
    OBVIOUS
  <2> DEFINE d == b[1][1]
             e == b[Len(b)][1]
             m == w.maxEntriesPerBlock
  <2>1. e - d < m
    BY <1>1, BlockParses
  <2>2. d \in Nat /\ e \in Nat /\ a \in Nat /\ e >= a /\ m \in Int
    <3>1. m \in Int
      BY DEF Reading, WriterInv, WriterOK, Writing, WType
    <3> QED
      BY <1>0, <1>3, <1>4, <1>7, <3>1
  <2> HIDE DEF d, e, m
  <2>3. a - d < m
    BY <2>1, <2>2
  <2> QED
    BY <2>3 DEF d, m
<1> QED
  BY <1>1, <1>3, <1>4, <1>6, <1>8 DEF HomeOf

\* The address that sparkey_hash_write stores.
LEMMA ScanAddress ==
  ASSUME Reading, ~StaleHeaders, NEW it, NEW a, IterOK(it, a), it.state = "active", AtHome(it, a)
  PROVE  AddressOK(Address(it.blockPosition, it.entryCount), a)
<1> DEFINE p == it.entryBlockPosition
           f == BlockAt(p)[1][1]
           n == a - f
<1>0. Len(entries) \in Nat /\ w.compressed \in BOOLEAN
  BY FileFacts
<1>1. OnEntry(it, a)
  BY DEF IterOK
<1>2. /\ p \in 1 .. Len(w.file) /\ a \in 1 .. Len(entries)
      /\ BlockAt(p)[1] = <<f, 1>> /\ f \in 1 .. a
      /\ \E k \in 1 .. Len(BlockAt(p)) : BlockAt(p)[k] = <<a, Prelude>>
      /\ w.compressed => n < w.maxEntriesPerBlock
      /\ ~w.compressed => f = a
  <2>1. HomeOf(p, a)
    BY <1>1, HomeFacts
  <2> QED
    BY <2>1 DEF HomeOf
<1>3. it.blockPosition = p /\ it.entryCount = n
  BY DEF AtHome, Block
<1>4. w.headerMax = w.maxEntriesPerBlock
  BY DEF Reading, WriterInv
<1> DEFINE t == 2^EntryBlockBits
           h == w.headerMax
<1>5. t \in Nat /\ t > h /\ h \in Nat
  BY BitsFacts
<1>6. n \in 0 .. a - 1 /\ a - n = f /\ (~w.compressed => n = 0)
  <2> HIDE DEF f
  <2> QED
    BY <1>0, <1>2
<1>7. n < t
  <2>1. w.compressed => n < h
    BY <1>2, <1>4
  <2>2. n \in Int /\ (~w.compressed => n = 0)
    BY <1>6, <1>0, <1>2
  <2> HIDE DEF n, t, h
  <2> QED
    BY <1>0, <1>5, <2>1, <2>2
<1>8. BlockAt(p)[1] = <<a - n, 1>>
  BY <1>2, <1>6
<1>9. n \in 0 .. a - 1 /\ Address(it.blockPosition, it.entryCount) = Address(p, n)
  BY <1>3, <1>6
<1> HIDE DEF n, t
<1>10. AddressOK(Address(p, n), a)
  BY <1>2, <1>6, <1>7, <1>8 DEF t, AddressOK
<1> QED
  BY <1>9, <1>10

\* sparkey_logiter_hashnext: the address of an entry that next has reached is
\* the one in the index.
LEMMA AddressUnique ==
  ASSUME Reading, NEW it, NEW a, OnEntry(it, a), AtHome(it, a), IndexOK(a)
  PROVE  Address(it.entryBlockPosition, it.entryCount) = index[a]
<1>1. PICK p \in 1 .. Len(w.file), n \in 0 .. a - 1 :
        /\ index[a] = Address(p, n) /\ (~w.compressed => n = 0)
        /\ BlockAt(p)[1] = <<a - n, 1>>
        /\ \E k \in 1 .. Len(BlockAt(p)) : BlockAt(p)[k] = <<a, Prelude>>
  BY DEF IndexOK, AddressOK
<1> DEFINE q == it.entryBlockPosition
<1>2. /\ q \in 1 .. Len(w.file) /\ a \in 1 .. Len(entries)
      /\ BlockAt(q)[1] = <<BlockAt(q)[1][1], 1>> /\ BlockAt(q)[1][1] \in 1 .. a
      /\ \E k \in 1 .. Len(BlockAt(q)) : BlockAt(q)[k] = <<a, Prelude>>
      /\ ~w.compressed => BlockAt(q)[1][1] = a
  <2>1. HomeOf(q, a)
    BY HomeFacts
  <2> QED
    BY <2>1 DEF HomeOf
<1>3. Len(entries) \in Nat /\ w.compressed \in BOOLEAN /\ entries \in Seq(LIEntry)
  BY FileFacts
<1>4. p = q
  <2>1. CASE w.compressed
    <3>1. PICK k \in 1 .. Len(BlockAt(p)) : BlockAt(p)[k] = <<a, Prelude>>
      BY <1>1
    <3>2. PICK m \in 1 .. Len(BlockAt(q)) : BlockAt(q)[m] = <<a, Prelude>>
      BY <1>2
    <3>3. BlockAt(p)[k] = BlockAt(q)[m]
      BY <3>1, <3>2
    <3> HIDE DEF q
    <3> QED
      BY <1>2, <2>1, <3>3, HomeUnique
  <2>2. CASE ~w.compressed
    <3>1. BlockAt(p)[1] = BlockAt(q)[1]
      <4>1. a - n = a
        BY <1>1, <1>2, <1>3, <2>2
      <4> QED
        BY <1>1, <1>2, <2>2, <4>1
    <3>2. ASSUME NEW x \in 1 .. Len(w.file) PROVE 1 \in 1 .. Len(BlockAt(x))
      BY <1>3, BlockFacts, ChainFacts
    <3>3. 1 \in 1 .. Len(BlockAt(p)) /\ 1 \in 1 .. Len(BlockAt(q))
      BY <1>2, <3>2
    <3> HIDE DEF q
    <3> QED
      BY <1>2, <2>2, <3>1, <3>3, HomeUnique
  <2> QED
    BY <1>3, <2>1, <2>2
<1>5. it.entryCount = n
  <2>1. it.entryCount = a - BlockAt(p)[1][1] /\ BlockAt(p)[1][1] = a - n
    BY <1>1, <1>4 DEF AtHome, Block
  <2> QED
    BY <1>1, <1>2, <1>3, <2>1
<1> QED
  BY <1>1, <1>4, <1>5

(***************************************************************************)
(* Reading calls.                                                          *)
(***************************************************************************)

\* n units of entry a from the unit c on.
Run(a, c, n) == [k \in 1 .. n |-> <<a, c + k - 1>>]

\* A run as a sequence.
LEMMA RunFacts ==
  ASSUME NEW a \in Nat, NEW c \in Nat, c >= 1, NEW n \in Nat
  PROVE  /\ Run(a, c, n) \in Seq(LogUnit) /\ Len(Run(a, c, n)) = n
         /\ \A k \in 1 .. n : Run(a, c, n)[k] = <<a, c + k - 1>>
<1>1. \A k \in 1 .. n : <<a, c + k - 1>> \in LogUnit
  BY DEF LogUnit
<1>2. Run(a, c, n) \in [1 .. n -> LogUnit]
  BY <1>1 DEF Run
<1>3. Run(a, c, n) \in Seq(LogUnit) /\ Len(Run(a, c, n)) = n
  BY <1>2
<1> QED
  BY <1>3 DEF Run

\* The sizes of two runs that follow one another.
Runs(a, c, n, m) == a \in Nat /\ c \in Nat /\ c >= 1 /\ n \in Nat /\ m \in Nat

\* Together they are a run.
LEMMA RunConcat ==
  ASSUME NEW a, NEW c, NEW n, NEW m, Runs(a, c, n, m)
  PROVE  Run(a, c, n) \o Run(a, c + n, m) = Run(a, c, n + m)
<1> DEFINE s == Run(a, c, n)
           t == Run(a, c + n, m)
           u == Run(a, c, n + m)
<1>0. a \in Nat /\ c \in Nat /\ c >= 1 /\ n \in Nat /\ m \in Nat
  BY DEF Runs
<1>1. s \in Seq(LogUnit) /\ Len(s) = n /\ \A k \in 1 .. n : s[k] = <<a, c + k - 1>>
  BY <1>0, RunFacts
<1>2. t \in Seq(LogUnit) /\ Len(t) = m /\ \A k \in 1 .. m : t[k] = <<a, (c + n) + k - 1>>
  <2> DEFINE d == c + n
  <2>1. d \in Nat /\ d >= 1
    BY <1>0
  <2> HIDE DEF d
  <2>2. Run(a, d, m) \in Seq(LogUnit) /\ Len(Run(a, d, m)) = m
        /\ \A k \in 1 .. m : Run(a, d, m)[k] = <<a, d + k - 1>>
    BY ZenonT(60), <1>0, <2>1, RunFacts
  <2> QED
    BY <2>2 DEF d
<1>3. u \in Seq(LogUnit) /\ Len(u) = n + m /\ \A k \in 1 .. n + m : u[k] = <<a, c + k - 1>>
  <2> DEFINE d == n + m
  <2>1. d \in Nat
    BY <1>0
  <2> HIDE DEF d
  <2>2. Run(a, c, d) \in Seq(LogUnit) /\ Len(Run(a, c, d)) = d
        /\ \A k \in 1 .. d : Run(a, c, d)[k] = <<a, c + k - 1>>
    BY ZenonT(60), <1>0, <2>1, RunFacts
  <2> QED
    BY <2>2 DEF d
<1> HIDE DEF s, t, u
<1>4. /\ s \o t \in Seq(LogUnit) /\ Len(s \o t) = n + m
      /\ \A k \in 1 .. n : (s \o t)[k] = s[k]
      /\ \A k \in n + 1 .. n + m : (s \o t)[k] = t[k - n]
  <2>1. s \in Seq(LogUnit) /\ t \in Seq(LogUnit)
    BY <1>1, <1>2
  <2>2. /\ s \o t \in Seq(LogUnit) /\ Len(s \o t) = Len(s) + Len(t)
        /\ \A k \in 1 .. Len(s) + Len(t) : (s \o t)[k] = IF k <= Len(s) THEN s[k] ELSE t[k - Len(s)]
    BY <2>1, ConcatProperties
  <2>3. Len(s) = n /\ Len(t) = m
    BY <1>1, <1>2
  <2> QED
    BY <1>0, <2>2, <2>3
<1>5. ASSUME NEW k \in 1 .. n + m PROVE (s \o t)[k] = u[k]
  <2>1. CASE k \in 1 .. n
    BY <1>0, <1>1, <1>3, <1>4, <2>1
  <2>2. CASE k \notin 1 .. n
    <3>1. k \in n + 1 .. n + m /\ k - n \in 1 .. m /\ (c + n) + (k - n) - 1 = c + k - 1
      BY <1>0, <2>2
    <3>2. (s \o t)[k] = t[k - n]
      BY <1>4, <3>1
    <3>3. t[k - n] = <<a, (c + n) + (k - n) - 1>>
      BY <1>2, <3>1
    <3>4. u[k] = <<a, c + k - 1>>
      BY <1>3
    <3> QED
      BY <3>1, <3>2, <3>3, <3>4
  <2> QED
    BY <2>1, <2>2
<1>6. s \o t = u
  <2> DEFINE x == s \o t
  <2>1. x \in Seq(LogUnit) /\ Len(x) = Len(u) /\ \A k \in 1 .. Len(u) : x[k] = u[k]
    BY <1>3, <1>4, <1>5
  <2> HIDE DEF x
  <2>2. x = u
    BY <1>3, <2>1
  <2> QED
    BY <2>2 DEF x
<1> QED
  BY <1>6 DEF s, t, u

\* The part of a sequence that has the units of u is u.
LEMMA RunPart ==
  ASSUME NEW b \in Seq(LogUnit), NEW o \in Nat, NEW n \in Nat, o + n <= Len(b),
         NEW u \in Seq(LogUnit), Len(u) = n, \A k \in 1 .. n : b[o + k] = u[k]
  PROVE  SubSeq(b, o + 1, o + n) = u
<1> DEFINE s == SubSeq(b, o + 1, o + n)
<1>1. s \in Seq(LogUnit) /\ Len(s) = n /\ \A k \in 1 .. n : s[k] = b[o + k]
  <2> DEFINE i == o + 1
             j == o + n
  <2>1. i \in Int /\ j \in Int /\ \A x \in i .. j : b[x] \in LogUnit
    OBVIOUS
  <2>2. s = SubSeq(b, i, j)
    OBVIOUS
  <2>3. (IF i <= j THEN j - i + 1 ELSE 0) = n /\ j - i + 1 = n /\ \A k \in 1 .. n : i + k - 1 = o + k
    OBVIOUS
  <2> HIDE DEF s, i, j
  <2>4. /\ s \in Seq(LogUnit) /\ Len(s) = IF i <= j THEN j - i + 1 ELSE 0
        /\ \A k \in 1 .. j - i + 1 : s[k] = b[i + k - 1]
    BY SMTT(40), <2>1, <2>2, SubSeqProperties
  <2> QED
    BY <2>3, <2>4
<1> HIDE DEF s
<1>2. \A k \in 1 .. n : s[k] = u[k]
  BY <1>1
<1>3. s = u
  BY SMTT(40), <1>1, <1>2
<1> QED
  BY <1>3 DEF s

\* The units of an entry.
LEMMA EntryRun ==
  ASSUME Reading, NEW a \in 1 .. Len(entries), NEW c \in Nat, c >= 1, NEW n \in Nat,
         c + n - 1 <= Size(entries, a)
  PROVE  SubSeq(EntryUnits(entries[a]), c, c + n - 1) = Run(a, c, n)
<1> DEFINE e == entries[a]
           b == EntryUnits(e)
           z == Size(entries, a)
<1>1. /\ entries \in Seq(LIEntry) /\ e \in LIEntry /\ e.id = a /\ a \in Nat
  BY FileFacts DEF Reading, WriterInv
<1>2. z \in Nat /\ z = Prelude + e.klen + e.vlen
  BY <1>1, SizeType DEF Size
<1>3. b = [k \in 1 .. z |-> <<a, k>>]
  BY <1>1, <1>2 DEF EntryUnits
<1> HIDE DEF z, b
<1>4. b \in Seq(LogUnit) /\ Len(b) = z /\ \A k \in 1 .. z : b[k] = <<a, k>>
  <2>1. \A k \in 1 .. z : <<a, k>> \in LogUnit
    BY <1>1, <1>2 DEF LogUnit
  <2>2. b \in [1 .. z -> LogUnit]
    BY <1>3, <2>1
  <2> QED
    BY <1>2, <1>3, <2>2
<1> DEFINE o == c - 1
<1>5. o \in Nat /\ o + n <= Len(b) /\ o + 1 = c /\ o + n = c + n - 1
  BY <1>2, <1>4 DEF z
<1> DEFINE u == Run(a, c, n)
<1>6. u \in Seq(LogUnit) /\ Len(u) = n /\ \A k \in 1 .. n : u[k] = <<a, c + k - 1>>
  BY <1>1, RunFacts
<1> HIDE DEF u
<1>7. \A k \in 1 .. n : b[o + k] = u[k]
  <2> SUFFICES ASSUME NEW k \in 1 .. n PROVE b[o + k] = u[k]
    OBVIOUS
  <2>1. o + k = c + k - 1 /\ o + k \in 1 .. z
    BY <1>4, <1>5
  <2> QED
    BY <1>4, <1>6, <2>1
<1> HIDE DEF o
<1>8. SubSeq(b, o + 1, o + n) = u
  <2>1. b \in Seq(LogUnit) /\ o \in Nat /\ o + n <= Len(b) /\ u \in Seq(LogUnit) /\ Len(u) = n
    BY <1>4, <1>5, <1>6
  <2> QED
    BY <1>7, <2>1, RunPart
<1> QED
  BY <1>5, <1>8 DEF b, u

\* Some units on in a block.
LEMMA StepMany ==
  ASSUME Reading, NEW it, RangeOK(it), NEW n \in Nat, n >= 1, n <= Available(it),
         NEW i \in LIter, i.blockPosition = it.blockPosition,
         i.nextBlockPosition = it.nextBlockPosition, i.blockOffset = it.blockOffset + n,
         i.keyRemaining <= i.keylen, i.valueRemaining <= i.valuelen
  PROVE  /\ RangeOK(i) /\ Block(i) = Block(it)
         /\ NextUnit(i) = Succ(entries, Block(it)[it.blockOffset + n])
<1>1. /\ it \in LIter /\ it.blockOffset \in Nat /\ Len(Block(it)) \in Nat
      /\ n <= Len(Block(it)) - it.blockOffset
  BY RangeFacts DEF Available
<1> DEFINE o == it.blockOffset + (n - 1)
           y == [it EXCEPT !.blockOffset = o]
<1>2. o \in Nat /\ o + 1 = it.blockOffset + n /\ o < Len(Block(it)) /\ o \in 0 .. Len(Block(it))
  BY <1>1
<1>3. /\ y \in LIter /\ y.blockPosition = it.blockPosition /\ y.blockOffset = o
      /\ y.nextBlockPosition = it.nextBlockPosition /\ Same(y, it)
  <2>1. it \in LIter /\ o \in Nat
    BY <1>1, <1>2
  <2> HIDE DEF o
  <2> QED
    BY <2>1, IterOffset
<1> HIDE DEF y, o
<1>4. Block(y) = Block(it)
  BY <1>3 DEF Block
<1>5. RangeOK(y)
  <2>1. y.keyRemaining <= y.keylen /\ y.valueRemaining <= y.valuelen
    BY <1>3 DEF RangeOK, Same
  <2> QED
    BY <1>2, <1>3, <1>4, <2>1 DEF RangeOK
<1>6. Available(y) > 0
  BY <1>1, <1>2, <1>3, <1>4 DEF Available
<1>7. i.blockPosition = y.blockPosition /\ i.nextBlockPosition = y.nextBlockPosition
      /\ i.blockOffset = y.blockOffset + 1
  BY <1>2, <1>3
<1>8. /\ RangeOK(i) /\ Block(i) = Block(y)
      /\ NextUnit(i) = Succ(entries, Block(y)[y.blockOffset + 1])
  BY <1>5, <1>6, <1>7, StepUnit
<1> QED
  BY <1>2, <1>3, <1>4, <1>8

\* As long as something remains of the entry, ensure_available finds it.
LEMMA RestAvailable ==
  ASSUME Reading, NEW it, NEW a, RangeOK(it), OnEntry(it, a), Read(it) < it.keylen + it.valuelen,
         NEW i, i = EnsureAvailable(it), NEW c, c = Prelude + Read(it) + 1
  PROVE  /\ RangeOK(i) /\ Same(i, it) /\ Place(i, a) /\ Available(i) > 0
         /\ c \in Nat /\ 1 < c /\ c <= Size(entries, a)
         /\ NextUnit(i) = <<a, c>> /\ Block(i)[i.blockOffset + 1] = <<a, c>>
<1>0. Len(entries) \in Nat /\ Len(w.file) \in Nat
  BY FileFacts
<1>1. /\ a \in 1 .. Len(entries) /\ Read(it) \in Nat /\ Size(entries, a) \in Nat
      /\ Spot(it, a, c)
  BY OnEntryFacts
<1>2. Size(entries, a) = Prelude + it.keylen + it.valuelen /\ it.keylen \in Nat /\ it.valuelen \in Nat
  <2>1. it.keylen \in Nat /\ it.valuelen \in Nat
    BY OnEntryFacts
  <2>2. it.keylen = entries[a].klen /\ it.valuelen = entries[a].vlen
    BY DEF OnEntry
  <2> QED
    BY <2>1, <2>2 DEF Size
<1>3. c \in Nat /\ 1 < c /\ c <= Size(entries, a)
  <2> DEFINE kl == it.keylen
             vl == it.valuelen
             rd == Read(it)
             z == Size(entries, a)
  <2>1. kl \in Nat /\ vl \in Nat /\ rd \in Nat /\ rd < kl + vl /\ z = 2 + kl + vl /\ c = 2 + rd + 1
    BY <1>1, <1>2 DEF Prelude
  <2> HIDE DEF kl, vl, rd, z
  <2>2. c \in Nat /\ 1 < c /\ c <= z
    BY <2>1
  <2> QED
    BY <2>2 DEF z
<1>4. NextUnit(it) = <<a, c>> /\ Place(it, a)
  BY <1>1, <1>3 DEF Spot, Canon
<1>5. NextUnit(it) # LogEnd(entries)
  BY <1>0, <1>1, <1>4 DEF LogEnd
<1>6. /\ RangeOK(i) /\ Same(i, it) /\ NextUnit(i) = NextUnit(it) /\ Available(i) > 0
      /\ Block(i)[i.blockOffset + 1] = NextUnit(it)
  BY <1>5, EnsureFacts
<1>7. Place(i, a)
  BY <1>1, <1>3, <1>4, EnsurePlace
<1> QED
  BY <1>3, <1>4, <1>6, <1>7

\* The block b has n units of entry a, from unit c on, after the first o ones.
HasRun(es, b, o, n, a, c) ==
  /\ es \in Seq(LIEntry) /\ Chain(es, b) /\ o \in Nat /\ n \in Nat /\ o + n <= Len(b)
  /\ a \in 1 .. Len(es) /\ c \in Nat /\ c >= 1 /\ c + n - 1 <= Size(es, a)
  /\ b[o + 1][1] = a /\ b[o + 1][2] = c

\* The units of an entry in a block are a run.
LEMMA ChainRun ==
  ASSUME NEW es, NEW b, NEW o, NEW n, NEW a, NEW c, HasRun(es, b, o, n, a, c)
  PROVE  \A k \in 1 .. n : b[o + k] = <<a, c + k - 1>>
<1> SUFFICES ASSUME es \in Seq(LIEntry), Chain(es, b), o \in Nat, n \in Nat, o + n <= Len(b),
                    a \in 1 .. Len(es), c \in Nat, c >= 1, c + n - 1 <= Size(es, a),
                    b[o + 1][1] = a, b[o + 1][2] = c
             PROVE  \A k \in 1 .. n : b[o + k] = <<a, c + k - 1>>
  BY DEF HasRun
<1>0. /\ Len(b) \in Nat /\ \A k \in 1 .. Len(b) - 1 : b[k + 1] = Succ(es, b[k])
      /\ Size(es, a) \in Nat
  BY ChainFacts, SizeType
<1> DEFINE S == {m \in Nat : m + 1 <= n => b[o + (m + 1)] = <<a, c + m>>}
<1>1. 0 \in S
  <2> SUFFICES ASSUME n >= 1 PROVE b[o + (0 + 1)] = <<a, c + 0>>
    OBVIOUS
  <2>1. o + (0 + 1) = o + 1 /\ c + 0 = c /\ o + 1 \in 1 .. Len(b)
    BY <1>0
  <2>2. b[o + 1] \in UnitOf(es)
    BY <2>1, ChainFacts
  <2>3. b[o + 1] = <<b[o + 1][1], b[o + 1][2]>>
    BY <2>2, UnitFacts
  <2>4. b[o + 1] = <<a, c>>
    BY <2>3
  <2> QED
    BY <2>1, <2>4
<1>2. ASSUME NEW m \in Nat, m \in S PROVE m + 1 \in S
  <2>0. m + 1 \in Nat
    OBVIOUS
  <2> SUFFICES ASSUME (m + 1) + 1 <= n PROVE b[o + ((m + 1) + 1)] = <<a, c + (m + 1)>>
    BY Zenon, <2>0
  <2> DEFINE k == o + (m + 1)
             d == c + m
  <2>1. /\ m + 1 <= n /\ k \in 1 .. Len(b) - 1 /\ o + ((m + 1) + 1) = k + 1
        /\ d < Size(es, a) /\ c + (m + 1) = d + 1
    BY <1>0
  <2>2. b[k] = <<a, d>>
    BY <1>2, <2>1
  <2> HIDE DEF k, d
  <2>3. b[k + 1] = Succ(es, <<a, d>>)
    BY <1>0, <2>1, <2>2
  <2>4. <<a, d>>[1] = a /\ <<a, d>>[2] = d
    OBVIOUS
  <2>5. Succ(es, <<a, d>>) = <<a, d + 1>>
    BY <2>1, <2>4 DEF Succ
  <2> QED
    BY <2>1, <2>3, <2>5
<1> HIDE DEF S
<1>3. Nat \subseteq S
  BY <1>1, <1>2, SetInduction
<1>4. ASSUME NEW k \in 1 .. n PROVE b[o + k] = <<a, c + k - 1>>
  <2>1. k - 1 \in Nat /\ (k - 1) + 1 = k /\ c + (k - 1) = c + k - 1 /\ k <= n
    OBVIOUS
  <2>2. k - 1 \in S
    BY <1>3, <2>1
  <2> QED
    BY <2>1, <2>2 DEF S
<1> QED
  BY <1>4

\* The part of the block with these units.
LEMMA BlockRun ==
  ASSUME NEW es, NEW b, NEW o, NEW n, NEW a, NEW c, HasRun(es, b, o, n, a, c)
  PROVE  /\ SubSeq(b, o + 1, o + n) = Run(a, c, n)
         /\ n >= 1 => b[o + n] = <<a, c + n - 1>>
<1>1. \A k \in 1 .. n : b[o + k] = <<a, c + k - 1>>
  BY ChainRun
<1>2. /\ es \in Seq(LIEntry) /\ Chain(es, b) /\ o \in Nat /\ n \in Nat /\ o + n <= Len(b)
      /\ a \in Nat /\ c \in Nat /\ c >= 1
  BY DEF HasRun
<1>3. b \in Seq(LogUnit)
  BY <1>2, ChainFacts
<1> DEFINE u == Run(a, c, n)
<1>4. u \in Seq(LogUnit) /\ Len(u) = n /\ \A k \in 1 .. n : u[k] = <<a, c + k - 1>>
  BY <1>2, RunFacts
<1>5. \A k \in 1 .. n : b[o + k] = u[k]
  BY <1>1, <1>4
<1> HIDE DEF u
<1>6. SubSeq(b, o + 1, o + n) = u
  BY <1>2, <1>3, <1>4, <1>5, RunPart
<1>7. n >= 1 => n \in 1 .. n
  BY <1>2
<1> QED
  BY <1>1, <1>6, <1>7 DEF u

\* The unit after a unit of an entry.
LEMMA SuccCanon ==
  ASSUME Reading, NEW a \in 1 .. Len(entries), NEW d \in Nat, d <= Size(entries, a)
  PROVE  Succ(entries, <<a, d>>) = Canon(a, d + 1)
<1>0. Size(entries, a) \in Nat
  BY FileFacts, SizeType
<1>1. <<a, d>>[1] = a /\ <<a, d>>[2] = d
  OBVIOUS
<1> QED
  BY <1>0, <1>1 DEF Succ, Canon

\* What is left of a block that a chunk of an entry is taken from.
ChunkAt(i, n, a, c) ==
  /\ Reading /\ RangeOK(i) /\ n \in Nat /\ n <= Available(i) /\ Available(i) > 0
  /\ a \in 1 .. Len(entries) /\ c \in Nat /\ c >= 1 /\ c + n - 1 <= Size(entries, a)
  /\ Block(i)[i.blockOffset + 1][1] = a /\ Block(i)[i.blockOffset + 1][2] = c

\* The units that a chunk takes from the block.
LEMMA ChunkRun ==
  ASSUME NEW i, NEW n, NEW a, NEW c, ChunkAt(i, n, a, c)
  PROVE  /\ SubSeq(Block(i), i.blockOffset + 1, i.blockOffset + n) = Run(a, c, n)
         /\ n >= 1 => Succ(entries, Block(i)[i.blockOffset + n]) = Canon(a, c + n)
<1> DEFINE b == Block(i)
           o == i.blockOffset
<1>0. Reading /\ RangeOK(i) /\ a \in 1 .. Len(entries) /\ n \in Nat /\ c \in Nat /\ c >= 1
      /\ Available(i) > 0
  BY DEF ChunkAt
<1>00. /\ entries \in Seq(LIEntry) /\ Len(entries) \in Nat /\ Size(entries, a) \in Nat
  BY <1>0, FileFacts, SizeType
<1>1. Chain(entries, b) /\ Len(b) \in Nat /\ o \in Nat /\ Available(i) = Len(b) - o
  BY <1>0, RangeFacts DEF Available
<1>2. n <= Len(b) - o /\ c + n - 1 <= Size(entries, a) /\ b[o + 1][1] = a /\ b[o + 1][2] = c
  BY <1>1 DEF ChunkAt
<1> HIDE DEF b, o
<1>3. o + n <= Len(b)
  BY <1>0, <1>1, <1>2
<1>4. HasRun(entries, b, o, n, a, c)
  BY <1>0, <1>00, <1>1, <1>2, <1>3 DEF HasRun
<1>6. /\ SubSeq(b, o + 1, o + n) = Run(a, c, n)
      /\ n >= 1 => b[o + n] = <<a, c + n - 1>>
  BY <1>4, BlockRun
<1>7. n >= 1 => Succ(entries, b[o + n]) = Canon(a, c + n)
  <2> SUFFICES ASSUME n >= 1 PROVE Succ(entries, b[o + n]) = Canon(a, c + n)
    OBVIOUS
  <2> DEFINE d == c + n - 1
  <2>1. d + 1 = c + n /\ d \in Nat /\ d <= Size(entries, a)
    BY <1>0, <1>2
  <2>2. b[o + n] = <<a, d>>
    BY <1>6
  <2> HIDE DEF d
  <2>3. Succ(entries, <<a, d>>) = Canon(a, d + 1)
    BY <1>0, <2>1, SuccCanon
  <2> QED
    BY <2>1, <2>2, <2>3
<1> QED
  BY <1>6, <1>7 DEF b, o

\* x is i after n more units, whatever they were part of.
Taken(x, i, n) ==
  /\ x \in LIter /\ x.blockPosition = i.blockPosition
  /\ x.nextBlockPosition = i.nextBlockPosition /\ x.blockOffset = i.blockOffset + n
  /\ x.entryCount = i.entryCount /\ x.entryBlockPosition = i.entryBlockPosition
  /\ x.entryBlockOffset = i.entryBlockOffset /\ x.state = i.state /\ x.type = i.type
  /\ x.keylen = i.keylen /\ x.valuelen = i.valuelen
  /\ x.keyRemaining <= x.keylen /\ x.valueRemaining <= x.valuelen
  /\ x.keyRemaining > 0 => x.valueRemaining = x.valuelen

\* sparkey_logiter_chunk: n units from the next one on.
LEMMA ChunkCore ==
  ASSUME Reading, NEW it, NEW a, RangeOK(it), OnEntry(it, a), it.state = "active",
         Read(it) < it.keylen + it.valuelen,
         NEW i, i = EnsureAvailable(it), NEW n \in Nat, n <= Available(i),
         Read(it) + n <= it.keylen + it.valuelen,
         NEW x, Taken(x, i, n), Read(x) = Read(it) + n
  PROVE  /\ IterOK(x, a) /\ x.state = "active"
         /\ SubSeq(Block(i), i.blockOffset + 1, i.blockOffset + n)
              = Run(a, Prelude + Read(it) + 1, n)
<1> SUFFICES ASSUME x \in LIter, x.blockPosition = i.blockPosition,
                    x.nextBlockPosition = i.nextBlockPosition, x.blockOffset = i.blockOffset + n,
                    x.entryCount = i.entryCount, x.entryBlockPosition = i.entryBlockPosition,
                    x.entryBlockOffset = i.entryBlockOffset, x.state = i.state, x.type = i.type,
                    x.keylen = i.keylen, x.valuelen = i.valuelen,
                    x.keyRemaining <= x.keylen, x.valueRemaining <= x.valuelen,
                    x.keyRemaining > 0 => x.valueRemaining = x.valuelen
             PROVE  /\ IterOK(x, a) /\ x.state = "active"
                    /\ SubSeq(Block(i), i.blockOffset + 1, i.blockOffset + n)
                         = Run(a, Prelude + Read(it) + 1, n)
  BY DEF Taken
<1> DEFINE c == Prelude + Read(it) + 1
           b == Block(i)
           o == i.blockOffset
           z == Size(entries, a)
<1>0. entries \in Seq(LIEntry) /\ Len(entries) \in Nat
  BY FileFacts
<1>1. /\ RangeOK(i) /\ Same(i, it) /\ Place(i, a) /\ Available(i) > 0
      /\ c \in Nat /\ 1 < c /\ c <= z
      /\ NextUnit(i) = <<a, c>> /\ b[o + 1] = <<a, c>>
  BY RestAvailable
<1>2. /\ a \in 1 .. Len(entries) /\ Read(it) \in Nat /\ z \in Nat /\ a \in Nat
      /\ it.keylen \in Nat /\ it.valuelen \in Nat
  BY <1>0, OnEntryFacts
<1>3. c + n - 1 <= z /\ Prelude + Read(x) + 1 = c + n
  <2> DEFINE kl == it.keylen
             vl == it.valuelen
             rd == Read(it)
  <2>1. z = 2 + kl + vl
    BY DEF OnEntry, Size, Prelude
  <2>2. kl \in Nat /\ vl \in Nat /\ rd \in Nat /\ rd + n <= kl + vl /\ c = 2 + rd + 1 /\ Read(x) = rd + n
    BY <1>2 DEF Prelude
  <2> HIDE DEF kl, vl, rd, z, c
  <2>3. c + n - 1 <= z /\ 2 + Read(x) + 1 = c + n
    BY <2>1, <2>2
  <2> QED
    BY <2>3 DEF Prelude
<1>4. a \in 1 .. Len(entries) /\ c >= 1 /\ b[o + 1][1] = a /\ b[o + 1][2] = c /\ Available(i) \in Nat
  BY <1>1, <1>2, RangeFacts
<1>5. /\ RangeOK(x) /\ NextUnit(x) = Canon(a, c + n)
      /\ SubSeq(b, o + 1, o + n) = Run(a, c, n)
  <2>1. /\ SubSeq(b, o + 1, o + n) = Run(a, c, n)
        /\ n >= 1 => Succ(entries, b[o + n]) = Canon(a, c + n)
    <3>1. ChunkAt(i, n, a, c)
      BY <1>1, <1>3, <1>4 DEF ChunkAt
    <3> HIDE DEF c
    <3> QED
      BY <3>1, ChunkRun
  <2> HIDE DEF c, b, o, z
  <2>2. CASE n = 0
    <3>1. x.blockOffset = i.blockOffset
      BY <1>1, <2>2, RangeFacts
    <3>2. RangeOK(x) /\ NextUnit(x) = <<a, c>>
      BY <1>1, <3>1, RangeSame
    <3>3. NextUnit(x) = Canon(a, c + n)
      BY <1>1, <2>2, <3>2 DEF Canon, z
    <3> QED
      BY <2>1, <3>2, <3>3
  <2>3. CASE n # 0
    <3>0. n >= 1
      BY <2>3
    <3>1. RangeOK(x) /\ NextUnit(x) = Succ(entries, b[o + n])
      BY <1>1, <3>0, StepMany DEF b, o
    <3> QED
      BY <2>1, <3>0, <3>1
  <2> QED
    BY <2>2, <2>3
<1> HIDE DEF c, b, o, z
<1>6. Place(x, a)
  BY <1>1, PlaceSame
<1>7. OnEntry(x, a)
  <2>1. /\ x.type = it.type /\ x.keylen = it.keylen /\ x.valuelen = it.valuelen
        /\ x.entryBlockPosition = it.entryBlockPosition /\ x.entryBlockOffset = it.entryBlockOffset
    BY <1>1 DEF Same
  <2>2. NextUnit(x) = Canon(a, Prelude + Read(x) + 1)
    BY <1>3, <1>5
  <2>3. AtHome(x, a) \/ Away(x, a)
    BY <1>6 DEF Place
  <2>4. /\ a \in DOMAIN entries
        /\ it.type = entries[a].type /\ it.keylen = entries[a].klen /\ it.valuelen = entries[a].vlen
        /\ it.entryBlockPosition \in 1 .. Len(w.file)
        /\ it.entryBlockOffset \in Prelude .. Len(BlockAt(it.entryBlockPosition))
        /\ BlockAt(it.entryBlockPosition)[it.entryBlockOffset] = <<a, Prelude>>
        /\ BlockAt(it.entryBlockPosition)[1][2] = 1
        /\ ~w.compressed => BlockAt(it.entryBlockPosition)[1][1] = a
    BY DEF OnEntry
  <2> QED
    BY <2>1, <2>2, <2>3, <2>4 DEF OnEntry
<1>8. x.state = "active"
  BY <1>1 DEF Same
<1>9. a \in 0 .. Len(entries) + 1
  BY <1>0, <1>2
<1>10. IterOK(x, a)
  BY <1>5, <1>7, <1>8, <1>9 DEF IterOK
<1> QED
  BY <1>5, <1>8, <1>10 DEF c, b, o

\* The smallest of three numbers.
LEMMA MinThree ==
  ASSUME NEW x \in Nat, NEW y \in Nat, NEW z \in Nat, NEW n, n = Min({x, y, z})
  PROVE  /\ n \in Nat /\ n <= x /\ n <= y /\ n <= z
         /\ (x > 0 /\ y > 0 /\ z > 0) => n > 0
<1>1. {x, y, z} \in SUBSET Nat
  OBVIOUS
<1>2. PICK v \in {x, y, z} : v <= x /\ v <= y /\ v <= z
  <2>1. CASE x <= y /\ x <= z
    BY <2>1
  <2>2. CASE y <= x /\ y <= z
    BY <2>2
  <2>3. CASE z <= x /\ z <= y
    BY <2>3
  <2> QED
    BY <2>1, <2>2, <2>3
<1>3. \A u \in {x, y, z} : v <= u
  BY <1>2
<1>4. n = v
  BY <1>1, <1>3, MinOf
<1> QED
  BY <1>2, <1>4

\* An iterator that has read n units of the key, or of the value.
TakeKey(i, n) == [i EXCEPT !.blockOffset = i.blockOffset + n, !.keyRemaining = i.keyRemaining - n]
TakeValue(i, n) ==
  [i EXCEPT !.blockOffset = i.blockOffset + n, !.valueRemaining = i.valueRemaining - n]

\* Taking units of the key changes what remains of it and the offset only.
LEMMA TakeKeyFields ==
  ASSUME NEW i \in LIter, NEW n \in Nat, n <= i.keyRemaining, i.keyRemaining <= i.keylen,
         i.valueRemaining = i.valuelen, NEW x, x = TakeKey(i, n)
  PROVE  Taken(x, i, n) /\ x.keyRemaining = i.keyRemaining - n /\ x.valueRemaining = i.valueRemaining
<1>1. i.blockOffset + n \in Nat /\ i.keyRemaining - n \in Nat /\ i.keyRemaining - n <= i.keylen
  BY DEF LIter
<1> DEFINE o == i.blockOffset + n
           k == i.keyRemaining - n
<1>2. x = [i EXCEPT !.blockOffset = o, !.keyRemaining = k] /\ o \in Nat /\ k \in Nat /\ k <= i.keylen
  BY <1>1 DEF TakeKey
<1> HIDE DEF o, k
<1>3. x \in LIter
  BY <1>2 DEF LIter
<1>4. /\ x.blockOffset = o /\ x.keyRemaining = k /\ x.blockPosition = i.blockPosition
      /\ x.nextBlockPosition = i.nextBlockPosition
      /\ x.entryCount = i.entryCount /\ x.entryBlockPosition = i.entryBlockPosition
      /\ x.entryBlockOffset = i.entryBlockOffset /\ x.state = i.state /\ x.type = i.type
      /\ x.keylen = i.keylen /\ x.valuelen = i.valuelen /\ x.valueRemaining = i.valueRemaining
  BY <1>2, <1>3 DEF LIter
<1>5. i.valuelen \in Nat
  BY DEF LIter
<1> QED
  BY <1>2, <1>3, <1>4, <1>5 DEF Taken, o, k

\* Taking units of the value changes what remains of it and the offset only.
LEMMA TakeValueFields ==
  ASSUME NEW i \in LIter, NEW n \in Nat, n <= i.valueRemaining, i.valueRemaining <= i.valuelen,
         i.keyRemaining = 0, NEW x, x = TakeValue(i, n)
  PROVE  Taken(x, i, n) /\ x.keyRemaining = 0 /\ x.valueRemaining = i.valueRemaining - n
<1>1. i.blockOffset + n \in Nat /\ i.valueRemaining - n \in Nat /\ i.valueRemaining - n <= i.valuelen
  BY DEF LIter
<1> DEFINE o == i.blockOffset + n
           k == i.valueRemaining - n
<1>2. x = [i EXCEPT !.blockOffset = o, !.valueRemaining = k] /\ o \in Nat /\ k \in Nat /\ k <= i.valuelen
  BY <1>1 DEF TakeValue
<1> HIDE DEF o, k
<1>3. x \in LIter
  BY <1>2 DEF LIter
<1>4. /\ x.blockOffset = o /\ x.valueRemaining = k /\ x.blockPosition = i.blockPosition
      /\ x.nextBlockPosition = i.nextBlockPosition
      /\ x.entryCount = i.entryCount /\ x.entryBlockPosition = i.entryBlockPosition
      /\ x.entryBlockOffset = i.entryBlockOffset /\ x.state = i.state /\ x.type = i.type
      /\ x.keylen = i.keylen /\ x.valuelen = i.valuelen /\ x.keyRemaining = i.keyRemaining
  BY <1>2, <1>3 DEF LIter
<1>5. i.keylen \in Nat
  BY DEF LIter
<1> QED
  BY <1>2, <1>3, <1>4, <1>5 DEF Taken, o, k

\* A reading call has delivered n units of entry a.
KeyTaken(it, r, a, m, n) ==
  /\ IterOK(r.it, a) /\ r.it.state = "active"
  /\ n <= m /\ n <= it.keyRemaining /\ (m > 0 /\ it.keyRemaining > 0 => n > 0)
  /\ r.it.keyRemaining = it.keyRemaining - n /\ r.it.valueRemaining = it.valueRemaining
  /\ r.units = Run(a, Prelude + Read(it) + 1, n)
ValueTaken(it, r, a, m, n) ==
  /\ IterOK(r.it, a) /\ r.it.state = "active"
  /\ n <= m /\ n <= it.valueRemaining /\ (m > 0 /\ it.valueRemaining > 0 => n > 0)
  /\ r.it.keyRemaining = 0 /\ r.it.valueRemaining = it.valueRemaining - n
  /\ r.units = Run(a, Prelude + Read(it) + 1, n)

\* The empty run.
LEMMA RunEmpty ==
  ASSUME NEW a, NEW c
  PROVE  Run(a, c, 0) = << >>
BY DEF Run

\* sparkey_logiter_keychunk.
LEMMA ReadKeyFacts ==
  ASSUME Reading, NEW it, NEW a, IterOK(it, a), it.state = "active", NEW m \in Nat,
         NEW r, r = ReadKey(it, m)
  PROVE  \E n \in Nat : KeyTaken(it, r, a, m, n)
<1>0. RangeOK(it) /\ OnEntry(it, a)
  BY DEF IterOK
<1>1. /\ it \in LIter /\ it.keyRemaining \in Nat /\ it.valueRemaining \in Nat /\ it.keylen \in Nat
      /\ it.valuelen \in Nat /\ it.keyRemaining <= it.keylen /\ it.valueRemaining <= it.valuelen
  BY <1>0 DEF RangeOK, LIter
<1>2. CASE it.keyRemaining = 0
  <2>1. r = [it |-> it, units |-> << >>]
    BY <1>2 DEF ReadKey, Chunk
  <2>2. r.it = it /\ r.units = << >>
    BY <2>1
  <2>3. r.units = Run(a, Prelude + Read(it) + 1, 0)
    BY <2>2, RunEmpty
  <2>4. KeyTaken(it, r, a, m, 0)
    BY <1>1, <1>2, <2>2, <2>3 DEF KeyTaken
  <2> QED
    BY <2>4
<1>3. CASE it.keyRemaining # 0
  <2> DEFINE i == EnsureAvailable(it)
             n == Min({m, it.keyRemaining, Available(i)})
             x == TakeKey(i, n)
  <2>1. /\ r.it = x
        /\ r.units = SubSeq(Block(i), i.blockOffset + 1, i.blockOffset + n)
    <3> DEFINE u == SubSeq(Block(i), i.blockOffset + 1, i.blockOffset + n)
    <3>1. r = [it |-> x, units |-> u]
      BY <1>3 DEF ReadKey, Chunk, TakeKey
    <3> HIDE DEF x, u
    <3>2. r.it = x /\ r.units = u
      BY <3>1
    <3> QED
      BY <3>2 DEF u
  <2>2. it.valueRemaining = it.valuelen
    BY <1>0, <1>1, <1>3 DEF OnEntry
  <2>3. Read(it) = it.keylen - it.keyRemaining /\ Read(it) < it.keylen + it.valuelen
    <3> DEFINE kl == it.keylen
               vl == it.valuelen
               kr == it.keyRemaining
               vr == it.valueRemaining
    <3>1. Read(it) = kl - kr + vl - vr
      BY DEF Read
    <3>2. kl \in Nat /\ vl \in Nat /\ kr \in Nat /\ vr = vl /\ kr <= kl /\ kr # 0
      BY <1>1, <1>3, <2>2
    <3> HIDE DEF kl, vl, kr, vr
    <3>3. Read(it) = kl - kr /\ Read(it) < kl + vl
      BY <3>1, <3>2
    <3> QED
      BY <3>3 DEF kl, vl, kr
  <2>4. RangeOK(i) /\ Same(i, it) /\ Available(i) > 0
    BY <1>0, <2>3, RestAvailable
  <2> HIDE DEF i
  <2>5. i \in LIter /\ Available(i) \in Nat
    BY <2>4, RangeFacts
  <2>6. /\ n \in Nat /\ n <= m /\ n <= it.keyRemaining /\ n <= Available(i)
        /\ (m > 0 /\ it.keyRemaining > 0 => n > 0)
    <3>1. \A v : v = n => /\ v \in Nat /\ v <= m /\ v <= it.keyRemaining /\ v <= Available(i)
                          /\ (m > 0 /\ it.keyRemaining > 0 /\ Available(i) > 0) => v > 0
      BY <1>1, <2>5, MinThree
    <3> HIDE DEF n
    <3> QED
      BY <2>4, <3>1
  <2> HIDE DEF n
  <2>7. Taken(x, i, n) /\ x.keyRemaining = it.keyRemaining - n /\ x.valueRemaining = it.valueRemaining
    <3>1. /\ i.keyRemaining = it.keyRemaining /\ i.keylen = it.keylen
          /\ i.valueRemaining = it.valueRemaining /\ i.valuelen = it.valuelen
      BY <2>4 DEF Same
    <3>2. n <= i.keyRemaining /\ i.keyRemaining <= i.keylen /\ i.valueRemaining = i.valuelen
      BY <1>1, <2>2, <2>6, <3>1
    <3>3. Taken(x, i, n) /\ x.keyRemaining = i.keyRemaining - n /\ x.valueRemaining = i.valueRemaining
      BY <2>5, <2>6, <3>2, TakeKeyFields
    <3> QED
      BY <3>1, <3>3
  <2> HIDE DEF x
  <2>8. Read(x) = Read(it) + n /\ Read(it) + n <= it.keylen + it.valuelen
    <3>1. x.keylen = it.keylen /\ x.valuelen = it.valuelen
      BY <2>4, <2>7 DEF Taken, Same
    <3> DEFINE kl == it.keylen
               vl == it.valuelen
               kr == it.keyRemaining
               vr == it.valueRemaining
    <3>2. Read(x) = kl - (kr - n) + vl - vr
      BY <2>7, <3>1 DEF Read
    <3>3. kl \in Nat /\ vl \in Nat /\ kr \in Nat /\ vr = vl /\ n \in Nat /\ n <= kr /\ kr <= kl
          /\ Read(it) = kl - kr
      BY <1>1, <2>2, <2>3, <2>6
    <3> HIDE DEF kl, vl, kr, vr
    <3>4. Read(x) = Read(it) + n /\ Read(it) + n <= kl + vl
      BY <3>2, <3>3
    <3> QED
      BY <3>4 DEF kl, vl
  <2>9. /\ IterOK(x, a) /\ x.state = "active"
        /\ SubSeq(Block(i), i.blockOffset + 1, i.blockOffset + n)
              = Run(a, Prelude + Read(it) + 1, n)
    BY <1>0, <2>3, <2>6, <2>7, <2>8, ChunkCore DEF i
  <2>10. KeyTaken(it, r, a, m, n)
    BY <2>1, <2>6, <2>7, <2>9 DEF KeyTaken
  <2> QED
    BY <2>6, <2>10
<1> QED
  BY <1>2, <1>3

\* sparkey_logiter_chunk of the value of an entry whose key has been read.
LEMMA ChunkValueFacts ==
  ASSUME Reading, NEW it, NEW a, IterOK(it, a), it.state = "active", NEW m \in Nat,
         it.keyRemaining = 0, NEW r, r = Chunk(it, "valueRemaining", m)
  PROVE  \E n \in Nat : ValueTaken(it, r, a, m, n)
<1>0. RangeOK(it) /\ OnEntry(it, a)
  BY DEF IterOK
<1>1. /\ it \in LIter /\ it.keyRemaining \in Nat /\ it.valueRemaining \in Nat /\ it.keylen \in Nat
      /\ it.valuelen \in Nat /\ it.keyRemaining <= it.keylen /\ it.valueRemaining <= it.valuelen
  BY <1>0 DEF RangeOK, LIter
<1>2. CASE it.valueRemaining = 0
  <2>1. r = [it |-> it, units |-> << >>]
    BY <1>2 DEF Chunk
  <2>2. r.it = it /\ r.units = << >>
    BY <2>1
  <2>3. r.units = Run(a, Prelude + Read(it) + 1, 0)
    BY <2>2, RunEmpty
  <2>4. ValueTaken(it, r, a, m, 0)
    BY <1>1, <1>2, <2>2, <2>3 DEF ValueTaken
  <2> QED
    BY <2>4
<1>3. CASE it.valueRemaining # 0
  <2> DEFINE i == EnsureAvailable(it)
             n == Min({m, it.valueRemaining, Available(i)})
             x == TakeValue(i, n)
  <2>1. /\ r.it = x
        /\ r.units = SubSeq(Block(i), i.blockOffset + 1, i.blockOffset + n)
    <3> DEFINE u == SubSeq(Block(i), i.blockOffset + 1, i.blockOffset + n)
    <3>1. r = [it |-> x, units |-> u]
      BY <1>3 DEF Chunk, TakeValue
    <3> HIDE DEF x, u
    <3>2. r.it = x /\ r.units = u
      BY <3>1
    <3> QED
      BY <3>2 DEF u
  <2>3. Read(it) = it.keylen + it.valuelen - it.valueRemaining /\ Read(it) < it.keylen + it.valuelen
    <3> DEFINE kl == it.keylen
               vl == it.valuelen
               kr == it.keyRemaining
               vr == it.valueRemaining
    <3>1. Read(it) = kl - kr + vl - vr
      BY DEF Read
    <3>2. kl \in Nat /\ vl \in Nat /\ vr \in Nat /\ kr = 0 /\ vr <= vl /\ vr # 0
      BY <1>1, <1>3
    <3> HIDE DEF kl, vl, kr, vr
    <3>3. Read(it) = kl + vl - vr /\ Read(it) < kl + vl
      BY <3>1, <3>2
    <3> QED
      BY <3>3 DEF kl, vl, vr
  <2>4. RangeOK(i) /\ Same(i, it) /\ Available(i) > 0
    BY <1>0, <2>3, RestAvailable
  <2> HIDE DEF i
  <2>5. i \in LIter /\ Available(i) \in Nat
    BY <2>4, RangeFacts
  <2>6. /\ n \in Nat /\ n <= m /\ n <= it.valueRemaining /\ n <= Available(i)
        /\ (m > 0 /\ it.valueRemaining > 0 => n > 0)
    <3>1. \A v : v = n => /\ v \in Nat /\ v <= m /\ v <= it.valueRemaining /\ v <= Available(i)
                          /\ (m > 0 /\ it.valueRemaining > 0 /\ Available(i) > 0) => v > 0
      BY <1>1, <2>5, MinThree
    <3> HIDE DEF n
    <3> QED
      BY <2>4, <3>1
  <2> HIDE DEF n
  <2>7. Taken(x, i, n) /\ x.keyRemaining = 0 /\ x.valueRemaining = it.valueRemaining - n
    <3>1. /\ i.keyRemaining = it.keyRemaining /\ i.keylen = it.keylen
          /\ i.valueRemaining = it.valueRemaining /\ i.valuelen = it.valuelen
      BY <2>4 DEF Same
    <3>2. n <= i.valueRemaining /\ i.valueRemaining <= i.valuelen /\ i.keyRemaining = 0
      BY <1>1, <2>6, <3>1
    <3>3. Taken(x, i, n) /\ x.keyRemaining = 0 /\ x.valueRemaining = i.valueRemaining - n
      BY <2>5, <2>6, <3>2, TakeValueFields
    <3> QED
      BY <3>1, <3>3
  <2> HIDE DEF x
  <2>8. Read(x) = Read(it) + n /\ Read(it) + n <= it.keylen + it.valuelen
    <3>1. x.keylen = it.keylen /\ x.valuelen = it.valuelen
      BY <2>4, <2>7 DEF Taken, Same
    <3> DEFINE kl == it.keylen
               vl == it.valuelen
               kr == it.keyRemaining
               vr == it.valueRemaining
    <3>2. Read(x) = kl - kr + vl - (vr - n)
      BY <2>7, <3>1 DEF Read
    <3>3. kl \in Nat /\ vl \in Nat /\ kr \in Nat /\ kr = 0 /\ vr \in Nat /\ n \in Nat /\ n <= vr /\ vr <= vl
          /\ Read(it) = kl + vl - vr
      BY <1>1, <2>3, <2>6
    <3> HIDE DEF kl, vl, kr, vr
    <3>4. Read(x) = Read(it) + n /\ Read(it) + n <= kl + vl
      BY <3>2, <3>3
    <3> QED
      BY <3>4 DEF kl, vl
  <2>9. /\ IterOK(x, a) /\ x.state = "active"
        /\ SubSeq(Block(i), i.blockOffset + 1, i.blockOffset + n)
              = Run(a, Prelude + Read(it) + 1, n)
    BY <1>0, <2>3, <2>6, <2>7, <2>8, ChunkCore DEF i
  <2>10. ValueTaken(it, r, a, m, n)
    BY <2>1, <2>6, <2>7, <2>9 DEF ValueTaken
  <2> QED
    BY <2>6, <2>10
<1> QED
  BY <1>2, <1>3

\* An iterator that is elsewhere in the same entry.
LEMMA OnEntrySame ==
  ASSUME NEW it, NEW a, OnEntry(it, a), NEW x, x.type = it.type, x.keylen = it.keylen,
         x.valuelen = it.valuelen, x.entryBlockPosition = it.entryBlockPosition,
         x.entryBlockOffset = it.entryBlockOffset, Place(x, a),
         x.keyRemaining > 0 => x.valueRemaining = x.valuelen,
         NextUnit(x) = Canon(a, Prelude + Read(x) + 1)
  PROVE  OnEntry(x, a)
<1>1. AtHome(x, a) \/ Away(x, a)
  BY DEF Place
<1>2. /\ a \in DOMAIN entries
      /\ it.type = entries[a].type /\ it.keylen = entries[a].klen /\ it.valuelen = entries[a].vlen
      /\ it.entryBlockPosition \in 1 .. Len(w.file)
      /\ it.entryBlockOffset \in Prelude .. Len(BlockAt(it.entryBlockPosition))
      /\ BlockAt(it.entryBlockPosition)[it.entryBlockOffset] = <<a, Prelude>>
      /\ BlockAt(it.entryBlockPosition)[1][2] = 1
      /\ ~w.compressed => BlockAt(it.entryBlockPosition)[1][1] = a
  BY DEF OnEntry
<1> QED
  BY <1>1, <1>2 DEF OnEntry

\* An iterator with nothing left of the key.
LEMMA IterKeyless ==
  ASSUME NEW j \in LIter, NEW x, x = [j EXCEPT !.keyRemaining = 0]
  PROVE  /\ x \in LIter /\ x.keyRemaining = 0 /\ x.blockPosition = j.blockPosition
         /\ x.nextBlockPosition = j.nextBlockPosition /\ x.blockOffset = j.blockOffset
         /\ x.entryCount = j.entryCount /\ x.entryBlockPosition = j.entryBlockPosition
         /\ x.entryBlockOffset = j.entryBlockOffset /\ x.state = j.state /\ x.type = j.type
         /\ x.keylen = j.keylen /\ x.valuelen = j.valuelen /\ x.valueRemaining = j.valueRemaining
<1>1. x \in LIter
  BY DEF LIter
<1> QED
  BY <1>1 DEF LIter

\* sparkey_logiter_valuechunk skips what remains of the key.
LEMMA KeySkipped ==
  ASSUME Reading, NEW it, NEW a, IterOK(it, a), it.state = "active",
         NEW x, x = [Skip(it, it.keyRemaining) EXCEPT !.keyRemaining = 0]
  PROVE  /\ IterOK(x, a) /\ x.state = "active"
         /\ x.keyRemaining = 0 /\ x.valueRemaining = it.valueRemaining
         /\ x.keylen = it.keylen /\ x.valuelen = it.valuelen /\ Read(x) = Read(it) + it.keyRemaining
<1>0. RangeOK(it) /\ OnEntry(it, a) /\ a \in 0 .. Len(entries) + 1
  BY DEF IterOK
<1>1. /\ it \in LIter /\ it.keyRemaining \in Nat /\ it.valueRemaining \in Nat /\ it.keylen \in Nat
      /\ it.valuelen \in Nat /\ it.keyRemaining <= it.keylen /\ it.valueRemaining <= it.valuelen
  BY <1>0 DEF RangeOK, LIter
<1> DEFINE n == it.keyRemaining
           k == Prelude + Read(it) + 1
           j == Skip(it, n)
<1>2. /\ Read(it) \in Nat /\ Size(entries, a) \in Nat /\ it.valueRemaining \in Nat
      /\ Prelude + Read(it) + n + it.valueRemaining = Size(entries, a)
      /\ Spot(it, a, k)
  BY <1>0, OnEntryFacts
<1>3. n \in Nat /\ k \in Nat /\ 1 < k /\ k + n <= Size(entries, a) + 1
  BY <1>1, <1>2 DEF Prelude
<1> HIDE DEF k, n
<1>4. Spot(j, a, k + n) /\ Same(j, it)
  BY <1>2, <1>3, SkipSpot
<1>5. x = [j EXCEPT !.keyRemaining = 0]
  BY DEF n
<1> HIDE DEF j
<1>6. RangeOK(j) /\ NextUnit(j) = Canon(a, k + n) /\ Place(j, a) /\ j \in LIter
  BY <1>4 DEF Spot, RangeOK
<1>7. /\ x \in LIter /\ x.keyRemaining = 0 /\ x.blockPosition = j.blockPosition
      /\ x.nextBlockPosition = j.nextBlockPosition /\ x.blockOffset = j.blockOffset
      /\ x.entryCount = j.entryCount /\ x.entryBlockPosition = j.entryBlockPosition
      /\ x.entryBlockOffset = j.entryBlockOffset /\ x.state = j.state /\ x.type = j.type
      /\ x.keylen = j.keylen /\ x.valuelen = j.valuelen /\ x.valueRemaining = j.valueRemaining
  BY <1>5, <1>6, IterKeyless
<1>8. /\ x.entryBlockPosition = it.entryBlockPosition /\ x.entryBlockOffset = it.entryBlockOffset
      /\ x.state = it.state /\ x.type = it.type /\ x.keylen = it.keylen /\ x.valuelen = it.valuelen
      /\ x.valueRemaining = it.valueRemaining
  BY <1>4, <1>7 DEF Same
<1>9. x.keyRemaining <= x.keylen /\ x.valueRemaining <= x.valuelen
  BY <1>1, <1>7, <1>8
<1>10. RangeOK(x) /\ NextUnit(x) = Canon(a, k + n)
  BY <1>6, <1>7, <1>9, RangeSame
<1>11. Place(x, a)
  BY <1>6, <1>7, PlaceSame
<1>12. Read(x) = Read(it) + n /\ Prelude + Read(x) + 1 = k + n
  <2> DEFINE kl == it.keylen
             vl == it.valuelen
             vr == it.valueRemaining
  <2>1. Read(x) = kl - 0 + vl - vr /\ Read(it) = kl - n + vl - vr /\ k = 2 + Read(it) + 1
    BY <1>7, <1>8 DEF Read, n, k, Prelude
  <2>2. kl \in Nat /\ vl \in Nat /\ vr \in Nat /\ n \in Nat
    BY <1>1, <1>3
  <2> HIDE DEF kl, vl, vr
  <2>3. Read(x) = Read(it) + n /\ 2 + Read(x) + 1 = k + n
    BY <2>1, <2>2
  <2> QED
    BY <2>3 DEF Prelude
<1>13. NextUnit(x) = Canon(a, Prelude + Read(x) + 1)
  BY <1>10, <1>12
<1>14. OnEntry(x, a)
  <2>1. x.keyRemaining > 0 => x.valueRemaining = x.valuelen
    BY <1>7
  <2> QED
    BY <1>0, <1>8, <1>11, <1>13, <2>1, OnEntrySame
<1>15. IterOK(x, a)
  BY <1>0, <1>8, <1>10, <1>14 DEF IterOK
<1> QED
  BY <1>7, <1>8, <1>12, <1>15 DEF n

\* sparkey_logiter_valuechunk.
LEMMA ReadValueFacts ==
  ASSUME Reading, NEW it, NEW a, IterOK(it, a), it.state = "active", NEW m \in Nat,
         NEW r, r = ReadValue(it, m)
  PROVE  \E x : /\ IterOK(x, a) /\ x.state = "active" /\ x.keyRemaining = 0
                /\ x.valueRemaining = it.valueRemaining /\ Read(x) = Read(it) + it.keyRemaining
                /\ \E n \in Nat : ValueTaken(x, r, a, m, n)
<1> DEFINE x == [Skip(it, it.keyRemaining) EXCEPT !.keyRemaining = 0]
<1>1. /\ IterOK(x, a) /\ x.state = "active"
      /\ x.keyRemaining = 0 /\ x.valueRemaining = it.valueRemaining
      /\ Read(x) = Read(it) + it.keyRemaining
  BY KeySkipped
<1>2. r = Chunk(x, "valueRemaining", m)
  BY DEF ReadValue
<1> HIDE DEF x
<1>3. \E n \in Nat : ValueTaken(x, r, a, m, n)
  BY <1>1, <1>2, ChunkValueFacts
<1> QED
  BY <1>1, <1>3

(***************************************************************************)
(* sparkey_logiter_reset.                                                  *)
(***************************************************************************)
\* The iterator s with all of its entry to read again, from the offset o on.
Rewound(s, k, v, o) == [s EXCEPT !.keyRemaining = k, !.valueRemaining = v, !.blockOffset = o]

RewoundTo(x, s, k, v, o) ==
  /\ x \in LIter /\ x.keyRemaining = k /\ x.valueRemaining = v /\ x.blockOffset = o
  /\ x.blockPosition = s.blockPosition /\ x.nextBlockPosition = s.nextBlockPosition
  /\ x.entryCount = s.entryCount /\ x.entryBlockPosition = s.entryBlockPosition
  /\ x.entryBlockOffset = s.entryBlockOffset /\ x.state = s.state /\ x.type = s.type
  /\ x.keylen = s.keylen /\ x.valuelen = s.valuelen

\* Nothing else changes.
LEMMA IterRewound ==
  ASSUME NEW s \in LIter, NEW k \in Nat, NEW v \in Nat, NEW o \in Nat, NEW x, x = Rewound(s, k, v, o)
  PROVE  RewoundTo(x, s, k, v, o)
<1>1. x \in LIter
  BY DEF LIter, Rewound
<1>2. /\ x.keyRemaining = k /\ x.valueRemaining = v /\ x.blockOffset = o
      /\ x.blockPosition = s.blockPosition /\ x.nextBlockPosition = s.nextBlockPosition
      /\ x.entryCount = s.entryCount /\ x.entryBlockPosition = s.entryBlockPosition
      /\ x.entryBlockOffset = s.entryBlockOffset /\ x.state = s.state /\ x.type = s.type
      /\ x.keylen = s.keylen /\ x.valuelen = s.valuelen
  BY <1>1 DEF LIter, Rewound
<1> QED
  BY <1>1, <1>2 DEF RewoundTo

\* sparkey_logiter_reset goes back to the start of the entry, from any of its blocks.
LEMMA ResetFacts ==
  ASSUME Reading, NEW it, NEW a, IterOK(it, a), it.state = "active", NEW x, x = ResetIter(it)
  PROVE  /\ IterOK(x, a) /\ x.state = "active" /\ Clean(x) /\ Read(x) = 0
         /\ x.keylen = it.keylen /\ x.valuelen = it.valuelen
<1> DEFINE p == it.entryBlockPosition
           o == it.entryBlockOffset
           s == SeekBlock(it, p)
<1>0. RangeOK(it) /\ OnEntry(it, a) /\ a \in 0 .. Len(entries) + 1
  BY DEF IterOK
<1>1. /\ a \in 1 .. Len(entries) /\ p \in 1 .. Len(w.file) /\ o \in Prelude .. Len(BlockAt(p))
      /\ BlockAt(p)[o] = <<a, Prelude>>
  BY <1>0, OnEntryFacts DEF OnEntry
<1>2. /\ it \in LIter /\ it.keylen \in Nat /\ it.valuelen \in Nat
  BY <1>0 DEF RangeOK, LIter
<1>3. x = Rewound(s, it.keylen, it.valuelen, o)
  BY DEF ResetIter, Rewound
<1> HIDE DEF p, o
<1>4. /\ RangeOK(s) /\ s.blockPosition = p /\ s.blockOffset = 0 /\ Same(s, it)
      /\ Block(s) = BlockAt(p) /\ s.entryCount = it.entryCount
  BY <1>0, <1>1, SeekBlockFacts
<1> HIDE DEF s
<1>5. s \in LIter /\ Len(BlockAt(p)) \in Nat /\ Available(s) = Len(BlockAt(p))
  <2>1. s \in LIter /\ Len(Block(s)) \in Nat
    BY <1>4, RangeFacts
  <2> QED
    BY <1>4, <2>1 DEF Available
<1>6. o \in Nat /\ o >= 1 /\ o <= Available(s)
  BY <1>1, <1>5 DEF Prelude
<1>7. /\ x \in LIter /\ x.keyRemaining = it.keylen /\ x.valueRemaining = it.valuelen
      /\ x.blockOffset = o
      /\ x.blockPosition = s.blockPosition /\ x.nextBlockPosition = s.nextBlockPosition
      /\ x.entryCount = s.entryCount /\ x.entryBlockPosition = s.entryBlockPosition
      /\ x.entryBlockOffset = s.entryBlockOffset /\ x.state = s.state /\ x.type = s.type
      /\ x.keylen = s.keylen /\ x.valuelen = s.valuelen
  <2>1. RewoundTo(x, s, it.keylen, it.valuelen, o)
    BY <1>2, <1>3, <1>5, <1>6, IterRewound
  <2> QED
    BY <2>1 DEF RewoundTo
<1>8. /\ x.entryBlockPosition = p /\ x.entryBlockPosition = it.entryBlockPosition
      /\ x.entryBlockOffset = it.entryBlockOffset
      /\ x.state = it.state /\ x.type = it.type /\ x.keylen = it.keylen /\ x.valuelen = it.valuelen
  BY <1>4, <1>7 DEF Same, p
<1>9. /\ RangeOK(x) /\ NextUnit(x) = Succ(entries, BlockAt(p)[o])
  <2>1. x.keyRemaining <= x.keylen /\ x.valueRemaining <= x.valuelen
        /\ x.blockOffset = s.blockOffset + o
    BY <1>2, <1>4, <1>6, <1>7, <1>8
  <2>2. RangeOK(x) /\ NextUnit(x) = Succ(entries, Block(s)[s.blockOffset + o])
    BY <1>4, <1>6, <1>7, <2>1, StepMany
  <2>3. s.blockOffset + o = o
    BY <1>4, <1>6
  <2> QED
    BY <1>4, <2>2, <2>3
<1>10. Read(x) = 0
  <2> DEFINE kl == it.keylen
             vl == it.valuelen
  <2>1. Read(x) = kl - kl + vl - vl /\ kl \in Nat /\ vl \in Nat
    BY <1>2, <1>7, <1>8 DEF Read
  <2> HIDE DEF kl, vl
  <2> QED
    BY <2>1
<1>11. NextUnit(x) = Canon(a, Prelude + Read(x) + 1)
  <2>1. Prelude \in Nat /\ Prelude <= Size(entries, a) /\ Prelude + Read(x) + 1 = Prelude + 1
    <3>1. it.keylen = entries[a].klen /\ it.valuelen = entries[a].vlen
      BY <1>0 DEF OnEntry
    <3> QED
      BY <1>2, <1>10, <3>1 DEF Prelude, Size
  <2>2. Succ(entries, <<a, Prelude>>) = Canon(a, Prelude + 1)
    BY <1>1, <2>1, SuccCanon
  <2> QED
    BY <1>1, <1>9, <2>1, <2>2
<1>12. Place(x, a)
  <2>0. BlockAt(p)[1][2] = 1 /\ (AtHome(it, a) \/ Away(it, a))
    BY <1>0 DEF OnEntry, p
  <2>1. CASE AtHome(it, a)
    <3>1. x.blockPosition = it.blockPosition /\ x.entryCount = it.entryCount
      BY <1>4, <1>7, <2>1 DEF AtHome, p
    <3>2. AtHome(x, a)
      BY <1>8, <2>1, <3>1 DEF AtHome, Block
    <3> QED
      BY <1>1, <1>8, <2>0, <3>2 DEF Place
  <2>2. CASE Away(it, a)
    <3>1. x.blockPosition = x.entryBlockPosition
      BY <1>4, <1>7, <1>8
    <3>2. Away(x, a)
      BY <1>8, <2>2, <3>1 DEF Away
    <3> QED
      BY <1>1, <1>8, <2>0, <3>2 DEF Place
  <2> QED
    BY <2>0, <2>1, <2>2
<1>13. OnEntry(x, a)
  <2>1. x.keyRemaining > 0 => x.valueRemaining = x.valuelen
    BY <1>7, <1>8
  <2> QED
    BY <1>0, <1>8, <1>11, <1>12, <2>1, OnEntrySame
<1>14. IterOK(x, a)
  BY <1>0, <1>8, <1>9, <1>13 DEF IterOK
<1> QED
  BY <1>7, <1>8, <1>10, <1>14 DEF Clean

(***************************************************************************)
(* sparkey_logiter_fill_key and sparkey_logiter_fill_value.                *)
(***************************************************************************)

\* What remains of the part, and how far the entry is read when it begins.
Rem(part, it) == IF part = "key" THEN it.keyRemaining ELSE it.valueRemaining
Pos(part, it) == IF part = "key" THEN Read(it) ELSE Read(it) + it.keyRemaining
ReadPart(part, it, m) == IF part = "key" THEN ReadKey(it, m) ELSE ReadValue(it, m)

\* r has the next n units of the part.
PartTaken(part, it, r, a, m, n) ==
  /\ IterOK(r.it, a) /\ r.it.state = "active"
  /\ n <= m /\ n <= Rem(part, it) /\ Rem(part, r.it) = Rem(part, it) - n
  /\ Pos(part, r.it) = Pos(part, it) + n
  /\ part = "key" => r.it.valueRemaining = it.valueRemaining
  /\ r.units = Run(a, Prelude + Pos(part, it) + 1, n)
  /\ n > 0 => Read(r.it) = Pos(part, it) + n

\* What remains and what has been read of an entry.
LEMMA ReadType ==
  ASSUME Reading, NEW it, NEW a, IterOK(it, a), it.state = "active"
  PROVE  /\ a \in Nat /\ a \in 1 .. Len(entries) /\ Read(it) \in Nat /\ it.keyRemaining \in Nat
         /\ it.valueRemaining \in Nat /\ it.keylen \in Nat /\ it.valuelen \in Nat
         /\ it.keylen = entries[a].klen /\ it.valuelen = entries[a].vlen
         /\ Read(it) = it.keylen - it.keyRemaining + it.valuelen - it.valueRemaining
         /\ Prelude + Read(it) + it.keyRemaining + it.valueRemaining = Size(entries, a)
         /\ it \in LIter
<1>1. RangeOK(it) /\ OnEntry(it, a)
  BY DEF IterOK
<1>2. Len(entries) \in Nat /\ a \in 1 .. Len(entries)
  BY <1>1, FileFacts, OnEntryFacts
<1>3. it.keylen = entries[a].klen /\ it.valuelen = entries[a].vlen /\ it \in LIter
  BY <1>1 DEF OnEntry, RangeOK
<1>4. /\ Read(it) \in Nat /\ it.keyRemaining \in Nat
      /\ it.valueRemaining \in Nat /\ it.keylen \in Nat /\ it.valuelen \in Nat
      /\ Prelude + Read(it) + it.keyRemaining + it.valueRemaining = Size(entries, a)
  BY <1>1, OnEntryFacts
<1>5. Read(it) = it.keylen - it.keyRemaining + it.valuelen - it.valueRemaining
  BY DEF Read
<1> QED
  BY <1>2, <1>3, <1>4, <1>5

\* Two iterators on an entry that have read as much of it as they say.
LEMMA ReadMore ==
  ASSUME Reading, NEW it, NEW x, NEW a, IterOK(it, a), it.state = "active",
         IterOK(x, a), x.state = "active"
  PROVE  Read(x) + x.keyRemaining + x.valueRemaining = Read(it) + it.keyRemaining + it.valueRemaining
<1> DEFINE r == Read(it)
           s == Read(x)
           k == it.keyRemaining
           l == x.keyRemaining
           v == it.valueRemaining
           u == x.valueRemaining
<1>1. 2 + r + k + v = Size(entries, a) /\ r \in Nat /\ k \in Nat /\ v \in Nat
  BY ReadType DEF Prelude
<1>2. 2 + s + l + u = Size(entries, a) /\ s \in Nat /\ l \in Nat /\ u \in Nat
  BY ReadType DEF Prelude
<1> HIDE DEF r, s, k, l, v, u
<1>3. s + l + u = r + k + v
  BY <1>1, <1>2
<1> QED
  BY <1>3 DEF r, s, k, l, v, u

\* One call has delivered something, if there is something.
PartRead(part, it, r, a, m) ==
  \E n \in Nat : /\ PartTaken(part, it, r, a, m, n) /\ Read(r.it) = Pos(part, it) + n
                 /\ (m > 0 /\ Rem(part, it) > 0) => n > 0

\* keychunk and valuechunk.
LEMMA ReadPartFacts ==
  ASSUME Reading, NEW it, NEW a, IterOK(it, a), it.state = "active", NEW m \in Nat,
         NEW part \in {"key", "value"}, NEW r, r = ReadPart(part, it, m)
  PROVE  PartRead(part, it, r, a, m)
<1> SUFFICES \E n \in Nat : /\ PartTaken(part, it, r, a, m, n) /\ Read(r.it) = Pos(part, it) + n
                            /\ (m > 0 /\ Rem(part, it) > 0) => n > 0
  BY DEF PartRead
<1>0. Read(it) \in Nat /\ it.keyRemaining \in Nat /\ it.valueRemaining \in Nat
  BY ReadType
<1>1. CASE part = "key"
  <2>1. r = ReadKey(it, m)
    BY <1>1 DEF ReadPart
  <2>2. PICK n \in Nat : KeyTaken(it, r, a, m, n)
    BY <2>1, ReadKeyFacts
  <2>3. /\ IterOK(r.it, a) /\ r.it.state = "active"
        /\ n <= m /\ n <= it.keyRemaining /\ (m > 0 /\ it.keyRemaining > 0 => n > 0)
        /\ r.it.keyRemaining = it.keyRemaining - n /\ r.it.valueRemaining = it.valueRemaining
        /\ r.units = Run(a, Prelude + Read(it) + 1, n)
    BY <2>2 DEF KeyTaken
  <2> DEFINE x == r.it
  <2>4. Read(x) + x.keyRemaining + x.valueRemaining = Read(it) + it.keyRemaining + it.valueRemaining
        /\ Read(x) \in Nat
    BY <2>3, ReadMore, ReadType
  <2>5. Read(x) = Read(it) + n
    BY <1>0, <2>3, <2>4
  <2> HIDE DEF x
  <2>6. /\ Rem(part, it) = it.keyRemaining /\ Rem(part, x) = x.keyRemaining
        /\ Pos(part, it) = Read(it) /\ Pos(part, x) = Read(x)
    BY <1>1 DEF Rem, Pos
  <2>7. PartTaken(part, it, r, a, m, n)
    BY <2>3, <2>5, <2>6 DEF PartTaken, x
  <2> QED
    BY <2>3, <2>5, <2>6, <2>7 DEF x
<1>2. CASE part = "value"
  <2>1. r = ReadValue(it, m)
    BY <1>2 DEF ReadPart
  <2>2. PICK y : /\ IterOK(y, a) /\ y.state = "active" /\ y.keyRemaining = 0
                /\ y.valueRemaining = it.valueRemaining /\ Read(y) = Read(it) + it.keyRemaining
                /\ \E n \in Nat : ValueTaken(y, r, a, m, n)
    BY <2>1, ReadValueFacts
  <2>3. PICK n \in Nat : ValueTaken(y, r, a, m, n)
    BY <2>2
  <2>4. /\ IterOK(r.it, a) /\ r.it.state = "active"
        /\ n <= m /\ n <= y.valueRemaining /\ (m > 0 /\ y.valueRemaining > 0 => n > 0)
        /\ r.it.keyRemaining = 0 /\ r.it.valueRemaining = y.valueRemaining - n
        /\ r.units = Run(a, Prelude + Read(y) + 1, n)
    BY <2>3 DEF ValueTaken
  <2> DEFINE x == r.it
  <2>5. Read(x) + x.keyRemaining + x.valueRemaining = Read(it) + it.keyRemaining + it.valueRemaining
        /\ Read(x) \in Nat
    BY <2>4, ReadMore, ReadType
  <2>6. Read(x) = Read(it) + it.keyRemaining + n
    BY <1>0, <2>2, <2>4, <2>5
  <2> HIDE DEF x
  <2>7. /\ Rem(part, it) = it.valueRemaining /\ Rem(part, x) = x.valueRemaining
        /\ Pos(part, it) = Read(it) + it.keyRemaining /\ Pos(part, x) = Read(x) + x.keyRemaining
    BY <1>2 DEF Rem, Pos
  <2>8. Pos(part, x) = Pos(part, it) + n /\ Read(x) = Pos(part, it) + n
    BY <1>0, <2>4, <2>6, <2>7 DEF x
  <2>9. r.units = Run(a, Prelude + Pos(part, it) + 1, n)
    BY <2>2, <2>4, <2>7
  <2>10. PartTaken(part, it, r, a, m, n)
    BY <1>2, <2>2, <2>4, <2>7, <2>8, <2>9 DEF PartTaken, x
  <2> QED
    BY <2>2, <2>4, <2>7, <2>8, <2>10 DEF x
<1> QED
  BY <1>1, <1>2


\* One call of sparkey_logiter_keychunk or valuechunk in the loop.
FillStep(part, m, r) ==
  LET c == IF part = "key" THEN ReadKey(r.it, m - Len(r.units))
           ELSE ReadValue(r.it, m - Len(r.units))
  IN  [it |-> c.it, units |-> r.units \o c.units]

\* The next n units of the part are followed by more, if there are more.
PartMore(part, it, s, a, m, n) ==
  \E k \in Nat : /\ PartTaken(part, it, s, a, m, n + k)
                 /\ (m > n /\ Rem(part, it) > n) => k > 0

\* One call in the loop.
LEMMA FillMore ==
  ASSUME Reading, NEW it, NEW a, IterOK(it, a), it.state = "active", NEW m \in Nat,
         NEW part \in {"key", "value"}, NEW r, NEW n \in Nat, PartTaken(part, it, r, a, m, n),
         NEW s, s = FillStep(part, m, r)
  PROVE  PartMore(part, it, s, a, m, n)
<1> DEFINE x == r.it
           c == ReadPart(part, x, m - n)
           q == Prelude + Pos(part, it) + 1
<1>0. /\ IterOK(x, a) /\ x.state = "active" /\ n <= m /\ n <= Rem(part, it)
      /\ Rem(part, x) = Rem(part, it) - n /\ Pos(part, x) = Pos(part, it) + n
      /\ part = "key" => x.valueRemaining = it.valueRemaining
      /\ r.units = Run(a, q, n)
      /\ n > 0 => Read(x) = Pos(part, it) + n
  BY DEF PartTaken
<1>1. /\ a \in Nat /\ Rem(part, it) \in Nat /\ Pos(part, it) \in Nat
  BY ReadType DEF Rem, Pos
<1>2. q \in Nat /\ q >= 1 /\ m - n \in Nat
  BY <1>0, <1>1 DEF Prelude
<1>3. Len(r.units) = n
  BY <1>0, <1>1, <1>2, RunFacts
<1>4. s = [it |-> c.it, units |-> r.units \o c.units]
  BY <1>3 DEF FillStep, ReadPart
<1>5. PICK k \in Nat : /\ PartTaken(part, x, c, a, m - n, k) /\ Read(c.it) = Pos(part, x) + k
                       /\ (m - n > 0 /\ Rem(part, x) > 0) => k > 0
  <2> DEFINE d == m - n
  <2>1. d \in Nat /\ c = ReadPart(part, x, d)
    BY <1>2
  <2> HIDE DEF c, x, q, d
  <2>2. PartRead(part, x, c, a, d)
    BY <1>0, <2>1, ReadPartFacts
  <2> QED
    BY <2>2 DEF d, PartRead
<1> HIDE DEF c, x, q
<1>6. /\ IterOK(c.it, a) /\ c.it.state = "active" /\ k <= m - n /\ k <= Rem(part, x)
      /\ Rem(part, c.it) = Rem(part, x) - k /\ Pos(part, c.it) = Pos(part, x) + k
      /\ part = "key" => c.it.valueRemaining = x.valueRemaining
      /\ c.units = Run(a, Prelude + Pos(part, x) + 1, k)
      /\ k > 0 => Read(c.it) = Pos(part, x) + k
  BY <1>5 DEF PartTaken
<1>7. s.it = c.it /\ s.units = r.units \o c.units
  <2> DEFINE y == c.it
             u == r.units \o c.units
  <2>1. s = [it |-> y, units |-> u]
    BY <1>4
  <2> HIDE DEF y, u
  <2>2. s.it = y /\ s.units = u
    BY <2>1
  <2> QED
    BY <2>2 DEF y, u
<1>8. s.units = Run(a, q, n + k)
  <2>1. Prelude + Pos(part, x) + 1 = q + n
    BY <1>0, <1>1 DEF q, Prelude
  <2>2. c.units = Run(a, q + n, k)
    BY <1>6, <2>1
  <2>3. Run(a, q, n) \o Run(a, q + n, k) = Run(a, q, n + k)
    <3>1. Runs(a, q, n, k)
      BY <1>1, <1>2, <1>5 DEF Runs
    <3> QED
      BY <3>1, RunConcat
  <2> QED
    BY <1>0, <1>7, <2>2, <2>3
<1>9. Read(c.it) = Pos(part, it) + (n + k)
  BY <1>0, <1>1, <1>5
<1>10. PartTaken(part, it, s, a, m, n + k)
  <2>1. n + k <= m /\ n + k <= Rem(part, it) /\ Rem(part, c.it) = Rem(part, it) - (n + k)
        /\ Pos(part, c.it) = Pos(part, it) + (n + k)
    BY <1>0, <1>1, <1>2, <1>6
  <2>2. part = "key" => c.it.valueRemaining = it.valueRemaining
    BY <1>0, <1>6
  <2> QED
    BY <1>6, <1>7, <1>8, <1>9, <2>1, <2>2 DEF PartTaken, q
<1>11. (m > n /\ Rem(part, it) > n) => k > 0
  BY <1>0, <1>1, <1>5
<1> QED
  BY <1>10, <1>11 DEF PartMore

\* The results of the loop.
Fills(part, it, a, m) ==
  {r \in [it : LIter, units : Seq(LogUnit)] : \E n \in Nat : PartTaken(part, it, r, a, m, n)}

\* The loop begins with nothing.
LEMMA FillStart ==
  ASSUME Reading, NEW it, NEW a, IterOK(it, a), it.state = "active", NEW m \in Nat,
         NEW part \in {"key", "value"}, NEW r, r = [it |-> it, units |-> << >>]
  PROVE  PartTaken(part, it, r, a, m, 0) /\ r \in Fills(part, it, a, m)
<1>1. r.it = it /\ r.units = << >>
  OBVIOUS
<1>2. Rem(part, it) \in Nat /\ Pos(part, it) \in Nat /\ it \in LIter
  BY ReadType DEF Rem, Pos
<1>3. r.units = Run(a, Prelude + Pos(part, it) + 1, 0)
  BY <1>1, RunEmpty
<1>4. PartTaken(part, it, r, a, m, 0)
  BY <1>1, <1>2, <1>3 DEF PartTaken
<1>5. r \in [it : LIter, units : Seq(LogUnit)]
  <2>1. << >> \in Seq(LogUnit)
    OBVIOUS
  <2> QED
    BY <1>2, <2>1
<1> QED
  BY <1>4, <1>5 DEF Fills

\* The loop stays in its results.
LEMMA FillClosed ==
  ASSUME Reading, NEW it, NEW a, IterOK(it, a), it.state = "active", NEW m \in Nat,
         NEW part \in {"key", "value"}, NEW r \in Fills(part, it, a, m),
         NEW s, s = FillStep(part, m, r)
  PROVE  s \in Fills(part, it, a, m)
<1>1. PICK n \in Nat : PartTaken(part, it, r, a, m, n)
  BY DEF Fills
<1>2. PICK k \in Nat : PartTaken(part, it, s, a, m, n + k)
  <2>1. PartMore(part, it, s, a, m, n)
    BY <1>1, FillMore
  <2> QED
    BY <2>1 DEF PartMore
<1> DEFINE d == n + k
           q == Prelude + Pos(part, it) + 1
<1>3. d \in Nat /\ PartTaken(part, it, s, a, m, d)
  BY <1>1, <1>2
<1>4. a \in Nat /\ q \in Nat /\ q >= 1
  BY ReadType DEF Pos, Prelude
<1> HIDE DEF d, q
<1>5. s.units = Run(a, q, d) /\ IterOK(s.it, a)
  BY <1>3 DEF PartTaken, q
<1>6. s.units \in Seq(LogUnit) /\ s.it \in LIter
  <2>1. Run(a, q, d) \in Seq(LogUnit)
    BY <1>3, <1>4, RunFacts
  <2> QED
    BY <1>5, <2>1 DEF IterOK, RangeOK
<1>7. s \in [it : LIter, units : Seq(LogUnit)]
  <2>1. PICK y, u : s = [it |-> y, units |-> u]
    BY DEF FillStep
  <2>2. s.it = y /\ s.units = u
    BY <2>1
  <2> QED
    BY <1>6, <2>1, <2>2
<1> QED
  BY <1>3, <1>7 DEF Fills

\* The results in between.
LEMMA FillChain ==
  ASSUME Reading, NEW it, NEW a, IterOK(it, a), it.state = "active", NEW m \in Nat,
         NEW part \in {"key", "value"}
  PROVE  \E G : /\ G[0] = [it |-> it, units |-> << >>]
                /\ \A k \in 0 .. m - 1 : G[k + 1] = FillStep(part, m, G[k])
                /\ FillUp(part, it, m) = G[m]
<1> DEFINE D == DOMAIN [k \in 1 .. m |-> k]
           V == Fills(part, it, a, m)
           r0 == [it |-> it, units |-> << >>]
           F == [k \in 1 .. m |-> [v \in V |-> FillStep(part, m, v)]]
           P(f) == f = [s \in SUBSET D |-> IF s = {} THEN r0 ELSE FillStep(part, m, f[s \ {Max(s)}])]
           f0 == CHOOSE f : P(f)
           G == [k \in 0 .. m |-> f0[1 .. k]]
<1>1. FillUp(part, it, m) = f0[D]
  BY DEF FillUp, FoldLeft, MapThenFoldSet, FillStep
<1>2. D = 1 .. m /\ r0 \in V
  BY FillStart
<1>3. \A k \in 1 .. m : F[k] \in [V -> V]
  <2>1. \A v \in V : FillStep(part, m, v) \in V
    BY FillClosed
  <2> HIDE DEF V, r0, D
  <2> QED
    BY <2>1
<1> HIDE DEF D, V, r0
<1>4. PICK f \in [SUBSET (1 .. m) -> V] : IsFold(f, r0, m, F)
  <2> HIDE DEF F
  <2> QED
    BY <1>2, <1>3, FoldExists
<1>5. P(f)
  <2>1. ASSUME NEW s \in SUBSET (1 .. m), s # {}
        PROVE  F[Max(s)][f[s \ {Max(s)}]] = FillStep(part, m, f[s \ {Max(s)}])
    <3>1. Max(s) \in 1 .. m
      BY <2>1, Counting
    <3>2. f[s \ {Max(s)}] \in V
      BY <1>4
    <3> QED
      BY <3>1, <3>2
  <2> HIDE DEF F
  <2>2. [s \in SUBSET D |-> IF s = {} THEN r0 ELSE FillStep(part, m, f[s \ {Max(s)}])]
        = [s \in SUBSET (1 .. m) |-> IF s = {} THEN r0 ELSE F[Max(s)][f[s \ {Max(s)}]]]
    BY <1>2, <2>1
  <2> QED
    BY <1>4, <2>2 DEF IsFold
<1>6. P(f0)
  <2> HIDE DEF P
  <2> QED
    BY <1>5
<1>7. G[0] = r0
  <2>1. {} \in SUBSET D /\ 1 .. 0 = {} /\ 0 \in 0 .. m
    BY <1>2
  <2> HIDE DEF f0
  <2>2. f0[{}] = r0
    BY Zenon, <1>6, <2>1
  <2> QED
    BY <2>1, <2>2
<1>8. ASSUME NEW k \in 0 .. m - 1
      PROVE  G[k + 1] = FillStep(part, m, G[k])
  <2>1. /\ k \in Nat /\ k \in 0 .. m /\ k + 1 \in 0 .. m /\ 1 .. (k + 1) \in SUBSET D
    BY <1>2
  <2> HIDE DEF f0
  <2>2. f0[1 .. (k + 1)] = FillStep(part, m, f0[(1 .. (k + 1)) \ {Max(1 .. (k + 1))}])
    BY Zenon, <1>6, <2>1, Interval
  <2> QED
    BY <2>1, <2>2, Interval
<1>9. FillUp(part, it, m) = G[m]
  BY <1>1, <1>2
<1> HIDE DEF G
<1> QED
  BY <1>7, <1>8, <1>9 DEF r0

\* The part is read, or as much of it as was asked for.
LEMMA FillFacts ==
  ASSUME Reading, NEW it, NEW a, IterOK(it, a), it.state = "active", NEW m \in Nat,
         NEW part \in {"key", "value"}, NEW r, r = FillUp(part, it, m)
  PROVE  \E n \in Nat : PartTaken(part, it, r, a, m, n) /\ (n = m \/ n = Rem(part, it))
<1>1. PICK G : /\ G[0] = [it |-> it, units |-> << >>]
               /\ \A k \in 0 .. m - 1 : G[k + 1] = FillStep(part, m, G[k])
               /\ FillUp(part, it, m) = G[m]
  BY FillChain
<1>2. Rem(part, it) \in Nat
  BY ReadType DEF Rem
<1> DEFINE Q(k) == \E n \in Nat : PartTaken(part, it, G[k], a, m, n)
                                  /\ (n = m \/ n = Rem(part, it) \/ n >= k)
           S == {k \in Nat : k <= m => Q(k)}
<1>3. 0 \in S
  <2>1. PartTaken(part, it, G[0], a, m, 0)
    BY <1>1, FillStart
  <2> QED
    BY <2>1
<1>4. ASSUME NEW k \in Nat, k \in S PROVE k + 1 \in S
  <2>0. k + 1 \in Nat
    OBVIOUS
  <2> SUFFICES ASSUME k + 1 <= m PROVE Q(k + 1)
    BY Zenon, <2>0
  <2>1. k <= m /\ k \in 0 .. m - 1
    OBVIOUS
  <2>2. PICK n \in Nat : PartTaken(part, it, G[k], a, m, n) /\ (n = m \/ n = Rem(part, it) \/ n >= k)
    BY <1>4, <2>1
  <2>3. G[k + 1] = FillStep(part, m, G[k])
    BY <1>1, <2>1
  <2>4. PICK j \in Nat : /\ PartTaken(part, it, G[k + 1], a, m, n + j)
                         /\ (m > n /\ Rem(part, it) > n) => j > 0
    <3> DEFINE x == G[k]
               y == G[k + 1]
    <3>1. y = FillStep(part, m, x) /\ PartTaken(part, it, x, a, m, n) /\ n \in Nat
      BY <2>2, <2>3
    <3> HIDE DEF x, y
    <3>2. PartMore(part, it, y, a, m, n)
      BY <3>1, FillMore
    <3> QED
      BY <3>2 DEF y, PartMore
  <2> DEFINE d == n + j
  <2>5. d \in Nat /\ PartTaken(part, it, G[k + 1], a, m, d)
    BY <2>2, <2>4
  <2>6. n <= m /\ n <= Rem(part, it) /\ d <= m /\ d <= Rem(part, it)
    BY <2>2, <2>4 DEF PartTaken
  <2>7. d = m \/ d = Rem(part, it) \/ d >= k + 1
    BY <1>2, <2>2, <2>4, <2>6
  <2> HIDE DEF d
  <2> QED
    BY <2>5, <2>7
<1> HIDE DEF S
<1>5. Nat \subseteq S
  BY <1>3, <1>4, SetInduction
<1>6. Q(m)
  BY <1>5 DEF S
<1>7. PICK n \in Nat : PartTaken(part, it, G[m], a, m, n) /\ (n = m \/ n = Rem(part, it) \/ n >= m)
  BY <1>6
<1>8. n <= m
  BY <1>7 DEF PartTaken
<1> QED
  BY <1>1, <1>7, <1>8

(***************************************************************************)
(* sparkey_logiter_keycmp.                                                 *)
(***************************************************************************)

\* The smallest number of a set.
LEMMA MinIn ==
  ASSUME NEW S \in SUBSET Nat, S # {}
  PROVE  Min(S) \in S /\ \A y \in S : Min(S) <= y
<1> DEFINE Least(T) == \E x \in T : \A y \in T : x <= y
           I == {k \in Nat : \A T \in SUBSET Nat : (\E x \in T : x <= k) => Least(T)}
<1>1. 0 \in I
  <2> SUFFICES ASSUME NEW T \in SUBSET Nat, NEW x \in T, x <= 0 PROVE Least(T)
    OBVIOUS
  <2>1. \A y \in T : x <= y
    OBVIOUS
  <2> QED
    BY <2>1
<1>2. ASSUME NEW k \in Nat, k \in I PROVE k + 1 \in I
  <2>0. k + 1 \in Nat
    OBVIOUS
  <2> SUFFICES ASSUME NEW T \in SUBSET Nat, NEW x \in T, x <= k + 1 PROVE Least(T)
    BY <2>0
  <2>1. CASE \E y \in T : y <= k
    BY <1>2, <2>1
  <2>2. CASE ~ \E y \in T : y <= k
    <3>1. \A y \in T : x <= y
      BY <2>2
    <3> QED
      BY <3>1
  <2> QED
    BY <2>1, <2>2
<1> HIDE DEF I
<1>3. Nat \subseteq I
  BY <1>1, <1>2, SetInduction
<1>4. PICK x \in S : TRUE
  OBVIOUS
<1>5. Least(S)
  <2>1. x \in Nat /\ x <= x /\ x \in I
    BY <1>3, <1>4
  <2> QED
    BY <1>4, <2>1 DEF I
<1>6. PICK z \in S : \A y \in S : z <= y
  BY <1>5
<1>7. Min(S) = z
  BY <1>6, MinOf
<1> QED
  BY <1>6, <1>7

\* s and t first differ at j.
Differ(s, t, j) ==
  /\ s \in Seq(Nat) /\ t \in Seq(Nat) /\ j \in Nat /\ 1 <= j /\ j <= Len(s) /\ j <= Len(t)
  /\ s[j] # t[j] /\ \A k \in 1 .. j - 1 : s[k] = t[k]

\* One of s and t begins with the other.
Agree(s, t) == \A k \in Nat : (1 <= k /\ k <= Len(s) /\ k <= Len(t)) => s[k] = t[k]

\* memcmp.
LEMMA MemcmpDiffers ==
  ASSUME NEW s, NEW t, NEW j, Differ(s, t, j)
  PROVE  Memcmp(s, t) = IF s[j] < t[j] THEN -1 ELSE 1
<1>1. /\ s \in Seq(Nat) /\ t \in Seq(Nat) /\ j \in Nat /\ 1 <= j /\ j <= Len(s) /\ j <= Len(t)
      /\ s[j] # t[j] /\ \A k \in 1 .. j - 1 : s[k] = t[k]
  BY DEF Differ
<1> DEFINE m == Min({Len(s), Len(t)})
           D == {k \in 1 .. m : s[k] # t[k]}
<1>2. m \in Nat /\ j <= m
  <2>1. Len(s) \in Nat /\ Len(t) \in Nat
    BY <1>1
  <2>2. m = IF Len(s) <= Len(t) THEN Len(s) ELSE Len(t)
    BY <2>1, MaxPair
  <2> HIDE DEF m
  <2> QED
    BY <1>1, <2>1, <2>2
<1>3. Memcmp(s, t) = IF D = {} THEN 0 ELSE IF s[Min(D)] < t[Min(D)] THEN -1 ELSE 1
  BY DEF Memcmp
<1> HIDE DEF m
<1>4. j \in D /\ D \in SUBSET Nat
  BY <1>1, <1>2
<1>5. \A y \in D : j <= y
  <2> SUFFICES ASSUME NEW y \in D, ~(j <= y) PROVE FALSE
    OBVIOUS
  <2>1. y \in 1 .. j - 1 /\ s[y] # t[y]
    BY <1>1, <1>2
  <2> QED
    BY <1>1, <2>1
<1> HIDE DEF D
<1>6. Min(D) = j /\ D # {}
  BY <1>4, <1>5, MinOf
<1> QED
  BY <1>3, <1>6

\* memcmp finds the first difference, if there is one.
LEMMA MemcmpAgrees ==
  ASSUME NEW s \in Seq(Nat), NEW t \in Seq(Nat)
  PROVE  /\ Agree(s, t) => Memcmp(s, t) = 0
         /\ ~Agree(s, t) => \E j : Differ(s, t, j)
<1> DEFINE m == Min({Len(s), Len(t)})
           D == {k \in 1 .. m : s[k] # t[k]}
<1>1. Len(s) \in Nat /\ Len(t) \in Nat
  OBVIOUS
<1>2. m \in Nat /\ m <= Len(s) /\ m <= Len(t) /\ (m = Len(s) \/ m = Len(t))
  <2>1. m = IF Len(s) <= Len(t) THEN Len(s) ELSE Len(t)
    BY <1>1, MaxPair
  <2> HIDE DEF m
  <2> QED
    BY <1>1, <2>1
<1>3. Memcmp(s, t) = IF D = {} THEN 0 ELSE IF s[Min(D)] < t[Min(D)] THEN -1 ELSE 1
  BY DEF Memcmp
<1> HIDE DEF m
<1>4. Agree(s, t) => D = {}
  <2> SUFFICES ASSUME Agree(s, t), NEW k \in D PROVE FALSE
    OBVIOUS
  <2>1. k \in Nat /\ 1 <= k /\ k <= Len(s) /\ k <= Len(t) /\ s[k] # t[k]
    BY <1>1, <1>2
  <2> QED
    BY <2>1 DEF Agree
<1>5. ASSUME ~Agree(s, t) PROVE \E j : Differ(s, t, j)
  <2>1. PICK k \in Nat : 1 <= k /\ k <= Len(s) /\ k <= Len(t) /\ s[k] # t[k]
    BY <1>5 DEF Agree
  <2>2. k \in D /\ D \in SUBSET Nat
    BY <1>1, <1>2, <2>1
  <2> DEFINE j == Min(D)
  <2>3. j \in D /\ \A y \in D : j <= y
    BY <2>2, MinIn
  <2> HIDE DEF j
  <2>4. j \in Nat /\ 1 <= j /\ j <= Len(s) /\ j <= Len(t) /\ s[j] # t[j] /\ j <= m
    BY <1>1, <1>2, <2>3
  <2>5. ASSUME NEW y \in 1 .. j - 1 PROVE s[y] = t[y]
    BY <1>2, <2>3, <2>4
  <2>6. Differ(s, t, j)
    BY <2>4, <2>5 DEF Differ
  <2> QED
    BY <2>6
<1> QED
  BY <1>3, <1>4, <1>5

(***************************************************************************)
(* sparkey_logiter_keycmp.                                                 *)
(***************************************************************************)

\* What keycmp has of a key: the units u after the first p, which have been
\* compared; the iterator is behind them.
HasPart(it, u, a, p, n) ==
  /\ IterOK(it, a) /\ it.state = "active" /\ p \in Nat /\ n \in Nat
  /\ u = Run(a, Prelude + p + 1, n)
  /\ it.keyRemaining + p + n = entries[a].klen /\ it.valueRemaining = entries[a].vlen
  /\ n = 0 => it.keyRemaining = 0
PartOf(it, u, a, p) == \E n : HasPart(it, u, a, p, n)

\* The iterator, when nothing of the key is held.
Behind(it, a, p) ==
  /\ IterOK(it, a) /\ it.state = "active" /\ p \in Nat
  /\ it.keyRemaining + p = entries[a].klen /\ it.valueRemaining = entries[a].vlen

\* The next chunk of a key.
LEMMA PartRead1 ==
  ASSUME Reading, NEW it, NEW a, NEW p, Behind(it, a, p), NEW r, r = ReadKey(it, it.keylen)
  PROVE  PartOf(r.it, r.units, a, p)
<1>0. /\ IterOK(it, a) /\ it.state = "active" /\ p \in Nat
      /\ it.keyRemaining + p = entries[a].klen /\ it.valueRemaining = entries[a].vlen
  BY DEF Behind
<1>1. /\ it.keylen = entries[a].klen /\ it.valuelen = entries[a].vlen
      /\ Read(it) \in Nat /\ it.keyRemaining \in Nat /\ it.valuelen \in Nat /\ it.keylen \in Nat
      /\ Read(it) = it.keylen - it.keyRemaining + it.valuelen - it.valueRemaining
  BY <1>0, ReadType
<1>2. Read(it) = p /\ it.keyRemaining <= it.keylen
  BY <1>0, <1>1
<1>3. PICK n \in Nat : KeyTaken(it, r, a, it.keylen, n)
  <2> DEFINE m == it.keylen
  <2>1. m \in Nat /\ r = ReadKey(it, m)
    BY <1>1
  <2> HIDE DEF m
  <2>2. \E n \in Nat : KeyTaken(it, r, a, m, n)
    BY <1>0, <2>1, ReadKeyFacts
  <2> QED
    BY <2>2 DEF m
<1>4. /\ IterOK(r.it, a) /\ r.it.state = "active" /\ n <= it.keyRemaining
      /\ (it.keylen > 0 /\ it.keyRemaining > 0 => n > 0)
      /\ r.it.keyRemaining = it.keyRemaining - n /\ r.it.valueRemaining = it.valueRemaining
      /\ r.units = Run(a, Prelude + Read(it) + 1, n)
  BY <1>3 DEF KeyTaken
<1>5. r.it.keyRemaining + p + n = entries[a].klen /\ (n = 0 => r.it.keyRemaining = 0)
  BY <1>0, <1>1, <1>2, <1>3, <1>4
<1>6. HasPart(r.it, r.units, a, p, n)
  BY <1>0, <1>2, <1>3, <1>4, <1>5 DEF HasPart
<1> QED
  BY <1>6 DEF PartOf

\* The rest of a chunk, or the next one when there is none.
Refilled(it, s) == IF s = << >> THEN ReadKey(it, it.keylen) ELSE [it |-> it, units |-> s]

\* The units of a run.
IsRun(u, a, c, n) ==
  u \in Seq(LogUnit) /\ Len(u) = n /\ \A k \in 1 .. n : u[k] = <<a, c + k - 1>>
\* A run has its units.
LEMMA RunIs ==
  ASSUME NEW a, NEW c, NEW n, NEW k, Runs(a, c, n, k)
  PROVE  IsRun(Run(a, c, n), a, c, n)
BY RunFacts DEF Runs, IsRun

\* The end of a run.
LEMMA RunRest ==
  ASSUME NEW a, NEW c, NEW n, NEW k, Runs(a, c, n, k), k <= n, NEW u, u = Run(a, c, n)
  PROVE  SubSeq(u, k + 1, Len(u)) = Run(a, c + k, n - k)
<1>0. a \in Nat /\ c \in Nat /\ c >= 1 /\ n \in Nat /\ k \in Nat
  BY DEF Runs
<1>1. u \in Seq(LogUnit) /\ Len(u) = n /\ \A j \in 1 .. n : u[j] = <<a, c + j - 1>>
  BY RunIs DEF IsRun
<1> DEFINE d == c + k
           m == n - k
           v == Run(a, d, m)
<1>2. d \in Nat /\ d >= 1 /\ m \in Nat /\ k + m = Len(u)
  BY <1>0, <1>1
<1>3. v \in Seq(LogUnit) /\ Len(v) = m /\ \A j \in 1 .. m : v[j] = <<a, d + j - 1>>
  <2>1. Runs(a, d, m, 0)
    BY <1>0, <1>2 DEF Runs
  <2>2. IsRun(v, a, d, m)
    BY <2>1, RunIs
  <2> QED
    BY <2>2 DEF IsRun
<1>4. ASSUME NEW j \in 1 .. m PROVE u[k + j] = v[j]
  <2>1. k + j \in 1 .. n /\ c + (k + j) - 1 = d + j - 1
    BY <1>0
  <2>2. u[k + j] = <<a, c + (k + j) - 1>>
    BY <1>1, <2>1
  <2>3. v[j] = <<a, d + j - 1>>
    BY <1>3
  <2> QED
    BY <2>1, <2>2, <2>3
<1> HIDE DEF d, m, v
<1>5. SubSeq(u, k + 1, k + m) = v
  BY <1>0, <1>1, <1>2, <1>3, <1>4, RunPart
<1> QED
  BY <1>2, <1>5 DEF d, m, v

\* After k units have been compared.
LEMMA PartStep ==
  ASSUME Reading, NEW it, NEW u, NEW a, NEW p, NEW n, HasPart(it, u, a, p, n),
         NEW k \in Nat, k <= n, NEW r, r = Refilled(it, SubSeq(u, k + 1, Len(u)))
  PROVE  PartOf(r.it, r.units, a, p + k)
<1>0. /\ IterOK(it, a) /\ it.state = "active" /\ p \in Nat /\ n \in Nat
      /\ u = Run(a, Prelude + p + 1, n)
      /\ it.keyRemaining + p + n = entries[a].klen /\ it.valueRemaining = entries[a].vlen
  BY DEF HasPart
<1>1. a \in Nat /\ it.keyRemaining \in Nat /\ it.keylen = entries[a].klen /\ it.keylen \in Nat
  BY <1>0, ReadType
<1> DEFINE c == Prelude + p + 1
           s == SubSeq(u, k + 1, Len(u))
           m == n - k
           q == p + k
<1>2. c \in Nat /\ c >= 1 /\ m \in Nat /\ q \in Nat /\ c + k = Prelude + q + 1
  BY <1>0 DEF Prelude
<1>3. s = Run(a, Prelude + q + 1, m)
  <2>1. s = Run(a, c + k, m)
    <3>1. u = Run(a, c, n)
      BY <1>0
    <3>2. Runs(a, c, n, k)
      BY <1>0, <1>1, <1>2 DEF Runs
    <3> HIDE DEF c
    <3> QED
      BY <3>1, <3>2, RunRest
  <2> QED
    BY <1>2, <2>1
<1>4. r = IF s = << >> THEN ReadKey(it, it.keylen) ELSE [it |-> it, units |-> s]
  BY DEF Refilled
<1>5. it.keyRemaining + q + m = entries[a].klen
  BY <1>0, <1>1
<1> HIDE DEF c, s, m, q
<1>6. Len(s) = m /\ s \in Seq(LogUnit)
  <2> DEFINE d == Prelude + q + 1
  <2>1. d \in Nat /\ d >= 1 /\ s = Run(a, d, m)
    BY <1>2, <1>3 DEF Prelude
  <2> HIDE DEF d
  <2>2. Run(a, d, m) \in Seq(LogUnit) /\ Len(Run(a, d, m)) = m
    BY <1>1, <1>2, <2>1, RunFacts
  <2> QED
    BY <2>1, <2>2
<1>7. CASE s = << >>
  <2>1. m = 0
    BY <1>6, <1>7
  <2>2. Behind(it, a, q)
    BY <1>0, <1>1, <1>2, <1>5, <2>1 DEF Behind
  <2>3. r = ReadKey(it, it.keylen)
    BY <1>4, <1>7
  <2> QED
    BY <2>2, <2>3, PartRead1 DEF q
<1>8. CASE s # << >>
  <2>1. m # 0
    BY <1>6, <1>8
  <2>2. r.it = it /\ r.units = s
    BY <1>4, <1>8
  <2>3. HasPart(it, s, a, q, m)
    BY <1>0, <1>2, <1>3, <1>5, <2>1 DEF HasPart
  <2> QED
    BY <2>2, <2>3 DEF PartOf, q
<1> QED
  BY <1>7, <1>8

\* The key of an entry.
LEMMA KeyType ==
  ASSUME Reading, NEW a \in 1 .. Len(entries)
  PROVE  entries[a].key \in Seq(Nat) /\ entries[a].klen = Len(entries[a].key)
<1>1. entries \in Seq(LIEntry) /\ Len(entries) \in Nat
  BY FileFacts
<1>2. entries[a] \in LIEntry
  BY <1>1
<1> QED
  BY <1>2 DEF LIEntry, Reading, WriterInv

\* The bytes of a chunk.
LEMMA PartBytes ==
  ASSUME Reading, NEW it, NEW u, NEW a, NEW p, NEW n, HasPart(it, u, a, p, n), NEW s, s = Bytes(u)
  PROVE  /\ s \in Seq(Nat) /\ Len(s) = n /\ Len(u) = n /\ p + n <= Len(entries[a].key)
         /\ \A k \in 1 .. n : s[k] = entries[a].key[p + k]
<1>0. /\ IterOK(it, a) /\ it.state = "active" /\ p \in Nat /\ n \in Nat
      /\ u = Run(a, Prelude + p + 1, n)
      /\ it.keyRemaining + p + n = entries[a].klen
  BY DEF HasPart
<1>1. a \in Nat /\ a \in 1 .. Len(entries) /\ it.keyRemaining \in Nat
  BY <1>0, ReadType
<1> DEFINE K == entries[a].key
           c == Prelude + p + 1
<1>2. K \in Seq(Nat) /\ entries[a].klen = Len(K)
  BY <1>1, KeyType
<1>3. p + n <= Len(K) /\ Len(K) \in Nat
  BY <1>0, <1>1, <1>2
<1>4. u \in Seq(LogUnit) /\ Len(u) = n /\ \A k \in 1 .. n : u[k] = <<a, c + k - 1>>
  <2>1. c \in Nat /\ c >= 1 /\ u = Run(a, c, n)
    BY <1>0 DEF Prelude
  <2>2. Runs(a, c, n, 0)
    BY <1>0, <1>1, <2>1 DEF Runs
  <2> HIDE DEF c
  <2>3. IsRun(u, a, c, n)
    BY <2>1, <2>2, RunIs
  <2> QED
    BY <2>3 DEF IsRun
<1>5. ASSUME NEW k \in 1 .. n PROVE Byte(u[k]) = K[p + k]
  <2> DEFINE x == c + k - 1
             y == p + k
  <2>1. u[k] = <<a, x>> /\ x - Prelude = y /\ y \in 1 .. Len(K)
    BY <1>0, <1>3, <1>4 DEF Prelude
  <2> HIDE DEF x, y
  <2>2. <<a, x>>[1] = a /\ <<a, x>>[2] = x
    OBVIOUS
  <2>3. Byte(<<a, x>>) = IF x - Prelude \in DOMAIN K THEN K[x - Prelude] ELSE 0
    BY <2>2 DEF Byte
  <2>4. Byte(<<a, x>>) = K[y]
    BY <1>2, <2>1, <2>3
  <2> QED
    BY <2>1, <2>4 DEF y
<1> HIDE DEF K, c
<1>6. DOMAIN u = 1 .. n
  BY <1>4
<1>7. s = [k \in 1 .. n |-> Byte(u[k])]
  BY <1>6 DEF Bytes
<1>8. \A k \in 1 .. n : s[k] = K[p + k]
  BY <1>5, <1>7
<1>9. \A k \in 1 .. n : Byte(u[k]) \in Nat
  <2> SUFFICES ASSUME NEW k \in 1 .. n PROVE Byte(u[k]) \in Nat
    OBVIOUS
  <2>1. p + k \in 1 .. Len(K)
    BY <1>0, <1>3
  <2> QED
    BY <1>2, <1>5, <2>1
<1>10. s \in [1 .. n -> Nat]
  BY <1>7, <1>9
<1>11. s \in Seq(Nat) /\ Len(s) = n
  BY <1>0, <1>10
<1> QED
  BY <1>3, <1>4, <1>8, <1>11 DEF K

\* s and t are the parts of K and L that follow the first p elements, which
\* are the same.
Parts(K, L, p, s, t) ==
  /\ K \in Seq(Nat) /\ L \in Seq(Nat) /\ p \in Nat /\ s \in Seq(Nat) /\ t \in Seq(Nat)
  /\ p + Len(s) <= Len(K) /\ p + Len(t) <= Len(L)
  /\ \A k \in 1 .. Len(s) : s[k] = K[p + k]
  /\ \A k \in 1 .. Len(t) : t[k] = L[p + k]
  /\ \A k \in 1 .. p : K[k] = L[k]

\* A difference of the parts is the first one of K and L.
LEMMA PartsDiffer ==
  ASSUME NEW K, NEW L, NEW p, NEW s, NEW t, Parts(K, L, p, s, t), Memcmp(s, t) # 0
  PROVE  Memcmp(K, L) = Memcmp(s, t)
<1>1. /\ K \in Seq(Nat) /\ L \in Seq(Nat) /\ p \in Nat /\ s \in Seq(Nat) /\ t \in Seq(Nat)
      /\ p + Len(s) <= Len(K) /\ p + Len(t) <= Len(L)
      /\ \A k \in 1 .. Len(s) : s[k] = K[p + k]
      /\ \A k \in 1 .. Len(t) : t[k] = L[p + k]
      /\ \A k \in 1 .. p : K[k] = L[k]
  BY DEF Parts
<1>2. PICK j : Differ(s, t, j)
  BY <1>1, MemcmpAgrees
<1>3. /\ j \in Nat /\ 1 <= j /\ j <= Len(s) /\ j <= Len(t)
      /\ s[j] # t[j] /\ \A k \in 1 .. j - 1 : s[k] = t[k]
  BY <1>2 DEF Differ
<1>4. Memcmp(s, t) = IF s[j] < t[j] THEN -1 ELSE 1
  BY <1>2, MemcmpDiffers
<1> DEFINE i == p + j
<1>5. /\ Len(s) \in Nat /\ Len(t) \in Nat /\ Len(K) \in Nat /\ Len(L) \in Nat
  BY <1>1
<1>6. i \in Nat /\ 1 <= i /\ i <= Len(K) /\ i <= Len(L) /\ j \in 1 .. Len(s) /\ j \in 1 .. Len(t)
  <2> DEFINE x == Len(s)
             y == Len(t)
             u == Len(K)
             v == Len(L)
  <2>1. x \in Nat /\ y \in Nat /\ u \in Nat /\ v \in Nat /\ p + x <= u /\ p + y <= v /\ p \in Nat
        /\ j \in Nat /\ 1 <= j /\ j <= x /\ j <= y
    BY <1>1, <1>3, <1>5
  <2> HIDE DEF x, y, u, v
  <2>2. i \in Nat /\ 1 <= i /\ i <= u /\ i <= v /\ j \in 1 .. x /\ j \in 1 .. y
    BY <2>1
  <2> QED
    BY <2>2 DEF x, y, u, v
<1>7. K[i] = s[j] /\ L[i] = t[j]
  BY <1>1, <1>6
<1>8. ASSUME NEW k \in 1 .. i - 1 PROVE K[k] = L[k]
  <2>1. CASE k <= p
    BY <1>1, <2>1
  <2>2. CASE ~(k <= p)
    <3> DEFINE h == k - p
    <3>1. h \in 1 .. j - 1 /\ h \in 1 .. Len(s) /\ h \in 1 .. Len(t) /\ p + h = k
      <4> DEFINE x == Len(s)
                 y == Len(t)
      <4>1. x \in Nat /\ y \in Nat /\ p \in Nat /\ j \in Nat /\ j <= x /\ j <= y
        BY <1>1, <1>3, <1>5
      <4> HIDE DEF x, y
      <4>2. h \in 1 .. j - 1 /\ h \in 1 .. x /\ h \in 1 .. y /\ p + h = k
        BY <2>2, <4>1
      <4> QED
        BY <4>2 DEF x, y
    <3>2. s[h] = K[p + h] /\ t[h] = L[p + h] /\ s[h] = t[h]
      BY <1>1, <1>3, <3>1
    <3> QED
      BY <3>1, <3>2
  <2> QED
    BY <1>1, <2>1, <2>2
<1> HIDE DEF i
<1>9. Differ(K, L, i)
  BY <1>1, <1>3, <1>6, <1>7, <1>8 DEF Differ
<1>10. Memcmp(K, L) = IF K[i] < L[i] THEN -1 ELSE 1
  BY <1>9, MemcmpDiffers
<1> QED
  BY <1>4, <1>7, <1>10

\* Parts that memcmp finds no difference in are the same as far as both go.
LEMMA PartsSame ==
  ASSUME NEW K, NEW L, NEW p, NEW s, NEW t, Parts(K, L, p, s, t), Memcmp(s, t) = 0,
         NEW n \in Nat, n <= Len(s), n <= Len(t)
  PROVE  \A k \in 1 .. p + n : K[k] = L[k]
<1>1. /\ K \in Seq(Nat) /\ L \in Seq(Nat) /\ p \in Nat /\ s \in Seq(Nat) /\ t \in Seq(Nat)
      /\ \A k \in 1 .. Len(s) : s[k] = K[p + k]
      /\ \A k \in 1 .. Len(t) : t[k] = L[p + k]
      /\ \A k \in 1 .. p : K[k] = L[k]
  BY DEF Parts
<1>2. Agree(s, t)
  <2> SUFFICES ASSUME ~Agree(s, t) PROVE FALSE
    OBVIOUS
  <2>1. PICK j : Differ(s, t, j)
    BY <1>1, MemcmpAgrees
  <2>2. Memcmp(s, t) = IF s[j] < t[j] THEN -1 ELSE 1
    BY <2>1, MemcmpDiffers
  <2> QED
    BY <2>2
<1>3. Len(s) \in Nat /\ Len(t) \in Nat
  BY <1>1
<1> SUFFICES ASSUME NEW k \in 1 .. p + n PROVE K[k] = L[k]
  OBVIOUS
<1>4. CASE k <= p
  BY <1>1, <1>4
<1>5. CASE ~(k <= p)
  <2> DEFINE h == k - p
  <2>1. h \in Nat /\ 1 <= h /\ h \in 1 .. Len(s) /\ h \in 1 .. Len(t) /\ p + h = k
    BY <1>1, <1>3, <1>5
  <2>2. s[h] = K[p + h] /\ t[h] = L[p + h] /\ s[h] = t[h]
    BY <1>1, <1>2, <2>1 DEF Agree
  <2> QED
    BY <2>1, <2>2
<1> QED
  BY <1>1, <1>4, <1>5

\* What keycmp is to return.
CmpResult(K, L) ==
  LET v == Memcmp(K, L)
  IN  IF v # 0 \/ Len(K) = Len(L) THEN v ELSE IF Len(K) < Len(L) THEN -1 ELSE 1

\* The state of the loop after p units of the keys of a and b.
CmpState == [it1 : LIter, it2 : LIter, first : Seq(LogUnit), second : Seq(LogUnit),
             done : BOOLEAN, res : Int]
Comparing(c, a, b, p) ==
  /\ PartOf(c.it1, c.first, a, p) /\ PartOf(c.it2, c.second, b, p)
  /\ \A k \in 1 .. p : entries[a].key[k] = entries[b].key[k]
CmpAt(c, a, b, p) ==
  /\ c \in CmpState /\ p \in Nat
  /\ IterOK(c.it1, a) /\ c.it1.state = "active"
  /\ IterOK(c.it2, b) /\ c.it2.state = "active"
  /\ c.done => c.res = CmpResult(entries[a].key, entries[b].key)
  /\ ~c.done => Comparing(c, a, b, p)

\* The loop ends with v, or goes on with other iterators and chunks.
CmpDone(c, v) == [c EXCEPT !.done = TRUE, !.res = v]
CmpNext(c, i, u, j, x) == [c EXCEPT !.it1 = i, !.first = u, !.it2 = j, !.second = x]
DoneWith(d, c, v) == d \in CmpState /\ d.it1 = c.it1 /\ d.it2 = c.it2 /\ d.done /\ d.res = v

\* Ending the loop leaves the iterators alone.
LEMMA CmpDoneFields ==
  ASSUME NEW c \in CmpState, NEW v \in Int, NEW d, d = CmpDone(c, v)
  PROVE  DoneWith(d, c, v)
<1>1. d \in CmpState
  BY DEF CmpState, CmpDone
<1>2. d.it1 = c.it1 /\ d.it2 = c.it2 /\ d.done /\ d.res = v
  BY <1>1 DEF CmpState, CmpDone
<1> QED
  BY <1>1, <1>2 DEF DoneWith

\* Going on changes the iterators and chunks only.
LEMMA CmpNextFields ==
  ASSUME NEW c \in CmpState, NEW i \in LIter, NEW u \in Seq(LogUnit), NEW j \in LIter,
         NEW x \in Seq(LogUnit), NEW d, d = CmpNext(c, i, u, j, x)
  PROVE  /\ d \in CmpState /\ d.it1 = i /\ d.first = u /\ d.it2 = j /\ d.second = x
         /\ d.done = c.done
<1>1. d \in CmpState
  BY DEF CmpState, CmpNext
<1> QED
  BY <1>1 DEF CmpState, CmpNext

\* One of the keys is used up.
LEMMA CmpEnds ==
  ASSUME Reading, NEW i, NEW u, NEW a, NEW j, NEW x, NEW b, NEW p, NEW n, NEW m,
         HasPart(i, u, a, p, n), HasPart(j, x, b, p, m), n = 0 \/ m = 0,
         \A k \in 1 .. p : entries[a].key[k] = entries[b].key[k]
  PROVE  CmpResult(entries[a].key, entries[b].key)
           = IF x # << >> THEN -1 ELSE IF u # << >> THEN 1 ELSE 0
<1> DEFINE K == entries[a].key
           L == entries[b].key
<1>1. /\ Len(u) = n /\ p + n <= Len(K) /\ Len(x) = m /\ p + m <= Len(L)
  BY PartBytes
<1>2. /\ p \in Nat /\ n \in Nat /\ m \in Nat /\ IterOK(i, a) /\ i.state = "active"
      /\ IterOK(j, b) /\ j.state = "active"
      /\ i.keyRemaining + p + n = entries[a].klen /\ (n = 0 => i.keyRemaining = 0)
      /\ j.keyRemaining + p + m = entries[b].klen /\ (m = 0 => j.keyRemaining = 0)
  BY DEF HasPart
<1>3. a \in 1 .. Len(entries) /\ b \in 1 .. Len(entries)
  BY <1>2, ReadType
<1>4. /\ K \in Seq(Nat) /\ L \in Seq(Nat) /\ Len(K) = entries[a].klen /\ Len(L) = entries[b].klen
  BY <1>3, KeyType
<1>5. Len(K) \in Nat /\ Len(L) \in Nat
  BY <1>4
<1>6. (n = 0 => Len(K) = p) /\ (m = 0 => Len(L) = p)
  BY <1>2, <1>4
<1>7. (u # << >> <=> n > 0) /\ (x # << >> <=> m > 0)
  <2>1. u \in Seq(LogUnit) /\ x \in Seq(LogUnit)
    <3>1. IsRun(u, a, Prelude + p + 1, n)
      <4>1. Runs(a, Prelude + p + 1, n, 0)
        BY <1>2, <1>3 DEF Runs, Prelude
      <4>2. u = Run(a, Prelude + p + 1, n)
        BY DEF HasPart
      <4> QED
        BY <4>1, <4>2, RunIs
    <3>2. IsRun(x, b, Prelude + p + 1, m)
      <4>1. Runs(b, Prelude + p + 1, m, 0)
        BY <1>2, <1>3 DEF Runs, Prelude
      <4>2. x = Run(b, Prelude + p + 1, m)
        BY DEF HasPart
      <4> QED
        BY <4>1, <4>2, RunIs
    <3> QED
      BY <3>1, <3>2 DEF IsRun
  <2> QED
    BY <1>1, <1>2, <2>1
<1>8. \A k \in 1 .. p : K[k] = L[k]
  OBVIOUS
<1> HIDE DEF K, L
<1>9. Memcmp(K, L) = 0
  <2>1. Agree(K, L)
    <3> SUFFICES ASSUME NEW k \in Nat, 1 <= k, k <= Len(K), k <= Len(L) PROVE K[k] = L[k]
      BY DEF Agree
    <3>1. k \in 1 .. p
      BY <1>2, <1>5, <1>6
    <3> QED
      BY <1>8, <3>1
  <2> QED
    BY <1>4, <2>1, MemcmpAgrees
<1>10. CmpResult(K, L) = IF Len(K) = Len(L) THEN 0 ELSE IF Len(K) < Len(L) THEN -1 ELSE 1
  BY <1>9 DEF CmpResult
<1>11. CASE m > 0
  <2>1. n = 0 /\ Len(K) < Len(L)
    BY <1>1, <1>2, <1>5, <1>6, <1>11
  <2> QED
    BY <1>5, <1>7, <1>10, <1>11, <2>1 DEF K, L
<1>12. CASE m = 0 /\ n > 0
  <2>1. Len(K) > Len(L)
    BY <1>1, <1>2, <1>5, <1>6, <1>12
  <2> QED
    BY <1>5, <1>7, <1>10, <1>12, <2>1 DEF K, L
<1>13. CASE m = 0 /\ n = 0
  <2>1. Len(K) = Len(L)
    BY <1>6, <1>13
  <2> QED
    BY <1>7, <1>10, <1>13, <2>1 DEF K, L
<1> QED
  BY <1>2, <1>11, <1>12, <1>13

\* d has compared more than p units, or is done.
CmpMore(d, a, b, p) == \E q : CmpAt(d, a, b, q) /\ (~d.done => q >= p + 1)

\* The units of a part.
LEMMA PartType ==
  ASSUME Reading, NEW it, NEW u, NEW a, NEW p, PartOf(it, u, a, p)
  PROVE  u \in Seq(LogUnit) /\ it \in LIter /\ IterOK(it, a) /\ it.state = "active"
<1>1. PICK n : HasPart(it, u, a, p, n)
  BY DEF PartOf
<1>2. /\ IterOK(it, a) /\ it.state = "active" /\ p \in Nat /\ n \in Nat
      /\ u = Run(a, Prelude + p + 1, n)
  BY <1>1 DEF HasPart
<1>3. a \in Nat /\ it \in LIter
  BY <1>2, ReadType
<1>4. Runs(a, Prelude + p + 1, n, 0)
  BY <1>2, <1>3 DEF Runs, Prelude
<1>5. IsRun(u, a, Prelude + p + 1, n)
  BY <1>2, <1>4, RunIs
<1> QED
  BY <1>2, <1>3, <1>5 DEF IsRun

\* One iteration.
LEMMA CmpStep ==
  ASSUME Reading, NEW a, NEW b, NEW p, NEW c, CmpAt(c, a, b, p), NEW d, d = KeycmpStep(c)
  PROVE  CmpMore(d, a, b, p)
<1> DEFINE K == entries[a].key
           L == entries[b].key
           s == Bytes(c.first)
           t == Bytes(c.second)
           n == Min({Len(c.first), Len(c.second)})
           v == Memcmp(s, t)
<1>0. /\ c \in CmpState /\ p \in Nat /\ IterOK(c.it1, a) /\ c.it1.state = "active"
      /\ IterOK(c.it2, b) /\ c.it2.state = "active"
      /\ ~c.done => Comparing(c, a, b, p)
  BY DEF CmpAt
<1>1. CASE c.done
  <2>1. d = c
    BY <1>1 DEF KeycmpStep
  <2> QED
    BY <1>1, <2>1 DEF CmpMore
<1>2. CASE ~c.done
  <2>1. PICK n1 : HasPart(c.it1, c.first, a, p, n1)
    BY <1>0, <1>2 DEF Comparing, PartOf
  <2>2. PICK n2 : HasPart(c.it2, c.second, b, p, n2)
    BY <1>0, <1>2 DEF Comparing, PartOf
  <2>3. \A k \in 1 .. p : K[k] = L[k]
    BY <1>0, <1>2 DEF Comparing
  <2>4. /\ s \in Seq(Nat) /\ Len(s) = n1 /\ Len(c.first) = n1 /\ p + n1 <= Len(K)
        /\ \A k \in 1 .. n1 : s[k] = K[p + k]
    BY <2>1, PartBytes
  <2>5. /\ t \in Seq(Nat) /\ Len(t) = n2 /\ Len(c.second) = n2 /\ p + n2 <= Len(L)
        /\ \A k \in 1 .. n2 : t[k] = L[p + k]
    BY <2>2, PartBytes
  <2>6. n1 \in Nat /\ n2 \in Nat
    BY <2>1, <2>2 DEF HasPart
  <2>7. /\ n \in Nat /\ n <= n1 /\ n <= n2 /\ (n = 0 => n1 = 0 \/ n2 = 0)
    <3>1. n = Min({n1, n2})
      BY <2>4, <2>5
    <3>2. n = IF n1 <= n2 THEN n1 ELSE n2
      BY <2>6, <3>1, MaxPair
    <3> HIDE DEF n
    <3> QED
      BY <2>6, <3>2
  <2>8. K \in Seq(Nat) /\ L \in Seq(Nat)
    BY <1>0, ReadType, KeyType
  <2>9. d = IF n = 0 THEN CmpDone(c, IF c.second # << >> THEN -1 ELSE IF c.first # << >> THEN 1 ELSE 0)
            ELSE IF v # 0 THEN CmpDone(c, v)
            ELSE KeycmpRefill([c EXCEPT !.first = SubSeq(@, n + 1, Len(@)),
                                        !.second = SubSeq(@, n + 1, Len(@))])
    BY <1>2 DEF KeycmpStep, CmpDone
  <2> HIDE DEF K, L, s, t, n, v
  <2>10. ASSUME NEW y \in Int, y = CmpResult(K, L), d = CmpDone(c, y)
         PROVE  CmpMore(d, a, b, p)
    <3>0. DoneWith(d, c, y)
      BY <1>0, <2>10, CmpDoneFields
    <3>1. d \in CmpState /\ d.it1 = c.it1 /\ d.it2 = c.it2 /\ d.done /\ d.res = y
      BY <3>0 DEF DoneWith
    <3>2. CmpAt(d, a, b, p)
      BY <1>0, <2>10, <3>1 DEF CmpAt, K, L
    <3> QED
      BY <3>1, <3>2 DEF CmpMore
  <2>11. CASE n = 0
    <3> DEFINE y == IF c.second # << >> THEN -1 ELSE IF c.first # << >> THEN 1 ELSE 0
    <3>1. CmpResult(K, L) = y
      BY <2>1, <2>2, <2>3, <2>7, <2>11, CmpEnds DEF K, L
    <3>2. y \in Int
      OBVIOUS
    <3>3. d = CmpDone(c, y)
      BY <2>9, <2>11
    <3> HIDE DEF y
    <3> QED
      BY <2>10, <3>1, <3>2, <3>3
  <2>12. CASE n # 0 /\ v # 0
    <3>1. Parts(K, L, p, s, t)
      BY <1>0, <2>3, <2>4, <2>5, <2>8 DEF Parts
    <3>2. Memcmp(K, L) = v
      BY <2>12, <3>1, PartsDiffer DEF v
    <3>3. CmpResult(K, L) = v
      BY <2>12, <3>2 DEF CmpResult
    <3>4. v \in Int
      BY DEF v, Memcmp
    <3>5. d = CmpDone(c, v)
      BY <2>9, <2>12
    <3> QED
      BY <2>10, <3>3, <3>4, <3>5
  <2>13. CASE n # 0 /\ v = 0
    <3> DEFINE u == SubSeq(c.first, n + 1, Len(c.first))
               x == SubSeq(c.second, n + 1, Len(c.second))
               r1 == Refilled(c.it1, u)
               r2 == Refilled(c.it2, x)
    <3>1. d = CmpNext(c, r1.it, r1.units, r2.it, r2.units)
      <4> DEFINE e == [c EXCEPT !.first = u, !.second = x]
      <4>1. d = KeycmpRefill(e)
        BY <2>9, <2>13
      <4> HIDE DEF u, x
      <4>2. e.it1 = c.it1 /\ e.it2 = c.it2 /\ e.first = u /\ e.second = x
        BY <1>0 DEF CmpState
      <4>3. KeycmpRefill(e) = [e EXCEPT !.it1 = r1.it, !.first = r1.units,
                                        !.it2 = r2.it, !.second = r2.units]
        BY <4>2 DEF KeycmpRefill, Refilled
      <4>4. [e EXCEPT !.it1 = r1.it, !.first = r1.units, !.it2 = r2.it, !.second = r2.units]
              = CmpNext(c, r1.it, r1.units, r2.it, r2.units)
        <5> HIDE DEF r1, r2
        <5> QED
          BY <1>0 DEF CmpState, CmpNext
      <4> HIDE DEF e
      <4> QED
        BY <4>1, <4>3, <4>4
    <3>2. PartOf(r1.it, r1.units, a, p + n)
      BY <2>1, <2>7, PartStep
    <3>3. PartOf(r2.it, r2.units, b, p + n)
      BY <2>2, <2>7, PartStep
    <3> HIDE DEF r1, r2
    <3>4. /\ r1.units \in Seq(LogUnit) /\ r1.it \in LIter /\ IterOK(r1.it, a) /\ r1.it.state = "active"
          /\ r2.units \in Seq(LogUnit) /\ r2.it \in LIter /\ IterOK(r2.it, b) /\ r2.it.state = "active"
      BY <3>2, <3>3, PartType
    <3>5. /\ d \in CmpState /\ d.it1 = r1.it /\ d.first = r1.units
          /\ d.it2 = r2.it /\ d.second = r2.units /\ d.done = c.done
      BY <1>0, <3>1, <3>4, CmpNextFields
    <3>6. \A k \in 1 .. p + n : K[k] = L[k]
      <4>1. Parts(K, L, p, s, t)
        BY <1>0, <2>3, <2>4, <2>5, <2>8 DEF Parts
      <4> QED
        BY <2>4, <2>5, <2>7, <2>13, <4>1, PartsSame DEF v
    <3>7. Comparing(d, a, b, p + n)
      BY <3>2, <3>3, <3>5, <3>6 DEF Comparing, K, L
    <3>8. CmpAt(d, a, b, p + n)
      BY <1>0, <1>2, <2>7, <3>4, <3>5, <3>7 DEF CmpAt
    <3>9. p + n >= p + 1
      BY <1>0, <2>7, <2>13
    <3> QED
      BY <3>8, <3>9 DEF CmpMore
  <2> QED
    BY <2>11, <2>12, <2>13
<1> QED
  BY <1>1, <1>2

\* The loop begins with the first chunks of both keys.
CmpStart(it1, it2) ==
  KeycmpRefill([it1 |-> it1, it2 |-> it2, first |-> << >>, second |-> << >>,
                done |-> FALSE, res |-> 0])

\* Nothing has been compared then.
LEMMA CmpBegins ==
  ASSUME Reading, NEW it1, NEW it2, NEW a, NEW b, IterOK(it1, a), it1.state = "active", Clean(it1),
         IterOK(it2, b), it2.state = "active", Clean(it2), NEW c, c = CmpStart(it1, it2)
  PROVE  CmpAt(c, a, b, 0)
<1> DEFINE e == [it1 |-> it1, it2 |-> it2, first |-> << >>, second |-> << >>,
                 done |-> FALSE, res |-> 0]
           r1 == ReadKey(it1, it1.keylen)
           r2 == ReadKey(it2, it2.keylen)
<1>1. it1 \in LIter /\ it2 \in LIter
  BY ReadType
<1>2. /\ e \in CmpState /\ e.it1 = it1 /\ e.it2 = it2 /\ e.first = << >> /\ e.second = << >>
      /\ ~e.done
  <2>1. << >> \in Seq(LogUnit)
    OBVIOUS
  <2>2. FALSE \in BOOLEAN /\ 0 \in Int
    OBVIOUS
  <2>3. e \in CmpState
    BY <1>1, <2>1, <2>2 DEF CmpState
  <2> QED
    BY <2>3
<1>3. c = KeycmpRefill(e)
  BY DEF CmpStart
<1> HIDE DEF e
<1>4. c = CmpNext(e, r1.it, r1.units, r2.it, r2.units)
  BY <1>2, <1>3 DEF KeycmpRefill, CmpNext
<1>5. Behind(it1, a, 0)
  <2>1. it1.keyRemaining = it1.keylen /\ it1.valueRemaining = it1.valuelen
    BY DEF Clean
  <2>2. it1.keylen = entries[a].klen /\ it1.valuelen = entries[a].vlen /\ it1.keylen \in Nat
    BY ReadType
  <2> QED
    BY <2>1, <2>2 DEF Behind
<1>6. Behind(it2, b, 0)
  <2>1. it2.keyRemaining = it2.keylen /\ it2.valueRemaining = it2.valuelen
    BY DEF Clean
  <2>2. it2.keylen = entries[b].klen /\ it2.valuelen = entries[b].vlen /\ it2.keylen \in Nat
    BY ReadType
  <2> QED
    BY <2>1, <2>2 DEF Behind
<1>7. PartOf(r1.it, r1.units, a, 0) /\ PartOf(r2.it, r2.units, b, 0)
  BY <1>5, <1>6, PartRead1
<1> HIDE DEF r1, r2
<1>8. /\ r1.units \in Seq(LogUnit) /\ r1.it \in LIter /\ IterOK(r1.it, a) /\ r1.it.state = "active"
      /\ r2.units \in Seq(LogUnit) /\ r2.it \in LIter /\ IterOK(r2.it, b) /\ r2.it.state = "active"
  BY <1>7, PartType
<1>9. /\ c \in CmpState /\ c.it1 = r1.it /\ c.first = r1.units /\ c.it2 = r2.it
      /\ c.second = r2.units /\ c.done = e.done
  BY <1>2, <1>4, <1>8, CmpNextFields
<1>10. Comparing(c, a, b, 0)
  <2>1. \A k \in 1 .. 0 : entries[a].key[k] = entries[b].key[k]
    OBVIOUS
  <2> QED
    BY <1>7, <1>9, <2>1 DEF Comparing
<1> QED
  BY <1>2, <1>8, <1>9, <1>10 DEF CmpAt

\* The states of the loop.
Cmps(a, b) == {c \in CmpState : \E p : CmpAt(c, a, b, p)}

\* n iterations from c end in r, with the states in between.
CmpTrace(c, n, r) == \E G : /\ G[0] = c /\ G[n] = r
                            /\ \A k \in 0 .. n - 1 : G[k + 1] = KeycmpStep(G[k])

\* The iterations of sparkey_logiter_keycmp.
LEMMA CmpChain ==
  ASSUME Reading, NEW a, NEW b, NEW c, CmpAt(c, a, b, 0), NEW n \in Nat,
         NEW r, r = Repeat(KeycmpStep, c, n)
  PROVE  CmpTrace(c, n, r)
<1> DEFINE D == DOMAIN [k \in 1 .. n |-> k]
           V == Cmps(a, b)
           F == [k \in 1 .. n |-> [v \in V |-> KeycmpStep(v)]]
           P(f) == f = [s \in SUBSET D |-> IF s = {} THEN c ELSE KeycmpStep(f[s \ {Max(s)}])]
           f0 == CHOOSE f : P(f)
           G == [k \in 0 .. n |-> f0[1 .. k]]
<1>1. Repeat(KeycmpStep, c, n) = f0[D]
  BY DEF Repeat, FoldLeft, MapThenFoldSet
<1>2. D = 1 .. n /\ c \in V
  <2>1. c \in V
    BY DEF Cmps, CmpAt
  <2> QED
    BY <2>1
<1>3. \A k \in 1 .. n : F[k] \in [V -> V]
  <2>1. ASSUME NEW v \in V PROVE KeycmpStep(v) \in V
    <3>1. PICK p : CmpAt(v, a, b, p)
      BY DEF Cmps
    <3>2. CmpMore(KeycmpStep(v), a, b, p)
      BY <3>1, CmpStep
    <3> QED
      BY <3>2 DEF CmpMore, Cmps, CmpAt
  <2> HIDE DEF V, D
  <2> QED
    BY <2>1
<1> HIDE DEF D, V
<1>4. PICK f \in [SUBSET (1 .. n) -> V] : IsFold(f, c, n, F)
  <2> HIDE DEF F
  <2> QED
    BY <1>2, <1>3, FoldExists
<1>5. P(f)
  <2>1. ASSUME NEW s \in SUBSET (1 .. n), s # {}
        PROVE  F[Max(s)][f[s \ {Max(s)}]] = KeycmpStep(f[s \ {Max(s)}])
    <3>1. Max(s) \in 1 .. n
      BY <2>1, Counting
    <3>2. f[s \ {Max(s)}] \in V
      BY <1>4
    <3> QED
      BY <3>1, <3>2
  <2> HIDE DEF F
  <2>2. [s \in SUBSET D |-> IF s = {} THEN c ELSE KeycmpStep(f[s \ {Max(s)}])]
        = [s \in SUBSET (1 .. n) |-> IF s = {} THEN c ELSE F[Max(s)][f[s \ {Max(s)}]]]
    BY <1>2, <2>1
  <2> QED
    BY <1>4, <2>2 DEF IsFold
<1>6. P(f0)
  <2> HIDE DEF P
  <2> QED
    BY <1>5
<1>7. G[0] = c
  <2>1. {} \in SUBSET D /\ 1 .. 0 = {} /\ 0 \in 0 .. n
    BY <1>2
  <2> HIDE DEF f0
  <2>2. f0[{}] = c
    BY Zenon, <1>6, <2>1
  <2> QED
    BY <2>1, <2>2
<1>8. ASSUME NEW k \in 0 .. n - 1
      PROVE  G[k + 1] = KeycmpStep(G[k])
  <2>1. /\ k \in Nat /\ k \in 0 .. n /\ k + 1 \in 0 .. n /\ 1 .. (k + 1) \in SUBSET D
    BY <1>2
  <2> HIDE DEF f0
  <2>2. f0[1 .. (k + 1)] = KeycmpStep(f0[(1 .. (k + 1)) \ {Max(1 .. (k + 1))}])
    BY Zenon, <1>6, <2>1, Interval
  <2> QED
    BY <2>1, <2>2, Interval
<1>9. Repeat(KeycmpStep, c, n) = G[n]
  BY <1>1, <1>2
<1> HIDE DEF G
<1> QED
  BY <1>7, <1>8, <1>9 DEF CmpTrace

\* The iterations are enough, and the result is the order of the keys.
LEMMA CmpFacts ==
  ASSUME Reading, NEW it1, NEW it2, NEW a, NEW b, IterOK(it1, a), it1.state = "active", Clean(it1),
         IterOK(it2, b), it2.state = "active", Clean(it2), NEW r, r = LogiterKeycmp(it1, it2)
  PROVE  /\ IterOK(r.it1, a) /\ r.it1.state = "active"
         /\ r.res = CmpResult(entries[a].key, entries[b].key)
<1> DEFINE c == CmpStart(it1, it2)
           n == it1.keylen + it2.keylen + 1
<1>1. CmpAt(c, a, b, 0)
  BY CmpBegins
<1>2. /\ it1.keylen \in Nat /\ it2.keylen \in Nat /\ it1.keylen = entries[a].klen
      /\ a \in 1 .. Len(entries)
  BY ReadType
<1>3. n \in Nat /\ n > entries[a].klen /\ entries[a].klen \in Nat
  BY <1>2
<1>4. r = Repeat(KeycmpStep, c, n)
  BY DEF LogiterKeycmp, CmpStart
<1> HIDE DEF c, n
<1>5. PICK G : /\ G[0] = c /\ G[n] = r
               /\ \A k \in 0 .. n - 1 : G[k + 1] = KeycmpStep(G[k])
  <2>1. CmpTrace(c, n, r)
    BY <1>1, <1>3, <1>4, CmpChain
  <2> QED
    BY <2>1 DEF CmpTrace
<1> DEFINE Q(k) == \E p : CmpAt(G[k], a, b, p) /\ (~G[k].done => p >= k)
           S == {k \in Nat : k <= n => Q(k)}
<1>6. 0 \in S
  BY <1>1, <1>5
<1>7. ASSUME NEW k \in Nat, k \in S PROVE k + 1 \in S
  <2>0. k + 1 \in Nat
    OBVIOUS
  <2> SUFFICES ASSUME k + 1 <= n PROVE Q(k + 1)
    BY Zenon, <2>0
  <2>1. k <= n /\ k \in 0 .. n - 1
    BY <1>3
  <2>2. PICK p : CmpAt(G[k], a, b, p) /\ (~G[k].done => p >= k)
    BY <1>7, <2>1
  <2> DEFINE x == G[k]
             y == G[k + 1]
  <2>3. y = KeycmpStep(x)
    BY <1>5, <2>1
  <2>4. CmpAt(x, a, b, p) /\ (~x.done => p >= k)
    BY <2>2
  <2> HIDE DEF x, y
  <2>5. CmpMore(y, a, b, p)
    BY <2>3, <2>4, CmpStep
  <2>6. PICK q : CmpAt(y, a, b, q) /\ (~y.done => q >= p + 1)
    BY <2>5 DEF CmpMore
  <2>7. p \in Nat /\ q \in Nat
    BY <2>4, <2>6 DEF CmpAt
  <2>8. ~y.done => ~x.done
    <3>1. x.done => y = x
      BY <2>3 DEF KeycmpStep
    <3> QED
      BY <3>1
  <2>9. ~y.done => q >= k + 1
    BY <2>4, <2>6, <2>7, <2>8
  <2> QED
    BY <2>6, <2>9 DEF y
<1> HIDE DEF S
<1>8. Nat \subseteq S
  BY <1>6, <1>7, SetInduction
<1>9. Q(n)
  BY <1>3, <1>8 DEF S
<1>10. PICK p : CmpAt(r, a, b, p) /\ (~r.done => p >= n)
  BY <1>4, <1>5, <1>9
<1>11. r.done
  <2> SUFFICES ASSUME ~r.done PROVE FALSE
    OBVIOUS
  <2>1. PartOf(r.it1, r.first, a, p) /\ p >= n /\ p \in Nat
    BY <1>10 DEF CmpAt, Comparing
  <2>2. PICK m : HasPart(r.it1, r.first, a, p, m)
    BY <2>1 DEF PartOf
  <2>3. m \in Nat /\ IterOK(r.it1, a) /\ r.it1.state = "active"
        /\ r.it1.keyRemaining + p + m = entries[a].klen
    BY <2>2 DEF HasPart
  <2>4. r.it1.keyRemaining \in Nat
    BY <2>3, ReadType
  <2> QED
    BY <1>3, <2>1, <2>3, <2>4
<1> QED
  BY <1>10, <1>11 DEF CmpAt

(***************************************************************************)
(* The calls of sparkey_hash_write and of a program.                       *)
(***************************************************************************)

\* sparkey_iter_hash stays on the entry.
LEMMA IterHashFacts ==
  ASSUME Reading, NEW it, NEW a, IterOK(it, a), it.state = "active", NEW x, x = IterHash(it)
  PROVE  IterOK(x, a) /\ x.state = "active"
<1> DEFINE c == ReadKey(it, it.keylen)
           m == it.keylen
<1>1. m \in Nat
  BY ReadType
<1>2. PICK n \in Nat : KeyTaken(it, c, a, m, n)
  BY <1>1, ReadKeyFacts
<1> DEFINE i == c.it
           k == m - Len(c.units)
           r == FillUp("key", i, k)
<1>3. x = IF Len(c.units) = m THEN i ELSE r.it
  BY DEF IterHash
<1>4. IterOK(i, a) /\ i.state = "active" /\ n <= m
  BY <1>2 DEF KeyTaken
<1>5. k \in Nat
  <2>1. a \in Nat /\ Read(it) \in Nat
    BY ReadType
  <2> DEFINE d == Prelude + Read(it) + 1
  <2>2. d \in Nat /\ d >= 1
    BY <2>1 DEF Prelude
  <2>3. c.units = Run(a, d, n)
    BY <1>2 DEF KeyTaken
  <2> HIDE DEF c, d
  <2>4. Len(c.units) = n
    BY <2>1, <2>2, <2>3, RunFacts
  <2> QED
    BY <1>1, <1>4, <2>4
<1> HIDE DEF k, i
<1>6. PICK q \in Nat : PartTaken("key", i, r, a, k, q)
  BY <1>4, <1>5, FillFacts
<1> HIDE DEF r
<1> QED
  BY <1>3, <1>4, <1>6 DEF PartTaken

\* sparkey_hash_get compares at most one chunk of a key that differs.
LEMMA CollideFacts ==
  ASSUME Reading, NEW it, NEW a, IterOK(it, a), it.state = "active", NEW n \in 0 .. 1,
         NEW r, r = Repeat(LAMBDA j : ReadKey(j, j.keylen).it, it, n)
  PROVE  IterOK(r, a) /\ r.state = "active"
<1> DEFINE V == {i \in LIter : IterOK(i, a) /\ i.state = "active"}
           Op(j) == ReadKey(j, j.keylen).it
           D == DOMAIN [k \in 1 .. n |-> k]
           F == [k \in 1 .. n |-> [v \in V |-> Op(v)]]
           P(f) == f = [s \in SUBSET D |-> IF s = {} THEN it ELSE Op(f[s \ {Max(s)}])]
           f0 == CHOOSE f : P(f)
<1>1. r = f0[D]
  BY DEF Repeat, FoldLeft, MapThenFoldSet
<1>2. D = 1 .. n /\ it \in V /\ n \in Nat
  BY ReadType
<1>3. ASSUME NEW v \in V PROVE Op(v) \in V
  <2> DEFINE c == ReadKey(v, v.keylen)
  <2>1. IterOK(v, a) /\ v.state = "active" /\ v.keylen \in Nat
    BY ReadType
  <2>2. \E q \in Nat : KeyTaken(v, c, a, v.keylen, q)
    BY <2>1, ReadKeyFacts
  <2> HIDE DEF c
  <2>3. IterOK(c.it, a) /\ c.it.state = "active"
    BY <2>2 DEF KeyTaken
  <2>4. c.it \in V
    BY <2>3 DEF IterOK, RangeOK
  <2> QED
    BY <2>4 DEF c
<1> HIDE DEF D, V, Op
<1>4. \A k \in 1 .. n : F[k] \in [V -> V]
  BY <1>3
<1>5. PICK f \in [SUBSET (1 .. n) -> V] : IsFold(f, it, n, F)
  <2> HIDE DEF F
  <2> QED
    BY <1>2, <1>4, FoldExists
<1>6. P(f)
  <2>1. ASSUME NEW s \in SUBSET (1 .. n), s # {}
        PROVE  F[Max(s)][f[s \ {Max(s)}]] = Op(f[s \ {Max(s)}])
    <3>1. Max(s) \in 1 .. n
      BY <1>2, <2>1, Counting
    <3>2. f[s \ {Max(s)}] \in V
      BY <1>5
    <3> QED
      BY <3>1, <3>2
  <2> HIDE DEF F
  <2>2. [s \in SUBSET D |-> IF s = {} THEN it ELSE Op(f[s \ {Max(s)}])]
        = [s \in SUBSET (1 .. n) |-> IF s = {} THEN it ELSE F[Max(s)][f[s \ {Max(s)}]]]
    BY <1>2, <2>1
  <2> QED
    BY <1>5, <2>2 DEF IsFold
<1>7. P(f0)
  <2> HIDE DEF P
  <2> QED
    BY <1>6
<1> HIDE DEF f0
<1>8. f0[{}] = it
  BY Zenon, <1>7
<1>9. CASE n = 0
  <2>1. D = {}
    BY <1>2, <1>9
  <2> QED
    BY <1>1, <1>8, <2>1
<1>10. CASE n = 1
  <2>1. D = 1 .. (0 + 1) /\ D # {} /\ D \in SUBSET D /\ 1 .. 0 = {}
    BY <1>2, <1>10
  <2>2. D \ {Max(D)} = {}
    BY <2>1, Interval
  <2>3. f0[D] = Op(f0[D \ {Max(D)}])
    BY Zenon, <1>7, <2>1
  <2>4. r = Op(it)
    BY <1>1, <1>8, <2>2, <2>3
  <2> QED
    BY <1>2, <1>3, <2>4 DEF V
<1> QED
  BY <1>9, <1>10

\* What the last reading call delivered ends where the iterator stands.
ChunkOK(it, a, c) == \E n \in 0 .. Read(it) : c = Run(a, Prelude + Read(it) - n + 1, n)

\* An iterator that a program has, on entry a.
UserOK(it, a, c, f) ==
  /\ IterOK(it, a)
  /\ it.state = "active" => ChunkOK(it, a, c) /\ (f => AtHome(it, a))

\* The iterator of sparkey_hash_write after n entries.
ScanOK(it, n) == IterOK(it, n) /\ it.state = IF n = 0 THEN "new" ELSE "active"

\* The addresses.
IndexInv == index \in Seq(Nat) /\ Len(index) <= Len(entries) /\ \A i \in 1 .. Len(index) : IndexOK(i)

\* The iterator and the index in every phase, for whole headers.
IterInv ==
  /\ phase = "write" => index = << >> /\ iter = NewIter /\ at = 0
  /\ phase # "write" => IndexInv
  /\ phase = "scan" => at = 0 /\ ScanOK(iter, Len(index))
  /\ phase = "read" => UserOK(iter, at, chunk, fresh) /\ Len(index) = Len(entries)

\* Where the log stays as it is, its blocks do.
LEMMA BlocksStay ==
  ASSUME w' = w
  PROVE  /\ DataEnd' = DataEnd /\ \A p : BlockAt(p)' = BlockAt(p) /\ NextBlock(p)' = NextBlock(p)
         /\ EntryBlockBits' = EntryBlockBits
<1>1. DataEnd' = DataEnd
  BY DEF DataEnd
<1> QED
  BY <1>1 DEF BlockAt, NextBlock, EntryBlockBits

\* So does what is said of an iterator.
LEMMA IterStays ==
  ASSUME w' = w, entries' = entries, NEW x, NEW a, IterOK(x, a)
  PROVE  IterOK(x, a)'
<1>1. Block(x)' = Block(x) /\ DataEnd' = DataEnd
  BY BlocksStay DEF Block
<1>2. Available(x)' = Available(x)
  BY <1>1 DEF Available
<1>3. NextUnit(x)' = NextUnit(x)
  BY <1>1, <1>2, BlocksStay DEF NextUnit, LogEnd
<1>4. RangeOK(x)'
  BY <1>1, BlocksStay DEF RangeOK, IterOK
<1>5. x.state = "active" => OnEntry(x, a)'
  BY <1>1, <1>3, BlocksStay DEF IterOK, OnEntry, AtHome, Away, Canon, Size
<1>6. x.state = "new" => BeforeEntry(x, a + 1)'
  BY <1>1, <1>2, <1>3, BlocksStay DEF IterOK, BeforeEntry
<1> QED
  BY <1>4, <1>5, <1>6 DEF IterOK

\* And of an address.
LEMMA AddressStays ==
  ASSUME w' = w, NEW v, NEW i, AddressOK(v, i)
  PROVE  AddressOK(v, i)'
BY BlocksStay DEF AddressOK, Address

\* And of the index.
LEMMA IndexStays ==
  ASSUME w' = w, entries' = entries, index' = index, IndexInv
  PROVE  IndexInv'
<1>1. ASSUME NEW i \in 1 .. Len(index) PROVE IndexOK(i)'
  <2>1. IndexOK(i)
    BY DEF IndexInv
  <2> QED
    BY <2>1, AddressStays DEF IndexOK
<1> QED
  BY <1>1 DEF IndexInv

\* A call of a program.
LEMMA UserStep ==
  ASSUME IterInv, phase = "read", phase' = phase, w' = w, entries' = entries, index' = index,
         UserOK(iter', at', chunk', fresh')
  PROVE  IterInv'
<1>1. IndexInv'
  BY IndexStays DEF IterInv
<1>2. IterOK(iter, at)'
  BY IterStays DEF UserOK
<1>3. UserOK(iter, at, chunk, fresh)'
  BY <1>2, BlocksStay DEF UserOK, ChunkOK, Read, Run, AtHome, Block
<1> QED
  BY <1>1, <1>3 DEF IterInv

\* A step of sparkey_hash_write.
LEMMA ScanStep ==
  ASSUME IterInv, phase = "scan", phase' = phase, w' = w, entries' = entries, at' = at,
         IndexInv', ScanOK(iter', Len(index'))
  PROVE  IterInv'
<1>1. IterOK(iter, Len(index))'
  BY IterStays DEF ScanOK
<1>2. ScanOK(iter, Len(index))'
  BY <1>1 DEF ScanOK
<1> QED
  BY <1>2 DEF IterInv

\* An iterator on an entry of which nothing has been read, or that is not on one.
LEMMA UserFresh ==
  ASSUME Reading, NEW it, NEW a, IterOK(it, a), NEW f, f => (it.state = "active" => AtHome(it, a))
  PROVE  UserOK(it, a, << >>, f)
<1>1. it.state = "active" => ChunkOK(it, a, << >>)
  <2> SUFFICES ASSUME it.state = "active" PROVE ChunkOK(it, a, << >>)
    OBVIOUS
  <2>1. Read(it) \in Nat
    BY ReadType
  <2>2. 0 \in 0 .. Read(it) /\ << >> = Run(a, Prelude + Read(it) - 0 + 1, 0)
    BY <2>1, RunEmpty
  <2> QED
    BY <2>2 DEF ChunkOK
<1> QED
  BY <1>1 DEF UserOK

\* An iterator that a call has read a part with.
LEMMA UserRead ==
  ASSUME Reading, NEW it, NEW a, IterOK(it, a), it.state = "active", NEW part \in {"key", "value"},
         NEW r, NEW m, NEW n \in Nat, PartTaken(part, it, r, a, m, n)
  PROVE  UserOK(r.it, a, r.units, FALSE)
<1> DEFINE x == r.it
           p == Pos(part, it)
<1>1. /\ IterOK(x, a) /\ x.state = "active" /\ r.units = Run(a, Prelude + p + 1, n)
      /\ n > 0 => Read(x) = p + n
  BY DEF PartTaken
<1> HIDE DEF x
<1>2. Read(x) \in Nat
  BY <1>1, ReadType
<1>3. p \in Nat
  BY ReadType DEF Pos
<1> HIDE DEF p
<1>4. CASE n = 0
  <2>1. r.units = << >>
    BY <1>1, <1>4, RunEmpty
  <2>2. UserOK(x, a, << >>, FALSE)
    BY <1>1, UserFresh
  <2> QED
    BY <2>1, <2>2 DEF x
<1>5. CASE n > 0
  <2>1. n \in 0 .. Read(x) /\ Prelude + p + 1 = Prelude + Read(x) - n + 1
    BY <1>1, <1>2, <1>3, <1>5 DEF Prelude
  <2>2. r.units = Run(a, Prelude + Read(x) - n + 1, n)
    BY <1>1, <2>1
  <2>3. ChunkOK(x, a, r.units)
    BY <2>1, <2>2 DEF ChunkOK
  <2> QED
    BY <1>1, <2>3 DEF UserOK, x
<1>6. n = 0 \/ n > 0
  OBVIOUS
<1> QED
  BY Zenon, <1>4, <1>5, <1>6

\* sparkey_logiter_next and sparkey_logiter_skip.
LEMMA IterNextStep ==
  ASSUME ~NextAfterMiss, Reading, IterInv, NEW n \in 1 .. 2, Next(n)
  PROVE  IterInv'
<1> DEFINE x == iter'
<1>1. /\ phase = "read" /\ phase' = phase /\ w' = w /\ entries' = entries /\ index' = index
      /\ x = Repeat(NextEntry, iter, n) /\ iter.state # "invalid"
      /\ at' = Passed(at + n) /\ chunk' = << >> /\ fresh' = (x.state = "active")
  BY DEF Next
<1>2. IterOK(iter, at) /\ Len(entries) \in Nat /\ at \in Nat
  <2>1. IterOK(iter, at) /\ Len(entries) \in Nat
    BY <1>1, FileFacts DEF IterInv, UserOK
  <2> QED
    BY <2>1 DEF IterOK
<1> HIDE DEF x
<1>3. n \in Nat /\ n # 0
  OBVIOUS
<1>4. /\ at + n <= Len(entries) => IterOK(x, at + n) /\ x.state = "active" /\ AtHome(x, at + n)
      /\ at + n > Len(entries) => IterOK(x, Len(entries) + 1) /\ x.state = "closed"
  BY <1>1, <1>2, <1>3, NextMany
<1>5. at' = IF at + n <= Len(entries) THEN at + n ELSE Len(entries) + 1
  <2> DEFINE d == at + n
             e == Len(entries) + 1
  <2>1. d \in Nat /\ e \in Nat /\ (d <= Len(entries) <=> d < e) /\ at' = Min({d, e})
    BY <1>1, <1>2 DEF Passed
  <2> HIDE DEF d, e
  <2>2. Min({d, e}) \in {d, e} /\ Min({d, e}) <= d /\ Min({d, e}) <= e
    BY <2>1, MinIn
  <2>3. at' = IF d < e THEN d ELSE e
    BY <2>1, <2>2
  <2> QED
    BY <2>1, <2>3 DEF d, e
<1>6. IterOK(x, at') /\ (x.state = "active" => AtHome(x, at'))
  BY <1>2, <1>4, <1>5
<1>7. UserOK(x, at', << >>, fresh')
  BY <1>6, UserFresh
<1> QED
  BY <1>1, <1>7, UserStep DEF x

\* The reading calls.
LEMMA IterReadStep ==
  ASSUME Reading, IterInv, NEW m \in Nat, NEW part \in {"key", "value"}, NEW r, Reads(r),
         r = ReadPart(part, iter, m) \/ r = FillUp(part, iter, m)
  PROVE  IterInv'
<1>1. /\ phase = "read" /\ phase' = phase /\ w' = w /\ entries' = entries /\ index' = index
      /\ iter' = r.it /\ iter.state = "active" /\ at' = at /\ chunk' = r.units /\ fresh' = FALSE
  BY DEF Reads
<1>2. IterOK(iter, at)
  BY <1>1 DEF IterInv, UserOK
<1>3. \E n \in Nat : PartTaken(part, iter, r, at, m, n)
  <2>1. CASE r = ReadPart(part, iter, m)
    <3>1. PartRead(part, iter, r, at, m)
      BY <1>1, <1>2, <2>1, ReadPartFacts
    <3> QED
      BY <3>1 DEF PartRead
  <2>2. CASE r = FillUp(part, iter, m)
    BY <1>1, <1>2, <2>2, FillFacts
  <2> QED
    BY <2>1, <2>2
<1>4. UserOK(r.it, at, r.units, FALSE)
  BY <1>1, <1>2, <1>3, UserRead
<1> QED
  BY <1>1, <1>4, UserStep

\* sparkey_logiter_reset.
LEMMA IterResetStep ==
  ASSUME Reading, IterInv, Reset
  PROVE  IterInv'
<1>1. /\ phase = "read" /\ phase' = phase /\ w' = w /\ entries' = entries /\ index' = index
      /\ iter' = ResetIter(iter) /\ iter.state = "active" /\ at' = at /\ chunk' = << >>
      /\ fresh' = FALSE
  BY DEF Reset
<1>2. IterOK(iter, at)
  BY <1>1 DEF IterInv, UserOK
<1>3. IterOK(iter', at)
  BY <1>1, <1>2, ResetFacts
<1>4. UserOK(iter', at, << >>, FALSE)
  BY <1>3, UserFresh
<1> QED
  BY <1>1, <1>4, UserStep

\* sparkey_hash_get that misses.
LEMMA InvalidOK ==
  ASSUME Reading, NEW it, NEW a, IterOK(it, a), NEW x, x = [it EXCEPT !.state = "invalid"]
  PROVE  UserOK(x, a, << >>, FALSE)
<1>1. RangeOK(it) /\ it \in LIter /\ a \in 0 .. Len(entries) + 1
  BY DEF IterOK, RangeOK
<1>2. /\ x \in LIter /\ x.state = "invalid" /\ x.blockPosition = it.blockPosition
      /\ x.nextBlockPosition = it.nextBlockPosition /\ x.blockOffset = it.blockOffset
      /\ x.keylen = it.keylen /\ x.valuelen = it.valuelen
      /\ x.keyRemaining = it.keyRemaining /\ x.valueRemaining = it.valueRemaining
  BY <1>1, IterState
<1>3. x.keyRemaining <= x.keylen /\ x.valueRemaining <= x.valuelen
  BY <1>1, <1>2 DEF RangeOK
<1>4. RangeOK(x)
  BY <1>1, <1>2, <1>3, RangeSame
<1>5. IterOK(x, a)
  BY <1>1, <1>2, <1>4 DEF IterOK
<1> QED
  BY <1>2, <1>5 DEF UserOK

\* The address of an entry in the index, in the read phase.
LEMMA IndexRead ==
  ASSUME Reading, IterInv, phase = "read", NEW i \in 1 .. Len(entries)
  PROVE  IndexOK(i) /\ RangeOK(iter) /\ IterOK(iter, at) /\ RangeOK(NewIter)
<1>1. IndexOK(i) /\ IterOK(iter, at)
  BY DEF IterInv, IndexInv, UserOK
<1> QED
  BY <1>1, NewFacts DEF IterOK

\* sparkey_logiter_keycmp with an iterator on entry i.
LEMMA IterKeycmpStep ==
  ASSUME Reading, IterInv, NEW i \in 1 .. Len(entries), Keycmp(i)
  PROVE  IterInv'
<1> DEFINE o == LookupWith(NewIter, i)
           r == LogiterKeycmp(iter, o)
<1>1. /\ phase = "read" /\ phase' = phase /\ w' = w /\ entries' = entries /\ index' = index
      /\ iter' = r.it1 /\ iter.state = "active" /\ Clean(iter) /\ at' = at /\ chunk' = << >>
      /\ fresh' = FALSE
  BY DEF Keycmp
<1>2. IterOK(iter, at) /\ IndexOK(i) /\ RangeOK(NewIter)
  BY <1>1, IndexRead
<1>3. IterOK(o, i) /\ o.state = "active" /\ Clean(o)
  BY <1>2, LookupFacts
<1> HIDE DEF o
<1>4. IterOK(r.it1, at)
  BY <1>1, <1>2, <1>3, CmpFacts
<1>5. UserOK(iter', at, << >>, FALSE)
  BY <1>1, <1>4, UserFresh
<1> QED
  BY <1>1, <1>5, UserStep

\* sparkey_hash_get that finds entry i.
LEMMA IterFoundStep ==
  ASSUME Reading, IterInv, NEW i \in 1 .. Len(entries), HashGetFound(i)
  PROVE  IterInv'
<1> DEFINE o == LookupWith(iter, i)
           r == FillUp("key", o, o.keylen)
<1>1. /\ phase = "read" /\ phase' = phase /\ w' = w /\ entries' = entries /\ index' = index
      /\ iter' = r.it /\ at' = i /\ chunk' = << >> /\ fresh' = FALSE
  BY DEF HashGetFound, Lookup
<1>2. IndexOK(i) /\ RangeOK(iter)
  BY <1>1, IndexRead
<1>3. IterOK(o, i) /\ o.state = "active"
  BY <1>2, LookupFacts
<1> HIDE DEF o
<1>4. o.keylen \in Nat
  BY <1>3, ReadType
<1>5. \E n \in Nat : PartTaken("key", o, r, i, o.keylen, n)
  BY <1>3, <1>4, FillFacts
<1> HIDE DEF r
<1>6. IterOK(r.it, i)
  BY <1>5 DEF PartTaken
<1>7. UserOK(iter', i, << >>, FALSE)
  BY <1>1, <1>6, UserFresh
<1> QED
  BY <1>1, <1>7, UserStep

\* sparkey_hash_get that finds other keys only.
LEMMA IterCollideStep ==
  ASSUME Reading, IterInv, NEW i \in 1 .. Len(entries), NEW n \in 0 .. 1, HashGetCollides(i, n)
  PROVE  IterInv'
<1> DEFINE o == LookupWith(iter, i)
           r == Repeat(LAMBDA j : ReadKey(j, j.keylen).it, o, n)
<1>1. /\ phase = "read" /\ phase' = phase /\ w' = w /\ entries' = entries /\ index' = index
      /\ iter' = [r EXCEPT !.state = "invalid"] /\ at' = i /\ chunk' = << >> /\ fresh' = FALSE
  BY DEF HashGetCollides, Lookup
<1>2. IndexOK(i) /\ RangeOK(iter)
  BY <1>1, IndexRead
<1>3. IterOK(o, i) /\ o.state = "active"
  BY <1>2, LookupFacts
<1> HIDE DEF o
<1>4. IterOK(r, i)
  BY <1>3, CollideFacts
<1> HIDE DEF r
<1>5. UserOK(iter', i, << >>, FALSE)
  BY <1>1, <1>4, InvalidOK
<1> QED
  BY <1>1, <1>5, UserStep

\* sparkey_hash_get that finds nothing.
LEMMA IterMissStep ==
  ASSUME Reading, IterInv, HashGetMisses
  PROVE  IterInv'
<1>1. /\ phase = "read" /\ phase' = phase /\ w' = w /\ entries' = entries /\ index' = index
      /\ iter' = [iter EXCEPT !.state = "invalid"] /\ at' = at /\ chunk' = << >> /\ fresh' = FALSE
  BY DEF HashGetMisses
<1>2. IterOK(iter, at)
  BY <1>1 DEF IterInv, UserOK
<1>3. UserOK(iter', at, << >>, FALSE)
  BY <1>1, <1>2, InvalidOK
<1> QED
  BY <1>1, <1>3, UserStep

\* sparkey_logiter_seek.
LEMMA IterSeekStep ==
  ASSUME Reading, IterInv, NEW i \in 1 .. Len(entries) + 1, Seek(i)
  PROVE  IterInv'
<1> DEFINE b == 2^EntryBlockBits
<1>0. Len(entries) \in Nat /\ i \in Nat /\ Len(w.file) \in Nat
  BY FileFacts
<1>1. /\ phase = "read" /\ phase' = phase /\ w' = w /\ entries' = entries /\ index' = index
      /\ chunk' = << >> /\ fresh' = FALSE
  BY DEF Seek
<1>2. IterOK(iter, at) /\ RangeOK(iter)
  BY <1>1 DEF IterInv, UserOK, IterOK
<1>3. CASE i > Len(entries)
  <2>1. iter' = [iter EXCEPT !.state = "closed"] /\ at' = i
    BY <1>3 DEF Seek, SeekTo
  <2>2. i = Len(entries) + 1
    BY <1>0, <1>3
  <2> DEFINE x == iter'
  <2>3. x = [iter EXCEPT !.state = "closed"] /\ iter \in LIter
    BY <1>2, <2>1 DEF RangeOK
  <2> HIDE DEF x
  <2>4. /\ x \in LIter /\ x.state = "closed" /\ x.blockPosition = iter.blockPosition
        /\ x.nextBlockPosition = iter.nextBlockPosition /\ x.blockOffset = iter.blockOffset
        /\ x.keylen = iter.keylen /\ x.valuelen = iter.valuelen
        /\ x.keyRemaining = iter.keyRemaining /\ x.valueRemaining = iter.valueRemaining
    BY <2>3, IterState
  <2>5. x.keyRemaining <= x.keylen /\ x.valueRemaining <= x.valuelen
    BY <1>2, <2>4 DEF RangeOK
  <2>6. RangeOK(x)
    BY <1>2, <2>4, <2>5, RangeSame
  <2>7. IterOK(x, i)
    BY <1>0, <2>2, <2>4, <2>6 DEF IterOK
  <2>8. UserOK(x, i, << >>, FALSE)
    BY <2>4, <2>7 DEF UserOK
  <2> QED
    BY <1>1, <2>1, <2>8, UserStep DEF x
<1>4. CASE i <= Len(entries)
  <2>1. i \in 1 .. Len(entries) /\ ~(i > Len(entries))
    BY <1>0, <1>4
  <2> DEFINE q == index[i] \div b
  <2>2. BlockAt(q)[1] = <<i, 1>> /\ iter' = SeekTo(iter, q) /\ at' = i - 1
    BY <1>4, <2>1 DEF Seek
  <2>3. PICK p \in 1 .. Len(w.file), n \in 0 .. i - 1 : index[i] = Address(p, n) /\ n < b
    BY <1>1, <2>1, IndexRead DEF IndexOK, AddressOK
  <2>4. index[i] = p * b + n /\ p \in Nat /\ n \in Nat /\ b \in Nat
    BY <1>0, <2>3, BitsFacts DEF Address
  <2> HIDE DEF b
  <2>5. q = p
    BY <2>3, <2>4, DivMod
  <2> HIDE DEF q
  <2>6. IterOK(iter', i - 1)
    BY <1>2, <2>1, <2>2, <2>5, SeekFacts
  <2>7. UserOK(iter', i - 1, << >>, FALSE)
    BY <2>6, UserFresh
  <2> QED
    BY <1>1, <2>2, <2>7, UserStep
<1> QED
  BY <1>0, <1>3, <1>4

\* The loop of sparkey_hash_write.
LEMMA IterScanStep ==
  ASSUME Reading, ~StaleHeaders, IterInv, ScanEntry
  PROVE  IterInv'
<1> DEFINE it == NextEntry(iter)
           n == Len(index)
           d == Address(it.blockPosition, it.entryCount)
<1>1. /\ phase = "scan" /\ phase' = phase /\ w' = w /\ entries' = entries /\ at' = at
      /\ it.state = "active" /\ index' = Append(index, d) /\ iter' = IterHash(it)
  BY DEF ScanEntry
<1>2. /\ IterOK(iter, n) /\ iter.state \in {"new", "active"} /\ index \in Seq(Nat) /\ n \in Nat
      /\ IndexInv /\ Len(entries) \in Nat
  BY <1>1, FileFacts DEF IterInv, IndexInv, ScanOK
<1>3. n < Len(entries) /\ IterOK(it, n + 1) /\ AtHome(it, n + 1)
  <2> DEFINE s == NextEntry(iter)
  <2>1. /\ n < Len(entries) => IterOK(s, n + 1) /\ AtHome(s, n + 1)
        /\ n >= Len(entries) => s.state = "closed"
    BY <1>2, NextFacts
  <2> HIDE DEF s
  <2>2. s.state = "active"
    BY <1>1 DEF s
  <2>3. n < Len(entries) /\ IterOK(s, n + 1) /\ AtHome(s, n + 1)
    BY <1>2, <2>1, <2>2
  <2> QED
    BY <2>3 DEF s
<1> DEFINE a == n + 1
<1> HIDE DEF it
<1>4. IterOK(iter', a) /\ iter'.state = "active"
  BY <1>1, <1>3, IterHashFacts
<1>5. AddressOK(d, a)
  <2> HIDE DEF a
  <2> QED
    BY <1>1, <1>3, ScanAddress DEF a
<1>6. d \in Nat
  <2> DEFINE b == 2^EntryBlockBits
  <2>1. PICK p \in 1 .. Len(w.file), c \in 0 .. a - 1 : d = Address(p, c)
    BY <1>5 DEF AddressOK
  <2>2. b \in Nat /\ p \in Nat /\ c \in Nat
    BY <1>2, <2>1, BitsFacts, FileFacts
  <2> HIDE DEF b
  <2>3. p * b + c \in Nat
    BY <2>2
  <2> QED
    BY <2>1, <2>3 DEF Address, b
<1> HIDE DEF d
<1>7. /\ index' \in Seq(Nat) /\ Len(index') = a /\ index'[a] = d
      /\ \A i \in 1 .. n : index'[i] = index[i]
  BY <1>1, <1>2, <1>6
<1>8. IndexInv'
  <2>1. ASSUME NEW i \in 1 .. Len(index') PROVE IndexOK(i)'
    <3>1. CASE i \in 1 .. n
      <4>1. AddressOK(index'[i], i)
        BY <1>2, <1>7, <3>1 DEF IndexInv, IndexOK
      <4> QED
        BY <1>1, <4>1, AddressStays DEF IndexOK
    <3>2. CASE i = a
      <4>1. AddressOK(index'[i], i)
        BY <1>5, <1>7, <3>2
      <4> QED
        BY <1>1, <4>1, AddressStays DEF IndexOK
    <3> QED
      BY <1>2, <1>7, <3>1, <3>2
  <2>5. Len(index') <= Len(entries')
    BY <1>1, <1>2, <1>3, <1>7
  <2> QED
    BY <1>7, <2>1, <2>5 DEF IndexInv
<1>9. ScanOK(iter', Len(index'))
  BY <1>2, <1>4, <1>7 DEF ScanOK
<1> QED
  BY <1>1, <1>8, <1>9, ScanStep

\* hash_put and hash_delete compare the keys of two entries.
LEMMA IterScanCompareStep ==
  ASSUME Reading, IterInv, NEW i \in 1 .. Len(entries), ScanCompares(i)
  PROVE  IterInv'
<1> DEFINE o == LookupWith(NewIter, i)
           x == ResetIter(iter)
           r == LogiterKeycmp(x, o)
           n == Len(index)
<1>1. /\ phase = "scan" /\ phase' = phase /\ w' = w /\ entries' = entries /\ at' = at
      /\ i < n /\ iter' = r.it1 /\ index' = index
  BY DEF ScanCompares
<1>2. IndexInv /\ ScanOK(iter, n) /\ n \in Nat /\ i \in Nat
  BY <1>1, FileFacts DEF IterInv, IndexInv
<1>3. i \in 1 .. n /\ n # 0
  BY <1>1, <1>2
<1>4. IndexOK(i) /\ IterOK(iter, n) /\ iter.state = "active"
  BY <1>2, <1>3 DEF IndexInv, ScanOK
<1>5. RangeOK(NewIter)
  BY NewFacts DEF IterOK
<1>6. IterOK(o, i) /\ o.state = "active" /\ Clean(o)
  BY <1>4, <1>5, LookupFacts
<1>7. IterOK(x, n) /\ x.state = "active" /\ Clean(x)
  <2> HIDE DEF n
  <2> QED
    BY <1>4, ResetFacts
<1> HIDE DEF o, x, n
<1>8. IterOK(r.it1, n) /\ r.it1.state = "active"
  BY <1>6, <1>7, CmpFacts
<1> HIDE DEF r
<1>9. ScanOK(iter', Len(index'))
  BY <1>1, <1>3, <1>8 DEF ScanOK, n
<1>10. IndexInv'
  BY <1>1, <1>2, IndexStays
<1> QED
  BY <1>1, <1>9, <1>10, ScanStep

\* The end of sparkey_hash_write: a program gets a new iterator.
LEMMA IterScanEndStep ==
  ASSUME Reading, IterInv, ScanEnds
  PROVE  IterInv'
<1> DEFINE s == NextEntry(iter)
           n == Len(index)
<1>1. /\ phase = "scan" /\ phase' = "read" /\ w' = w /\ entries' = entries /\ at' = at
      /\ s.state = "closed" /\ iter' = NewIter /\ index' = index
  BY DEF ScanEnds
<1>2. /\ IndexInv /\ n \in Nat /\ Len(entries) \in Nat /\ n <= Len(entries) /\ at = 0
      /\ IterOK(iter, n) /\ iter.state # "invalid"
  BY <1>1, FileFacts DEF IterInv, IndexInv, ScanOK
<1>3. n < Len(entries) => s.state = "active"
  BY <1>2, NextFacts
<1>4. Len(index) = Len(entries)
  BY <1>1, <1>2, <1>3
<1>5. IterOK(iter', at') /\ iter'.state = "new"
  BY <1>1, <1>2, NewFacts
<1>6. IterOK(iter, at)'
  BY <1>1, <1>5, IterStays
<1>7. UserOK(iter, at, chunk, fresh)'
  BY <1>5, <1>6 DEF UserOK
<1>8. IndexInv'
  BY <1>1, <1>2, IndexStays
<1> QED
  BY <1>1, <1>4, <1>7, <1>8 DEF IterInv

\* The iterator that the scan begins with.
LEMMA NewScan == Reading => ScanOK(NewIter, 0)
BY NewFacts DEF ScanOK

\* Also after a step that opens the log.
LEMMA NewScanNext == (Reading => ScanOK(NewIter, 0))'
BY NewScan, PTL

\* sparkey_logreader_open.
LEMMA IterOpenStep ==
  ASSUME IterInv, WriterInv', CloseWriter
  PROVE  IterInv'
<1>1. phase = "write" /\ phase' = "scan" /\ index' = index /\ iter' = iter /\ at' = at
  BY DEF CloseWriter, iterVars
<1>2. index = << >> /\ iter = NewIter /\ at = 0
  BY <1>1 DEF IterInv
<1>3. Reading'
  BY <1>1 DEF Reading
<1>4. ScanOK(NewIter, 0)'
  BY <1>3, NewScanNext
<1>5. Len(index') = 0 /\ index' \in Seq(Nat)
  BY <1>1, <1>2
<1>6. ScanOK(iter, Len(index))'
  <2>1. iter' = NewIter' /\ Len(index)' = 0
    BY <1>1, <1>2, <1>5 DEF NewIter
  <2> QED
    BY <1>4, <2>1 DEF ScanOK
<1>7. IndexInv'
  <2>1. Len(entries') \in Nat
    BY DEF WriterInv
  <2> QED
    BY <1>5, <2>1 DEF IndexInv
<1> QED
  BY <1>1, <1>2, <1>6, <1>7 DEF IterInv

\* Every step keeps the invariant of the iterator.
LEMMA IterNextAny ==
  ASSUME ~StaleHeaders, ~NextAfterMiss, WriterInv, WriterInv', IterInv, [LINext]_liVars
  PROVE  IterInv'
<1>0. ASSUME phase # "write" PROVE Reading
  BY <1>0 DEF Reading
<1>1. ASSUME NEW s \in Shapes, Add(s) PROVE IterInv'
  BY <1>1 DEF Add, IterInv, iterVars
<1>2. CASE FlushBlock
  BY <1>2 DEF FlushBlock, IterInv, iterVars
<1>3. CASE CloseWriter
  BY <1>3, IterOpenStep
<1>4. CASE ScanEnds
  BY <1>0, <1>4, IterScanEndStep DEF ScanEnds
<1>5. CASE ScanEntry
  BY <1>0, <1>5, IterScanStep DEF ScanEntry
<1>d. DOMAIN entries = 1 .. Len(entries)
  BY DEF WriterInv
<1>6. ASSUME NEW i \in DOMAIN entries, ScanCompares(i) PROVE IterInv'
  BY <1>0, <1>d, <1>6, IterScanCompareStep DEF ScanCompares
<1>7. ASSUME NEW n \in 1 .. 2, Next(n) PROVE IterInv'
  BY <1>0, <1>7, IterNextStep DEF Next
<1>8. ASSUME NEW m \in ChunkLens, KeyChunk(m) \/ ValueChunk(m) \/ FillKey(m) \/ FillValue(m)
      PROVE  IterInv'
  <2>0. m \in Nat
    BY LayoutAssumption
  <2>1. ASSUME NEW r, Reads(r) PROVE Reading
    BY <1>0, <2>1 DEF Reads
  <2>2. CASE KeyChunk(m)
    <3>1. Reads(ReadPart("key", iter, m))
      BY <2>2 DEF KeyChunk, ReadPart
    <3> QED
      BY <2>0, <2>1, <3>1, IterReadStep
  <2>3. CASE ValueChunk(m)
    <3>1. Reads(ReadPart("value", iter, m))
      BY <2>3 DEF ValueChunk, ReadPart
    <3> QED
      BY <2>0, <2>1, <3>1, IterReadStep
  <2>4. CASE FillKey(m)
    <3>1. Reads(FillUp("key", iter, m))
      BY <2>4 DEF FillKey
    <3> QED
      BY <2>0, <2>1, <3>1, IterReadStep
  <2>5. CASE FillValue(m)
    <3>1. Reads(FillUp("value", iter, m))
      BY <2>5 DEF FillValue
    <3> QED
      BY <2>0, <2>1, <3>1, IterReadStep
  <2> QED
    BY <1>8, <2>2, <2>3, <2>4, <2>5
<1>9. CASE Reset
  BY <1>0, <1>9, IterResetStep DEF Reset
<1>10. ASSUME NEW i \in DOMAIN entries, Keycmp(i) PROVE IterInv'
  BY <1>0, <1>d, <1>10, IterKeycmpStep DEF Keycmp
<1>11. ASSUME NEW i \in 1 .. Len(entries) + 1, Seek(i) PROVE IterInv'
  BY <1>0, <1>11, IterSeekStep DEF Seek
<1>12. ASSUME NEW i \in DOMAIN entries, HashGetFound(i) PROVE IterInv'
  BY <1>0, <1>d, <1>12, IterFoundStep DEF HashGetFound
<1>13. ASSUME NEW i \in DOMAIN entries, NEW n \in 0 .. 1, HashGetCollides(i, n) PROVE IterInv'
  BY <1>0, <1>d, <1>13, IterCollideStep DEF HashGetCollides
<1>14. CASE HashGetMisses
  BY <1>0, <1>14, IterMissStep DEF HashGetMisses
<1>15. CASE UNCHANGED liVars
  <2>1. /\ phase' = phase /\ w' = w /\ entries' = entries /\ index' = index /\ iter' = iter
        /\ at' = at /\ chunk' = chunk /\ fresh' = fresh
    BY <1>15 DEF liVars, iterVars
  <2>2. CASE phase = "read"
    BY <2>1, <2>2, UserStep DEF IterInv
  <2>3. CASE phase = "scan"
    BY <2>1, <2>3, IndexStays, ScanStep DEF IterInv
  <2>4. CASE phase = "write"
    BY <2>1, <2>4 DEF IterInv
  <2> QED
    BY <2>2, <2>3, <2>4 DEF WriterInv
<1> QED
  BY <1>1, <1>2, <1>3, <1>4, <1>5, <1>6, <1>7, <1>8, <1>9, <1>10, <1>11, <1>12, <1>13, <1>14,
     <1>15 DEF LINext

\* The inductive invariant of the iterator: after any mix of sequential reading, partial
\* reads, comparisons, resets, seeks and lookups, the iterator is where the calls sent it,
\* and the index has the address of every entry that was scanned.  max_entries_per_block
\* must be that of the blocks: with an older one, entry_block_bits is too small.
THEOREM IterInductive == ASSUME ~StaleHeaders, ~NextAfterMiss PROVE LISpec => []IterInv
<1>1. LIInit => IterInv
  BY DEF LIInit, IterInv
<1>2. WriterInv /\ WriterInv' /\ IterInv /\ [LINext]_liVars => IterInv'
  BY IterNextAny
<1> QED
  BY <1>1, <1>2, WriterInductive, PTL DEF LISpec

(***************************************************************************)
(* What the invariants give.                                               *)
(***************************************************************************)

\* Blocks fit the decompression buffer.
LEMMA BlocksFit ==
  ASSUME WriterInv
  PROVE  /\ Len(w.blockBuf) <= BlockSize
         /\ w.compressed => \A b \in ToSet(w.file) : Len(b) \in 1 .. BlockSize
<1>0. entries \in Seq(LIEntry) /\ w.compressed \in BOOLEAN /\ BlockSize \in Nat
  BY LayoutAssumption DEF WriterInv
<1>1. CASE w.compressed
  <2>1. WriterOK(entries, w)
    BY <1>1 DEF WriterInv
  <2>2. w.file \in Seq(Seq(LogUnit)) /\ Len(w.blockBuf) <= BlockSize
    BY <2>1 DEF WriterOK, Writing, WType
  <2>3. ASSUME NEW b \in ToSet(w.file) PROVE Len(b) \in 1 .. BlockSize
    <3>1. PICK p \in 1 .. Len(w.file) : b = w.file[p]
      BY <2>2 DEF ToSet
    <3>2. Chain(entries, b) /\ Len(b) <= BlockSize
      BY <2>1, <3>1 DEF WriterOK, Writing, BlockOK
    <3>3. Len(b) \in Nat /\ Len(b) >= 1
      BY <1>0, <3>2, ChainFacts
    <3> QED
      BY <1>0, <3>2, <3>3
  <2> QED
    BY <2>2, <2>3
<1>2. CASE ~w.compressed
  <2>1. w.blockBuf = << >>
    BY <1>2 DEF WriterInv, PlainOK
  <2> QED
    BY <1>0, <1>2, <2>1
<1> QED
  BY <1>0, <1>1, <1>2

\* The invariants give the types.
LEMMA IterTypes == WriterInv /\ IterInv => LITypeOK
<1> SUFFICES ASSUME WriterInv, IterInv PROVE LITypeOK
  OBVIOUS
<1>0. Len(entries) \in Nat /\ phase \in {"write", "scan", "read"}
  BY DEF WriterInv
<1>1. CASE phase = "write"
  <2>1. iter = NewIter /\ at = 0
    BY <1>1 DEF IterInv
  <2>2. /\ iter.state = "new" /\ iter.blockPosition = 0 /\ iter.blockOffset = 0
        /\ iter.keyRemaining = 0 /\ iter.keylen = 0
    BY <2>1 DEF NewIter
  <2>3. Block(iter) = << >> /\ Len(<< >>) = 0
    BY <2>2 DEF Block, BlockAt
  <2>4. Len(w.file) \in Nat
    <3>1. w.compressed \in BOOLEAN
      BY DEF WriterInv
    <3>2. CASE w.compressed
      BY <3>2 DEF WriterInv, WriterOK, Writing, WType
    <3>3. CASE ~w.compressed
      BY <3>3 DEF WriterInv, PlainOK, PlainType
    <3> QED
      BY <3>1, <3>2, <3>3
  <2> QED
    BY <1>0, <2>1, <2>2, <2>3, <2>4, BlocksFit DEF LITypeOK
<1>2. CASE phase # "write"
  <2>1. Reading /\ (phase = "scan" \/ phase = "read")
    BY <1>0, <1>2 DEF Reading
  <2>2. RangeOK(iter) /\ at \in 0 .. Len(entries) + 1
    BY <1>0, <2>1 DEF IterInv, ScanOK, UserOK, IterOK
  <2>3. /\ iter.state \in {"new", "active", "closed", "invalid"} /\ iter.keyRemaining \in Nat
        /\ iter.keylen \in Nat /\ iter.keyRemaining <= iter.keylen
        /\ iter.blockPosition \in 0 .. Len(w.file) /\ iter.blockOffset \in 0 .. Len(Block(iter))
    BY <2>2 DEF RangeOK, LIter
  <2>4. iter.keyRemaining \in 0 .. iter.keylen
    BY <2>3
  <2> QED
    BY <1>0, <2>2, <2>3, <2>4, BlocksFit DEF LITypeOK
<1> QED
  BY <1>1, <1>2

\* For every block size and any entries: blocks fit their buffer, and the iterator
\* stays inside its block.
THEOREM LITypeCorrect == ASSUME ~StaleHeaders, ~NextAfterMiss PROVE LISpec => []LITypeOK
<1>1. WriterInv /\ IterInv => LITypeOK
  BY IterTypes
<1> QED
  BY <1>1, WriterInductive, IterInductive, PTL

\* The iterator of a program on an entry.
LEMMA UserFacts ==
  ASSUME WriterInv, IterInv, phase = "read"
  PROVE  /\ Reading /\ IterOK(iter, at)
         /\ iter.state = "active" => /\ OnEntry(iter, at) /\ ChunkOK(iter, at, chunk)
                                     /\ fresh => AtHome(iter, at)
BY DEF Reading, IterInv, UserOK, IterOK

\* The invariant gives the entry that the calls lead to.
LEMMA IterReaches == WriterInv /\ IterInv => NextReaches
<1> SUFFICES ASSUME WriterInv, IterInv, phase = "read"
             PROVE  /\ iter.state = "active" =>
                         /\ at \in DOMAIN entries /\ iter.type = entries[at].type
                         /\ iter.keylen = entries[at].klen /\ iter.valuelen = entries[at].vlen
                         /\ BlockAt(iter.entryBlockPosition)[iter.entryBlockOffset]
                              = <<at, Prelude>>
                    /\ iter.state = "closed" => at = Len(entries) + 1
  BY DEF NextReaches
<1> QED
  BY UserFacts DEF OnEntry, IterOK

\* sparkey_logiter_next and sparkey_hash_get: the iterator is on the entry that the calls
\* sent it to, for any layout of the entries in blocks and any history of calls.
THEOREM NextReachesCorrect == ASSUME ~StaleHeaders, ~NextAfterMiss PROVE LISpec => []NextReaches
<1>1. WriterInv /\ IterInv => NextReaches
  BY IterReaches
<1> QED
  BY <1>1, WriterInductive, IterInductive, PTL

\* The invariant gives the address that the index has.
LEMMA IterAddress == WriterInv /\ IterInv => AddressStable
<1> SUFFICES ASSUME WriterInv, IterInv, phase = "read", fresh, iter.state = "active"
             PROVE  Address(iter.entryBlockPosition, iter.entryCount) = index[at]
  BY DEF AddressStable
<1>1. Reading /\ OnEntry(iter, at) /\ AtHome(iter, at)
  BY UserFacts
<1>2. IndexOK(at)
  <2>1. at \in 1 .. Len(entries)
    BY <1>1, FileFacts DEF OnEntry
  <2> QED
    BY <2>1 DEF IterInv, IndexInv
<1> QED
  BY <1>1, <1>2, AddressUnique

\* sparkey_logiter_hashnext: an entry that next has reached in whichever way has the
\* address that sparkey_hash_write stored for it.
THEOREM AddressStableCorrect == ASSUME ~StaleHeaders, ~NextAfterMiss PROVE LISpec => []AddressStable
<1>1. WriterInv /\ IterInv => AddressStable
  BY IterAddress
<1> QED
  BY <1>1, WriterInductive, IterInductive, PTL

\* Units of an entry that end where the iterator stands, or that begin there.
LEMMA EntryPart ==
  ASSUME Reading, NEW it, NEW a, IterOK(it, a), it.state = "active", NEW r, r = Read(it), NEW n \in Nat
  PROVE  /\ n <= r => SubSeq(EntryUnits(entries[a]), Prelude + r - n + 1, Prelude + r)
                        = Run(a, Prelude + r - n + 1, n)
         /\ r + n = it.keylen + it.valuelen =>
              SubSeq(EntryUnits(entries[a]), Prelude + r + 1, Prelude + it.keylen + it.valuelen)
                = Run(a, Prelude + r + 1, n)
<1> DEFINE z == Size(entries, a)
           k == it.keylen
           v == it.valuelen
<1>1. /\ a \in 1 .. Len(entries) /\ r \in Nat /\ k \in Nat /\ v \in Nat
      /\ it.keyRemaining \in Nat /\ it.valueRemaining \in Nat
      /\ Prelude + r + it.keyRemaining + it.valueRemaining = z
      /\ k = entries[a].klen /\ v = entries[a].vlen
  BY ReadType
<1>2. z = Prelude + k + v
  BY <1>1 DEF Size
<1>3. Prelude + r <= z
  BY <1>1 DEF Prelude
<1> HIDE DEF z, k, v
<1>4. ASSUME n <= r
      PROVE  SubSeq(EntryUnits(entries[a]), Prelude + r - n + 1, Prelude + r)
               = Run(a, Prelude + r - n + 1, n)
  <2> DEFINE c == Prelude + r - n + 1
  <2>1. c \in Nat /\ c >= 1 /\ c + n - 1 = Prelude + r /\ c + n - 1 <= z
    BY SMTT(40), <1>1, <1>3, <1>4 DEF Prelude
  <2> HIDE DEF c
  <2>2. SubSeq(EntryUnits(entries[a]), c, c + n - 1) = Run(a, c, n)
    BY <1>1, <2>1, EntryRun DEF z
  <2> QED
    BY <2>1, <2>2 DEF c
<1>5. ASSUME r + n = k + v
      PROVE  SubSeq(EntryUnits(entries[a]), Prelude + r + 1, Prelude + k + v)
               = Run(a, Prelude + r + 1, n)
  <2> DEFINE c == Prelude + r + 1
  <2>1. c \in Nat /\ c >= 1 /\ c + n - 1 = Prelude + k + v /\ c + n - 1 <= z
    <3>1. r \in Nat /\ k \in Nat /\ v \in Nat /\ z = 2 + k + v /\ c = 2 + r + 1
      BY <1>1, <1>2 DEF Prelude
    <3> HIDE DEF c
    <3>2. c \in Nat /\ c >= 1 /\ c + n - 1 = 2 + k + v /\ c + n - 1 <= z
      BY <1>5, <3>1
    <3> QED
      BY <3>2 DEF Prelude
  <2> HIDE DEF c
  <2>2. SubSeq(EntryUnits(entries[a]), c, c + n - 1) = Run(a, c, n)
    BY <1>1, <2>1, EntryRun DEF z
  <2> QED
    BY <2>1, <2>2 DEF c
<1> QED
  BY <1>4, <1>5 DEF k, v

\* The invariant gives what the reading calls deliver.
LEMMA IterChunk == WriterInv /\ IterInv => ChunkExact
<1> SUFFICES ASSUME WriterInv, IterInv, phase = "read", iter.state = "active"
             PROVE  chunk = SubSeq(EntryUnits(entries[at]),
                                   Prelude + Consumed - Len(chunk) + 1, Prelude + Consumed)
  BY DEF ChunkExact
<1> DEFINE r == Read(iter)
<1>1. Reading /\ IterOK(iter, at) /\ ChunkOK(iter, at, chunk) /\ Consumed = r
  BY UserFacts DEF Consumed, Read
<1>2. r \in Nat /\ at \in Nat
  BY <1>1, ReadType
<1>3. PICK n \in 0 .. r : chunk = Run(at, Prelude + r - n + 1, n)
  BY <1>1 DEF ChunkOK
<1>4. n \in Nat /\ n <= r
  BY <1>2
<1>5. SubSeq(EntryUnits(entries[at]), Prelude + r - n + 1, Prelude + r)
        = Run(at, Prelude + r - n + 1, n)
  BY <1>1, <1>4, EntryPart
<1>6. Len(chunk) = n
  <2> DEFINE c == Prelude + r - n + 1
  <2>1. c \in Nat /\ c >= 1
    BY <1>2, <1>4 DEF Prelude
  <2> HIDE DEF c
  <2>2. Len(Run(at, c, n)) = n
    BY <1>2, <1>4, <2>1, RunFacts
  <2> QED
    BY <1>3, <2>2 DEF c
<1> QED
  BY <1>1, <1>3, <1>5, <1>6

\* keychunk, valuechunk, fill_key and fill_value deliver the units of the entry that end
\* where the iterator then stands, wherever the blocks cut the entry.
THEOREM ChunkExactCorrect == ASSUME ~StaleHeaders, ~NextAfterMiss PROVE LISpec => []ChunkExact
<1>1. WriterInv /\ IterInv => ChunkExact
  BY IterChunk
<1> QED
  BY <1>1, WriterInductive, IterInductive, PTL

\* The invariant gives the result of a comparison.
LEMMA IterCompare == WriterInv /\ IterInv => KeycmpExact
<1> SUFFICES ASSUME WriterInv, IterInv, phase = "read", iter.state = "active", Clean(iter),
                    NEW i \in DOMAIN entries
             PROVE  LogiterKeycmp(iter, LookupWith(NewIter, i)).res
                      = CmpResult(entries[at].key, entries[i].key)
  BY DEF KeycmpExact, CmpResult
<1>1. Reading /\ IterOK(iter, at)
  BY UserFacts
<1>2. i \in 1 .. Len(entries)
  BY <1>1, FileFacts
<1>3. IndexOK(i) /\ RangeOK(NewIter)
  BY <1>1, <1>2, IndexRead
<1> DEFINE o == LookupWith(NewIter, i)
<1>4. IterOK(o, i) /\ o.state = "active" /\ Clean(o)
  BY <1>1, <1>2, <1>3, LookupFacts
<1> HIDE DEF o
<1>5. LogiterKeycmp(iter, o).res = CmpResult(entries[at].key, entries[i].key)
  BY <1>1, <1>4, CmpFacts
<1> QED
  BY <1>5 DEF o

\* sparkey_logiter_keycmp orders two keys byte by byte, wherever the blocks cut them.
THEOREM KeycmpExactCorrect == ASSUME ~StaleHeaders, ~NextAfterMiss PROVE LISpec => []KeycmpExact
<1>1. WriterInv /\ IterInv => KeycmpExact
  BY IterCompare
<1> QED
  BY <1>1, WriterInductive, IterInductive, PTL

\* A part that is asked for more than it has is read to its end.
LEMMA FillRest ==
  ASSUME Reading, NEW it, NEW a, IterOK(it, a), it.state = "active", NEW part \in {"key", "value"},
         NEW m \in Nat, m > Rem(part, it), NEW r, r = FillUp(part, it, m)
  PROVE  PartTaken(part, it, r, a, m, Rem(part, it))
<1>1. PICK n \in Nat : PartTaken(part, it, r, a, m, n) /\ (n = m \/ n = Rem(part, it))
  BY FillFacts
<1>2. Rem(part, it) \in Nat
  BY ReadType DEF Rem
<1>3. n <= Rem(part, it)
  BY <1>1 DEF PartTaken
<1>4. n = Rem(part, it)
  BY <1>1, <1>2, <1>3
<1> QED
  BY <1>1, <1>4

\* The rest of the key and of the value are the rest of the entry.
LEMMA RestRun ==
  ASSUME Reading, NEW it, NEW a, IterOK(it, a), it.state = "active",
         NEW q, q = FillUp("key", it, it.keylen + 1),
         NEW s, s = FillUp("value", q.it, it.valuelen + 1)
  PROVE  q.units \o s.units
           = Run(a, Prelude + Read(it) + 1, it.keyRemaining + it.valueRemaining)
<1> DEFINE k == it.keyRemaining
           v == it.valueRemaining
           c == Prelude + Read(it) + 1
           x == q.it
           m == it.keylen + 1
           l == it.valuelen + 1
<1>1. /\ k \in Nat /\ v \in Nat /\ Read(it) \in Nat /\ a \in Nat /\ it.keylen \in Nat
      /\ it.valuelen \in Nat
  BY ReadType
<1>2. k <= it.keylen /\ v <= it.valuelen
  BY DEF IterOK, RangeOK
<1>3. m \in Nat /\ m > k /\ l \in Nat /\ l > v /\ c \in Nat /\ c >= 1
  BY <1>1, <1>2 DEF Prelude
<1> HIDE DEF m, l
<1>4. PartTaken("key", it, q, a, m, k)
  <2>1. Rem("key", it) = k
    BY DEF Rem
  <2>2. q = FillUp("key", it, m)
    BY DEF m
  <2> HIDE DEF k
  <2> QED
    BY <1>3, <2>1, <2>2, FillRest
<1>5. /\ IterOK(x, a) /\ x.state = "active" /\ x.valueRemaining = v /\ x.keyRemaining = k - k
      /\ q.units = Run(a, c, k) /\ Read(x) = Read(it) + k
  BY <1>4 DEF PartTaken, Rem, Pos
<1>6. x.keyRemaining = 0
  BY <1>1, <1>5
<1> HIDE DEF x
<1>7. Rem("value", x) = v /\ Pos("value", x) = Read(it) + k
  BY <1>1, <1>5, <1>6 DEF Rem, Pos
<1>8. PartTaken("value", x, s, a, l, v)
  <2>1. s = FillUp("value", x, l)
    BY DEF x, l
  <2> HIDE DEF v
  <2> QED
    BY <1>3, <1>5, <1>7, <2>1, FillRest
<1>9. s.units = Run(a, c + k, v)
  <2>1. s.units = Run(a, Prelude + Pos("value", x) + 1, v)
    BY <1>8 DEF PartTaken
  <2>2. Prelude + Pos("value", x) + 1 = c + k
    BY <1>1, <1>7 DEF Prelude
  <2> QED
    BY <2>1, <2>2
<1> HIDE DEF k, v, c
<1>10. Runs(a, c, k, v)
  BY <1>1, <1>3 DEF Runs
<1>11. Run(a, c, k) \o Run(a, c + k, v) = Run(a, c, k + v)
  BY <1>10, RunConcat
<1>12. q.units \o s.units = Run(a, c, k + v)
  BY <1>5, <1>9, <1>11
<1> QED
  BY <1>12 DEF c, k, v

\* The invariant gives what can still be read.
LEMMA IterRest == WriterInv /\ IterInv => RestReadable
<1> SUFFICES ASSUME WriterInv, IterInv, phase = "read", iter.state = "active"
             PROVE  LET key == FillUp("key", iter, iter.keylen + 1)
                    IN  key.units \o FillUp("value", key.it, iter.valuelen + 1).units
                          = SubSeq(EntryUnits(entries[at]), Prelude + Consumed + 1,
                                   Prelude + iter.keylen + iter.valuelen)
  BY DEF RestReadable
<1> DEFINE q == FillUp("key", iter, iter.keylen + 1)
           s == FillUp("value", q.it, iter.valuelen + 1)
           r == Read(iter)
           n == iter.keyRemaining + iter.valueRemaining
<1>1. Reading /\ IterOK(iter, at) /\ Consumed = r
  BY UserFacts DEF Consumed, Read
<1>2. q.units \o s.units = Run(at, Prelude + r + 1, n)
  BY <1>1, RestRun
<1>3. n \in Nat /\ r + n = iter.keylen + iter.valuelen
  BY SMTT(40), <1>1, ReadType
<1> HIDE DEF n, q, s
<1>4. SubSeq(EntryUnits(entries[at]), Prelude + r + 1, Prelude + iter.keylen + iter.valuelen)
        = Run(at, Prelude + r + 1, n)
  BY <1>1, <1>3, EntryPart
<1>5. q.units \o s.units = SubSeq(EntryUnits(entries[at]), Prelude + Consumed + 1,
                                  Prelude + iter.keylen + iter.valuelen)
  BY <1>1, <1>2, <1>4
<1> QED
  BY <1>5 DEF q, s

\* What has not been read of an entry can still be read, all of it and nothing else.
THEOREM RestReadableCorrect == ASSUME ~StaleHeaders, ~NextAfterMiss PROVE LISpec => []RestReadable
<1>1. WriterInv /\ IterInv => RestReadable
  BY IterRest
<1> QED
  BY <1>1, WriterInductive, IterInductive, PTL

\* The entries that begin in a block that begins with one.
LEMMA ChainStarts ==
  ASSUME NEW es \in Seq(LIEntry), NEW b, Chain(es, b), b[1][2] = 1
  PROVE  \A j \in 1 .. Len(b) :
           /\ IsFiniteSet({q \in 1 .. j : b[q][2] = 1})
           /\ Cardinality({q \in 1 .. j : b[q][2] = 1}) = b[j][1] - b[1][1] + 1
<1> DEFINE Starts(j) == {q \in 1 .. j : b[q][2] = 1}
           OK(j) == IsFiniteSet(Starts(j)) /\ Cardinality(Starts(j)) = b[j][1] - b[1][1] + 1
           S == {m \in Nat : m + 1 <= Len(b) => OK(m + 1)}
<1>1. /\ Len(b) \in Nat /\ Len(b) >= 1
      /\ \A k \in 1 .. Len(b) : b[k] \in UnitOf(es)
      /\ \A k \in 1 .. Len(b) - 1 : b[k + 1] = Succ(es, b[k])
  BY ChainFacts
<1>2. \A k \in 1 .. Len(b) : b[k][1] \in Nat /\ b[k][2] \in Nat /\ b[k][2] >= 1
  BY <1>1, UnitFacts
<1>3. 0 \in S
  <2>1. Starts(1) = {1}
    OBVIOUS
  <2>2. IsFiniteSet({1}) /\ Cardinality({1}) = 1
    BY FS_Singleton
  <2>4. b[1][1] \in Nat
    BY <1>1, <1>2
  <2>5. b[1][1] - b[1][1] + 1 = 1
    BY <2>4
  <2> HIDE DEF Starts
  <2>6. IsFiniteSet(Starts(1)) /\ Cardinality(Starts(1)) = 1
    BY Zenon, <2>1, <2>2
  <2>7. OK(1)
    BY <2>5, <2>6
  <2> HIDE DEF OK
  <2> QED
    BY <2>7
<1>4. ASSUME NEW m \in Nat, m \in S PROVE m + 1 \in S
  <2>0. m + 1 \in Nat
    OBVIOUS
  <2> HIDE DEF OK
  <2> SUFFICES ASSUME (m + 1) + 1 <= Len(b) PROVE OK((m + 1) + 1)
    BY Zenon, <2>0
  <2> DEFINE k == m + 1
  <2>1. k \in 1 .. Len(b) - 1 /\ k \in 1 .. Len(b) /\ k + 1 \in 1 .. Len(b) /\ 1 \in 1 .. Len(b)
        /\ m + 1 <= Len(b)
    BY <1>1
  <2>2. OK(k)
    BY <1>4, <2>1
  <2>3. b[k + 1] = Succ(es, b[k]) /\ b[k] \in UnitOf(es)
    BY <1>1, <2>1
  <2>4. /\ b[k][1] \in Nat /\ b[k][2] \in Nat /\ b[k][2] >= 1 /\ b[1][1] \in Nat
        /\ b[k + 1][2] \in Nat /\ k \in Nat
    BY <1>2, <2>1
  <2> HIDE DEF k
  <2>5. IsFiniteSet(Starts(k)) /\ Cardinality(Starts(k)) = b[k][1] - b[1][1] + 1
    BY <2>2 DEF OK
  <2>6. CASE b[k + 1][2] = 1
    <3>1. b[k + 1][1] = b[k][1] + 1
      BY <2>3, <2>4, <2>6 DEF Succ
    <3>2. Starts(k + 1) = Starts(k) \cup {k + 1} /\ k + 1 \notin Starts(k)
      BY <2>4, <2>6
    <3> HIDE DEF Starts
    <3>3. IsFiniteSet(Starts(k) \cup {k + 1})
          /\ Cardinality(Starts(k) \cup {k + 1}) = Cardinality(Starts(k)) + 1
      BY <2>5, <3>2, FS_AddElement
    <3>4. (b[k][1] + 1) - b[1][1] + 1 = (b[k][1] - b[1][1] + 1) + 1
      <4>1. \A x, y \in Nat : (x + 1) - y + 1 = (x - y + 1) + 1
        OBVIOUS
      <4> QED
        BY Zenon, <2>4, <4>1
    <3>5. b[k + 1][1] - b[1][1] + 1 = Cardinality(Starts(k)) + 1
      BY Zenon, <2>5, <3>1, <3>4
    <3> QED
      BY <3>2, <3>3, <3>5 DEF OK, k
  <2>7. CASE b[k + 1][2] # 1
    <3>1. b[k + 1][1] = b[k][1]
      BY <2>3, <2>4, <2>7 DEF Succ
    <3>2. Starts(k + 1) = Starts(k)
      BY <2>4, <2>7
    <3> HIDE DEF Starts
    <3> QED
      BY <2>5, <3>1, <3>2 DEF OK, k
  <2> QED
    BY <2>6, <2>7
<1> HIDE DEF S
<1>5. Nat \subseteq S
  BY <1>3, <1>4, SetInduction
<1>6. ASSUME NEW j \in 1 .. Len(b) PROVE OK(j)
  <2>1. j - 1 \in Nat /\ (j - 1) + 1 = j /\ j <= Len(b)
    BY <1>1
  <2> HIDE DEF OK
  <2>2. (j - 1) + 1 <= Len(b) => OK((j - 1) + 1)
    BY <1>5, <2>1 DEF S
  <2> QED
    BY <2>1, <2>2
<1> QED
  BY <1>6

\* What the address of an entry decodes to: the block it starts in and the
\* number of entries that start before it there.
LEMMA AddressDecodes ==
  ASSUME Reading, IndexInv, NEW i \in 1 .. Len(index)
  PROVE  LET p == index[i] \div 2^EntryBlockBits
             n == index[i] % 2^EntryBlockBits
             starts == {k \in DOMAIN BlockAt(p) : BlockAt(p)[k][2] = 1}
         IN  /\ p \in 1 .. Len(w.file)
             /\ \E k \in starts : /\ BlockAt(p)[k][1] = i
                                   /\ Cardinality({j \in starts : j < k}) = n
<1> DEFINE m == 2^EntryBlockBits
<1>1. PICK p \in 1 .. Len(w.file), n \in 0 .. i - 1 :
        /\ index[i] = Address(p, n) /\ n < m
        /\ BlockAt(p)[1] = <<i - n, 1>>
        /\ \E k \in 1 .. Len(BlockAt(p)) : BlockAt(p)[k] = <<i, Prelude>>
  BY DEF IndexInv, IndexOK, AddressOK
<1> DEFINE b == BlockAt(p)
<1>2. p \in Nat /\ n \in Nat /\ i \in Nat /\ m \in Nat /\ Len(index) \in Nat
  BY <1>1, BitsFacts, FileFacts DEF IndexInv
<1>3. index[i] = p * m + n
  BY <1>1 DEF Address
<1> HIDE DEF m
<1>4. index[i] \div m = p /\ index[i] % m = n
  <2>1. n < m
    BY <1>1
  <2>2. (p * m + n) \div m = p /\ (p * m + n) % m = n
    BY <1>2, <2>1, DivMod
  <2> QED
    BY Zenon, <1>3, <2>2
<1>5. Chain(entries, b) /\ entries \in Seq(LIEntry)
  BY <1>1, FileFacts, BlockFacts
<1>6. PICK k \in 1 .. Len(b) : b[k] = <<i, Prelude>>
  BY <1>1
<1> HIDE DEF b
<1>7. b[1] = <<i - n, 1>> /\ b[1][1] = i - n /\ b[1][2] = 1
  BY <1>1 DEF b
<1>8. /\ b \in Seq(LogUnit) /\ Len(b) \in Nat /\ Len(b) >= 1 /\ DOMAIN b = 1 .. Len(b)
      /\ \A q \in 1 .. Len(b) : b[q] \in UnitOf(entries)
      /\ \A q \in 1 .. Len(b) - 1 : b[q + 1] = Succ(entries, b[q])
  BY <1>5, ChainFacts
<1>9. k # 1
  BY <1>6, <1>7 DEF Prelude
<1> DEFINE s == k - 1
<1>10. s \in 1 .. Len(b) - 1 /\ s \in 1 .. Len(b) /\ s + 1 = k /\ s \in Nat
  BY <1>6, <1>8, <1>9
<1> HIDE DEF s
<1>11. b[s] = <<i, 1>> /\ b[s][1] = i /\ b[s][2] = 1
  <2>1. b[k] = Succ(entries, b[s]) /\ b[s] \in UnitOf(entries)
    BY <1>8, <1>10
  <2>2. b[s] = <<b[s][1], b[s][2]>> /\ b[s][1] \in Nat /\ b[s][2] \in Nat
    BY <1>5, <2>1, UnitFacts
  <2> QED
    BY <1>6, <2>1, <2>2 DEF Succ, Prelude
<1> DEFINE starts == {q \in DOMAIN b : b[q][2] = 1}
           upto == {q \in 1 .. s : b[q][2] = 1}
           before == {j \in starts : j < s}
<1>12. IsFiniteSet(upto) /\ Cardinality(upto) = b[s][1] - b[1][1] + 1
  BY <1>5, <1>7, <1>10, ChainStarts
<1>13. s \in upto /\ before = upto \ {s} /\ s \in starts
  BY <1>8, <1>10, <1>11
<1> HIDE DEF starts, upto, before
<1>14. Cardinality(before) = Cardinality(upto) - 1
  BY <1>12, <1>13, FS_RemoveElement
<1>15. Cardinality(upto) = n + 1
  BY <1>2, <1>7, <1>11, <1>12
<1>16. Cardinality(before) = n
  BY <1>2, <1>14, <1>15
<1>17. s \in starts /\ b[s][1] = i /\ Cardinality({j \in starts : j < s}) = n
  BY <1>11, <1>13, <1>16 DEF before
<1>18. /\ p \in 1 .. Len(w.file)
       /\ \E q \in {q \in DOMAIN BlockAt(p) : BlockAt(p)[q][2] = 1} :
            /\ BlockAt(p)[q][1] = i
            /\ Cardinality({j \in {q2 \in DOMAIN BlockAt(p) : BlockAt(p)[q2][2] = 1} : j < q}) = n
  BY <1>1, <1>17 DEF starts, b
<1> QED
  BY <1>4, <1>18 DEF m

\* An address of the index is a block and a number of entries in it, and the
\* entry is there: when max_entries_per_block of hash_write's first load
\* accounts for all the blocks that its second load covers, the bits taken
\* from it hold the number of every entry.
THEOREM AddressesDecodeCorrect == ASSUME ~StaleHeaders, ~NextAfterMiss PROVE LISpec => []AddressesDecode
<1>1. WriterInv /\ IterInv => AddressesDecode
  <2> SUFFICES ASSUME WriterInv, IterInv PROVE AddressesDecode
    OBVIOUS
  <2>1. CASE phase = "write"
    <3>1. index = << >>
      BY <2>1 DEF IterInv
    <3> QED
      BY <3>1 DEF AddressesDecode
  <2>2. CASE phase # "write"
    <3>1. Reading /\ IndexInv /\ DOMAIN index = 1 .. Len(index)
      BY <2>2 DEF Reading, IterInv, IndexInv
    <3> QED
      BY <3>1, AddressDecodes DEF AddressesDecode
  <2> QED
    BY <2>1, <2>2
<1> QED
  BY <1>1, WriterInductive, IterInductive, PTL
=============================================================================
