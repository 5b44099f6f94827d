------------------------------ MODULE LogIter ------------------------------
(***************************************************************************)
(* The layout of a log and the iterator that reads it: log_add with its    *)
(* compression blocks (logwriter.c), sparkey_logiter_* (logreader.c), the  *)
(* addresses that sparkey_hash_write stores in the index (hashwriter.c)    *)
(* and their use by sparkey_hash_get (hashreader.c).                       *)
(*                                                                         *)
(* A log is written, then opened and scanned once as sparkey_hash_write    *)
(* does, and then read by a program that mixes sequential reading, partial *)
(* reads, resets, seeks and lookups on one iterator.  Positions: the file  *)
(* header is before position 1; a compressed block, or a unit of an        *)
(* uncompressed log, occupies one position.  The compressor is external:   *)
(* a block comes back as it was given.                                     *)
(***************************************************************************)
EXTENDS LogFormat, FiniteSets, FiniteSetsExt

CONSTANTS
  Compressions, \* the values sparkey_uses_compressor(compression_type) takes
  BlockSize,    \* compression_block_size
  Shapes,       \* the [type, key, klen, vlen] of the entries
  MaxEntries,   \* bound: entries in the log
  ChunkLens,    \* the maxlen arguments of the reading calls
  StaleHeaders, \* the log header hash_write loads may be older than the blocks
  NextAfterMiss \* the program goes on with next after a lookup that missed

ASSUME LayoutAssumption ==
  /\ Compressions \subseteq BOOLEAN /\ StaleHeaders \in BOOLEAN /\ NextAfterMiss \in BOOLEAN
  /\ BlockSize \in Nat /\ BlockSize >= Prelude
  /\ \A s \in Shapes : /\ s.type \in {"put", "delete"}
                       /\ s.key \in Seq(Nat) /\ s.klen = Len(s.key) /\ s.vlen \in Nat
                       /\ s.type = "delete" => s.vlen = 0
  /\ MaxEntries \in Nat /\ ChunkLens \subseteq Nat \ {0}

\* The prover does not compute powers; these are the ones it needs.
ASSUME PowersOfTwo == 2^0 = 1 /\ \A n \in 0 .. MaxEntries : 2^(n + 1) = 2 * 2^n

VARIABLES
  phase,    \* "write", "scan" or "read"
  w,        \* the writer and its file: see LIInit
  entries,  \* the entries that were added
  iter,     \* the sparkey_logiter
  index,    \* the addresses that the scan computed, entry by entry
  at,       \* the entry that the iterator is on according to the calls made
  chunk,    \* the units that the last reading call delivered
  fresh     \* nothing was called on the iterator since next

iterVars == <<iter, at, chunk, fresh>>
liVars == <<phase, w, entries, index, iterVars>>

(***************************************************************************)
(* Writing: log_add, compressed_add, flush_compressed.                     *)
(***************************************************************************)
FlushCompressed(l) ==
  [l EXCEPT !.flushed = TRUE,
            !.maxEntriesPerBlock = Max({@, l.entryCount}),
            !.entryCount = 0,
            !.file = Append(@, l.blockBuf),
            !.blockBuf = << >>]

\* Mutant: the block buffer takes one unit more.
CompressedAddLate(l, u) ==
  LET l1 == IF Len(l.blockBuf) > BlockSize THEN FlushCompressed(l) ELSE l
  IN  [l1 EXCEPT !.blockBuf = Append(@, u)]

\* compressed_add of one unit: a full block is written when more is to come.
CompressedAdd(l, u) ==
  LET l1 == IF Len(l.blockBuf) = BlockSize THEN FlushCompressed(l) ELSE l
  IN  [l1 EXCEPT !.blockBuf = Append(@, u)]

\* Mutant: only for entries that fit a block.
NeedsNewBlockIfFits(l, size) == size <= BlockSize /\ size > BlockSize - Len(l.blockBuf)

\* log_add starts a new block when the lengths do not fit what is left of
\* this one, or when the entry fits a block but not this one.
NeedsNewBlock(l, size) ==
  LET remaining == BlockSize - Len(l.blockBuf)
  IN  remaining < Prelude \/ (size <= BlockSize /\ size > remaining)

LogAdd(l, units) ==
  LET l1 == IF NeedsNewBlock(l, Len(units)) THEN FlushCompressed(l) ELSE l
      l2 == [l1 EXCEPT !.entryCount = @ + 1, !.flushed = FALSE]
      l3 == FoldLeft(CompressedAdd, l2, units)
  IN  IF l3.flushed /\ l3.blockBuf # << >> THEN FlushCompressed(l3) ELSE l3

\* sparkey_logwriter_put and sparkey_logwriter_delete.
Add(s) ==
  /\ phase = "write" /\ Len(entries) < MaxEntries
  /\ LET e == [id |-> Len(entries) + 1, type |-> s.type, key |-> s.key,
              klen |-> s.klen, vlen |-> s.vlen]
     IN  /\ entries' = Append(entries, e)
         /\ w' = IF w.compressed THEN LogAdd(w, EntryUnits(e))
                 ELSE [w EXCEPT !.file = @ \o EntryUnits(e)]
  /\ UNCHANGED <<phase, index, iterVars>>

\* sparkey_logwriter_flush ends the block; then it writes the header.
FlushData(l) == IF l.blockBuf # << >> THEN FlushCompressed(l) ELSE l
WriteHeader(l) == [l EXCEPT !.headerMax = l.maxEntriesPerBlock]

\* sparkey_hash_write takes max_entries_per_block from its first load of the
\* log header and the blocks from the second.  The first load misses what a
\* flush between the two writes, and also what a flush has not written yet
\* although data_end is there: max_entries_per_block is the last field, and
\* a writer that dies before it leaves it so.
Flushes == \/ w' = WriteHeader(FlushData(w))
           \/ StaleHeaders /\ w' = FlushData(w)

FlushBlock ==
  /\ phase = "write" /\ w.blockBuf # << >>
  /\ Flushes
  /\ UNCHANGED <<phase, entries, index, iterVars>>

(***************************************************************************)
(* The iterator.  compression_buf and block_len are the content and the    *)
(* length of the block at block_position; there is none at position 0.     *)
(***************************************************************************)
DataEnd == Len(w.file) + 1

BlockAt(p) == IF p = 0 THEN << >>
              ELSE IF w.compressed THEN w.file[p]
              ELSE SubSeq(w.file, p, Len(w.file))

NextBlock(p) == IF w.compressed THEN p + 1 ELSE DataEnd

Block(it) == BlockAt(it.blockPosition)
Available(it) == Len(Block(it)) - it.blockOffset

\* sparkey_logiter_create.
NewIter == [blockPosition |-> 0, nextBlockPosition |-> 1, blockOffset |-> 0,
            entryCount |-> -1, entryBlockPosition |-> 0, entryBlockOffset |-> 0,
            state |-> "new", type |-> "put", keylen |-> 0, valuelen |-> 0,
            keyRemaining |-> 0, valueRemaining |-> 0]

SeekBlock(it, p) ==
  IF it.blockPosition = p THEN [it EXCEPT !.blockOffset = 0]
  ELSE [it EXCEPT !.blockOffset = 0, !.blockPosition = p,
                  !.nextBlockPosition = NextBlock(p)]

SeekToCounting(it, p) ==  \* Mutant: entry_count goes on.
  IF p = DataEnd THEN [it EXCEPT !.state = "closed"]
  ELSE [SeekBlock(it, p) EXCEPT !.state = "new"]

SeekTo(it, p) ==
  IF p = DataEnd THEN [it EXCEPT !.state = "closed"]
  ELSE [SeekBlock(it, p) EXCEPT !.entryCount = -1, !.state = "new"]

EnsureAvailable(it) ==
  IF Available(it) > 0 THEN it
  ELSE IF it.nextBlockPosition >= DataEnd
       THEN [it EXCEPT !.blockPosition = 0, !.blockOffset = 0]
       ELSE [SeekBlock(it, it.nextBlockPosition) EXCEPT !.entryCount = -1]

Repeat(Op(_), it, n) == FoldLeft(LAMBDA i, k : Op(i), it, [k \in 1 .. n |-> k])

\* skip, a unit at a time.  (At the end of the data the code would loop
\* forever; the iterator never has to skip more than the log holds.)
SkipUnit(it) ==
  LET i == EnsureAvailable(it)
  IN  IF Available(i) = 0 THEN i ELSE [i EXCEPT !.blockOffset = @ + 1]

Skip(it, n) == Repeat(SkipUnit, it, n)

\* The entry whose lengths read_vlq finds at the iterator.  Off an entry's
\* start it takes other bytes for lengths: say, those of an empty PUT.
EntryHere(it) ==
  LET u == Block(it)[it.blockOffset + 1]
  IN  IF u[2] = 1 THEN entries[u[1]]
      ELSE [id |-> 0, type |-> "put", klen |-> 0, vlen |-> 0]

\* In an uncompressed log every entry starts a block of its own.
Rebase(it) ==
  IF w.compressed THEN it
  ELSE [it EXCEPT !.blockPosition = @ + it.blockOffset, !.blockOffset = 0,
                  !.entryCount = -1]

ReadEntry(it) ==
  LET e == EntryHere(it)
  IN  [it EXCEPT !.entryCount = @ + 1,
                 !.type = e.type, !.keylen = e.klen, !.valuelen = e.vlen,
                 !.keyRemaining = e.klen, !.valueRemaining = e.vlen,
                 !.blockOffset = @ + Prelude,
                 !.entryBlockPosition = it.blockPosition,
                 !.entryBlockOffset = it.blockOffset + Prelude,
                 !.state = "active"]

\* sparkey_logiter_next: what is left of the current entry is skipped.
Cleared(it) == [it EXCEPT !.state = "invalid", !.keyRemaining = 0,
                          !.valueRemaining = 0, !.keylen = 0, !.valuelen = 0]

NextEntry(it) ==
  LET active == it.state = "active"
      i1 == Skip(Cleared(it), IF active THEN it.keyRemaining ELSE 0)
      i2 == Skip(i1, IF active THEN it.valueRemaining ELSE 0)
      i3 == EnsureAvailable(i2)
  IN  IF it.state = "closed" THEN it
      ELSE IF Available(i3) = 0 THEN [i3 EXCEPT !.state = "closed"]
      ELSE ReadEntry(Rebase(i3))

ResetIterOffset(it) ==  \* Mutant: what remains is not restored.
  [SeekBlock(it, it.entryBlockPosition) EXCEPT !.blockOffset = it.entryBlockOffset]

ResetIterSameBlock(it) ==  \* Mutant: no seek back to the entry's block.
  [it EXCEPT !.keyRemaining = it.keylen, !.valueRemaining = it.valuelen,
             !.blockOffset = it.entryBlockOffset]

ResetIter(it) ==
  [SeekBlock(it, it.entryBlockPosition) EXCEPT
     !.keyRemaining = it.keylen, !.valueRemaining = it.valuelen,
     !.blockOffset = it.entryBlockOffset]

\* sparkey_logiter_chunk: at most m units of what remains of the key or of
\* the value, and at most to the end of the block.
Chunk(it, var, m) ==
  IF it[var] = 0 THEN [it |-> it, units |-> << >>]
  ELSE LET i == EnsureAvailable(it)
           n == Min({m, it[var], Available(i)})
       IN  [it |-> [i EXCEPT !.blockOffset = @ + n, ![var] = @ - n],
            units |-> SubSeq(Block(i), i.blockOffset + 1, i.blockOffset + n)]

ReadKey(it, m) == Chunk(it, "keyRemaining", m)
ReadValueOnly(it, m) ==  \* Mutant: the rest of the key is not skipped.
  Chunk([it EXCEPT !.keyRemaining = 0], "valueRemaining", m)

ReadValue(it, m) ==
  Chunk([Skip(it, it.keyRemaining) EXCEPT !.keyRemaining = 0], "valueRemaining", m)

\* sparkey_logiter_fill_key and fill_value: chunks until m units are there.
FillUp(part, it, m) ==
  FoldLeft(LAMBDA r, k : LET c == IF part = "key" THEN ReadKey(r.it, m - Len(r.units))
                                  ELSE ReadValue(r.it, m - Len(r.units))
                         IN  [it |-> c.it, units |-> r.units \o c.units],
           [it |-> it, units |-> << >>], [k \in 1 .. m |-> k])

\* The bytes of a key's units; any other unit holds, say, a 0.
Byte(u) == LET key == entries[u[1]].key
           IN  IF u[2] - Prelude \in DOMAIN key THEN key[u[2] - Prelude] ELSE 0
Bytes(units) == [k \in DOMAIN units |-> Byte(units[k])]

\* The sign of memcmp, 0 if one is a prefix of the other.
Memcmp(s, t) ==
  LET differ == {k \in 1 .. Min({Len(s), Len(t)}) : s[k] # t[k]}
  IN  IF differ = {} THEN 0 ELSE IF s[Min(differ)] < t[Min(differ)] THEN -1 ELSE 1

\* Mutant: both chunks are taken to end together.
KeycmpRefillBoth(c) ==
  LET r1 == ReadKey(c.it1, c.it1.keylen)
      r2 == ReadKey(c.it2, c.it2.keylen)
  IN  [c EXCEPT !.it1 = r1.it, !.first = r1.units, !.it2 = r2.it, !.second = r2.units]

\* The next chunk of a key whose chunk is used up.
KeycmpRefill(c) ==
  LET r1 == IF c.first = << >> THEN ReadKey(c.it1, c.it1.keylen)
            ELSE [it |-> c.it1, units |-> c.first]
      r2 == IF c.second = << >> THEN ReadKey(c.it2, c.it2.keylen)
            ELSE [it |-> c.it2, units |-> c.second]
  IN  [c EXCEPT !.it1 = r1.it, !.first = r1.units, !.it2 = r2.it, !.second = r2.units]

\* One iteration: compare the part that both chunks have.
KeycmpStep(c) ==
  LET n == Min({Len(c.first), Len(c.second)})
      v == Memcmp(Bytes(c.first), Bytes(c.second))
  IN  IF c.done THEN c
      ELSE IF n = 0 THEN [c EXCEPT !.done = TRUE,
                                   !.res = IF c.second # << >> THEN -1
                                           ELSE IF c.first # << >> THEN 1 ELSE 0]
      ELSE IF v # 0 THEN [c EXCEPT !.done = TRUE, !.res = v]
      ELSE KeycmpRefill([c EXCEPT !.first = SubSeq(@, n + 1, Len(@)),
                                  !.second = SubSeq(@, n + 1, Len(@))])

LogiterKeycmp(it1, it2) ==
  Repeat(KeycmpStep,
         KeycmpRefill([it1 |-> it1, it2 |-> it2, first |-> << >>, second |-> << >>,
                       done |-> FALSE, res |-> 0]),
         it1.keylen + it2.keylen + 1)

(***************************************************************************)
(* Opening the log and indexing it as sparkey_hash_write does: an address  *)
(* is the position of a block and the number of an entry in it.            *)
(***************************************************************************)
IntLog2(x) == CHOOSE n \in 0 .. x : 2^n > x /\ (n = 0 \/ 2^(n - 1) <= x)
EntryBlockBits == IntLog2(w.headerMax)
Address(position, count) == position * 2^EntryBlockBits + count

LIInit ==
  /\ phase = "write"
  /\ \E c \in Compressions :
       w = [compressed |-> c, file |-> << >>, blockBuf |-> << >>, entryCount |-> 0,
            flushed |-> FALSE, maxEntriesPerBlock |-> 0,
            headerMax |-> 0]  \* max_entries_per_block of the first load
  /\ entries = << >> /\ index = << >>
  /\ iter = NewIter /\ at = 0 /\ chunk = << >> /\ fresh = FALSE

\* sparkey_logwriter_close, or the last flush that the second load sees, and
\* sparkey_logreader_open.
CloseWriter ==
  /\ phase = "write" /\ entries # << >>
  /\ Flushes
  /\ phase' = "scan"
  /\ UNCHANGED <<entries, index, iterVars>>

\* sparkey_iter_hash: one chunk, then fill_key for the rest of the key.
IterHash(it) ==
  LET c == ReadKey(it, it.keylen)
  IN  IF Len(c.units) = it.keylen THEN c.it
      ELSE FillUp("key", c.it, it.keylen - Len(c.units)).it

\* The loop of sparkey_hash_write: block_position and entry_count are read
\* after next; sparkey_iter_hash then consumes the key.
ScanEntry ==
  /\ phase = "scan" /\ NextEntry(iter).state = "active"
  /\ LET it == NextEntry(iter)
     IN  /\ index' = Append(index, Address(it.blockPosition, it.entryCount))
         /\ iter' = IterHash(it)
  /\ UNCHANGED <<phase, w, entries, at, chunk, fresh>>

\* What hash_put, hash_delete and sparkey_hash_get do with the address of
\* entry i: seek to the block, skip the entries before, next.
LookupWith(it, i) ==
  Repeat(NextEntry, SeekTo(it, index[i] \div 2^EntryBlockBits),
         (index[i] % 2^EntryBlockBits) + 1)
Lookup(i) == LookupWith(iter, i)

\* hash_put and hash_delete find an entry i of the same hash in the table
\* and compare its key with that of the entry scanned last.
ScanCompares(i) ==
  /\ phase = "scan" /\ i < Len(index) /\ entries[i].type = "put"
  /\ LET raIter == LookupWith(NewIter, i)
     IN  /\ iter.keylen = raIter.keylen
         /\ iter' = LogiterKeycmp(ResetIter(iter), raIter).it1
  /\ UNCHANGED <<phase, w, entries, index, at, chunk, fresh>>

ScanEnds ==
  /\ phase = "scan" /\ NextEntry(iter).state = "closed"
  /\ phase' = "read"
  /\ iter' = NewIter
  /\ UNCHANGED <<w, entries, index, at, chunk, fresh>>

(***************************************************************************)
(* The calls of a program that has the log open.                           *)
(***************************************************************************)
Passed(n) == Min({n, Len(entries) + 1})

\* sparkey_logiter_next, and sparkey_logiter_skip with a count of n - 1
\* before it.  A lookup that missed leaves the iterator INVALID somewhere in
\* an entry; next takes it from there.
Next(n) ==
  /\ phase = "read" /\ (iter.state # "invalid" \/ NextAfterMiss)
  /\ iter' = Repeat(NextEntry, iter, n)
  /\ at' = Passed(at + n) /\ chunk' = << >> /\ fresh' = (iter'.state = "active")
  /\ UNCHANGED <<phase, w, entries, index>>

\* A reading call: keychunk, valuechunk, fill_key or fill_value.
Reads(r) ==
  /\ phase = "read" /\ iter.state = "active"
  /\ iter' = r.it /\ chunk' = r.units /\ fresh' = FALSE
  /\ UNCHANGED <<phase, w, entries, index, at>>

KeyChunk(m) == Reads(ReadKey(iter, m))
ValueChunk(m) == Reads(ReadValue(iter, m))
FillKey(m) == Reads(FillUp("key", iter, m))
FillValue(m) == Reads(FillUp("value", iter, m))

Reset ==
  /\ phase = "read" /\ iter.state = "active"
  /\ iter' = ResetIter(iter) /\ chunk' = << >> /\ fresh' = FALSE
  /\ UNCHANGED <<phase, w, entries, index, at>>

\* sparkey_logiter_keycmp with another iterator that has reached entry i;
\* nothing has been read of either entry, as the call demands.
Clean(it) == it.keyRemaining = it.keylen /\ it.valueRemaining = it.valuelen
Keycmp(i) ==
  /\ phase = "read" /\ iter.state = "active" /\ Clean(iter)
  /\ iter' = LogiterKeycmp(iter, LookupWith(NewIter, i)).it1
  /\ chunk' = << >> /\ fresh' = FALSE
  /\ UNCHANGED <<phase, w, entries, index, at>>

\* sparkey_logiter_seek to a block that starts with an entry, or to the end.
Seek(i) ==
  /\ phase = "read"
  /\ LET position == IF i > Len(entries) THEN DataEnd ELSE index[i] \div 2^EntryBlockBits
     IN  /\ i <= Len(entries) => BlockAt(position)[1] = <<i, 1>>
         /\ iter' = SeekTo(iter, position)
  /\ at' = IF i > Len(entries) THEN i ELSE i - 1
  /\ chunk' = << >> /\ fresh' = FALSE
  /\ UNCHANGED <<phase, w, entries, index>>

\* sparkey_hash_get finds entry i: its key was compared to the end.
HashGetFound(i) ==
  /\ phase = "read" /\ entries[i].type = "put"
  /\ iter' = FillUp("key", Lookup(i), Lookup(i).keylen).it
  /\ at' = i /\ chunk' = << >> /\ fresh' = FALSE
  /\ UNCHANGED <<phase, w, entries, index>>

\* sparkey_hash_get misses, after it compared n chunks with the key of an
\* entry i of the same hash.
HashGetCollides(i, n) ==
  /\ phase = "read" /\ entries[i].type = "put"
  /\ LET it == Repeat(LAMBDA j : ReadKey(j, j.keylen).it, Lookup(i), n)
     IN  iter' = [it EXCEPT !.state = "invalid"]
  /\ at' = i /\ chunk' = << >> /\ fresh' = FALSE
  /\ UNCHANGED <<phase, w, entries, index>>

\* sparkey_hash_get misses at an empty slot or by displacement.
HashGetMisses ==
  /\ phase = "read"
  /\ iter' = [iter EXCEPT !.state = "invalid"]
  /\ chunk' = << >> /\ fresh' = FALSE
  /\ UNCHANGED <<phase, w, entries, index, at>>

LINext == \/ \E s \in Shapes : Add(s)
          \/ FlushBlock \/ CloseWriter \/ ScanEnds
          \/ ScanEntry \/ \E i \in DOMAIN entries : ScanCompares(i)
          \/ \E n \in 1 .. 2 : Next(n)
          \/ \E m \in ChunkLens : KeyChunk(m) \/ ValueChunk(m) \/ FillKey(m) \/ FillValue(m)
          \/ Reset \/ \E i \in DOMAIN entries : Keycmp(i)
          \/ \E i \in 1 .. Len(entries) + 1 : Seek(i)
          \/ \E i \in DOMAIN entries : HashGetFound(i) \/ \E n \in 0 .. 1 : HashGetCollides(i, n)
          \/ HashGetMisses

LISpec == LIInit /\ [][LINext]_liVars

-----------------------------------------------------------------------------
(***************************************************************************)
(* Properties.                                                             *)
(***************************************************************************)

\* The types of the variables: blocks fit the decompression buffer, and
\* block_offset stays inside its block.
LITypeOK ==
  /\ phase \in {"write", "scan", "read"}
  /\ Len(w.blockBuf) <= BlockSize
  /\ w.compressed => \A b \in ToSet(w.file) : Len(b) \in 1 .. BlockSize
  /\ iter.state \in {"new", "active", "closed", "invalid"}
  /\ iter.blockPosition \in 0 .. Len(w.file)
  /\ iter.blockOffset \in 0 .. Len(Block(iter))
  /\ iter.keyRemaining \in 0 .. iter.keylen
  /\ at \in 0 .. Len(entries) + 1

\* log_add: the lengths of an entry are in one block (read_vlq never leaves
\* it), and a block that starts inside an entry holds nothing but this entry,
\* so that the entries of a block can be counted from its start.
BlocksParse ==
  w.compressed =>
    \A b \in ToSet(w.file) \cup ({w.blockBuf} \ {<< >>}) :
      /\ \A k \in DOMAIN b : b[k][2] = 1 => k < Len(b) /\ b[k + 1] = <<b[k][1], 2>>
      /\ b[1][2] # 1 => \A k \in DOMAIN b : b[k][1] = b[1][1]

\* sparkey_logiter_next and sparkey_hash_get, after any mix of partial reads,
\* resets, seeks and lookups: the iterator is on the entry it was sent to, or
\* closed when there is none.  sparkey.h: "iter->state will be
\* SPARKEY_ITER_ACTIVE if it successfully reached the next entry."  It needs
\* ~NextAfterMiss.
NextReaches ==
  phase = "read" =>
    /\ iter.state = "active" => /\ at \in DOMAIN entries
                                /\ iter.type = entries[at].type
                                /\ iter.keylen = entries[at].klen
                                /\ iter.valuelen = entries[at].vlen
                                /\ BlockAt(iter.entryBlockPosition)[iter.entryBlockOffset]
                                     = <<at, Prelude>>
    /\ iter.state = "closed" => at = Len(entries) + 1

Consumed == iter.keylen - iter.keyRemaining + iter.valuelen - iter.valueRemaining

\* keychunk, valuechunk, fill_key and fill_value: what they deliver are the
\* units of the entry that end where the iterator now stands.
ChunkExact ==
  phase = "read" /\ iter.state = "active" =>
    chunk = SubSeq(EntryUnits(entries[at]), Prelude + Consumed - Len(chunk) + 1,
                   Prelude + Consumed)

\* What has not been read of the entry can still be read, all of it and
\* nothing else, across the blocks it spans.
RestReadable ==
  phase = "read" /\ iter.state = "active" =>
    LET key == FillUp("key", iter, iter.keylen + 1)
    IN  key.units \o FillUp("value", key.it, iter.valuelen + 1).units
          = SubSeq(EntryUnits(entries[at]), Prelude + Consumed + 1,
                   Prelude + iter.keylen + iter.valuelen)

\* Wherever the blocks cut the two keys, sparkey_logiter_keycmp orders them
\* byte by byte, a key before those it is a prefix of: hash_put and
\* hash_delete rely on its 0 for equal keys.
KeycmpExact ==
  phase = "read" /\ iter.state = "active" /\ Clean(iter) =>
    \A i \in DOMAIN entries :
      LET mine == entries[at].key
          other == entries[i].key
          v == Memcmp(mine, other)
      IN  LogiterKeycmp(iter, LookupWith(NewIter, i)).res
            = IF v # 0 \/ Len(mine) = Len(other) THEN v
              ELSE IF Len(mine) < Len(other) THEN -1 ELSE 1

\* Every address that sparkey_hash_write stores names the block of its entry
\* and how many entries begin before it in that block: the number never
\* needs more bits than entry_block_bits.  It needs ~StaleHeaders.
AddressesDecode ==
  \A i \in DOMAIN index :
    LET p == index[i] \div 2^EntryBlockBits
        n == index[i] % 2^EntryBlockBits
        starts == {k \in DOMAIN BlockAt(p) : BlockAt(p)[k][2] = 1}
    IN  /\ p \in 1 .. Len(w.file)
        /\ \E k \in starts : /\ BlockAt(p)[k][1] = i
                              /\ Cardinality({j \in starts : j < k}) = n

\* sparkey_logiter_hashnext compares the address of the entry that next has
\* reached, by whichever way, with the one sparkey_hash_write stored.
AddressStable ==
  phase = "read" /\ fresh /\ iter.state = "active" =>
    Address(iter.entryBlockPosition, iter.entryCount) = index[at]
=============================================================================
