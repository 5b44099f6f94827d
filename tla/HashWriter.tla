----------------------------- MODULE HashWriter -----------------------------
(***************************************************************************)
(* sparkey_hash_write as a whole, called again and again while the log     *)
(* grows: the two loads of the log header, the choice between reusing the  *)
(* old hash file and starting afresh, the hash size, the copy of the old   *)
(* table, the scan of the log and the new hash file.                       *)
(*                                                                         *)
(* The module extends RobinHood: hash_put and hash_delete run as the loops *)
(* of that module.  Here log is the log file up to the data_end of the     *)
(* header on disk, iterPos is the position of hash_write's iterator, and   *)
(* header, published and result are not used.  A flush of the log writer   *)
(* writes the fields of that header one after the other, so that           *)
(* hash_write may load any mixture of old and new fields.                  *)
(*                                                                         *)
(* An address is the index of its entry in the log.  In the code it is the *)
(* block position and the number of the entry in its block, packed into    *)
(* entry_block_bits and address_size of the first load; where these may be *)
(* too few for an entry, the index goes astray: see ScanAstray.            *)
(***************************************************************************)
EXTENDS RobinHood

CONSTANTS
  HashSizeArgs,  \* the hash_size arguments that callers pass
  BigCapacity,   \* the capacity from which 8 byte hashes are chosen: 1 << 23
  MaxFlush,      \* bound: entries in a flush of the log writer
  MaxCuts,       \* bound: flushes that the end of the writer cuts off
  TightAddresses \* the log is compressed, or about to exceed 2^32 bytes: an
                 \* entry that the loaded header does not account for may need
                 \* more address bits than hash_write reserves

ASSUME HashWriterAssumption == /\ HashSizeArgs \subseteq Nat /\ BigCapacity \in Nat
                               /\ MaxFlush \in Nat /\ MaxCuts \in Nat
                               /\ TightAddresses \in BOOLEAN

VARIABLES
  hashFile,  \* the hash file, NoFile if there is none
  diskPuts,  \* num_puts in the log header on disk
  covered,   \* the entries that its max_entries_per_block accounts for
  flush,     \* the field a flush writes next, the PUTs it adds, where it starts
  cuts,      \* flushes cut off so far
  phase,     \* where hash_write is
  sizeArg,   \* its hash_size argument
  loadedEnd, \* log_header.data_end: the first load of the log header
  loadedCovered, \* covered at the first load
  logEnd,    \* log->header.data_end: the second load
  hashSize,  \* hash_header.hash_size
  copySlot   \* the slot of the old table that hash_copy is at

callVars == <<phase, sizeArg, loadedEnd, loadedCovered, logEnd, hashSize, copySlot>>
diskVars == <<diskPuts, covered, flush, cuts>>
hwVars == <<vars, hashFile, diskVars, callVars>>

NoFile == [exists |-> FALSE, bad |-> FALSE]
NoFlush == [step |-> "none", puts |-> 0, start |-> 0]
Phases == {"out", "loaded", "copy", "scan", "astray"}

PutsIn(l) == Cardinality({p \in DOMAIN l : l[p].type = "put"})

\* The PUTs among the first n entries of the log.
PutsUpTo(n) == Cardinality({p \in 1 .. n : log[p].type = "put"})

HWInit ==
  /\ Init /\ numPuts = 0
  /\ hashFile = NoFile
  /\ diskPuts = 0 /\ covered = {} /\ flush = NoFlush /\ cuts = 0
  /\ phase = "out" /\ sizeArg = 0 /\ loadedEnd = 0 /\ loadedCovered = {} /\ logEnd = 0
  /\ hashSize = 4 /\ copySlot = 0

(***************************************************************************)
(* The log writer flushes: the data, then the header in the order of       *)
(* write_logheader, of which num_puts, data_end and max_entries_per_block  *)
(* matter here.  It may do so at any time; what it writes after            *)
(* hash_write's second load of the header is not looked at before the next *)
(* call, so that it may as well be written when this one is over.          *)
(***************************************************************************)
FlushUnseen == phase \in {"out", "loaded"}
callUnchanged == <<keyHash, numPuts, capacity, table, numEntries, garbage, probeVars,
                   readVars, hashFile, callVars>>

WritePuts(n) ==
  /\ FlushUnseen /\ flush.step = "none"
  /\ diskPuts + n <= MaxPuts
  /\ diskPuts' = diskPuts + n
  /\ flush' = [step |-> "end", puts |-> n, start |-> Len(log)]
  /\ UNCHANGED <<callUnchanged, log, covered, cuts>>

\* The entries of the flush get below data_end.
WriteEnd(es) ==
  /\ FlushUnseen /\ flush.step = "end"
  /\ PutsIn(log \o es) = PutsIn(log) + flush.puts
  /\ Scanned("delete") + Len(es) - flush.puts <= MaxDeletes
  /\ log' = log \o es
  /\ flush' = [flush EXCEPT !.step = "max"]
  /\ UNCHANGED <<callUnchanged, diskPuts, covered, cuts>>

WriteMax ==
  /\ FlushUnseen /\ flush.step = "max"
  /\ covered' = covered \cup (flush.start + 1 .. Len(log))
  /\ flush' = NoFlush
  /\ UNCHANGED <<callUnchanged, log, diskPuts, cuts>>

\* The writer dies or fails within write_logheader.  The next one takes over
\* the header as it is on disk.
FlushCut ==
  /\ FlushUnseen /\ flush.step # "none" /\ cuts < MaxCuts
  /\ flush' = NoFlush /\ cuts' = cuts + 1
  /\ UNCHANGED <<callUnchanged, log, diskPuts, covered>>

LogGrows == \/ \E n \in 0 .. MaxFlush : WritePuts(n)
            \/ \E n \in 1 .. MaxFlush : \E es \in [1 .. n -> Entry] : WriteEnd(es)
            \/ WriteMax
            \/ FlushCut

\* A header whose counts are ahead of data_end may have more of them than
\* data_end has bytes; loading it then fails with LOG_HEADER_CORRUPT.
LoadMayFail == flush.step = "end" \/ cuts > 0

\* sparkey_hash_write is called and loads the log header.  A call whose first
\* load fails returns at once and is no step here.
CallHashWrite(size) ==
  /\ phase = "out"
  /\ phase' = "loaded" /\ sizeArg' = size
  /\ numPuts' = diskPuts /\ loadedEnd' = Len(log) /\ loadedCovered' = covered
  /\ UNCHANGED <<keyHash, capacity, table, numEntries, garbage, log, probeVars,
                 readVars, hashFile, diskVars, logEnd, hashSize, copySlot>>

(***************************************************************************)
(* What hash_write decides from the headers.                               *)
(***************************************************************************)

\* sparkey_load_hashheader succeeds.  Its other checks compare what
\* calculate_max_displacement computed with num_entries: see HeaderLoadable.
OldLoads == hashFile.exists /\ hashFile.numEntries <= hashFile.numPuts

OldHashSize == IF OldLoads THEN hashFile.hashSize ELSE 0

\* Mutant: the entries of the old index are not counted.
NewCapacityOfNew == IF OldLoads THEN HashCapacity(numPuts - hashFile.numPuts)
                    ELSE HashCapacity(numPuts)

NewCapacity == IF OldLoads
               THEN HashCapacity((numPuts - hashFile.numPuts) + hashFile.numEntries)
               ELSE HashCapacity(numPuts)

AutoHashSize == IF OldHashSize = 8 \/ NewCapacity >= BigCapacity THEN 8 ELSE 4
NewHashSize == IF sizeArg = 0 THEN AutoHashSize ELSE sizeArg

CopyOld == OldLoads /\ NewHashSize = OldHashSize

OldGarbageLost == 0  \* Mutant: garbage_size starts at 0.
OldGarbage == IF OldLoads THEN hashFile.garbage ELSE 0

\* Mutant: num_entries goes on from the old header.
EmptyTableOldCount == /\ table' = [s \in 0 .. NewCapacity - 1 |-> EmptySlot]
                      /\ numEntries' = IF OldLoads THEN hashFile.numEntries ELSE 0
EmptyTable == /\ table' = [s \in 0 .. NewCapacity - 1 |-> EmptySlot]
              /\ numEntries' = 0

ScanStartAtEnd == IF CopyOld THEN loadedEnd ELSE 0  \* Mutant: the new data_end.
ScanStart == IF CopyOld THEN hashFile.dataEnd ELSE 0

\* The call returns and its locals go out of scope.
Leave ==
  /\ phase' = "out"
  /\ numPuts' = 0 /\ capacity' = 1 /\ table' = [s \in {0} |-> EmptySlot]
  /\ numEntries' = 0 /\ garbage' = 0 /\ iterPos' = 0
  /\ sizeArg' = 0 /\ loadedEnd' = 0 /\ loadedCovered' = {} /\ logEnd' = 0
  /\ hashSize' = 4 /\ copySlot' = 0

LeaveUnchanged == <<keyHash, log, probeVars, published, header, result, diskVars>>

\* sparkey_logreader_open loads the log header again, and fails.
OpenRefused ==
  /\ phase = "loaded" /\ LoadMayFail
  /\ Leave  \* LOG_HEADER_CORRUPT
  /\ UNCHANGED <<LeaveUnchanged, hashFile>>

\* sparkey_logreader_open loads the log header again; the hash_size argument
\* is refused.
OpenRejects ==
  /\ phase = "loaded"
  /\ sizeArg \notin {0, 4, 8}
  /\ Leave  \* HASH_SIZE_INVALID
  /\ UNCHANGED <<LeaveUnchanged, hashFile>>

\* The old index is up to date.
OpenNothingToDo ==
  /\ phase = "loaded"
  /\ sizeArg \in {0, 4, 8}
  /\ CopyOld /\ hashFile.dataEnd = Len(log)
  /\ Leave  \* SUCCESS
  /\ UNCHANGED <<LeaveUnchanged, hashFile>>

\* Otherwise an empty table is allocated.  The capacity and the garbage are
\* taken from the old index whenever there is one, copied or not; the
\* iterator is moved to the old data_end only when it is copied.  The hash
\* function stays the same if the old table is copied; a new seed or another
\* hash size give another one.
OpenPrepares ==
  /\ phase = "loaded"
  /\ sizeArg \in {0, 4, 8}
  /\ ~(CopyOld /\ (hashFile.dataEnd = Len(log) \/ hashFile.bad))
  /\ logEnd' = Len(log)
  /\ capacity' = NewCapacity
  /\ hashSize' = NewHashSize
  /\ EmptyTable
  /\ garbage' = OldGarbage
  /\ keyHash' \in IF CopyOld THEN {hashFile.keyHash} ELSE HashFns
  /\ phase' = IF CopyOld THEN "copy" ELSE "scan"
  /\ iterPos' = ScanStart
  /\ copySlot' = 0
  /\ UNCHANGED <<numPuts, log, probeVars, published, header, result, hashFile,
                 diskVars, sizeArg, loadedEnd, loadedCovered>>

\* Addresses that lead astray are copied with the others.
OpenAstray ==
  /\ phase = "loaded"
  /\ sizeArg \in {0, 4, 8}
  /\ CopyOld /\ hashFile.bad /\ hashFile.dataEnd # Len(log)
  /\ phase' = "astray" /\ logEnd' = Len(log) /\ hashSize' = NewHashSize
  /\ UNCHANGED <<vars, hashFile, diskVars, sizeArg, loadedEnd, loadedCovered, copySlot>>

(***************************************************************************)
(* fill_hash and hash_copy: hash_put for every taken slot of the old       *)
(* table, without the comparison of keys.  The addresses are packed again  *)
(* with the new entry_block_bits and address_size: these are never less    *)
(* than the old ones, as max_entries_per_block and data_end only grow, so  *)
(* that an address goes on leading to its entry.                           *)
(***************************************************************************)
CopyNext ==
  /\ phase = "copy" /\ op = "idle" /\ copySlot < hashFile.capacity
  /\ LET old == hashFile.table[copySlot]
     IN  IF old.pos # 0
         THEN StartProbe("put", NoKey, old.hash, old.pos, FALSE)
         ELSE UNCHANGED probeVars
  /\ copySlot' = copySlot + 1
  /\ UNCHANGED <<tableVars, readVars, hashFile, diskVars, phase, sizeArg, loadedEnd,
                 loadedCovered, logEnd, hashSize>>

\* Mutant: the last slot of the old table is not copied.
CopyDoneEarly ==
  /\ phase = "copy" /\ op = "idle" /\ copySlot >= hashFile.capacity - 1
  /\ phase' = "scan"
  /\ UNCHANGED <<tableVars, probeVars, readVars, hashFile, diskVars, sizeArg, loadedEnd,
                 loadedCovered, logEnd, hashSize, copySlot>>

CopyDone ==
  /\ phase = "copy" /\ op = "idle" /\ copySlot = hashFile.capacity
  /\ phase' = "scan"
  /\ UNCHANGED <<tableVars, probeVars, readVars, hashFile, diskVars, sizeArg, loadedEnd,
                 loadedCovered, logEnd, hashSize, copySlot>>

(***************************************************************************)
(* The scan of the log up to the data_end of the second load.              *)
(***************************************************************************)
ScanNext ==
  /\ phase = "scan" /\ op = "idle" /\ iterPos < logEnd
  /\ LET e == log[iterPos + 1]
     IN  \/ /\ e.type = "put"
            /\ StartProbe("put", e.key, keyHash[e.key], iterPos + 1, TRUE)
            /\ UNCHANGED garbage
         \/ /\ e.type = "delete"
            /\ garbage' = garbage + EntrySize(e)
            /\ StartProbe("delete", e.key, keyHash[e.key], 0, TRUE)
  /\ iterPos' = iterPos + 1
  /\ UNCHANGED <<keyHash, numPuts, capacity, table, numEntries, log, published,
                 header, result, hashFile, diskVars, callVars>>

\* The entry's number in its block needs more than entry_block_bits, or its
\* position more than address_size: its address is that of another entry or
\* of none.
ScanAstray ==
  /\ phase = "scan" /\ op = "idle" /\ iterPos < logEnd
  /\ log[iterPos + 1].type = "put"
  /\ TightAddresses /\ iterPos + 1 \notin loadedCovered
  /\ phase' = "astray"
  /\ UNCHANGED <<vars, hashFile, diskVars, sizeArg, loadedEnd, loadedCovered, logEnd,
                 hashSize, copySlot>>

\* The log grew between the two loads of its header.
Raced == loadedEnd # logEnd

\* The garbage of the old header is kept although entries it covers are
\* scanned again: the old index was written in a race and ends before what
\* it indexes, or it was not copied.
CountsAgain ==
  OldLoads /\ (hashFile.raced \/ hashFile.recounted \/ hashSize # OldHashSize)

\* normal_exit: the old file is unlinked and the new one written.  raced and
\* recounted only remember, for the properties, how it came about.
WriteHashFile ==
  /\ phase = "scan" /\ op = "idle" /\ iterPos = logEnd
  /\ hashFile' = [exists |-> TRUE, keyHash |-> keyHash, table |-> table,
                  capacity |-> capacity, numEntries |-> numEntries, garbage |-> garbage,
                  numPuts |-> numPuts, dataEnd |-> loadedEnd, hashSize |-> hashSize,
                  raced |-> Raced, recounted |-> CountsAgain, bad |-> FALSE]
  /\ Leave  \* SUCCESS
  /\ UNCHANGED LeaveUnchanged

(***************************************************************************)
(* From the first address that leads astray on, hash_put and hash_delete   *)
(* compare keys with any entry, or fail at what is none.  Which slots they *)
(* replace or delete is left open; hash_put adds at most one entry for     *)
(* each PUT, so that there are more entries than num_puts only when some   *)
(* PUTs are scanned that it does not count or that are scanned twice.      *)
(* The table and the garbage of such a file are left out.                  *)
(***************************************************************************)
AstrayFails ==
  /\ phase = "astray"
  /\ Leave  \* INTERNAL_ERROR
  /\ UNCHANGED <<LeaveUnchanged, hashFile>>

AstrayRaced == Raced \/ (CopyOld /\ hashFile.raced)

AstrayWrites(n) ==
  /\ phase = "astray"
  /\ n <= numPuts \/ AstrayRaced
  /\ hashFile' = [exists |-> TRUE, numEntries |-> n, garbage |-> 0, numPuts |-> numPuts,
                  dataEnd |-> loadedEnd, hashSize |-> hashSize,
                  raced |-> AstrayRaced, recounted |-> TRUE, bad |-> TRUE]
  /\ Leave  \* SUCCESS
  /\ UNCHANGED LeaveUnchanged

\* One iteration of hash_put, hash_delete or the shift loop.
LoopStep == WriterStep /\ UNCHANGED <<hashFile, diskVars, callVars>>

CallStep == \/ OpenRefused \/ OpenRejects \/ OpenNothingToDo \/ OpenPrepares \/ OpenAstray
            \/ CopyNext \/ CopyDone \/ ScanNext \/ ScanAstray \/ WriteHashFile
            \/ AstrayFails \/ \E n \in 0 .. MaxPuts + 1 : AstrayWrites(n)
            \/ LoopStep

HWNext == \/ LogGrows
          \/ \E size \in HashSizeArgs : CallHashWrite(size)
          \/ CallStep

HWSpec == HWInit /\ [][HWNext]_hwVars

\* A call of hash_write keeps running until it returns.
HWFairSpec == HWSpec /\ WF_hwVars(CallStep)

-----------------------------------------------------------------------------
(***************************************************************************)
(* Properties.                                                             *)
(***************************************************************************)

\* The types of the variables of this module.
HWTypeOK ==
  /\ hashFile.exists \in BOOLEAN
  /\ diskPuts \in Nat /\ cuts \in Nat /\ covered \subseteq 1 .. Len(log)
  /\ flush \in [step : {"none", "end", "max"}, puts : Nat, start : 0 .. Len(log)]
  /\ phase \in Phases /\ sizeArg \in HashSizeArgs \cup {0}
  /\ loadedEnd \in 0 .. Len(log) /\ logEnd \in 0 .. Len(log)
  /\ loadedCovered \subseteq 1 .. loadedEnd
  /\ hashSize \in {4, 8}
  /\ copySlot \in Nat /\ (phase = "copy" => copySlot <= hashFile.capacity)

\* The live entries of the log's first n entries.
LiveUpTo(n) ==
  {p \in 1 .. n : log[p].type = "put" /\ \A q \in p + 1 .. n : log[q].key # log[p].key}

FileSlots == {s \in 0 .. hashFile.capacity - 1 : hashFile.table[s].pos # 0}
IndexOf(n) ==
  /\ {hashFile.table[s].pos : s \in FileSlots} = LiveUpTo(n)
  /\ Cardinality(FileSlots) = Cardinality(LiveUpTo(n))

\* A file whose addresses all lead to their entries.
Sound == hashFile.exists /\ ~(TightAddresses /\ hashFile.bad)

\* However often hash_write was called and however much of the old table it
\* reused, the hash file is the index of the log up to its data_end, and its
\* num_entries is what it has; its num_puts, which a flush writes before
\* data_end, is at least the PUTs of the log up to there.  This is so after
\* every call with the same data_end in both loads of the log header, even if
\* the log grew in the middle of earlier calls.
FileExact ==
  Sound /\ ~hashFile.raced =>
    /\ IndexOf(hashFile.dataEnd)
    /\ hashFile.numPuts >= PutsUpTo(hashFile.dataEnd)
    /\ hashFile.numEntries = Cardinality(FileSlots)

\* Whatever another process appends to the log during hash_write, the file
\* indexes all entries up to its data_end and possibly some that the second
\* load of the log header let the scan see, which the next call merges.  Only
\* the addresses of a log with TightAddresses may be wrong.
FileCovers ==
  Sound => \E n \in hashFile.dataEnd .. Len(log) : IndexOf(n)

\* The garbage_size in the hash file, with the live entries, makes up the
\* log up to data_end, unless entries had to be counted again.
FileGarbage ==
  Sound /\ ~hashFile.raced /\ ~hashFile.recounted =>
    hashFile.garbage + MapThenSumSet(SizeAt, LiveUpTo(hashFile.dataEnd))
      = MapThenSumSet(SizeAt, 1 .. hashFile.dataEnd)

\* A written hash file passes the checks of hashheader_version0 and of
\* sparkey_hash_open against the log: it does not reach beyond the log, and
\* has no more entries than puts unless it was written in a race.
FileLoadable ==
  hashFile.exists => /\ hashFile.raced \/ hashFile.numEntries <= hashFile.numPuts
                     /\ hashFile.dataEnd <= Len(log)

\* The old header counts more PUTs beyond its data_end than the new one: it
\* was loaded between a flush's writes of num_puts and of data_end.
Ahead ==
  OldLoads /\ hashFile.numPuts - PutsUpTo(hashFile.dataEnd)
                > numPuts - PutsUpTo(loadedEnd)

\* hash_put always meets an empty slot, while the old table is copied and
\* while the log is scanned: the capacity, from the num_entries of the old
\* header and the PUTs since then, is enough whatever was replaced, deleted
\* or scanned twice before.  It need not be in three cases: the log header
\* changed between its two loads; the old header is taken for the capacity
\* but the whole log is scanned; the old header counts PUTs that were not
\* below its data_end.
HashPutRoom ==
  op = "put" /\ ~Raced /\ (OldLoads => CopyOld) /\ ~Ahead => Occupied # Slots

\* Every call of sparkey_hash_write returns: hash_put always finds a slot,
\* unless the log header changed between its two loads, when the capacity
\* comes from the first and the entries from the second, or the old header
\* is Ahead.  What happens to a call that met a wrong address is left open.
TightCall == phase = "astray" \/ (phase \in {"copy", "scan"} /\ (Raced \/ Ahead))
HashWriteReturns == phase # "out" ~> (phase = "out" \/ TightCall)

\* Every call returns that loads the same data_end twice and meets no wrong
\* address: sparkey.h:579 says of calling sparkey_hash_write again that "It's
\* safe and efficient to run this multiple times."
RacedCall == phase = "astray" \/ (phase \in {"copy", "scan"} /\ Raced)
AgainReturns == phase # "out" ~> (phase = "out" \/ RacedCall)
=============================================================================
