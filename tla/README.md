# Sparkey in TLA+

Sparkey is an append-only log of PUT and DELETE entries (`.spl`) and an
immutable hash index into it (`.spi`). This directory holds TLA+ modules
translated from the C library under `src/src/`, TLC configurations that check
them on small instances, and proofs checked by TLAPS. `PROJECT.json` maps every
definition to the source lines it models.

## 1. The system

| Part | State | Operations | Must hold |
|---|---|---|---|
| Log writer (`logwriter.c`, `buf.c`) | header in memory, file buffer, block buffer, file position | create, append, put, delete, flush, close | what a flush acknowledged survives crashes; data below a published `data_end` never change |
| Log header (`logheader.c`) | fourteen fields at the start of the file | write (one `write` per field), load with checks | a reader between two field writes gets something usable |
| Log reader and iterator (`logreader.c`) | mapped file, position in block, what remains of the entry | next, skip, seek, reset, chunks, fill, keycmp | every mix of calls stays on entry boundaries and delivers the right bytes |
| Hash index (`hashwriter.c`, `hashreader.c`, `hashheader.h`) | slots `[hash, address]` in robin hood order | hash_put, hash_delete, hash_get, hashnext | exactly the live entries; every loop ends |
| Hash writer (`sparkey_hash_write`) | new table, headers loaded from log and old index | one call, incremental if an old index exists | the result is the index of the whole log; the call returns |
| Hash reader (`hashreader.c`) | header, mapped table, a log reader | open, close, get, hashnext | header, table and log belong together |
| Command line tool (`main.c`) | the files it names | info, get, writehash, createlog, appendlog, rewrite | answers come from an index and its own log; an exit code of 0 means that everything was done, another one that what was not done is known; a rewrite keeps the map |

The log writer and the readers share files and nothing else: no locks, no
messages. A reader sees the log up to the `data_end` it loaded; the index is
replaced by unlinking the old file and creating a new one. `sparkey_hash_write`
reads the log through two iterators of the log reader, and hash_get and
hashnext drive the caller's iterator. One process writes at a time (README:60
of the repository); any number reads.

What is hard here: the probe loops of the index rely on an order that puts,
steals and backward shifts must keep between them; the incremental index mixes
counters of two generations; headers are written field by field under readers
and crashes; an iterator crosses compression blocks in the middle of keys and
values, and each caller may stop, reset or look something up anywhere; commands
of the tool replace logs and indexes under the names that others are opening.
`PROJECT.json` lists these hazards with the line where each one bites.

## 2. The modules

### RobinHood
One action per iteration of a probe loop. `ScanPut` and `ScanDelete` are the
scan loop of `sparkey_hash_write` reading an entry; `PutEmpty`, `PutReplace`,
`PutSteal` and `PutWalk` are the ways through the body of `hash_put`;
`DeleteMiss`, `DeleteFound`, `DeleteWalk` and `ShiftBack`/`ShiftEnd` those of
`hash_delete` and its inner loop; `Publish` is `calculate_max_displacement` and
the written header; `Get*` and `Hashnext*`/`Probe*` are the readers' loops.
`slot`, `disp`, `hash`, `pos` and `fresh` are the C locals `slot`,
`displacement`, `hash`, `position` and `might_be_collision`. A log entry is
`[type, key, vlen]` and its address is its index in the log. Which hash function
the random seed selects is chosen in `Init` from `HashFns`, so equal hashes of
different keys and all collisions of slots occur. The table has 1, 3 or 5 slots
in the instances; 1 (one PUT) and 3 (three PUTs) are the ones that fill up.

### Vlq
`write_vlq` and `read_vlq`, byte by byte. Every run that extends the module
checks that two lengths written one after the other are read back, around each
change of their size up to 2^28. `GarbageConserved` compares the sizes that the
hash writer adds up (`unsigned_vlq_size`) with the bytes that `log_add` writes.

### IndexMap, RobinHoodMap
`IndexMap` says what an index is without a table: it absorbs log entries, keeps
the position of the newest PUT of each key, is opened once, and answers lookups
and a walk. `RobinHoodMap` maps the state in the middle of the loops to it: an
entry that hash_put carries after a steal is still in the index, the slot that
hash_delete is about to overwrite is not, an entry that was read and has not
found its place has not been absorbed. `ImplementsMap` is then the refinement.

### HashWriter
Extends RobinHood with the rest of `sparkey_hash_write`, called repeatedly
while the log grows: `CallHashWrite` is the first load of the log header,
`OpenRefused`, `OpenRejects`, `OpenNothingToDo`, `OpenPrepares` and
`OpenAstray` the second load with all decisions up to the allocated table,
`CopyNext`/`CopyDone` are `fill_hash` and `hash_copy`, `ScanNext` the scan loop,
`WriteHashFile` the new file (one step here; its steps are in IndexFile).

The log writer flushes as `write_logheader` does, field by field, between calls
and around the two loads: `WritePuts` is `num_puts`, `WriteEnd` is `data_end`,
which makes the entries visible, and `WriteMax` is `max_entries_per_block`.
`FlushCut` ends a flush at any of these points for good. hash_write so loads any mixture of old
and new fields: `diskPuts` may be ahead of the PUTs below `data_end`, and
`covered`, the entries that `max_entries_per_block` accounts for, behind it. A load
of a header whose counts are ahead may be refused (`LoadMayFail`). What is
appended after the second load is not looked at by the call.

An address is the index of its entry in the log as long as it can be packed
(LogIter has the packing itself). With `TightAddresses`, an entry that the
first load did not cover may need more bits than were reserved for it
(`ScanAstray`). From then on the keys are compared with the wrong entries: the
call fails (`AstrayFails`) or writes a file of unknown entries (`AstrayWrites`),
which is marked `bad`, as is every file it is copied into (`OpenAstray`).
For the properties the file also remembers whether it was written in a race
and whether garbage was counted again. Which return code a call ends with is
only noted in comments. The old index always belongs to this log (equal
`file_identifier`; Tool has logs that do not).

### LogFormat, LogWriter
A unit stands for a byte, an entry for `[id, type, klen, vlen]`. `StartAdd`,
`BufAddSpills` and `BufAddFits` are `log_add` with the loop of `buf_add` and the
counters of put and delete; `Flush` writes the buffer and sets `data_end`;
`WriteHeaderField` writes one field in the order of `write_logheader`;
`HeaderWritten` is the return of the flush; `Crash` stops the writing process at
any of these steps. Readers are the headers they loaded. A crash loses memory,
not what `write` was given: the code never calls fsync and promises nothing for
a crash of the machine.

`SpillFails`, `FlushFails` and `HeaderFails` are writes that return an error
after a part of their bytes, or none, is in the file. The program may drop the
writer (`Abandon`) or close it all the same, as `appendlog` does (`CloseFailed`):
`buf_flushfile` has not reset the buffer, so it is written again behind the
part, and after a failed header write the file position inside the header is
published as `data_end`. The properties say what survives in each case.

### LogIter
The compressed block layout (`LogAdd`, `CompressedAdd`, `FlushCompressed`) and
the iterator as a record with the fields of `sparkey_logiter`. A log is
written, scanned once as `sparkey_hash_write` does, which yields the address of
each entry, and then read through one iterator by a program that calls next,
skip, keychunk, valuechunk, fill_key, fill_value, reset, seek and hash_get in
any order. Positions count blocks (compressed) or units (uncompressed).
Copying loops that work in pieces are folds over units; they stop at the same
places. The compressors are taken to be lossless. `LogiterKeycmp` compares the
keys of two iterators chunk by chunk; `ScanCompares` is its use in hash_put and
hash_delete on the iterator that scans. With `StaleHeaders` the header that
hash_write takes its bits from may be older than the last blocks: loaded before
a flush whose blocks it scans, or within one that has written `data_end` and not yet
`max_entries_per_block`. With `NextAfterMiss` the program also calls next when a
lookup has left the iterator INVALID; without it, it seeks first.

### IndexFile
The hash file as a name and the files it has referred to. The steps of
`sparkey_hash_write` are its decision about the old file (`WriteNothingToDo`,
`WriteBuilds`, `WriteStuck`), `WriteRemoves`, `WriteCreates`, and the writes of
header and table; those of `sparkey_hash_open` are the header load, the log
header with the check against it, the second open by name, and stat with mmap.
A file is how much of its header and table has been written, what its header says
of the log (`dataEnd`, and `lens` for `max_key_len` and `max_value_len`, which a
flush writes later, `LensGrow`), and whether that header passes the checks of
`hashheader_version0` (`consistent`). It does unless the log grew between the two
loads of the call that wrote it, or of one whose table it goes back to (`raced`);
that this is the only exception is `FileLoadable` of HashWriter. What else is in the
table is the business of RobinHood and HashWriter. If stat finds no file, the size it
leaves uninitialized may pass the check or not. `Crash` stops hash_write anywhere,
as does a system call that fails.

### Tool
Processes that run the commands of `main.c` on pairs of a log and an index, at
the same time. A log file is its sequence of entries, and its number stands for
the random `file_identifier`; a name refers to one of them or to none. An action
is what a process does between two looks at the files: `CreateRemoves` and
`CreateWrites` are `sparkey_logwriter_create`, `HashLoads` to `HashWrites` are
`sparkey_hash_write`, `OpenIndex` to `OpenMaps` are `sparkey_hash_open`, which
opens log and index by name twice each. Appending to a log, writing an index
file and indexing a log are one step each here and the subject of LogWriter,
IndexFile and HashWriter. `AppendLine`, `AppendBadLine`, `AppendStops` and
`AppendReadsJunk` are the ways through `append` and `read_line`, among them the
line that outgrows the buffer and the byte that was never written. As README:60
of the repository demands, one process at a time writes a log or an index
(`LogBusy`, `IndexBusy`).

`Kill` ends a process anywhere, and so does a read or write that fails under an
assert (`Fails`, exit code 1); an index that was partly written then cannot be
opened (IndexFile) and counts as none. A put of `appendlog` that fails
(`AppendPutFails`) ends its loop, the writer is closed all the same, and the log
may be `damaged` by a part of the entry. The close may fail before or after
`data_end` is written (`AppendCloseFails`, `RewriteCloseFails`). A command that
reads a damaged log, or a log or index that was replaced between two of its
opens (`Mixed`), reads what need not be entries (`Garbled`): its asserts may end
it with 1 at every entry it reads.

The `MC*` modules give the constants their values. Definitions marked *Mutant*
are wrong variants of the definition below them; with one of them in place of
the original TLC reports the property named in `PROJECT.json`.

## 3. What TLC checks

| Run | Shows |
|---|---|
| `index` | robin hood order, exact index, room for every put, loadable header, exact hash_get and hashnext, and the refinement of IndexMap: all logs of at most 4 PUTs and 1 DELETE over 3 keys, all 27 hash assignments to {0, 2, 5} |
| `index_returns` | every call returns; garbage_size plus the bytes of the live entries is the log, with values of 1 and 200 bytes (one and two length bytes) and keys of 127 bytes (whose length takes one byte in a DELETE and two in a PUT) |
| `hash_write` | incremental index and garbage exact after any number of calls on a log that is flushed field by field, with a flush that is cut off and with tight addresses; a file whose addresses are right covers its `data_end` even after a race; every file that was not written in a race can be loaded; the automatic hash size switches to 8; `HashPutRoom` and `HashWriteReturns`: a put finds an empty slot and the call returns, with the exceptions that the properties name (the log raced the call, the old index counted PUTs ahead of its `data_end`; for `HashPutRoom` also a changed hash size, for `HashWriteReturns` a wrong address) |
| `hash_write_resize` | *violation*: another hash size, endless loop |
| `hash_write_ahead` | *violation*: an index built between the writes of `num_puts` and `data_end`; the next call loops |
| `log_writer` | whole entries below `data_end` at every instant, durability, stable readers, counts never below the data; up to 2 crashes or failing writes |
| `log_open_window` | *violation*: a log that cannot be opened during a flush |
| `log_iter` | addresses, chunks, resets, lookups and key comparisons exact across blocks, and for uncompressed logs, when the header is that of the blocks and the program seeks after a miss |
| `log_iter_torn` | *violation*: addresses with too few bits, from a header that is older than the blocks |
| `index_file` | readers that open the index while it is replaced or left half-written: mapped tables whole and unchanged, HASH_HEADER_CORRUPT only for an index that goes back to a race, a successful call leaves a whole index |
| `index_file_mixed` | *violation*: the header of one file with the table of another |
| `tool` | an index only claims a log it was built from; a get that exits with 0 or 2 answered from it; an appendlog that exits with 0 has added its lines, if none was too long, and one that exits with 1 a prefix of them; a rewrite that exits with 0 has kept the live values, and one that exits with 1 has not touched its output or left one that cannot be opened. All this with one kill or failing read or write, and not for logs that a failed put damaged |

Bounds. Three keys and four PUTs reach tables with a replaced, a stolen and a
shifted slot that wrap around the end; a DELETE between them exercises every
exit of the shift loop. A file buffer of 4 units is smaller than most entries,
so writes end inside entries. Blocks of 5 units with entries of 2, 3, 5 and 10
units are shared, filled exactly and spanned up to three times. The window of
`log_open_window` is shown at the real header size of 84 bytes. Three hash files of one or two slots
and two header pieces let a reader meet an old, a half-written and a new file in
one open. `hash_write` uses one hash function, under which its two keys
collide: its question is the log's growth, not collisions. Two PUTs, a DELETE and one
cut are enough for an old index, a flush that is loaded in part, and a call after
that; its safety properties are proved for all bounds. Three commands of two processes are enough for a get
during a createlog and an appendlog, or a rewrite during a createlog of its input; three
log files let both happen to one name; one line per appendlog gives a new log as many
entries as the short initial one, which is what the file identifiers are for.
One reader is enough in the `index_file` runs: readers change nothing that
hash_write or another reader sees, and each property speaks of one of them.
Symmetry is used where no liveness is checked: over the processes and the
names in `tool`, and over the keys in `index`, whose hash functions are closed under it.
In `hash_write`, which does check liveness, the interchangeable keys are told apart by a
constraint instead: the first entry of the log has the first key.

Fairness. `FairSpec` and `HWFairSpec` assume weak fairness of the steps of a
call that is under way: the loops are sequential code that never waits for
anyone. Nothing is assumed about callers. Deadlock is not checked in the index,
hash writer, log writer and tool runs, where a program may be done with its bounded
log or number of commands (or, in the log writer, may have closed a log after an
error, to which nobody appends); it is in the others.

### Findings
1. `hash_write_resize`. `sparkey_hash_write` with another hash size than the old index: the capacity
   counts the old index's live entries but the whole log is scanned, so keys put
   and deleted before it was built need slots that are not there, and `hash_put` never
   ends. When the automatic size changes from 4 to 8 the table is large, but the
   garbage of the old header is counted a second time.
2. `hash_write_ahead`. Both loads of a hash_write fall between a flush's writes of
   `num_puts` and `data_end`: the index counts PUTs it has not seen. The next call
   subtracts them from its capacity and then scans them, and `hash_put` never ends.
3. `log_open_window`. The header is written field by field with `num_puts` before `data_end`; the
   check `num_puts > data_end` refuses a log in between (after a crash, until it
   is created anew).
4. `log_iter_torn`. `max_entries_per_block` is the last field that a flush writes, after
   `data_end`; a hash_write that loads the header between the two (or after a
   writer died there, or before a flush that its second load then lets it scan) packs
   addresses with too few bits for the entry number.
5. `index_file_mixed`. `sparkey_hash_open` opens the index by name twice; a hash_write in between
   gives it the header of one file and the table of another.

Things the models show without a run of their own, most of them as an exception in a
property:
* The log grows between the two loads of a hash_write: `num_puts` is of the first, the
  entries are of the second. The call returns SUCCESS, and if `num_entries` exceeds
  `num_puts` the file is HASH_HEADER_CORRUPT for every reader (`raced` in
  `FileLoadable` and `NoFalseCorrupt`). The table may also fill up (`Raced` in `HashPutRoom`).
* `sparkey_logiter_next` on an iterator that `sparkey_hash_get` left INVALID takes bytes
  inside an entry for lengths and reports an ACTIVE entry (`NextReaches` fails with
  `NextAfterMiss`).
* `rewrite` puts every entry of the log again: nothing is trimmed, although its usage
  text says so, and DELETE entries become PUTs with an empty value
  (`RewriteKeepsLive` demands nothing of keys that are not live).
* A line of 2^28 bytes ends `appendlog` with 0 before the rest of its input (`long` in
  `AppendExact`).

`max_key_len` ignores the keys of
DELETEs. `sparkey_logreader_open` also opens by name twice; `Mixed` exempts a
command that a replaced log caught there. A put that fails in `appendlog` may leave
part of an entry in the log (`damaged`), since the writer is closed all the same.
`rewrite -c snappy` of an uncompressed log
fails without `-b`, because the block size it inherits is 0; it has not touched
the output by then (`RewriteFailsClean`).

A hash_write that is cut off after it wrote the header leaves a short table
under the name. hash_open refuses it (HASH_TOO_SMALL), unless the file is replaced
between its open and its stat; a later hash_write with the same hash size
reports success without repairing it if the log has not grown, and otherwise
loops in `read_fully`, which does not end at the end of a file (`WriteStuck`).

## 4. What is proved

TLAPS proves every theorem below for all values of the constants: no number of
keys, processes, readers, entries, commands, crashes or faults is bounded other
than by the assumptions named. Each theorem about a property rests on an inductive
invariant (`IndInv`, `MapInv`, `HWInv`, `IFInv`, `LWInv`, `WriterInv`, `IterInv`, `ToolInv`)
that TLC first checked on the instance of the run or a smaller one, and each proof
has one lemma per action.

| Module | Theorems |
|---|---|
| `RobinHoodProofs` | `TypeCorrect`, `OrderCorrect`, `PointersCorrect`, `RoomCorrect` |
| `RobinHoodMapProofs` | `IndexCorrect`, `GetCorrect`, `HashnextCorrect`, `HeaderCorrect`, `GarbageCorrect`, and `Refinement`: the table implements IndexMap |
| `HashWriterProofs` | `HWTypeCorrect`, `FileExactCorrect`, `FileCoversCorrect`, `FileLoadableCorrect`, `FileGarbageCorrect`, `HashPutRoomCorrect` |
| `IndexFileProofs` | `IFTypeCorrect`, `MappedCorrect`, `CorruptCorrect`, `SuccessCorrect`, `UndisturbedCorrect` |
| `LogWriterProofs`, `LogFormatProofs` | `LWTypeCorrect`, `CommittedCorrect`, `FlushedCorrect`, `CountsCorrect`, `ReaderCorrect` |
| `LogIterProofs` | `BlocksParseCorrect`, and, for headers that account for the blocks (`~StaleHeaders`) and programs that seek after a miss (`~NextAfterMiss`), `LITypeCorrect`, `NextReachesCorrect`, `ChunkExactCorrect`, `RestReadableCorrect`, `AddressStableCorrect`, `AddressesDecodeCorrect`, `KeycmpExactCorrect` |
| `ToolProofs` | `ToolTypeCorrect`, `IndexHonestCorrect`, `GetAnswersCorrect`, `AppendExactCorrect`, `RewriteCorrect`, `RewriteFailsCorrect` |

**The table.** `RobinHoodOrder` alone is not inductive. `IndInv` adds
* `CarriedFits`: every slot between the home of the entry that hash_put carries
  and the current slot is taken by an entry at least as far from home as the
  probe was there, which makes the next steal or empty slot a legal place;
* `HoleInv`: in the shift loop the current slot is taken, so that overwriting it
  by its successor, or clearing it, keeps the order (`ShiftKeepsOrder`,
  `ClearKeepsOrder`);
* `CountInv`: the taken slots never exceed the PUTs scanned, less one while
  hash_put runs; the PUTs never exceed the `num_puts` of the header and the
  capacity is at least that.

The order is stated with `Dist`, the number of steps round the ring; the
arithmetic of `%` is confined to a few lemmas on the ring.

**The index.** `MapInv` adds to `IndInv` what the loops know: `ProbeInv`, that
what a probe looks for is in no slot it has passed, and `IndexInv`, that the table
together with the entry in flight and without the moving hole points once at every
live entry of the log. With the order, `ProbeMayStop` turns this into the soundness of
the early exit: at an empty slot, or one whose entry is nearer home, the key is
nowhere. The exactness of the index, of `hash_get` and of `hashnext` follow, and the
refinement: the step that completes an operation is the operation of IndexMap,
every other iteration a stutter.

`GarbageCorrect` is about sums: `MapThenSumSet`, a fold over a set of entries (`Total`, `SizeOf`); that adding
or removing one element adds or subtracts its size is proved from the definition of
the fold, and then every way through hash_put and hash_delete moves the size of one
entry between the garbage and the live entries. That the sizes which the hash writer
adds up are the bytes which `log_add` writes is a lemma on `WriteVlq`, unfolded once for
each size up to 2^28.

**The hash writer.** HashWriter uses the loops of RobinHood on a table that was not
dimensioned for all that is put into it, so `IndInv` does not hold there: after a race of the
log, or when the old table is dropped for another hash size, the table may fill up. What
the loops themselves need is therefore split off as `LoopInv` and `LoopMapInv`, and
their lemmas are proved from these and used twice. `HWInv` says that the counts on
disk are never behind the data and what a flush has still to write (`DiskInv`), what the file says of the log: its header (`FileHeader`) and,
if its addresses are right, its table (`FileOK`, together `FileInv`), what the call knows from its two header loads (`HeadersInv`), and
what the new table holds: the slots copied so far, then the copied index with the
scanned entries merged into it (`ContentInv`, `Merged`). After a race, entries that the old
index has already seen are merged again; `MergedLive` says that this does not change
which entries are live. (It speaks of addresses that lead to their entries. With
`TightAddresses` a race may give others; such a file is `bad`, of which only the
header is known.) The last disjunct of
`HWInv` is `Stuck`, a hash_put that goes round a full table for ever; it writes no
file, so the properties of the file survive it. `SizesInv` carries the garbage from file
to file, and `RoomInv` shows, from a count of the PUTs that are still to be scanned
(`ScanCount`), that `Stuck` is reached only in the three cases that `HashPutRoom` names: after a race,
with a dropped table, or from an old header that is `Ahead`. The findings
`hash_write_resize` and `hash_write_ahead` show that the last two do happen.

**The hash file.** `IFInv` says which files are whole: all but the one that is
being written, as long as no call was cut off; that nothing is written into a file
that existed when the call began; that no file says more of the log than the log's header
on disk, and one that is not `raced` is consistent; and that a reader's header is that of a file whose
header was complete. That a file once complete is never written again makes the
readers' mappings stable.

**The log.** `LWInv` relates four things that are never equal at the same time: the
entries accepted by put and delete, the file up to the writer's position, the file
buffer with the rest of an entry that does not fit, and the header on disk. Its
core is `CommitInv`: the `data_end` on disk is the end of an entry at or behind the
last acknowledged one, and the file below it has the units of the entries. Crashes keep
it because they take away only the buffer, failing writes because the header
is written after the data. `LogFormatProofs` has the facts about the units of a sequence of
entries, which are defined by a fold; they are proved by induction over the number of
entries with `SetInduction`, which states induction for a set instead of
a predicate and gets it from the well-foundedness of `<`.

**The layout and the iterator.** `WriterInv` describes the blocks by their units: a block is a
`Chain`, in which each unit is followed by its successor in the log, the first unit of a block
is the successor of the last unit of the block before it, no block ends between the two
lengths of an entry, and a block that begins inside an entry holds nothing else. `BlocksParse` follows, and everything about reading
speaks of chains, for compressed and uncompressed logs alike.

`IterInv` says where the iterator is. On an entry (`IterOK`) its block and offset are
those of the unit that its remaining counters name (`NextUnit`), or the end of the block before it;
`AtHome` says that no read has left the block in which the entry starts, where
`entry_count` is right, and `Away` that the entry spans blocks and the iterator is in one
of them, with the recorded block and offset for a reset to go back to. skip,
fill_key and fill_value are folds of single moves over units, handled by one lemma about
folds (`IsFold`, `FoldExists`), and what they deliver is a `Run` of consecutive units of the
entry. The loop of keycmp has an invariant of its own (`CmpAt`): the parts that were compared
are equal and the two chunks in hand start at the same offset of the two keys. An address is
a block and an entry number below `2^EntryBlockBits` (`AddressOK`); `DivMod` takes it apart, and
the number of entries that start before a unit of a chain (`ChainStarts`) ties it to
the block. All of this but `BlocksParse` is proved for headers that account for all the blocks that are
scanned: a header that was loaded before or within the last flush may have too few bits, which is what
`log_iter_torn` shows, and what HashWriter calls going astray. `~NextAfterMiss` is needed because
next reads on wherever a lookup that missed has left the iterator.

**The tool.** `ToolInv` says of every process what is true at its place in the
command. Three facts carry it. Logs only grow and identifiers are never used
again, so what an index or a header says of a log stays true (`HonestGrows`,
`LoadedGrows`, `CopiesGrow`). A name gets an old log back never, so a process that
compares identifiers compares logs. And a pair has one writer (`Apart`), so
`appendlog` and `rewrite` find their output as they left it (`OthersKeep`); this is
what the documentation demands of callers, and the model's start actions assume. A fault ends a
process at one of these places, so that it needs no invariant of its own, but what a failed rewrite leaves
behind does: while it runs, no index carries the identifier of its new log before the last step.

`HWTypeOK` and, with `~StaleHeaders` and `~NextAfterMiss`, `AddressesDecode` are proved and not properties of a passing
run; TLC checked both on the instances of `hash_write` and `log_iter` before.

Assumptions. `KeyAssumption`, `BoundAssumption`, `HashWriterAssumption`, `ShapeAssumption`,
`SizeAssumption`, `LayoutAssumption`, `IndexFileAssumption` and `ToolAssumption` say that bounds are
natural numbers and that sets of parameters have the right elements; `MaxFiles` is
positive because the initial state has a log, and a block has room for the lengths of an
entry, as the code demands of its block size (at least 10 bytes). `LengthAssumption` keeps lengths below 2^28, where `VlqSize`
stops. `PowersOfTwo` (in Vlq and in LogIter) are facts of arithmetic that the prover does not
have. TLC evaluates all of them.

Only model-checked:
* All liveness (`CallsReturn`, `HashWriteReturns`), which is out of the
  prover's reach. `RoomCorrect` and `HashPutRoomCorrect` prove the fact on which
  termination rests, that an empty slot is left.
* That `ReadVlq` reads back what `WriteVlq` writes (`VlqRoundTrip`): induction over
  data.
* The runs that expect a violation, which are counterexamples already.

## 5. Plan

1. Done: RobinHood with its first proofs, HashWriter, LogWriter, LogIter, IndexFile.
2. Done: IndexMap and the refinement; failing writes; torn and stale headers, in LogIter
   and under hash_write; key comparison; VLQ coding; the command line tool and its failures.
3. Done: the proofs of all safety properties of RobinHood, of the refinement, of IndexFile,
   LogWriter and Tool.
4. Done: the proofs of all safety properties of HashWriter and LogIter.

Left: the proofs of LogIter for stale headers, where `IterInv` would have to say which addresses
are still right, and HashWriter on top of LogIter's addresses instead of `ScanAstray`; liveness by hand-written ranking arguments.

## 6. Not modelled

The compressors and the arithmetic of MurmurHash3 are third-party code that the
models take as any lossless coding and any function. The tables of return codes,
the field layout of the headers, byte order, printing and the usage texts have no
state. Allocation failures, a failing mmap and leaked descriptors
(`hashreader.c:107`, `logheader.c:80`) end a call with an error and are not
followed. Retrying put or flush on a writer after an error is left out, as nobody
does it in the repository. What is in a hash file with wrong addresses, and what a
command makes of a damaged log, is left open. Calls on closed readers or with an iterator of another
log are refused by checks that are left out. Tests and the benchmark are clients
of the library.
