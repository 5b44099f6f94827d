----------------------------- MODULE LogWriter -----------------------------
(***************************************************************************)
(* The log file between a writer that may crash and readers that open it   *)
(* at any time: logwriter.c, buf.c and the log header of logheader.c, for  *)
(* an uncompressed log.                                                    *)
(*                                                                         *)
(* The file is a header and a sequence of data units (LogFormat).  Offsets *)
(* count data units: 0 is the first byte after the header.  Crashes are    *)
(* crashes of the writing process: what write() was given stays.  (The     *)
(* code never calls fsync and promises nothing about the machine.)         *)
(* A write may also fail, after a part of its bytes or none were written   *)
(* (a full disk, a size limit): the call then returns an error and the     *)
(* program drops the writer, or closes it as the command line tool does.   *)
(***************************************************************************)
EXTENDS LogFormat, FiniteSets, FiniteSetsExt

CONSTANTS
  PutShapes,   \* the [klen, vlen] of the PUTs
  DeleteLens,  \* the key lengths of the DELETEs
  FileBufSize, \* size of file_buf: 1 MB in the code
  HeaderSize,  \* LOG_HEADER_SIZE: 84 in the code
  MaxEntries,  \* bound: entries written in all
  MaxFaults,   \* bound: crashes of the writer and writes that fail
  MaxReaders   \* bound: readers that are open at a time

ASSUME ShapeAssumption == /\ PutShapes \subseteq [klen : Nat, vlen : Nat]
                          /\ DeleteLens \subseteq Nat
ASSUME SizeAssumption == /\ FileBufSize \in Nat \ {0} /\ HeaderSize \in Nat \ {0}
                         /\ MaxEntries \in Nat /\ MaxFaults \in Nat
                         /\ MaxReaders \in Nat

VARIABLES
  data,     \* the file after the header
  hdr,      \* the header in the file
  complete, \* the whole header was written once since the file was created
  wstate,   \* the writer: see WStates
  mem,      \* log->header, the writer's copy of the header
  buf,      \* log->file_buf
  offset,   \* the writer's file position, in data units
  pending,  \* what log_add still has to put into file_buf
  field,    \* the header field that write_logheader writes next
  closing,  \* the flush was called by sparkey_logwriter_close
  entries,  \* the entries that the log holds or that the writer has accepted
  acked,    \* how many of them there were at the last successful flush
  lastId,   \* number of entries ever started
  faults,   \* number of crashes and failed writes
  resumed,  \* the writer was closed after a failed write of this part
  readers   \* the headers that the open readers have loaded

fileVars == <<data, hdr, complete>>
writerVars == <<wstate, mem, buf, offset, pending, field, closing>>
ghostVars == <<entries, acked, lastId, faults, resumed>>
lwVars == <<fileVars, writerVars, ghostVars, readers>>

WStates == {"closed", "open", "adding", "header", "failed"}

\* The header fields that change, in the order of write_logheader.
HeaderFieldsEndFirst ==  \* Mutant: data_end is written before the counts.
  <<"dataEnd", "numPuts", "numDeletes", "maxKeyLen", "maxValueLen">>
HeaderFields == <<"numPuts", "numDeletes", "dataEnd", "maxKeyLen", "maxValueLen">>
Headers == [{"numPuts", "numDeletes", "dataEnd", "maxKeyLen", "maxValueLen"} -> Int]
InHeader == -1  \* a file position before the first data unit
EmptyHeader == [numPuts |-> 0, numDeletes |-> 0, dataEnd |-> 0,
                maxKeyLen |-> 0, maxValueLen |-> 0]

\* The checks of logheader_version0 (data_end counts the header's bytes too).
HeaderLoads(h) == /\ h.dataEnd # InHeader
                  /\ h.numPuts <= HeaderSize + h.dataEnd
                  /\ h.numDeletes <= HeaderSize + h.dataEnd

\* write() at an offset.
Written(d, at, s) ==
  [i \in 1 .. Max({Len(d), at + Len(s)}) |->
     IF i \in at + 1 .. at + Len(s) THEN s[i - at] ELSE d[i]]

LWInit ==
  /\ data = << >> /\ hdr = EmptyHeader /\ complete = FALSE
  /\ wstate = "closed" /\ mem = EmptyHeader /\ buf = << >> /\ offset = 0
  /\ pending = << >> /\ field = 1 /\ closing = FALSE
  /\ entries = << >> /\ acked = 0 /\ lastId = 0 /\ faults = 0 /\ resumed = "no"
  /\ readers = {}

(***************************************************************************)
(* Opening the writer.                                                     *)
(***************************************************************************)

\* sparkey_logwriter_create: the file is removed and created again, a header
\* for an empty log is written.  (Readers of a removed file keep it; here the
\* file is created once, and again only after a crash left it incomplete.)
Create ==
  /\ wstate = "closed" /\ ~complete
  /\ data' = << >> /\ hdr' = EmptyHeader
  /\ mem' = EmptyHeader /\ buf' = << >> /\ offset' = 0
  /\ wstate' = "header" /\ field' = 1 /\ closing' = FALSE
  /\ UNCHANGED <<complete, pending, ghostVars, readers>>

\* Mutant: no lseek, the file position stays at the first entry.
ReopenNoSeek ==
  /\ wstate = "closed" /\ complete /\ HeaderLoads(hdr) /\ resumed = "no"
  /\ mem' = hdr /\ buf' = << >> /\ offset' = 0
  /\ wstate' = "open"
  /\ UNCHANGED <<fileVars, pending, field, closing, ghostVars, readers>>

\* Mutant: the file is opened with O_APPEND.
ReopenAtEof ==
  /\ wstate = "closed" /\ complete /\ HeaderLoads(hdr) /\ resumed = "no"
  /\ mem' = hdr /\ buf' = << >> /\ offset' = Len(data)
  /\ wstate' = "open"
  /\ UNCHANGED <<fileVars, pending, field, closing, ghostVars, readers>>

\* sparkey_logwriter_append: the header is loaded and the file position set
\* to its data_end.  (Nobody appends to a log that a failed writer closed.)
Reopen ==
  /\ wstate = "closed" /\ complete /\ HeaderLoads(hdr) /\ resumed = "no"
  /\ mem' = hdr /\ buf' = << >> /\ offset' = hdr.dataEnd
  /\ wstate' = "open"
  /\ UNCHANGED <<fileVars, pending, field, closing, ghostVars, readers>>

(***************************************************************************)
(* sparkey_logwriter_put and sparkey_logwriter_delete: log_add, then the   *)
(* counters.                                                               *)
(***************************************************************************)
StartAdd(type, klen, vlen) ==
  /\ wstate = "open" /\ lastId < MaxEntries
  /\ LET e == [id |-> lastId + 1, type |-> type, klen |-> klen, vlen |-> vlen]
     IN  entries' = Append(entries, e) /\ pending' = EntryUnits(e)
  /\ lastId' = lastId + 1
  /\ wstate' = "adding"
  /\ UNCHANGED <<fileVars, mem, buf, offset, field, closing, acked, faults, resumed, readers>>

BufRemainingOneMore == FileBufSize + 1 - Len(buf)  \* Mutant: off by one.
BufRemaining == FileBufSize - Len(buf)

\* The header in memory after log_add of e.
Counted(h, e) ==
  IF e.type = "put"
  THEN [h EXCEPT !.numPuts = @ + 1, !.maxKeyLen = Max({@, e.klen}),
                 !.maxValueLen = Max({@, e.vlen})]
  ELSE [h EXCEPT !.numDeletes = @ + 1]

\* buf_add: the rest does not fit, the buffer is filled and written.
BufAddSpills ==
  /\ wstate = "adding" /\ Len(pending) > BufRemaining
  /\ data' = Written(data, offset, buf \o Prefix(pending, BufRemaining))
  /\ offset' = offset + FileBufSize
  /\ buf' = << >>
  /\ pending' = SubSeq(pending, BufRemaining + 1, Len(pending))
  /\ UNCHANGED <<hdr, complete, wstate, mem, field, closing, ghostVars, readers>>

\* buf_add: the rest fits; put and delete then update the header in memory.
BufAddFits ==
  /\ wstate = "adding" /\ Len(pending) <= BufRemaining
  /\ buf' = buf \o pending
  /\ pending' = << >>
  /\ mem' = Counted(mem, Last(entries))
  /\ wstate' = "open"
  /\ UNCHANGED <<fileVars, offset, field, closing, ghostVars, readers>>

(***************************************************************************)
(* sparkey_logwriter_flush, from the program or from                       *)
(* sparkey_logwriter_close: the buffer, then the header field by field.    *)
(***************************************************************************)
Flush(close) ==
  /\ wstate = "open"
  /\ data' = Written(data, offset, buf)
  /\ offset' = offset + Len(buf)
  /\ buf' = << >>
  /\ mem' = [mem EXCEPT !.dataEnd = offset + Len(buf)]
  /\ wstate' = "header" /\ field' = 1 /\ closing' = close
  /\ UNCHANGED <<hdr, complete, pending, ghostVars, readers>>

WriteHeaderField ==
  /\ wstate = "header" /\ field <= Len(HeaderFields)
  /\ hdr' = [hdr EXCEPT ![HeaderFields[field]] = mem[HeaderFields[field]]]
  /\ field' = field + 1
  /\ UNCHANGED <<data, complete, wstate, mem, buf, offset, pending, closing,
                 ghostVars, readers>>

\* The flush returns SPARKEY_SUCCESS.
HeaderWritten ==
  /\ wstate = "header" /\ field > Len(HeaderFields)
  /\ complete' = TRUE
  /\ acked' = IF resumed = "no" THEN Len(entries) ELSE acked
  /\ wstate' = IF closing THEN "closed" ELSE "open"
  /\ field' = 1
  /\ UNCHANGED <<data, hdr, mem, buf, offset, pending, closing, entries, lastId,
                 faults, resumed, readers>>

\* How many entries the file holds up to its data_end.
Committed == CHOOSE n \in 0 .. Len(entries) : Len(Units(Prefix(entries, n))) = hdr.dataEnd

\* The writer is gone with its memory; the file stays.
WriterGone ==
  /\ entries' = IF complete THEN Prefix(entries, Committed) ELSE << >>
  /\ wstate' = "closed" /\ mem' = EmptyHeader /\ buf' = << >> /\ offset' = 0
  /\ pending' = << >> /\ field' = 1 /\ closing' = FALSE
  /\ UNCHANGED <<fileVars, acked, lastId, resumed, readers>>

\* The writing process dies.
Crash ==
  /\ wstate # "closed" /\ resumed = "no" /\ faults < MaxFaults
  /\ faults' = faults + 1
  /\ WriterGone

(***************************************************************************)
(* Writes that fail: write_full returns an error when some bytes, or none, *)
(* are in the file.                                                        *)
(***************************************************************************)
Fails == wstate' = "failed" /\ faults < MaxFaults /\ faults' = faults + 1

\* buf->cur is not reset: the buffer still holds the part that was written.
PartWritten(s, n) == /\ data' = Written(data, offset, Prefix(s, n))
                     /\ offset' = offset + n /\ buf' = s

\* put or delete returns an error; the entry is not counted.
SpillFails(n) ==
  /\ wstate = "adding" /\ Len(pending) > BufRemaining
  /\ PartWritten(buf \o Prefix(pending, BufRemaining), n)
  /\ pending' = << >>
  /\ Fails
  /\ UNCHANGED <<hdr, complete, mem, field, closing, entries, acked, lastId, resumed, readers>>

\* sparkey_logwriter_flush returns the error of buf_flushfile.
FlushFails(n) ==
  /\ wstate = "open" /\ n < Len(buf)
  /\ PartWritten(buf, n)
  /\ Fails
  /\ UNCHANGED <<hdr, complete, mem, pending, field, closing, entries, acked, lastId,
                 resumed, readers>>

\* write_logheader fails; the file position stays where it was in the header.
HeaderFails ==
  /\ wstate = "header" /\ field <= Len(HeaderFields) /\ resumed = "no"
  /\ offset' = InHeader
  /\ Fails
  /\ UNCHANGED <<fileVars, mem, buf, pending, field, closing, entries, acked, lastId,
                 resumed, readers>>

\* The program drops the writer (sparkey_logwriter_create does so itself).
Abandon == wstate = "failed" /\ WriterGone /\ UNCHANGED faults

\* sparkey_logwriter_close after a failed call: the flush writes the whole
\* buffer again behind the part that is there, and takes the file position
\* for data_end.
CloseFailed ==
  /\ wstate = "failed" /\ complete
  /\ IF offset = InHeader
     THEN data' = data /\ mem' = [mem EXCEPT !.dataEnd = InHeader] /\ offset' = offset
     ELSE /\ data' = Written(data, offset, buf)
          /\ mem' = [mem EXCEPT !.dataEnd = offset + Len(buf)]
          /\ offset' = offset + Len(buf)
  /\ buf' = << >>
  /\ wstate' = "header" /\ field' = 1 /\ closing' = TRUE
  /\ resumed' = IF offset = InHeader THEN "header" ELSE "data"
  /\ UNCHANGED <<hdr, complete, pending, entries, acked, lastId, faults, readers>>

(***************************************************************************)
(* sparkey_logreader_open loads the header with one buffered read; its     *)
(* data_end bounds what the reader looks at until it is closed.            *)
(***************************************************************************)
OpenReader ==
  /\ complete /\ HeaderLoads(hdr)
  /\ Cardinality(readers) < MaxReaders
  /\ readers' = readers \cup {hdr}
  /\ UNCHANGED <<fileVars, writerVars, ghostVars>>

CloseReader(r) ==
  /\ readers' = readers \ {r}
  /\ UNCHANGED <<fileVars, writerVars, ghostVars>>

LWNext == \/ Create \/ Reopen
          \/ \E s \in PutShapes : StartAdd("put", s.klen, s.vlen)
          \/ \E n \in DeleteLens : StartAdd("delete", n, 0)
          \/ BufAddSpills \/ BufAddFits
          \/ \E c \in BOOLEAN : Flush(c)
          \/ WriteHeaderField \/ HeaderWritten \/ Crash
          \/ \E n \in 0 .. FileBufSize - 1 : SpillFails(n) \/ FlushFails(n)
          \/ HeaderFails \/ Abandon \/ CloseFailed
          \/ OpenReader \/ \E r \in readers : CloseReader(r)

LWSpec == LWInit /\ [][LWNext]_lwVars

-----------------------------------------------------------------------------
(***************************************************************************)
(* Properties.                                                             *)
(***************************************************************************)

\* The types of the variables.
LWTypeOK ==
  /\ hdr \in Headers /\ mem \in Headers /\ complete \in BOOLEAN
  /\ wstate \in WStates /\ closing \in BOOLEAN
  /\ Len(buf) <= FileBufSize /\ offset \in InHeader .. Len(data)
  /\ field \in 1 .. Len(HeaderFields) + 1
  /\ acked \in 0 .. Len(entries) /\ faults \in 0 .. MaxFaults
  /\ resumed \in {"no", "data", "header"}
  /\ readers \subseteq Headers

\* At every moment, in the middle of a header write, after any crash and
\* after a write that failed part way, the data up to the data_end in the
\* file are the units of whole entries, the first ones the program added:
\* what a reader may be handed.  Unless the program goes on with a writer
\* that returned an error.
CommittedReadable ==
  complete /\ resumed = "no" =>
    \E n \in 0 .. Len(entries) : Prefix(data, hdr.dataEnd) = Units(Prefix(entries, n))

\* What a successful flush acknowledged stays in the log, whatever crashes,
\* failing writes and appends follow; even a program that closes the writer
\* after an error only adds garbage behind it, unless it was the header
\* that could not be written.
FlushedDurable ==
  complete /\ resumed # "header" =>
    LET durable == Units(Prefix(entries, acked))
    IN  hdr.dataEnd >= Len(durable) /\ Prefix(data, Len(durable)) = durable

\* A reader's data do not change under it: the writer only writes behind the
\* data_end of every header it has published, also after a crash, when it
\* overwrites what the dead writer left there.
ReaderStable ==
  [][\A r \in readers : Prefix(data', r.dataEnd) = Prefix(data, r.dataEnd)]_lwVars

\* num_puts, from which hash_write computes the capacity of the table, is
\* never less than the PUT entries up to data_end: it is written first.
CountsCoverData ==
  complete /\ resumed = "no" =>
    hdr.numPuts >= Cardinality({i \in 1 .. Committed : entries[i].type = "put"})

\* README: "Any amount of concurrent independent readers."  A log that was
\* created can be opened at any time.
AlwaysOpenable == complete => HeaderLoads(hdr)
=============================================================================
