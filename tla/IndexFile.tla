----------------------------- MODULE IndexFile -----------------------------
(***************************************************************************)
(* The hash file under its name: sparkey_hash_write replaces it, readers   *)
(* open it at any time (sparkey_hash_open), and the writing process may    *)
(* crash.  Every system call that uses the name, or that writes to the     *)
(* file, is a step.                                                        *)
(*                                                                         *)
(* A file has fields and slots, how much of its header and of its table    *)
(* was written; dataEnd, lens (max_key_len and max_value_len) and capacity *)
(* are what the header says.  raced remembers whether the log grew between *)
(* hash_write's two loads of its header, in the call that wrote the file   *)
(* or in one whose table was copied into it, and consistent is whether the *)
(* header passes the checks of hashheader_version0.  A removed file lives  *)
(* on for whoever has it open or mapped.  The log only grows; one          *)
(* hash_write runs at a time.                                              *)
(***************************************************************************)
EXTENDS Integers, Sequences

CONSTANTS
  Readers,       \* the processes that open the index
  Capacities,    \* the hash_capacity a table may get: it depends on the log
  HeaderPieces,  \* writes of write_hashheader: 18 in the code
  MaxLogEnd,     \* bound: the log's data_end
  MaxFiles,      \* bound: hash files created
  MaxCrashes     \* bound: crashes of the process that runs hash_write

ASSUME IndexFileAssumption ==
  /\ Capacities \subseteq Nat \ {0} /\ HeaderPieces \in Nat \ {0}
  /\ MaxLogEnd \in Nat /\ MaxFiles \in Nat /\ MaxCrashes \in Nat

VARIABLES
  logEnd,   \* data_end of the log
  logLens,  \* the data_end that max_key_len and max_value_len on disk are of
  files,    \* the hash files ever created, removed ones too
  name,     \* the file hash_filename refers to, 0 if there is none
  wpc,      \* where hash_write is
  wEnd,     \* log_header.data_end
  wLens,    \* log_header.max_key_len and max_value_len
  wRaced,   \* the table has entries of a later log than log_header's
  wrc,      \* the return code of the last call
  crashes,
  rpc,      \* where each reader is in hash_open
  rhdr,     \* reader->header, with the file it was read from
  rfile,    \* reader->fd
  rerr      \* what the last hash_open returned, and of which file's header

logVars == <<logEnd, logLens>>
writerVars == <<files, name, wpc, wEnd, wLens, wRaced, wrc, crashes>>
readerVars == <<rpc, rhdr, rfile, rerr>>
ifVars == <<logVars, writerVars, readerVars>>

NoHeader == [file |-> 0, dataEnd |-> 0, lens |-> 0, capacity |-> 0]
NewFile(cap, ok) == [fields |-> 0, dataEnd |-> wEnd, lens |-> wLens, capacity |-> cap,
                     slots |-> 0, raced |-> wRaced, consistent |-> ok]
Code(c) == [code |-> c, file |-> 0]

\* sparkey_load_hashheader on the file: the header is there to its end, and
\* num_entries, max_displacement and hash_collisions are not out of bounds.
HeaderWhole(f) == f # 0 /\ files[f].fields = HeaderPieces
HeaderLoads(f) == HeaderWhole(f) /\ files[f].consistent
HeaderOf(f) == [file |-> f, dataEnd |-> files[f].dataEnd, lens |-> files[f].lens,
                capacity |-> files[f].capacity]
TableWhole(f) == files[f].slots = files[f].capacity

IFInit ==
  /\ logEnd = 0 /\ logLens = 0 /\ files = << >> /\ name = 0
  /\ wpc = "out" /\ wEnd = 0 /\ wLens = 0 /\ wRaced = FALSE
  /\ wrc = "NONE" /\ crashes = 0
  /\ rpc = [r \in Readers |-> "closed"] /\ rhdr = [r \in Readers |-> NoHeader]
  /\ rfile = [r \in Readers |-> 0] /\ rerr = [r \in Readers |-> Code("NONE")]

\* The log writer flushes: write_logheader writes data_end, and later
\* max_key_len and max_value_len, which never shrink.
LogGrows ==
  /\ logEnd < MaxLogEnd
  /\ logEnd' = logEnd + 1
  /\ UNCHANGED <<logLens, writerVars, readerVars>>

LensGrow ==
  /\ logLens < logEnd
  /\ logLens' = logEnd
  /\ UNCHANGED <<logEnd, writerVars, readerVars>>

(***************************************************************************)
(* sparkey_hash_write.                                                     *)
(***************************************************************************)
Goes(pc) == wpc' = pc /\ UNCHANGED <<logVars, crashes, readerVars>>

WriteCalled ==
  /\ wpc = "out" /\ Len(files) < MaxFiles
  /\ wEnd' = logEnd /\ wLens' = logLens /\ wRaced' = FALSE /\ wrc' = "NONE"
  /\ Goes("old") /\ UNCHANGED <<files, name>>

\* The log is opened, which loads its header again, and then the old hash
\* header.  When it loads, covers the log and has the hash size that is asked
\* for, there is nothing to do.
WriteNothingToDo ==
  /\ wpc = "old" /\ HeaderLoads(name) /\ files[name].dataEnd = logEnd
  /\ wrc' = "SUCCESS"
  /\ Goes("out") /\ UNCHANGED <<files, name, wEnd, wLens, wRaced>>

\* The table is built in memory: from the old one, which fill_hash copies, or
\* from the log alone if no old header loads or the hash size is another.
\* The log is scanned to the data_end of the second load.
WriteBuilds(copyOld) ==
  /\ wpc = "old"
  /\ copyOld => HeaderLoads(name) /\ files[name].dataEnd # logEnd /\ TableWhole(name)
  /\ wRaced' = (logEnd # wEnd \/ (copyOld /\ files[name].raced))
  /\ Goes("remove") /\ UNCHANGED <<files, name, wEnd, wLens, wrc>>

\* fill_hash on a table that ends too soon: read returns 0 and read_fully
\* calls it again, forever.
WriteStuck ==
  /\ wpc = "old" /\ HeaderLoads(name)
  /\ files[name].dataEnd # logEnd /\ ~TableWhole(name)
  /\ Goes("stuck") /\ UNCHANGED <<files, name, wEnd, wLens, wRaced, wrc>>

\* Mutant: the file is not removed.
WriteKeeps ==
  /\ wpc = "remove"
  /\ Goes("create") /\ UNCHANGED <<files, name, wEnd, wLens, wRaced, wrc>>

WriteRemoves ==
  /\ wpc = "remove"
  /\ name' = 0
  /\ Goes("create") /\ UNCHANGED <<files, wEnd, wLens, wRaced, wrc>>

\* creat: a new file, or the one with this name is truncated.  What the
\* header will say is known by now.  It is consistent (FileLoadable of
\* HashWriter) unless num_puts was counted before the log grew: then there
\* may be more entries than puts.
WriteCreates(cap, ok) ==
  /\ wpc = "create" /\ (ok \/ wRaced)
  /\ IF name = 0 THEN files' = Append(files, NewFile(cap, ok)) /\ name' = Len(files) + 1
                 ELSE files' = [files EXCEPT ![name] = NewFile(cap, ok)] /\ UNCHANGED name
  /\ Goes("header") /\ UNCHANGED <<wEnd, wLens, wRaced, wrc>>

WriteHeader ==
  /\ wpc = "header"
  /\ files' = [files EXCEPT ![name].fields = @ + 1]
  /\ Goes(IF files[name].fields + 1 = HeaderPieces THEN "table" ELSE "header")
  /\ UNCHANGED <<name, wEnd, wLens, wRaced, wrc>>

\* Mutant: write_full goes on after its last byte.
WriteTableOverrun ==
  /\ wpc = "table"
  /\ files' = [files EXCEPT ![name].slots = @ + 1]
  /\ Goes("table") /\ UNCHANGED <<name, wEnd, wLens, wRaced, wrc>>

WriteTable ==
  /\ wpc = "table" /\ ~TableWhole(name)
  /\ files' = [files EXCEPT ![name].slots = @ + 1]
  /\ Goes("table") /\ UNCHANGED <<name, wEnd, wLens, wRaced, wrc>>

\* Mutant: write_full returns after a short write.
WriteReturnsEarly ==
  /\ wpc = "table"
  /\ wrc' = "SUCCESS"
  /\ Goes("out") /\ UNCHANGED <<files, name, wEnd, wLens, wRaced>>

WriteReturns ==
  /\ wpc = "table" /\ TableWhole(name)
  /\ wrc' = "SUCCESS"
  /\ Goes("out") /\ UNCHANGED <<files, name, wEnd, wLens, wRaced>>

\* The process dies, or a system call fails and hash_write returns its error:
\* what it has written so far stays.
Crash ==
  /\ wpc # "out" /\ crashes < MaxCrashes
  /\ wpc' = "out" /\ wrc' = "NONE" /\ crashes' = crashes + 1
  /\ UNCHANGED <<logVars, files, name, wEnd, wLens, wRaced, readerVars>>

(***************************************************************************)
(* sparkey_hash_open and sparkey_hash_close.                               *)
(***************************************************************************)
Goto(r, pc, err) ==
  /\ rpc' = [rpc EXCEPT ![r] = pc]
  /\ rerr' = [rerr EXCEPT ![r] = err]
  /\ UNCHANGED <<logVars, writerVars>>

Step(r, pc, err) == Goto(r, pc, err) /\ UNCHANGED <<rhdr, rfile>>

\* sparkey_hash_close, also called when hash_open fails: the reader is freed.
Closes(r, err) ==
  /\ Goto(r, "closed", err)
  /\ rhdr' = [rhdr EXCEPT ![r] = NoHeader]
  /\ rfile' = [rfile EXCEPT ![r] = 0]

Corrupt(f) == [code |-> "HASH_HEADER_CORRUPT", file |-> f]

\* sparkey_load_hashheader: there is no file, its header ends too soon, or it
\* fails a check.
OpenFindsNoHeader(r) ==
  /\ rpc[r] = "closed" /\ ~HeaderLoads(name)
  /\ Closes(r, IF name = 0 THEN Code("FILE_NOT_FOUND")
               ELSE IF HeaderWhole(name) THEN Corrupt(name) ELSE Code("UNEXPECTED_EOF"))

OpenLoadsHeader(r) ==
  /\ rpc[r] = "closed" /\ HeaderLoads(name)
  /\ rhdr' = [rhdr EXCEPT ![r] = HeaderOf(name)]
  /\ Goto(r, "log", Code("NONE")) /\ UNCHANGED rfile

\* Mutant: an index that reaches the end of the log is refused.
OpenLogOffByOne(r) ==
  /\ rpc[r] = "log"
  /\ IF rhdr[r].dataEnd >= logEnd \/ rhdr[r].lens > logLens
     THEN Closes(r, Corrupt(rhdr[r].file)) ELSE Step(r, "file", Code("NONE"))

\* sparkey_logreader_open_noalloc loads the log header; the index may not
\* reach beyond the log, nor know of longer keys or values.
OpenLog(r) ==
  /\ rpc[r] = "log"
  /\ IF rhdr[r].dataEnd > logEnd \/ rhdr[r].lens > logLens
     THEN Closes(r, Corrupt(rhdr[r].file)) ELSE Step(r, "file", Code("NONE"))

\* open by name, for the second time.
OpenFile(r) ==
  /\ rpc[r] = "file"
  /\ IF name = 0 THEN Closes(r, Code("FILE_NOT_FOUND"))
     ELSE /\ rfile' = [rfile EXCEPT ![r] = name]
          /\ Goto(r, "stat", Code("NONE")) /\ UNCHANGED rhdr

AnyLength(r) == {TRUE}  \* Mutant: the size of the file is not checked.

\* stat by name.  If it fails the size that is compared is uninitialized.
LongEnough(r) ==
  IF name = 0 THEN BOOLEAN
  ELSE {HeaderWhole(name) /\ files[name].slots >= rhdr[r].capacity}

OpenMaps(r) ==
  /\ rpc[r] = "stat"
  /\ \/ TRUE \in LongEnough(r) /\ Step(r, "open", Code("SUCCESS"))
     \/ FALSE \in LongEnough(r) /\ Closes(r, Code("HASH_TOO_SMALL"))

Close(r) == rpc[r] = "open" /\ Closes(r, Code("NONE"))

IFNext ==
  \/ LogGrows \/ LensGrow
  \/ WriteCalled \/ WriteNothingToDo \/ WriteStuck \/ WriteRemoves
  \/ \E copyOld \in BOOLEAN : WriteBuilds(copyOld)
  \/ \E cap \in Capacities, ok \in BOOLEAN : WriteCreates(cap, ok)
  \/ WriteHeader \/ WriteTable \/ WriteReturns \/ Crash
  \/ \E r \in Readers : \/ OpenFindsNoHeader(r) \/ OpenLoadsHeader(r) \/ OpenLog(r)
                       \/ OpenFile(r) \/ OpenMaps(r) \/ Close(r)

IFSpec == IFInit /\ [][IFNext]_ifVars

-----------------------------------------------------------------------------
(***************************************************************************)
(* Properties.                                                             *)
(***************************************************************************)

\* The types of the variables; no file gets more slots than its header says.
IFTypeOK ==
  /\ logEnd \in 0 .. MaxLogEnd /\ logLens \in 0 .. logEnd
  /\ wEnd \in 0 .. logEnd /\ wLens \in 0 .. logLens /\ wRaced \in BOOLEAN
  /\ files \in Seq([fields : 0 .. HeaderPieces, dataEnd : 0 .. MaxLogEnd, lens : 0 .. MaxLogEnd,
                    capacity : Capacities, slots : Nat, raced : BOOLEAN, consistent : BOOLEAN])
  /\ name \in 0 .. Len(files)
  /\ wpc \in {"out", "old", "remove", "create", "header", "table", "stuck"}
  /\ rpc \in [Readers -> {"closed", "log", "file", "stat", "open"}]
  /\ \A f \in DOMAIN files : files[f].slots <= files[f].capacity
  /\ \A r \in Readers : rpc[r] \in {"stat", "open"} => rfile[r] \in DOMAIN files

\* An open reader whose header and table are of the same file has all of its
\* table mapped, although it may have opened it while it was being written,
\* and although the size it checked was that of whatever had the name then.
\* The exception: a hash_write was cut off and a later one replaced its file
\* while the reader was between open and stat.
MappedWhole ==
  \A r \in Readers :
    rpc[r] = "open" /\ rhdr[r].file = rfile[r] /\ (crashes = 0 \/ rfile[r] = name)
      => TableWhole(rfile[r])

\* "The hash file is never overwritten": what such a reader has mapped does
\* not change, whatever hash_write does.
ReadersUndisturbed ==
  [][\A r \in Readers :
       rpc[r] = "open" /\ rhdr[r].file = rfile[r] => files'[rfile[r]] = files[rfile[r]]]_ifVars

\* hash_open loads the index before the log, both of which only advance:
\* however the log and the index grow meanwhile, even in the middle of a
\* flush, it never takes for corrupt an index whose hash_write saw one and
\* the same log header in both of its loads.  Only a file of a hash_write
\* during which the log grew, or that goes back to one, can be refused.
NoFalseCorrupt ==
  \A r \in Readers :
    rerr[r].code = "HASH_HEADER_CORRUPT" =>
      rerr[r].file \in DOMAIN files /\ files[rerr[r].file].raced

\* While no call of hash_write was cut off, a successful one leaves a whole
\* index that covers the log as it was when the call began.
SuccessIsWhole ==
  crashes = 0 /\ wpc = "out" /\ wrc = "SUCCESS" =>
    HeaderWhole(name) /\ TableWhole(name) /\ files[name].dataEnd = wEnd

\* sparkey.h: "it's safe to rewrite the hash table while other processes are
\* reading from it".  A reader's header and its table are of one file.
OneFile == \A r \in Readers : rpc[r] = "open" => rhdr[r].file = rfile[r]
=============================================================================
