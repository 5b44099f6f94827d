-------------------------------- MODULE Tool --------------------------------
(***************************************************************************)
(* The command line tool (main.c): processes that run createlog,           *)
(* appendlog, writehash, get, info and rewrite on pairs of a log           *)
(* <pair>.spl and an index <pair>.spi, while others run on the same files. *)
(*                                                                         *)
(* An action is what one process does between two looks at the files.  A   *)
(* log is created, and from then on only grows, by whole entries, when its *)
(* writer is closed (LogWriter); an index is written as a whole            *)
(* (IndexFile) and has the live entries of the log (HashWriter).  Here the *)
(* question is which log and which index a command ends up with, and what  *)
(* its exit code says of them.                                             *)
(***************************************************************************)
EXTENDS Integers, Sequences, SequencesExt, FiniteSets

CONSTANTS
  Proc,        \* the processes
  Pair,        \* the names, without .spl and .spi
  Key, Value,  \* what the entries hold
  NoValue,     \* the empty value
  InitialLogs, \* the contents the logs may have at first
  Compression, \* the -c arguments: "unset", a type, or something else
  BlockArgs,   \* the -b arguments: Unset, an integer, or NoInteger
  MaxFiles,    \* bound: logs ever created
  MaxLines,    \* bound: lines that appendlog puts
  MaxCommands, \* bound: commands started
  MaxFaults    \* bound: processes killed, and reads and writes that fail

Unset == -1
NoInteger == -2
CompDefaultBlocksize == 4096
CompMinBlocksize == 16
CompMaxBlocksize == 2^30

Puts == [type : {"put"}, key : Key, value : Value]
Entries == [type : {"put", "delete"}, key : Key, value : Value \cup {NoValue}]

ASSUME ToolAssumption ==
  /\ NoValue \notin Value /\ InitialLogs \subseteq Seq(Entries)
  /\ BlockArgs \subseteq Int
  /\ MaxFiles \in Nat \ {0} /\ {MaxLines, MaxCommands, MaxFaults} \subseteq Nat

VARIABLES
  logs,     \* the log files: their number is the file_identifier
  logName,  \* the log file that is called <pair>.spl, 0 if there is none
  index,    \* the index called <pair>.spi
  proc,     \* the processes
  started,  \* number of commands started
  faults    \* number of processes killed and of failed reads and writes

toolVars == <<logs, logName, index, proc, started, faults>>
files == <<logs, logName, index>>

NoIndex == [id |-> 0, end |-> 0, scanned |-> 0, live |-> {}]
NoLog == [file |-> 0, end |-> 0]

\* A process between two commands.
Idle == [cmd |-> "none", pc |-> "exited", exit |-> 0,
         pair |-> "", out |-> "",   \* the pair it reads, the pair it writes
         key |-> "", value |-> NoValue,
         compression |-> "unset", block |-> Unset,
         index |-> NoIndex,         \* the index header it loaded
         map |-> NoIndex,           \* the index it mapped
         hdr |-> NoLog, data |-> 0, \* the log header it loaded, the log it mapped
         done |-> 0,                \* entries of it that rewrite has read
         buf |-> << >>,             \* entries given to the log writer
         given |-> << >>,           \* the whole lines of its standard input
         long |-> FALSE,            \* read_line's buffer outgrew MAXIMUM_CAPACITY
         junk |-> FALSE,            \* it looked at memory that was never written
         failed |-> FALSE,          \* a read or a write failed
         loaded |-> NoLog,          \* hash_write: the first load of the log header
         built |-> NoIndex,         \* the index it has built
         before |-> << >>]          \* the output pair when rewrite was started

LiveAt(es, n) ==
  {q \in 1 .. n : es[q].type = "put" /\ \A r \in q + 1 .. n : es[r].key # es[q].key}

ToolInit ==
  /\ \E es \in InitialLogs :
       logs = <<[entries |-> es, compression |-> "none", block |-> 0, damaged |-> FALSE]>>
  /\ \E a \in Pair :
       /\ logName = [b \in Pair |-> IF b = a THEN 1 ELSE 0]
       /\ LET n == Len(logs[1].entries)
          IN  index = [b \in Pair |->
                         IF b # a THEN NoIndex
                         ELSE [id |-> 1, end |-> n, scanned |-> n,
                               live |-> LiveAt(logs[1].entries, n)]]
  /\ proc = [p \in Proc |-> Idle]
  /\ started = 0 /\ faults = 0

(***************************************************************************)
(* Processes.                                                              *)
(***************************************************************************)
At(p, cmds, pc) == proc[p].cmd \in cmds /\ proc[p].pc = pc
Running(p) == proc[p].pc # "exited"

Step(p, r) == proc' = [proc EXCEPT ![p] = r] /\ UNCHANGED <<started, faults>>
Goto(p, pc) == Step(p, [proc[p] EXCEPT !.pc = pc])

\* assert fails: "skip cleanup - program exit will clean up implicitly".
Exit(p, code) == Step(p, [Idle EXCEPT !.exit = code])

\* main returns.  What the command has read and done is kept, for the
\* properties; its arguments are forgotten.
Left(r, code) ==
  [r EXCEPT !.pc = "exited", !.exit = code, !.pair = "", !.out = "",
            !.compression = "unset", !.block = Unset, !.done = 0,
            !.loaded = NoLog, !.before = << >>]
Return(p, r, code) == Step(p, Left(r, code))

Begin(p, r) ==
  /\ ~Running(p) /\ started < MaxCommands
  /\ proc' = [proc EXCEPT ![p] = r]
  /\ started' = started + 1
  /\ UNCHANGED <<files, faults>>

\* "make sure to only write to a file from one process"
LogBusy(a) == \E p \in Proc : /\ Running(p) /\ proc[p].out = a
                              /\ proc[p].cmd \in {"createlog", "appendlog", "rewrite"}
IndexBusy(a) == \E p \in Proc : /\ Running(p) /\ proc[p].out = a
                                /\ proc[p].cmd \in {"writehash", "rewrite"}

\* The process is killed, or one of its reads or writes fails.
Fault(p, r) ==
  /\ Running(p) /\ faults < MaxFaults
  /\ proc' = [proc EXCEPT ![p] = r]
  /\ faults' = faults + 1
  /\ UNCHANGED started

\* The process is killed, or interrupted at the terminal.
Kill(p) == Fault(p, [Idle EXCEPT !.exit = 9]) /\ UNCHANGED files

\* A call reads or writes a file, fails, and the assert around it ends the
\* process; what was being written is of no use yet.  (The call that fails
\* at "lines" and "close" is a put and a close of appendlog: see there.)
Fails(p) ==
  /\ proc[p].pc \notin {"lines", "close", "options"}
  /\ Fault(p, [Idle EXCEPT !.exit = 1, !.failed = TRUE])
  /\ UNCHANGED files

(***************************************************************************)
(* main: the arguments.  get and rewrite derive the name of the log from   *)
(* that of the index, writehash the other way round; a name with another   *)
(* ending is refused.                                                      *)
(***************************************************************************)
\* The -b and -c options that createlog and rewrite accept.
OptionsOK(c, b) ==
  /\ c \in {"unset", "none", "snappy", "zstd"}
  /\ b = Unset \/ (b <= CompMaxBlocksize /\ b >= CompMinBlocksize)

\* A wrong option, a wrong file name, or too few arguments.
UsageError(p) == Begin(p, [Idle EXCEPT !.exit = 1])

StartCreatelog(p, a, c, b) ==
  /\ ~LogBusy(a)
  /\ OptionsOK(c, b)
  /\ Begin(p, [Idle EXCEPT !.cmd = "createlog", !.pc = "create", !.out = a,
                           !.compression = IF c = "unset" THEN "none" ELSE c,
                           !.block = IF b = Unset THEN CompDefaultBlocksize ELSE b])

StartAppendlog(p, a) ==
  /\ ~LogBusy(a)
  /\ Begin(p, [Idle EXCEPT !.cmd = "appendlog", !.pc = "append", !.out = a])

StartWritehash(p, a) ==
  /\ ~IndexBusy(a)
  /\ Begin(p, [Idle EXCEPT !.cmd = "writehash", !.pc = "hashload", !.out = a])

StartGet(p, a, k) ==
  Begin(p, [Idle EXCEPT !.cmd = "get", !.pc = "openindex", !.pair = a, !.key = k])

StartRewrite(p, a, b, c, n) ==
  /\ ~LogBusy(b) /\ ~IndexBusy(b)
  /\ a # b /\ OptionsOK(c, n)
  /\ Begin(p, [Idle EXCEPT !.cmd = "rewrite", !.pc = "openindex", !.pair = a, !.out = b,
                           !.compression = c, !.block = n,
                           !.before = <<logName[b], index[b]>>])

\* info prints the headers of the files it is given; it fails if one of
\* them is not there.
Info(p, names) ==
  Begin(p, [Idle EXCEPT !.cmd = "info",
                        !.exit = IF \E a \in names : logName[a] = 0 \/ index[a].id = 0
                                 THEN 1 ELSE 0])

(***************************************************************************)
(* sparkey_logwriter_create for createlog and rewrite.                     *)
(***************************************************************************)
UsesCompressor(c) == c \in {"snappy", "zstd"}

CreateRemovesFirst(p) ==  \* Mutant: the file is removed before the check.
  /\ At(p, {"createlog", "rewrite"}, "create")
  /\ logName' = [logName EXCEPT ![proc[p].out] = 0]
  /\ IF UsesCompressor(proc[p].compression) /\ proc[p].block < 10
     THEN Exit(p, 1) ELSE Goto(p, "created")
  /\ UNCHANGED <<logs, index>>

\* The block size is checked, then an old file of the name is removed.
CreateRemoves(p) ==
  /\ At(p, {"createlog", "rewrite"}, "create")
  /\ IF UsesCompressor(proc[p].compression) /\ proc[p].block < 10
     THEN Exit(p, 1) /\ UNCHANGED logName
     ELSE Goto(p, "created") /\ logName' = [logName EXCEPT ![proc[p].out] = 0]
  /\ UNCHANGED <<logs, index>>

\* A new file with a new identifier.  createlog closes it at once.
CreateWrites(p) ==
  /\ At(p, {"createlog", "rewrite"}, "created") /\ Len(logs) < MaxFiles
  /\ LET c == proc[p].compression
     IN  logs' = Append(logs, [entries |-> << >>, compression |-> c,
                               block |-> IF UsesCompressor(c) THEN proc[p].block ELSE 0,
                               damaged |-> FALSE])
  /\ logName' = [logName EXCEPT ![proc[p].out] = Len(logs) + 1]
  /\ IF proc[p].cmd = "createlog" THEN Return(p, proc[p], 0) ELSE Goto(p, "copy")
  /\ UNCHANGED index

\* sparkey_logwriter_close: what was put becomes part of the log.  (There is
\* one writer, so the file it has open still has the name.)  After a put that
\* failed, part of that entry may be among them: the log is damaged, and
\* whoever reads it may be led astray.  (The model reads on as if it were
\* not; the properties do not speak of damaged logs.)
CloseAppends(a, es, damage) ==
  /\ LET log == logs[logName[a]]
     IN  logs' = [logs EXCEPT ![logName[a]] = [log EXCEPT !.entries = log.entries \o es,
                                                          !.damaged = log.damaged \/ damage]]
  /\ UNCHANGED <<logName, index>>

(***************************************************************************)
(* appendlog: sparkey_logwriter_append, the lines, and the close, which    *)
(* follows also when a line could not be split or put.                     *)
(***************************************************************************)
AppendOpens(p) ==
  /\ At(p, {"appendlog"}, "append")
  /\ LET f == logName[proc[p].out]
     IN  IF f = 0 THEN Exit(p, 1)
         ELSE Step(p, [proc[p] EXCEPT !.pc = "lines",
                                      !.hdr = [file |-> f, end |-> Len(logs[f].entries)]])
  /\ UNCHANGED files

\* A line with a key, the delimiter and a value.  If it is as long as
\* MAXIMUM_CAPACITY, the buffer is doubled beyond that for it.
AppendLine(p, e, long) ==
  /\ At(p, {"appendlog"}, "lines") /\ ~proc[p].long
  /\ Len(proc[p].given) < MaxLines
  /\ Step(p, [proc[p] EXCEPT !.buf = Append(@, e), !.given = Append(@, e), !.long = long])
  /\ UNCHANGED files

\* sparkey_logwriter_put fails: what follows is not read.
AppendPutFails(p, e) ==
  /\ At(p, {"appendlog"}, "lines") /\ ~proc[p].long
  /\ Len(proc[p].given) < MaxLines
  /\ Fault(p, [proc[p] EXCEPT !.pc = "close", !.exit = 1, !.failed = TRUE,
                              !.given = Append(@, e)])
  /\ UNCHANGED files

BadLine == [type |-> "bad", key |-> "", value |-> NoValue]

AppendSkipsBadLine(p) ==  \* Mutant: a line that cannot be split is skipped.
  /\ At(p, {"appendlog"}, "lines") /\ ~proc[p].long
  /\ Len(proc[p].given) < MaxLines
  /\ Step(p, [proc[p] EXCEPT !.given = Append(@, BadLine)])
  /\ UNCHANGED files

\* A line without a value: strtok finds nothing behind the delimiter, and
\* what follows is not read.
AppendBadLine(p) ==
  /\ At(p, {"appendlog"}, "lines") /\ ~proc[p].long
  /\ Step(p, [proc[p] EXCEPT !.pc = "close", !.exit = 1, !.given = Append(@, BadLine)])
  /\ UNCHANGED files

\* The input ends, perhaps with a line that has no newline.  read_line also
\* returns 0 when its buffer is too large already, whatever comes then.
AppendStops(p) ==
  /\ At(p, {"appendlog"}, "lines")
  /\ \E rest \in {<< >>} \cup (IF proc[p].long THEN {<<e>> : e \in Puts} ELSE {}) :
       Step(p, [proc[p] EXCEPT !.pc = "close", !.given = @ \o rest])
  /\ UNCHANGED files

\* The input is empty.  fgets left the new buffer as malloc returned it, and
\* line[0] may happen to be a newline: what follows is taken for a line with
\* or without a value, and at the latest the second time for one without.
AppendReadsJunk(p) ==
  /\ At(p, {"appendlog"}, "lines") /\ proc[p].given = << >>
  /\ \E es \in {<< >>} \cup {<<e>> : e \in Puts} :
       Step(p, [proc[p] EXCEPT !.pc = "close", !.exit = 1, !.junk = TRUE, !.buf = es])
  /\ UNCHANGED files

AppendCloses(p) ==
  /\ At(p, {"appendlog"}, "close")
  /\ \E damage \in BOOLEAN : /\ damage => proc[p].failed
                             /\ CloseAppends(proc[p].out, proc[p].buf, damage)
  /\ Return(p, proc[p], proc[p].exit)

\* The close fails, and the assert exits: before data_end is written, so
\* that nothing is added, or after that.
AppendCloseFails(p) ==
  /\ At(p, {"appendlog"}, "close")
  /\ \/ /\ Fault(p, [Left(proc[p], 1) EXCEPT !.failed = TRUE, !.buf = << >>])
        /\ UNCHANGED files
     \/ /\ Fault(p, [Left(proc[p], 1) EXCEPT !.failed = TRUE])
        /\ \E damage \in BOOLEAN : /\ damage => proc[p].failed
                                   /\ CloseAppends(proc[p].out, proc[p].buf, damage)

(***************************************************************************)
(* writehash: sparkey_hash_write on the pair that is written.              *)
(***************************************************************************)
Header(f) == [file |-> f, end |-> Len(logs[f].entries)]

HashLoads(p) ==
  /\ At(p, {"writehash", "rewrite"}, "hashload")
  /\ LET f == logName[proc[p].out]
     IN  IF f = 0 THEN Exit(p, 1)
         ELSE Step(p, [proc[p] EXCEPT !.pc = "hashopen", !.loaded = Header(f)])
  /\ UNCHANGED files

BuiltFromSecond(hdr, log) ==  \* Mutant: the identifier of the log that is scanned.
  [id |-> log.file, end |-> hdr.end, scanned |-> log.end,
   live |-> LiveAt(logs[log.file].entries, log.end)]

\* The index has the identifier and data_end of the header that was loaded
\* first and the entries of the log that was opened then; if that is another
\* file, they are of no use, and none are listed here.
Built(hdr, log) ==
  [id |-> hdr.file, end |-> hdr.end, scanned |-> log.end,
   live |-> IF log.file = hdr.file THEN LiveAt(logs[log.file].entries, log.end) ELSE {}]

\* The log is opened by its name; then the old index is looked at.  The scan
\* of a damaged log may fail, and that of another file than the one the old
\* index is of.
HashOpens(p) ==
  /\ At(p, {"writehash", "rewrite"}, "hashopen")
  /\ LET f == logName[proc[p].out]
         old == index[proc[p].out]
     IN  IF f = 0 THEN Exit(p, 1)
         ELSE IF old.id = proc[p].loaded.file /\ old.end = Len(logs[f].entries)
         THEN Return(p, proc[p], 0)
         ELSE \/ Step(p, [proc[p] EXCEPT !.pc = "hashremove",
                                         !.built = Built(proc[p].loaded, Header(f))])
              \/ (f # proc[p].loaded.file \/ logs[f].damaged) /\ Exit(p, 1)
  /\ UNCHANGED files

HashRemoves(p) ==
  /\ At(p, {"writehash", "rewrite"}, "hashremove")
  /\ index' = [index EXCEPT ![proc[p].out] = NoIndex]
  /\ Goto(p, "hashwrite")
  /\ UNCHANGED <<logs, logName>>

HashWrites(p) ==
  /\ At(p, {"writehash", "rewrite"}, "hashwrite")
  /\ index' = [index EXCEPT ![proc[p].out] = proc[p].built]
  /\ Return(p, [proc[p] EXCEPT !.buf = << >>], 0)
  /\ UNCHANGED <<logs, logName>>

(***************************************************************************)
(* sparkey_hash_open for get and rewrite.                                  *)
(***************************************************************************)
OpenIndex(p) ==
  /\ At(p, {"get", "rewrite"}, "openindex")
  /\ LET i == index[proc[p].pair]
     IN  IF i.id = 0 THEN Exit(p, 1)
         ELSE Step(p, [proc[p] EXCEPT !.pc = "openlog", !.index = i])
  /\ UNCHANGED files

\* sparkey_logreader_open_noalloc: the header, and then the file by its name.
OpenLogHeader(p) ==
  /\ At(p, {"get", "rewrite"}, "openlog")
  /\ LET f == logName[proc[p].pair]
     IN  IF f = 0 THEN Exit(p, 1)
         ELSE Step(p, [proc[p] EXCEPT !.pc = "opendata", !.hdr = Header(f)])
  /\ UNCHANGED files

\* A file that is shorter than data_end is refused.  (Another file may be
\* as long although it has fewer entries in its header.)
OpenLogData(p) ==
  /\ At(p, {"get", "rewrite"}, "opendata")
  /\ LET f == logName[proc[p].pair]
     IN  \/ f = 0 /\ Exit(p, 1)
         \/ f # 0 /\ Step(p, [proc[p] EXCEPT !.pc = "opencheck", !.data = f])
         \/ f # 0 /\ Len(logs[f].entries) < proc[p].hdr.end /\ Exit(p, 1)
  /\ UNCHANGED files

BelongNoId(i, hdr) == i.end <= hdr.end  \* Mutant: identifiers are not compared.
Belong(i, hdr) == i.id = hdr.file /\ i.end <= hdr.end

\* The index and the log must belong together; then the index is opened
\* again by its name.  It may be another one, and too small for the header.
OpenMaps(p) ==
  /\ At(p, {"get", "rewrite"}, "opencheck")
  /\ LET r == proc[p]
         i == index[r.pair]
     IN  IF ~Belong(r.index, r.hdr) \/ i.id = 0 THEN Exit(p, 1)
         ELSE \/ Step(p, [r EXCEPT !.pc = IF r.cmd = "get" THEN "lookup" ELSE "options",
                                   !.map = i])
              \/ i # r.index /\ Exit(p, 1)
  /\ UNCHANGED files

\* rewrite: what the options leave open is taken from the log.
RewriteOptions(p) ==
  /\ At(p, {"rewrite"}, "options")
  /\ LET in == logs[proc[p].hdr.file]
     IN  Step(p, [proc[p] EXCEPT !.pc = "create",
                    !.compression = IF @ = "unset" THEN in.compression ELSE @,
                    !.block = IF @ = Unset THEN in.block ELSE @])
  /\ UNCHANGED files

\* The log or the index was replaced between the load of its header and its
\* mapping.
Mixed(r) == r.data # r.hdr.file \/ r.map # r.index

\* What the process reads need not be entries: its asserts may fail.
Garbled(r) == Mixed(r) \/ logs[r.data].damaged

\* get: sparkey_hash_get, and the value is printed.
Lookup(p) ==
  /\ At(p, {"get"}, "lookup")
  /\ LET r == proc[p]
         es == logs[r.data].entries
         hits == {q \in r.map.live : q <= Len(es) /\ es[q].key = r.key}
     IN  \/ \E q \in hits : Return(p, [r EXCEPT !.value = es[q].value], 0)
         \/ hits = {} /\ Return(p, r, 2)
         \/ Garbled(r) /\ Exit(p, 1)
  /\ UNCHANGED files

(***************************************************************************)
(* rewrite: every entry of the log is put into the new one.                *)
(***************************************************************************)
RewriteCopiesKeysOnly(e) ==  \* Mutant: fill_value is not called.
  [type |-> "put", key |-> e.key, value |-> NoValue]
RewriteCopiesNoKey(e) ==  \* Mutant: fill_key is not called.
  [type |-> "put", key |-> NoValue, value |-> e.value]
RewritePut(e) == [type |-> "put", key |-> e.key, value |-> e.value]

Remaining(r) == r.done < r.hdr.end /\ r.done < Len(logs[r.data].entries)

RewriteNext(p) ==
  /\ At(p, {"rewrite"}, "copy") /\ Remaining(proc[p])
  /\ LET r == proc[p]
         e == logs[r.data].entries[r.done + 1]
     IN  \/ Step(p, [r EXCEPT !.done = @ + 1, !.buf = Append(@, RewritePut(e))])
         \/ Garbled(r) /\ Exit(p, 1)
  /\ UNCHANGED files

RewriteCloses(p) ==
  /\ At(p, {"rewrite"}, "copy") /\ ~Remaining(proc[p])
  /\ CloseAppends(proc[p].out, proc[p].buf, FALSE)
  /\ Goto(p, "hashload")

\* The close fails although data_end is written.
RewriteCloseFails(p) ==
  /\ At(p, {"rewrite"}, "copy") /\ ~Remaining(proc[p])
  /\ CloseAppends(proc[p].out, proc[p].buf, FALSE)
  /\ Fault(p, [Idle EXCEPT !.exit = 1, !.failed = TRUE])

Commands(p) ==
  \/ UsageError(p)
  \/ \E a \in Pair :
       \/ \E c \in Compression, b \in BlockArgs : StartCreatelog(p, a, c, b)
       \/ StartAppendlog(p, a)
       \/ StartWritehash(p, a)
       \/ \E k \in Key : StartGet(p, a, k)
       \/ \E b \in Pair, c \in Compression, n \in BlockArgs : StartRewrite(p, a, b, c, n)
  \/ \E names \in (SUBSET Pair) \ {{}} : Info(p, names)

Runs(p) ==
  \/ CreateRemoves(p) \/ CreateWrites(p)
  \/ AppendOpens(p) \/ AppendBadLine(p) \/ AppendStops(p) \/ AppendReadsJunk(p)
  \/ \E e \in Puts, long \in BOOLEAN : AppendLine(p, e, long)
  \/ \E e \in Puts : AppendPutFails(p, e)
  \/ AppendCloses(p) \/ AppendCloseFails(p)
  \/ HashLoads(p) \/ HashOpens(p) \/ HashRemoves(p) \/ HashWrites(p)
  \/ OpenIndex(p) \/ OpenLogHeader(p) \/ OpenLogData(p) \/ OpenMaps(p)
  \/ Lookup(p)
  \/ RewriteOptions(p) \/ RewriteNext(p) \/ RewriteCloses(p)
  \/ RewriteCloseFails(p) \/ Fails(p)

ToolNext == \E p \in Proc : Commands(p) \/ Runs(p) \/ Kill(p)

ToolSpec == ToolInit /\ [][ToolNext]_toolVars

-----------------------------------------------------------------------------
(***************************************************************************)
(* Properties.                                                             *)
(***************************************************************************)

\* The names refer to files, and what processes remember are files.
ToolTypeOK ==
  /\ Len(logs) <= MaxFiles /\ \A f \in DOMAIN logs : logs[f].entries \in Seq(Entries)
  /\ logName \in [Pair -> 0 .. Len(logs)]
  /\ \A a \in Pair : index[a].id \in 0 .. Len(logs)
  /\ \A p \in Proc : /\ proc[p].exit \in {0, 1, 2, 9}
                     /\ proc[p].hdr.file \in 0 .. Len(logs)
                     /\ proc[p].data \in 0 .. Len(logs)

Exited(r, cmd) == r.cmd = cmd /\ r.pc = "exited"

\* Whatever is created, appended, indexed and rewritten at the same time: an
\* index that carries the identifier of the log next to it has exactly that
\* log's live entries, up to its data_end at least, unless a failed put has
\* damaged the log.
IndexHonest ==
  \A a \in Pair :
    LET i == index[a]
    IN  i.id # 0 /\ i.id = logName[a] /\ ~logs[i.id].damaged =>
          /\ i.end <= i.scanned /\ i.scanned <= Len(logs[i.id].entries)
          /\ i.live = LiveAt(logs[i.id].entries, i.scanned)

\* get answers from one index and the log it was built from: it exits with
\* 0 and the newest value that the index knows, or with 2 if there is none.
GetAnswers ==
  \A p \in Proc :
    LET r == proc[p]
        es == logs[r.index.id].entries
        hits == {q \in LiveAt(es, r.index.scanned) : es[q].key = r.key}
    IN  Exited(r, "get") /\ r.exit \in {0, 2} /\ ~Garbled(r) =>
          IF r.exit = 0 THEN \E q \in hits : es[q].value = r.value ELSE hits = {}

\* What appendlog has put, compared with its input: everything if it exits
\* with 0 and no line was too long, and otherwise what came before the line
\* that could not be split or put, or nothing at all if the close failed.
\* (Only an empty input may add anything else.)
AppendExact ==
  \A p \in Proc :
    LET r == proc[p]
        log == logs[r.hdr.file]
        added == SubSeq(log.entries, r.hdr.end + 1, r.hdr.end + Len(r.buf))
    IN  Exited(r, "appendlog") /\ r.hdr.file # 0 /\ ~log.damaged =>
          /\ added = r.buf
          /\ r.junk \/ IsPrefix(r.buf, r.given)
          /\ r.exit = 0 /\ ~r.long => r.buf = r.given
          /\ r.failed => r.exit = 1
          /\ r.exit = 1 /\ ~r.junk /\ ~r.failed => r.given = Append(r.buf, BadLine)

\* The value of a key in the first n entries of a log, as a set.
ValueOf(es, n, k) == {es[q].value : q \in {r \in LiveAt(es, n) : es[r].key = k}}
RewrittenTo(r) == logs[r.built.id].entries
RewrittenFrom(r) == logs[r.hdr.file].entries

\* A rewrite that exits with 0 leaves an index that covers the new log, in
\* which every key that was live when it opened the old log has its value.
RewriteKeepsLive ==
  \A p \in Proc :
    LET r == proc[p]
    IN  Exited(r, "rewrite") /\ r.exit = 0 /\ ~Garbled(r) =>
          /\ r.built.end = r.hdr.end
          /\ \A k \in Key :
               LET old == ValueOf(RewrittenFrom(r), r.hdr.end, k)
               IN  old # {} => ValueOf(RewrittenTo(r), r.built.end, k) = old

\* A rewrite that exits with 1, because the input cannot be opened or the
\* options do not fit it, has not touched the output files.  If what fails
\* is a read or a write, or the input makes no sense, the output may be gone
\* or half written, but then nobody can open it: the index, if there is one,
\* does not carry the identifier of the log.
RewriteFailsClean ==
  [][\A p \in Proc :
       proc[p].cmd = "rewrite" /\ Running(p) /\ proc'[p].exit = 1 =>
         LET b == proc[p].out
         IN  \/ <<logName'[b], index'[b]>> = proc[p].before
             \/ /\ proc'[p].failed \/ (proc[p].data # 0 /\ Garbled(proc[p]))
                /\ index'[b].id = 0 \/ index'[b].id # logName'[b]]_toolVars
=============================================================================
