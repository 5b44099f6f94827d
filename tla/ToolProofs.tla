----------------------------- MODULE ToolProofs -----------------------------
(***************************************************************************)
(* Proofs about the command line tool, for any number of processes, pairs  *)
(* of files, commands, lines and faults, and any keys and values.          *)
(***************************************************************************)
EXTENDS Tool, TLAPS

FieldNames == {"cmd", "pc", "exit", "pair", "out", "key", "value", "compression", "block",
               "index", "map", "hdr", "data", "done", "buf", "given", "long", "junk",
               "failed", "loaded", "built", "before"}
Compressions == Compression \cup {"unset", "none"}
LogFile == [entries : Seq(Entries), compression : Compressions, block : Int, damaged : BOOLEAN]
Index == [id : Nat, end : Nat, scanned : Nat, live : SUBSET Nat]
LogHeader == [file : Nat, end : Nat]
LogWriters == {"createlog", "appendlog", "rewrite"}
IndexWriters == {"writehash", "rewrite"}

(***************************************************************************)
(* The inductive invariant.  What is said of a process is said of its      *)
(* record r, the logs ls, the names ln and the indexes ix.                 *)
(***************************************************************************)
FileTypes(ls, ln, ix) ==
  /\ ls \in Seq(LogFile) /\ Len(ls) <= MaxFiles
  /\ ln \in [Pair -> 0 .. Len(ls)]
  /\ ix \in [Pair -> Index] /\ \A a \in Pair : ix[a].id <= Len(ls)

\* No two pairs have the same log.
NamesApart(ln) == \A a, b \in Pair : ln[a] = ln[b] /\ ln[a] # 0 => a = b

\* The index lists the live entries of the log it is of.
Honest(i, ls) ==
  /\ i.id # 0 /\ i.end <= i.scanned /\ i.scanned <= Len(ls[i.id].entries)
  /\ i.live = LiveAt(ls[i.id].entries, i.scanned)

IndexesHonest(ls, ln, ix) ==
  \A a \in Pair : ix[a].id # 0 /\ ix[a].id = ln[a] => Honest(ix[a], ls)

\* A header that was loaded from a log, which may have grown since.
Loaded(h, ls) == /\ h \in LogHeader /\ h.file <= Len(ls)
                 /\ h.file # 0 => h.end <= Len(ls[h.file].entries)

RecordInv(r, ls) ==
  /\ DOMAIN r = FieldNames
  /\ r.exit \in {0, 1, 2, 9} /\ r.compression \in Compressions /\ r.block \in Int
  /\ Loaded(r.hdr, ls) /\ Loaded(r.loaded, ls)
  /\ r.data \in 0 .. Len(ls) /\ r.done \in Nat
  /\ r.index \in Index /\ r.map \in Index /\ r.built \in Index
  /\ r.index.id <= Len(ls) /\ r.built.id <= Len(ls)
  /\ r.buf \in Seq(Entries) /\ r.given \in Seq(Entries \cup {BadLine})
  /\ r.pc # "exited" /\ r.cmd \in LogWriters \cup IndexWriters => r.out \in Pair
  /\ r.pc # "exited" /\ r.cmd \in {"get", "rewrite"} => r.pair \in Pair

\* get and rewrite: an index that names the log next to it is of that log.
ReadInv(r, ls, ln) ==
  r.cmd \in {"get", "rewrite"} =>
    /\ r.pc = "openlog" => r.index.id # 0 /\ (r.index.id = ln[r.pair] => Honest(r.index, ls))
    /\ r.pc \in {"opendata", "opencheck"} =>
         r.hdr.file # 0 /\ (r.index.id = r.hdr.file => Honest(r.index, ls))
    /\ r.pc = "opencheck" => r.data # 0
    /\ r.pc \in {"lookup", "options", "create", "created", "copy"} =>
         r.hdr.file # 0 /\ r.data # 0 /\ r.index.id = r.hdr.file /\ Honest(r.index, ls)

\* get has answered.
Answered(r, ls) ==
  LET es == ls[r.index.id].entries
      hits == {q \in LiveAt(es, r.index.scanned) : es[q].key = r.key}
  IN  IF r.exit = 0 THEN \E q \in hits : es[q].value = r.value ELSE hits = {}

GetInv(r, ls) ==
  Exited(r, "get") /\ r.exit \in {0, 2} /\ ~Mixed(r) => Honest(r.index, ls) /\ Answered(r, ls)

\* What appendlog has put, compared with its input.
LinesPut(r) == /\ r.junk \/ IsPrefix(r.buf, r.given)
               /\ r.exit = 0 /\ ~r.long => r.buf = r.given
               /\ r.failed => r.exit = 1
               /\ r.exit = 1 /\ ~r.junk /\ ~r.failed => r.given = Append(r.buf, BadLine)

\* appendlog is alone with its log from the load of the header to the close.
AppendInv(r, ls, ln) ==
  r.cmd = "appendlog" =>
    /\ r.pc \in {"append", "lines"} =>
         r.buf = r.given /\ ~r.junk /\ ~r.failed /\ r.exit = 0
    /\ r.pc \in {"lines", "close"} => /\ r.hdr.file # 0 /\ r.hdr.file = ln[r.out]
                                      /\ r.hdr.end = Len(ls[r.hdr.file].entries)
    /\ r.pc = "close" => LinesPut(r)
    /\ r.pc = "exited" /\ r.hdr.file # 0 =>
         LET es == ls[r.hdr.file].entries
         IN  /\ r.hdr.end + Len(r.buf) <= Len(es)
             /\ \A i \in 1 .. Len(r.buf) : es[r.hdr.end + i] = r.buf[i]
             /\ LinesPut(r)

\* writehash and rewrite: an index that is written under the name of its log
\* is of that log.
BuildInv(r, ls, ln) ==
  r.cmd \in IndexWriters =>
    /\ r.pc = "hashopen" => r.loaded.file # 0
    /\ r.pc \in {"hashremove", "hashwrite"} =>
         r.built.id # 0 /\ (r.built.id = ln[r.out] => Honest(r.built, ls))

\* The first n entries of log f, put by rewrite, are those of log g.
Copies(ls, f, g, n) ==
  /\ n <= Len(ls[f].entries) /\ n <= Len(ls[g].entries)
  /\ \A q \in 1 .. n : ls[f].entries[q] = RewritePut(ls[g].entries[q])

Opening == {"openindex", "openlog", "opendata", "opencheck", "options", "create"}
Indexing == {"hashload", "hashopen", "hashremove", "hashwrite"}

\* rewrite is alone with its output: it is as it was until the new log is
\* created, and then has the entries that were copied.
RewriteInv(r, ls, ln, ix) ==
  r.cmd = "rewrite" =>
    /\ r.pc # "exited" => r.exit = 0
    /\ r.pc \in Opening => r.before = <<ln[r.out], ix[r.out]>>
    /\ r.pc \in Opening \cup {"created"} => r.buf = << >> /\ r.done = 0
    /\ r.pc \notin Opening \cup {"exited"} => ix[r.out].id = 0 \/ ix[r.out].id # ln[r.out]
    /\ r.pc \in {"copy"} \cup Indexing =>
         ln[r.out] # 0 /\ ix[r.out].id # ln[r.out] /\ ~ls[ln[r.out]].damaged
    /\ r.pc = "copy" =>
         /\ ls[ln[r.out]].entries = << >>
         /\ Len(r.buf) = r.done /\ r.done <= r.hdr.end /\ r.done <= Len(ls[r.data].entries)
         /\ \A q \in 1 .. r.done : r.buf[q] = RewritePut(ls[r.data].entries[q])
    /\ r.pc \in Indexing /\ ~Mixed(r) =>
         /\ r.hdr.file # 0 /\ Len(ls[ln[r.out]].entries) = r.hdr.end
         /\ Copies(ls, ln[r.out], r.hdr.file, r.hdr.end)
    /\ r.pc = "hashopen" => /\ r.loaded.file = ln[r.out]
                            /\ r.loaded.end = Len(ls[ln[r.out]].entries)
    /\ r.pc \in {"hashremove", "hashwrite"} => /\ r.built.id = ln[r.out]
                                               /\ r.built.end = Len(ls[ln[r.out]].entries)
    /\ r.pc = "exited" /\ r.exit = 0 /\ ~Mixed(r) =>
         /\ r.hdr.file # 0 /\ r.built.id # 0 /\ r.built.end = r.hdr.end
         /\ Copies(ls, r.built.id, r.hdr.file, r.hdr.end)

ProcInv(r, ls, ln, ix) ==
  /\ RecordInv(r, ls) /\ ReadInv(r, ls, ln) /\ GetInv(r, ls)
  /\ AppendInv(r, ls, ln) /\ BuildInv(r, ls, ln) /\ RewriteInv(r, ls, ln, ix)

\* Only one process writes to a file.
Apart(r, s) ==
  r.pc # "exited" /\ s.pc # "exited" =>
    /\ r.cmd \in LogWriters /\ s.cmd \in LogWriters => r.out # s.out
    /\ r.cmd \in IndexWriters /\ s.cmd \in IndexWriters => r.out # s.out

ToolInv ==
  /\ FileTypes(logs, logName, index) /\ NamesApart(logName)
  /\ IndexesHonest(logs, logName, index)
  /\ DOMAIN proc = Proc
  /\ \A p \in Proc : ProcInv(proc[p], logs, logName, index)
  /\ \A p, q \in Proc : p # q => Apart(proc[p], proc[q])

-----------------------------------------------------------------------------
(***************************************************************************)
(* What a step may do to the files.                                        *)
(***************************************************************************)

\* Logs are added, and grow behind the entries they have.
Grown(ls, ls2) ==
  /\ Len(ls) <= Len(ls2)
  /\ \A f \in 1 .. Len(ls) :
       /\ Len(ls[f].entries) <= Len(ls2[f].entries)
       /\ \A q \in 1 .. Len(ls[f].entries) : ls2[f].entries[q] = ls[f].entries[q]

\* The name lb loses its log, gets a new one or sees it grow; the other names
\* and logs stay, and so do the indexes other than ib.
FilesStep(lb, ib, ls, ln, ix, ls2, ln2, ix2) ==
  /\ Grown(ls, ls2)
  /\ \A a \in Pair : a # lb => ln2[a] = ln[a]
  /\ \A a \in Pair : ln2[a] = ln[a] \/ ln2[a] = 0 \/ ln2[a] > Len(ls)
  /\ \A f \in 1 .. Len(ls) : (\A a \in Pair : a = lb => f # ln[a])
                               => ls2[f] = ls[f]
  /\ \A a \in Pair : a # ib => ix2[a] = ix[a]

\* The empty index and the empty header have the types of the others.
LEMMA NoneTypes ==
  /\ NoIndex \in Index /\ NoIndex.id = 0 /\ NoLog \in LogHeader /\ NoLog.file = 0
BY DEF NoIndex, NoLog, Index, LogHeader

\* The live entries among the first n do not depend on what follows.
LEMMA LiveSame ==
  ASSUME NEW es, NEW fs, NEW n \in Nat, \A q \in 1 .. n : es[q] = fs[q]
  PROVE  LiveAt(es, n) = LiveAt(fs, n)
<1>1. ASSUME NEW q \in 1 .. n
      PROVE  (\A r \in q + 1 .. n : es[r].key # es[q].key)
               <=> (\A r \in q + 1 .. n : fs[r].key # fs[q].key)
  <2>1. \A r \in q + 1 .. n : r \in 1 .. n
    OBVIOUS
  <2> QED
    BY <2>1
<1> QED
  BY <1>1 DEF LiveAt

\* The types of what the logs hold.
LEMMA LogFacts ==
  ASSUME NEW ls \in Seq(LogFile), NEW f \in 1 .. Len(ls)
  PROVE  /\ ls[f] \in LogFile /\ ls[f].entries \in Seq(Entries) /\ Len(ls[f].entries) \in Nat
         /\ Len(ls) \in Nat /\ f \in DOMAIN ls
<1>1. ls[f] \in LogFile
  OBVIOUS
<1>2. ls[f].entries \in Seq(Entries)
  BY <1>1 DEF LogFile
<1> QED
  BY <1>1, <1>2

\* An honest index stays honest when logs grow.
LEMMA HonestGrows ==
  ASSUME NEW ls \in Seq(LogFile), NEW ls2 \in Seq(LogFile), Grown(ls, ls2),
         NEW i \in Index, i.id <= Len(ls), Honest(i, ls)
  PROVE  /\ Honest(i, ls2)
         /\ LiveAt(ls2[i.id].entries, i.scanned) = LiveAt(ls[i.id].entries, i.scanned)
         /\ \A q \in 1 .. i.scanned : ls2[i.id].entries[q] = ls[i.id].entries[q]
<1> DEFINE es == ls[i.id].entries
           fs == ls2[i.id].entries
           n == i.scanned
<1>1. i.id \in 1 .. Len(ls) /\ n \in Nat /\ i.end \in Nat
  BY DEF Index, Honest
<1>2. Len(es) \in Nat /\ n <= Len(es) /\ i.end <= n
  BY <1>1, LogFacts DEF Honest
<1>3. Len(es) <= Len(fs) /\ \A q \in 1 .. Len(es) : fs[q] = es[q]
  BY <1>1 DEF Grown
<1>4. i.id \in 1 .. Len(ls2) /\ Len(fs) \in Nat
  <2>1. i.id \in 1 .. Len(ls2)
    BY <1>1 DEF Grown
  <2> QED
    BY <2>1, LogFacts
<1> HIDE DEF es, fs, n
<1>5. (\A q \in 1 .. n : fs[q] = es[q]) /\ n <= Len(fs)
  <2>1. \A q \in 1 .. n : q \in 1 .. Len(es)
    BY <1>1, <1>2
  <2>2. n <= Len(fs)
    BY <1>1, <1>2, <1>3, <1>4
  <2> QED
    BY <1>3, <2>1, <2>2
<1>6. LiveAt(fs, n) = LiveAt(es, n)
  BY <1>1, <1>5, LiveSame
<1> QED
  BY <1>2, <1>5, <1>6 DEF Honest, es, fs, n

\* A loaded header stays within a log that grows.
LEMMA LoadedGrows ==
  ASSUME NEW ls \in Seq(LogFile), NEW ls2 \in Seq(LogFile), Grown(ls, ls2),
         NEW h, Loaded(h, ls)
  PROVE  Loaded(h, ls2)
<1>1. h.file \in Nat /\ h.end \in Nat /\ h.file <= Len(ls) /\ Len(ls) \in Nat /\ Len(ls2) \in Nat
      /\ Len(ls) <= Len(ls2)
  BY DEF Loaded, LogHeader, Grown
<1>2. CASE h.file # 0
  <2>1. h.file \in 1 .. Len(ls) /\ h.file \in 1 .. Len(ls2)
    BY <1>1, <1>2
  <2>2. Len(ls[h.file].entries) \in Nat /\ Len(ls2[h.file].entries) \in Nat
    BY <2>1, LogFacts
  <2>3. Len(ls[h.file].entries) <= Len(ls2[h.file].entries) /\ h.end <= Len(ls[h.file].entries)
    BY <1>2, <2>1 DEF Grown, Loaded
  <2> QED
    BY <1>1, <2>2, <2>3 DEF Loaded
<1>3. CASE h.file = 0
  BY <1>1, <1>3 DEF Loaded
<1> QED
  BY <1>2, <1>3

\* So does a copy.
LEMMA CopiesGrow ==
  ASSUME NEW ls \in Seq(LogFile), NEW ls2 \in Seq(LogFile), Grown(ls, ls2),
         NEW f \in 1 .. Len(ls), NEW g \in 1 .. Len(ls), NEW n \in Nat, Copies(ls, f, g, n)
  PROVE  Copies(ls2, f, g, n)
<1>1. f \in 1 .. Len(ls2) /\ g \in 1 .. Len(ls2)
  BY DEF Grown
<1>2. /\ Len(ls[f].entries) \in Nat /\ Len(ls2[f].entries) \in Nat
      /\ Len(ls[g].entries) \in Nat /\ Len(ls2[g].entries) \in Nat
  BY <1>1, LogFacts
<1>3. /\ Len(ls[f].entries) <= Len(ls2[f].entries) /\ Len(ls[g].entries) <= Len(ls2[g].entries)
      /\ n <= Len(ls[f].entries) /\ n <= Len(ls[g].entries)
  BY DEF Grown, Copies
<1>4. \A q \in 1 .. n : q \in 1 .. Len(ls[f].entries) /\ q \in 1 .. Len(ls[g].entries)
  BY <1>2, <1>3
<1>5. \A q \in 1 .. n : /\ ls2[f].entries[q] = ls[f].entries[q]
                        /\ ls2[g].entries[q] = ls[g].entries[q]
  BY <1>4 DEF Grown
<1>6. n <= Len(ls2[f].entries) /\ n <= Len(ls2[g].entries)
  BY SMTT(40), <1>2, <1>3
<1> QED
  BY <1>5, <1>6 DEF Copies

\* The files as they are.
LEMMA FilesStay ==
  ASSUME NEW ls \in Seq(LogFile), NEW ln, NEW ix, NEW lb, NEW ib
  PROVE  Grown(ls, ls) /\ FilesStep(lb, ib, ls, ln, ix, ls, ln, ix)
<1>1. Len(ls) \in Nat /\ \A f \in 1 .. Len(ls) : Len(ls[f].entries) \in Nat
  BY LogFacts
<1> QED
  BY <1>1 DEF Grown, FilesStep

\* A good record stays one when logs grow.
LEMMA RecordGrows ==
  ASSUME NEW ls \in Seq(LogFile), NEW ls2 \in Seq(LogFile), Grown(ls, ls2),
         NEW r, RecordInv(r, ls)
  PROVE  RecordInv(r, ls2)
<1>1. Loaded(r.hdr, ls2) /\ Loaded(r.loaded, ls2)
  BY LoadedGrows DEF RecordInv
<1>2. r.data \in 0 .. Len(ls2) /\ r.index.id <= Len(ls2) /\ r.built.id <= Len(ls2)
  <2>1. /\ r.data \in 0 .. Len(ls) /\ r.index.id <= Len(ls) /\ r.built.id <= Len(ls)
        /\ r.index \in Index /\ r.built \in Index
    BY DEF RecordInv
  <2>2. r.index.id \in Nat /\ r.built.id \in Nat
    BY <2>1 DEF Index
  <2>3. Len(ls) \in Nat /\ Len(ls2) \in Nat /\ Len(ls) <= Len(ls2)
    BY DEF Grown
  <2> QED
    BY <2>1, <2>2, <2>3
<1> QED
  BY <1>1, <1>2 DEF RecordInv

\* A process that does not write to the files that change keeps what is
\* true of it.
LEMMA OthersKeep ==
  ASSUME NEW ls, NEW ln, NEW ix, NEW ls2, NEW ln2, NEW ix2, NEW lb, NEW ib,
         FileTypes(ls, ln, ix), FileTypes(ls2, ln2, ix2), NamesApart(ln),
         FilesStep(lb, ib, ls, ln, ix, ls2, ln2, ix2),
         NEW r, ProcInv(r, ls, ln, ix),
         r.pc # "exited" /\ r.cmd \in LogWriters => r.out # lb,
         r.pc # "exited" /\ r.cmd \in IndexWriters => r.out # ib
  PROVE  ProcInv(r, ls2, ln2, ix2)
<1>1. /\ ls \in Seq(LogFile) /\ ls2 \in Seq(LogFile) /\ Grown(ls, ls2)
      /\ Len(ls) \in Nat /\ Len(ls2) \in Nat /\ Len(ls) <= Len(ls2)
  BY DEF FileTypes, FilesStep, Grown
<1>2. /\ RecordInv(r, ls) /\ ReadInv(r, ls, ln) /\ GetInv(r, ls)
      /\ AppendInv(r, ls, ln) /\ BuildInv(r, ls, ln) /\ RewriteInv(r, ls, ln, ix)
  BY DEF ProcInv
<1>3. /\ r.index \in Index /\ r.index.id \in Nat /\ r.index.id <= Len(ls) /\ r.index.scanned \in Nat
      /\ r.built \in Index /\ r.built.id \in Nat /\ r.built.id <= Len(ls)
      /\ r.hdr.file \in Nat /\ r.hdr.end \in Nat /\ r.hdr.file <= Len(ls)
      /\ r.data \in 0 .. Len(ls) /\ r.done \in Nat /\ Len(r.buf) \in Nat
  <2>1. r.index \in Index /\ r.built \in Index /\ r.index.id <= Len(ls) /\ r.built.id <= Len(ls)
    BY <1>2 DEF RecordInv
  <2>2. r.index.id \in Nat /\ r.index.scanned \in Nat /\ r.built.id \in Nat
    BY <2>1 DEF Index
  <2>3. r.hdr \in LogHeader /\ r.hdr.file <= Len(ls)
    BY <1>2 DEF RecordInv, Loaded
  <2>4. r.hdr.file \in Nat /\ r.hdr.end \in Nat
    BY <2>3 DEF LogHeader
  <2>5. r.data \in 0 .. Len(ls) /\ r.done \in Nat /\ r.buf \in Seq(Entries)
    BY <1>2 DEF RecordInv
  <2>6. Len(r.buf) \in Nat
    BY <2>5
  <2> QED
    BY <2>1, <2>2, <2>3, <2>4, <2>5, <2>6
<1>4. RecordInv(r, ls2)
  BY <1>1, <1>2, RecordGrows
<1>5. \A a \in Pair : /\ ln[a] \in 0 .. Len(ls) /\ ln2[a] \in 0 .. Len(ls2)
                      /\ ln2[a] = ln[a] \/ ln2[a] = 0 \/ ln2[a] > Len(ls)
  BY DEF FileTypes, FilesStep
<1>6. /\ Honest(r.index, ls) => Honest(r.index, ls2)
      /\ Honest(r.built, ls) => Honest(r.built, ls2)
  BY <1>1, <1>3, HonestGrows
<1>7. ReadInv(r, ls2, ln2)
  <2>1. ASSUME r.cmd \in {"get", "rewrite"}, r.pc = "openlog", r.index.id = ln2[r.pair]
        PROVE  Honest(r.index, ls2)
    <3>1. r.pair \in Pair /\ r.index.id # 0
      BY <1>2, <2>1 DEF RecordInv, ReadInv
    <3>2. ln2[r.pair] = ln[r.pair]
      BY <1>1, <1>3, <1>5, <2>1, <3>1
    <3> QED
      BY <1>2, <1>6, <2>1, <3>2 DEF ReadInv
  <2> QED
    BY <1>2, <1>6, <2>1 DEF ReadInv
<1>8. GetInv(r, ls2)
  <2> SUFFICES ASSUME Exited(r, "get"), r.exit \in {0, 2}, ~Mixed(r)
               PROVE  Honest(r.index, ls2) /\ Answered(r, ls2)
    BY DEF GetInv
  <2>1. Honest(r.index, ls) /\ Answered(r, ls)
    BY <1>2 DEF GetInv
  <2> DEFINE es == ls[r.index.id].entries
             fs == ls2[r.index.id].entries
             n == r.index.scanned
  <2>2. Honest(r.index, ls2) /\ LiveAt(fs, n) = LiveAt(es, n) /\ \A q \in 1 .. n : fs[q] = es[q]
    BY <1>1, <1>3, <2>1, HonestGrows
  <2>3. Answered(r, ls) =
          (LET hits == {q \in LiveAt(es, n) : es[q].key = r.key}
           IN  IF r.exit = 0 THEN \E q \in hits : es[q].value = r.value ELSE hits = {})
    BY DEF Answered
  <2>4. Answered(r, ls2) =
          (LET hits == {q \in LiveAt(fs, n) : fs[q].key = r.key}
           IN  IF r.exit = 0 THEN \E q \in hits : fs[q].value = r.value ELSE hits = {})
    BY DEF Answered
  <2> HIDE DEF es, fs, n
  <2>5. \A q \in LiveAt(es, n) : fs[q] = es[q]
    BY <2>2 DEF LiveAt
  <2> QED
    BY ZenonT(60), <2>1, <2>2, <2>3, <2>4, <2>5
<1>9. r.pc # "exited" /\ r.cmd \in LogWriters =>
        /\ r.out \in Pair /\ ln2[r.out] = ln[r.out] /\ ln[r.out] \in 0 .. Len(ls)
        /\ ln[r.out] # 0 => ls2[ln[r.out]] = ls[ln[r.out]]
  <2> SUFFICES ASSUME r.pc # "exited", r.cmd \in LogWriters
               PROVE  /\ r.out \in Pair /\ ln2[r.out] = ln[r.out] /\ ln[r.out] \in 0 .. Len(ls)
                      /\ ln[r.out] # 0 => ls2[ln[r.out]] = ls[ln[r.out]]
    OBVIOUS
  <2>1. r.out \in Pair /\ r.out # lb
    BY <1>2 DEF RecordInv
  <2>2. ln2[r.out] = ln[r.out] /\ ln[r.out] \in 0 .. Len(ls)
    BY <1>5, <2>1 DEF FilesStep
  <2>3. ASSUME ln[r.out] # 0 PROVE ls2[ln[r.out]] = ls[ln[r.out]]
    <3>1. ln[r.out] \in 1 .. Len(ls)
      BY <1>1, <2>2, <2>3
    <3>2. \A a \in Pair : a = lb => ln[r.out] # ln[a]
      BY <2>1, <2>3 DEF NamesApart
    <3> QED
      BY <3>1, <3>2 DEF FilesStep
  <2> QED
    BY <2>1, <2>2, <2>3
<1>10. AppendInv(r, ls2, ln2)
  <2> SUFFICES ASSUME r.cmd = "appendlog" PROVE AppendInv(r, ls2, ln2)
    BY DEF AppendInv
  <2>1. r.pc \in {"lines", "close"} => /\ r.hdr.file # 0 /\ r.hdr.file = ln2[r.out]
                                       /\ r.hdr.end = Len(ls2[r.hdr.file].entries)
    BY <1>2, <1>9 DEF AppendInv, LogWriters
  <2>2. ASSUME r.pc = "exited", r.hdr.file # 0
        PROVE  /\ r.hdr.end + Len(r.buf) <= Len(ls2[r.hdr.file].entries)
               /\ \A i \in 1 .. Len(r.buf) : ls2[r.hdr.file].entries[r.hdr.end + i] = r.buf[i]
               /\ LinesPut(r)
    <3> DEFINE es == ls[r.hdr.file].entries
               fs == ls2[r.hdr.file].entries
               m == r.hdr.end
               b == r.buf
    <3>1. r.hdr.file \in 1 .. Len(ls) /\ r.hdr.file \in 1 .. Len(ls2)
      BY <1>1, <1>3, <2>2
    <3>2. m + Len(b) <= Len(es) /\ (\A i \in 1 .. Len(b) : es[m + i] = b[i]) /\ LinesPut(r)
      BY <1>2, <2>2 DEF AppendInv
    <3>3. Len(es) <= Len(fs) /\ \A q \in 1 .. Len(es) : fs[q] = es[q]
      BY <1>1, <3>1 DEF Grown
    <3>4. Len(es) \in Nat /\ Len(fs) \in Nat /\ m \in Nat /\ Len(b) \in Nat
      BY <1>1, <1>3, <3>1, LogFacts
    <3> HIDE DEF es, fs, m, b
    <3>5. \A i \in 1 .. Len(b) : m + i \in 1 .. Len(es)
      BY <3>2, <3>4
    <3>6. \A i \in 1 .. Len(b) : fs[m + i] = b[i]
      BY <3>2, <3>3, <3>5
    <3>7. m + Len(b) <= Len(fs)
      BY <3>2, <3>3, <3>4
    <3> QED
      BY <3>2, <3>6, <3>7 DEF fs, m, b
  <2> QED
    BY <1>2, <2>1, <2>2 DEF AppendInv
<1>11. BuildInv(r, ls2, ln2)
  <2>1. ASSUME r.cmd \in IndexWriters, r.pc \in {"hashremove", "hashwrite"},
               r.built.id = ln2[r.out]
        PROVE  Honest(r.built, ls2)
    <3>1. r.out \in Pair /\ r.built.id # 0
      BY <1>2, <2>1 DEF RecordInv, BuildInv
    <3>2. ln2[r.out] = ln[r.out]
      BY <1>1, <1>3, <1>5, <2>1, <3>1
    <3> QED
      BY <1>2, <1>6, <2>1, <3>2 DEF BuildInv
  <2> QED
    BY <1>2, <2>1 DEF BuildInv
<1>12. RewriteInv(r, ls2, ln2, ix2)
  <2> SUFFICES ASSUME r.cmd = "rewrite" PROVE RewriteInv(r, ls2, ln2, ix2)
    BY DEF RewriteInv
  <2>0. r.cmd \in LogWriters /\ r.cmd \in IndexWriters
    BY DEF LogWriters, IndexWriters
  <2>1. r.pc # "exited" => /\ r.out \in Pair /\ ln2[r.out] = ln[r.out] /\ ln[r.out] \in 0 .. Len(ls)
                           /\ ix2[r.out] = ix[r.out]
                           /\ ln[r.out] # 0 => ls2[ln[r.out]] = ls[ln[r.out]]
    BY <1>9, <2>0 DEF FilesStep
  <2>2. ASSUME r.pc = "copy"
        PROVE  /\ r.done <= Len(ls2[r.data].entries)
               /\ \A q \in 1 .. r.done : r.buf[q] = RewritePut(ls2[r.data].entries[q])
    <3>1. r.data \in 1 .. Len(ls) /\ r.data \in 1 .. Len(ls2)
      BY <1>1, <1>2, <1>3, <2>2 DEF ReadInv
    <3>2. /\ r.done <= Len(ls[r.data].entries)
          /\ \A q \in 1 .. r.done : r.buf[q] = RewritePut(ls[r.data].entries[q])
      BY <1>2, <2>2 DEF RewriteInv
    <3>3. /\ Len(ls[r.data].entries) <= Len(ls2[r.data].entries)
          /\ \A q \in 1 .. Len(ls[r.data].entries) : ls2[r.data].entries[q] = ls[r.data].entries[q]
      BY <1>1, <3>1 DEF Grown
    <3>4. Len(ls[r.data].entries) \in Nat /\ Len(ls2[r.data].entries) \in Nat
      BY <1>1, <3>1, LogFacts
    <3>5. r.done <= Len(ls2[r.data].entries)
          /\ \A q \in 1 .. r.done : q \in 1 .. Len(ls[r.data].entries)
      BY SMTT(40), <1>3, <3>2, <3>3, <3>4
    <3> QED
      BY <3>2, <3>3, <3>5
  <2>3. ASSUME r.pc \in Indexing, ~Mixed(r)
        PROVE  Copies(ls2, ln[r.out], r.hdr.file, r.hdr.end)
    <3>1. /\ r.pc # "exited" /\ ln[r.out] # 0 /\ r.hdr.file # 0
          /\ Copies(ls, ln[r.out], r.hdr.file, r.hdr.end)
      BY <1>2, <2>3 DEF RewriteInv, Indexing
    <3>2. ln[r.out] \in 1 .. Len(ls) /\ r.hdr.file \in 1 .. Len(ls)
      BY <1>1, <1>3, <2>1, <3>1
    <3> QED
      BY <1>1, <1>3, <3>1, <3>2, CopiesGrow
  <2>4. ASSUME r.pc = "exited", r.exit = 0, ~Mixed(r)
        PROVE  Copies(ls2, r.built.id, r.hdr.file, r.hdr.end)
    <3>1. /\ r.built.id # 0 /\ r.hdr.file # 0 /\ Copies(ls, r.built.id, r.hdr.file, r.hdr.end)
      BY <1>2, <2>4 DEF RewriteInv
    <3>2. r.built.id \in 1 .. Len(ls) /\ r.hdr.file \in 1 .. Len(ls)
      BY <1>1, <1>3, <3>1
    <3> QED
      BY <1>1, <1>3, <3>1, <3>2, CopiesGrow
  <2>5. CASE r.pc = "exited"
    BY <1>2, <2>4, <2>5 DEF RewriteInv, Opening, Indexing
  <2>6. CASE r.pc \in Opening
    <3>1. r.pc # "exited"
      BY <2>6 DEF Opening
    <3> QED
      BY <1>2, <2>1, <2>6, <3>1 DEF RewriteInv, Opening, Indexing
  <2>7. CASE r.pc \in {"copy"} \cup Indexing
    <3>1. /\ r.pc # "exited" /\ ~(r.pc \in Opening \cup {"created"}) /\ ~(r.pc \in Opening)
          /\ r.pc = "copy" => ~(r.pc \in Indexing)
      BY <2>7 DEF Opening, Indexing
    <3>2. /\ r.exit = 0 /\ ln2[r.out] # 0 /\ ix2[r.out].id # ln2[r.out]
          /\ ln2[r.out] = ln[r.out] /\ ls2[ln2[r.out]] = ls[ln[r.out]]
          /\ ~ls2[ln2[r.out]].damaged
      BY <1>2, <2>1, <2>7, <3>1 DEF RewriteInv
    <3>3. r.pc = "copy" => /\ ls2[ln2[r.out]].entries = << >>
                           /\ Len(r.buf) = r.done /\ r.done <= r.hdr.end
      BY <1>2, <3>2 DEF RewriteInv
    <3>4. r.pc \in Indexing /\ ~Mixed(r) =>
            r.hdr.file # 0 /\ Len(ls2[ln2[r.out]].entries) = r.hdr.end
      BY <1>2, <3>2 DEF RewriteInv
    <3>5. /\ r.pc = "hashopen" => /\ r.loaded.file = ln2[r.out]
                                  /\ r.loaded.end = Len(ls2[ln2[r.out]].entries)
          /\ r.pc \in {"hashremove", "hashwrite"} =>
               r.built.id = ln2[r.out] /\ r.built.end = Len(ls2[ln2[r.out]].entries)
      BY <1>2, <3>2 DEF RewriteInv
    <3> QED
      BY <2>2, <2>3, <3>1, <3>2, <3>3, <3>4, <3>5 DEF RewriteInv
  <2>8. CASE ~(r.pc \in {"copy", "exited"} \cup Opening \cup Indexing)
    BY <1>2, <2>1, <2>8 DEF RewriteInv, Indexing
  <2> QED
    BY <2>5, <2>6, <2>7, <2>8
<1> QED
  BY <1>4, <1>7, <1>8, <1>10, <1>11, <1>12 DEF ProcInv

(***************************************************************************)
(* A step of one process.                                                  *)
(***************************************************************************)

\* There is something that is no process's output.
LEMMA NoName == \E b : \A q \in Proc : proc[q].out # b
<1> DEFINE S == {proc[q].out : q \in Proc}
           x == {y \in S : ~(y \in y)}
<1>1. ~(x \in S)
  OBVIOUS
<1> QED
  BY <1>1

\* What has to be shown of a step that leaves process p with record s and
\* changes at most log lb and index ib.
StepOK(p, s, lb, ib) ==
  /\ proc' = [proc EXCEPT ![p] = s]
  /\ FileTypes(logs', logName', index') /\ NamesApart(logName')
  /\ IndexesHonest(logs', logName', index')
  /\ FilesStep(lb, ib, logs, logName, index, logs', logName', index')
  /\ \A q \in Proc \ {p} : proc[q].pc # "exited" =>
       /\ proc[q].cmd \in LogWriters => proc[q].out # lb
       /\ proc[q].cmd \in IndexWriters => proc[q].out # ib
  /\ ProcInv(s, logs', logName', index')
  /\ \A q \in Proc \ {p} : Apart(s, proc[q])

\* Such a step keeps the invariant.
LEMMA ProcStep ==
  ASSUME ToolInv, NEW p \in Proc, NEW s, NEW lb, NEW ib, StepOK(p, s, lb, ib)
  PROVE  ToolInv'
<1>0. /\ proc' = [proc EXCEPT ![p] = s]
      /\ FileTypes(logs', logName', index') /\ NamesApart(logName')
      /\ IndexesHonest(logs', logName', index')
      /\ FilesStep(lb, ib, logs, logName, index, logs', logName', index')
      /\ ProcInv(s, logs', logName', index')
      /\ \A q \in Proc \ {p} : Apart(s, proc[q])
  BY DEF StepOK
<1>1. DOMAIN proc' = Proc /\ proc'[p] = s /\ \A q \in Proc \ {p} : proc'[q] = proc[q]
  BY <1>0 DEF ToolInv
<1>2. ASSUME NEW q \in Proc PROVE ProcInv(proc'[q], logs', logName', index')
  <2>1. CASE q = p
    BY <1>0, <1>1, <2>1
  <2>2. CASE q # p
    <3>1. ProcInv(proc[q], logs, logName, index)
      BY DEF ToolInv
    <3>2. FileTypes(logs, logName, index) /\ NamesApart(logName)
      BY DEF ToolInv
    <3>3. /\ proc[q].pc # "exited" /\ proc[q].cmd \in LogWriters => proc[q].out # lb
          /\ proc[q].pc # "exited" /\ proc[q].cmd \in IndexWriters => proc[q].out # ib
      BY <2>2 DEF StepOK
    <3>4. ProcInv(proc[q], logs', logName', index')
      BY <1>0, <3>1, <3>2, <3>3, OthersKeep
    <3> QED
      BY <1>1, <2>2, <3>4
  <2> QED
    BY <2>1, <2>2
<1>3. ASSUME NEW q \in Proc, NEW r \in Proc, q # r PROVE Apart(proc'[q], proc'[r])
  <2>1. CASE q # p /\ r # p
    BY <1>1, <1>3, <2>1 DEF ToolInv
  <2>2. CASE q = p
    BY <1>0, <1>1, <1>3, <2>2
  <2>3. CASE r = p
    <3>1. Apart(s, proc[q])
      BY <1>0, <1>3, <2>3
    <3>2. Apart(proc[q], s)
      BY <3>1 DEF Apart
    <3> QED
      BY <1>1, <1>3, <2>3, <3>2
  <2> QED
    BY <2>1, <2>2, <2>3
<1> QED
  BY <1>0, <1>1, <1>2, <1>3 DEF ToolInv

\* A process goes on, or exits, and leaves the files alone.
LEMMA QuietStep ==
  ASSUME ToolInv, NEW p \in Proc, NEW s, proc' = [proc EXCEPT ![p] = s],
         logs' = logs, logName' = logName, index' = index,
         ProcInv(s, logs, logName, index),
         \/ s.pc = "exited"
         \/ proc[p].pc # "exited" /\ s.cmd = proc[p].cmd /\ s.out = proc[p].out
  PROVE  ToolInv'
<1>1. /\ FileTypes(logs, logName, index) /\ NamesApart(logName)
      /\ IndexesHonest(logs, logName, index)
      /\ \A q \in Proc \ {p} : Apart(proc[p], proc[q])
  BY DEF ToolInv
<1>2. \A q \in Proc \ {p} : Apart(s, proc[q])
  BY <1>1 DEF Apart
<1>3. PICK b : \A q \in Proc : proc[q].out # b
  BY NoName
<1>4. FilesStep(b, b, logs, logName, index, logs', logName', index')
  BY <1>1, FilesStay DEF FileTypes
<1>5. StepOK(p, s, b, b)
  BY <1>1, <1>2, <1>3, <1>4 DEF StepOK
<1> QED
  BY <1>5, ProcStep

\* A log writer changes the log of its name.
LEMMA LogStep ==
  ASSUME ToolInv, NEW p \in Proc, NEW s, proc' = [proc EXCEPT ![p] = s],
         proc[p].pc # "exited", proc[p].cmd \in LogWriters,
         FileTypes(logs', logName', index'), NamesApart(logName'),
         IndexesHonest(logs', logName', index'), index' = index,
         FilesStep(proc[p].out, proc[p].out, logs, logName, index, logs', logName', index'),
         ProcInv(s, logs', logName', index'),
         s.pc = "exited" \/ (s.cmd = proc[p].cmd /\ s.out = proc[p].out)
  PROVE  ToolInv'
<1>1. \A q \in Proc \ {p} : Apart(proc[p], proc[q])
  BY DEF ToolInv
<1>2. \A q \in Proc \ {p} : Apart(s, proc[q])
  BY <1>1 DEF Apart
<1>3. PICK b : \A q \in Proc : proc[q].out # b
  BY NoName
<1>4. FilesStep(proc[p].out, b, logs, logName, index, logs', logName', index')
  BY DEF FilesStep
<1>5. \A q \in Proc \ {p} : proc[q].pc # "exited" =>
        /\ proc[q].cmd \in LogWriters => proc[q].out # proc[p].out
        /\ proc[q].cmd \in IndexWriters => proc[q].out # b
  BY <1>1, <1>3 DEF Apart
<1>6. StepOK(p, s, proc[p].out, b)
  BY <1>2, <1>4, <1>5 DEF StepOK
<1> QED
  BY <1>6, ProcStep

\* writehash or rewrite changes the index of its name.
LEMMA IndexStep ==
  ASSUME ToolInv, NEW p \in Proc, NEW s, proc' = [proc EXCEPT ![p] = s],
         proc[p].pc # "exited", proc[p].cmd \in IndexWriters,
         logs' = logs, logName' = logName, NEW i \in Index, i.id <= Len(logs),
         index' = [index EXCEPT ![proc[p].out] = i],
         i.id # 0 /\ i.id = logName[proc[p].out] => Honest(i, logs),
         ProcInv(s, logs', logName', index'),
         s.pc = "exited" \/ (s.cmd = proc[p].cmd /\ s.out = proc[p].out)
  PROVE  ToolInv'
<1>1. /\ \A q \in Proc \ {p} : Apart(proc[p], proc[q])
      /\ FileTypes(logs, logName, index) /\ NamesApart(logName)
      /\ IndexesHonest(logs, logName, index) /\ ProcInv(proc[p], logs, logName, index)
  BY DEF ToolInv
<1>2. \A q \in Proc \ {p} : Apart(s, proc[q])
  BY <1>1 DEF Apart
<1>3. PICK b : \A q \in Proc : proc[q].out # b
  BY NoName
<1>4. proc[p].out \in Pair
  BY <1>1 DEF ProcInv, RecordInv
<1>5. /\ index' \in [Pair -> Index] /\ index'[proc[p].out] = i
      /\ \A a \in Pair \ {proc[p].out} : index'[a] = index[a]
  BY <1>1, <1>4 DEF FileTypes
<1>6. FileTypes(logs', logName', index')
  BY <1>1, <1>5 DEF FileTypes
<1>7. IndexesHonest(logs', logName', index')
  BY <1>1, <1>5 DEF IndexesHonest
<1>8. FilesStep(b, proc[p].out, logs, logName, index, logs', logName', index')
  <2>1. FilesStep(b, proc[p].out, logs, logName, index, logs, logName, index)
    BY <1>1, FilesStay DEF FileTypes
  <2> QED
    BY <1>5, <2>1 DEF FilesStep
<1>9. \A q \in Proc \ {p} : proc[q].pc # "exited" =>
        /\ proc[q].cmd \in LogWriters => proc[q].out # b
        /\ proc[q].cmd \in IndexWriters => proc[q].out # proc[p].out
  BY <1>1, <1>3 DEF Apart
<1>10. StepOK(p, s, b, proc[p].out)
  BY <1>1, <1>2, <1>6, <1>7, <1>8, <1>9 DEF StepOK
<1> QED
  BY <1>10, ProcStep

(***************************************************************************)
(* The start and the end of a command.                                     *)
(***************************************************************************)

\* A record of which only the arguments are set.
Fresh(r) ==
  /\ DOMAIN r = FieldNames /\ r.exit \in {0, 1, 2, 9}
  /\ r.compression \in Compressions /\ r.block \in Int
  /\ r.hdr = NoLog /\ r.loaded = NoLog /\ r.data = 0 /\ r.done = 0
  /\ r.index = NoIndex /\ r.map = NoIndex /\ r.built = NoIndex
  /\ r.buf = << >> /\ r.given = << >> /\ r.junk = FALSE

\* The fields of a process that is not running.
LEMMA IdleFields ==
  /\ DOMAIN Idle = FieldNames /\ Idle.cmd = "none" /\ Idle.pc = "exited" /\ Idle.exit = 0
  /\ Idle.failed = FALSE /\ Fresh(Idle)
<1>1. /\ DOMAIN Idle = FieldNames /\ Idle.cmd = "none" /\ Idle.pc = "exited" /\ Idle.exit = 0
      /\ Idle.failed = FALSE
      /\ Idle.compression = "unset" /\ Idle.block = -1
  BY DEF Idle, FieldNames, Unset
<1>2. /\ Idle.hdr = NoLog /\ Idle.loaded = NoLog /\ Idle.data = 0 /\ Idle.done = 0
      /\ Idle.index = NoIndex /\ Idle.map = NoIndex /\ Idle.built = NoIndex
      /\ Idle.buf = << >> /\ Idle.given = << >> /\ Idle.junk = FALSE
  BY DEF Idle
<1> QED
  BY <1>1, <1>2 DEF Fresh, Compressions

\* Such a record is right whatever the files are.
LEMMA FreshInv ==
  ASSUME NEW ls, NEW ln, NEW ix, FileTypes(ls, ln, ix), NEW r, Fresh(r),
         r.pc # "exited" /\ r.cmd \in LogWriters \cup IndexWriters => r.out \in Pair,
         r.pc # "exited" /\ r.cmd \in {"get", "rewrite"} => r.pair \in Pair
  PROVE  RecordInv(r, ls)
<1>1. Len(ls) \in Nat
  BY DEF FileTypes
<1>2. Loaded(NoLog, ls)
  BY <1>1, NoneTypes DEF Loaded
<1>3. NoIndex \in Index /\ NoIndex.id <= Len(ls)
  BY <1>1, NoneTypes
<1>4. << >> \in Seq(Entries) /\ << >> \in Seq(Entries \cup {BadLine})
  OBVIOUS
<1>5. r.data \in 0 .. Len(ls) /\ r.done \in Nat
  BY <1>1 DEF Fresh
<1> QED
  BY <1>2, <1>3, <1>4, <1>5 DEF Fresh, RecordInv

\* A failed assert, a kill, a wrong argument or info leave nothing behind.
LEMMA GoneInv ==
  ASSUME NEW ls, NEW ln, NEW ix, FileTypes(ls, ln, ix), NEW r, Fresh(r),
         r.cmd \in {"none", "info"}
  PROVE  ProcInv(r, ls, ln, ix)
<1>1. RecordInv(r, ls)
  BY FreshInv DEF LogWriters, IndexWriters
<1> QED
  BY <1>1 DEF ProcInv, ReadInv, GetInv, Exited, AppendInv, BuildInv, IndexWriters, RewriteInv

\* The record that Exit, Kill and UsageError leave.
LEMMA ExitInv ==
  ASSUME NEW ls, NEW ln, NEW ix, FileTypes(ls, ln, ix), NEW c \in {0, 1, 2, 9}
  PROVE  /\ ProcInv([Idle EXCEPT !.exit = c], ls, ln, ix)
         /\ [Idle EXCEPT !.exit = c].pc = "exited"
         /\ [Idle EXCEPT !.exit = c].exit = c /\ [Idle EXCEPT !.exit = c].cmd = "none"
<1> DEFINE r == [Idle EXCEPT !.exit = c]
<1>1. r.pc = "exited" /\ r.cmd = "none" /\ r.exit = c /\ Fresh(r)
  BY IdleFields DEF Fresh, FieldNames
<1>2. ProcInv(r, ls, ln, ix)
  BY <1>1, GoneInv
<1> QED
  BY <1>1, <1>2

\* The record of a process one of whose reads or writes failed.
LEMMA FailedInv ==
  ASSUME NEW ls, NEW ln, NEW ix, FileTypes(ls, ln, ix)
  PROVE  LET r == [Idle EXCEPT !.exit = 1, !.failed = TRUE]
         IN  ProcInv(r, ls, ln, ix) /\ r.pc = "exited" /\ r.failed
<1> DEFINE r == [Idle EXCEPT !.exit = 1, !.failed = TRUE]
<1>1. r.pc = "exited" /\ r.cmd = "none" /\ r.failed /\ Fresh(r)
  BY IdleFields DEF Fresh, FieldNames
<1>2. ProcInv(r, ls, ln, ix)
  BY <1>1, GoneInv
<1> QED
  BY <1>1, <1>2

\* A command that fails keeps the invariant.
LEMMA ExitStep ==
  ASSUME ToolInv, NEW p \in Proc, NEW c \in {0, 1, 2, 9}, Exit(p, c),
         logs' = logs, logName' = logName, index' = index
  PROVE  ToolInv'
<1> DEFINE s == [Idle EXCEPT !.exit = c]
<1>1. FileTypes(logs, logName, index)
  BY DEF ToolInv
<1>2. ProcInv(s, logs, logName, index) /\ s.pc = "exited"
  BY <1>1, ExitInv
<1>3. proc' = [proc EXCEPT ![p] = s]
  BY DEF Exit, Step
<1> HIDE DEF s
<1> QED
  BY <1>2, <1>3, QuietStep

\* A command starts when nobody else writes to its output.
LEMMA StartStep ==
  ASSUME ToolInv, NEW p \in Proc, NEW s, Begin(p, s), ProcInv(s, logs, logName, index),
         s.pc # "exited" /\ s.cmd \in LogWriters => ~LogBusy(s.out),
         s.pc # "exited" /\ s.cmd \in IndexWriters => ~IndexBusy(s.out)
  PROVE  ToolInv'
<1>1. /\ FileTypes(logs, logName, index) /\ NamesApart(logName)
      /\ IndexesHonest(logs, logName, index)
  BY DEF ToolInv
<1>2. proc' = [proc EXCEPT ![p] = s] /\ logs' = logs /\ logName' = logName /\ index' = index
  BY DEF Begin, files
<1>3. ASSUME NEW q \in Proc \ {p} PROVE Apart(s, proc[q])
  BY DEF Apart, LogBusy, IndexBusy, Running, LogWriters, IndexWriters
<1>4. PICK b : \A q \in Proc : proc[q].out # b
  BY NoName
<1>5. FilesStep(b, b, logs, logName, index, logs', logName', index')
  BY <1>1, <1>2, FilesStay DEF FileTypes
<1>6. StepOK(p, s, b, b)
  BY <1>1, <1>2, <1>3, <1>4, <1>5 DEF StepOK
<1> QED
  BY <1>6, ProcStep

\* A wrong call changes no file.
LEMMA UsageErrorKeeps ==
  ASSUME ToolInv, NEW p \in Proc, UsageError(p) PROVE ToolInv'
<1> DEFINE s == [Idle EXCEPT !.exit = 1]
<1>1. ProcInv(s, logs, logName, index) /\ s.pc = "exited"
  BY ExitInv DEF ToolInv
<1>2. Begin(p, s)
  BY DEF UsageError
<1> HIDE DEF s
<1> QED
  BY <1>1, <1>2, StartStep

\* info only reads.
LEMMA InfoKeeps ==
  ASSUME ToolInv, NEW p \in Proc, NEW names, Info(p, names) PROVE ToolInv'
<1> DEFINE c == IF \E a \in names : logName[a] = 0 \/ index[a].id = 0 THEN 1 ELSE 0
           s == [Idle EXCEPT !.cmd = "info", !.exit = c]
<1>1. Begin(p, s)
  BY DEF Info
<1>2. c \in {0, 1, 2, 9}
  OBVIOUS
<1> HIDE DEF c
<1>3. s.pc = "exited" /\ s.cmd = "info" /\ Fresh(s)
  BY <1>2, IdleFields DEF Fresh, FieldNames
<1> HIDE DEF s
<1>4. ProcInv(s, logs, logName, index)
  BY <1>3, GoneInv DEF ToolInv
<1> QED
  BY <1>1, <1>3, <1>4, StartStep

\* A process that is killed leaves the files as they are at that moment.
LEMMA KillKeeps ==
  ASSUME ToolInv, NEW p \in Proc, Kill(p) PROVE ToolInv'
<1> DEFINE s == [Idle EXCEPT !.exit = 9]
<1>1. ProcInv(s, logs, logName, index) /\ s.pc = "exited"
  BY ExitInv DEF ToolInv
<1>2. /\ proc' = [proc EXCEPT ![p] = s]
      /\ logs' = logs /\ logName' = logName /\ index' = index
  BY DEF Kill, Fault, files
<1> HIDE DEF s
<1> QED
  BY <1>1, <1>2, QuietStep

\* So does one that exits because a read or a write failed.
LEMMA FailsKeeps ==
  ASSUME ToolInv, NEW p \in Proc, Fails(p) PROVE ToolInv'
<1> DEFINE s == [Idle EXCEPT !.exit = 1, !.failed = TRUE]
<1>1. ProcInv(s, logs, logName, index) /\ s.pc = "exited"
  BY FailedInv DEF ToolInv
<1>2. /\ proc' = [proc EXCEPT ![p] = s]
      /\ logs' = logs /\ logName' = logName /\ index' = index
  BY DEF Fails, Fault, files
<1> HIDE DEF s
<1> QED
  BY <1>1, <1>2, QuietStep

\* createlog starts, with the options it was given or the defaults.
LEMMA StartCreatelogKeeps ==
  ASSUME ToolInv, NEW p \in Proc, NEW a \in Pair, NEW c \in Compression, NEW b \in BlockArgs,
         StartCreatelog(p, a, c, b)
  PROVE  ToolInv'
<1> DEFINE x == IF c = "unset" THEN "none" ELSE c
           y == IF b = Unset THEN CompDefaultBlocksize ELSE b
           s == [Idle EXCEPT !.cmd = "createlog", !.pc = "create", !.out = a,
                             !.compression = x, !.block = y]
<1>1. ~LogBusy(a) /\ Begin(p, s)
  BY DEF StartCreatelog
<1>2. x \in Compressions /\ y \in Int
  BY ToolAssumption DEF Compressions, CompDefaultBlocksize
<1> HIDE DEF x, y
<1>3. s.pc = "create" /\ s.cmd = "createlog" /\ s.out = a /\ Fresh(s)
  BY <1>2, IdleFields DEF Fresh, FieldNames
<1> HIDE DEF s
<1>4. RecordInv(s, logs)
  BY <1>3, FreshInv DEF ToolInv
<1>5. ProcInv(s, logs, logName, index)
  BY <1>3, <1>4 DEF ProcInv, ReadInv, GetInv, Exited, AppendInv, BuildInv, IndexWriters, RewriteInv
<1> QED
  BY <1>1, <1>3, <1>5, StartStep DEF IndexWriters

\* appendlog starts.
LEMMA StartAppendlogKeeps ==
  ASSUME ToolInv, NEW p \in Proc, NEW a \in Pair, StartAppendlog(p, a)
  PROVE  ToolInv'
<1> DEFINE s == [Idle EXCEPT !.cmd = "appendlog", !.pc = "append", !.out = a]
<1>1. ~LogBusy(a) /\ Begin(p, s)
  BY DEF StartAppendlog
<1>2. s.pc = "append" /\ s.cmd = "appendlog" /\ s.out = a /\ Fresh(s) /\ s.exit = 0 /\ ~s.failed
  BY IdleFields DEF Fresh, FieldNames
<1> HIDE DEF s
<1>3. RecordInv(s, logs)
  BY <1>2, FreshInv DEF ToolInv
<1>4. AppendInv(s, logs, logName)
  BY <1>2 DEF AppendInv, Fresh
<1>5. ProcInv(s, logs, logName, index)
  BY <1>2, <1>3, <1>4 DEF ProcInv, ReadInv, GetInv, Exited, BuildInv, IndexWriters, RewriteInv
<1> QED
  BY <1>1, <1>2, <1>5, StartStep DEF IndexWriters

\* writehash starts.
LEMMA StartWritehashKeeps ==
  ASSUME ToolInv, NEW p \in Proc, NEW a \in Pair, StartWritehash(p, a)
  PROVE  ToolInv'
<1> DEFINE s == [Idle EXCEPT !.cmd = "writehash", !.pc = "hashload", !.out = a]
<1>1. ~IndexBusy(a) /\ Begin(p, s)
  BY DEF StartWritehash
<1>2. s.pc = "hashload" /\ s.cmd = "writehash" /\ s.out = a /\ Fresh(s)
  BY IdleFields DEF Fresh, FieldNames
<1> HIDE DEF s
<1>3. RecordInv(s, logs)
  BY <1>2, FreshInv DEF ToolInv
<1>4. ProcInv(s, logs, logName, index)
  BY <1>2, <1>3 DEF ProcInv, ReadInv, GetInv, Exited, AppendInv, BuildInv, RewriteInv
<1> QED
  BY <1>1, <1>2, <1>4, StartStep DEF LogWriters

\* get starts.
LEMMA StartGetKeeps ==
  ASSUME ToolInv, NEW p \in Proc, NEW a \in Pair, NEW k, StartGet(p, a, k)
  PROVE  ToolInv'
<1> DEFINE s == [Idle EXCEPT !.cmd = "get", !.pc = "openindex", !.pair = a, !.key = k]
<1>1. Begin(p, s)
  BY DEF StartGet
<1>2. s.pc = "openindex" /\ s.cmd = "get" /\ s.pair = a /\ Fresh(s)
  BY IdleFields DEF Fresh, FieldNames
<1> HIDE DEF s
<1>3. RecordInv(s, logs)
  BY <1>2, FreshInv DEF ToolInv, LogWriters, IndexWriters
<1>4. ProcInv(s, logs, logName, index)
  BY <1>2, <1>3 DEF ProcInv, ReadInv, GetInv, Exited, AppendInv, BuildInv, RewriteInv, IndexWriters
<1> QED
  BY <1>1, <1>2, <1>4, StartStep DEF LogWriters, IndexWriters

\* rewrite starts: it remembers what its output is.
LEMMA StartRewriteKeeps ==
  ASSUME ToolInv, NEW p \in Proc, NEW a \in Pair, NEW b \in Pair, NEW c \in Compression,
         NEW n \in BlockArgs, StartRewrite(p, a, b, c, n)
  PROVE  ToolInv'
<1> DEFINE x == <<logName[b], index[b]>>
           s == [Idle EXCEPT !.cmd = "rewrite", !.pc = "openindex", !.pair = a, !.out = b,
                             !.compression = c, !.block = n, !.before = x]
<1>1. ~LogBusy(b) /\ ~IndexBusy(b) /\ Begin(p, s)
  BY DEF StartRewrite
<1>2. c \in Compressions /\ n \in Int
  BY ToolAssumption DEF Compressions
<1> HIDE DEF x
<1>3. /\ s.pc = "openindex" /\ s.cmd = "rewrite" /\ s.pair = a /\ s.out = b /\ s.before = x
      /\ s.exit = 0 /\ Fresh(s)
  BY <1>2, IdleFields DEF Fresh, FieldNames
<1> HIDE DEF s
<1>4. RecordInv(s, logs)
  BY <1>3, FreshInv DEF ToolInv
<1>5. RewriteInv(s, logs, logName, index)
  <2>1. s.buf = << >> /\ s.done = 0
    BY <1>3 DEF Fresh
  <2> QED
    BY <1>3, <2>1 DEF RewriteInv, Opening, Indexing, x
<1>6. ProcInv(s, logs, logName, index)
  BY <1>3, <1>4, <1>5 DEF ProcInv, ReadInv, GetInv, Exited, AppendInv, BuildInv
<1> QED
  BY <1>1, <1>3, <1>6, StartStep

\* The invariant holds at first.
LEMMA ToolStarts == ToolInit => ToolInv
<1> SUFFICES ASSUME ToolInit PROVE ToolInv
  OBVIOUS
<1>1. PICK es \in InitialLogs :
        logs = <<[entries |-> es, compression |-> "none", block |-> 0, damaged |-> FALSE]>>
  BY DEF ToolInit
<1>2. PICK a \in Pair :
        /\ logName = [b \in Pair |-> IF b = a THEN 1 ELSE 0]
        /\ LET n == Len(logs[1].entries)
           IN  index = [b \in Pair |->
                          IF b # a THEN NoIndex
                          ELSE [id |-> 1, end |-> n, scanned |-> n,
                                live |-> LiveAt(logs[1].entries, n)]]
  BY DEF ToolInit
<1>3. es \in Seq(Entries) /\ MaxFiles \in Nat \ {0}
  BY ToolAssumption
<1>4. logs \in Seq(LogFile) /\ Len(logs) = 1 /\ logs[1].entries = es
  <2>1. [entries |-> es, compression |-> "none", block |-> 0, damaged |-> FALSE] \in LogFile
    BY <1>3 DEF LogFile, Compressions
  <2> QED
    BY <1>1, <2>1
<1> DEFINE i == [id |-> 1, end |-> Len(es), scanned |-> Len(es), live |-> LiveAt(es, Len(es))]
<1>5. index = [b \in Pair |-> IF b # a THEN NoIndex ELSE i]
  BY <1>2, <1>4
<1>6. i \in Index /\ i.id = 1
  <2>1. Len(es) \in Nat /\ LiveAt(es, Len(es)) \in SUBSET Nat
    BY <1>3 DEF LiveAt
  <2> QED
    BY <2>1 DEF Index
<1>7. Honest(i, logs)
  <2>1. Len(es) \in Nat
    BY <1>3
  <2> QED
    BY <1>4, <2>1 DEF Honest
<1> HIDE DEF i
<1>8. FileTypes(logs, logName, index)
  BY <1>2, <1>3, <1>4, <1>5, <1>6, NoneTypes DEF FileTypes
<1>9. NamesApart(logName)
  BY <1>2 DEF NamesApart
<1>10. IndexesHonest(logs, logName, index)
  BY <1>5, <1>7, NoneTypes DEF IndexesHonest
<1>11. proc = [p \in Proc |-> Idle]
  BY DEF ToolInit
<1>12. ProcInv(Idle, logs, logName, index)
  BY <1>8, IdleFields, GoneInv
<1>13. Apart(Idle, Idle)
  BY IdleFields DEF Apart
<1> QED
  BY <1>8, <1>9, <1>10, <1>11, <1>12, <1>13 DEF ToolInv

(***************************************************************************)
(* get and rewrite open the files.                                         *)
(***************************************************************************)

\* What the invariant says of one process and of the files it looks at.
LEMMA ProcFacts ==
  ASSUME ToolInv, NEW p \in Proc
  PROVE  /\ FileTypes(logs, logName, index) /\ NamesApart(logName)
         /\ IndexesHonest(logs, logName, index)
         /\ RecordInv(proc[p], logs) /\ ReadInv(proc[p], logs, logName) /\ GetInv(proc[p], logs)
         /\ AppendInv(proc[p], logs, logName) /\ BuildInv(proc[p], logs, logName)
         /\ RewriteInv(proc[p], logs, logName, index)
         /\ DOMAIN proc[p] = FieldNames
BY DEF ToolInv, ProcInv, RecordInv

\* What the names refer to.
LEMMA FileFacts ==
  ASSUME FileTypes(logs, logName, index)
  PROVE  /\ logs \in Seq(LogFile) /\ Len(logs) \in Nat
         /\ \A a \in Pair : /\ logName[a] \in 0 .. Len(logs)
                            /\ index[a] \in Index /\ index[a].id <= Len(logs)
                            /\ index[a].id \in Nat
         /\ \A f \in 1 .. Len(logs) : /\ logs[f] \in LogFile /\ logs[f].entries \in Seq(Entries)
                                      /\ Len(logs[f].entries) \in Nat
<1>1. logs \in Seq(LogFile) /\ Len(logs) \in Nat
  BY DEF FileTypes
<1>2. \A a \in Pair : /\ logName[a] \in 0 .. Len(logs)
                      /\ index[a] \in Index /\ index[a].id <= Len(logs)
  BY DEF FileTypes
<1>3. \A a \in Pair : index[a].id \in Nat
  BY <1>2 DEF Index
<1>4. \A f \in 1 .. Len(logs) : /\ logs[f] \in LogFile /\ logs[f].entries \in Seq(Entries)
                                /\ Len(logs[f].entries) \in Nat
  BY <1>1, LogFacts
<1> QED
  BY <1>1, <1>2, <1>3, <1>4

\* A header that is loaded now.
LEMMA HeaderLoaded ==
  ASSUME FileTypes(logs, logName, index), NEW f \in 1 .. Len(logs)
  PROVE  /\ Header(f) = [file |-> f, end |-> Len(logs[f].entries)]
         /\ Loaded(Header(f), logs) /\ Header(f).file = f
         /\ Header(f).end = Len(logs[f].entries)
<1>1. Len(logs) \in Nat /\ Len(logs[f].entries) \in Nat
  BY FileFacts
<1> DEFINE n == Len(logs[f].entries)
           h == [file |-> f, end |-> n]
<1>2. Header(f) = h
  BY DEF Header
<1>3. n \in Nat
  BY <1>1
<1> HIDE DEF n
<1>4. h \in LogHeader /\ h.file = f /\ h.end = n
  BY <1>1, <1>3 DEF LogHeader
<1>5. Loaded(h, logs)
  <2>1. h.file <= Len(logs)
    BY <1>1, <1>4
  <2>2. h.end <= Len(logs[h.file].entries)
    BY <1>3, <1>4 DEF n
  <2> QED
    BY <1>4, <2>1, <2>2 DEF Loaded
<1> QED
  BY <1>2, <1>4, <1>5 DEF n

\* The index header is loaded.
LEMMA OpenIndexKeeps ==
  ASSUME ToolInv, NEW p \in Proc, OpenIndex(p) PROVE ToolInv'
<1> DEFINE r == proc[p]
           i == index[r.pair]
           s == [r EXCEPT !.pc = "openlog", !.index = i]
<1>1. /\ r.cmd \in {"get", "rewrite"} /\ r.pc = "openindex"
      /\ logs' = logs /\ logName' = logName /\ index' = index
  BY DEF OpenIndex, At, files
<1>2. CASE i.id = 0
  <2>1. Exit(p, 1)
    BY <1>2 DEF OpenIndex
  <2> QED
    BY <1>1, <2>1, ExitStep
<1>3. CASE i.id # 0
  <2>1. proc' = [proc EXCEPT ![p] = s]
    BY <1>3 DEF OpenIndex, Step
  <2>2. /\ FileTypes(logs, logName, index) /\ IndexesHonest(logs, logName, index)
        /\ RecordInv(r, logs) /\ RewriteInv(r, logs, logName, index) /\ DOMAIN r = FieldNames
    BY ProcFacts
  <2>3. r.pair \in Pair
    BY <1>1, <2>2 DEF RecordInv
  <2>4. i \in Index /\ i.id <= Len(logs) /\ (i.id = logName[r.pair] => Honest(i, logs))
    BY <1>3, <2>2, <2>3, FileFacts DEF IndexesHonest
  <2> HIDE DEF r, i
  <2>5. s.cmd = r.cmd /\ s.pc = "openlog" /\ s.out = r.out /\ s.pair = r.pair /\ s.index = i
    BY <2>2 DEF FieldNames
  <2>6. RecordInv(s, logs)
    BY <1>1, <2>2, <2>4 DEF RecordInv, FieldNames
  <2>7. RewriteInv(s, logs, logName, index)
    <3>1. /\ s.exit = r.exit /\ s.before = r.before /\ s.buf = r.buf /\ s.done = r.done
      BY <2>2 DEF FieldNames
    <3> HIDE DEF s
    <3> QED
      BY <1>1, <2>2, <2>5, <3>1 DEF RewriteInv, Opening, Indexing
  <2> HIDE DEF s
  <2>8. ProcInv(s, logs, logName, index)
    BY <1>1, <1>3, <2>4, <2>5, <2>6, <2>7
    DEF ProcInv, ReadInv, GetInv, Exited, AppendInv, BuildInv
  <2> QED
    BY <1>1, <2>1, <2>5, <2>8, QuietStep DEF r
<1> QED
  BY <1>2, <1>3

\* The log header is loaded.
LEMMA OpenLogHeaderKeeps ==
  ASSUME ToolInv, NEW p \in Proc, OpenLogHeader(p) PROVE ToolInv'
<1> DEFINE r == proc[p]
           f == logName[r.pair]
           h == Header(f)
           s == [r EXCEPT !.pc = "opendata", !.hdr = h]
<1>1. /\ r.cmd \in {"get", "rewrite"} /\ r.pc = "openlog"
      /\ logs' = logs /\ logName' = logName /\ index' = index
  BY DEF OpenLogHeader, At, files
<1>2. CASE f = 0
  <2>1. Exit(p, 1)
    BY <1>2 DEF OpenLogHeader
  <2> QED
    BY <1>1, <2>1, ExitStep
<1>3. CASE f # 0
  <2>1. proc' = [proc EXCEPT ![p] = s]
    BY <1>3 DEF OpenLogHeader, Step
  <2>2. /\ FileTypes(logs, logName, index) /\ RecordInv(r, logs) /\ ReadInv(r, logs, logName)
        /\ RewriteInv(r, logs, logName, index) /\ DOMAIN r = FieldNames
    BY ProcFacts
  <2>3. r.pair \in Pair
    BY <1>1, <2>2 DEF RecordInv
  <2>4. f \in 1 .. Len(logs)
    BY <1>3, <2>2, <2>3, FileFacts
  <2>5. Loaded(h, logs) /\ h.file = f
    BY <2>2, <2>4, HeaderLoaded
  <2>6. r.index.id = f => Honest(r.index, logs)
    BY <1>1, <2>2 DEF ReadInv
  <2> HIDE DEF r, f, h
  <2>7. /\ s.cmd = r.cmd /\ s.pc = "opendata" /\ s.out = r.out /\ s.pair = r.pair /\ s.hdr = h
        /\ s.index = r.index
    BY <2>2 DEF FieldNames
  <2>8. RecordInv(s, logs)
    BY <1>1, <2>2, <2>5 DEF RecordInv, FieldNames
  <2>9. RewriteInv(s, logs, logName, index)
    <3>1. s.exit = r.exit /\ s.before = r.before /\ s.buf = r.buf /\ s.done = r.done
      BY <2>2 DEF FieldNames
    <3> HIDE DEF s
    <3> QED
      BY <1>1, <2>2, <2>7, <3>1 DEF RewriteInv, Opening, Indexing
  <2> HIDE DEF s
  <2>10. ProcInv(s, logs, logName, index)
    BY <1>1, <1>3, <2>5, <2>6, <2>7, <2>8, <2>9
    DEF ProcInv, ReadInv, GetInv, Exited, AppendInv, BuildInv
  <2> QED
    BY <1>1, <2>1, <2>7, <2>10, QuietStep DEF r
<1> QED
  BY <1>2, <1>3

\* The log is mapped, perhaps another one than the header is of.
LEMMA OpenLogDataKeeps ==
  ASSUME ToolInv, NEW p \in Proc, OpenLogData(p) PROVE ToolInv'
<1> DEFINE r == proc[p]
           f == logName[r.pair]
           s == [r EXCEPT !.pc = "opencheck", !.data = f]
<1>1. /\ r.cmd \in {"get", "rewrite"} /\ r.pc = "opendata"
      /\ logs' = logs /\ logName' = logName /\ index' = index
      /\ Exit(p, 1) \/ (f # 0 /\ proc' = [proc EXCEPT ![p] = s])
  BY DEF OpenLogData, At, files, Step
<1>2. CASE Exit(p, 1)
  BY <1>1, <1>2, ExitStep
<1>3. CASE f # 0 /\ proc' = [proc EXCEPT ![p] = s]
  <2>2. /\ FileTypes(logs, logName, index) /\ RecordInv(r, logs) /\ ReadInv(r, logs, logName)
        /\ RewriteInv(r, logs, logName, index) /\ DOMAIN r = FieldNames
    BY ProcFacts
  <2>3. r.pair \in Pair
    BY <1>1, <2>2 DEF RecordInv
  <2>4. f \in 0 .. Len(logs)
    BY <1>3, <2>2, <2>3, FileFacts
  <2>6. r.hdr.file # 0 /\ (r.index.id = r.hdr.file => Honest(r.index, logs))
    BY <1>1, <2>2 DEF ReadInv
  <2> HIDE DEF r, f
  <2>7. /\ s.cmd = r.cmd /\ s.pc = "opencheck" /\ s.out = r.out /\ s.pair = r.pair
        /\ s.hdr = r.hdr /\ s.index = r.index /\ s.data = f
    BY <2>2 DEF FieldNames
  <2>8. RecordInv(s, logs)
    BY <1>1, <2>2, <2>4 DEF RecordInv, FieldNames
  <2>9. RewriteInv(s, logs, logName, index)
    <3>1. s.exit = r.exit /\ s.before = r.before /\ s.buf = r.buf /\ s.done = r.done
      BY <2>2 DEF FieldNames
    <3> HIDE DEF s
    <3> QED
      BY <1>1, <2>2, <2>7, <3>1 DEF RewriteInv, Opening, Indexing
  <2> HIDE DEF s
  <2>10. ProcInv(s, logs, logName, index)
    BY <1>1, <1>3, <2>6, <2>7, <2>8, <2>9
    DEF ProcInv, ReadInv, GetInv, Exited, AppendInv, BuildInv
  <2> QED
    BY <1>1, <1>3, <2>7, <2>10, QuietStep DEF r
<1> QED
  BY <1>1, <1>2, <1>3

\* The index and the log belong together, and the index is mapped.
LEMMA OpenMapsKeeps ==
  ASSUME ToolInv, NEW p \in Proc, OpenMaps(p) PROVE ToolInv'
<1> DEFINE r == proc[p]
           i == index[r.pair]
           c == IF r.cmd = "get" THEN "lookup" ELSE "options"
           s == [r EXCEPT !.pc = c, !.map = i]
<1>1. /\ r.cmd \in {"get", "rewrite"} /\ r.pc = "opencheck"
      /\ logs' = logs /\ logName' = logName /\ index' = index
      /\ Exit(p, 1) \/ (Belong(r.index, r.hdr) /\ proc' = [proc EXCEPT ![p] = s])
  BY DEF OpenMaps, At, files, Step
<1>2. CASE Exit(p, 1)
  BY <1>1, <1>2, ExitStep
<1>3. CASE Belong(r.index, r.hdr) /\ proc' = [proc EXCEPT ![p] = s]
  <2>2. /\ FileTypes(logs, logName, index) /\ RecordInv(r, logs) /\ ReadInv(r, logs, logName)
        /\ RewriteInv(r, logs, logName, index) /\ DOMAIN r = FieldNames
    BY ProcFacts
  <2>3. r.pair \in Pair
    BY <1>1, <2>2 DEF RecordInv
  <2>4. i \in Index
    BY <2>2, <2>3, FileFacts
  <2>5. r.index.id = r.hdr.file
    BY <1>3 DEF Belong
  <2>6. r.hdr.file # 0 /\ r.data # 0 /\ Honest(r.index, logs)
    BY <1>1, <2>2, <2>5 DEF ReadInv
  <2>7. c \in {"lookup", "options"} /\ (r.cmd = "rewrite" => c = "options")
    BY <1>1
  <2> HIDE DEF r, i, c
  <2>8. /\ s.cmd = r.cmd /\ s.pc = c /\ s.out = r.out /\ s.pair = r.pair
        /\ s.hdr = r.hdr /\ s.index = r.index /\ s.data = r.data
    BY <2>2 DEF FieldNames
  <2>9. RecordInv(s, logs)
    BY <1>1, <2>2, <2>4 DEF RecordInv, FieldNames
  <2>10. RewriteInv(s, logs, logName, index)
    <3>1. s.exit = r.exit /\ s.before = r.before /\ s.buf = r.buf /\ s.done = r.done
      BY <2>2 DEF FieldNames
    <3> HIDE DEF s
    <3> QED
      BY <1>1, <2>2, <2>7, <2>8, <3>1 DEF RewriteInv, Opening, Indexing
  <2> HIDE DEF s
  <2>11. ProcInv(s, logs, logName, index)
    BY <1>1, <2>5, <2>6, <2>7, <2>8, <2>9, <2>10
    DEF ProcInv, ReadInv, GetInv, Exited, AppendInv, BuildInv
  <2> QED
    BY <1>1, <1>3, <2>8, <2>11, QuietStep DEF r
<1> QED
  BY <1>1, <1>2, <1>3

\* rewrite completes its options.
LEMMA RewriteOptionsKeeps ==
  ASSUME ToolInv, NEW p \in Proc, RewriteOptions(p) PROVE ToolInv'
<1> DEFINE r == proc[p]
           in == logs[r.hdr.file]
           x == IF r.compression = "unset" THEN in.compression ELSE r.compression
           y == IF r.block = Unset THEN in.block ELSE r.block
           s == [r EXCEPT !.pc = "create", !.compression = x, !.block = y]
<1>0. /\ FileTypes(logs, logName, index) /\ RecordInv(r, logs) /\ ReadInv(r, logs, logName)
      /\ RewriteInv(r, logs, logName, index) /\ DOMAIN r = FieldNames
  BY ProcFacts
<1>1. /\ r.cmd = "rewrite" /\ r.pc = "options"
      /\ logs' = logs /\ logName' = logName /\ index' = index
  BY DEF RewriteOptions, At, files
<1>2. proc' = [proc EXCEPT ![p] = s]
  BY <1>0 DEF RewriteOptions, Step, FieldNames
<1>3. r.hdr.file # 0 /\ r.data # 0 /\ r.index.id = r.hdr.file /\ Honest(r.index, logs)
  BY <1>0, <1>1 DEF ReadInv
<1>4. r.hdr.file \in Nat /\ r.hdr.file <= Len(logs)
  BY <1>0 DEF RecordInv, Loaded, LogHeader
<1>5. in \in LogFile
  BY <1>0, <1>3, <1>4, FileFacts
<1>6. x \in Compressions /\ y \in Int
  BY <1>0, <1>5 DEF RecordInv, LogFile
<1> HIDE DEF r, in, x, y
<1>7. /\ s.cmd = r.cmd /\ s.pc = "create" /\ s.out = r.out /\ s.pair = r.pair
      /\ s.hdr = r.hdr /\ s.index = r.index /\ s.data = r.data
  BY <1>0 DEF FieldNames
<1>8. RecordInv(s, logs)
  BY <1>0, <1>1, <1>6 DEF RecordInv, FieldNames
<1>9. RewriteInv(s, logs, logName, index)
  <2>1. s.exit = r.exit /\ s.before = r.before /\ s.buf = r.buf /\ s.done = r.done
    BY <1>0 DEF FieldNames
  <2> HIDE DEF s
  <2> QED
    BY <1>0, <1>1, <1>7, <2>1 DEF RewriteInv, Opening, Indexing
<1> HIDE DEF s
<1>10. ProcInv(s, logs, logName, index)
  BY <1>1, <1>3, <1>7, <1>8, <1>9
  DEF ProcInv, ReadInv, GetInv, Exited, AppendInv, BuildInv
<1> QED
  BY <1>1, <1>2, <1>7, <1>10, QuietStep DEF r

\* The record that Return leaves keeps what the command has read and done.
LEMMA LeftFields ==
  ASSUME NEW r, DOMAIN r = FieldNames, NEW code
  PROVE  LET s == Left(r, code)
         IN  /\ DOMAIN s = FieldNames /\ s.cmd = r.cmd /\ s.pc = "exited" /\ s.exit = code
             /\ s.key = r.key /\ s.value = r.value
             /\ s.compression = "unset" /\ s.block = -1
             /\ s.index = r.index /\ s.map = r.map /\ s.hdr = r.hdr /\ s.data = r.data
             /\ s.done = 0 /\ s.buf = r.buf /\ s.given = r.given /\ s.long = r.long
             /\ s.junk = r.junk /\ s.failed = r.failed
             /\ s.loaded = NoLog /\ s.built = r.built
BY DEF Left, FieldNames, Unset

\* It is a good record if the one before was.
LEMMA LeftRecord ==
  ASSUME NEW ls \in Seq(LogFile), NEW r, RecordInv(r, ls), NEW code \in {0, 1, 2, 9}
  PROVE  RecordInv(Left(r, code), ls)
<1> DEFINE s == Left(r, code)
<1>1. DOMAIN r = FieldNames
  BY DEF RecordInv
<1>2. /\ DOMAIN s = FieldNames /\ s.cmd = r.cmd /\ s.pc = "exited" /\ s.exit = code
      /\ s.compression = "unset" /\ s.block = -1
      /\ s.index = r.index /\ s.map = r.map /\ s.hdr = r.hdr /\ s.data = r.data
      /\ s.done = 0 /\ s.buf = r.buf /\ s.given = r.given
      /\ s.loaded = NoLog /\ s.built = r.built
  BY <1>1, LeftFields
<1> HIDE DEF s
<1>3. Loaded(NoLog, ls)
  <2>1. Len(ls) \in Nat
    OBVIOUS
  <2> QED
    BY <2>1, NoneTypes DEF Loaded
<1>4. "unset" \in Compressions /\ -1 \in Int
  BY DEF Compressions
<1>5. RecordInv(s, ls)
  BY SMTT(40), <1>2, <1>3, <1>4 DEF RecordInv
<1> QED
  BY <1>5 DEF s

\* get looks the key up and exits.
LEMMA LookupKeeps ==
  ASSUME ToolInv, NEW p \in Proc, Lookup(p) PROVE ToolInv'
<1> DEFINE r == proc[p]
           es == logs[r.data].entries
           hits == {q \in r.map.live : q <= Len(es) /\ es[q].key = r.key}
<1>0. /\ FileTypes(logs, logName, index) /\ RecordInv(r, logs) /\ ReadInv(r, logs, logName)
      /\ DOMAIN r = FieldNames
  BY ProcFacts
<1>1. /\ r.cmd = "get" /\ r.pc = "lookup"
      /\ logs' = logs /\ logName' = logName /\ index' = index
  BY DEF Lookup, At, files
<1>a. CASE Exit(p, 1)
  BY <1>1, <1>a, ExitStep
<1> SUFFICES ASSUME ~Exit(p, 1) PROVE ToolInv'
  BY <1>a
<1>2. \E x, t, code : /\ t = [r EXCEPT !.value = x] \/ (t = r /\ x = r.value)
                      /\ proc' = [proc EXCEPT ![p] = Left(t, code)]
                      /\ \/ code = 0 /\ \E q \in hits : x = es[q].value
                         \/ code = 2 /\ hits = {}
  <2>1. CASE \E q \in hits : Return(p, [r EXCEPT !.value = es[q].value], 0)
    BY <2>1 DEF Return, Step, Left
  <2>2. CASE hits = {} /\ Return(p, r, 2)
    BY Zenon, <2>2 DEF Return, Step, Left
  <2> QED
    BY Zenon, <2>1, <2>2 DEF Lookup
<1>3. PICK x, t, code : /\ t = [r EXCEPT !.value = x] \/ (t = r /\ x = r.value)
                        /\ proc' = [proc EXCEPT ![p] = Left(t, code)]
                        /\ \/ code = 0 /\ \E q \in hits : x = es[q].value
                           \/ code = 2 /\ hits = {}
  BY Zenon, <1>2
<1> DEFINE s == Left(t, code)
<1>4. /\ proc' = [proc EXCEPT ![p] = s] /\ code \in {0, 2}
      /\ \/ code = 0 /\ \E q \in hits : x = es[q].value
         \/ code = 2 /\ hits = {}
  BY <1>3
<1>5. r.hdr.file # 0 /\ r.data # 0 /\ r.index.id = r.hdr.file /\ Honest(r.index, logs)
  BY <1>0, <1>1 DEF ReadInv
<1>6. RecordInv(t, logs) /\ DOMAIN t = FieldNames
  <2> HIDE DEF r
  <2>1. CASE t = [r EXCEPT !.value = x]
    BY <1>0, <2>1 DEF RecordInv, FieldNames
  <2> QED
    BY <1>0, <1>3, <2>1
<1>7. RecordInv(s, logs)
  BY <1>0, <1>4, <1>6, FileFacts, LeftRecord
<1>8. /\ s.cmd = r.cmd /\ s.pc = "exited" /\ s.exit = code /\ s.value = x /\ s.key = r.key
      /\ s.index = r.index /\ s.map = r.map /\ s.hdr = r.hdr /\ s.data = r.data
  <2>1. /\ t.cmd = r.cmd /\ t.value = x /\ t.key = r.key
        /\ t.index = r.index /\ t.map = r.map /\ t.hdr = r.hdr /\ t.data = r.data
    BY <1>0, <1>3 DEF FieldNames
  <2> QED
    BY <1>6, <2>1, LeftFields
<1>9. ASSUME ~Mixed(s) PROVE Answered(s, logs)
  <2> DEFINE n == r.index.scanned
             fs == logs[r.index.id].entries
             L == LiveAt(fs, n)
             H == {q \in L : fs[q].key = r.key}
  <2>1. es = fs /\ r.map.live = L
    BY <1>5, <1>8, <1>9 DEF Mixed, Honest
  <2>2. n \in Nat /\ Len(fs) \in Nat /\ n <= Len(fs)
    <3>1. r.index \in Index /\ r.index.id <= Len(logs)
      BY <1>0 DEF RecordInv
    <3>2. r.index.id \in 1 .. Len(logs) /\ n \in Nat
      BY <1>5, <3>1 DEF Index, Honest
    <3> QED
      BY <1>0, <1>5, <3>2, FileFacts DEF Honest
  <2>3. (IF code = 0 THEN \E q \in H : fs[q].value = x ELSE H = {}) => Answered(s, logs)
    BY <1>8 DEF Answered
  <2> HIDE DEF n, fs
  <2>4. \A q \in L : q <= Len(fs)
    BY <2>2 DEF LiveAt
  <2> HIDE DEF L
  <2>5. hits = H
    BY <2>1, <2>4
  <2> HIDE DEF hits, H, es
  <2> QED
    BY <1>4, <2>1, <2>3, <2>5
<1> HIDE DEF s
<1>10. ProcInv(s, logs, logName, index)
  BY <1>1, <1>5, <1>7, <1>8, <1>9
  DEF ProcInv, ReadInv, GetInv, AppendInv, BuildInv, RewriteInv, IndexWriters
<1> QED
  BY <1>1, <1>4, <1>8, <1>10, QuietStep

(***************************************************************************)
(* appendlog.                                                              *)
(***************************************************************************)

\* A sequence is a prefix of what is appended to it.
LEMMA PrefixAppends ==
  ASSUME NEW S, NEW u \in Seq(S), NEW v \in Seq(S)
  PROVE  IsPrefix(u, u \o v)
<1>1. u \o v \in Seq(S) /\ Len(u \o v) = Len(u) + Len(v) /\ Len(u) \in Nat /\ Len(v) \in Nat
  OBVIOUS
<1>2. \A q \in 1 .. Len(u) : (u \o v)[q] = u[q]
  OBVIOUS
<1>3. SubSeq(u, 1, Len(u)) = SubSeq(u \o v, 1, Len(u))
  BY <1>1, <1>2
<1> QED
  BY <1>1, <1>3 DEF IsPrefix

\* A sequence is a prefix of itself with one more element.
LEMMA PrefixAppend ==
  ASSUME NEW S, NEW u \in Seq(S), NEW x \in S
  PROVE  IsPrefix(u, Append(u, x))
<1>1. <<x>> \in Seq(S)
  OBVIOUS
<1>2. Append(u, x) = u \o <<x>>
  OBVIOUS
<1> QED
  BY <1>1, <1>2, PrefixAppends

\* The log is opened for append.
LEMMA AppendOpensKeeps ==
  ASSUME ToolInv, NEW p \in Proc, AppendOpens(p) PROVE ToolInv'
<1> DEFINE r == proc[p]
           f == logName[r.out]
           h == Header(f)
           s == [r EXCEPT !.pc = "lines", !.hdr = h]
<1>1. /\ r.cmd = "appendlog" /\ r.pc = "append"
      /\ logs' = logs /\ logName' = logName /\ index' = index
  BY DEF AppendOpens, At, files
<1>2. CASE f = 0
  <2>1. Exit(p, 1)
    BY <1>2 DEF AppendOpens
  <2> QED
    BY <1>1, <2>1, ExitStep
<1>3. CASE f # 0
  <2>1. proc' = [proc EXCEPT ![p] = s]
    BY <1>3 DEF AppendOpens, Step, Header
  <2>2. /\ FileTypes(logs, logName, index) /\ RecordInv(r, logs) /\ AppendInv(r, logs, logName)
        /\ DOMAIN r = FieldNames
    BY ProcFacts
  <2>3. r.out \in Pair
    BY <1>1, <2>2 DEF RecordInv, LogWriters
  <2>4. f \in 1 .. Len(logs)
    BY <1>3, <2>2, <2>3, FileFacts
  <2>5. Loaded(h, logs) /\ h.file = f /\ h.end = Len(logs[f].entries)
    BY <2>2, <2>4, HeaderLoaded
  <2>6. r.buf = r.given /\ ~r.junk /\ ~r.failed /\ r.exit = 0
    BY <1>1, <2>2 DEF AppendInv
  <2> HIDE DEF r, h
  <2>7. /\ s.cmd = r.cmd /\ s.pc = "lines" /\ s.out = r.out /\ s.hdr = h
        /\ s.buf = r.buf /\ s.given = r.given /\ s.junk = r.junk /\ s.exit = r.exit
        /\ s.failed = r.failed
    BY <2>2 DEF FieldNames
  <2>8. RecordInv(s, logs)
    <3> HIDE DEF f
    <3> QED
      BY <1>1, <2>2, <2>5 DEF RecordInv, FieldNames
  <2> HIDE DEF s
  <2>9. AppendInv(s, logs, logName)
    <3>1. s.hdr.file # 0 /\ s.hdr.file = logName[s.out] /\ s.hdr.end = Len(logs[s.hdr.file].entries)
      BY <1>3, <2>5, <2>7
    <3> QED
      BY <1>1, <2>6, <2>7, <3>1 DEF AppendInv
  <2>10. ProcInv(s, logs, logName, index)
    BY <1>1, <2>7, <2>8, <2>9
    DEF ProcInv, ReadInv, GetInv, Exited, BuildInv, RewriteInv, IndexWriters
  <2> QED
    BY <1>1, <2>1, <2>7, <2>10, QuietStep DEF r
<1> QED
  BY <1>2, <1>3

\* A line of appendlog that adds to what is put, or ends the loop.
LEMMA LinesStep ==
  ASSUME ToolInv, NEW p \in Proc, NEW s, proc' = [proc EXCEPT ![p] = s],
         logs' = logs, logName' = logName, index' = index,
         At(p, {"appendlog"}, "lines"), RecordInv(s, logs),
         s.cmd = proc[p].cmd, s.out = proc[p].out, s.hdr = proc[p].hdr,
         \/ s.pc = "lines" /\ s.buf = s.given /\ ~s.junk /\ ~s.failed /\ s.exit = 0
         \/ s.pc = "close" /\ LinesPut(s)
  PROVE  ToolInv'
<1>1. AppendInv(proc[p], logs, logName)
  BY ProcFacts
<1>2. proc[p].cmd = "appendlog" /\ proc[p].pc = "lines"
  BY DEF At
<1>3. AppendInv(s, logs, logName)
  BY <1>1, <1>2 DEF AppendInv
<1>4. ProcInv(s, logs, logName, index)
  BY <1>2, <1>3 DEF ProcInv, ReadInv, GetInv, Exited, BuildInv, RewriteInv, IndexWriters
<1> QED
  BY <1>2, <1>4, QuietStep

\* What holds in the loop of appendlog.
LEMMA LinesFacts ==
  ASSUME ToolInv, NEW p \in Proc, At(p, {"appendlog"}, "lines")
  PROVE  /\ RecordInv(proc[p], logs) /\ DOMAIN proc[p] = FieldNames
         /\ proc[p].cmd = "appendlog" /\ proc[p].pc = "lines"
         /\ proc[p].buf = proc[p].given /\ ~proc[p].junk /\ ~proc[p].failed /\ proc[p].exit = 0
         /\ proc[p].buf \in Seq(Entries) /\ proc[p].given \in Seq(Entries \cup {BadLine})
BY ProcFacts DEF At, AppendInv, RecordInv

\* A line is put.
LEMMA AppendLineKeeps ==
  ASSUME ToolInv, NEW p \in Proc, NEW e \in Puts, NEW long, AppendLine(p, e, long)
  PROVE  ToolInv'
<1> DEFINE r == proc[p]
           x == Append(r.buf, e)
           y == Append(r.given, e)
           s == [r EXCEPT !.buf = x, !.given = y, !.long = long]
<1>1. /\ At(p, {"appendlog"}, "lines")
      /\ logs' = logs /\ logName' = logName /\ index' = index
  BY DEF AppendLine, files
<1>2. /\ RecordInv(r, logs) /\ DOMAIN r = FieldNames /\ r.cmd = "appendlog" /\ r.pc = "lines"
      /\ r.buf = r.given /\ ~r.junk /\ ~r.failed /\ r.exit = 0
      /\ r.buf \in Seq(Entries) /\ r.given \in Seq(Entries \cup {BadLine})
  BY <1>1, LinesFacts
<1>3. proc' = [proc EXCEPT ![p] = s]
  BY <1>2 DEF AppendLine, Step, FieldNames
<1>4. x \in Seq(Entries) /\ y \in Seq(Entries \cup {BadLine}) /\ x = y
  <2>1. e \in Entries
    BY DEF Puts, Entries
  <2> QED
    BY <1>2, <2>1
<1> HIDE DEF r, x, y
<1>5. /\ s.cmd = r.cmd /\ s.pc = "lines" /\ s.out = r.out /\ s.hdr = r.hdr
      /\ s.buf = x /\ s.given = y /\ s.junk = r.junk /\ s.exit = r.exit
      /\ s.failed = r.failed
  BY <1>2 DEF FieldNames
<1>6. RecordInv(s, logs)
  BY <1>2, <1>4 DEF RecordInv, FieldNames
<1> HIDE DEF s
<1> QED
  BY <1>1, <1>2, <1>3, <1>4, <1>5, <1>6, LinesStep DEF r

\* A line cannot be split.
LEMMA AppendBadLineKeeps ==
  ASSUME ToolInv, NEW p \in Proc, AppendBadLine(p) PROVE ToolInv'
<1> DEFINE r == proc[p]
           y == Append(r.given, BadLine)
           s == [r EXCEPT !.pc = "close", !.exit = 1, !.given = y]
<1>1. /\ At(p, {"appendlog"}, "lines")
      /\ logs' = logs /\ logName' = logName /\ index' = index
  BY DEF AppendBadLine, files
<1>2. /\ RecordInv(r, logs) /\ DOMAIN r = FieldNames /\ r.cmd = "appendlog" /\ r.pc = "lines"
      /\ r.buf = r.given /\ ~r.junk /\ ~r.failed /\ r.exit = 0
      /\ r.buf \in Seq(Entries) /\ r.given \in Seq(Entries \cup {BadLine})
  BY <1>1, LinesFacts
<1>3. proc' = [proc EXCEPT ![p] = s]
  BY <1>2 DEF AppendBadLine, Step, FieldNames
<1>4. y \in Seq(Entries \cup {BadLine}) /\ y = Append(r.buf, BadLine)
  BY <1>2
<1>5. IsPrefix(r.buf, y)
  <2>1. BadLine \in Entries \cup {BadLine}
    OBVIOUS
  <2>2. IsPrefix(r.given, Append(r.given, BadLine))
    BY <1>2, <2>1, PrefixAppend
  <2> QED
    BY <1>2, <2>2
<1> HIDE DEF r, y
<1>6. /\ s.cmd = r.cmd /\ s.pc = "close" /\ s.out = r.out /\ s.hdr = r.hdr
      /\ s.buf = r.buf /\ s.given = y /\ s.exit = 1
  BY <1>2 DEF FieldNames
<1>7. RecordInv(s, logs)
  BY <1>2, <1>4 DEF RecordInv, FieldNames
<1> HIDE DEF s
<1>8. LinesPut(s)
  BY <1>4, <1>5, <1>6 DEF LinesPut
<1> QED
  BY <1>1, <1>2, <1>3, <1>6, <1>7, <1>8, LinesStep DEF r

\* A line cannot be put.
LEMMA AppendPutFailsKeeps ==
  ASSUME ToolInv, NEW p \in Proc, NEW e \in Puts, AppendPutFails(p, e) PROVE ToolInv'
<1> DEFINE r == proc[p]
           y == Append(r.given, e)
           s == [r EXCEPT !.pc = "close", !.exit = 1, !.failed = TRUE, !.given = y]
<1>1. /\ At(p, {"appendlog"}, "lines")
      /\ logs' = logs /\ logName' = logName /\ index' = index
  BY DEF AppendPutFails, files
<1>2. /\ RecordInv(r, logs) /\ DOMAIN r = FieldNames /\ r.cmd = "appendlog" /\ r.pc = "lines"
      /\ r.buf = r.given /\ r.given \in Seq(Entries \cup {BadLine})
  BY <1>1, LinesFacts
<1>3. proc' = [proc EXCEPT ![p] = s]
  BY <1>2 DEF AppendPutFails, Fault, FieldNames
<1>4. y \in Seq(Entries \cup {BadLine}) /\ IsPrefix(r.buf, y)
  <2>1. e \in Entries \cup {BadLine}
    BY DEF Puts, Entries
  <2>2. y \in Seq(Entries \cup {BadLine})
    BY <1>2, <2>1
  <2>3. IsPrefix(r.given, y)
    BY <1>2, <2>1, PrefixAppend
  <2> QED
    BY <1>2, <2>2, <2>3
<1> HIDE DEF r, y
<1>5. /\ s.cmd = r.cmd /\ s.pc = "close" /\ s.out = r.out /\ s.hdr = r.hdr
      /\ s.buf = r.buf /\ s.given = y /\ s.exit = 1 /\ s.failed
  BY <1>2 DEF FieldNames
<1>6. RecordInv(s, logs)
  BY <1>2, <1>4 DEF RecordInv, FieldNames
<1> HIDE DEF s
<1>7. LinesPut(s)
  BY <1>4, <1>5 DEF LinesPut
<1> QED
  BY <1>1, <1>2, <1>3, <1>5, <1>6, <1>7, LinesStep DEF r

\* The input ends, or read_line gives up on it.
LEMMA AppendStopsKeeps ==
  ASSUME ToolInv, NEW p \in Proc, AppendStops(p) PROVE ToolInv'
<1> DEFINE r == proc[p]
<1>1. /\ At(p, {"appendlog"}, "lines")
      /\ logs' = logs /\ logName' = logName /\ index' = index
  BY DEF AppendStops, files
<1>2. /\ RecordInv(r, logs) /\ DOMAIN r = FieldNames /\ r.cmd = "appendlog" /\ r.pc = "lines"
      /\ r.buf = r.given /\ ~r.junk /\ ~r.failed /\ r.exit = 0
      /\ r.buf \in Seq(Entries) /\ r.given \in Seq(Entries \cup {BadLine})
  BY <1>1, LinesFacts
<1>3. PICK rest \in {<< >>} \cup (IF r.long THEN {<<e>> : e \in Puts} ELSE {}) :
        Step(p, [r EXCEPT !.pc = "close", !.given = @ \o rest])
  BY DEF AppendStops
<1> DEFINE y == r.given \o rest
           s == [r EXCEPT !.pc = "close", !.given = y]
<1>4. proc' = [proc EXCEPT ![p] = s]
  BY <1>2, <1>3 DEF Step, FieldNames
<1>5. rest \in Seq(Entries \cup {BadLine}) /\ (r.long \/ rest = << >>)
  <2>1. \A e \in Puts : <<e>> \in Seq(Entries \cup {BadLine})
    BY DEF Puts, Entries
  <2>2. << >> \in Seq(Entries \cup {BadLine})
    OBVIOUS
  <2> QED
    BY <1>3, <2>1, <2>2
<1>6. y \in Seq(Entries \cup {BadLine}) /\ IsPrefix(r.buf, y) /\ (r.long \/ y = r.buf)
  BY <1>2, <1>5, PrefixAppends
<1> HIDE DEF r, y
<1>7. /\ s.cmd = r.cmd /\ s.pc = "close" /\ s.out = r.out /\ s.hdr = r.hdr
      /\ s.buf = r.buf /\ s.given = y /\ s.exit = r.exit /\ s.long = r.long
      /\ s.failed = r.failed
  BY <1>2 DEF FieldNames
<1>8. RecordInv(s, logs)
  BY <1>2, <1>6 DEF RecordInv, FieldNames
<1> HIDE DEF s
<1>9. LinesPut(s)
  BY <1>2, <1>6, <1>7 DEF LinesPut
<1> QED
  BY <1>1, <1>2, <1>4, <1>7, <1>8, <1>9, LinesStep DEF r

\* Memory that was never written is taken for a line.
LEMMA AppendReadsJunkKeeps ==
  ASSUME ToolInv, NEW p \in Proc, AppendReadsJunk(p) PROVE ToolInv'
<1> DEFINE r == proc[p]
<1>1. /\ At(p, {"appendlog"}, "lines")
      /\ logs' = logs /\ logName' = logName /\ index' = index
  BY DEF AppendReadsJunk, files
<1>2. /\ RecordInv(r, logs) /\ DOMAIN r = FieldNames /\ r.cmd = "appendlog" /\ r.pc = "lines"
  BY <1>1, LinesFacts
<1>3. PICK es \in {<< >>} \cup {<<e>> : e \in Puts} :
        Step(p, [r EXCEPT !.pc = "close", !.exit = 1, !.junk = TRUE, !.buf = es])
  BY DEF AppendReadsJunk
<1> DEFINE s == [r EXCEPT !.pc = "close", !.exit = 1, !.junk = TRUE, !.buf = es]
<1>4. proc' = [proc EXCEPT ![p] = s]
  BY <1>3 DEF Step
<1>5. es \in Seq(Entries)
  <2>1. \A e \in Puts : <<e>> \in Seq(Entries)
    BY DEF Puts, Entries
  <2>2. << >> \in Seq(Entries)
    OBVIOUS
  <2> QED
    BY <1>3, <2>1, <2>2
<1> HIDE DEF r
<1>6. /\ s.cmd = r.cmd /\ s.pc = "close" /\ s.out = r.out /\ s.hdr = r.hdr /\ s.exit = 1
  BY <1>2 DEF FieldNames
<1>7. s.junk
  BY <1>2 DEF FieldNames
<1>8. RecordInv(s, logs)
  BY <1>2, <1>5 DEF RecordInv, FieldNames
<1> HIDE DEF s
<1>9. LinesPut(s)
  BY <1>6, <1>7 DEF LinesPut
<1> QED
  BY <1>1, <1>2, <1>4, <1>6, <1>8, <1>9, LinesStep DEF r

(***************************************************************************)
(* The steps that change logs.                                             *)
(***************************************************************************)

\* The indexes stay honest when logs grow and no name gets an older log.
LEMMA IndexesKeep ==
  ASSUME NEW lb, NEW ib, FileTypes(logs, logName, index), FileTypes(logs', logName', index'),
         index' = index, IndexesHonest(logs, logName, index),
         FilesStep(lb, ib, logs, logName, index, logs', logName', index')
  PROVE  IndexesHonest(logs', logName', index')
<1> SUFFICES ASSUME NEW a \in Pair, index[a].id # 0, index[a].id = logName'[a]
             PROVE  Honest(index[a], logs')
  BY DEF IndexesHonest
<1>1. /\ logs \in Seq(LogFile) /\ logs' \in Seq(LogFile) /\ Grown(logs, logs')
      /\ index[a] \in Index /\ index[a].id <= Len(logs) /\ index[a].id \in Nat
      /\ Len(logs) \in Nat
  BY FileFacts DEF FileTypes, FilesStep
<1>2. logName'[a] = logName[a] \/ logName'[a] = 0 \/ logName'[a] > Len(logs)
  BY DEF FilesStep
<1>3. index[a].id = logName[a]
  BY <1>1, <1>2
<1>4. Honest(index[a], logs)
  BY <1>3 DEF IndexesHonest
<1> QED
  BY <1>1, <1>4, HonestGrows

\* sparkey_logwriter_close: the log of the name grows by the entries.
LEMMA CloseFiles ==
  ASSUME FileTypes(logs, logName, index), NamesApart(logName),
         IndexesHonest(logs, logName, index), NEW a \in Pair, logName[a] # 0,
         NEW es \in Seq(Entries), NEW damage \in BOOLEAN, CloseAppends(a, es, damage)
  PROVE  /\ logName' = logName /\ index' = index
         /\ FileTypes(logs', logName', index') /\ IndexesHonest(logs', logName', index')
         /\ FilesStep(a, a, logs, logName, index, logs', logName', index')
         /\ Grown(logs, logs') /\ Len(logs') = Len(logs)
         /\ logs'[logName[a]].entries = logs[logName[a]].entries \o es
         /\ logs'[logName[a]].damaged = (logs[logName[a]].damaged \/ damage)
<1> DEFINE f == logName[a]
           old == logs[f].entries
           bad == logs[f].damaged \/ damage
           new == [logs[f] EXCEPT !.entries = old \o es, !.damaged = bad]
<1>1. /\ logs' = [logs EXCEPT ![f] = new] /\ logName' = logName /\ index' = index
  BY Zenon DEF CloseAppends
<1>2. /\ logs \in Seq(LogFile) /\ Len(logs) \in Nat /\ f \in 1 .. Len(logs)
      /\ logs[f] \in LogFile /\ old \in Seq(Entries) /\ Len(old) \in Nat
      /\ \A g \in 1 .. Len(logs) : Len(logs[g].entries) \in Nat
  <2>1. /\ logs \in Seq(LogFile) /\ Len(logs) \in Nat /\ f \in 0 .. Len(logs)
    BY FileFacts
  <2>2. f \in 1 .. Len(logs)
    BY <2>1
  <2> QED
    BY <2>1, <2>2, FileFacts
<1>3. old \o es \in Seq(Entries) /\ Len(old) <= Len(old \o es)
      /\ \A q \in 1 .. Len(old) : (old \o es)[q] = old[q]
  BY <1>2
<1>4. new \in LogFile /\ new.entries = old \o es /\ new.damaged = bad
  <2>1. old \o es \in Seq(Entries) /\ bad \in BOOLEAN
    BY <1>3
  <2> HIDE DEF old, bad
  <2> QED
    BY <1>2, <2>1 DEF LogFile
<1> HIDE DEF new
<1>5. /\ logs' \in Seq(LogFile) /\ Len(logs') = Len(logs) /\ logs'[f] = new
      /\ \A g \in 1 .. Len(logs) : g # f => logs'[g] = logs[g]
  <2> HIDE DEF f
  <2> QED
    BY <1>1, <1>2, <1>4
<1>6. FileTypes(logs', logName', index')
  BY <1>1, <1>5 DEF FileTypes
<1>7. Grown(logs, logs')
  <2>1. ASSUME NEW g \in 1 .. Len(logs)
        PROVE  /\ Len(logs[g].entries) <= Len(logs'[g].entries)
               /\ \A q \in 1 .. Len(logs[g].entries) : logs'[g].entries[q] = logs[g].entries[q]
    <3>1. CASE g = f
      BY <1>3, <1>4, <1>5, <3>1
    <3>2. CASE g # f
      <4>1. Len(logs[g].entries) \in Nat
        BY <1>2
      <4> QED
        BY <1>5, <3>2, <4>1
    <3> QED
      BY <3>1, <3>2
  <2>2. Len(logs) <= Len(logs')
    BY <1>2, <1>5
  <2> QED
    BY Zenon, <2>1, <2>2 DEF Grown
<1>8. FilesStep(a, a, logs, logName, index, logs', logName', index')
  <2>1. \A g \in 1 .. Len(logs) : (\A c \in Pair : c = a => g # logName[c]) => logs'[g] = logs[g]
    BY Zenon, <1>5
  <2> HIDE DEF f
  <2> QED
    BY <1>1, <1>7, <2>1 DEF FilesStep
<1>9. IndexesHonest(logs', logName', index')
  BY <1>1, <1>6, <1>8, IndexesKeep
<1> QED
  BY <1>1, <1>4, <1>5, <1>6, <1>7, <1>8, <1>9

\* appendlog closes its log, which gets the entries, and exits.
LEMMA AppendedKeeps ==
  ASSUME ToolInv, NEW p \in Proc, At(p, {"appendlog"}, "close"), NEW damage \in BOOLEAN,
         CloseAppends(proc[p].out, proc[p].buf, damage),
         NEW s, proc' = [proc EXCEPT ![p] = s], RecordInv(s, logs), LinesPut(s),
         s.cmd = "appendlog", s.pc = "exited", s.hdr = proc[p].hdr, s.buf = proc[p].buf
  PROVE  ToolInv'
<1> DEFINE r == proc[p]
           b == r.buf
<1>0. /\ FileTypes(logs, logName, index) /\ NamesApart(logName)
      /\ IndexesHonest(logs, logName, index)
      /\ RecordInv(r, logs) /\ AppendInv(r, logs, logName)
  BY ProcFacts
<1>1. r.cmd = "appendlog" /\ r.pc = "close"
  BY DEF At
<1>2. /\ r.hdr.file # 0 /\ r.hdr.file = logName[r.out]
      /\ r.hdr.end = Len(logs[r.hdr.file].entries)
  BY <1>0, <1>1 DEF AppendInv
<1>3. r.out \in Pair /\ b \in Seq(Entries)
  BY Zenon, <1>0, <1>1 DEF RecordInv, LogWriters
<1> DEFINE es == logs[r.hdr.file].entries
<1>4. /\ logName' = logName /\ index' = index
      /\ FileTypes(logs', logName', index') /\ IndexesHonest(logs', logName', index')
      /\ FilesStep(r.out, r.out, logs, logName, index, logs', logName', index')
      /\ Grown(logs, logs') /\ logs'[r.hdr.file].entries = es \o b
  BY <1>0, <1>1, <1>2, <1>3, CloseFiles
<1>5. es \in Seq(Entries)
  <2>1. r.hdr.file \in 1 .. Len(logs)
    BY <1>0, <1>2, <1>3, FileFacts
  <2> QED
    BY <1>0, <2>1, FileFacts
<1>6. RecordInv(s, logs')
  <2>1. logs \in Seq(LogFile) /\ logs' \in Seq(LogFile)
    BY <1>0, <1>4 DEF FileTypes
  <2> QED
    BY Zenon, <1>4, <2>1, RecordGrows
<1>7. AppendInv(s, logs', logName')
  <2>1. /\ Len(es) + Len(b) <= Len(es \o b)
        /\ \A i \in 1 .. Len(b) : (es \o b)[Len(es) + i] = b[i]
    <3> HIDE DEF es, b
    <3> QED
      BY SMTT(40), <1>3, <1>5
  <2>2. /\ s.hdr.end + Len(s.buf) <= Len(logs'[s.hdr.file].entries)
        /\ \A i \in 1 .. Len(s.buf) : logs'[s.hdr.file].entries[s.hdr.end + i] = s.buf[i]
    BY Zenon, <1>2, <1>4, <2>1
  <2> QED
    BY <2>2 DEF AppendInv
<1>8. ProcInv(s, logs', logName', index')
  BY <1>6, <1>7
  DEF ProcInv, ReadInv, GetInv, Exited, BuildInv, RewriteInv, IndexWriters
<1>9. proc[p].pc # "exited" /\ proc[p].cmd \in LogWriters
  BY <1>1 DEF LogWriters
<1> QED
  BY <1>0, <1>4, <1>8, <1>9, LogStep

\* The close succeeds.
LEMMA AppendClosesKeeps ==
  ASSUME ToolInv, NEW p \in Proc, AppendCloses(p) PROVE ToolInv'
<1> DEFINE r == proc[p]
           s == Left(r, r.exit)
<1>0. /\ logs \in Seq(LogFile) /\ RecordInv(r, logs) /\ AppendInv(r, logs, logName)
      /\ DOMAIN r = FieldNames /\ r.exit \in {0, 1, 2, 9}
  BY ProcFacts DEF FileTypes, RecordInv
<1>1. /\ At(p, {"appendlog"}, "close") /\ r.cmd = "appendlog" /\ r.pc = "close"
      /\ proc' = [proc EXCEPT ![p] = s]
  BY DEF AppendCloses, At, Return, Step
<1>2. PICK damage \in BOOLEAN : CloseAppends(r.out, r.buf, damage)
  BY DEF AppendCloses
<1>3. LinesPut(r)
  BY <1>0, <1>1 DEF AppendInv
<1>4. /\ s.cmd = r.cmd /\ s.pc = "exited" /\ s.exit = r.exit /\ s.hdr = r.hdr
      /\ s.buf = r.buf /\ s.given = r.given /\ s.long = r.long /\ s.junk = r.junk
      /\ s.failed = r.failed
  BY SMTT(40), <1>0, LeftFields
<1>5. RecordInv(s, logs)
  BY <1>0, LeftRecord
<1>6. LinesPut(s)
  <2> HIDE DEF s, r
  <2> QED
    BY <1>3, <1>4 DEF LinesPut
<1> HIDE DEF s
<1> QED
  BY Zenon, <1>1, <1>2, <1>4, <1>5, <1>6, AppendedKeeps

\* The close fails: nothing is added, or everything.
LEMMA AppendCloseFailsKeeps ==
  ASSUME ToolInv, NEW p \in Proc, AppendCloseFails(p) PROVE ToolInv'
<1> DEFINE r == proc[p]
           t == Left(r, 1)
<1>0. /\ logs \in Seq(LogFile) /\ RecordInv(r, logs) /\ AppendInv(r, logs, logName)
      /\ DOMAIN r = FieldNames
  BY ProcFacts DEF FileTypes, RecordInv
<1>1. At(p, {"appendlog"}, "close") /\ r.cmd = "appendlog" /\ r.pc = "close"
  BY DEF AppendCloseFails, At
<1>2. LinesPut(r) /\ r.hdr.file # 0 /\ r.hdr.end = Len(logs[r.hdr.file].entries)
  BY <1>0, <1>1 DEF AppendInv
<1>3. /\ t.cmd = r.cmd /\ t.pc = "exited" /\ t.exit = 1 /\ t.hdr = r.hdr
      /\ t.buf = r.buf /\ t.given = r.given /\ t.junk = r.junk /\ DOMAIN t = FieldNames
  BY SMTT(40), <1>0, LeftFields
<1>4. RecordInv(t, logs)
  BY <1>0, LeftRecord
<1> HIDE DEF t
<1>5. CASE /\ proc' = [proc EXCEPT ![p] = [t EXCEPT !.failed = TRUE, !.buf = << >>]]
           /\ logs' = logs /\ logName' = logName /\ index' = index
  <2> DEFINE s == [t EXCEPT !.failed = TRUE, !.buf = << >>]
  <2>1. /\ s.cmd = "appendlog" /\ s.pc = "exited" /\ s.exit = 1 /\ s.hdr = r.hdr
        /\ s.buf = << >> /\ s.given = r.given /\ s.junk = r.junk /\ s.failed
    BY <1>1, <1>3 DEF FieldNames
  <2>2. RecordInv(s, logs)
    BY <1>3, <1>4 DEF RecordInv, FieldNames
  <2> HIDE DEF s
  <2>3. LinesPut(s)
    <3>1. r.given \in Seq(Entries \cup {BadLine}) /\ << >> \in Seq(Entries \cup {BadLine})
      BY <1>0 DEF RecordInv
    <3>2. IsPrefix(<< >>, << >> \o r.given)
      BY <3>1, PrefixAppends
    <3>3. << >> \o r.given = r.given
      BY <3>1
    <3> QED
      BY <2>1, <3>2, <3>3 DEF LinesPut
  <2>4. r.hdr.end \in Nat
    BY <1>0 DEF RecordInv, Loaded, LogHeader
  <2>5. AppendInv(s, logs, logName)
    <3> HIDE DEF r
    <3> QED
      BY <1>2, <2>1, <2>3, <2>4 DEF AppendInv
  <2>6. ProcInv(s, logs, logName, index)
    BY <2>1, <2>2, <2>5
    DEF ProcInv, ReadInv, GetInv, Exited, BuildInv, RewriteInv, IndexWriters
  <2> QED
    BY <1>5, <2>1, <2>6, QuietStep DEF s
<1>6. ASSUME proc' = [proc EXCEPT ![p] = [t EXCEPT !.failed = TRUE]],
             NEW damage \in BOOLEAN, CloseAppends(r.out, r.buf, damage)
      PROVE  ToolInv'
  <2> DEFINE s == [t EXCEPT !.failed = TRUE]
  <2>1. /\ s.cmd = "appendlog" /\ s.pc = "exited" /\ s.exit = 1 /\ s.hdr = r.hdr
        /\ s.buf = r.buf /\ s.given = r.given /\ s.junk = r.junk /\ s.failed
    BY <1>1, <1>3 DEF FieldNames
  <2>2. RecordInv(s, logs)
    BY <1>3, <1>4 DEF RecordInv, FieldNames
  <2>3. proc' = [proc EXCEPT ![p] = s]
    BY <1>6
  <2> HIDE DEF s
  <2>4. LinesPut(s)
    <3> HIDE DEF r
    <3> QED
      BY <1>2, <2>1 DEF LinesPut
  <2> QED
    BY Zenon, <1>1, <1>6, <2>1, <2>2, <2>3, <2>4, AppendedKeeps
<1> QED
  BY <1>5, <1>6 DEF AppendCloseFails, Fault, files, t

\* The old log of the name is removed.
LEMMA CreateRemovesKeeps ==
  ASSUME ToolInv, NEW p \in Proc, CreateRemoves(p) PROVE ToolInv'
<1> DEFINE r == proc[p]
           s == [r EXCEPT !.pc = "created"]
<1>0. /\ FileTypes(logs, logName, index) /\ NamesApart(logName)
      /\ IndexesHonest(logs, logName, index)
      /\ RecordInv(r, logs) /\ ReadInv(r, logs, logName) /\ RewriteInv(r, logs, logName, index)
      /\ DOMAIN r = FieldNames
  BY ProcFacts
<1>1. r.cmd \in {"createlog", "rewrite"} /\ r.pc = "create" /\ logs' = logs /\ index' = index
  BY DEF CreateRemoves, At
<1>2. CASE Exit(p, 1) /\ UNCHANGED logName
  BY <1>1, <1>2, ExitStep
<1>3. CASE /\ Goto(p, "created") /\ logName' = [logName EXCEPT ![r.out] = 0]
  <2>1. proc' = [proc EXCEPT ![p] = s]
    BY <1>3 DEF Goto, Step
  <2>2. r.out \in Pair
    BY <1>0, <1>1 DEF RecordInv, LogWriters
  <2>3. /\ logName' \in [Pair -> 0 .. Len(logs)] /\ logName'[r.out] = 0
        /\ \A a \in Pair \ {r.out} : logName'[a] = logName[a]
    <3>1. Len(logs) \in Nat /\ logName \in [Pair -> 0 .. Len(logs)]
      BY <1>0 DEF FileTypes
    <3> QED
      BY <1>3, <2>2, <3>1
  <2>4. FileTypes(logs', logName', index')
    BY <1>0, <1>1, <2>3 DEF FileTypes
  <2>5. NamesApart(logName')
    BY <1>0, <2>3 DEF NamesApart
  <2>6. FilesStep(r.out, r.out, logs, logName, index, logs', logName', index')
    <3>1. Grown(logs, logs)
      BY <1>0, FilesStay DEF FileTypes
    <3> QED
      BY <1>1, <2>3, <3>1 DEF FilesStep
  <2>7. IndexesHonest(logs', logName', index')
    BY <1>0, <1>1, <2>4, <2>6, IndexesKeep
  <2> HIDE DEF r
  <2>8. /\ s.cmd = r.cmd /\ s.pc = "created" /\ s.out = r.out /\ s.exit = r.exit
        /\ s.hdr = r.hdr /\ s.index = r.index /\ s.data = r.data
        /\ s.buf = r.buf /\ s.done = r.done
    BY <1>0 DEF FieldNames
  <2>9. RecordInv(s, logs')
    BY <1>0, <1>1 DEF RecordInv, FieldNames
  <2> HIDE DEF s
  <2>10. ReadInv(s, logs', logName')
    BY <1>0, <1>1, <2>8 DEF ReadInv
  <2>11. RewriteInv(s, logs', logName', index')
    BY <1>0, <1>1, <2>3, <2>8 DEF RewriteInv, Opening, Indexing
  <2>12. ProcInv(s, logs', logName', index')
    BY <1>1, <2>8, <2>9, <2>10, <2>11
    DEF ProcInv, GetInv, Exited, AppendInv, BuildInv
  <2>13. proc[p].pc # "exited" /\ proc[p].cmd \in LogWriters
    BY <1>1 DEF LogWriters, r
  <2> QED
    BY <1>1, <2>1, <2>4, <2>5, <2>6, <2>7, <2>8, <2>12, <2>13, LogStep DEF r
<1> QED
  BY <1>2, <1>3 DEF CreateRemoves

\* A new log is written.
LEMMA CreateFiles ==
  ASSUME FileTypes(logs, logName, index), NamesApart(logName),
         IndexesHonest(logs, logName, index), NEW a \in Pair, NEW new \in LogFile,
         Len(logs) < MaxFiles, new.entries = << >>, ~new.damaged, logs' = Append(logs, new),
         logName' = [logName EXCEPT ![a] = Len(logs) + 1], index' = index
  PROVE  /\ FileTypes(logs', logName', index') /\ IndexesHonest(logs', logName', index')
         /\ NamesApart(logName')
         /\ FilesStep(a, a, logs, logName, index, logs', logName', index')
         /\ Grown(logs, logs') /\ logs' \in Seq(LogFile) /\ logs \in Seq(LogFile)
         /\ logName'[a] = Len(logs) + 1 /\ Len(logs) \in Nat
         /\ logs'[Len(logs) + 1].entries = << >> /\ ~logs'[Len(logs) + 1].damaged
<1>1. /\ logs \in Seq(LogFile) /\ Len(logs) \in Nat /\ logName \in [Pair -> 0 .. Len(logs)]
      /\ \A g \in 1 .. Len(logs) : Len(logs[g].entries) \in Nat
      /\ \A b \in Pair : index[b] \in Index /\ index[b].id <= Len(logs) /\ index[b].id \in Nat
  BY FileFacts DEF FileTypes
<1>2. /\ logs' \in Seq(LogFile) /\ Len(logs') = Len(logs) + 1 /\ logs'[Len(logs) + 1] = new
      /\ \A g \in 1 .. Len(logs) : logs'[g] = logs[g]
  BY <1>1
<1>3. /\ logName'[a] = Len(logs) + 1 /\ logName' \in [Pair -> 0 .. Len(logs')]
      /\ \A b \in Pair \ {a} : logName'[b] = logName[b]
  BY <1>1, <1>2
<1>4. FileTypes(logs', logName', index')
  <2>1. Len(logs') <= MaxFiles
    BY <1>1, <1>2, ToolAssumption
  <2>2. \A b \in Pair : index'[b].id <= Len(logs')
    BY <1>1, <1>2
  <2> QED
    BY <1>2, <1>3, <2>1, <2>2 DEF FileTypes
<1>5. NamesApart(logName')
  <2>1. \A b \in Pair : logName[b] # Len(logs) + 1
    BY <1>1
  <2> QED
    BY <1>3, <2>1 DEF NamesApart
<1>6. Grown(logs, logs')
  BY <1>1, <1>2 DEF Grown
<1>7. FilesStep(a, a, logs, logName, index, logs', logName', index')
  <2>1. \A b \in Pair : logName'[b] = logName[b] \/ logName'[b] > Len(logs)
    BY <1>1, <1>3
  <2> QED
    BY <1>2, <1>3, <1>6, <2>1 DEF FilesStep
<1>8. IndexesHonest(logs', logName', index')
  BY <1>4, <1>7, IndexesKeep
<1> QED
  BY <1>1, <1>2, <1>3, <1>4, <1>5, <1>6, <1>7, <1>8

\* createlog and rewrite create their log.
LEMMA CreateWritesKeeps ==
  ASSUME ToolInv, NEW p \in Proc, CreateWrites(p) PROVE ToolInv'
<1> DEFINE r == proc[p]
           c == r.compression
           new == [entries |-> << >>, compression |-> c,
                   block |-> IF UsesCompressor(c) THEN r.block ELSE 0, damaged |-> FALSE]
<1>0. /\ FileTypes(logs, logName, index) /\ NamesApart(logName)
      /\ IndexesHonest(logs, logName, index)
      /\ RecordInv(r, logs) /\ ReadInv(r, logs, logName) /\ RewriteInv(r, logs, logName, index)
      /\ DOMAIN r = FieldNames
  BY ProcFacts
<1>1. /\ r.cmd \in {"createlog", "rewrite"} /\ r.pc = "created" /\ Len(logs) < MaxFiles
      /\ logs' = Append(logs, new) /\ logName' = [logName EXCEPT ![r.out] = Len(logs) + 1]
      /\ index' = index
  BY DEF CreateWrites, At
<1>2. r.out \in Pair /\ proc[p].pc # "exited" /\ proc[p].cmd \in LogWriters
  BY <1>0, <1>1 DEF RecordInv, LogWriters
<1>3. new \in LogFile /\ new.entries = << >> /\ ~new.damaged
  BY <1>0 DEF RecordInv, LogFile
<1> HIDE DEF new
<1>4. /\ FileTypes(logs', logName', index') /\ IndexesHonest(logs', logName', index')
      /\ NamesApart(logName')
      /\ FilesStep(r.out, r.out, logs, logName, index, logs', logName', index')
      /\ Grown(logs, logs') /\ logs' \in Seq(LogFile) /\ logs \in Seq(LogFile)
      /\ logName'[r.out] = Len(logs) + 1 /\ Len(logs) \in Nat
      /\ logs'[Len(logs) + 1].entries = << >> /\ ~logs'[Len(logs) + 1].damaged
  BY <1>0, <1>1, <1>2, <1>3, CreateFiles
<1>5. CASE r.cmd = "createlog"
  <2> DEFINE s == Left(r, 0)
  <2>1. proc' = [proc EXCEPT ![p] = s]
    BY <1>5 DEF CreateWrites, Return, Step, Left
  <2>2. s.cmd = r.cmd /\ s.pc = "exited"
    BY <1>0, LeftFields
  <2>3. RecordInv(s, logs)
    BY <1>0, <1>4, LeftRecord
  <2>4. RecordInv(s, logs')
    BY <1>4, <2>3, RecordGrows
  <2> HIDE DEF s
  <2>5. ProcInv(s, logs', logName', index')
    BY <1>5, <2>2, <2>4
    DEF ProcInv, ReadInv, GetInv, Exited, AppendInv, BuildInv, RewriteInv, IndexWriters
  <2> QED
    BY <1>1, <1>2, <1>4, <2>1, <2>2, <2>5, LogStep
<1>6. CASE r.cmd = "rewrite"
  <2> DEFINE s == [r EXCEPT !.pc = "copy"]
  <2>1. proc' = [proc EXCEPT ![p] = s]
    BY <1>6 DEF CreateWrites, Goto, Step
  <2> HIDE DEF r
  <2>2. /\ s.cmd = r.cmd /\ s.pc = "copy" /\ s.out = r.out /\ s.exit = r.exit
        /\ s.hdr = r.hdr /\ s.index = r.index /\ s.data = r.data
        /\ s.buf = r.buf /\ s.done = r.done
    BY <1>0 DEF FieldNames
  <2>3. RecordInv(s, logs)
    BY <1>0, <1>1 DEF RecordInv, FieldNames
  <2>4. RecordInv(s, logs')
    BY <1>4, <2>3, RecordGrows
  <2> HIDE DEF s
  <2>5. r.hdr.file # 0 /\ r.data # 0 /\ r.index.id = r.hdr.file /\ Honest(r.index, logs)
    BY <1>0, <1>1, <1>6 DEF ReadInv
  <2>6. Honest(r.index, logs')
    <3>1. r.index \in Index /\ r.index.id <= Len(logs)
      BY <1>0 DEF RecordInv
    <3> QED
      BY <1>4, <2>5, <3>1, HonestGrows
  <2>7. ReadInv(s, logs', logName')
    BY <2>2, <2>5, <2>6 DEF ReadInv
  <2>8. r.buf = << >> /\ r.done = 0 /\ r.exit = 0
    BY <1>0, <1>1, <1>6 DEF RewriteInv
  <2>9. logName'[r.out] # 0 /\ index'[r.out].id # logName'[r.out]
    <3>1. index[r.out].id \in Nat /\ index[r.out].id <= Len(logs)
      BY <1>0, <1>2, FileFacts
    <3> QED
      BY <1>1, <1>4, <3>1
  <2>10. r.hdr.end \in Nat /\ Len(logs'[r.data].entries) \in Nat
    <3>1. r.hdr \in LogHeader /\ r.data \in 0 .. Len(logs)
      BY <1>0 DEF RecordInv, Loaded
    <3>2. r.hdr.end \in Nat
      BY <3>1 DEF LogHeader
    <3>3. r.data \in 1 .. Len(logs')
      BY <1>4, <2>5, <3>1 DEF Grown
    <3> QED
      BY <1>4, <3>2, <3>3, LogFacts
  <2>11. RewriteInv(s, logs', logName', index')
    <3>1. /\ Len(s.buf) = s.done /\ s.done <= s.hdr.end /\ s.done <= Len(logs'[s.data].entries)
          /\ s.done = 0
      BY <2>2, <2>8, <2>10
    <3>2. \A q \in 1 .. s.done : s.buf[q] = RewritePut(logs'[s.data].entries[q])
      BY <3>1
    <3>3. /\ s.exit = 0 /\ logName'[s.out] # 0 /\ index'[s.out].id # logName'[s.out]
          /\ logs'[logName'[s.out]].entries = << >> /\ ~logs'[logName'[s.out]].damaged
      BY <1>4, <2>2, <2>8, <2>9
    <3> QED
      BY <1>6, <2>2, <3>1, <3>2, <3>3 DEF RewriteInv, Opening, Indexing
  <2>12. ProcInv(s, logs', logName', index')
    BY <1>6, <2>2, <2>4, <2>7, <2>11
    DEF ProcInv, GetInv, Exited, AppendInv, BuildInv
  <2> QED
    BY <1>1, <1>2, <1>4, <2>1, <2>2, <2>12, LogStep DEF r
<1> QED
  BY <1>1, <1>5, <1>6

(***************************************************************************)
(* rewrite copies the log.                                                 *)
(***************************************************************************)

\* What holds in the loop of rewrite.
LEMMA CopyFacts ==
  ASSUME ToolInv, NEW p \in Proc, At(p, {"rewrite"}, "copy")
  PROVE  LET r == proc[p]
         IN  /\ r.cmd = "rewrite" /\ r.pc = "copy" /\ r.exit = 0
             /\ r.hdr.file # 0 /\ r.index.id = r.hdr.file /\ Honest(r.index, logs)
             /\ r.out \in Pair /\ logName[r.out] # 0 /\ index[r.out].id # logName[r.out]
             /\ logs[logName[r.out]].entries = << >> /\ ~logs[logName[r.out]].damaged
             /\ r.data \in 1 .. Len(logs) /\ r.hdr.file \in 1 .. Len(logs)
             /\ r.done \in Nat /\ r.hdr.end \in Nat /\ r.buf \in Seq(Entries)
             /\ logs[r.data].entries \in Seq(Entries) /\ Len(logs[r.data].entries) \in Nat
             /\ Len(r.buf) = r.done /\ r.done <= r.hdr.end /\ r.done <= Len(logs[r.data].entries)
             /\ r.hdr.end <= Len(logs[r.hdr.file].entries)
             /\ \A q \in 1 .. r.done : r.buf[q] = RewritePut(logs[r.data].entries[q])
<1> DEFINE r == proc[p]
<1>0. /\ FileTypes(logs, logName, index) /\ RecordInv(r, logs) /\ ReadInv(r, logs, logName)
      /\ RewriteInv(r, logs, logName, index)
  BY ProcFacts
<1>1. r.cmd = "rewrite" /\ r.pc = "copy"
  BY DEF At
<1> HIDE DEF r
<1>2. /\ r.hdr.file # 0 /\ r.data # 0 /\ r.index.id = r.hdr.file /\ Honest(r.index, logs)
  BY <1>0, <1>1 DEF ReadInv
<1>3. /\ r.exit = 0 /\ logName[r.out] # 0 /\ index[r.out].id # logName[r.out]
      /\ logs[logName[r.out]].entries = << >> /\ ~logs[logName[r.out]].damaged
      /\ Len(r.buf) = r.done /\ r.done <= r.hdr.end /\ r.done <= Len(logs[r.data].entries)
      /\ \A q \in 1 .. r.done : r.buf[q] = RewritePut(logs[r.data].entries[q])
  BY <1>0, <1>1 DEF RewriteInv
<1>4. /\ r.out \in Pair /\ r.data \in 0 .. Len(logs) /\ r.done \in Nat /\ r.buf \in Seq(Entries)
      /\ r.hdr \in LogHeader /\ r.hdr.file <= Len(logs)
      /\ r.hdr.end <= Len(logs[r.hdr.file].entries)
  BY <1>0, <1>1, <1>2 DEF RecordInv, Loaded, LogWriters
<1>5. r.hdr.file \in Nat /\ r.hdr.end \in Nat
  BY <1>4 DEF LogHeader
<1>6. r.data \in 1 .. Len(logs) /\ r.hdr.file \in 1 .. Len(logs)
  BY <1>0, <1>2, <1>4, <1>5, FileFacts
<1>7. logs[r.data].entries \in Seq(Entries) /\ Len(logs[r.data].entries) \in Nat
  BY <1>0, <1>6, FileFacts
<1> QED
  BY <1>1, <1>2, <1>3, <1>4, <1>5, <1>6, <1>7 DEF r

\* An entry is put into the new log.
LEMMA RewriteNextKeeps ==
  ASSUME ToolInv, NEW p \in Proc, RewriteNext(p) PROVE ToolInv'
<1> DEFINE r == proc[p]
           es == logs[r.data].entries
           n == r.done + 1
           b == Append(r.buf, RewritePut(es[n]))
           s == [r EXCEPT !.done = n, !.buf = b]
<1>0. RecordInv(r, logs) /\ DOMAIN r = FieldNames /\ RewriteInv(r, logs, logName, index)
      /\ ReadInv(r, logs, logName)
  BY ProcFacts
<1>1. /\ At(p, {"rewrite"}, "copy") /\ Remaining(r)
      /\ logs' = logs /\ logName' = logName /\ index' = index
  BY DEF RewriteNext, files
<1>a. CASE Exit(p, 1)
  BY <1>1, <1>a, ExitStep
<1>2. SUFFICES ASSUME proc' = [proc EXCEPT ![p] = s] PROVE ToolInv'
  BY <1>0, <1>a DEF RewriteNext, Step, FieldNames
<1>3. /\ r.cmd = "rewrite" /\ r.pc = "copy" /\ r.exit = 0
      /\ r.done \in Nat /\ r.hdr.end \in Nat /\ r.buf \in Seq(Entries)
      /\ es \in Seq(Entries) /\ Len(es) \in Nat /\ Len(r.buf) = r.done
      /\ \A q \in 1 .. r.done : r.buf[q] = RewritePut(es[q])
  BY <1>1, CopyFacts
<1>4. n \in Nat /\ n \in 1 .. Len(es) /\ n <= r.hdr.end /\ n <= Len(es)
  <2>1. r.done < r.hdr.end /\ r.done < Len(es)
    BY <1>1 DEF Remaining
  <2>2. r.done \in Nat /\ r.hdr.end \in Nat /\ Len(es) \in Nat
    BY <1>3
  <2> HIDE DEF r, es
  <2> QED
    BY <2>1, <2>2
<1>5. RewritePut(es[n]) \in Entries
  <2>1. es[n] \in Entries
    BY <1>3, <1>4
  <2> QED
    BY <2>1 DEF Entries, RewritePut
<1>6. b \in Seq(Entries) /\ Len(b) = n /\ \A q \in 1 .. n : b[q] = RewritePut(es[q])
  <2> HIDE DEF es
  <2> QED
    BY <1>3, <1>5
<1> HIDE DEF r, n, b
<1>7. /\ s.cmd = r.cmd /\ s.pc = r.pc /\ s.out = r.out /\ s.exit = r.exit
      /\ s.hdr = r.hdr /\ s.index = r.index /\ s.data = r.data
      /\ s.buf = b /\ s.done = n
  BY <1>0 DEF FieldNames
<1>8. RecordInv(s, logs)
  BY <1>0, <1>4, <1>6 DEF RecordInv, FieldNames
<1> HIDE DEF s
<1>9. ReadInv(s, logs, logName)
  BY <1>0, <1>3, <1>7 DEF ReadInv
<1>10. RewriteInv(s, logs, logName, index)
  <2>1. /\ logName[r.out] # 0 /\ index[r.out].id # logName[r.out]
        /\ logs[logName[r.out]].entries = << >> /\ ~logs[logName[r.out]].damaged
    BY <1>0, <1>3 DEF RewriteInv
  <2>2. /\ Len(s.buf) = s.done /\ s.done <= s.hdr.end /\ s.done <= Len(logs[s.data].entries)
        /\ \A q \in 1 .. s.done : s.buf[q] = RewritePut(logs[s.data].entries[q])
    BY <1>4, <1>6, <1>7
  <2> QED
    BY <1>3, <1>7, <2>1, <2>2 DEF RewriteInv, Opening, Indexing
<1>11. ProcInv(s, logs, logName, index)
  BY Zenon, <1>3, <1>7, <1>8, <1>9, <1>10
  DEF ProcInv, GetInv, Exited, AppendInv, BuildInv
<1> QED
  BY <1>1, <1>2, <1>3, <1>7, <1>11, QuietStep DEF r

\* The new log is closed: it has the entries of the old one.
LEMMA RewriteClosesKeeps ==
  ASSUME ToolInv, NEW p \in Proc, RewriteCloses(p) PROVE ToolInv'
<1> DEFINE r == proc[p]
           f == logName[r.out]
           g == r.hdr.file
           n == r.hdr.end
           b == r.buf
           s == [r EXCEPT !.pc = "hashload"]
<1>0. /\ FileTypes(logs, logName, index) /\ NamesApart(logName)
      /\ IndexesHonest(logs, logName, index)
      /\ RecordInv(r, logs) /\ DOMAIN r = FieldNames
  BY ProcFacts
<1>1. /\ At(p, {"rewrite"}, "copy") /\ ~Remaining(r) /\ CloseAppends(r.out, b, FALSE)
      /\ proc' = [proc EXCEPT ![p] = s]
  BY DEF RewriteCloses, Goto, Step
<1>2. /\ r.cmd = "rewrite" /\ r.pc = "copy" /\ r.exit = 0
      /\ g # 0 /\ r.out \in Pair /\ f # 0 /\ index[r.out].id # f
      /\ logs[f].entries = << >> /\ ~logs[f].damaged /\ r.done \in Nat /\ n \in Nat /\ b \in Seq(Entries)
      /\ r.data \in 1 .. Len(logs) /\ g \in 1 .. Len(logs)
      /\ Len(b) = r.done /\ r.done <= n /\ r.done <= Len(logs[r.data].entries)
      /\ n <= Len(logs[g].entries) /\ Len(logs[r.data].entries) \in Nat
  BY <1>1, CopyFacts
<1>3. \A q \in 1 .. r.done : b[q] = RewritePut(logs[r.data].entries[q])
  BY <1>1, CopyFacts
<1>4. /\ logName' = logName /\ index' = index
      /\ FileTypes(logs', logName', index') /\ IndexesHonest(logs', logName', index')
      /\ FilesStep(r.out, r.out, logs, logName, index, logs', logName', index')
      /\ Grown(logs, logs') /\ Len(logs') = Len(logs)
      /\ logs'[f].entries = logs[f].entries \o b
      /\ logs'[f].damaged = (logs[f].damaged \/ FALSE)
  BY <1>0, <1>1, <1>2, CloseFiles
<1>5. logs'[f].entries = b
  BY <1>2, <1>4
<1>6. ASSUME ~Mixed(r)
      PROVE  Len(logs'[f].entries) = n /\ Copies(logs', f, g, n)
  <2>1. r.data = g
    BY <1>6 DEF Mixed
  <2>2. r.done = n
    BY SMTT(40), <1>1, <1>2, <2>1 DEF Remaining
  <2>3. \A q \in 1 .. n : logs'[f].entries[q] = RewritePut(logs[g].entries[q])
    BY <1>3, <1>5, <2>1, <2>2
  <2>4. /\ Len(logs[g].entries) <= Len(logs'[g].entries)
        /\ \A q \in 1 .. Len(logs[g].entries) : logs'[g].entries[q] = logs[g].entries[q]
    BY <1>2, <1>4 DEF Grown
  <2>5. Len(logs[g].entries) \in Nat /\ Len(logs'[g].entries) \in Nat
    <3>1. logs' \in Seq(LogFile) /\ logs \in Seq(LogFile)
      BY <1>0, <1>4 DEF FileTypes
    <3> QED
      BY <1>2, <1>4, <3>1, LogFacts
  <2> HIDE DEF f, g, n, b
  <2>6. n <= Len(logs'[g].entries) /\ \A q \in 1 .. n : q \in 1 .. Len(logs[g].entries)
    BY SMTT(40), <1>2, <2>4, <2>5
  <2>7. \A q \in 1 .. n : logs'[f].entries[q] = RewritePut(logs'[g].entries[q])
    BY <2>3, <2>4, <2>6
  <2>8. Len(logs'[f].entries) = n /\ n <= Len(logs'[f].entries)
    BY <1>2, <1>5, <2>2
  <2> QED
    BY <2>6, <2>7, <2>8 DEF Copies
<1>7. RecordInv(s, logs')
  <2>1. RecordInv(s, logs)
    <3> HIDE DEF r
    <3> QED
      BY <1>0, <1>2 DEF RecordInv, FieldNames
  <2> HIDE DEF s
  <2> QED
    BY <1>0, <1>4, <2>1, RecordGrows DEF FileTypes
<1>8. /\ s.cmd = "rewrite" /\ s.pc = "hashload" /\ s.out = r.out /\ s.exit = 0
      /\ s.hdr = r.hdr /\ s.data = r.data /\ s.index = r.index /\ s.map = r.map
  BY <1>0, <1>2 DEF FieldNames
<1> HIDE DEF s
<1>9. RewriteInv(s, logs', logName', index')
  <2>1. ~Mixed(s) => ~Mixed(r)
    BY <1>8 DEF Mixed
  <2>2. ~Mixed(s) => /\ s.hdr.file # 0 /\ Len(logs'[logName'[s.out]].entries) = s.hdr.end
                     /\ Copies(logs', logName'[s.out], s.hdr.file, s.hdr.end)
    BY <1>2, <1>4, <1>6, <1>8, <2>1
  <2>3. /\ logName'[s.out] # 0 /\ index'[s.out].id # logName'[s.out]
        /\ ~logs'[logName'[s.out]].damaged
    BY <1>2, <1>4, <1>8
  <2> QED
    BY <1>8, <2>2, <2>3 DEF RewriteInv, Opening
<1>10. ProcInv(s, logs', logName', index')
  BY <1>7, <1>8, <1>9 DEF ProcInv, ReadInv, GetInv, Exited, AppendInv, BuildInv
<1>11. proc[p].pc # "exited" /\ proc[p].cmd \in LogWriters
  BY <1>2 DEF LogWriters
<1>12. s.cmd = proc[p].cmd /\ s.out = proc[p].out
  BY Zenon, <1>2, <1>8
<1>13. NamesApart(logName')
  BY <1>0, <1>4
<1> QED
  BY <1>1, <1>4, <1>10, <1>11, <1>12, <1>13, LogStep

\* The close fails although the new log is there.
LEMMA RewriteCloseFailsKeeps ==
  ASSUME ToolInv, NEW p \in Proc, RewriteCloseFails(p) PROVE ToolInv'
<1> DEFINE r == proc[p]
           s == [Idle EXCEPT !.exit = 1, !.failed = TRUE]
<1>0. /\ FileTypes(logs, logName, index) /\ NamesApart(logName)
      /\ IndexesHonest(logs, logName, index)
  BY ProcFacts
<1>1. /\ At(p, {"rewrite"}, "copy") /\ CloseAppends(r.out, r.buf, FALSE)
      /\ proc' = [proc EXCEPT ![p] = s]
  BY DEF RewriteCloseFails, Fault
<1>2. /\ r.cmd = "rewrite" /\ r.pc = "copy"
      /\ r.out \in Pair /\ logName[r.out] # 0 /\ r.buf \in Seq(Entries)
  BY <1>1, CopyFacts
<1>3. /\ logName' = logName /\ index' = index
      /\ FileTypes(logs', logName', index') /\ IndexesHonest(logs', logName', index')
      /\ FilesStep(r.out, r.out, logs, logName, index, logs', logName', index')
  BY <1>0, <1>1, <1>2, CloseFiles
<1>4. ProcInv(s, logs', logName', index') /\ s.pc = "exited"
  BY <1>3, FailedInv
<1>5. r.pc # "exited" /\ r.cmd \in LogWriters
  BY <1>2 DEF LogWriters
<1> HIDE DEF s
<1> QED
  BY <1>0, <1>1, <1>3, <1>4, <1>5, LogStep

(***************************************************************************)
(* writehash, and rewrite when it indexes the new log.                     *)
(***************************************************************************)

\* The header of the log is loaded.
LEMMA HashLoadsKeeps ==
  ASSUME ToolInv, NEW p \in Proc, HashLoads(p) PROVE ToolInv'
<1> DEFINE r == proc[p]
           f == logName[r.out]
           h == Header(f)
           s == [r EXCEPT !.pc = "hashopen", !.loaded = h]
<1>1. /\ r.cmd \in {"writehash", "rewrite"} /\ r.pc = "hashload"
      /\ logs' = logs /\ logName' = logName /\ index' = index
  BY DEF HashLoads, At, files
<1>2. CASE f = 0
  <2>1. Exit(p, 1)
    BY <1>2 DEF HashLoads
  <2> QED
    BY <1>1, <2>1, ExitStep
<1>3. CASE f # 0
  <2>1. proc' = [proc EXCEPT ![p] = s]
    BY <1>3 DEF HashLoads, Step
  <2>2. /\ FileTypes(logs, logName, index) /\ RecordInv(r, logs)
        /\ RewriteInv(r, logs, logName, index) /\ DOMAIN r = FieldNames
    BY ProcFacts
  <2>3. r.out \in Pair
    BY <1>1, <2>2 DEF RecordInv, IndexWriters
  <2>4. f \in 1 .. Len(logs)
    BY <1>3, <2>2, <2>3, FileFacts
  <2>5. Loaded(h, logs) /\ h.file = f /\ h.end = Len(logs[f].entries)
    BY <2>2, <2>4, HeaderLoaded
  <2> HIDE DEF r, h
  <2>6. /\ s.cmd = r.cmd /\ s.pc = "hashopen" /\ s.out = r.out /\ s.loaded = h
        /\ s.hdr = r.hdr /\ s.data = r.data /\ s.index = r.index /\ s.map = r.map
        /\ s.exit = r.exit
    BY <2>2 DEF FieldNames
  <2>7. RecordInv(s, logs)
    <3> HIDE DEF f
    <3> QED
      BY <1>1, <2>2, <2>5 DEF RecordInv, FieldNames
  <2> HIDE DEF s
  <2>8. BuildInv(s, logs, logName)
    BY <1>3, <2>5, <2>6 DEF BuildInv
  <2>9. RewriteInv(s, logs, logName, index)
    <3>1. ~Mixed(s) => ~Mixed(r)
      BY <2>6 DEF Mixed
    <3>2. s.loaded.file = logName[s.out] /\ s.loaded.end = Len(logs[logName[s.out]].entries)
      BY <2>5, <2>6
    <3> QED
      BY <1>1, <2>2, <2>6, <3>1, <3>2 DEF RewriteInv, Opening, Indexing
  <2>10. ProcInv(s, logs, logName, index)
    BY <1>1, <2>6, <2>7, <2>8, <2>9 DEF ProcInv, ReadInv, GetInv, Exited, AppendInv
  <2> QED
    BY <1>1, <2>1, <2>6, <2>10, QuietStep DEF r
<1> QED
  BY <1>2, <1>3

\* What is built from the log that the name still refers to is honest.
LEMMA BuiltHonest ==
  ASSUME FileTypes(logs, logName, index), NEW h, Loaded(h, logs), h.file # 0,
         NEW f \in 1 .. Len(logs)
  PROVE  LET i == Built(h, Header(f))
         IN  /\ i \in Index /\ i.id = h.file /\ i.id <= Len(logs) /\ i.end = h.end
             /\ i.id = f => Honest(i, logs)
<1> DEFINE i == Built(h, Header(f))
           n == Len(logs[f].entries)
           L == IF f = h.file THEN LiveAt(logs[f].entries, n) ELSE {}
<1>1. Header(f).file = f /\ Header(f).end = n
  BY HeaderLoaded
<1>2. i = [id |-> h.file, end |-> h.end, scanned |-> n, live |-> L]
  BY <1>1 DEF Built
<1>3. n \in Nat /\ Len(logs) \in Nat
  BY FileFacts
<1>4. /\ h \in LogHeader /\ h.file <= Len(logs) /\ h.end <= Len(logs[h.file].entries)
  BY DEF Loaded
<1>5. h.file \in Nat /\ h.end \in Nat
  BY <1>4 DEF LogHeader
<1>6. L \in SUBSET Nat
  <2> HIDE DEF n
  <2> QED
    BY <1>3 DEF LiveAt
<1>7. f = h.file => h.end <= n /\ L = LiveAt(logs[f].entries, n)
  BY <1>4
<1> HIDE DEF i, n, L
<1>8. i \in Index /\ i.id = h.file /\ i.end = h.end /\ i.scanned = n /\ i.live = L
  BY <1>2, <1>3, <1>5, <1>6 DEF Index
<1>9. ASSUME i.id = f PROVE Honest(i, logs)
  <2>1. i.scanned <= Len(logs[i.id].entries)
    BY <1>3, <1>8, <1>9 DEF n
  <2>2. i.id # 0 /\ i.end <= i.scanned /\ i.live = LiveAt(logs[i.id].entries, i.scanned)
    BY <1>7, <1>8, <1>9
  <2> QED
    BY <2>1, <2>2 DEF Honest
<1> QED
  BY <1>4, <1>8, <1>9 DEF i

\* The log is opened and the old index looked at; the new one is built.
LEMMA HashOpensKeeps ==
  ASSUME ToolInv, NEW p \in Proc, HashOpens(p) PROVE ToolInv'
<1> DEFINE r == proc[p]
           f == logName[r.out]
           old == index[r.out]
           i == Built(r.loaded, Header(f))
           s == [r EXCEPT !.pc = "hashremove", !.built = i]
<1>0. /\ FileTypes(logs, logName, index) /\ RecordInv(r, logs) /\ BuildInv(r, logs, logName)
      /\ RewriteInv(r, logs, logName, index) /\ DOMAIN r = FieldNames
  BY ProcFacts
<1>1. /\ r.cmd \in {"writehash", "rewrite"} /\ r.pc = "hashopen"
      /\ logs' = logs /\ logName' = logName /\ index' = index
  BY DEF HashOpens, At, files
<1>2. \/ Exit(p, 1)
      \/ f # 0 /\ old.id = r.loaded.file /\ proc' = [proc EXCEPT ![p] = Left(r, 0)]
      \/ f # 0 /\ proc' = [proc EXCEPT ![p] = s]
  BY DEF HashOpens, Return, Step, Left
<1>3. CASE Exit(p, 1)
  BY <1>1, <1>3, ExitStep
<1>4. CASE old.id = r.loaded.file /\ proc' = [proc EXCEPT ![p] = Left(r, 0)]
  <2> DEFINE t == Left(r, 0)
  <2>1. r.cmd = "writehash"
    BY <1>0, <1>1, <1>4 DEF RewriteInv, Indexing
  <2>2. t.cmd = r.cmd /\ t.pc = "exited"
    BY <1>0, LeftFields
  <2>3. RecordInv(t, logs)
    BY <1>0, LeftRecord DEF FileTypes
  <2> HIDE DEF t
  <2>4. ProcInv(t, logs, logName, index)
    BY <2>1, <2>2, <2>3 DEF ProcInv, ReadInv, GetInv, Exited, AppendInv, BuildInv, RewriteInv
  <2> QED
    BY <1>1, <1>4, <2>2, <2>4, QuietStep DEF t
<1>5. CASE f # 0 /\ proc' = [proc EXCEPT ![p] = s]
  <2>1. r.out \in Pair /\ Loaded(r.loaded, logs) /\ r.loaded.file # 0
    BY <1>0, <1>1 DEF RecordInv, BuildInv, IndexWriters
  <2>2. f \in 1 .. Len(logs)
    BY <1>0, <1>5, <2>1, FileFacts
  <2>3. /\ i \in Index /\ i.id = r.loaded.file /\ i.id <= Len(logs) /\ i.end = r.loaded.end
        /\ i.id = f => Honest(i, logs)
    BY <1>0, <2>1, <2>2, BuiltHonest
  <2> HIDE DEF r, i
  <2>4. /\ s.cmd = r.cmd /\ s.pc = "hashremove" /\ s.out = r.out /\ s.built = i
        /\ s.hdr = r.hdr /\ s.data = r.data /\ s.index = r.index /\ s.map = r.map
        /\ s.exit = r.exit
    BY <1>0 DEF FieldNames
  <2>5. RecordInv(s, logs)
    <3> HIDE DEF f
    <3> QED
      BY <1>0, <1>1, <2>3 DEF RecordInv, FieldNames
  <2> HIDE DEF s
  <2>6. BuildInv(s, logs, logName)
    BY <1>1, <2>1, <2>3, <2>4 DEF BuildInv
  <2>7. RewriteInv(s, logs, logName, index)
    <3> SUFFICES ASSUME r.cmd = "rewrite" PROVE RewriteInv(s, logs, logName, index)
      BY <2>4 DEF RewriteInv
    <3>1. ~Mixed(s) => ~Mixed(r)
      BY <2>4 DEF Mixed
    <3>2. r.loaded.file = f /\ r.loaded.end = Len(logs[f].entries)
      BY <1>0, <1>1 DEF RewriteInv
    <3>3. s.built.id = logName[s.out] /\ s.built.end = Len(logs[logName[s.out]].entries)
      BY <2>3, <2>4, <3>2
    <3> QED
      BY <1>0, <1>1, <2>4, <3>1, <3>3 DEF RewriteInv, Opening, Indexing
  <2>8. ProcInv(s, logs, logName, index)
    BY <1>1, <2>4, <2>5, <2>6, <2>7 DEF ProcInv, ReadInv, GetInv, Exited, AppendInv
  <2> QED
    BY <1>1, <1>5, <2>4, <2>8, QuietStep DEF r
<1> QED
  BY <1>2, <1>3, <1>4, <1>5

\* The old index is removed.
LEMMA HashRemovesKeeps ==
  ASSUME ToolInv, NEW p \in Proc, HashRemoves(p) PROVE ToolInv'
<1> DEFINE r == proc[p]
           s == [r EXCEPT !.pc = "hashwrite"]
<1>0. /\ FileTypes(logs, logName, index) /\ RecordInv(r, logs) /\ BuildInv(r, logs, logName)
      /\ RewriteInv(r, logs, logName, index) /\ DOMAIN r = FieldNames
  BY ProcFacts
<1>1. /\ r.cmd \in {"writehash", "rewrite"} /\ r.pc = "hashremove"
      /\ logs' = logs /\ logName' = logName /\ index' = [index EXCEPT ![r.out] = NoIndex]
      /\ proc' = [proc EXCEPT ![p] = s]
  BY DEF HashRemoves, At, Goto, Step
<1>2. r.out \in Pair
  BY <1>0, <1>1 DEF RecordInv, IndexWriters
<1>3. index'[r.out] = NoIndex /\ NoIndex \in Index /\ NoIndex.id = 0 /\ NoIndex.id <= Len(logs)
  BY <1>0, <1>1, <1>2, NoneTypes, FileFacts DEF FileTypes
<1> HIDE DEF r
<1>4. /\ s.cmd = r.cmd /\ s.pc = "hashwrite" /\ s.out = r.out /\ s.built = r.built
      /\ s.hdr = r.hdr /\ s.data = r.data /\ s.index = r.index /\ s.map = r.map
      /\ s.exit = r.exit
  BY <1>0 DEF FieldNames
<1>5. RecordInv(s, logs)
  BY <1>0, <1>1 DEF RecordInv, FieldNames
<1> HIDE DEF s
<1>6. BuildInv(s, logs, logName)
  BY <1>0, <1>1, <1>4 DEF BuildInv
<1>7. RewriteInv(s, logs, logName, index')
  <2>1. ~Mixed(s) => ~Mixed(r)
    BY <1>4 DEF Mixed
  <2>2. r.cmd = "rewrite" => logName[s.out] # 0 /\ index'[s.out].id # logName[s.out]
    BY <1>0, <1>1, <1>3, <1>4 DEF RewriteInv, Indexing
  <2> QED
    BY <1>0, <1>1, <1>4, <2>1, <2>2 DEF RewriteInv, Opening, Indexing
<1>8. ProcInv(s, logs', logName', index')
  BY <1>1, <1>4, <1>5, <1>6, <1>7 DEF ProcInv, ReadInv, GetInv, Exited, AppendInv
<1>9. proc[p].pc # "exited" /\ proc[p].cmd \in IndexWriters
  BY <1>1 DEF IndexWriters, r
<1> QED
  BY <1>1, <1>3, <1>4, <1>8, <1>9, IndexStep DEF r

\* The new index is written and the command exits.
LEMMA HashWritesKeeps ==
  ASSUME ToolInv, NEW p \in Proc, HashWrites(p) PROVE ToolInv'
<1> DEFINE r == proc[p]
           t == [r EXCEPT !.buf = << >>]
           s == Left(t, 0)
<1>0. /\ FileTypes(logs, logName, index) /\ RecordInv(r, logs) /\ BuildInv(r, logs, logName)
      /\ RewriteInv(r, logs, logName, index) /\ DOMAIN r = FieldNames
  BY ProcFacts
<1>1. /\ r.cmd \in {"writehash", "rewrite"} /\ r.pc = "hashwrite"
      /\ logs' = logs /\ logName' = logName /\ index' = [index EXCEPT ![r.out] = r.built]
      /\ proc' = [proc EXCEPT ![p] = s]
  BY DEF HashWrites, At, Return, Step, Left
<1>2. r.built \in Index /\ r.built.id <= Len(logs)
  BY <1>0 DEF RecordInv
<1>3. r.built.id # 0 /\ (r.built.id = logName[r.out] => Honest(r.built, logs))
  BY <1>0, <1>1 DEF BuildInv, IndexWriters
<1> HIDE DEF r
<1>4. RecordInv(t, logs) /\ DOMAIN t = FieldNames
  <2>1. << >> \in Seq(Entries)
    OBVIOUS
  <2> QED
    BY <1>0, <2>1 DEF RecordInv, FieldNames
<1>5. /\ t.cmd = r.cmd /\ t.built = r.built
      /\ t.hdr = r.hdr /\ t.data = r.data /\ t.index = r.index /\ t.map = r.map
  BY <1>0 DEF FieldNames
<1> HIDE DEF t
<1>6. /\ s.cmd = r.cmd /\ s.pc = "exited" /\ s.exit = 0 /\ s.built = r.built
      /\ s.hdr = r.hdr /\ s.data = r.data /\ s.index = r.index /\ s.map = r.map
  BY <1>4, <1>5, LeftFields
<1>7. RecordInv(s, logs)
  BY <1>0, <1>4, LeftRecord DEF FileTypes
<1> HIDE DEF s
<1>8. RewriteInv(s, logs, logName, index')
  <2> SUFFICES ASSUME r.cmd = "rewrite", ~Mixed(r)
               PROVE  /\ r.hdr.file # 0 /\ r.built.id # 0 /\ r.built.end = r.hdr.end
                      /\ Copies(logs, r.built.id, r.hdr.file, r.hdr.end)
    BY <1>6 DEF RewriteInv, Opening, Indexing, Mixed
  <2>1. /\ r.hdr.file # 0 /\ Len(logs[logName[r.out]].entries) = r.hdr.end
        /\ Copies(logs, logName[r.out], r.hdr.file, r.hdr.end)
        /\ r.built.id = logName[r.out] /\ r.built.end = Len(logs[logName[r.out]].entries)
    BY <1>0, <1>1 DEF RewriteInv, Indexing
  <2> QED
    BY <1>3, <2>1
<1>9. ProcInv(s, logs', logName', index')
  BY <1>1, <1>6, <1>7, <1>8 DEF ProcInv, ReadInv, GetInv, Exited, AppendInv, BuildInv
<1>10. proc[p].pc # "exited" /\ proc[p].cmd \in IndexWriters
  BY <1>1 DEF IndexWriters, r
<1> QED
  BY <1>1, <1>2, <1>3, <1>6, <1>9, <1>10, IndexStep DEF r

-----------------------------------------------------------------------------
(***************************************************************************)
(* The theorems.                                                           *)
(***************************************************************************)

\* Every step of every process keeps the invariant.
LEMMA ToolKeeps == ToolInv /\ [ToolNext]_toolVars => ToolInv'
<1> SUFFICES ASSUME ToolInv, [ToolNext]_toolVars PROVE ToolInv'
  OBVIOUS
<1>1. CASE UNCHANGED toolVars
  BY <1>1 DEF toolVars, ToolInv
<1>2. ASSUME NEW p \in Proc, Commands(p) PROVE ToolInv'
  <2>1. CASE UsageError(p)
    BY <2>1, UsageErrorKeeps
  <2>2. ASSUME NEW a \in Pair, NEW c \in Compression, NEW b \in BlockArgs,
               StartCreatelog(p, a, c, b)
        PROVE  ToolInv'
    BY <2>2, StartCreatelogKeeps
  <2>3. ASSUME NEW a \in Pair, StartAppendlog(p, a) PROVE ToolInv'
    BY <2>3, StartAppendlogKeeps
  <2>4. ASSUME NEW a \in Pair, StartWritehash(p, a) PROVE ToolInv'
    BY <2>4, StartWritehashKeeps
  <2>5. ASSUME NEW a \in Pair, NEW k \in Key, StartGet(p, a, k) PROVE ToolInv'
    BY <2>5, StartGetKeeps
  <2>6. ASSUME NEW a \in Pair, NEW b \in Pair, NEW c \in Compression, NEW n \in BlockArgs,
               StartRewrite(p, a, b, c, n)
        PROVE  ToolInv'
    BY <2>6, StartRewriteKeeps
  <2>7. ASSUME NEW names \in (SUBSET Pair) \ {{}}, Info(p, names) PROVE ToolInv'
    BY <2>7, InfoKeeps
  <2> QED
    BY <1>2, <2>1, <2>2, <2>3, <2>4, <2>5, <2>6, <2>7 DEF Commands
<1>3. ASSUME NEW p \in Proc, Runs(p) PROVE ToolInv'
  <2>1. CASE CreateRemoves(p)
    BY <2>1, CreateRemovesKeeps
  <2>2. CASE CreateWrites(p)
    BY <2>2, CreateWritesKeeps
  <2>3. CASE AppendOpens(p)
    BY <2>3, AppendOpensKeeps
  <2>4. CASE AppendBadLine(p)
    BY <2>4, AppendBadLineKeeps
  <2>5. CASE AppendStops(p)
    BY <2>5, AppendStopsKeeps
  <2>6. CASE AppendReadsJunk(p)
    BY <2>6, AppendReadsJunkKeeps
  <2>7. ASSUME NEW e \in Puts, NEW long \in BOOLEAN, AppendLine(p, e, long) PROVE ToolInv'
    BY <2>7, AppendLineKeeps
  <2>8. CASE AppendCloses(p)
    BY <2>8, AppendClosesKeeps
  <2>9. CASE HashLoads(p)
    BY <2>9, HashLoadsKeeps
  <2>10. CASE HashOpens(p)
    BY <2>10, HashOpensKeeps
  <2>11. CASE HashRemoves(p)
    BY <2>11, HashRemovesKeeps
  <2>12. CASE HashWrites(p)
    BY <2>12, HashWritesKeeps
  <2>13. CASE OpenIndex(p)
    BY <2>13, OpenIndexKeeps
  <2>14. CASE OpenLogHeader(p)
    BY <2>14, OpenLogHeaderKeeps
  <2>15. CASE OpenLogData(p)
    BY <2>15, OpenLogDataKeeps
  <2>16. CASE OpenMaps(p)
    BY <2>16, OpenMapsKeeps
  <2>17. CASE Lookup(p)
    BY <2>17, LookupKeeps
  <2>18. CASE RewriteOptions(p)
    BY <2>18, RewriteOptionsKeeps
  <2>19. CASE RewriteNext(p)
    BY <2>19, RewriteNextKeeps
  <2>20. CASE RewriteCloses(p)
    BY <2>20, RewriteClosesKeeps
  <2>21. ASSUME NEW e \in Puts, AppendPutFails(p, e) PROVE ToolInv'
    BY <2>21, AppendPutFailsKeeps
  <2>22. CASE AppendCloseFails(p)
    BY <2>22, AppendCloseFailsKeeps
  <2>23. CASE RewriteCloseFails(p)
    BY <2>23, RewriteCloseFailsKeeps
  <2>24. CASE Fails(p)
    BY <2>24, FailsKeeps
  <2> QED
    BY <1>3, <2>1, <2>2, <2>3, <2>4, <2>5, <2>6, <2>7, <2>8, <2>9, <2>10, <2>11, <2>12, <2>13,
       <2>14, <2>15, <2>16, <2>17, <2>18, <2>19, <2>20,
       <2>21, <2>22, <2>23, <2>24 DEF Runs
<1> QED
  BY <1>1, <1>2, <1>3, KillKeeps DEF ToolNext

\* The invariant holds whatever commands are run and killed, and when.
THEOREM ToolInductive == ToolSpec => []ToolInv
BY ToolStarts, ToolKeeps, PTL DEF ToolSpec

\* The names refer to files, and what processes remember are files.
THEOREM ToolTypeCorrect == ToolSpec => []ToolTypeOK
<1>1. ToolInv => ToolTypeOK
  <2> SUFFICES ASSUME ToolInv PROVE ToolTypeOK
    OBVIOUS
  <2>1. FileTypes(logs, logName, index)
    BY DEF ToolInv
  <2>2. /\ Len(logs) <= MaxFiles /\ logName \in [Pair -> 0 .. Len(logs)]
        /\ logs \in Seq(LogFile) /\ Len(logs) \in Nat /\ DOMAIN logs = 1 .. Len(logs)
    BY <2>1 DEF FileTypes
  <2>3. \A f \in DOMAIN logs : logs[f].entries \in Seq(Entries)
    BY <2>1, <2>2, FileFacts
  <2>4. \A a \in Pair : index[a].id \in 0 .. Len(logs)
    BY <2>1, FileFacts
  <2>5. ASSUME NEW p \in Proc
        PROVE  /\ proc[p].exit \in {0, 1, 2, 9} /\ proc[p].hdr.file \in 0 .. Len(logs)
               /\ proc[p].data \in 0 .. Len(logs)
    <3>1. RecordInv(proc[p], logs)
      BY ProcFacts
    <3>2. /\ proc[p].exit \in {0, 1, 2, 9} /\ proc[p].data \in 0 .. Len(logs)
          /\ proc[p].hdr \in LogHeader /\ proc[p].hdr.file <= Len(logs)
      BY <3>1 DEF RecordInv, Loaded
    <3>3. proc[p].hdr.file \in Nat
      BY <3>2 DEF LogHeader
    <3> QED
      BY <2>2, <3>2, <3>3
  <2> QED
    BY <2>2, <2>3, <2>4, <2>5 DEF ToolTypeOK
<1> QED
  BY <1>1, ToolInductive, PTL

\* An index that carries the identifier of the log next to it has that log's
\* live entries, however createlog, appendlog, writehash and rewrite
\* interleave and whichever of them are killed.
THEOREM IndexHonestCorrect == ToolSpec => []IndexHonest
<1>1. ToolInv => IndexHonest
  <2> SUFFICES ASSUME ToolInv PROVE IndexHonest
    OBVIOUS
  <2>1. IndexesHonest(logs, logName, index)
    BY DEF ToolInv
  <2> QED
    BY <2>1 DEF IndexesHonest, Honest, IndexHonest
<1> QED
  BY <1>1, ToolInductive, PTL

\* get exits with 0 and the newest value that the index knows, or with 2 if
\* there is none, when the files were not replaced while it opened them.
THEOREM GetAnswersCorrect == ToolSpec => []GetAnswers
<1>1. ToolInv => GetAnswers
  <2> SUFFICES ASSUME ToolInv, NEW p \in Proc, Exited(proc[p], "get"),
                      proc[p].exit \in {0, 2}, ~Garbled(proc[p])
               PROVE  LET r == proc[p]
                          es == logs[r.index.id].entries
                          hits == {q \in LiveAt(es, r.index.scanned) : es[q].key = r.key}
                      IN  IF r.exit = 0 THEN \E q \in hits : es[q].value = r.value
                          ELSE hits = {}
    BY DEF GetAnswers
  <2>1. Answered(proc[p], logs)
    BY ProcFacts DEF GetInv, Garbled
  <2> QED
    BY <2>1 DEF Answered
<1> QED
  BY <1>1, ToolInductive, PTL

\* appendlog adds the lines of its input that it has put to the log it
\* opened: all of them if it exits with 0 and none was too long, and otherwise
\* those before the line that could not be split or put, or none if the close
\* failed.
THEOREM AppendExactCorrect == ToolSpec => []AppendExact
<1>1. ToolInv => AppendExact
  <2> SUFFICES ASSUME ToolInv, NEW p \in Proc, Exited(proc[p], "appendlog"),
                      proc[p].hdr.file # 0
               PROVE  LET r == proc[p]
                          added == SubSeq(logs[r.hdr.file].entries, r.hdr.end + 1,
                                          r.hdr.end + Len(r.buf))
                      IN  added = r.buf /\ LinesPut(r)
    BY DEF AppendExact, LinesPut
  <2> DEFINE r == proc[p]
             es == logs[r.hdr.file].entries
             m == r.hdr.end
             b == r.buf
  <2>1. /\ FileTypes(logs, logName, index) /\ RecordInv(r, logs) /\ AppendInv(r, logs, logName)
    BY ProcFacts
  <2>2. /\ m + Len(b) <= Len(es) /\ (\A i \in 1 .. Len(b) : es[m + i] = b[i]) /\ LinesPut(r)
    BY <2>1 DEF AppendInv, Exited
  <2>3. r.hdr \in LogHeader /\ r.hdr.file <= Len(logs) /\ b \in Seq(Entries)
    BY <2>1 DEF RecordInv, Loaded
  <2>4. r.hdr.file \in Nat /\ m \in Nat
    BY <2>3 DEF LogHeader
  <2>5. es \in Seq(Entries)
    BY <2>1, <2>3, <2>4, FileFacts
  <2> HIDE DEF es, m, b
  <2>6. SubSeq(es, m + 1, m + Len(b)) = b
    <3> DEFINE u == SubSeq(es, m + 1, m + Len(b))
    <3>1. Len(b) \in Nat /\ Len(es) \in Nat
      BY <2>3, <2>5
    <3>2. u \in Seq(Entries) /\ Len(u) = Len(b)
      BY <2>2, <2>4, <2>5, <3>1
    <3>3. \A i \in 1 .. Len(b) : u[i] = es[m + i]
      BY <2>2, <2>4, <2>5, <3>1
    <3> HIDE DEF u
    <3>4. \A i \in 1 .. Len(b) : u[i] = b[i]
      BY <2>2, <3>3
    <3>5. u = b
      BY <2>3, <3>2, <3>4
    <3> QED
      BY <3>5 DEF u
  <2> QED
    BY <2>2, <2>6 DEF es, m, b
<1> QED
  BY <1>1, ToolInductive, PTL

\* rewrite keeps the values of the live keys, and its index covers the new
\* log.
THEOREM RewriteCorrect == ToolSpec => []RewriteKeepsLive
<1>1. ToolInv => RewriteKeepsLive
  <2> SUFFICES ASSUME ToolInv, NEW p \in Proc, Exited(proc[p], "rewrite"),
                      proc[p].exit = 0, ~Garbled(proc[p])
               PROVE  LET r == proc[p]
                      IN  /\ r.built.end = r.hdr.end
                          /\ \A k \in Key :
                               LET old == ValueOf(RewrittenFrom(r), r.hdr.end, k)
                               IN  old # {} => ValueOf(RewrittenTo(r), r.built.end, k) = old
    BY DEF RewriteKeepsLive
  <2> DEFINE r == proc[p]
             es == logs[r.hdr.file].entries
             fs == logs[r.built.id].entries
             n == r.hdr.end
  <2>1. RewriteInv(r, logs, logName, index) /\ RecordInv(r, logs)
    BY ProcFacts
  <2>2. r.built.end = n /\ Copies(logs, r.built.id, r.hdr.file, n)
    BY <2>1 DEF RewriteInv, Exited, Garbled
  <2>3. n \in Nat
    BY <2>1 DEF RecordInv, Loaded, LogHeader
  <2>4. \A q \in 1 .. n : fs[q] = RewritePut(es[q])
    BY <2>2 DEF Copies
  <2>5. RewrittenFrom(r) = es /\ RewrittenTo(r) = fs
    BY DEF RewrittenFrom, RewrittenTo
  <2> HIDE DEF r, es, fs, n
  <2>6. ASSUME NEW k \in Key, ValueOf(es, n, k) # {} PROVE ValueOf(fs, n, k) = ValueOf(es, n, k)
    <3>1. ASSUME NEW q \in 1 .. n
          PROVE  fs[q].type = "put" /\ fs[q].key = es[q].key /\ fs[q].value = es[q].value
      <4>1. fs[q] = RewritePut(es[q])
        BY <2>4
      <4> QED
        BY <4>1 DEF RewritePut
    <3>2. PICK x \in LiveAt(es, n) : es[x].key = k
      BY <2>6 DEF ValueOf
    <3>3. x \in 1 .. n /\ \A q \in x + 1 .. n : es[q].key # es[x].key
      BY <3>2 DEF LiveAt
    <3>4. x \in LiveAt(fs, n) /\ fs[x].key = k /\ fs[x].value = es[x].value
      <4>1. \A q \in x + 1 .. n : q \in 1 .. n
        BY <2>3, <3>3
      <4> QED
        BY <3>1, <3>2, <3>3, <4>1 DEF LiveAt
    <3>5. ASSUME NEW y \in LiveAt(es, n), es[y].key = k PROVE y = x
      <4>1. y \in 1 .. n /\ \A q \in y + 1 .. n : es[q].key # es[y].key
        BY DEF LiveAt
      <4>2. ~(x \in y + 1 .. n) /\ ~(y \in x + 1 .. n)
        BY <3>2, <3>3, <3>5, <4>1
      <4> QED
        BY <2>3, <3>3, <4>1, <4>2
    <3>6. ASSUME NEW y \in LiveAt(fs, n), fs[y].key = k PROVE y = x
      <4>1. y \in 1 .. n /\ \A q \in y + 1 .. n : fs[q].key # fs[y].key
        BY DEF LiveAt
      <4>2. x \in 1 .. n /\ \A q \in x + 1 .. n : fs[q].key # fs[x].key
        BY <3>4 DEF LiveAt
      <4>3. ~(x \in y + 1 .. n) /\ ~(y \in x + 1 .. n)
        BY <3>4, <3>6, <4>1, <4>2
      <4> QED
        BY <2>3, <4>1, <4>2, <4>3
    <3>7. ValueOf(es, n, k) = {es[x].value}
      BY <3>2, <3>5 DEF ValueOf
    <3>8. ValueOf(fs, n, k) = {fs[x].value}
      BY <3>4, <3>6 DEF ValueOf
    <3> QED
      BY <3>4, <3>7, <3>8
  <2> QED
    BY <2>2, <2>5, <2>6 DEF r, n
<1> QED
  BY <1>1, ToolInductive, PTL

\* A step is one of a single process.
LEMMA OneMoves ==
  ASSUME NEW p \in Proc, Commands(p) \/ Runs(p) \/ Kill(p)
  PROVE  \E s : proc' = [proc EXCEPT ![p] = s]
<1>1. CASE Commands(p)
  BY <1>1 DEF Commands, Begin, UsageError, StartCreatelog, StartAppendlog, StartWritehash,
              StartGet, StartRewrite, Info
<1>2. CASE Kill(p)
  BY <1>2 DEF Kill, Fault
<1>3. CASE CreateRemoves(p) \/ CreateWrites(p) \/ RewriteOptions(p) \/ RewriteNext(p)
           \/ RewriteCloses(p)
  BY Zenon, <1>3 DEF CreateRemoves, CreateWrites, RewriteOptions, RewriteNext, RewriteCloses,
              Exit, Goto, Return, Step
<1>4. CASE \/ AppendOpens(p) \/ AppendBadLine(p) \/ AppendStops(p) \/ AppendReadsJunk(p)
           \/ AppendCloses(p) \/ \E e \in Puts, long \in BOOLEAN : AppendLine(p, e, long)
  BY <1>4 DEF AppendOpens, AppendBadLine, AppendStops, AppendReadsJunk, AppendCloses, AppendLine,
              Exit, Return, Step
<1>5. CASE HashLoads(p) \/ HashOpens(p) \/ HashRemoves(p) \/ HashWrites(p)
  BY Zenon, <1>5 DEF HashLoads, HashOpens, HashRemoves, HashWrites, Exit, Goto, Return, Step
<1>6. CASE OpenIndex(p) \/ OpenLogHeader(p) \/ OpenLogData(p) \/ OpenMaps(p) \/ Lookup(p)
  BY <1>6 DEF OpenIndex, OpenLogHeader, OpenLogData, OpenMaps, Lookup, Exit, Return, Step
<1>7. CASE \/ RewriteCloseFails(p) \/ Fails(p) \/ AppendCloseFails(p)
           \/ \E e \in Puts : AppendPutFails(p, e)
  BY Zenon, <1>7 DEF RewriteCloseFails, Fails, AppendCloseFails, AppendPutFails, Fault
<1> QED
  BY Zenon, <1>1, <1>2, <1>3, <1>4, <1>5, <1>6, <1>7 DEF Runs

\* The output of rewrite cannot be opened, because of an error or of an input
\* that makes no sense.
Spoilt(p) ==
  /\ proc'[p].failed \/ (proc[p].data # 0 /\ Garbled(proc[p]))
  /\ index'[proc[p].out].id = 0 \/ index'[proc[p].out].id # logName'[proc[p].out]

\* A step of rewrite that does not keep its exit code of 0 is a failure
\* before the output is touched, or spoils the output.
LEMMA RewriteFails ==
  ASSUME ToolInv, NEW p \in Proc, Runs(p), proc[p].cmd = "rewrite", proc[p].pc # "exited",
         proc'[p].exit # 0
  PROVE  \/ proc[p].pc \in Opening /\ logName' = logName /\ index' = index
         \/ Spoilt(p)
<1> DEFINE r == proc[p]
<1>0. /\ RewriteInv(r, logs, logName, index) /\ r.exit = 0 /\ DOMAIN r = FieldNames
      /\ FileTypes(logs, logName, index)
  BY ProcFacts DEF RewriteInv
<1>1. \A s : proc' = [proc EXCEPT ![p] = s] => s.exit # 0
  BY DEF ToolInv
<1>2. \A c : [r EXCEPT !.pc = c].exit = 0
  BY <1>0 DEF FieldNames
<1>3. \A t : DOMAIN t = FieldNames => Left(t, 0).exit = 0
  BY LeftFields
<1>4. CASE CreateRemoves(p)
  <2>1. r.pc = "create" /\ logs' = logs /\ index' = index
    BY <1>4 DEF CreateRemoves, At
  <2>2. ~Goto(p, "created")
    BY <1>1, <1>2 DEF Goto, Step
  <2>3. logName' = logName
    BY <1>4, <2>2 DEF CreateRemoves
  <2> QED
    BY <2>1, <2>3 DEF Opening
<1>5. CASE CreateWrites(p)
  <2>1. Goto(p, "copy")
    BY <1>5 DEF CreateWrites
  <2> QED
    BY <1>1, <1>2, <2>1 DEF Goto, Step
<1>6. CASE OpenIndex(p) \/ OpenLogHeader(p) \/ OpenLogData(p) \/ OpenMaps(p) \/ RewriteOptions(p)
  BY <1>6 DEF OpenIndex, OpenLogHeader, OpenLogData, OpenMaps, RewriteOptions, At, files, Opening
<1>7. CASE HashLoads(p)
  <2>1. r.pc = "hashload" /\ logName[r.out] # 0
    BY <1>0, <1>7 DEF HashLoads, At, RewriteInv, Indexing
  <2>2. proc' = [proc EXCEPT ![p] = [r EXCEPT !.pc = "hashopen",
                                              !.loaded = Header(logName[r.out])]]
    BY <1>7, <2>1 DEF HashLoads, Step
  <2>3. \A h : [r EXCEPT !.pc = "hashopen", !.loaded = h].exit = 0
    BY <1>0 DEF FieldNames
  <2> QED
    BY <1>1, <2>2, <2>3
<1>8. CASE HashOpens(p)
  <2>1. /\ r.pc = "hashopen" /\ logName[r.out] # 0 /\ r.loaded.file = logName[r.out]
        /\ index[r.out].id # r.loaded.file /\ ~logs[logName[r.out]].damaged
    BY <1>0, <1>8 DEF HashOpens, At, RewriteInv, Indexing
  <2>2. proc' = [proc EXCEPT ![p] = [r EXCEPT !.pc = "hashremove",
                                !.built = Built(r.loaded, Header(logName[r.out]))]]
    BY <1>8, <2>1 DEF HashOpens, Step
  <2>3. \A i : [r EXCEPT !.pc = "hashremove", !.built = i].exit = 0
    BY <1>0 DEF FieldNames
  <2> QED
    BY <1>1, <2>2, <2>3
<1>9. CASE HashRemoves(p) \/ RewriteCloses(p)
  <2>1. Goto(p, "hashwrite") \/ Goto(p, "hashload")
    BY <1>9 DEF HashRemoves, RewriteCloses
  <2> QED
    BY <1>1, <1>2, <2>1 DEF Goto, Step
<1>10. CASE HashWrites(p)
  <2> DEFINE t == [r EXCEPT !.buf = << >>]
  <2>1. proc' = [proc EXCEPT ![p] = Left(t, 0)]
    BY <1>10 DEF HashWrites, Return, Step, Left
  <2>2. DOMAIN t = FieldNames
    BY <1>0
  <2> HIDE DEF t
  <2> QED
    BY <1>1, <1>3, <2>1, <2>2
<1>11. CASE RewriteNext(p)
  <2>1. ASSUME NEW n, NEW b, proc' = [proc EXCEPT ![p] = [r EXCEPT !.done = n, !.buf = b]]
        PROVE  FALSE
    <3>1. [r EXCEPT !.done = n, !.buf = b].exit = 0
      BY <1>0 DEF FieldNames
    <3> QED
      BY Zenon, <1>1, <2>1, <3>1
  <2>2. Garbled(r) /\ index' = index /\ logName' = logName /\ At(p, {"rewrite"}, "copy")
    BY <1>0, <1>11, <2>1 DEF RewriteNext, Step, FieldNames, files
  <2>3. r.data \in 1 .. Len(logs) /\ index[r.out].id # logName[r.out]
    BY <2>2, CopyFacts
  <2>4. r.data # 0
    BY <2>3
  <2> QED
    BY <2>2, <2>3, <2>4 DEF Spoilt
<1>12. ~(\/ AppendOpens(p) \/ AppendBadLine(p) \/ AppendStops(p) \/ AppendReadsJunk(p)
         \/ AppendCloses(p) \/ Lookup(p) \/ AppendCloseFails(p)
         \/ (\E e \in Puts : AppendPutFails(p, e))
         \/ \E e \in Puts, long \in BOOLEAN : AppendLine(p, e, long))
  BY DEF AppendOpens, AppendBadLine, AppendStops, AppendReadsJunk, AppendCloses, AppendLine,
         AppendCloseFails, AppendPutFails, Lookup, At
<1>13. ASSUME proc' = [proc EXCEPT ![p] = [Idle EXCEPT !.exit = 1, !.failed = TRUE]],
              index' = index, logName' = logName, r.pc \notin Opening
       PROVE  Spoilt(p)
  <2> DEFINE s == [Idle EXCEPT !.exit = 1, !.failed = TRUE]
  <2>1. s.failed
    BY <1>0, FailedInv
  <2>2. proc'[p] = s
    BY <1>13 DEF ToolInv
  <2> HIDE DEF s
  <2>3. index[r.out].id = 0 \/ index[r.out].id # logName[r.out]
    BY <1>0, <1>13 DEF RewriteInv
  <2> QED
    BY <1>13, <2>1, <2>2, <2>3 DEF Spoilt
<1>14. CASE Fails(p)
  <2>1. /\ proc' = [proc EXCEPT ![p] = [Idle EXCEPT !.exit = 1, !.failed = TRUE]]
        /\ index' = index /\ logName' = logName
    BY <1>14 DEF Fails, Fault, files
  <2> QED
    BY <1>13, <2>1
<1>15. CASE RewriteCloseFails(p)
  <2>1. /\ proc' = [proc EXCEPT ![p] = [Idle EXCEPT !.exit = 1, !.failed = TRUE]]
        /\ index' = index /\ logName' = logName /\ r.pc = "copy"
    BY <1>15 DEF RewriteCloseFails, CloseAppends, Fault, At
  <2>2. r.pc \notin Opening
    BY <2>1 DEF Opening
  <2> QED
    BY <1>13, <2>1, <2>2
<1> QED
  BY <1>4, <1>5, <1>6, <1>7, <1>8, <1>9, <1>10, <1>11, <1>12, <1>14, <1>15 DEF Runs

\* A rewrite that exits with 1 has not touched its output files, or leaves a
\* pair that cannot be opened; the latter only if a read or a write failed or
\* its input makes no sense.
THEOREM RewriteFailsCorrect == ToolSpec => RewriteFailsClean
<1>1. ASSUME ToolInv, [ToolNext]_toolVars, NEW p \in Proc, proc[p].cmd = "rewrite", Running(p),
             proc'[p].exit = 1
      PROVE  <<logName'[proc[p].out], index'[proc[p].out]>> = proc[p].before \/ Spoilt(p)
  <2>1. RewriteInv(proc[p], logs, logName, index) /\ proc[p].exit = 0
    BY <1>1, ProcFacts DEF RewriteInv, Running
  <2>2. PICK q \in Proc : Commands(q) \/ Runs(q) \/ Kill(q)
    BY <1>1, <2>1 DEF ToolNext, toolVars
  <2>3. q = p
    <3>1. PICK s : proc' = [proc EXCEPT ![q] = s]
      BY <2>2, OneMoves
    <3> QED
      BY <1>1, <2>1, <3>1 DEF ToolInv
  <2>4. ~Commands(p)
    BY <1>1 DEF Commands, Begin, UsageError, StartCreatelog, StartAppendlog, StartWritehash,
                StartGet, StartRewrite, Info
  <2>5. ~Kill(p)
    <3>1. FileTypes(logs, logName, index) /\ DOMAIN proc = Proc
      BY <1>1 DEF ToolInv
    <3>2. [Idle EXCEPT !.exit = 9].exit = 9
      BY <3>1, ExitInv
    <3> DEFINE s == [Idle EXCEPT !.exit = 9]
    <3> HIDE DEF s
    <3>3. Kill(p) => proc'[p] = s
      BY <3>1 DEF Kill, Fault, s
    <3>4. s.exit = 9
      BY <3>2 DEF s
    <3> QED
      BY <1>1, <3>3, <3>4
  <2>6. (proc[p].pc \in Opening /\ logName' = logName /\ index' = index) \/ Spoilt(p)
    BY <1>1, <2>2, <2>3, <2>4, <2>5, RewriteFails DEF Running
  <2> QED
    BY <1>1, <2>1, <2>6 DEF RewriteInv
<1>2. ToolInv /\ [ToolNext]_toolVars =>
        [\A p \in Proc :
           proc[p].cmd = "rewrite" /\ Running(p) /\ proc'[p].exit = 1 =>
             LET b == proc[p].out
             IN  \/ <<logName'[b], index'[b]>> = proc[p].before
                 \/ /\ proc'[p].failed \/ (proc[p].data # 0 /\ Garbled(proc[p]))
                    /\ index'[b].id = 0 \/ index'[b].id # logName'[b]]_toolVars
  BY <1>1 DEF Spoilt
<1> QED
  BY <1>2, ToolInductive, PTL DEF ToolSpec, RewriteFailsClean
=============================================================================
