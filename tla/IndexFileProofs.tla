-------------------------- MODULE IndexFileProofs --------------------------
(***************************************************************************)
(* Proofs about the hash file and its readers, for any number of readers,  *)
(* capacities, pieces of a header, calls of hash_write and crashes.        *)
(***************************************************************************)
EXTENDS IndexFile, TLAPS

File == [fields : 0 .. HeaderPieces, dataEnd : 0 .. MaxLogEnd, lens : 0 .. MaxLogEnd,
         capacity : Capacities, slots : Nat, raced : BOOLEAN, consistent : BOOLEAN]

(***************************************************************************)
(* The inductive invariant.                                                *)
(***************************************************************************)
IFTypes ==
  /\ logEnd \in 0 .. MaxLogEnd /\ logLens \in 0 .. logEnd
  /\ wEnd \in 0 .. logEnd /\ wLens \in 0 .. logLens /\ wRaced \in BOOLEAN
  /\ files \in Seq(File) /\ name \in 0 .. Len(files) /\ crashes \in Nat
  /\ wpc \in {"out", "old", "remove", "create", "header", "table", "stuck"}
  /\ rpc \in [Readers -> {"closed", "log", "file", "stat", "open"}]
  /\ DOMAIN rhdr = Readers /\ DOMAIN rfile = Readers /\ DOMAIN rerr = Readers

\* No file is longer than its header says, and none is of a later log; what
\* fails the checks was written in a race.
FilesInv ==
  \A f \in DOMAIN files :
    /\ files[f].slots <= files[f].capacity
    /\ files[f].dataEnd <= wEnd /\ files[f].lens <= wLens
    /\ files[f].consistent \/ files[f].raced

\* hash_write creates its file under a free name and completes it in order;
\* the others are complete unless a call was cut off.
Writing == wpc \in {"header", "table"}
WriterInv ==
  /\ wpc = "create" => name = 0
  /\ Writing => name \in DOMAIN files /\ files[name].dataEnd = wEnd
  /\ wpc = "header" => files[name].fields < HeaderPieces
  /\ wpc = "table" => files[name].fields = HeaderPieces
  /\ crashes = 0 => \A f \in DOMAIN files :
                      (Writing /\ f = name) \/ (files[f].fields = HeaderPieces /\ TableWhole(f))

\* A reader's header is of a file whose header was complete; files that have
\* been opened exist, removed or not.
HeaderKnown(r) ==
  /\ rhdr[r].file \in DOMAIN files
  /\ files[rhdr[r].file].fields = HeaderPieces
  /\ rhdr[r].dataEnd = files[rhdr[r].file].dataEnd
  /\ rhdr[r].lens = files[rhdr[r].file].lens
  /\ rhdr[r].capacity = files[rhdr[r].file].capacity
ReaderInv ==
  \A r \in Readers :
    /\ rpc[r] # "closed" => HeaderKnown(r)
    /\ rpc[r] \in {"stat", "open"} => rfile[r] \in DOMAIN files

IFInv == /\ IFTypes /\ FilesInv /\ WriterInv /\ ReaderInv
         /\ MappedWhole /\ NoFalseCorrupt /\ SuccessIsWhole

\* The sizes a file has are numbers.
LEMMA FileType ==
  ASSUME NEW x \in File
  PROVE  /\ x.fields \in Nat /\ x.dataEnd \in Nat /\ x.lens \in Nat
         /\ x.capacity \in Nat /\ x.slots \in Nat
<1>1. /\ x.fields \in 0 .. HeaderPieces /\ x.dataEnd \in 0 .. MaxLogEnd
      /\ x.lens \in 0 .. MaxLogEnd /\ x.capacity \in Capacities /\ x.slots \in Nat
  BY DEF File
<1>2. \A c \in Capacities : c \in Nat
  BY IndexFileAssumption
<1>3. HeaderPieces \in Nat /\ MaxLogEnd \in Nat
  BY IndexFileAssumption
<1> QED
  BY <1>1, <1>2, <1>3

-----------------------------------------------------------------------------
(***************************************************************************)
(* What the system calls of hash_write do to the files.                    *)
(***************************************************************************)

\* The name is free, so creat makes a new file and touches no other.
LEMMA CreatesEffect ==
  ASSUME IFInv, NEW cap \in Capacities, NEW ok \in BOOLEAN, WriteCreates(cap, ok)
  PROVE  /\ files' \in Seq(File) /\ name' = Len(files) + 1 /\ name' \notin DOMAIN files
         /\ DOMAIN files' = DOMAIN files \cup {name'}
         /\ files'[name'] = NewFile(cap, ok)
         /\ \A f \in DOMAIN files : files'[f] = files[f]
<1>1. wpc = "create" /\ name = 0
  BY DEF WriteCreates, IFInv, WriterInv
<1>2. files' = Append(files, NewFile(cap, ok)) /\ name' = Len(files) + 1
  BY <1>1 DEF WriteCreates
<1>3. files \in Seq(File)
  BY DEF IFInv, IFTypes
<1>4. NewFile(cap, ok) \in File
  <2>1. wEnd \in 0 .. MaxLogEnd /\ wLens \in 0 .. MaxLogEnd /\ wRaced \in BOOLEAN
    BY IndexFileAssumption DEF IFInv, IFTypes
  <2> QED
    BY <2>1, IndexFileAssumption DEF NewFile, File
<1> QED
  BY <1>2, <1>3, <1>4

\* A piece of the header, or a slot of the table, is added to the file that
\* has the name.
LEMMA WritesEffect ==
  ASSUME IFInv, WriteHeader \/ WriteTable
  PROVE  /\ files' \in Seq(File) /\ name' = name /\ name \in DOMAIN files /\ Writing
         /\ DOMAIN files' = DOMAIN files
         /\ files'[name] = IF WriteHeader
                           THEN [files[name] EXCEPT !.fields = @ + 1]
                           ELSE [files[name] EXCEPT !.slots = @ + 1]
         /\ WriteHeader => files[name].fields < HeaderPieces
         /\ ~WriteHeader => files[name].fields = HeaderPieces /\ ~TableWhole(name)
         /\ \A f \in DOMAIN files : f # name => files'[f] = files[f]
<1>1. Writing /\ name' = name
  BY DEF WriteHeader, WriteTable, Writing
<1>2. name \in DOMAIN files /\ files \in Seq(File)
  BY <1>1 DEF IFInv, IFTypes, WriterInv
<1>3. files[name] \in File
  BY <1>2
<1>4. CASE WriteHeader
  <2>1. files' = [files EXCEPT ![name].fields = @ + 1] /\ wpc = "header"
    BY <1>4 DEF WriteHeader
  <2>2. files[name].fields < HeaderPieces
    BY <2>1 DEF IFInv, WriterInv
  <2>3. [files[name] EXCEPT !.fields = @ + 1] \in File
    BY <1>3, <2>2, IndexFileAssumption DEF File
  <2> QED
    BY <1>1, <1>2, <1>4, <2>1, <2>2, <2>3
<1>5. CASE WriteTable
  <2>1. /\ files' = [files EXCEPT ![name].slots = @ + 1] /\ wpc = "table"
        /\ ~TableWhole(name) /\ ~WriteHeader
    BY <1>5 DEF WriteTable, WriteHeader
  <2>2. files[name].fields = HeaderPieces
    BY <2>1 DEF IFInv, WriterInv
  <2>3. [files[name] EXCEPT !.slots = @ + 1] \in File
    BY <1>3 DEF File
  <2> QED
    BY <1>1, <1>2, <2>1, <2>2, <2>3
<1> QED
  BY <1>4, <1>5


\* The steps of readers.
Reads(r) == \/ OpenFindsNoHeader(r) \/ OpenLoadsHeader(r) \/ OpenLog(r)
            \/ OpenFile(r) \/ OpenMaps(r) \/ Close(r)

\* Readers change nothing that others see.
LEMMA ReadsEffect ==
  ASSUME NEW r \in Readers, Reads(r)
  PROVE  UNCHANGED <<logEnd, logLens, files, name, wpc, wEnd, wLens, wRaced, wrc, crashes>>
BY DEF Reads, OpenFindsNoHeader, OpenLoadsHeader, OpenLog, OpenFile, OpenMaps, Close,
       Closes, Step, Goto, logVars, writerVars

\* Files never go away, and what a complete header says never changes.
LEMMA FilesKept ==
  ASSUME IFInv, [IFNext]_ifVars
  PROVE  /\ files' \in Seq(File) /\ DOMAIN files \subseteq DOMAIN files'
         /\ \A f \in DOMAIN files :
              /\ files'[f].dataEnd = files[f].dataEnd /\ files'[f].lens = files[f].lens
              /\ files'[f].raced = files[f].raced
              /\ files'[f].capacity = files[f].capacity
              /\ files[f].fields = HeaderPieces => files'[f].fields = HeaderPieces
              /\ files'[f] # files[f] =>
                   f = name /\ Writing /\ (files[f].fields < HeaderPieces \/ ~TableWhole(f))
<1>0. files \in Seq(File) /\ \A f \in DOMAIN files : files[f] \in File /\ files[f].fields \in Int
  <2>1. files \in Seq(File) /\ \A f \in DOMAIN files : files[f] \in File
    BY DEF IFInv, IFTypes
  <2>2. \A x \in File : x.fields \in Int
    BY FileType
  <2> QED
    BY <2>1, <2>2
<1>1. CASE \E cap \in Capacities, ok \in BOOLEAN : WriteCreates(cap, ok)
  BY <1>0, <1>1, CreatesEffect
<1>2. CASE WriteHeader \/ WriteTable
  <2>1. /\ files'[name].dataEnd = files[name].dataEnd /\ files'[name].lens = files[name].lens
        /\ files'[name].raced = files[name].raced
        /\ files'[name].capacity = files[name].capacity
        /\ ~WriteHeader => files'[name].fields = files[name].fields
    BY <1>0, <1>2, WritesEffect DEF File
  <2>2. files[name].fields = HeaderPieces => ~WriteHeader
    BY <1>0, <1>2, WritesEffect, IndexFileAssumption
  <2> QED
    BY <1>0, <1>2, <2>1, <2>2, WritesEffect
<1>3. CASE files' = files
  BY <1>0, <1>3
<1>4. CASE \E r \in Readers : Reads(r)
  BY <1>3, <1>4, ReadsEffect
<1>5. CASE LogGrows \/ LensGrow \/ WriteCalled \/ WriteNothingToDo \/ WriteStuck \/ WriteRemoves
  BY <1>3, <1>5 DEF LogGrows, LensGrow, WriteCalled, WriteNothingToDo, WriteStuck, WriteRemoves, writerVars
<1>6. CASE (\E copyOld \in BOOLEAN : WriteBuilds(copyOld)) \/ WriteReturns \/ Crash
  BY <1>3, <1>6 DEF WriteBuilds, WriteReturns, Crash
<1>7. CASE UNCHANGED ifVars
  BY <1>3, <1>7 DEF ifVars, writerVars
<1> QED
  BY <1>1, <1>2, <1>4, <1>5, <1>6, <1>7 DEF IFNext, Reads

-----------------------------------------------------------------------------
(***************************************************************************)
(* Every step keeps the invariant.                                         *)
(***************************************************************************)

\* The steps of hash_write that change no file: where they lead.
LEMMA TypesStep == IFInv /\ [IFNext]_ifVars => IFTypes'
<1> SUFFICES ASSUME IFInv, [IFNext]_ifVars PROVE IFTypes'
  OBVIOUS
<1>0. /\ IFTypes /\ MaxLogEnd \in Nat /\ logEnd \in Nat /\ wEnd \in Nat /\ Len(files) \in Nat
      /\ logLens \in Nat /\ wLens \in Nat
      /\ files' \in Seq(File)
  BY IndexFileAssumption, FilesKept DEF IFInv, IFTypes
<1>1. CASE LogGrows \/ LensGrow
  <2>1. CASE LogGrows
    BY <1>0, <2>1 DEF LogGrows, IFTypes, writerVars, readerVars
  <2>2. CASE LensGrow
    BY <1>0, <2>2 DEF LensGrow, IFTypes, writerVars, readerVars
  <2> QED
    BY <1>1, <2>1, <2>2
<1>2. CASE WriteCalled
  <2>1. /\ wpc' = "old" /\ wEnd' = logEnd /\ wLens' = logLens /\ wRaced' = FALSE
        /\ UNCHANGED <<logEnd, logLens, files, name, crashes, rpc, rhdr, rfile, rerr>>
    BY <1>2 DEF WriteCalled, Goes, logVars, readerVars
  <2>2. wEnd' \in 0 .. logEnd' /\ wLens' \in 0 .. logLens'
    BY <1>0, <2>1
  <2> QED
    BY <1>0, <2>1, <2>2 DEF IFTypes
<1>3. CASE WriteNothingToDo \/ WriteStuck \/ WriteReturns \/ \E c \in BOOLEAN : WriteBuilds(c)
  BY <1>0, <1>3 DEF WriteNothingToDo, WriteStuck, WriteReturns, WriteBuilds, Goes, IFTypes,
                    logVars, readerVars
<1>4. CASE WriteRemoves
  BY <1>0, <1>4 DEF WriteRemoves, Goes, IFTypes, logVars, readerVars
<1>5. ASSUME NEW cap \in Capacities, NEW ok \in BOOLEAN, WriteCreates(cap, ok) PROVE IFTypes'
  <2>1. name' \in 0 .. Len(files')
    BY <1>0, <1>5, CreatesEffect
  <2> QED
    BY <1>0, <1>5, <2>1 DEF WriteCreates, Goes, IFTypes, logVars, readerVars
<1>6. CASE WriteHeader \/ WriteTable
  <2>1. name' \in 0 .. Len(files')
    BY <1>0, <1>6, WritesEffect
  <2> QED
    BY <1>0, <1>6, <2>1 DEF WriteHeader, WriteTable, Goes, IFTypes, logVars, readerVars
<1>7. CASE Crash
  BY <1>0, <1>7 DEF Crash, IFTypes, logVars, readerVars
<1>8. ASSUME NEW r \in Readers, Reads(r) PROVE IFTypes'
  <2>1. UNCHANGED <<logEnd, logLens, files, name, wpc, wEnd, wLens, wRaced, crashes>>
    BY <1>8, ReadsEffect
  <2>2. /\ rpc' \in [Readers -> {"closed", "log", "file", "stat", "open"}]
        /\ DOMAIN rhdr' = Readers /\ DOMAIN rfile' = Readers /\ DOMAIN rerr' = Readers
    BY <1>0, <1>8 DEF Reads, OpenFindsNoHeader, OpenLoadsHeader, OpenLog, OpenFile, OpenMaps,
                      Close, Closes, Step, Goto, IFTypes
  <2> QED
    BY <1>0, <2>1, <2>2 DEF IFTypes
<1>9. CASE UNCHANGED ifVars
  BY <1>0, <1>9 DEF ifVars, logVars, writerVars, readerVars, IFTypes
<1> QED
  BY <1>1, <1>2, <1>3, <1>4, <1>5, <1>6, <1>7, <1>8, <1>9 DEF IFNext, Reads

\* No file outgrows its header, and none is ahead of hash_write's log header.
LEMMA FilesStep == IFInv /\ [IFNext]_ifVars => FilesInv'
<1> SUFFICES ASSUME IFInv, [IFNext]_ifVars PROVE FilesInv'
  OBVIOUS
<1>0. /\ FilesInv /\ wEnd \in Nat /\ logEnd \in Nat /\ wEnd <= logEnd
      /\ wLens \in Nat /\ logLens \in Nat /\ wLens <= logLens
      /\ \A f \in DOMAIN files :
           /\ files[f].slots \in Nat /\ files[f].capacity \in Nat
           /\ files[f].dataEnd \in Nat /\ files[f].lens \in Nat
  <2>1. \A f \in DOMAIN files : files[f] \in File
    BY DEF IFInv, IFTypes
  <2>2. \A x \in File : /\ x.slots \in Nat /\ x.capacity \in Nat
                       /\ x.dataEnd \in Nat /\ x.lens \in Nat
    BY FileType
  <2>3. /\ wEnd \in 0 .. logEnd /\ logEnd \in 0 .. MaxLogEnd /\ MaxLogEnd \in Nat /\ FilesInv
        /\ wLens \in 0 .. logLens /\ logLens \in 0 .. logEnd
    BY IndexFileAssumption DEF IFInv, IFTypes
  <2>4. /\ wEnd \in Nat /\ logEnd \in Nat /\ wEnd <= logEnd
        /\ wLens \in Nat /\ logLens \in Nat /\ wLens <= logLens
    BY <2>3
  <2> QED
    BY <2>1, <2>2, <2>3, <2>4
<1>1. CASE UNCHANGED <<files, wEnd, wLens>>
  BY <1>0, <1>1 DEF FilesInv
<1>2. CASE WriteCalled
  BY <1>0, <1>2 DEF WriteCalled, FilesInv
<1>3. ASSUME NEW cap \in Capacities, NEW ok \in BOOLEAN, WriteCreates(cap, ok) PROVE FilesInv'
  <2>1. cap \in Nat /\ wEnd' = wEnd /\ wLens' = wLens /\ (ok \/ wRaced)
    BY <1>3, IndexFileAssumption DEF WriteCreates
  <2>2. /\ NewFile(cap, ok).slots <= NewFile(cap, ok).capacity
        /\ NewFile(cap, ok).dataEnd <= wEnd /\ NewFile(cap, ok).lens <= wLens
        /\ NewFile(cap, ok).consistent \/ NewFile(cap, ok).raced
    BY <1>0, <2>1 DEF NewFile
  <2> QED
    BY <1>0, <1>3, <2>1, <2>2, CreatesEffect DEF FilesInv
<1>4. CASE WriteHeader \/ WriteTable
  <2>1. /\ name \in DOMAIN files /\ wEnd' = wEnd /\ wLens' = wLens /\ files[name] \in File
        /\ DOMAIN files' = DOMAIN files
    BY <1>4, WritesEffect DEF WriteHeader, WriteTable, IFInv, IFTypes
  <2>2. /\ files'[name].capacity = files[name].capacity
        /\ files'[name].dataEnd = files[name].dataEnd /\ files'[name].lens = files[name].lens
        /\ files'[name].raced = files[name].raced
        /\ files'[name].consistent = files[name].consistent
        /\ files'[name].slots = IF WriteHeader THEN files[name].slots ELSE files[name].slots + 1
    BY <1>4, <2>1, WritesEffect DEF File
  <2>3. files'[name].slots <= files'[name].capacity
    <3>1. CASE WriteHeader
      BY <1>0, <2>1, <2>2, <3>1 DEF FilesInv
    <3>2. CASE ~WriteHeader
      <4>1. files[name].slots # files[name].capacity
        BY <1>4, <3>2, WritesEffect DEF TableWhole
      <4>2. files[name].slots <= files[name].capacity
        BY <1>0, <2>1 DEF FilesInv
      <4> QED
        BY <1>0, <2>1, <2>2, <3>2, <4>1, <4>2
    <3> QED
      BY <3>1, <3>2
  <2> QED
    BY <1>0, <1>4, <2>1, <2>2, <2>3, WritesEffect DEF FilesInv
<1>5. CASE \E r \in Readers : Reads(r)
  BY <1>1, <1>5, ReadsEffect
<1>6. CASE LogGrows \/ LensGrow \/ WriteNothingToDo \/ WriteStuck \/ WriteRemoves
  BY <1>1, <1>6 DEF LogGrows, LensGrow, WriteNothingToDo, WriteStuck, WriteRemoves, writerVars
<1>7. CASE (\E copyOld \in BOOLEAN : WriteBuilds(copyOld)) \/ WriteReturns \/ Crash
  BY <1>1, <1>7 DEF WriteBuilds, WriteReturns, Crash
<1>8. CASE UNCHANGED ifVars
  BY <1>1, <1>8 DEF ifVars, writerVars
<1> QED
  BY <1>2, <1>3, <1>4, <1>5, <1>6, <1>7, <1>8 DEF IFNext, Reads

\* hash_write completes its file, or the process crashed.
LEMMA WriterStep == IFInv /\ [IFNext]_ifVars => WriterInv'
<1> SUFFICES ASSUME IFInv, [IFNext]_ifVars PROVE WriterInv'
  OBVIOUS
<1>0. /\ WriterInv /\ HeaderPieces \in Nat \ {0} /\ crashes \in Nat
      /\ \A f \in DOMAIN files : files[f] \in File /\ files[f].fields \in Nat
  <2>1. \A f \in DOMAIN files : files[f] \in File
    BY DEF IFInv, IFTypes
  <2>2. \A x \in File : x.fields \in Nat
    BY FileType
  <2> QED
    BY <2>1, <2>2, IndexFileAssumption DEF IFInv, IFTypes
<1>1. ASSUME ~Writing, ~Writing', UNCHANGED <<files, crashes>>, wpc' = "create" => name' = 0
      PROVE  WriterInv'
  BY <1>0, <1>1 DEF WriterInv, Writing, TableWhole
<1>2. CASE UNCHANGED <<files, name, wpc, wEnd, crashes>>
  BY <1>0, <1>2 DEF WriterInv, Writing, TableWhole
<1>3. CASE WriteCalled \/ WriteNothingToDo \/ WriteStuck \/ WriteRemoves
  BY <1>1, <1>3 DEF WriteCalled, WriteNothingToDo, WriteStuck, WriteRemoves, Goes, Writing
<1>4. CASE \E copyOld \in BOOLEAN : WriteBuilds(copyOld)
  BY <1>1, <1>4 DEF WriteBuilds, Goes, Writing
<1>5. ASSUME NEW cap \in Capacities, NEW ok \in BOOLEAN, WriteCreates(cap, ok) PROVE WriterInv'
  <2>1. /\ wpc = "create" /\ wpc' = "header" /\ wEnd' = wEnd /\ crashes' = crashes
    BY <1>5 DEF WriteCreates, Goes
  <2>2. files'[name'].fields = 0 /\ files'[name'].dataEnd = wEnd
    <3>1. NewFile(cap, ok).fields = 0 /\ NewFile(cap, ok).dataEnd = wEnd
      BY DEF NewFile
    <3> QED
      BY <1>5, <3>1, CreatesEffect
  <2>3. ~Writing /\ Writing'
    BY <2>1 DEF Writing
  <2>4. crashes = 0 => \A f \in DOMAIN files :
                         files[f].fields = HeaderPieces /\ TableWhole(f)
    BY <1>0, <2>3 DEF WriterInv
  <2>5. crashes' = 0 => \A f \in DOMAIN files' :
          f = name' \/ (files'[f].fields = HeaderPieces /\ TableWhole(f)')
    BY <1>5, <2>1, <2>4, CreatesEffect DEF TableWhole
  <2> QED
    BY <1>0, <1>5, <2>1, <2>2, <2>3, <2>5, CreatesEffect DEF WriterInv
<1>6. CASE WriteHeader \/ WriteTable
  <2>1. /\ Writing /\ wEnd' = wEnd /\ crashes' = crashes /\ name' = name
        /\ name \in DOMAIN files /\ DOMAIN files' = DOMAIN files
    BY <1>6, WritesEffect DEF WriteHeader, WriteTable, Goes
  <2>2. /\ files'[name].dataEnd = wEnd
        /\ files'[name].fields = IF WriteHeader THEN files[name].fields + 1
                                 ELSE files[name].fields
    BY <1>0, <1>6, <2>1, WritesEffect DEF WriterInv, File
  <2>3. /\ wpc' \in {"header", "table"}
        /\ wpc' = "header" => WriteHeader /\ files[name].fields + 1 # HeaderPieces
        /\ wpc' = "table" => ~WriteHeader \/ files[name].fields + 1 = HeaderPieces
    BY <1>6 DEF WriteHeader, WriteTable, Goes
  <2>4. /\ wpc' = "header" => files'[name].fields < HeaderPieces
        /\ wpc' = "table" => files'[name].fields = HeaderPieces
    BY <1>0, <1>6, <2>1, <2>2, <2>3, WritesEffect
  <2>5. crashes' = 0 => \A f \in DOMAIN files' :
          f = name' \/ (files'[f].fields = HeaderPieces /\ TableWhole(f)')
    BY <1>0, <1>6, <2>1, WritesEffect DEF WriterInv, TableWhole
  <2>6. Writing'
    BY <2>3 DEF Writing
  <2> QED
    BY <2>1, <2>2, <2>3, <2>4, <2>5, <2>6 DEF WriterInv
<1>7. CASE WriteReturns
  <2>1. /\ wpc = "table" /\ TableWhole(name) /\ wpc' = "out"
        /\ UNCHANGED <<files, name, crashes>>
    BY <1>7 DEF WriteReturns, Goes
  <2>2. files[name].fields = HeaderPieces
    BY <1>0, <2>1 DEF WriterInv
  <2> QED
    BY <1>0, <2>1, <2>2 DEF WriterInv, Writing, TableWhole
<1>8. CASE Crash
  <2>1. crashes' # 0 /\ wpc' = "out"
    BY <1>0, <1>8 DEF Crash
  <2> QED
    BY <2>1 DEF WriterInv, Writing
<1>9. CASE \E r \in Readers : Reads(r)
  BY <1>2, <1>9, ReadsEffect
<1>10. CASE LogGrows \/ LensGrow \/ UNCHANGED ifVars
  BY <1>2, <1>10 DEF LogGrows, LensGrow, ifVars, writerVars
<1> QED
  BY <1>3, <1>4, <1>5, <1>6, <1>7, <1>8, <1>9, <1>10 DEF IFNext, Reads

\* A call that returns SUCCESS leaves a whole index of the log it read.
LEMMA SuccessStep == IFInv /\ [IFNext]_ifVars => SuccessIsWhole'
<1> SUFFICES ASSUME IFInv, [IFNext]_ifVars, crashes' = 0, wpc' = "out", wrc' = "SUCCESS"
             PROVE  (HeaderWhole(name) /\ TableWhole(name) /\ files[name].dataEnd = wEnd)'
  BY DEF SuccessIsWhole
<1>1. CASE UNCHANGED <<files, name, wpc, wEnd, crashes, wrc>>
  BY <1>1 DEF IFInv, SuccessIsWhole, HeaderWhole, TableWhole
<1>2. CASE WriteNothingToDo
  <2>1. /\ wpc = "old" /\ HeaderWhole(name) /\ files[name].dataEnd = logEnd
        /\ UNCHANGED <<files, name, wEnd, crashes>>
    BY <1>2 DEF WriteNothingToDo, HeaderLoads, Goes
  <2>2. name \in DOMAIN files
    BY <2>1 DEF HeaderWhole, IFInv, IFTypes
  <2>3. files[name].dataEnd <= wEnd /\ wEnd \in 0 .. logEnd /\ logEnd \in Nat
    BY <2>2, IndexFileAssumption DEF IFInv, IFTypes, FilesInv
  <2>4. files[name].dataEnd = wEnd
    BY <2>1, <2>3
  <2>5. TableWhole(name)
    BY <2>1, <2>2 DEF IFInv, WriterInv, Writing
  <2> QED
    BY <2>1, <2>4, <2>5 DEF HeaderWhole, TableWhole
<1>3. CASE WriteReturns
  <2>1. /\ wpc = "table" /\ TableWhole(name) /\ UNCHANGED <<files, name, wEnd>>
    BY <1>3 DEF WriteReturns
  <2>2. name \in DOMAIN files /\ files[name].dataEnd = wEnd /\ files[name].fields = HeaderPieces
    BY <2>1 DEF IFInv, WriterInv, Writing
  <2>3. name # 0
    BY <2>2 DEF IFInv, IFTypes
  <2> QED
    BY <2>1, <2>2, <2>3 DEF HeaderWhole, TableWhole
<1>4. CASE \E r \in Readers : Reads(r)
  BY <1>1, <1>4, ReadsEffect
<1>5. CASE LogGrows \/ LensGrow \/ UNCHANGED ifVars
  BY <1>1, <1>5 DEF LogGrows, LensGrow, ifVars, writerVars
<1>6. ~(WriteCalled \/ WriteStuck \/ WriteRemoves \/ WriteHeader \/ WriteTable \/ Crash)
  BY DEF WriteCalled, WriteStuck, WriteRemoves, WriteHeader, WriteTable, Goes, Crash
<1>7. ~((\E copyOld \in BOOLEAN : WriteBuilds(copyOld))
        \/ \E cap \in Capacities, ok \in BOOLEAN : WriteCreates(cap, ok))
  BY DEF WriteBuilds, WriteCreates, Goes
<1> QED
  BY <1>2, <1>3, <1>4, <1>5, <1>6, <1>7 DEF IFNext, Reads

\* What a reader knows of a file stays true.
LEMMA KnownKept ==
  ASSUME IFInv, [IFNext]_ifVars, NEW r \in Readers
  PROVE  /\ HeaderKnown(r) /\ rhdr'[r] = rhdr[r] => HeaderKnown(r)'
         /\ rfile[r] \in DOMAIN files /\ rfile'[r] = rfile[r] => rfile'[r] \in DOMAIN files'
BY FilesKept DEF HeaderKnown

\* A step of reader r is of no consequence to another one.
LEMMA OtherReaders ==
  ASSUME IFInv, NEW r \in Readers, Reads(r), NEW q \in Readers, q # r
  PROVE  rpc'[q] = rpc[q] /\ rhdr'[q] = rhdr[q] /\ rfile'[q] = rfile[q] /\ rerr'[q] = rerr[q]
BY DEF IFInv, IFTypes, Reads, OpenFindsNoHeader, OpenLoadsHeader, OpenLog, OpenFile, OpenMaps,
       Close, Closes, Step, Goto

\* The steps of the writer and the log leave the readers alone.
LEMMA WriterLeavesReaders ==
  ASSUME IFNext, \A r \in Readers : ~Reads(r)
  PROVE  UNCHANGED readerVars
<1>1. CASE LogGrows \/ LensGrow \/ Crash
  BY <1>1 DEF LogGrows, LensGrow, Crash
<1>2. CASE WriteCalled \/ WriteNothingToDo \/ WriteStuck \/ WriteRemoves
  BY <1>2 DEF WriteCalled, WriteNothingToDo, WriteStuck, WriteRemoves, Goes
<1>3. CASE WriteHeader \/ WriteTable \/ WriteReturns
  BY <1>3 DEF WriteHeader, WriteTable, WriteReturns, Goes
<1>4. CASE (\E c \in BOOLEAN : WriteBuilds(c)) \/ \E cap \in Capacities, ok \in BOOLEAN : WriteCreates(cap, ok)
  BY <1>4 DEF WriteBuilds, WriteCreates, Goes
<1> QED
  BY <1>1, <1>2, <1>3, <1>4 DEF IFNext, Reads

\* hash_open's header and file exist, and the header was whole.
LEMMA ReaderStep == IFInv /\ [IFNext]_ifVars => ReaderInv'
<1> SUFFICES ASSUME IFInv, [IFNext]_ifVars, NEW q \in Readers
             PROVE  /\ rpc'[q] # "closed" => HeaderKnown(q)'
                    /\ rpc'[q] \in {"stat", "open"} => rfile'[q] \in DOMAIN files'
  BY DEF ReaderInv
<1>0. ReaderInv /\ IFTypes
  BY DEF IFInv
<1>1. CASE rpc'[q] = rpc[q] /\ rhdr'[q] = rhdr[q] /\ rfile'[q] = rfile[q]
  BY <1>0, <1>1, KnownKept DEF ReaderInv
<1>2. CASE UNCHANGED readerVars
  BY <1>1, <1>2 DEF readerVars
<1>3. ASSUME NEW r \in Readers, Reads(r), q # r
      PROVE  rpc'[q] = rpc[q] /\ rhdr'[q] = rhdr[q] /\ rfile'[q] = rfile[q]
  BY <1>3, OtherReaders
<1>4. ASSUME Reads(q)
      PROVE  /\ rpc'[q] # "closed" => HeaderKnown(q)'
             /\ rpc'[q] \in {"stat", "open"} => rfile'[q] \in DOMAIN files'
  <2>0. UNCHANGED <<files, name>>
    BY <1>4, ReadsEffect
  <2>1. CASE rpc'[q] = "closed"
    BY <2>1
  <2>2. CASE OpenFindsNoHeader(q) \/ Close(q)
    BY <1>0, <2>1, <2>2 DEF OpenFindsNoHeader, Close, Closes, Goto, IFTypes
  <2>3. CASE OpenLoadsHeader(q)
    <3>1. /\ rpc'[q] = "log" /\ rhdr'[q] = HeaderOf(name) /\ HeaderWhole(name)
      BY <1>0, <2>3 DEF OpenLoadsHeader, HeaderLoads, Goto, IFTypes
    <3>2. name \in DOMAIN files
      BY <1>0, <3>1 DEF IFTypes, HeaderWhole
    <3> QED
      BY <2>0, <3>1, <3>2 DEF HeaderKnown, HeaderOf, HeaderWhole
  <2>4. CASE OpenLog(q)
    <3>1. CASE Closes(q, Corrupt(rhdr[q].file))
      BY <1>0, <2>1, <3>1 DEF Closes, Goto, IFTypes
    <3>2. CASE Step(q, "file", Code("NONE"))
      <4>1. rpc[q] = "log" /\ rpc'[q] = "file" /\ rhdr'[q] = rhdr[q]
        BY <1>0, <2>4, <3>2 DEF OpenLog, Step, Goto, IFTypes
      <4> QED
        BY <1>0, <4>1, KnownKept DEF ReaderInv
    <3> QED
      BY <2>4, <3>1, <3>2 DEF OpenLog
  <2>5. CASE OpenFile(q)
    <3>1. CASE name = 0
      BY <1>0, <2>1, <2>5, <3>1 DEF OpenFile, Closes, Goto, IFTypes
    <3>2. CASE name # 0
      <4>1. rpc[q] = "file" /\ rpc'[q] = "stat" /\ rhdr'[q] = rhdr[q] /\ rfile'[q] = name
        BY <1>0, <2>5, <3>2 DEF OpenFile, Goto, IFTypes
      <4>2. name \in DOMAIN files
        BY <1>0, <3>2 DEF IFTypes
      <4> QED
        BY <1>0, <2>0, <4>1, <4>2, KnownKept DEF ReaderInv
    <3> QED
      BY <3>1, <3>2
  <2>6. CASE OpenMaps(q)
    <3>1. CASE Closes(q, Code("HASH_TOO_SMALL"))
      BY <1>0, <2>1, <3>1 DEF Closes, Goto, IFTypes
    <3>2. CASE Step(q, "open", Code("SUCCESS"))
      <4>1. rpc[q] = "stat" /\ rpc'[q] = "open" /\ rhdr'[q] = rhdr[q] /\ rfile'[q] = rfile[q]
        BY <1>0, <2>6, <3>2 DEF OpenMaps, Step, Goto, IFTypes
      <4> QED
        BY <1>0, <4>1, KnownKept DEF ReaderInv
    <3> QED
      BY <2>6, <3>1, <3>2 DEF OpenMaps
  <2> QED
    BY <1>4, <2>2, <2>3, <2>4, <2>5, <2>6 DEF Reads
<1>5. CASE UNCHANGED ifVars
  BY <1>2, <1>5 DEF ifVars
<1>6. CASE IFNext /\ \A r \in Readers : ~Reads(r)
  BY <1>2, <1>6, WriterLeavesReaders
<1> QED
  BY <1>1, <1>3, <1>4, <1>5, <1>6

\* The files of open readers are whole, in the sense of MappedWhole.
LEMMA MappedStep == IFInv /\ [IFNext]_ifVars => MappedWhole'
<1> SUFFICES ASSUME IFInv, [IFNext]_ifVars, NEW q \in Readers,
                    rpc'[q] = "open", rhdr'[q].file = rfile'[q],
                    crashes' = 0 \/ rfile'[q] = name'
             PROVE  TableWhole(rfile[q])'
  BY DEF MappedWhole
<1>0. /\ IFTypes /\ ReaderInv /\ WriterInv /\ FilesInv /\ crashes \in Nat
  BY DEF IFInv, IFTypes
<1>1. ASSUME rpc[q] = "open", rhdr'[q] = rhdr[q], rfile'[q] = rfile[q],
             crashes = 0 \/ rfile[q] = name
      PROVE  TableWhole(rfile[q])'
  <2>1. TableWhole(rfile[q])
    BY <1>1 DEF IFInv, MappedWhole
  <2>2. rfile[q] \in DOMAIN files /\ files[rfile[q]].fields = HeaderPieces
    BY <1>0, <1>1 DEF ReaderInv, HeaderKnown
  <2>3. files'[rfile[q]] = files[rfile[q]]
    BY <2>1, <2>2, FilesKept, IndexFileAssumption
  <2> QED
    BY <1>1, <2>1, <2>3 DEF TableWhole
<1>2. ASSUME UNCHANGED readerVars PROVE TableWhole(rfile[q])'
  <2>1. /\ rpc[q] = "open" /\ rhdr'[q] = rhdr[q] /\ rfile'[q] = rfile[q]
        /\ rfile[q] \in DOMAIN files
    BY <1>0, <1>2 DEF readerVars, ReaderInv
  <2>2. crashes' = 0 => crashes = 0
    <3>1. CASE Crash
      BY <1>0, <3>1 DEF Crash
    <3>2. CASE crashes' = crashes
      BY <3>2
    <3>3. CASE \E r \in Readers : Reads(r)
      BY <3>2, <3>3, ReadsEffect
    <3>4. CASE LogGrows \/ LensGrow \/ UNCHANGED ifVars
      BY <3>2, <3>4 DEF LogGrows, LensGrow, ifVars, writerVars
    <3>5. CASE WriteCalled \/ WriteNothingToDo \/ WriteStuck \/ WriteRemoves
      BY <3>2, <3>5 DEF WriteCalled, WriteNothingToDo, WriteStuck, WriteRemoves, Goes
    <3>6. CASE WriteHeader \/ WriteTable \/ WriteReturns
      BY <3>2, <3>6 DEF WriteHeader, WriteTable, WriteReturns, Goes
    <3>7. CASE (\E c \in BOOLEAN : WriteBuilds(c)) \/ \E cap \in Capacities, ok \in BOOLEAN : WriteCreates(cap, ok)
      BY <3>2, <3>7 DEF WriteBuilds, WriteCreates, Goes
    <3> QED
      BY <3>1, <3>3, <3>4, <3>5, <3>6, <3>7 DEF IFNext, Reads
  <2>3. name' \in {name, 0} \/ name' \notin DOMAIN files
    <3>1. CASE name' = name
      BY <3>1
    <3>2. CASE \E r \in Readers : Reads(r)
      BY <3>1, <3>2, ReadsEffect
    <3>3. CASE LogGrows \/ LensGrow \/ UNCHANGED ifVars \/ Crash
      BY <3>1, <3>3 DEF LogGrows, LensGrow, Crash, ifVars, writerVars
    <3>4. CASE WriteCalled \/ WriteNothingToDo \/ WriteStuck \/ WriteRemoves
      BY <3>1, <3>4 DEF WriteCalled, WriteNothingToDo, WriteStuck, WriteRemoves
    <3>5. CASE WriteHeader \/ WriteTable \/ WriteReturns \/ \E c \in BOOLEAN : WriteBuilds(c)
      BY <3>1, <3>5 DEF WriteHeader, WriteTable, WriteReturns, WriteBuilds
    <3>6. CASE \E cap \in Capacities, ok \in BOOLEAN : WriteCreates(cap, ok)
      BY <3>6, CreatesEffect
    <3> QED
      BY <3>2, <3>3, <3>4, <3>5, <3>6 DEF IFNext, Reads
  <2>4. rfile[q] # 0
    BY <1>0, <2>1 DEF IFTypes
  <2> QED
    BY <1>1, <2>1, <2>2, <2>3, <2>4
<1>3. ASSUME NEW r \in Readers, Reads(r), q # r PROVE TableWhole(rfile[q])'
  <2>1. rpc[q] = "open" /\ rhdr'[q] = rhdr[q] /\ rfile'[q] = rfile[q]
    BY <1>3, OtherReaders
  <2> QED
    BY <1>1, <1>3, <2>1, ReadsEffect
<1>4. ASSUME Reads(q) PROVE TableWhole(rfile[q])'
  <2>0. UNCHANGED <<files, name, crashes, wpc>>
    BY <1>4, ReadsEffect
  <2>1. OpenMaps(q) /\ Step(q, "open", Code("SUCCESS")) /\ TRUE \in LongEnough(q)
    BY <1>0, <1>4 DEF Reads, OpenFindsNoHeader, OpenLoadsHeader, OpenLog, OpenFile, OpenMaps,
                      Close, Closes, Step, Goto, IFTypes
  <2>2. rpc[q] = "stat" /\ rhdr'[q] = rhdr[q] /\ rfile'[q] = rfile[q]
    BY <2>1 DEF OpenMaps, Step
  <2>3. rfile[q] \in DOMAIN files /\ rhdr[q].capacity = files[rfile[q]].capacity
    BY <1>0, <2>2 DEF ReaderInv, HeaderKnown
  <2>4. CASE rfile[q] # name
    <3>1. crashes = 0
      BY <2>0, <2>2, <2>4
    <3> QED
      BY <1>0, <2>0, <2>2, <2>3, <2>4, <3>1 DEF WriterInv, TableWhole
  <2>5. CASE rfile[q] = name
    <3>1. name # 0
      BY <1>0, <2>3, <2>5 DEF IFTypes
    <3>2. files[name].slots >= files[name].capacity
      BY <2>1, <2>3, <2>5, <3>1 DEF LongEnough
    <3>3. files[name].slots <= files[name].capacity /\ files[name] \in File
      BY <1>0, <2>3, <2>5 DEF FilesInv, IFTypes
    <3>4. files[name].slots = files[name].capacity
      BY <3>2, <3>3, FileType
    <3> QED
      BY <2>0, <2>2, <2>5, <3>4 DEF TableWhole
  <2> QED
    BY <2>4, <2>5
<1>5. CASE UNCHANGED ifVars
  BY <1>2, <1>5 DEF ifVars
<1>6. CASE IFNext /\ \A r \in Readers : ~Reads(r)
  BY <1>2, <1>6, WriterLeavesReaders
<1> QED
  BY <1>3, <1>4, <1>5, <1>6

\* The index a reader loaded is never ahead of the log it opens after it, so
\* that only hashheader_version0 can refuse a header.
LEMMA CorruptStep == IFInv /\ [IFNext]_ifVars => NoFalseCorrupt'
<1> DEFINE Raced(f) == f \in DOMAIN files /\ files[f].raced
<1> SUFFICES ASSUME IFInv, [IFNext]_ifVars, NEW q \in Readers,
                    rerr'[q].code = "HASH_HEADER_CORRUPT"
             PROVE  Raced(rerr[q].file)'
  BY DEF NoFalseCorrupt
<1>0. IFTypes /\ ReaderInv /\ FilesInv
  BY DEF IFInv
<1>1. ASSUME NEW f, Raced(f) PROVE Raced(f)'
  BY <1>1, FilesKept
<1>2. CASE rerr'[q] = rerr[q]
  <2>1. Raced(rerr[q].file)
    BY <1>2 DEF IFInv, NoFalseCorrupt
  <2>2. Raced(rerr[q].file)'
    <3> HIDE DEF Raced
    <3>1. \A f : Raced(f) => f \in DOMAIN files' /\ files'[f].raced
      BY <1>1 DEF Raced
    <3> QED
      BY <1>2, <2>1, <3>1 DEF Raced
  <2> QED
    BY <2>2
<1>3. CASE UNCHANGED readerVars
  BY <1>2, <1>3 DEF readerVars
<1>4. ASSUME NEW r \in Readers, Reads(r), q # r PROVE rerr'[q] = rerr[q]
  BY <1>4, OtherReaders
<1>5. CASE Reads(q)
  <2>1. ~OpenLog(q)
    <3> SUFFICES ASSUME OpenLog(q) PROVE FALSE
      OBVIOUS
    <3>1. HeaderKnown(q)
      BY <1>0 DEF OpenLog, ReaderInv
    <3>2. /\ rhdr[q].dataEnd <= wEnd /\ rhdr[q].dataEnd \in Nat
          /\ rhdr[q].lens <= wLens /\ rhdr[q].lens \in Nat
      <4>1. /\ rhdr[q].file \in DOMAIN files /\ rhdr[q].dataEnd = files[rhdr[q].file].dataEnd
            /\ rhdr[q].lens = files[rhdr[q].file].lens
        BY <3>1 DEF HeaderKnown
      <4>2. files[rhdr[q].file] \in File
        BY <1>0, <4>1 DEF IFTypes
      <4> QED
        BY <1>0, <4>1, <4>2, FileType DEF FilesInv
    <3>3. /\ wEnd \in 0 .. logEnd /\ logEnd \in 0 .. MaxLogEnd /\ MaxLogEnd \in Nat
          /\ wLens \in 0 .. logLens /\ logLens \in 0 .. logEnd
      BY <1>0, IndexFileAssumption DEF IFTypes
    <3>4. ~(rhdr[q].dataEnd > logEnd) /\ ~(rhdr[q].lens > logLens)
      BY <3>2, <3>3
    <3>5. rerr'[q] = Code("NONE")
      BY <1>0, <3>4 DEF OpenLog, Step, Goto, IFTypes
    <3> QED
      BY <3>5 DEF Code
  <2>2. OpenFindsNoHeader(q)
    <3>1. ~OpenLoadsHeader(q)
      BY <1>0 DEF OpenLoadsHeader, Goto, Code, IFTypes
    <3>2. ~OpenFile(q)
      BY <1>0 DEF OpenFile, Closes, Goto, Code, IFTypes
    <3>3. ~OpenMaps(q)
      <4>1. OpenMaps(q) => rerr'[q] \in {Code("SUCCESS"), Code("HASH_TOO_SMALL")}
        BY <1>0 DEF OpenMaps, Closes, Step, Goto, IFTypes
      <4> QED
        BY <4>1 DEF Code
    <3>4. ~Close(q)
      BY <1>0 DEF Close, Closes, Goto, Code, IFTypes
    <3> QED
      BY <1>5, <2>1, <3>1, <3>2, <3>3, <3>4 DEF Reads
  <2>3. /\ ~HeaderLoads(name) /\ UNCHANGED files
        /\ rerr'[q] = IF name = 0 THEN Code("FILE_NOT_FOUND")
                      ELSE IF HeaderWhole(name) THEN Corrupt(name) ELSE Code("UNEXPECTED_EOF")
    BY <1>0, <1>5, <2>2, ReadsEffect DEF OpenFindsNoHeader, Closes, Goto, IFTypes
  <2>4. name # 0 /\ HeaderWhole(name) /\ rerr'[q] = Corrupt(name)
    BY <2>3 DEF Code
  <2>5. name \in DOMAIN files /\ ~files[name].consistent
    BY <1>0, <2>3, <2>4 DEF HeaderLoads, IFTypes
  <2>6. files[name].raced
    BY <1>0, <2>5 DEF FilesInv
  <2> QED
    BY <2>3, <2>4, <2>5, <2>6 DEF Corrupt
<1>6. CASE UNCHANGED ifVars
  BY <1>3, <1>6 DEF ifVars
<1>7. CASE IFNext /\ \A r \in Readers : ~Reads(r)
  BY <1>3, <1>7, WriterLeavesReaders
<1> QED
  BY <1>2, <1>4, <1>5, <1>6, <1>7

\* Initially there is no file and no reader.
LEMMA IFInitInv == IFInit => IFInv
<1> SUFFICES ASSUME IFInit PROVE IFInv
  OBVIOUS
<1>1. IFTypes
  <2>1. 0 \in 0 .. MaxLogEnd /\ 0 \in 0 .. 0 /\ << >> \in Seq(File) /\ Len(<< >>) = 0
    BY IndexFileAssumption
  <2>2. /\ logEnd \in 0 .. MaxLogEnd /\ logLens \in 0 .. logEnd
        /\ wEnd \in 0 .. logEnd /\ wLens \in 0 .. logLens
    BY <2>1 DEF IFInit
  <2>5. wRaced \in BOOLEAN
    BY Zenon DEF IFInit
  <2>3. files \in Seq(File) /\ name \in 0 .. Len(files) /\ crashes \in Nat
    BY <2>1 DEF IFInit
  <2>4. /\ rpc \in [Readers -> {"closed", "log", "file", "stat", "open"}]
        /\ DOMAIN rhdr = Readers /\ DOMAIN rfile = Readers /\ DOMAIN rerr = Readers
    BY DEF IFInit
  <2> QED
    BY <2>2, <2>3, <2>4, <2>5 DEF IFInit, IFTypes
<1>2. FilesInv /\ WriterInv
  BY DEF IFInit, FilesInv, WriterInv, Writing
<1>3. ReaderInv /\ MappedWhole /\ NoFalseCorrupt /\ SuccessIsWhole
  BY DEF IFInit, Code, ReaderInv, MappedWhole, NoFalseCorrupt, SuccessIsWhole
<1> QED
  BY <1>1, <1>2, <1>3 DEF IFInv

-----------------------------------------------------------------------------
\* The invariant is inductive.
THEOREM IFInductive == IFSpec => []IFInv
<1>1. IFInv /\ [IFNext]_ifVars => IFInv'
  BY TypesStep, FilesStep, WriterStep, SuccessStep, ReaderStep, MappedStep, CorruptStep DEF IFInv
<1> QED
  BY IFInitInv, <1>1, PTL DEF IFSpec

\* The variables keep their types, and no hash file gets more slots than its
\* header says.
THEOREM IFTypeCorrect == IFSpec => []IFTypeOK
<1>1. IFInv => IFTypeOK
  BY DEF IFInv, IFTypes, FilesInv, ReaderInv, File, IFTypeOK
<1> QED
  BY IFInductive, <1>1, PTL

\* An open reader whose header and table are of the same file has all of its
\* table mapped, unless a hash_write was cut off and its file replaced.
THEOREM MappedCorrect == IFSpec => []MappedWhole
BY IFInductive, PTL DEF IFInv

\* hash_open, which loads the index before the log, returns
\* HASH_HEADER_CORRUPT only for a file of a hash_write during which the log
\* grew between the two loads of its header, or that goes back to one.
THEOREM CorruptCorrect == IFSpec => []NoFalseCorrupt
BY IFInductive, PTL DEF IFInv

\* While no hash_write was cut off, SUCCESS means that the file under the
\* name is a whole index of the log as it was when the call began.
THEOREM SuccessCorrect == IFSpec => []SuccessIsWhole
BY IFInductive, PTL DEF IFInv

\* hash_write never writes to a file that a reader has mapped together with
\* its own header: it unlinks the name first, and a file whose table is whole
\* is not written to again.
THEOREM UndisturbedCorrect == IFSpec => ReadersUndisturbed
<1>1. ASSUME IFInv, [IFNext]_ifVars, NEW r \in Readers,
             rpc[r] = "open", rhdr[r].file = rfile[r]
      PROVE  files'[rfile[r]] = files[rfile[r]]
  <2>1. rfile[r] \in DOMAIN files /\ files[rfile[r]].fields = HeaderPieces
    BY <1>1 DEF IFInv, ReaderInv, HeaderKnown
  <2>2. rfile[r] = name => TableWhole(rfile[r])
    BY <1>1 DEF IFInv, MappedWhole
  <2> QED
    BY <1>1, <2>1, <2>2, FilesKept, IndexFileAssumption
<1>2. IFInv /\ [IFNext]_ifVars =>
        \A r \in Readers :
          rpc[r] = "open" /\ rhdr[r].file = rfile[r] => files'[rfile[r]] = files[rfile[r]]
  BY <1>1
<1> QED
  BY IFInductive, <1>2, PTL DEF IFSpec, ReadersUndisturbed
=============================================================================
