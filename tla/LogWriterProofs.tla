-------------------------- MODULE LogWriterProofs --------------------------
(***************************************************************************)
(* Proofs about the log file, its writer and its readers, for entries of   *)
(* any lengths, any size of the file buffer, and any number of entries,    *)
(* readers, crashes and failing writes.                                    *)
(***************************************************************************)
EXTENDS LogWriter, LogFormatProofs, FiniteSetTheorems

\* The units of the first n entries end here.
End(es, n) == Len(UnitsTo(es, n))
\* The PUTs among the first n entries.
Puts(es, n) == Cardinality({i \in 1 .. n : es[i].type = "put"})

(***************************************************************************)
(* The inductive invariant.                                                *)
(***************************************************************************)
LWTypes ==
  /\ LWTypeOK
  /\ data \in Seq(LogUnit) /\ buf \in Seq(LogUnit) /\ pending \in Seq(LogUnit)
  /\ entries \in Seq(LogEntry) /\ lastId \in Nat

\* What is true in which state of the writer.
PhaseInv ==
  /\ wstate # "adding" => pending = << >>
  /\ wstate = "adding" => entries # << >>
  /\ wstate \in {"closed", "header"} => buf = << >>
  /\ wstate \in {"open", "adding"} => complete
  /\ wstate \in {"open", "adding", "failed"} => resumed = "no"
  /\ wstate = "header" /\ resumed # "no" => closing
  /\ ~complete => entries = << >> /\ acked = 0 /\ readers = {} /\ buf = << >> /\ resumed = "no"

\* While no call has failed, the file up to the writer's position, file_buf
\* and the rest of the entry that log_add works on are what was accepted.
ContentInv ==
  wstate \in {"open", "adding", "header"} /\ resumed = "no" =>
    /\ offset # InHeader /\ offset + Len(buf) + Len(pending) = Len(Units(entries))
    /\ \A i \in 1 .. offset : data[i] = Units(entries)[i]
    /\ \A i \in 1 .. Len(buf) : buf[i] = Units(entries)[offset + i]
    /\ \A i \in 1 .. Len(pending) : pending[i] = Units(entries)[offset + Len(buf) + i]

\* The data_end in the file is the end of an entry, at or behind the last one
\* that was acknowledged; after a close nothing is missing.
CommitInv ==
  /\ complete /\ resumed = "no" =>
       /\ \E n \in acked .. Len(entries) : hdr.dataEnd = End(entries, n)
       /\ \A i \in 1 .. hdr.dataEnd : data[i] = Units(entries)[i]
  /\ complete /\ resumed = "no" /\ wstate = "closed" => hdr.dataEnd = Len(Units(entries))
  /\ complete /\ resumed # "header" =>
       /\ End(entries, acked) <= hdr.dataEnd /\ End(entries, acked) <= Len(data)
       /\ \A i \in 1 .. End(entries, acked) : data[i] = Units(entries)[i]

\* A data_end is inside the data, or before them after a failure; the
\* writer's position is never before it, and the header is written in the
\* order of its fields.
PositionInv ==
  /\ hdr.dataEnd \in InHeader .. Len(data)
  /\ wstate = "header" => mem.dataEnd \in InHeader .. Len(data)
  /\ complete /\ wstate # "closed" /\ resumed # "header" =>
       hdr.dataEnd <= offset \/ (wstate = "failed" /\ offset = InHeader)
  /\ wstate = "header" /\ resumed # "header" => mem.dataEnd = offset
  /\ wstate = "header" /\ field > 1 => hdr.numPuts = mem.numPuts
  /\ wstate = "header" /\ field > 3 => hdr.dataEnd = mem.dataEnd

\* Readers look at data that were published.
ReadersInv ==
  \A r \in readers : /\ r.dataEnd >= 0 /\ r.dataEnd <= Len(data)
                     /\ resumed # "header" => r.dataEnd <= hdr.dataEnd

\* num_puts is counted before data_end moves.
CountInv ==
  /\ wstate \in {"open", "header"} /\ resumed = "no" =>
       mem.numPuts >= Puts(entries, Len(entries))
  /\ wstate = "adding" => mem.numPuts >= Puts(entries, Len(entries) - 1)
  /\ complete /\ resumed = "no" =>
       \A n \in 0 .. Len(entries) : End(entries, n) = hdr.dataEnd => hdr.numPuts >= Puts(entries, n)

LWInv == /\ LWTypes /\ PhaseInv /\ ContentInv /\ CommitInv /\ PositionInv
         /\ ReadersInv /\ CountInv

-----------------------------------------------------------------------------
(***************************************************************************)
(* The operators of the model.                                             *)
(***************************************************************************)

\* Max of two integers is one of them and not less than the other.
LEMMA MaxOfTwo ==
  ASSUME NEW a \in Int, NEW b \in Int
  PROVE  Max({a, b}) = IF a >= b THEN a ELSE b
<1>1. PICK m \in {a, b} : \A y \in {a, b} : m >= y
  <2>1. CASE a >= b
    BY <2>1
  <2>2. CASE ~(a >= b)
    BY <2>2
  <2> QED
    BY <2>1, <2>2
<1> DEFINE c == CHOOSE x \in {a, b} : \A y \in {a, b} : x >= y
<1>2. c \in {a, b} /\ \A y \in {a, b} : c >= y
  BY <1>1
<1>3. Max({a, b}) = c
  BY DEF Max
<1> HIDE DEF c
<1> QED
  BY <1>2, <1>3

\* A write at a position inside the data, or at their end, puts its units
\* there and leaves the others.
LEMMA WrittenFacts ==
  ASSUME NEW d \in Seq(LogUnit), NEW s \in Seq(LogUnit), NEW at \in 0 .. Len(d)
  PROVE  /\ Written(d, at, s) \in Seq(LogUnit)
         /\ Len(Written(d, at, s)) \in Nat
         /\ Len(Written(d, at, s)) >= Len(d) /\ Len(Written(d, at, s)) >= at + Len(s)
         /\ \A i \in 1 .. at : Written(d, at, s)[i] = d[i]
         /\ \A i \in at + 1 .. at + Len(s) : Written(d, at, s)[i] = s[i - at]
<1> DEFINE n == Max({Len(d), at + Len(s)})
           w == [i \in 1 .. n |-> IF i \in at + 1 .. at + Len(s) THEN s[i - at] ELSE d[i]]
<1>1. n \in Nat /\ n >= Len(d) /\ n >= at + Len(s) /\ (n = Len(d) \/ n = at + Len(s))
  BY MaxOfTwo
<1>2. Written(d, at, s) = w
  BY DEF Written
<1> HIDE DEF n
<1>3. ASSUME NEW i \in 1 .. n PROVE w[i] \in LogUnit
  <2>1. CASE i \in at + 1 .. at + Len(s)
    <3>1. i - at \in 1 .. Len(s)
      BY <2>1
    <3>2. s[i - at] \in LogUnit
      BY <3>1
    <3> QED
      BY <2>1, <3>2
  <2>2. CASE ~(i \in at + 1 .. at + Len(s))
    <3>1. i \in 1 .. Len(d)
      BY <1>1, <2>2
    <3>2. d[i] \in LogUnit
      BY <3>1
    <3> QED
      BY <2>2, <3>2
  <2> QED
    BY <2>1, <2>2
<1>4. w \in [1 .. n -> LogUnit]
  BY <1>3
<1>5. w \in Seq(LogUnit) /\ Len(w) = n
  <2> HIDE DEF w
  <2> QED
    BY <1>1, <1>4
<1>6. \A i \in 1 .. at : w[i] = d[i]
  BY <1>1
<1>7. \A i \in at + 1 .. at + Len(s) : w[i] = s[i - at]
  BY <1>1
<1> HIDE DEF w
<1> QED
  BY <1>1, <1>2, <1>5, <1>6, <1>7

\* Five fields of the header change.
LEMMA FieldCount == Len(HeaderFields) = 5
BY DEF HeaderFields

\* The header fields are integers, and so are those of an empty log.
LEMMA HeaderTypes ==
  /\ EmptyHeader \in Headers
  /\ EmptyHeader.dataEnd = 0 /\ EmptyHeader.numPuts = 0
  /\ \A h \in Headers : h.dataEnd \in Int /\ h.numPuts \in Int /\ h.numDeletes \in Int
                        /\ h.maxKeyLen \in Int /\ h.maxValueLen \in Int
BY DEF EmptyHeader, Headers

\* Setting a field of a header.
LEMMA HeaderSet ==
  ASSUME NEW h \in Headers, NEW v \in Int
  PROVE  /\ [h EXCEPT !.dataEnd = v] \in Headers
         /\ [h EXCEPT !.dataEnd = v].dataEnd = v
         /\ [h EXCEPT !.dataEnd = v].numPuts = h.numPuts
BY DEF Headers

\* write_logheader writes num_puts first and data_end third.
LEMMA HeaderFieldWritten ==
  ASSUME NEW h \in Headers, NEW m \in Headers, NEW k \in 1 .. 5
  PROVE  LET g == [h EXCEPT ![HeaderFields[k]] = m[HeaderFields[k]]]
         IN  /\ g \in Headers
             /\ g.numPuts = IF k = 1 THEN m.numPuts ELSE h.numPuts
             /\ g.dataEnd = IF k = 3 THEN m.dataEnd ELSE h.dataEnd
<1>1. CASE k = 1
  BY <1>1 DEF Headers, HeaderFields
<1>2. CASE k = 2
  BY <1>2 DEF Headers, HeaderFields
<1>3. CASE k = 3
  BY <1>3 DEF Headers, HeaderFields
<1>4. CASE k = 4
  BY <1>4 DEF Headers, HeaderFields
<1>5. CASE k = 5
  BY <1>5 DEF Headers, HeaderFields
<1> QED
  BY <1>1, <1>2, <1>3, <1>4, <1>5

\* Counting an entry.
LEMMA CountedFacts ==
  ASSUME NEW h \in Headers, NEW e \in LogEntry
  PROVE  /\ Counted(h, e) \in Headers
         /\ Counted(h, e).numPuts = IF e.type = "put" THEN h.numPuts + 1 ELSE h.numPuts
<1>1. e.klen \in Int /\ e.vlen \in Int
  BY DEF LogEntry
<1>2. Max({h.maxKeyLen, e.klen}) \in Int /\ Max({h.maxValueLen, e.vlen}) \in Int
  BY <1>1, HeaderTypes, MaxOfTwo
<1> DEFINE k == Max({h.maxKeyLen, e.klen})
           v == Max({h.maxValueLen, e.vlen})
           g == [h EXCEPT !.numPuts = @ + 1, !.maxKeyLen = k, !.maxValueLen = v]
<1>3. Counted(h, e) = IF e.type = "put" THEN g ELSE [h EXCEPT !.numDeletes = @ + 1]
  BY DEF Counted
<1>4. k \in Int /\ v \in Int
  BY <1>2
<1> HIDE DEF k, v
<1>5. g \in Headers /\ g.numPuts = h.numPuts + 1
  <2> DEFINE g1 == [h EXCEPT !.numPuts = @ + 1]
             g2 == [g1 EXCEPT !.maxKeyLen = k]
             g3 == [g2 EXCEPT !.maxValueLen = v]
  <2>1. g = g3
    BY DEF Headers
  <2>2. g1 \in Headers /\ g1.numPuts = h.numPuts + 1
    BY DEF Headers
  <2> HIDE DEF g1
  <2>3. g2 \in Headers /\ g2.numPuts = g1.numPuts
    BY <1>4, <2>2 DEF Headers
  <2> HIDE DEF g2
  <2>4. g3 \in Headers /\ g3.numPuts = g2.numPuts
    BY <1>4, <2>3 DEF Headers
  <2> HIDE DEF g3, g
  <2> QED
    BY <2>1, <2>2, <2>3, <2>4
<1>6. /\ [h EXCEPT !.numDeletes = @ + 1] \in Headers
      /\ [h EXCEPT !.numDeletes = @ + 1].numPuts = h.numPuts
  BY DEF Headers
<1> HIDE DEF g
<1> QED
  BY <1>3, <1>5, <1>6

(***************************************************************************)
(* The entries and their units.                                            *)
(***************************************************************************)

\* The ends of the entries grow, from zero to all the units, and the units
\* of the first n entries are the first units.
LEMMA EndFacts ==
  ASSUME NEW es \in Seq(LogEntry)
  PROVE  /\ Units(es) \in Seq(LogUnit) /\ Len(Units(es)) \in Nat
         /\ End(es, 0) = 0 /\ End(es, Len(es)) = Len(Units(es))
         /\ \A n \in 0 .. Len(es) : /\ UnitsTo(es, n) \in Seq(LogUnit)
                                    /\ End(es, n) \in 0 .. Len(Units(es))
                                    /\ \A i \in 1 .. End(es, n) : UnitsTo(es, n)[i] = Units(es)[i]
         /\ \A m, n \in 0 .. Len(es) : m <= n => End(es, m) <= End(es, n)
         /\ \A m, n \in 0 .. Len(es) : End(es, m) = End(es, n) => m = n
<1>1. Len(es) \in Nat /\ Prefix(es, Len(es)) = es /\ Prefix(es, 0) = << >>
  BY DEF Prefix
<1>2. UnitsTo(es, Len(es)) = Units(es)
  BY <1>1 DEF UnitsTo
<1>3. [id |-> 0, type |-> "put", klen |-> 0, vlen |-> 0] \in LogEntry
  BY DEF LogEntry
<1>4. UnitsTo(es, 0) = << >>
  BY <1>1, <1>3, UnitsAppend DEF UnitsTo
<1>5. Units(es) \in Seq(LogUnit)
  BY <1>3, UnitsAppend
<1>6. \A n \in 0 .. Len(es) :
        /\ UnitsTo(es, n) \in Seq(LogUnit)
        /\ Len(UnitsTo(es, n)) <= Len(Units(es))
        /\ \A i \in 1 .. Len(UnitsTo(es, n)) : UnitsTo(es, n)[i] = Units(es)[i]
  <2> SUFFICES ASSUME NEW n \in 0 .. Len(es)
               PROVE  /\ UnitsTo(es, n) \in Seq(LogUnit)
                      /\ Len(UnitsTo(es, n)) <= Len(Units(es))
                      /\ \A i \in 1 .. Len(UnitsTo(es, n)) : UnitsTo(es, n)[i] = Units(es)[i]
    OBVIOUS
  <2>1. n \in Nat /\ n <= Len(es) /\ n <= n /\ Len(es) <= Len(es)
    BY <1>1
  <2>2. UnitsTo(es, n) \in Seq(LogUnit)
    BY <2>1, UnitsGrow
  <2> QED
    BY <1>1, <1>2, <2>1, <2>2, UnitsGrow
<1>7. \A m, n \in 0 .. Len(es) :
        /\ m <= n => End(es, m) <= End(es, n)
        /\ m < n => End(es, m) < End(es, n)
  <2> SUFFICES ASSUME NEW m \in 0 .. Len(es), NEW n \in 0 .. Len(es), m <= n
               PROVE  /\ End(es, m) <= End(es, n)
                      /\ m < n => End(es, m) < End(es, n)
    BY <1>1
  <2>1. m \in Nat /\ n \in Nat /\ n <= Len(es)
    BY <1>1
  <2> QED
    BY <2>1, UnitsGrow DEF End
<1>8. \A n \in 0 .. Len(es) : End(es, n) \in 0 .. Len(Units(es)) /\ End(es, n) \in Int
  BY <1>5, <1>6 DEF End
<1>9. \A m, n \in 0 .. Len(es) : End(es, m) = End(es, n) => m = n
  <2> SUFFICES ASSUME NEW m \in 0 .. Len(es), NEW n \in 0 .. Len(es), m # n
               PROVE  End(es, m) # End(es, n)
    OBVIOUS
  <2>1. m < n \/ n < m
    BY <1>1
  <2>2. End(es, m) \in Int /\ End(es, n) \in Int
    BY <1>8
  <2> QED
    BY <1>7, <2>1, <2>2
<1>10. Len(Units(es)) \in Nat
  BY <1>5
<1>11. End(es, 0) = 0 /\ End(es, Len(es)) = Len(Units(es))
  BY <1>2, <1>4 DEF End
<1>12. \A n \in 0 .. Len(es) : \A i \in 1 .. End(es, n) : UnitsTo(es, n)[i] = Units(es)[i]
  BY <1>6 DEF End
<1> QED
  BY <1>5, <1>6, <1>7, <1>8, <1>9, <1>10, <1>11, <1>12

\* Cutting the log behind an entry keeps the entries before.
LEMMA CutFacts ==
  ASSUME NEW es \in Seq(LogEntry), NEW c \in 0 .. Len(es)
  PROVE  /\ Prefix(es, c) \in Seq(LogEntry) /\ Len(Prefix(es, c)) = c
         /\ \A n \in 0 .. c : /\ UnitsTo(Prefix(es, c), n) = UnitsTo(es, n)
                              /\ End(Prefix(es, c), n) = End(es, n)
                              /\ Puts(Prefix(es, c), n) = Puts(es, n)
         /\ Units(Prefix(es, c)) = UnitsTo(es, c)
         /\ \A i \in 1 .. End(es, c) : Units(Prefix(es, c))[i] = Units(es)[i]
<1>1. /\ Prefix(es, c) \in Seq(LogEntry) /\ Len(Prefix(es, c)) = c
      /\ \A i \in 1 .. c : Prefix(es, c)[i] = es[i]
  BY DEF Prefix
<1>2. ASSUME NEW n \in 0 .. c
      PROVE  /\ UnitsTo(Prefix(es, c), n) = UnitsTo(es, n)
             /\ End(Prefix(es, c), n) = End(es, n)
             /\ Puts(Prefix(es, c), n) = Puts(es, n)
  <2>1. Prefix(Prefix(es, c), n) = Prefix(es, n)
    BY DEF Prefix
  <2>2. {i \in 1 .. n : Prefix(es, c)[i].type = "put"} = {i \in 1 .. n : es[i].type = "put"}
    BY <1>1
  <2> QED
    BY <2>1, <2>2 DEF UnitsTo, End, Puts
<1>3. Units(Prefix(es, c)) = UnitsTo(es, c)
  BY DEF UnitsTo
<1> QED
  BY <1>1, <1>2, <1>3, EndFacts

\* Adding an entry keeps the entries before, and adds the entry's units.
LEMMA GrowFacts ==
  ASSUME NEW es \in Seq(LogEntry), NEW e \in LogEntry
  PROVE  LET fs == Append(es, e)
         IN  /\ fs \in Seq(LogEntry) /\ Len(fs) = Len(es) + 1 /\ fs # << >>
             /\ fs[Len(es) + 1] = e
             /\ \A n \in 0 .. Len(es) : /\ UnitsTo(fs, n) = UnitsTo(es, n)
                                        /\ End(fs, n) = End(es, n)
                                        /\ Puts(fs, n) = Puts(es, n)
             /\ Len(Units(fs)) = Len(Units(es)) + Len(EntryUnits(e))
             /\ \A i \in 1 .. Len(Units(es)) : Units(fs)[i] = Units(es)[i]
             /\ \A i \in 1 .. Len(EntryUnits(e)) :
                  Units(fs)[Len(Units(es)) + i] = EntryUnits(e)[i]
<1> DEFINE fs == Append(es, e)
<1>1. /\ fs \in Seq(LogEntry) /\ Len(fs) = Len(es) + 1 /\ fs # << >>
      /\ fs[Len(es) + 1] = e /\ \A i \in 1 .. Len(es) : fs[i] = es[i]
  OBVIOUS
<1>2. ASSUME NEW n \in 0 .. Len(es)
      PROVE  /\ UnitsTo(fs, n) = UnitsTo(es, n)
             /\ End(fs, n) = End(es, n)
             /\ Puts(fs, n) = Puts(es, n)
  <2>1. Prefix(fs, n) = Prefix(es, n)
    BY DEF Prefix
  <2>2. {i \in 1 .. n : fs[i].type = "put"} = {i \in 1 .. n : es[i].type = "put"}
    BY <1>1
  <2> HIDE DEF fs
  <2> QED
    BY <2>1, <2>2 DEF UnitsTo, End, Puts
<1>3. /\ Units(fs) = Units(es) \o EntryUnits(e)
      /\ Units(es) \in Seq(LogUnit) /\ EntryUnits(e) \in Seq(LogUnit)
  BY UnitsAppend, EntryUnitsType
<1> HIDE DEF fs
<1> DEFINE u == Units(es)
           v == EntryUnits(e)
<1> HIDE DEF u, v
<1>4. ASSUME u \in Seq(LogUnit), v \in Seq(LogUnit)
      PROVE  /\ Len(u \o v) = Len(u) + Len(v)
             /\ \A i \in 1 .. Len(u) : (u \o v)[i] = u[i]
             /\ \A i \in 1 .. Len(v) : (u \o v)[Len(u) + i] = v[i]
  BY <1>4
<1>5. /\ Len(Units(fs)) = Len(Units(es)) + Len(EntryUnits(e))
      /\ \A i \in 1 .. Len(Units(es)) : Units(fs)[i] = Units(es)[i]
      /\ \A i \in 1 .. Len(EntryUnits(e)) : Units(fs)[Len(Units(es)) + i] = EntryUnits(e)[i]
  BY <1>3, <1>4 DEF u, v
<1> QED
  BY <1>1, <1>2, <1>5 DEF fs

\* Fewer entries hold fewer PUTs, and one more holds at most one more.
LEMMA PutsFacts ==
  ASSUME NEW es \in Seq(LogEntry)
  PROVE  /\ Puts(es, 0) = 0
         /\ \A n \in 0 .. Len(es) : Puts(es, n) \in Nat
         /\ \A m, n \in 0 .. Len(es) : m <= n => Puts(es, m) <= Puts(es, n)
         /\ \A n \in 0 .. Len(es) - 1 :
              Puts(es, n + 1) = Puts(es, n) + IF es[n + 1].type = "put" THEN 1 ELSE 0
<1> DEFINE P(n) == {i \in 1 .. n : es[i].type = "put"}
<1>1. Len(es) \in Nat
  OBVIOUS
<1>2. ASSUME NEW n \in 0 .. Len(es) PROVE IsFiniteSet(P(n)) /\ Cardinality(P(n)) \in Nat
  <2>0. n \in Int /\ 1 \in Int /\ P(n) \subseteq 1 .. n
    BY <1>1
  <2>1. IsFiniteSet(1 .. n)
    BY <2>0, FS_Interval
  <2> HIDE DEF P
  <2>2. IsFiniteSet(P(n))
    BY <2>0, <2>1, FS_Subset
  <2> QED
    BY <2>2, FS_CardinalityType
<1>3. ASSUME NEW m \in 0 .. Len(es), NEW n \in 0 .. Len(es), m <= n
      PROVE  Cardinality(P(m)) <= Cardinality(P(n))
  <2>1. P(m) \subseteq P(n)
    BY <1>1, <1>3
  <2> HIDE DEF P
  <2> QED
    BY <1>2, <2>1, FS_Subset
<1>4. ASSUME NEW n \in 0 .. Len(es) - 1
      PROVE  Cardinality(P(n + 1)) = Cardinality(P(n)) + IF es[n + 1].type = "put" THEN 1 ELSE 0
  <2>1. n \in 0 .. Len(es) /\ ~(n + 1 \in P(n))
    BY <1>1
  <2>2. CASE es[n + 1].type = "put"
    <3>1. P(n + 1) = P(n) \cup {n + 1}
      BY <1>1, <2>2
    <3> HIDE DEF P
    <3> QED
      BY <1>2, <2>1, <2>2, <3>1, FS_AddElement
  <2>3. CASE es[n + 1].type # "put"
    <3>1. P(n + 1) = P(n)
      BY <1>1, <2>3
    <3> HIDE DEF P
    <3> QED
      BY <1>2, <2>1, <2>3, <3>1
  <2> QED
    BY <2>2, <2>3
<1>5. Cardinality(P(0)) = 0
  <2>1. P(0) = {}
    OBVIOUS
  <2> HIDE DEF P
  <2> QED
    BY <2>1, FS_EmptySet
<1>6. \A n : Puts(es, n) = Cardinality(P(n))
  BY DEF Puts
<1> HIDE DEF P
<1> QED
  BY <1>2, <1>3, <1>4, <1>5, <1>6

-----------------------------------------------------------------------------
(***************************************************************************)
(* The steps.                                                              *)
(***************************************************************************)

\* The lengths and positions are numbers, within their limits.
Numbers ==
  /\ Len(data) \in Nat /\ Len(pending) \in Nat /\ Len(Units(entries)) \in Nat
  /\ Len(buf) \in Nat /\ FileBufSize \in Nat /\ FileBufSize > 0
  /\ BufRemaining \in Nat /\ Len(buf) + BufRemaining = FileBufSize
  /\ Len(entries) \in Nat /\ acked \in Nat /\ acked <= Len(entries)
  /\ End(entries, acked) \in Nat
  /\ InHeader = -1 /\ offset \in Int /\ offset >= InHeader /\ offset <= Len(data)
  /\ hdr.dataEnd \in Int /\ mem.dataEnd \in Int
  /\ hdr.numPuts \in Int /\ mem.numPuts \in Int

\* The sequences and headers.
StateTypes ==
  /\ data \in Seq(LogUnit) /\ buf \in Seq(LogUnit) /\ pending \in Seq(LogUnit)
  /\ entries \in Seq(LogEntry) /\ hdr \in Headers /\ mem \in Headers
  /\ lastId \in Nat

\* The types say so.
LEMMA StateFacts == LWTypes => Numbers /\ StateTypes
BY SMTT(40), HeaderTypes, EndFacts, SizeAssumption
   DEF StateTypes, Numbers, LWTypes, LWTypeOK, InHeader, BufRemaining

\* The CHOOSE of Committed finds the entry that ends at data_end.
LEMMA CommittedFacts ==
  ASSUME LWTypes, CommitInv, complete, resumed = "no"
  PROVE  /\ Committed \in acked .. Len(entries) /\ Committed \in 0 .. Len(entries)
         /\ End(entries, Committed) = hdr.dataEnd
         /\ hdr.dataEnd \in Nat
<1>0. Numbers /\ StateTypes
  BY StateFacts
<1>1. PICK m \in acked .. Len(entries) : hdr.dataEnd = End(entries, m)
  BY DEF CommitInv
<1>2. m \in 0 .. Len(entries)
  BY <1>0 DEF Numbers, StateTypes
<1>3. Committed \in 0 .. Len(entries) /\ End(entries, Committed) = hdr.dataEnd
  BY <1>1, <1>2 DEF Committed, End, UnitsTo
<1>4. Committed = m
  BY <1>0, <1>1, <1>2, <1>3, EndFacts DEF Numbers, StateTypes
<1> QED
  BY <1>0, <1>1, <1>2, <1>3, <1>4, EndFacts DEF Numbers, StateTypes

\* Before anything happened.
LEMMA LWInitInv == LWInit => LWInv
<1> SUFFICES ASSUME LWInit PROVE LWInv
  OBVIOUS
<1> USE DEF LWInit
<1>1. << >> \in Seq(LogUnit) /\ << >> \in Seq(LogEntry) /\ Len(<< >>) = 0
  OBVIOUS
<1>2. LWTypes
  <2>1. Len(buf) <= FileBufSize /\ offset \in InHeader .. Len(data)
    BY <1>1, SizeAssumption DEF InHeader
  <2>2. field \in 1 .. Len(HeaderFields) + 1 /\ faults \in 0 .. MaxFaults
    BY FieldCount, SizeAssumption
  <2>3. hdr \in Headers /\ mem \in Headers /\ readers \subseteq Headers
    BY HeaderTypes
  <2>4. /\ complete \in BOOLEAN /\ closing \in BOOLEAN /\ wstate \in WStates
        /\ resumed \in {"no", "data", "header"}
    BY DEF WStates
  <2>5. /\ acked \in 0 .. Len(entries) /\ data \in Seq(LogUnit) /\ buf \in Seq(LogUnit)
        /\ pending \in Seq(LogUnit) /\ entries \in Seq(LogEntry) /\ lastId \in Nat
    BY <1>1
  <2> QED
    BY <2>1, <2>2, <2>3, <2>4, <2>5 DEF LWTypes, LWTypeOK
<1> QED
  BY <1>1, <1>2, HeaderTypes
     DEF LWInv, PhaseInv, ContentInv, CommitInv, PositionInv, ReadersInv, CountInv, InHeader

\* A step that leaves the variables alone.
LEMMA LWStutter == LWInv /\ UNCHANGED lwVars => LWInv'
BY DEF LWInv, LWTypes, LWTypeOK, PhaseInv, ContentInv, CommitInv, PositionInv, ReadersInv,
       CountInv, lwVars, fileVars, writerVars, ghostVars

\* sparkey_logwriter_create.
LEMMA CreateStep == LWInv /\ Create => LWInv'
<1> SUFFICES ASSUME LWInv, Create PROVE LWInv'
  OBVIOUS
<1>0. /\ complete' = FALSE /\ entries' = << >> /\ acked' = 0 /\ readers' = {} /\ resumed' = "no"
      /\ data' = << >> /\ hdr' = EmptyHeader /\ mem' = EmptyHeader /\ buf' = << >> /\ offset' = 0
      /\ wstate' = "header" /\ field' = 1 /\ closing' = FALSE /\ pending' = << >>
      /\ faults' = faults /\ lastId' = lastId
  BY DEF Create, LWInv, LWTypes, LWTypeOK, PhaseInv, ghostVars
<1>1. << >> \in Seq(LogUnit) /\ << >> \in Seq(LogEntry) /\ Len(<< >>) = 0
  OBVIOUS
<1>2. LWTypes'
  <2>1. (Len(buf) <= FileBufSize /\ offset \in InHeader .. Len(data))'
    BY <1>0, <1>1, SizeAssumption DEF InHeader
  <2>2. (field \in 1 .. Len(HeaderFields) + 1 /\ faults \in 0 .. MaxFaults)'
    BY <1>0, FieldCount, SizeAssumption DEF LWInv, LWTypes, LWTypeOK
  <2>3. (hdr \in Headers /\ mem \in Headers /\ readers \subseteq Headers)'
    BY <1>0, HeaderTypes
  <2>4. /\ complete' \in BOOLEAN /\ closing' \in BOOLEAN /\ wstate' \in WStates
        /\ resumed' \in {"no", "data", "header"}
    BY <1>0 DEF WStates
  <2>5. /\ acked' \in 0 .. Len(entries') /\ data' \in Seq(LogUnit) /\ buf' \in Seq(LogUnit)
        /\ pending' \in Seq(LogUnit) /\ entries' \in Seq(LogEntry) /\ lastId' \in Nat
    BY <1>0, <1>1 DEF LWInv, LWTypes
  <2> QED
    BY <2>1, <2>2, <2>3, <2>4, <2>5 DEF LWTypes, LWTypeOK
<1>3. Len(Units(<< >>)) = 0 /\ Puts(<< >>, 0) = 0
  BY <1>1, EndFacts, PutsFacts
<1> QED
  BY <1>0, <1>1, <1>2, <1>3, HeaderTypes
     DEF LWInv, PhaseInv, ContentInv, CommitInv, PositionInv, ReadersInv, CountInv, InHeader

\* sparkey_logwriter_append.
LEMMA ReopenStep == LWInv /\ Reopen => LWInv'
<1> SUFFICES ASSUME LWInv, Reopen PROVE LWInv'
  OBVIOUS
<1>0. /\ complete /\ resumed = "no" /\ wstate = "closed" /\ hdr.dataEnd # InHeader
      /\ wstate' = "open" /\ mem' = hdr /\ buf' = << >> /\ offset' = hdr.dataEnd
      /\ data' = data /\ hdr' = hdr /\ complete' = complete /\ pending' = pending
      /\ field' = field /\ closing' = closing /\ entries' = entries /\ acked' = acked
      /\ lastId' = lastId /\ faults' = faults /\ resumed' = resumed /\ readers' = readers
  BY DEF Reopen, HeaderLoads, fileVars, ghostVars
<1>1. LWTypes /\ PhaseInv /\ CommitInv /\ PositionInv /\ ReadersInv /\ CountInv /\ Numbers /\ StateTypes
  BY StateFacts DEF LWInv
<1>2. hdr.dataEnd = Len(Units(entries)) /\ pending = << >>
  BY <1>0, <1>1 DEF CommitInv, PhaseInv
<1>3. << >> \in Seq(LogUnit) /\ Len(<< >>) = 0
  OBVIOUS
<1>4. LWTypes'
  BY <1>0, <1>1, <1>3 DEF Numbers, StateTypes, LWTypes, LWTypeOK, WStates, PositionInv
<1>5. PhaseInv' /\ PositionInv' /\ ReadersInv'
  BY <1>0, <1>1, <1>2, <1>3 DEF Numbers, StateTypes, PhaseInv, PositionInv, ReadersInv
<1>6. ContentInv' /\ CommitInv'
  BY <1>0, <1>1, <1>2, <1>3 DEF Numbers, StateTypes, ContentInv, CommitInv
<1>7. CountInv'
  <2>1. hdr.numPuts >= Puts(entries, Len(entries))
    BY SMTT(40), <1>0, <1>1, <1>2, EndFacts DEF Numbers, StateTypes, CountInv
  <2> QED
    BY <1>0, <1>1, <2>1 DEF CountInv
<1> QED
  BY <1>4, <1>5, <1>6, <1>7 DEF LWInv

\* sparkey_logwriter_put and sparkey_logwriter_delete begin.
LEMMA StartAddStep ==
  ASSUME LWInv, NEW type \in {"put", "delete"}, NEW klen \in Nat, NEW vlen \in Nat,
         StartAdd(type, klen, vlen)
  PROVE  LWInv'
<1> DEFINE e == [id |-> lastId + 1, type |-> type, klen |-> klen, vlen |-> vlen]
<1>0. /\ wstate = "open" /\ wstate' = "adding"
      /\ pending' = EntryUnits(e) /\ lastId' = lastId + 1
      /\ data' = data /\ hdr' = hdr /\ complete' = complete /\ mem' = mem /\ buf' = buf
      /\ offset' = offset /\ field' = field /\ closing' = closing /\ acked' = acked
      /\ faults' = faults /\ resumed' = resumed /\ readers' = readers
  BY DEF StartAdd, fileVars
<1>a. entries' = Append(entries, e)
  BY DEF StartAdd
<1>1. /\ LWTypes /\ PhaseInv /\ ContentInv /\ CommitInv /\ PositionInv /\ ReadersInv
      /\ CountInv /\ Numbers /\ StateTypes
  BY StateFacts DEF LWInv
<1>2. complete /\ resumed = "no" /\ pending = << >> /\ Len(pending) = 0
  BY <1>0, <1>1 DEF PhaseInv
<1>3. e \in LogEntry
  BY <1>1 DEF LogEntry, LWTypes
<1> HIDE DEF e
<1>4. EntryUnits(e) \in Seq(LogUnit) /\ Len(EntryUnits(e)) \in Nat
  BY <1>3, EntryUnitsType
<1>5. /\ entries' \in Seq(LogEntry) /\ Len(entries') = Len(entries) + 1 /\ entries' # << >>
      /\ \A n \in 0 .. Len(entries) : End(entries', n) = End(entries, n)
                                      /\ Puts(entries', n) = Puts(entries, n)
      /\ Len(Units(entries')) = Len(Units(entries)) + Len(EntryUnits(e))
      /\ \A i \in 1 .. Len(Units(entries)) : Units(entries')[i] = Units(entries)[i]
      /\ \A i \in 1 .. Len(EntryUnits(e)) :
           Units(entries')[Len(Units(entries)) + i] = EntryUnits(e)[i]
  BY <1>1, <1>3, <1>a, GrowFacts DEF StateTypes
<1>6. LWTypes'
  <2>1. acked' \in 0 .. Len(entries') /\ entries' \in Seq(LogEntry)
    BY <1>0, <1>1, <1>5 DEF Numbers
  <2>2. pending' \in Seq(LogUnit) /\ lastId' \in Nat /\ wstate' \in WStates
    BY <1>0, <1>1, <1>4 DEF StateTypes, WStates
  <2> QED
    BY <1>0, <1>1, <2>1, <2>2 DEF LWTypes, LWTypeOK
<1>7. PhaseInv' /\ PositionInv' /\ ReadersInv'
  BY <1>0, <1>1, <1>2, <1>5 DEF PhaseInv, PositionInv, ReadersInv
<1>8. ContentInv'
  <2>1. /\ offset # InHeader /\ offset + Len(buf) = Len(Units(entries))
        /\ \A i \in 1 .. offset : data[i] = Units(entries)[i]
        /\ \A i \in 1 .. Len(buf) : buf[i] = Units(entries)[offset + i]
    BY SMTT(40), <1>0, <1>1, <1>2 DEF Numbers, StateTypes, ContentInv
  <2>2. /\ \A i \in 1 .. offset : data[i] = Units(entries')[i]
        /\ \A i \in 1 .. Len(buf) : buf[i] = Units(entries')[offset + i]
    <3>0. offset \in Nat /\ Len(buf) \in Nat /\ offset + Len(buf) = Len(Units(entries))
      BY <1>1, <2>1 DEF Numbers
    <3>1. /\ \A i \in 1 .. offset : i \in 1 .. Len(Units(entries))
          /\ \A i \in 1 .. Len(buf) : offset + i \in 1 .. Len(Units(entries))
      BY <3>0
    <3>2. ASSUME NEW i \in 1 .. offset PROVE data[i] = Units(entries')[i]
      <4>1. Units(entries')[i] = Units(entries)[i]
        BY <1>5, <3>1
      <4> QED
        BY <2>1, <4>1
    <3>3. ASSUME NEW i \in 1 .. Len(buf) PROVE buf[i] = Units(entries')[offset + i]
      <4>1. Units(entries')[offset + i] = Units(entries)[offset + i]
        BY <1>5, <3>1
      <4> QED
        BY <2>1, <4>1
    <3> QED
      BY <3>2, <3>3
  <2> QED
    BY <1>0, <1>1, <1>4, <1>5, <2>1, <2>2 DEF Numbers, StateTypes, ContentInv
<1>9. hdr.dataEnd <= Len(Units(entries)) /\ End(entries, acked) <= Len(Units(entries))
  BY SMTT(40), <1>1, <1>2, CommittedFacts, EndFacts DEF Numbers, StateTypes
<1>10. CommitInv'
  <2>1. \E n \in acked .. Len(entries') : hdr.dataEnd = End(entries', n)
    BY SMTT(40), <1>1, <1>2, <1>5, CommittedFacts DEF Numbers, StateTypes
  <2>2. \A i \in 1 .. hdr.dataEnd : data[i] = Units(entries')[i]
    BY SMTT(40), <1>1, <1>2, <1>5, <1>9 DEF Numbers, StateTypes, CommitInv
  <2>3. End(entries', acked) = End(entries, acked)
    BY SMTT(40), <1>1, <1>5 DEF Numbers, StateTypes
  <2>4. \A i \in 1 .. End(entries, acked) : data[i] = Units(entries')[i]
    BY SMTT(40), <1>1, <1>2, <1>5, <1>9 DEF Numbers, StateTypes, CommitInv
  <2> QED
    BY <1>0, <1>1, <1>2, <2>1, <2>2, <2>3, <2>4 DEF CommitInv
<1>11. CountInv'
  <2>1. mem.numPuts >= Puts(entries', Len(entries') - 1)
    <3>1. mem.numPuts >= Puts(entries, Len(entries))
      BY <1>0, <1>1, <1>2 DEF CountInv
    <3>2. Len(entries') - 1 = Len(entries) /\ Len(entries) \in 0 .. Len(entries)
      BY <1>1, <1>5 DEF Numbers
    <3> QED
      BY <1>5, <3>1, <3>2
  <2>2. ASSUME NEW n \in 0 .. Len(entries'), End(entries', n) = hdr.dataEnd
        PROVE  hdr.numPuts >= Puts(entries', n)
    <3>1. Committed \in 0 .. Len(entries) /\ End(entries, Committed) = hdr.dataEnd
      BY <1>1, <1>2, CommittedFacts
    <3>2. Committed \in 0 .. Len(entries') /\ End(entries', Committed) = hdr.dataEnd
      BY SMTT(40), <1>1, <1>5, <3>1 DEF Numbers, StateTypes
    <3>3. n = Committed
      BY <1>5, <2>2, <3>2, EndFacts
    <3> QED
      BY <1>1, <1>2, <1>5, <3>1, <3>3 DEF CountInv
  <2> QED
    BY <1>0, <2>1, <2>2 DEF CountInv
<1> QED
  BY <1>6, <1>7, <1>8, <1>10, <1>11 DEF LWInv

\* log_add ends: the rest of the entry fits into file_buf, and is counted.
LEMMA BufAddFitsStep == LWInv /\ BufAddFits => LWInv'
<1> SUFFICES ASSUME LWInv, BufAddFits PROVE LWInv'
  OBVIOUS
<1>0. /\ wstate = "adding" /\ wstate' = "open" /\ Len(pending) <= BufRemaining
      /\ buf' = buf \o pending /\ pending' = << >> /\ mem' = Counted(mem, Last(entries))
      /\ data' = data /\ hdr' = hdr /\ complete' = complete /\ offset' = offset
      /\ field' = field /\ closing' = closing /\ entries' = entries /\ acked' = acked
      /\ lastId' = lastId /\ faults' = faults /\ resumed' = resumed /\ readers' = readers
  BY DEF BufAddFits, fileVars, ghostVars
<1>1. /\ LWTypes /\ PhaseInv /\ ContentInv /\ CommitInv /\ PositionInv /\ ReadersInv
      /\ CountInv /\ Numbers /\ StateTypes
  BY StateFacts DEF LWInv
<1>2. complete /\ resumed = "no" /\ entries # << >>
  BY <1>0, <1>1 DEF PhaseInv
<1>3. << >> \in Seq(LogUnit) /\ Len(<< >>) = 0
  OBVIOUS
<1>4. /\ buf' \in Seq(LogUnit) /\ Len(buf') = Len(buf) + Len(pending)
      /\ \A i \in 1 .. Len(buf) : buf'[i] = buf[i]
      /\ \A i \in Len(buf) + 1 .. Len(buf) + Len(pending) : buf'[i] = pending[i - Len(buf)]
  <2>1. buf \in Seq(LogUnit) /\ pending \in Seq(LogUnit)
    BY <1>1 DEF Numbers, StateTypes
  <2> QED
    BY <1>0, <2>1
<1>5. Len(entries) \in 1 .. Len(entries) /\ Last(entries) = entries[Len(entries)]
      /\ Last(entries) \in LogEntry
  BY <1>1, <1>2 DEF Numbers, StateTypes, Last
<1>6. /\ mem' \in Headers
      /\ mem'.numPuts = IF Last(entries).type = "put" THEN mem.numPuts + 1 ELSE mem.numPuts
  BY <1>0, <1>1, <1>5, CountedFacts DEF Numbers, StateTypes
<1>7. LWTypes'
  BY SMTT(40), <1>0, <1>1, <1>3, <1>4, <1>6 DEF Numbers, StateTypes, LWTypes, LWTypeOK, WStates
<1>8. PhaseInv' /\ PositionInv' /\ ReadersInv' /\ CommitInv'
  BY <1>0, <1>1, <1>2 DEF PhaseInv, PositionInv, ReadersInv, CommitInv
<1>9. ContentInv'
  <2>1. /\ offset # InHeader /\ offset + Len(buf) + Len(pending) = Len(Units(entries))
        /\ \A i \in 1 .. offset : data[i] = Units(entries)[i]
        /\ \A i \in 1 .. Len(buf) : buf[i] = Units(entries)[offset + i]
        /\ \A i \in 1 .. Len(pending) : pending[i] = Units(entries)[offset + Len(buf) + i]
    BY <1>0, <1>1, <1>2 DEF ContentInv
  <2>2. ASSUME NEW i \in 1 .. Len(buf') PROVE buf'[i] = Units(entries)[offset + i]
    <3>1. CASE i <= Len(buf)
      BY SMTT(40), <1>1, <1>4, <2>1, <3>1 DEF Numbers, StateTypes
    <3>2. CASE i > Len(buf)
      <4>1. i - Len(buf) \in 1 .. Len(pending) /\ i \in Len(buf) + 1 .. Len(buf) + Len(pending)
            /\ offset + Len(buf) + (i - Len(buf)) = offset + i
        BY <1>1, <1>4, <3>2 DEF Numbers, StateTypes
      <4> QED
        BY <1>4, <2>1, <4>1
    <3> QED
      BY <1>1, <1>4, <3>1, <3>2 DEF Numbers, StateTypes
  <2> QED
    <3>1. offset + Len(buf') + Len(pending') = Len(Units(entries)) /\ Len(pending') = 0
      BY <1>0, <1>1, <1>3, <1>4, <2>1 DEF Numbers
    <3>2. \A i \in 1 .. Len(pending') : pending'[i] = Units(entries)[offset + Len(buf') + i]
      BY <3>1
    <3> QED
      BY <1>0, <2>1, <2>2, <3>1, <3>2 DEF ContentInv
<1>10. CountInv'
  <2>1. mem.numPuts >= Puts(entries, Len(entries) - 1)
    BY <1>0, <1>1 DEF CountInv
  <2>2. /\ Len(entries) - 1 \in 0 .. Len(entries) - 1 /\ Len(entries) - 1 \in 0 .. Len(entries)
        /\ (Len(entries) - 1) + 1 = Len(entries)
    BY <1>1, <1>5 DEF Numbers, StateTypes
  <2>3. /\ Puts(entries, Len(entries) - 1) \in Nat
        /\ Puts(entries, Len(entries)) = Puts(entries, Len(entries) - 1)
             + IF Last(entries).type = "put" THEN 1 ELSE 0
    BY <1>1, <1>5, <2>2, PutsFacts DEF Numbers, StateTypes
  <2>4. mem'.numPuts >= Puts(entries, Len(entries))
    BY SMTT(40), <1>1, <1>6, <2>1, <2>3 DEF Numbers, StateTypes
  <2> QED
    BY <1>0, <1>1, <2>4 DEF CountInv
<1> QED
  BY <1>7, <1>8, <1>9, <1>10 DEF LWInv

\* A write at the writer's position, whatever it writes, leaves what was
\* published and what readers look at.
LEMMA WriteBehind ==
  ASSUME LWInv, complete, wstate \in {"open", "adding", "failed"}, offset # InHeader,
         NEW s \in Seq(LogUnit), data' = Written(data, offset, s),
         hdr' = hdr, complete' = complete, entries' = entries, acked' = acked,
         readers' = readers, resumed' \in {"no", "data"}, wstate' # "closed"
  PROVE  /\ data' \in Seq(LogUnit) /\ Len(data') \in Nat
         /\ Len(data') >= Len(data) /\ Len(data') >= offset + Len(s)
         /\ \A i \in 1 .. offset : data'[i] = data[i]
         /\ \A i \in offset + 1 .. offset + Len(s) : data'[i] = s[i - offset]
         /\ hdr.dataEnd <= offset /\ hdr.dataEnd \in InHeader .. Len(data')
         /\ CommitInv' /\ ReadersInv'
<1>1. /\ LWTypes /\ PhaseInv /\ CommitInv /\ PositionInv /\ ReadersInv
      /\ Numbers /\ StateTypes
  BY StateFacts DEF LWInv
<1>2. resumed = "no"
  BY <1>1 DEF PhaseInv
<1>3. hdr.dataEnd <= offset
  BY <1>1, <1>2 DEF PositionInv
<1>4. offset \in 0 .. Len(data) /\ data \in Seq(LogUnit)
  BY <1>1 DEF Numbers, StateTypes
<1>5. /\ data' \in Seq(LogUnit) /\ Len(data') \in Nat
      /\ Len(data') >= Len(data) /\ Len(data') >= offset + Len(s)
      /\ \A i \in 1 .. offset : data'[i] = data[i]
      /\ \A i \in offset + 1 .. offset + Len(s) : data'[i] = s[i - offset]
  BY <1>4, WrittenFacts
<1>6. hdr.dataEnd \in InHeader .. Len(data')
  BY SMTT(40), <1>1, <1>3, <1>5 DEF Numbers, PositionInv
<1>7. CommitInv'
  <2>1. /\ \E n \in acked .. Len(entries) : hdr.dataEnd = End(entries, n)
        /\ \A i \in 1 .. hdr.dataEnd : data[i] = Units(entries)[i]
        /\ End(entries, acked) <= hdr.dataEnd
        /\ \A i \in 1 .. End(entries, acked) : data[i] = Units(entries)[i]
    BY <1>1, <1>2 DEF CommitInv
  <2>2. /\ \A i \in 1 .. hdr.dataEnd : i \in 1 .. offset
        /\ \A i \in 1 .. End(entries, acked) : i \in 1 .. offset
        /\ End(entries, acked) <= Len(data')
    <3>1. End(entries, acked) <= hdr.dataEnd /\ Len(data') \in Nat /\ Len(data') >= Len(data)
      BY <1>5, <2>1
    <3> QED
      BY SMTT(40), <1>1, <1>3, <3>1 DEF Numbers
  <2>3. /\ \A i \in 1 .. hdr.dataEnd : data'[i] = Units(entries)[i]
        /\ \A i \in 1 .. End(entries, acked) : data'[i] = Units(entries)[i]
    BY <1>5, <2>1, <2>2
  <2> QED
    BY <2>1, <2>2, <2>3 DEF CommitInv
<1>8. ReadersInv'
  <2>1. \A r \in readers : r.dataEnd \in Int
    BY <1>1, HeaderTypes DEF LWTypes, LWTypeOK
  <2> QED
    BY SMTT(40), <1>1, <1>2, <1>5, <2>1 DEF ReadersInv, Numbers
<1> QED
  BY <1>3, <1>5, <1>6, <1>7, <1>8

\* buf_add: file_buf is full and is written, with a part of the entry.
LEMMA BufAddSpillsStep == LWInv /\ BufAddSpills => LWInv'
<1> SUFFICES ASSUME LWInv, BufAddSpills PROVE LWInv'
  OBVIOUS
<1> DEFINE k == BufRemaining
           s == buf \o Prefix(pending, k)
<1>0. /\ wstate = "adding" /\ wstate' = wstate /\ Len(pending) > k
      /\ offset' = offset + FileBufSize /\ buf' = << >>
      /\ hdr' = hdr /\ complete' = complete /\ mem' = mem
      /\ field' = field /\ closing' = closing /\ entries' = entries /\ acked' = acked
      /\ lastId' = lastId /\ faults' = faults /\ resumed' = resumed /\ readers' = readers
  BY DEF BufAddSpills, ghostVars
<1>a. pending' = SubSeq(pending, k + 1, Len(pending))
  BY DEF BufAddSpills
<1>b. data' = Written(data, offset, s)
  BY DEF BufAddSpills
<1> HIDE DEF s, k
<1>1. /\ LWTypes /\ PhaseInv /\ ContentInv /\ CommitInv /\ PositionInv /\ ReadersInv
      /\ CountInv /\ Numbers /\ StateTypes
  BY StateFacts DEF LWInv
<1>2. complete /\ resumed = "no" /\ entries # << >>
  BY <1>0, <1>1 DEF PhaseInv
<1>3. << >> \in Seq(LogUnit) /\ Len(<< >>) = 0
  OBVIOUS
<1>4. /\ offset # InHeader /\ offset + Len(buf) + Len(pending) = Len(Units(entries))
      /\ \A i \in 1 .. offset : data[i] = Units(entries)[i]
      /\ \A i \in 1 .. Len(buf) : buf[i] = Units(entries)[offset + i]
      /\ \A i \in 1 .. Len(pending) : pending[i] = Units(entries)[offset + Len(buf) + i]
  BY <1>0, <1>1, <1>2 DEF ContentInv
<1>5. k \in Nat /\ k < Len(pending) /\ Len(buf) + k = FileBufSize
  BY <1>0, <1>1 DEF Numbers, k
<1>6. /\ s \in Seq(LogUnit) /\ Len(s) = Len(buf) + k
      /\ \A i \in 1 .. Len(buf) : s[i] = buf[i]
      /\ \A i \in Len(buf) + 1 .. Len(buf) + k : s[i] = pending[i - Len(buf)]
  <2>1. buf \in Seq(LogUnit) /\ pending \in Seq(LogUnit)
    BY <1>1 DEF StateTypes
  <2>2. Prefix(pending, k) \in Seq(LogUnit) /\ Len(Prefix(pending, k)) = k
        /\ \A i \in 1 .. k : Prefix(pending, k)[i] = pending[i]
    BY <1>5, <2>1 DEF Prefix
  <2> QED
    BY SMTT(40), <1>5, <2>1, <2>2 DEF s
<1>7. /\ pending' \in Seq(LogUnit) /\ Len(pending') = Len(pending) - k
      /\ \A i \in 1 .. Len(pending') : pending'[i] = pending[k + i]
  <2>1. pending \in Seq(LogUnit)
    BY <1>1 DEF StateTypes
  <2> QED
    BY <1>5, <1>a, <2>1
<1>8. /\ data' \in Seq(LogUnit) /\ Len(data') \in Nat
      /\ Len(data') >= Len(data) /\ Len(data') >= offset + Len(s)
      /\ \A i \in 1 .. offset : data'[i] = data[i]
      /\ \A i \in offset + 1 .. offset + Len(s) : data'[i] = s[i - offset]
      /\ hdr.dataEnd <= offset /\ hdr.dataEnd \in InHeader .. Len(data')
      /\ CommitInv' /\ ReadersInv'
  BY <1>0, <1>2, <1>4, <1>6, <1>b, WriteBehind
<1>9. LWTypes'
  <2>1. Len(buf') <= FileBufSize /\ offset' \in InHeader .. Len(data') /\ buf' \in Seq(LogUnit)
    <3>1. Len(data') \in Nat /\ Len(data') >= offset + Len(s) /\ Len(s) = Len(buf) + k
      BY <1>6, <1>8
    <3> QED
      BY <1>0, <1>1, <1>3, <1>5, <3>1 DEF Numbers
  <2> QED
    BY <1>0, <1>1, <1>7, <1>8, <2>1 DEF LWTypes, LWTypeOK
<1>10. PhaseInv' /\ CountInv'
  BY <1>0, <1>1, <1>2 DEF PhaseInv, CountInv
<1>11. PositionInv'
  <2>1. hdr.dataEnd <= offset + FileBufSize
    BY SMTT(40), <1>1, <1>8 DEF Numbers
  <2> QED
    BY <1>0, <1>2, <1>8, <2>1 DEF PositionInv
<1>12. ContentInv'
  <2>0. offset \in Nat /\ Len(buf) \in Nat /\ FileBufSize \in Nat /\ Len(pending) \in Nat
    BY <1>1, <1>4 DEF Numbers
  <2>1. ASSUME NEW i \in 1 .. offset + FileBufSize PROVE data'[i] = Units(entries)[i]
    <3>1. CASE i <= offset
      <4>1. i \in 1 .. offset
        BY <2>0, <3>1
      <4> QED
        BY <1>4, <1>8, <4>1
    <3>2. CASE i > offset /\ i <= offset + Len(buf)
      <4>1. /\ i \in offset + 1 .. offset + Len(s) /\ i - offset \in 1 .. Len(buf)
            /\ offset + (i - offset) = i
        BY <1>5, <1>6, <2>0, <3>2
      <4> QED
        BY SMTT(40), <1>4, <1>6, <1>8, <4>1
    <3>3. CASE i > offset + Len(buf)
      <4>1. /\ i \in offset + 1 .. offset + Len(s)
            /\ i - offset \in Len(buf) + 1 .. Len(buf) + k
            /\ (i - offset) - Len(buf) \in 1 .. Len(pending)
            /\ offset + Len(buf) + ((i - offset) - Len(buf)) = i
        BY SMTT(40), <1>5, <1>6, <2>0, <3>3
      <4>2. data'[i] = pending[(i - offset) - Len(buf)]
        BY <1>6, <1>8, <4>1
      <4> QED
        BY <1>4, <4>1, <4>2
    <3> QED
      BY <2>0, <3>1, <3>2, <3>3
  <2>2. ASSUME NEW i \in 1 .. Len(pending')
        PROVE  pending'[i] = Units(entries)[offset + FileBufSize + 0 + i]
    <3>1. /\ k + i \in 1 .. Len(pending)
          /\ offset + Len(buf) + (k + i) = offset + FileBufSize + 0 + i
      <4>1. Len(pending') = Len(pending) - k
        BY <1>7
      <4> QED
        BY <1>5, <2>0, <4>1
    <3>2. pending[k + i] = Units(entries)[offset + Len(buf) + (k + i)]
      BY <1>4, <3>1
    <3> QED
      BY <1>7, <3>1, <3>2
  <2>3. /\ offset + FileBufSize # InHeader
        /\ offset + FileBufSize + 0 + Len(pending') = Len(Units(entries))
    <3>1. /\ Len(pending') = Len(pending) - k
          /\ offset + Len(buf) + Len(pending) = Len(Units(entries))
      BY <1>4, <1>7
    <3>2. InHeader = -1 /\ Len(Units(entries)) \in Nat
      BY <1>1 DEF Numbers
    <3> QED
      BY <1>5, <2>0, <3>1, <3>2
  <2>4. Len(buf') = 0
    BY <1>0, <1>3
  <2>5. \A i \in 1 .. Len(buf') : buf'[i] = Units(entries)[offset + FileBufSize + i]
    BY <2>4
  <2> QED
    BY <1>0, <2>1, <2>2, <2>3, <2>4, <2>5 DEF ContentInv
<1> QED
  BY <1>8, <1>9, <1>10, <1>11, <1>12 DEF LWInv

\* sparkey_logwriter_flush: file_buf is written, the header is next.
LEMMA FlushStep == ASSUME LWInv, NEW c \in BOOLEAN, Flush(c) PROVE LWInv'
<1>0. /\ wstate = "open" /\ wstate' = "header" /\ field' = 1 /\ closing' = c
      /\ offset' = offset + Len(buf) /\ buf' = << >>
      /\ hdr' = hdr /\ complete' = complete /\ pending' = pending
      /\ entries' = entries /\ acked' = acked
      /\ lastId' = lastId /\ faults' = faults /\ resumed' = resumed /\ readers' = readers
  BY DEF Flush, ghostVars
<1>a. mem' = [mem EXCEPT !.dataEnd = offset + Len(buf)]
  BY DEF Flush
<1>b. data' = Written(data, offset, buf)
  BY DEF Flush
<1>1. /\ LWTypes /\ PhaseInv /\ ContentInv /\ CommitInv /\ PositionInv /\ ReadersInv
      /\ CountInv /\ Numbers /\ StateTypes
  BY StateFacts DEF LWInv
<1>2. complete /\ resumed = "no" /\ pending = << >> /\ Len(pending) = 0
  BY <1>0, <1>1 DEF PhaseInv
<1>3. << >> \in Seq(LogUnit) /\ Len(<< >>) = 0
  OBVIOUS
<1>4. /\ offset # InHeader /\ offset + Len(buf) + Len(pending) = Len(Units(entries))
      /\ \A i \in 1 .. offset : data[i] = Units(entries)[i]
      /\ \A i \in 1 .. Len(buf) : buf[i] = Units(entries)[offset + i]
  BY <1>0, <1>1, <1>2 DEF ContentInv
<1>5. /\ mem' \in Headers /\ mem'.dataEnd = offset + Len(buf) /\ mem'.numPuts = mem.numPuts
  <2>1. mem \in Headers /\ offset + Len(buf) \in Int
    BY <1>1 DEF Numbers, StateTypes
  <2> QED
    BY <1>a, <2>1, HeaderSet
<1>6. /\ data' \in Seq(LogUnit) /\ Len(data') \in Nat
      /\ Len(data') >= Len(data) /\ Len(data') >= offset + Len(buf)
      /\ \A i \in 1 .. offset : data'[i] = data[i]
      /\ \A i \in offset + 1 .. offset + Len(buf) : data'[i] = buf[i - offset]
      /\ hdr.dataEnd <= offset /\ hdr.dataEnd \in InHeader .. Len(data')
      /\ CommitInv' /\ ReadersInv'
  <2>1. buf \in Seq(LogUnit)
    BY <1>1 DEF StateTypes
  <2> QED
    BY <1>0, <1>2, <1>4, <1>b, <2>1, WriteBehind
<1>7. offset \in Nat /\ Len(buf) \in Nat
  BY <1>1, <1>4 DEF Numbers
<1>8. LWTypes'
  <2>0. buf' \in Seq(LogUnit) /\ Len(buf') = 0
    BY <1>0, <1>3
  <2>a. FileBufSize \in Nat /\ InHeader = -1
    BY <1>1 DEF Numbers
  <2>b. Len(data') \in Nat /\ Len(data') >= offset + Len(buf) /\ offset' = offset + Len(buf)
    BY <1>0, <1>6
  <2>1. Len(buf') <= FileBufSize /\ offset' \in InHeader .. Len(data') /\ buf' \in Seq(LogUnit)
    BY <1>7, <2>0, <2>a, <2>b
  <2>2. field' \in 1 .. Len(HeaderFields) + 1 /\ wstate' \in WStates
    BY <1>0, FieldCount DEF WStates
  <2> QED
    BY <1>0, <1>1, <1>5, <1>6, <2>1, <2>2 DEF LWTypes, LWTypeOK
<1>9. PhaseInv' /\ CountInv'
  BY <1>0, <1>1, <1>2, <1>5 DEF PhaseInv, CountInv
<1>10. PositionInv'
  <2>1. hdr.dataEnd <= offset + Len(buf) /\ mem'.dataEnd \in InHeader .. Len(data')
    <3>1. Len(data') \in Nat /\ Len(data') >= offset + Len(buf) /\ hdr.dataEnd <= offset
      BY <1>6
    <3> QED
      BY SMTT(40), <1>1, <1>5, <1>7, <3>1 DEF Numbers
  <2> QED
    BY <1>0, <1>2, <1>5, <1>6, <2>1 DEF PositionInv
<1>11. ContentInv'
  <2>1. ASSUME NEW i \in 1 .. offset + Len(buf) PROVE data'[i] = Units(entries)[i]
    <3>1. CASE i <= offset
      <4>1. i \in 1 .. offset
        BY <1>7, <3>1
      <4> QED
        BY <1>4, <1>6, <4>1
    <3>2. CASE i > offset
      <4>1. /\ i \in offset + 1 .. offset + Len(buf) /\ i - offset \in 1 .. Len(buf)
            /\ offset + (i - offset) = i
        BY <1>7, <3>2
      <4> QED
        BY <1>4, <1>6, <4>1
    <3> QED
      BY <1>7, <3>1, <3>2
  <2>2. Len(buf') = 0 /\ Len(pending') = 0
    BY <1>0, <1>2, <1>3
  <2>3. offset' # InHeader /\ offset' + 0 + 0 = Len(Units(entries))
    BY <1>0, <1>1, <1>2, <1>4, <1>7 DEF Numbers
  <2> QED
    BY <1>0, <2>1, <2>2, <2>3 DEF ContentInv
<1> QED
  BY <1>6, <1>8, <1>9, <1>10, <1>11 DEF LWInv

\* write_logheader writes a field.
LEMMA WriteHeaderFieldStep == LWInv /\ WriteHeaderField => LWInv'
<1> SUFFICES ASSUME LWInv, WriteHeaderField PROVE LWInv'
  OBVIOUS
<1>0. /\ wstate = "header" /\ wstate' = wstate /\ field <= 5 /\ field' = field + 1
      /\ data' = data /\ complete' = complete /\ mem' = mem /\ buf' = buf /\ offset' = offset
      /\ pending' = pending /\ closing' = closing /\ entries' = entries /\ acked' = acked
      /\ lastId' = lastId /\ faults' = faults /\ resumed' = resumed /\ readers' = readers
  BY FieldCount DEF WriteHeaderField, ghostVars
<1>a. hdr' = [hdr EXCEPT ![HeaderFields[field]] = mem[HeaderFields[field]]]
  BY DEF WriteHeaderField
<1>1. /\ LWTypes /\ PhaseInv /\ ContentInv /\ CommitInv /\ PositionInv /\ ReadersInv
      /\ CountInv /\ Numbers /\ StateTypes
  BY StateFacts DEF LWInv
<1>2. field \in 1 .. 5 /\ field' \in 1 .. Len(HeaderFields) + 1
  BY <1>0, <1>1, FieldCount DEF LWTypes, LWTypeOK
<1>3. /\ hdr' \in Headers
      /\ hdr'.numPuts = IF field = 1 THEN mem.numPuts ELSE hdr.numPuts
      /\ hdr'.dataEnd = IF field = 3 THEN mem.dataEnd ELSE hdr.dataEnd
  BY <1>1, <1>2, <1>a, HeaderFieldWritten DEF StateTypes
<1>4. LWTypes'
  BY <1>0, <1>1, <1>2, <1>3 DEF LWTypes, LWTypeOK
<1>5. PhaseInv' /\ ContentInv'
  BY <1>0, <1>1 DEF PhaseInv, ContentInv
<1>6. resumed # "header" => mem.dataEnd = offset /\ (complete => hdr.dataEnd <= mem.dataEnd)
  BY <1>0, <1>1 DEF PositionInv
<1>7. PositionInv'
  BY SMTT(40), <1>0, <1>1, <1>2, <1>3, <1>6 DEF PositionInv, Numbers
<1>8. complete /\ resumed # "header" => hdr.dataEnd <= hdr'.dataEnd /\ hdr'.dataEnd \in Int
  BY <1>1, <1>3, <1>6 DEF Numbers
<1>9. ReadersInv'
  <2> SUFFICES ASSUME NEW r \in readers
               PROVE  /\ r.dataEnd >= 0 /\ r.dataEnd <= Len(data)
                      /\ resumed # "header" => r.dataEnd <= hdr'.dataEnd
    BY <1>0 DEF ReadersInv
  <2>1. complete /\ r.dataEnd \in Int
    BY <1>1, HeaderTypes DEF PhaseInv, LWTypes, LWTypeOK
  <2>2. /\ r.dataEnd >= 0 /\ r.dataEnd <= Len(data)
        /\ resumed # "header" => r.dataEnd <= hdr.dataEnd
    BY <1>1 DEF ReadersInv
  <2>3. hdr.dataEnd \in Int
    BY <1>1 DEF Numbers
  <2> QED
    BY <1>8, <2>1, <2>2, <2>3
<1>10. resumed = "no" => /\ offset = Len(Units(entries)) /\ mem.dataEnd = Len(Units(entries))
                         /\ \A i \in 1 .. Len(Units(entries)) : data[i] = Units(entries)[i]
  <2>1. Len(buf) = 0 /\ Len(pending) = 0
    BY <1>0, <1>1 DEF PhaseInv
  <2>2. resumed = "no" => offset + Len(buf) + Len(pending) = Len(Units(entries))
                          /\ \A i \in 1 .. offset : data[i] = Units(entries)[i]
    BY <1>0, <1>1 DEF ContentInv
  <2>3. resumed = "no" => offset = Len(Units(entries))
    BY <1>1, <2>1, <2>2 DEF Numbers
  <2> QED
    BY <1>6, <2>2, <2>3
<1>11. End(entries, Len(entries)) = Len(Units(entries)) /\ Len(entries) \in acked .. Len(entries)
       /\ Len(entries) \in 0 .. Len(entries)
  BY <1>1, EndFacts DEF Numbers, StateTypes
<1>12. CommitInv'
  <2>1. complete /\ resumed = "no" =>
          /\ \E n \in acked .. Len(entries) : hdr'.dataEnd = End(entries, n)
          /\ \A i \in 1 .. hdr'.dataEnd : data[i] = Units(entries)[i]
    <3>1. CASE field = 3
      BY <1>3, <1>10, <1>11, <3>1
    <3>2. CASE field # 3
      BY <1>1, <1>3, <3>2 DEF CommitInv
    <3> QED
      BY <3>1, <3>2
  <2>2. complete /\ resumed # "header" =>
          /\ End(entries, acked) <= hdr'.dataEnd /\ End(entries, acked) <= Len(data)
          /\ \A i \in 1 .. End(entries, acked) : data[i] = Units(entries)[i]
    <3>1. complete /\ resumed # "header" =>
            /\ End(entries, acked) <= hdr.dataEnd /\ End(entries, acked) <= Len(data)
            /\ \A i \in 1 .. End(entries, acked) : data[i] = Units(entries)[i]
      BY <1>1 DEF CommitInv
    <3>2. complete /\ resumed # "header" => End(entries, acked) <= hdr'.dataEnd
      <4>1. complete /\ resumed # "header" => End(entries, acked) <= hdr.dataEnd
        BY <3>1
      <4> QED
        BY <1>1, <1>8, <4>1 DEF Numbers
    <3> QED
      BY <3>1, <3>2
  <2> QED
    BY <1>0, <2>1, <2>2 DEF CommitInv
<1>13. CountInv'
  <2>1. ASSUME complete, resumed = "no", NEW n \in 0 .. Len(entries),
               End(entries, n) = hdr'.dataEnd
        PROVE  hdr'.numPuts >= Puts(entries, n)
    <3>1. mem.numPuts >= Puts(entries, Len(entries))
      BY <1>0, <1>1, <2>1 DEF CountInv
    <3>2. CASE field = 1
      <4>1. Puts(entries, n) <= Puts(entries, Len(entries))
            /\ Puts(entries, n) \in Nat /\ Puts(entries, Len(entries)) \in Nat
        BY SMTT(40), <1>1, <1>11, PutsFacts DEF Numbers, StateTypes
      <4> QED
        BY <1>1, <1>3, <3>1, <3>2, <4>1 DEF Numbers
    <3>3. CASE field = 3
      <4>1. n = Len(entries)
        BY <1>1, <1>3, <1>10, <1>11, <2>1, <3>3, EndFacts DEF StateTypes
      <4>2. hdr'.numPuts = mem.numPuts
        BY <1>0, <1>1, <1>3, <3>3 DEF PositionInv
      <4> QED
        BY <3>1, <4>1, <4>2
    <3>4. CASE field # 1 /\ field # 3
      BY <1>1, <1>3, <2>1, <3>4 DEF CountInv
    <3> QED
      BY <3>2, <3>3, <3>4
  <2> QED
    BY <1>0, <1>1, <2>1 DEF CountInv
<1> QED
  BY <1>4, <1>5, <1>7, <1>9, <1>12, <1>13 DEF LWInv

\* The header is written: the flush returns SPARKEY_SUCCESS.
LEMMA HeaderWrittenStep == LWInv /\ HeaderWritten => LWInv'
<1> SUFFICES ASSUME LWInv, HeaderWritten PROVE LWInv'
  OBVIOUS
<1>0. /\ wstate = "header" /\ wstate' = (IF closing THEN "closed" ELSE "open")
      /\ field > 5 /\ field' = 1 /\ complete'
      /\ acked' = (IF resumed = "no" THEN Len(entries) ELSE acked)
      /\ data' = data /\ hdr' = hdr /\ mem' = mem /\ buf' = buf /\ offset' = offset
      /\ pending' = pending /\ closing' = closing /\ entries' = entries
      /\ lastId' = lastId /\ faults' = faults /\ resumed' = resumed /\ readers' = readers
  BY FieldCount DEF HeaderWritten
<1>1. /\ LWTypes /\ PhaseInv /\ ContentInv /\ CommitInv /\ PositionInv /\ ReadersInv
      /\ CountInv /\ Numbers /\ StateTypes
  BY StateFacts DEF LWInv
<1>2. LWTypes'
  <2>1. acked' \in 0 .. Len(entries) /\ field' \in 1 .. Len(HeaderFields) + 1
        /\ wstate' \in WStates /\ complete' \in BOOLEAN
    BY <1>0, <1>1, FieldCount DEF Numbers, WStates, HeaderWritten
  <2> QED
    BY <1>0, <1>1, <2>1 DEF LWTypes, LWTypeOK
<1>3. PhaseInv'
  BY <1>0, <1>1 DEF PhaseInv
<1>4. ContentInv'
  BY <1>0, <1>1 DEF ContentInv
<1>5. hdr.dataEnd = mem.dataEnd /\ hdr.numPuts = mem.numPuts
      /\ (resumed # "header" => mem.dataEnd = offset)
  <2>1. field > 1 /\ field > 3
    BY <1>0, <1>1 DEF LWTypes, LWTypeOK
  <2> QED
    BY <1>0, <1>1, <2>1 DEF PositionInv
<1>6. PositionInv'
  BY <1>0, <1>1, <1>5 DEF PositionInv, Numbers
<1>7. ReadersInv'
  BY <1>0, <1>1 DEF ReadersInv
<1>8. resumed = "no" => /\ hdr.dataEnd = Len(Units(entries)) /\ offset = Len(Units(entries))
                        /\ \A i \in 1 .. Len(Units(entries)) : data[i] = Units(entries)[i]
  <2>1. Len(buf) = 0 /\ Len(pending) = 0
    BY <1>0, <1>1 DEF PhaseInv
  <2>2. resumed = "no" => offset + Len(buf) + Len(pending) = Len(Units(entries))
                          /\ \A i \in 1 .. offset : data[i] = Units(entries)[i]
    BY <1>0, <1>1 DEF ContentInv
  <2>3. resumed = "no" => offset = Len(Units(entries))
    BY <1>1, <2>1, <2>2 DEF Numbers
  <2> QED
    BY <1>5, <2>2, <2>3
<1>9. End(entries, Len(entries)) = Len(Units(entries)) /\ Len(entries) \in 0 .. Len(entries)
      /\ Len(entries) \in Len(entries) .. Len(entries)
  BY <1>1, EndFacts DEF Numbers, StateTypes
<1>10. CommitInv'
  <2>1. CASE resumed = "no"
    <3>1. End(entries, acked') <= hdr.dataEnd /\ End(entries, acked') <= Len(data)
      BY <1>0, <1>1, <1>8, <1>9, <2>1 DEF Numbers
    <3> QED
      BY <1>0, <1>8, <1>9, <2>1, <3>1 DEF CommitInv
  <2>2. CASE resumed # "no"
    <3>1. complete
      BY <1>1, <2>2 DEF PhaseInv
    <3> QED
      BY <1>0, <1>1, <2>2, <3>1 DEF CommitInv
  <2> QED
    BY <2>1, <2>2
<1>11. CountInv'
  <2>1. ASSUME resumed = "no", NEW n \in 0 .. Len(entries), End(entries, n) = hdr.dataEnd
        PROVE  hdr.numPuts >= Puts(entries, n)
    <3>1. n = Len(entries)
      BY <1>1, <1>8, <1>9, <2>1, EndFacts DEF StateTypes
    <3> QED
      BY <1>0, <1>1, <1>5, <2>1, <3>1 DEF CountInv
  <2> QED
    BY <1>0, <1>1, <2>1 DEF CountInv
<1> QED
  BY <1>2, <1>3, <1>4, <1>6, <1>7, <1>10, <1>11 DEF LWInv

\* The writer is gone: what was not committed is, too.
LEMMA WriterGoneStep ==
  ASSUME LWInv, resumed = "no", WriterGone, faults' \in 0 .. MaxFaults
  PROVE  LWInv'
<1>0. /\ entries' = (IF complete THEN Prefix(entries, Committed) ELSE << >>)
      /\ wstate' = "closed" /\ mem' = EmptyHeader /\ buf' = << >> /\ offset' = 0
      /\ pending' = << >> /\ field' = 1 /\ closing' = FALSE
      /\ data' = data /\ hdr' = hdr /\ complete' = complete /\ acked' = acked
      /\ lastId' = lastId /\ resumed' = resumed /\ readers' = readers
  BY DEF WriterGone, fileVars
<1>1. /\ LWTypes /\ PhaseInv /\ CommitInv /\ PositionInv /\ ReadersInv
      /\ CountInv /\ Numbers /\ StateTypes
  BY StateFacts DEF LWInv
<1>2. << >> \in Seq(LogUnit) /\ << >> \in Seq(LogEntry) /\ Len(<< >>) = 0
  OBVIOUS
<1>3. complete => /\ Committed \in acked .. Len(entries) /\ Committed \in 0 .. Len(entries)
                  /\ End(entries, Committed) = hdr.dataEnd /\ hdr.dataEnd \in Nat
  BY <1>1, CommittedFacts
<1>4. complete =>
        /\ entries' \in Seq(LogEntry) /\ Len(entries') = Committed
        /\ \A n \in 0 .. Committed : /\ End(entries', n) = End(entries, n)
                                     /\ Puts(entries', n) = Puts(entries, n)
        /\ Units(entries') = UnitsTo(entries, Committed)
        /\ \A i \in 1 .. hdr.dataEnd : Units(entries')[i] = Units(entries)[i]
  BY <1>0, <1>1, <1>3, CutFacts DEF StateTypes
<1>5. entries' \in Seq(LogEntry) /\ acked \in 0 .. Len(entries')
  <2>1. CASE complete
    BY <1>1, <1>3, <1>4, <2>1 DEF Numbers
  <2>2. CASE ~complete
    BY <1>0, <1>1, <1>2, <2>2 DEF PhaseInv
  <2> QED
    BY <2>1, <2>2
<1>6. LWTypes'
  <2>1. Len(buf') <= FileBufSize /\ offset' \in InHeader .. Len(data') /\ buf' \in Seq(LogUnit)
        /\ pending' \in Seq(LogUnit)
    <3>1. Len(buf') = 0 /\ offset' = 0 /\ Len(data') = Len(data)
      BY <1>0, <1>2
    <3>2. Len(buf') <= FileBufSize /\ offset' \in InHeader .. Len(data')
      BY <1>1, <3>1 DEF Numbers
    <3> QED
      BY <1>0, <1>2, <3>2
  <2>2. field' \in 1 .. Len(HeaderFields) + 1 /\ wstate' \in WStates /\ closing' \in BOOLEAN
    <3>1. field' = 1 /\ wstate' = "closed"
      BY <1>0
    <3>2. field' \in 1 .. Len(HeaderFields) + 1 /\ wstate' \in WStates
      BY <3>1, FieldCount DEF WStates
    <3>3. closing' \in BOOLEAN
      BY <1>0
    <3> QED
      BY <3>2, <3>3
  <2>3. mem' \in Headers
    BY <1>0, HeaderTypes
  <2>4. acked' \in 0 .. Len(entries') /\ entries' \in Seq(LogEntry)
    BY <1>0, <1>5
  <2>5. data' = data /\ hdr' = hdr /\ complete' = complete
        /\ lastId' = lastId /\ resumed' = resumed /\ readers' = readers
    BY <1>0
  <2> QED
    BY <1>1, <2>1, <2>2, <2>3, <2>4, <2>5 DEF LWTypes, LWTypeOK
<1>7. PhaseInv'
  BY <1>0, <1>1 DEF PhaseInv
<1>8. ContentInv' /\ ReadersInv' /\ PositionInv'
  BY <1>0, <1>1 DEF ContentInv, ReadersInv, PositionInv
<1>9. CommitInv'
  <2>1. CASE complete
    <3>1. hdr.dataEnd = End(entries', Committed) /\ Committed \in acked .. Len(entries')
          /\ hdr.dataEnd = Len(Units(entries'))
      <4>1. Committed \in 0 .. Committed /\ Committed \in acked .. Committed
        BY <1>1, <1>3, <2>1 DEF Numbers
      <4> QED
        BY <1>3, <1>4, <2>1, <4>1 DEF End
    <3>2. \A i \in 1 .. hdr.dataEnd : data[i] = Units(entries')[i]
      BY <1>1, <1>4, <2>1 DEF CommitInv
    <3>3. End(entries', acked) = End(entries, acked)
      <4>1. acked \in 0 .. Committed
        BY <1>1, <1>3, <2>1 DEF Numbers
      <4> QED
        BY <1>4, <2>1, <4>1
    <3>4. End(entries, acked) <= hdr.dataEnd /\ End(entries, acked) <= Len(data)
      BY <1>1, <2>1 DEF CommitInv
    <3>5. \A i \in 1 .. End(entries, acked) : i \in 1 .. hdr.dataEnd
      BY <1>1, <3>4 DEF Numbers
    <3>6. \A i \in 1 .. End(entries, acked) : data[i] = Units(entries')[i]
      BY <3>2, <3>5
    <3> QED
      BY <1>0, <3>1, <3>2, <3>3, <3>4, <3>6 DEF CommitInv
  <2>2. CASE ~complete
    BY <1>0, <2>2 DEF CommitInv
  <2> QED
    BY <2>1, <2>2
<1>10. CountInv'
  <2>1. ASSUME complete, NEW n \in 0 .. Len(entries'), End(entries', n) = hdr.dataEnd
        PROVE  hdr.numPuts >= Puts(entries', n)
    <3>1. n \in 0 .. Committed /\ n \in 0 .. Len(entries)
      BY SMTT(40), <1>1, <1>3, <1>4, <2>1 DEF Numbers
    <3>2. End(entries, n) = hdr.dataEnd /\ Puts(entries', n) = Puts(entries, n)
      BY <1>4, <2>1, <3>1
    <3> QED
      BY <1>1, <2>1, <3>1, <3>2 DEF CountInv
  <2> QED
    BY <1>0, <2>1 DEF CountInv
<1> QED
  BY <1>6, <1>7, <1>8, <1>9, <1>10 DEF LWInv

\* A write fails part way: the call returns an error.
LEMMA PartWrittenStep ==
  ASSUME LWInv, wstate \in {"open", "adding"}, NEW s \in Seq(LogUnit), NEW n \in 0 .. Len(s),
         Len(s) <= FileBufSize, PartWritten(s, n), Fails, pending' = << >>,
         hdr' = hdr, complete' = complete, mem' = mem, field' = field, closing' = closing,
         entries' = entries, acked' = acked, lastId' = lastId, resumed' = resumed,
         readers' = readers
  PROVE  LWInv'
<1>1. /\ LWTypes /\ PhaseInv /\ ContentInv /\ CommitInv /\ PositionInv /\ ReadersInv
      /\ CountInv /\ Numbers /\ StateTypes
  BY StateFacts DEF LWInv
<1>2. complete /\ resumed = "no" /\ offset # InHeader
  BY <1>1 DEF PhaseInv, ContentInv
<1>3. /\ data' = Written(data, offset, Prefix(s, n)) /\ offset' = offset + n /\ buf' = s
      /\ wstate' = "failed" /\ faults' = faults + 1 /\ faults < MaxFaults
  BY DEF PartWritten, Fails
<1>4. Prefix(s, n) \in Seq(LogUnit) /\ Len(Prefix(s, n)) = n
  BY DEF Prefix
<1>5. /\ data' \in Seq(LogUnit) /\ Len(data') \in Nat /\ Len(data') >= offset + n
      /\ hdr.dataEnd <= offset /\ hdr.dataEnd \in InHeader .. Len(data')
      /\ CommitInv' /\ ReadersInv'
  BY <1>2, <1>3, <1>4, WriteBehind
<1>6. LWTypes'
  <2>1. offset' \in InHeader .. Len(data')
    BY <1>1, <1>3, <1>5 DEF Numbers
  <2>2. faults' \in 0 .. MaxFaults
    BY <1>1, <1>3, SizeAssumption DEF LWTypes, LWTypeOK
  <2>3. pending' \in Seq(LogUnit) /\ buf' \in Seq(LogUnit) /\ Len(buf') <= FileBufSize
        /\ wstate' \in WStates
    BY <1>3 DEF WStates
  <2> QED
    BY <1>1, <1>5, <2>1, <2>2, <2>3 DEF LWTypes, LWTypeOK
<1>7. PhaseInv' /\ ContentInv' /\ CountInv'
  BY <1>1, <1>2, <1>3 DEF PhaseInv, ContentInv, CountInv
<1>8. PositionInv'
  <2>1. hdr.dataEnd <= offset + n
    BY SMTT(40), <1>1, <1>5 DEF Numbers
  <2> QED
    BY <1>3, <1>5, <2>1 DEF PositionInv
<1> QED
  BY <1>5, <1>6, <1>7, <1>8 DEF LWInv

\* put, delete or the flush returns the error of a write.
LEMMA WriteFailsStep ==
  ASSUME LWInv, NEW n \in 0 .. FileBufSize - 1, SpillFails(n) \/ FlushFails(n)
  PROVE  LWInv'
<1>1. LWTypes /\ PhaseInv /\ Numbers /\ StateTypes
  BY StateFacts DEF LWInv
<1>2. CASE SpillFails(n)
  <2> DEFINE s == buf \o Prefix(pending, BufRemaining)
  <2>1. s \in Seq(LogUnit) /\ Len(s) = FileBufSize
    <3>1. buf \in Seq(LogUnit) /\ pending \in Seq(LogUnit) /\ BufRemaining \in Nat
          /\ Len(pending) > BufRemaining /\ Len(buf) + BufRemaining = FileBufSize
      BY <1>1, <1>2 DEF Numbers, StateTypes, SpillFails
    <3>2. Prefix(pending, BufRemaining) \in Seq(LogUnit)
          /\ Len(Prefix(pending, BufRemaining)) = BufRemaining
      BY <3>1 DEF Prefix
    <3> QED
      BY <3>1, <3>2
  <2>2. PartWritten(s, n) /\ Fails /\ pending' = << >> /\ wstate \in {"open", "adding"}
        /\ hdr' = hdr /\ complete' = complete /\ mem' = mem /\ field' = field
        /\ closing' = closing /\ entries' = entries /\ acked' = acked /\ lastId' = lastId
        /\ resumed' = resumed /\ readers' = readers
    BY <1>2 DEF SpillFails
  <2> HIDE DEF s
  <2>3. n \in 0 .. Len(s) /\ Len(s) <= FileBufSize
    BY <1>1, <2>1 DEF Numbers
  <2> QED
    BY <2>1, <2>2, <2>3, PartWrittenStep
<1>3. CASE FlushFails(n)
  <2>1. PartWritten(buf, n) /\ Fails /\ pending' = << >> /\ wstate \in {"open", "adding"}
        /\ hdr' = hdr /\ complete' = complete /\ mem' = mem /\ field' = field
        /\ closing' = closing /\ entries' = entries /\ acked' = acked /\ lastId' = lastId
        /\ resumed' = resumed /\ readers' = readers
    BY <1>1, <1>3 DEF FlushFails, PhaseInv
  <2>2. buf \in Seq(LogUnit) /\ n \in 0 .. Len(buf) /\ Len(buf) <= FileBufSize
    BY SMTT(40), <1>1, <1>3 DEF FlushFails, Numbers, StateTypes
  <2> QED
    BY <2>1, <2>2, PartWrittenStep
<1> QED
  BY <1>2, <1>3

\* write_logheader fails.
LEMMA HeaderFailsStep == LWInv /\ HeaderFails => LWInv'
<1> SUFFICES ASSUME LWInv, HeaderFails PROVE LWInv'
  OBVIOUS
<1>0. /\ wstate = "header" /\ wstate' = "failed" /\ resumed = "no"
      /\ offset' = InHeader /\ faults' = faults + 1 /\ faults < MaxFaults
      /\ data' = data /\ hdr' = hdr /\ complete' = complete /\ mem' = mem /\ buf' = buf
      /\ pending' = pending /\ field' = field /\ closing' = closing /\ entries' = entries
      /\ acked' = acked /\ lastId' = lastId /\ resumed' = resumed /\ readers' = readers
  BY DEF HeaderFails, Fails, fileVars
<1>1. /\ LWTypes /\ PhaseInv /\ CommitInv /\ PositionInv /\ ReadersInv
      /\ CountInv /\ Numbers
  BY StateFacts DEF LWInv
<1>2. LWTypes'
  <2>1. offset' \in InHeader .. Len(data)
    BY <1>0, <1>1 DEF Numbers
  <2>2. faults' \in 0 .. MaxFaults
    BY <1>0, <1>1, SizeAssumption DEF LWTypes, LWTypeOK
  <2> QED
    BY <1>0, <1>1, <2>1, <2>2 DEF LWTypes, LWTypeOK, WStates
<1>3. PhaseInv' /\ ContentInv' /\ CountInv'
  BY <1>0, <1>1 DEF PhaseInv, ContentInv, CountInv
<1>4. CommitInv' /\ PositionInv' /\ ReadersInv'
  BY <1>0, <1>1 DEF CommitInv, PositionInv, ReadersInv
<1> QED
  BY <1>2, <1>3, <1>4 DEF LWInv

\* sparkey_logwriter_close on a writer that returned an error.
LEMMA CloseFailedStep == LWInv /\ CloseFailed => LWInv'
<1> SUFFICES ASSUME LWInv, CloseFailed PROVE LWInv'
  OBVIOUS
<1>0. /\ wstate = "failed" /\ wstate' = "header" /\ field' = 1 /\ closing' = TRUE /\ complete
      /\ resumed' = (IF offset = InHeader THEN "header" ELSE "data") /\ buf' = << >>
      /\ hdr' = hdr /\ complete' = complete /\ pending' = pending /\ entries' = entries
      /\ acked' = acked /\ lastId' = lastId /\ faults' = faults /\ readers' = readers
  BY DEF CloseFailed
<1>1. /\ LWTypes /\ PhaseInv /\ CommitInv /\ PositionInv /\ ReadersInv
      /\ CountInv /\ Numbers /\ StateTypes
  BY StateFacts DEF LWInv
<1>2. << >> \in Seq(LogUnit) /\ Len(<< >>) = 0
  OBVIOUS
<1>3. /\ data' \in Seq(LogUnit) /\ mem' \in Headers /\ offset' \in InHeader .. Len(data')
      /\ hdr.dataEnd \in InHeader .. Len(data') /\ mem'.dataEnd \in InHeader .. Len(data')
      /\ resumed' # "header" => hdr.dataEnd <= offset' /\ mem'.dataEnd = offset'
      /\ CommitInv' /\ ReadersInv'
  <2>1. CASE offset = InHeader
    <3>1. data' = data /\ mem' = [mem EXCEPT !.dataEnd = InHeader] /\ offset' = offset
      BY <2>1 DEF CloseFailed
    <3>2. mem' \in Headers /\ mem'.dataEnd = InHeader
      <4>1. InHeader \in Int /\ mem \in Headers
        BY <1>1 DEF Numbers, StateTypes
      <4> QED
        BY <3>1, <4>1, HeaderSet
    <3>3. InHeader \in InHeader .. Len(data)
      BY <1>1 DEF Numbers
    <3>4. CommitInv' /\ ReadersInv'
      BY <1>0, <1>1, <2>1, <3>1 DEF CommitInv, ReadersInv
    <3> QED
      BY <1>0, <1>1, <2>1, <3>1, <3>2, <3>3, <3>4 DEF PositionInv, StateTypes
  <2>2. CASE offset # InHeader
    <3>1. /\ data' = Written(data, offset, buf) /\ offset' = offset + Len(buf)
          /\ mem' = [mem EXCEPT !.dataEnd = offset + Len(buf)]
      BY <2>2 DEF CloseFailed
    <3>2. /\ data' \in Seq(LogUnit) /\ Len(data') \in Nat /\ Len(data') >= offset + Len(buf)
          /\ hdr.dataEnd <= offset /\ hdr.dataEnd \in InHeader .. Len(data')
          /\ CommitInv' /\ ReadersInv'
      BY <1>0, <1>1, <2>2, <3>1, WriteBehind DEF StateTypes
    <3>3. offset + Len(buf) \in Int /\ mem \in Headers
      BY <1>1 DEF Numbers, StateTypes
    <3>4. mem' \in Headers /\ mem'.dataEnd = offset + Len(buf)
      BY <3>1, <3>3, HeaderSet
    <3>5. offset + Len(buf) \in InHeader .. Len(data') /\ hdr.dataEnd <= offset + Len(buf)
      BY SMTT(40), <1>1, <3>2 DEF Numbers
    <3> QED
      BY <3>1, <3>2, <3>4, <3>5
  <2> QED
    BY <2>1, <2>2
<1>4. LWTypes'
  <2>1. Len(buf') <= FileBufSize /\ buf' \in Seq(LogUnit)
    BY <1>0, <1>1, <1>2 DEF Numbers
  <2>2. field' \in 1 .. Len(HeaderFields) + 1 /\ wstate' \in WStates /\ closing' \in BOOLEAN
        /\ resumed' \in {"no", "data", "header"}
    BY <1>0, FieldCount DEF WStates
  <2> QED
    BY <1>0, <1>1, <1>3, <2>1, <2>2 DEF LWTypes, LWTypeOK
<1>5. PhaseInv' /\ ContentInv' /\ CountInv'
  BY <1>0, <1>1 DEF PhaseInv, ContentInv, CountInv
<1>6. PositionInv'
  BY <1>0, <1>3 DEF PositionInv
<1> QED
  BY <1>3, <1>4, <1>5, <1>6 DEF LWInv

\* sparkey_logreader_open and sparkey_logreader_close.
LEMMA ReadersStep ==
  ASSUME LWInv, OpenReader \/ \E r \in readers : CloseReader(r)
  PROVE  LWInv'
<1>0. /\ UNCHANGED <<fileVars, writerVars, ghostVars>>
      /\ \A r \in readers' : r \in readers \/ (r = hdr /\ hdr.dataEnd # InHeader)
      /\ ~complete => readers' \subseteq readers
  BY DEF OpenReader, CloseReader, HeaderLoads
<1>1. /\ LWTypes /\ PhaseInv /\ PositionInv /\ ReadersInv /\ Numbers /\ StateTypes
  BY StateFacts DEF LWInv
<1>2. readers' \subseteq Headers
  BY <1>0, <1>1 DEF LWTypes, LWTypeOK
<1>3. LWTypes'
  BY <1>0, <1>1, <1>2 DEF LWTypes, LWTypeOK, fileVars, writerVars, ghostVars
<1>4. PhaseInv'
  BY <1>0, <1>1 DEF PhaseInv, fileVars, writerVars, ghostVars
<1>5. ReadersInv'
  <2>1. hdr.dataEnd # InHeader => hdr.dataEnd >= 0 /\ hdr.dataEnd <= Len(data)
    BY SMTT(40), <1>1 DEF PositionInv, Numbers
  <2> QED
    BY SMTT(40), <1>0, <1>1, <2>1 DEF ReadersInv, Numbers, fileVars, ghostVars
<1>6. ContentInv' /\ CommitInv' /\ PositionInv' /\ CountInv'
  BY <1>0 DEF LWInv, ContentInv, CommitInv, PositionInv, CountInv,
              fileVars, writerVars, ghostVars
<1> QED
  BY <1>3, <1>4, <1>5, <1>6 DEF LWInv

-----------------------------------------------------------------------------
(***************************************************************************)
(* The theorems.                                                           *)
(***************************************************************************)

\* Every step keeps the invariant.
LEMMA LWStep == LWInv /\ [LWNext]_lwVars => LWInv'
<1> SUFFICES ASSUME LWInv, [LWNext]_lwVars PROVE LWInv'
  OBVIOUS
<1>1. ASSUME NEW s \in PutShapes, StartAdd("put", s.klen, s.vlen) PROVE LWInv'
  BY <1>1, StartAddStep, ShapeAssumption
<1>2. ASSUME NEW n \in DeleteLens, StartAdd("delete", n, 0) PROVE LWInv'
  BY <1>2, StartAddStep, ShapeAssumption
<1>3. CASE Crash
  <2>1. resumed = "no" /\ WriterGone /\ faults' = faults + 1 /\ faults < MaxFaults
    BY <1>3 DEF Crash
  <2>2. faults' \in 0 .. MaxFaults
    BY <2>1, SizeAssumption DEF LWInv, LWTypes, LWTypeOK
  <2> QED
    BY <2>1, <2>2, WriterGoneStep
<1>4. CASE Abandon
  <2>1. resumed = "no" /\ WriterGone
    BY <1>4 DEF Abandon, LWInv, PhaseInv
  <2>2. faults' \in 0 .. MaxFaults
    BY <1>4 DEF Abandon, LWInv, LWTypes, LWTypeOK
  <2> QED
    BY <2>1, <2>2, WriterGoneStep
<1>5. ASSUME NEW c \in BOOLEAN, Flush(c) PROVE LWInv'
  BY <1>5, FlushStep
<1>6. ASSUME NEW n \in 0 .. FileBufSize - 1, SpillFails(n) \/ FlushFails(n) PROVE LWInv'
  BY <1>6, WriteFailsStep
<1>7. CASE OpenReader \/ \E r \in readers : CloseReader(r)
  BY <1>7, ReadersStep
<1>8. CASE UNCHANGED lwVars
  BY <1>8, LWStutter
<1> QED
  BY <1>1, <1>2, <1>3, <1>4, <1>5, <1>6, <1>7, <1>8, CreateStep, ReopenStep, BufAddSpillsStep,
     BufAddFitsStep, WriteHeaderFieldStep, HeaderWrittenStep, HeaderFailsStep, CloseFailedStep
     DEF LWNext

\* The invariant holds for ever, whatever the writer, its crashes, its
\* failing writes and the readers do.
THEOREM LWInductive == LWSpec => []LWInv
<1>1. LWInit => LWInv
  BY LWInitInv
<1>2. LWInv /\ [LWNext]_lwVars => LWInv'
  BY LWStep
<1> QED
  BY <1>1, <1>2, PTL DEF LWSpec

\* The variables of the log writer, its file and its readers have their
\* types: file_buf is never overfull, the position is inside the file.
THEOREM LWTypeCorrect == LWSpec => []LWTypeOK
<1>1. LWInv => LWTypeOK
  BY DEF LWInv, LWTypes
<1> QED
  BY <1>1, LWInductive, PTL

\* At every moment, between the fields of a header write and after any crash
\* or failed write, the data up to data_end are whole entries, the first
\* that sparkey_logwriter_put and _delete were given.
THEOREM CommittedCorrect == LWSpec => []CommittedReadable
<1>1. LWInv => CommittedReadable
  <2> SUFFICES ASSUME LWInv, complete, resumed = "no"
               PROVE  \E n \in 0 .. Len(entries) :
                        Prefix(data, hdr.dataEnd) = Units(Prefix(entries, n))
    BY DEF CommittedReadable
  <2>1. LWTypes /\ CommitInv /\ PositionInv /\ Numbers /\ StateTypes
    BY StateFacts DEF LWInv
  <2> DEFINE c == Committed
             e == hdr.dataEnd
             u == UnitsTo(entries, c)
  <2>2. c \in 0 .. Len(entries) /\ e \in Nat /\ End(entries, c) = e
    BY <2>1, CommittedFacts
  <2> HIDE DEF c
  <2>3. data \in Seq(LogUnit) /\ e <= Len(data)
    BY <2>1, <2>2 DEF PositionInv, StateTypes, Numbers
  <2>4. u \in Seq(LogUnit) /\ Len(u) = e /\ \A i \in 1 .. e : u[i] = Units(entries)[i]
    BY <2>1, <2>2, EndFacts DEF StateTypes, End
  <2>5. \A i \in 1 .. e : data[i] = Units(entries)[i]
    BY <2>1 DEF CommitInv
  <2> HIDE DEF e, u
  <2>6. \A i \in 1 .. e : data[i] = u[i]
    BY <2>4, <2>5
  <2>7. Prefix(data, e) = u
    <3>1. Prefix(data, e) \in Seq(LogUnit) /\ Len(Prefix(data, e)) = e
          /\ \A i \in 1 .. e : Prefix(data, e)[i] = data[i]
      BY <2>2, <2>3 DEF Prefix
    <3> QED
      BY <2>4, <2>6, <3>1
  <2> QED
    BY <2>2, <2>7 DEF e, u, UnitsTo
<1> QED
  BY <1>1, LWInductive, PTL

\* What a successful sparkey_logwriter_flush or _close acknowledged stays in
\* the log, whatever crashes, failing writes and appends follow.
THEOREM FlushedCorrect == LWSpec => []FlushedDurable
<1>1. LWInv => FlushedDurable
  <2> SUFFICES ASSUME LWInv, complete, resumed # "header"
               PROVE  LET durable == Units(Prefix(entries, acked))
                      IN  hdr.dataEnd >= Len(durable) /\ Prefix(data, Len(durable)) = durable
    BY DEF FlushedDurable
  <2>1. LWTypes /\ CommitInv /\ Numbers /\ StateTypes
    BY StateFacts DEF LWInv
  <2> DEFINE e == End(entries, acked)
             u == UnitsTo(entries, acked)
  <2>2. acked \in 0 .. Len(entries) /\ e \in Nat
    BY <2>1 DEF Numbers
  <2>3. /\ data \in Seq(LogUnit) /\ e <= Len(data) /\ hdr.dataEnd >= e
        /\ \A i \in 1 .. e : data[i] = Units(entries)[i]
    BY <2>1 DEF CommitInv, StateTypes, Numbers
  <2>4. u \in Seq(LogUnit) /\ Len(u) = e /\ \A i \in 1 .. e : u[i] = Units(entries)[i]
    BY <2>1, <2>2, EndFacts DEF StateTypes, End
  <2> HIDE DEF e, u
  <2>5. \A i \in 1 .. e : data[i] = u[i]
    BY <2>3, <2>4
  <2>6. Prefix(data, e) = u
    <3>1. Prefix(data, e) \in Seq(LogUnit) /\ Len(Prefix(data, e)) = e
          /\ \A i \in 1 .. e : Prefix(data, e)[i] = data[i]
      BY <2>2, <2>3 DEF Prefix
    <3> QED
      BY <2>4, <2>5, <3>1
  <2>7. hdr.dataEnd >= Len(u) /\ Prefix(data, Len(u)) = u
    BY <2>3, <2>4, <2>6
  <2> QED
    BY <2>7 DEF u, UnitsTo
<1> QED
  BY <1>1, LWInductive, PTL

\* num_puts, from which the capacity of a hash table is computed, covers the
\* PUT entries up to data_end also when the header is half written.
THEOREM CountsCorrect == LWSpec => []CountsCoverData
<1>1. LWInv => CountsCoverData
  <2> SUFFICES ASSUME LWInv, complete, resumed = "no"
               PROVE  hdr.numPuts >= Puts(entries, Committed)
    BY DEF CountsCoverData, Puts
  <2>1. LWTypes /\ CommitInv /\ CountInv
    BY DEF LWInv
  <2> QED
    BY <2>1, CommittedFacts DEF CountInv
<1> QED
  BY <1>1, LWInductive, PTL

\* The data that an open reader looks at never change: the writer only
\* writes behind every data_end it has published.
THEOREM ReaderCorrect == LWSpec => ReaderStable
<1> DEFINE Stable == \A r \in readers : Prefix(data', r.dataEnd) = Prefix(data, r.dataEnd)
<1>1. ASSUME LWInv, NEW s \in Seq(LogUnit), complete, wstate \in {"open", "adding", "failed"},
             offset # InHeader, data' = Written(data, offset, s)
      PROVE  Stable
  <2>1. /\ LWTypes /\ PhaseInv /\ PositionInv /\ ReadersInv /\ Numbers /\ StateTypes
    BY <1>1, StateFacts DEF LWInv
  <2>2. resumed = "no" /\ hdr.dataEnd <= offset
    BY <1>1, <2>1 DEF PhaseInv, PositionInv
  <2>3. offset \in 0 .. Len(data) /\ data \in Seq(LogUnit)
    BY <1>1, <2>1 DEF Numbers, StateTypes
  <2>4. /\ data' \in Seq(LogUnit) /\ Len(data') \in Nat /\ Len(data') >= Len(data)
        /\ \A i \in 1 .. offset : data'[i] = data[i]
    BY <1>1, <2>3, WrittenFacts
  <2> SUFFICES ASSUME NEW r \in readers
               PROVE  Prefix(data', r.dataEnd) = Prefix(data, r.dataEnd)
    OBVIOUS
  <2>5. r.dataEnd \in Int /\ r.dataEnd >= 0 /\ r.dataEnd <= hdr.dataEnd
    BY <2>1, <2>2, HeaderTypes DEF LWTypes, LWTypeOK, ReadersInv
  <2> DEFINE e == r.dataEnd
  <2>6. e \in Nat /\ e <= offset /\ e <= Len(data) /\ e <= Len(data')
    <3>1. Len(data') \in Nat /\ Len(data') >= Len(data)
      BY <2>4
    <3> QED
      BY SMTT(40), <2>1, <2>2, <2>5, <3>1 DEF Numbers
  <2> HIDE DEF e
  <2>7. \A i \in 1 .. e : data'[i] = data[i]
    <3>1. \A i \in 1 .. e : i \in 1 .. offset
      BY <2>3, <2>6
    <3> QED
      BY <2>4, <3>1
  <2>8. /\ Prefix(data, e) \in Seq(LogUnit) /\ Len(Prefix(data, e)) = e
        /\ \A i \in 1 .. e : Prefix(data, e)[i] = data[i]
    BY <2>3, <2>6 DEF Prefix
  <2>9. /\ Prefix(data', e) \in Seq(LogUnit) /\ Len(Prefix(data', e)) = e
        /\ \A i \in 1 .. e : Prefix(data', e)[i] = data'[i]
    BY <2>4, <2>6 DEF Prefix
  <2>10. Prefix(data', e) = Prefix(data, e)
    BY <2>7, <2>8, <2>9
  <2> QED
    BY <2>10 DEF e
<1>2. LWInv /\ [LWNext]_lwVars => [Stable]_lwVars
  <2> SUFFICES ASSUME LWInv, LWNext PROVE Stable
    BY DEF LWNext, lwVars
  <2>1. /\ LWTypes /\ PhaseInv /\ ContentInv /\ Numbers /\ StateTypes
    BY StateFacts DEF LWInv
  <2>2. CASE data' = data
    BY <2>2
  <2>3. CASE Create
    BY <2>1, <2>3 DEF Create, PhaseInv
  <2>4. wstate \in {"open", "adding"} => complete /\ offset # InHeader
    BY <2>1 DEF PhaseInv, ContentInv
  <2>5. wstate = "adding" /\ Len(pending) > BufRemaining =>
          LET s == buf \o Prefix(pending, BufRemaining)
          IN  s \in Seq(LogUnit) /\ Len(s) = FileBufSize
    <3> SUFFICES ASSUME Len(pending) > BufRemaining
                 PROVE  LET s == buf \o Prefix(pending, BufRemaining)
                        IN  s \in Seq(LogUnit) /\ Len(s) = FileBufSize
      OBVIOUS
    <3>1. buf \in Seq(LogUnit) /\ pending \in Seq(LogUnit) /\ BufRemaining \in Nat
          /\ Len(buf) + BufRemaining = FileBufSize
      BY <2>1 DEF Numbers, StateTypes
    <3>2. Prefix(pending, BufRemaining) \in Seq(LogUnit)
          /\ Len(Prefix(pending, BufRemaining)) = BufRemaining
      BY <3>1 DEF Prefix
    <3> QED
      BY <3>1, <3>2
  <2>6. CASE BufAddSpills
    <3>1. wstate = "adding" /\ Len(pending) > BufRemaining
          /\ data' = Written(data, offset, buf \o Prefix(pending, BufRemaining))
      BY <2>6 DEF BufAddSpills
    <3> QED
      BY <1>1, <2>4, <2>5, <3>1
  <2>7. ASSUME NEW c \in BOOLEAN, Flush(c) PROVE Stable
    <3>1. wstate = "open" /\ data' = Written(data, offset, buf)
      BY <2>7 DEF Flush
    <3> QED
      BY <1>1, <2>1, <2>4, <3>1 DEF StateTypes
  <2>8. ASSUME NEW n \in 0 .. FileBufSize - 1, SpillFails(n) PROVE Stable
    <3> DEFINE s == buf \o Prefix(pending, BufRemaining)
    <3>1. wstate = "adding" /\ Len(pending) > BufRemaining
          /\ data' = Written(data, offset, Prefix(s, n))
      BY <2>8 DEF SpillFails, PartWritten
    <3>2. s \in Seq(LogUnit) /\ Len(s) = FileBufSize
      BY <2>5, <3>1
    <3> HIDE DEF s
    <3>3. Prefix(s, n) \in Seq(LogUnit)
      BY <2>1, <3>2 DEF Prefix, Numbers
    <3> QED
      BY <1>1, <2>4, <3>1, <3>3
  <2>9. ASSUME NEW n \in 0 .. FileBufSize - 1, FlushFails(n) PROVE Stable
    <3>1. wstate = "open" /\ n < Len(buf) /\ data' = Written(data, offset, Prefix(buf, n))
      BY <2>9 DEF FlushFails, PartWritten
    <3>2. Prefix(buf, n) \in Seq(LogUnit)
      BY <2>1, <3>1 DEF Prefix, Numbers, StateTypes
    <3> QED
      BY <1>1, <2>4, <3>1, <3>2
  <2>10. CASE CloseFailed
    <3>1. /\ wstate = "failed" /\ complete
          /\ data' = data \/ (offset # InHeader /\ data' = Written(data, offset, buf))
      BY <2>10 DEF CloseFailed
    <3> QED
      BY <1>1, <2>1, <2>2, <3>1 DEF StateTypes
  <2>11. ASSUME NEW type, NEW k, NEW v, StartAdd(type, k, v) PROVE data' = data
    BY <2>11 DEF StartAdd, fileVars
  <2>12. Reopen \/ BufAddFits \/ WriteHeaderField \/ HeaderWritten \/ Crash \/ HeaderFails
         \/ Abandon \/ OpenReader \/ (\E r \in readers : CloseReader(r)) => data' = data
    BY DEF Reopen, BufAddFits, WriteHeaderField, HeaderWritten, Crash, HeaderFails, Abandon,
           WriterGone, OpenReader, CloseReader, fileVars
  <2> HIDE DEF Stable
  <2> QED
    BY <2>2, <2>3, <2>6, <2>7, <2>8, <2>9, <2>10, <2>11, <2>12 DEF LWNext
<1> QED
  BY <1>2, LWInductive, PTL DEF LWSpec, ReaderStable
=============================================================================
