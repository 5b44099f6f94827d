-------------------------- MODULE LogFormatProofs --------------------------
(***************************************************************************)
(* Facts about the units of a log, for entries of any lengths: what an     *)
(* entry adds, and that the units of the first entries are the first       *)
(* units.                                                                  *)
(***************************************************************************)
EXTENDS LogFormat, WellFoundedInduction, TLAPS

LogUnit == Nat \X Nat
LogEntry == [id : Nat, type : {"put", "delete"}, klen : Nat, vlen : Nat]

\* Induction over the natural numbers, for a set instead of a predicate.
LEMMA SetInduction ==
  ASSUME NEW S, 0 \in S, \A n \in Nat : n \in S => n + 1 \in S
  PROVE  Nat \subseteq S
<1> DEFINE R == {ss \in Nat \X Nat : ss[1] < ss[2]}
           T == Nat \ S
<1>1. IsWellFoundedOn(R, Nat)
  BY NatLessThanWellFounded DEF OpToRel
<1> SUFFICES ASSUME T # {} PROVE FALSE
  OBVIOUS
<1>2. PICK x \in T : \A y \in T : ~(<<y, x>> \in R)
  <2> HIDE DEF R, T
  <2>1. T \subseteq Nat
    BY DEF T
  <2> QED
    BY <1>1, <2>1, WFMin
<1>3. x \in Nat /\ x # 0 /\ x - 1 \in Nat
  OBVIOUS
<1>4. x - 1 \in T
  BY <1>3
<1>5. <<x - 1, x>> \in R
  BY <1>3
<1> QED
  BY <1>2, <1>4, <1>5

(***************************************************************************)
(* FlattenSeq: the function it is defined by, on the first n sequences.    *)
(***************************************************************************)
IsFlat(f, ss, n) == f = [i \in 1 .. n |-> IF i = 1 THEN ss[i] ELSE f[i - 1] \o ss[i]]

\* That function exists.
LEMMA FlatExists ==
  ASSUME NEW ss, NEW n \in Nat
  PROVE  \E f : IsFlat(f, ss, n)
<1> DEFINE S == {m \in Nat : \E f : IsFlat(f, ss, m)}
<1>1. 0 \in S
  <2>1. IsFlat([i \in 1 .. 0 |-> ss], ss, 0)
    BY DEF IsFlat
  <2> QED
    BY <2>1
<1>2. ASSUME NEW m \in Nat, m \in S PROVE m + 1 \in S
  <2>1. PICK f : IsFlat(f, ss, m)
    BY <1>2
  <2> DEFINE g == [i \in 1 .. m + 1 |->
                     IF i = m + 1 THEN (IF i = 1 THEN ss[i] ELSE f[i - 1] \o ss[i]) ELSE f[i]]
  <2>2. ASSUME NEW i \in 1 .. m + 1
        PROVE  g[i] = IF i = 1 THEN ss[i] ELSE g[i - 1] \o ss[i]
    <3>1. CASE i = m + 1
      <4>1. i # 1 => g[i - 1] = f[i - 1]
        BY <3>1
      <4> QED
        BY <3>1, <4>1
    <3>2. CASE i # m + 1
      <4>1. i \in 1 .. m /\ (i # 1 => i - 1 \in 1 .. m)
        BY <3>2
      <4>2. f[i] = IF i = 1 THEN ss[i] ELSE f[i - 1] \o ss[i]
        BY <2>1, <4>1 DEF IsFlat
      <4>3. g[i] = f[i] /\ (i # 1 => g[i - 1] = f[i - 1])
        BY <3>2, <4>1
      <4> HIDE DEF g
      <4> QED
        BY <4>2, <4>3
    <3> QED
      BY <3>1, <3>2
  <2>3. g = [i \in 1 .. m + 1 |-> g[i]]
    OBVIOUS
  <2> HIDE DEF g
  <2>4. IsFlat(g, ss, m + 1)
    BY <2>2, <2>3 DEF IsFlat
  <2> QED
    BY <2>4
<1> HIDE DEF S
<1>3. Nat \subseteq S
  BY <1>1, <1>2, SetInduction
<1> QED
  BY <1>3 DEF S

\* Its values are sequences, and determined by the sequences up to there.
LEMMA FlatUnique ==
  ASSUME NEW T, NEW ss \in Seq(Seq(T)), NEW tt \in Seq(Seq(T)),
         NEW k \in Nat, k = Len(ss), k <= Len(tt), \A i \in 1 .. k : ss[i] = tt[i],
         NEW f, NEW g, IsFlat(f, ss, k), IsFlat(g, tt, k + 1)
  PROVE  \A i \in 1 .. k : f[i] = g[i] /\ f[i] \in Seq(T)
<1> DEFINE S == {j \in Nat : j \in 1 .. k => f[j] = g[j] /\ f[j] \in Seq(T)}
<1>1. 0 \in S
  OBVIOUS
<1>2. ASSUME NEW j \in Nat, j \in S PROVE j + 1 \in S
  <2> SUFFICES ASSUME j + 1 \in 1 .. k PROVE f[j + 1] = g[j + 1] /\ f[j + 1] \in Seq(T)
    OBVIOUS
  <2>1. /\ f[j + 1] = IF j + 1 = 1 THEN ss[j + 1] ELSE f[j] \o ss[j + 1]
        /\ g[j + 1] = IF j + 1 = 1 THEN tt[j + 1] ELSE g[j] \o tt[j + 1]
    <3>1. j + 1 \in 1 .. k /\ j + 1 \in 1 .. k + 1 /\ (j + 1) - 1 = j
      OBVIOUS
    <3> QED
      BY ZenonT(60), <3>1 DEF IsFlat
  <2>2. ss[j + 1] = tt[j + 1] /\ ss[j + 1] \in Seq(T)
    <3>1. j + 1 \in 1 .. Len(ss)
      OBVIOUS
    <3> QED
      BY <3>1
  <2>3. CASE j = 0
    BY <2>1, <2>2, <2>3
  <2>4. CASE j # 0
    <3>1. f[j] = g[j] /\ f[j] \in Seq(T)
      BY <1>2, <2>4
    <3> QED
      BY <2>1, <2>2, <2>4, <3>1
  <2> QED
    BY <2>3, <2>4
<1> HIDE DEF S
<1>3. Nat \subseteq S
  BY <1>1, <1>2, SetInduction
<1> QED
  BY <1>3 DEF S

\* FlattenSeq is that function's last value.
LEMMA FlattenFlat ==
  ASSUME NEW ss, Len(ss) \in Nat, Len(ss) # 0
  PROVE  \E f : IsFlat(f, ss, Len(ss)) /\ FlattenSeq(ss) = f[Len(ss)]
<1> DEFINE f == CHOOSE g : IsFlat(g, ss, Len(ss))
<1>1. IsFlat(f, ss, Len(ss))
  BY FlatExists
<1>2. FlattenSeq(ss) = f[Len(ss)]
  BY DEF FlattenSeq, IsFlat
<1> QED
  BY <1>1, <1>2

(***************************************************************************)
(* The units of entries.                                                   *)
(***************************************************************************)

\* Every entry has its two lengths at least.
LEMMA EntryUnitsType ==
  ASSUME NEW e \in LogEntry
  PROVE  /\ EntryUnits(e) \in Seq(LogUnit)
         /\ Len(EntryUnits(e)) = Prelude + e.klen + e.vlen
         /\ Len(EntryUnits(e)) >= 2
<1> DEFINE n == Prelude + e.klen + e.vlen
<1>1. n \in Nat /\ n >= 2 /\ e.id \in Nat
  BY DEF LogEntry, Prelude
<1>2. EntryUnits(e) = [i \in 1 .. n |-> <<e.id, i>>]
  BY DEF EntryUnits
<1> HIDE DEF n
<1>3. \A i \in 1 .. n : <<e.id, i>> \in LogUnit
  BY <1>1 DEF LogUnit
<1>4. [i \in 1 .. n |-> <<e.id, i>>] \in [1 .. n -> LogUnit]
  BY <1>3
<1>5. EntryUnits(e) \in Seq(LogUnit) /\ Len(EntryUnits(e)) = n
  BY <1>1, <1>2, <1>4
<1> QED
  BY <1>1, <1>5 DEF n

\* No entries, no units; an entry adds its own behind those that are there.
LEMMA UnitsAppend ==
  ASSUME NEW es \in Seq(LogEntry), NEW e \in LogEntry
  PROVE  /\ Units(<< >>) = << >>
         /\ Units(es) \in Seq(LogUnit)
         /\ Units(Append(es, e)) = Units(es) \o EntryUnits(e)
<1> DEFINE T(s) == [i \in DOMAIN s |-> EntryUnits(s[i])]
           n == Len(es)
           fs == Append(es, e)
<1>1. /\ n \in Nat /\ DOMAIN es = 1 .. n /\ fs \in Seq(LogEntry) /\ Len(fs) = n + 1
      /\ DOMAIN fs = 1 .. n + 1 /\ fs[n + 1] = e
      /\ \A i \in 1 .. n : fs[i] = es[i] /\ es[i] \in LogEntry
  OBVIOUS
<1>2. Units(<< >>) = << >>
  <2>1. T(<< >>) = << >>
    OBVIOUS
  <2>2. FlattenSeq(<< >>) = << >>
    BY DEF FlattenSeq
  <2> QED
    BY <2>1, <2>2 DEF Units
<1> HIDE DEF fs, n
<1>3. ASSUME NEW s \in Seq(LogEntry)
      PROVE  T(s) \in Seq(Seq(LogUnit)) /\ Len(T(s)) = Len(s)
             /\ \A i \in 1 .. Len(s) : T(s)[i] = EntryUnits(s[i])
  <2>1. DOMAIN s = 1 .. Len(s) /\ Len(s) \in Nat /\ \A i \in 1 .. Len(s) : s[i] \in LogEntry
    OBVIOUS
  <2>2. \A i \in 1 .. Len(s) : EntryUnits(s[i]) \in Seq(LogUnit)
    BY <2>1, EntryUnitsType
  <2>3. T(s) \in [1 .. Len(s) -> Seq(LogUnit)]
    BY <2>1, <2>2
  <2> QED
    BY <2>1, <2>3
<1>4. /\ T(es) \in Seq(Seq(LogUnit)) /\ Len(T(es)) = n
      /\ \A i \in 1 .. n : T(es)[i] = EntryUnits(es[i])
      /\ T(fs) \in Seq(Seq(LogUnit)) /\ Len(T(fs)) = n + 1
      /\ \A i \in 1 .. n + 1 : T(fs)[i] = EntryUnits(fs[i])
  BY <1>1, <1>3 DEF n
<1>5. Units(es) = FlattenSeq(T(es)) /\ Units(fs) = FlattenSeq(T(fs))
  BY DEF Units
<1>6. T(fs)[n + 1] = EntryUnits(e) /\ \A i \in 1 .. n : T(fs)[i] = T(es)[i]
  BY <1>1, <1>4
<1> DEFINE ss == T(es)
           tt == T(fs)
<1> HIDE DEF T, ss, tt
<1>7. PICK g : IsFlat(g, tt, n + 1) /\ FlattenSeq(tt) = g[n + 1]
  <2>1. Len(tt) \in Nat /\ Len(tt) # 0 /\ Len(tt) = n + 1
    BY <1>1, <1>4 DEF tt
  <2> QED
    BY <2>1, FlattenFlat
<1>8. g[n + 1] = IF n = 0 THEN EntryUnits(e) ELSE g[n] \o EntryUnits(e)
  <2>1. n + 1 \in 1 .. n + 1 /\ (n + 1) - 1 = n /\ (n + 1 = 1 <=> n = 0)
    BY <1>1
  <2>2. g[n + 1] = IF n + 1 = 1 THEN tt[n + 1] ELSE g[(n + 1) - 1] \o tt[n + 1]
    BY <1>7, <2>1 DEF IsFlat
  <2> QED
    BY <1>6, <2>1, <2>2 DEF tt
<1>9. CASE n = 0
  <2>1. es = << >>
    BY <1>9 DEF n
  <2>2. Units(es) = << >>
    BY <1>2, <2>1
  <2>3. << >> \o EntryUnits(e) = EntryUnits(e)
    BY EntryUnitsType
  <2> QED
    BY <1>2, <1>5, <1>7, <1>8, <1>9, <2>2, <2>3 DEF fs, tt
<1>10. CASE n # 0
  <2>1. PICK f : IsFlat(f, ss, n) /\ FlattenSeq(ss) = f[n]
    BY <1>1, <1>4, <1>10, FlattenFlat DEF ss
  <2>2. \A i \in 1 .. n : f[i] = g[i] /\ f[i] \in Seq(LogUnit)
    <3>1. /\ ss \in Seq(Seq(LogUnit)) /\ tt \in Seq(Seq(LogUnit))
          /\ n = Len(ss) /\ n <= Len(tt)
          /\ \A i \in 1 .. n : ss[i] = tt[i]
      BY <1>1, <1>4, <1>6 DEF ss, tt
    <3>2. n \in Nat /\ IsFlat(f, ss, n) /\ IsFlat(g, tt, n + 1)
      BY <1>1, <1>7, <2>1
    <3> QED
      BY <3>1, <3>2, FlatUnique
  <2>3. f[n] = g[n] /\ f[n] \in Seq(LogUnit)
    BY <1>1, <1>10, <2>2
  <2>4. Units(es) = f[n] /\ Units(fs) = g[n + 1]
    BY <1>5, <1>7, <2>1 DEF ss, tt
  <2> QED
    BY <1>2, <1>8, <1>10, <2>3, <2>4 DEF fs
<1> QED
  BY <1>9, <1>10

\* The first n entries, and the units they make.
UnitsTo(es, n) == Units(Prefix(es, n))

\* One entry more.
LEMMA UnitsNext ==
  ASSUME NEW es \in Seq(LogEntry), NEW n \in Nat, n + 1 \in 1 .. Len(es)
  PROVE  /\ UnitsTo(es, n + 1) = UnitsTo(es, n) \o EntryUnits(es[n + 1])
         /\ UnitsTo(es, n) \in Seq(LogUnit)
         /\ Len(UnitsTo(es, n + 1)) >= Len(UnitsTo(es, n)) + 2
         /\ \A i \in 1 .. Len(UnitsTo(es, n)) : UnitsTo(es, n + 1)[i] = UnitsTo(es, n)[i]
<1>1. Prefix(es, n) \in Seq(LogEntry) /\ es[n + 1] \in LogEntry
  BY DEF Prefix
<1>2. Prefix(es, n + 1) = Append(Prefix(es, n), es[n + 1])
  BY DEF Prefix
<1>3. /\ UnitsTo(es, n + 1) = UnitsTo(es, n) \o EntryUnits(es[n + 1])
      /\ UnitsTo(es, n) \in Seq(LogUnit)
  BY <1>1, <1>2, UnitsAppend DEF UnitsTo
<1>4. EntryUnits(es[n + 1]) \in Seq(LogUnit) /\ Len(EntryUnits(es[n + 1])) >= 2
  BY <1>1, EntryUnitsType
<1> DEFINE u == UnitsTo(es, n)
           v == EntryUnits(es[n + 1])
<1> HIDE DEF u, v
<1>5. ASSUME u \in Seq(LogUnit), v \in Seq(LogUnit), Len(v) >= 2
      PROVE  Len(u \o v) >= Len(u) + 2 /\ \A i \in 1 .. Len(u) : (u \o v)[i] = u[i]
  BY <1>5
<1> QED
  BY <1>3, <1>4, <1>5 DEF u, v

\* The units of the first m entries begin those of the first n, and are
\* fewer if m is.
LEMMA UnitsGrow ==
  ASSUME NEW es \in Seq(LogEntry), NEW m \in Nat, NEW n \in Nat, m <= n, n <= Len(es)
  PROVE  /\ UnitsTo(es, n) \in Seq(LogUnit)
         /\ Len(UnitsTo(es, m)) <= Len(UnitsTo(es, n))
         /\ m < n => Len(UnitsTo(es, m)) < Len(UnitsTo(es, n))
         /\ \A i \in 1 .. Len(UnitsTo(es, m)) : UnitsTo(es, n)[i] = UnitsTo(es, m)[i]
<1> DEFINE U(j) == UnitsTo(es, j)
           S == {j \in Nat : m + j <= Len(es) =>
                   /\ U(m + j) \in Seq(LogUnit)
                   /\ Len(U(m)) <= Len(U(m + j))
                   /\ 0 < j => Len(U(m)) < Len(U(m + j))
                   /\ \A i \in 1 .. Len(U(m)) : U(m + j)[i] = U(m)[i]}
<1>0. \A j \in 0 .. Len(es) : U(j) \in Seq(LogUnit)
  <2> SUFFICES ASSUME NEW j \in 0 .. Len(es) PROVE U(j) \in Seq(LogUnit)
    OBVIOUS
  <2>1. Prefix(es, j) \in Seq(LogEntry)
    BY DEF Prefix
  <2>2. [id |-> 0, type |-> "put", klen |-> 0, vlen |-> 0] \in LogEntry
    BY DEF LogEntry
  <2> QED
    BY <2>1, <2>2, UnitsAppend DEF UnitsTo
<1> HIDE DEF U
<1>1. 0 \in S
  <2>1. m + 0 = m /\ m \in 0 .. Len(es)
    OBVIOUS
  <2>2. U(m) \in Seq(LogUnit)
    BY <1>0, <2>1
  <2>3. Len(U(m)) <= Len(U(m))
    BY <2>2
  <2> QED
    BY <2>1, <2>2, <2>3
<1>2. ASSUME NEW j \in Nat, j \in S PROVE j + 1 \in S
  <2> SUFFICES ASSUME m + (j + 1) <= Len(es)
               PROVE  /\ U(m + (j + 1)) \in Seq(LogUnit)
                      /\ Len(U(m)) <= Len(U(m + (j + 1)))
                      /\ 0 < j + 1 => Len(U(m)) < Len(U(m + (j + 1)))
                      /\ \A i \in 1 .. Len(U(m)) : U(m + (j + 1))[i] = U(m)[i]
    OBVIOUS
  <2> DEFINE k == m + j
  <2>1. /\ k \in Nat /\ k + 1 \in 1 .. Len(es) /\ m + (j + 1) = k + 1 /\ k <= Len(es)
        /\ k \in 0 .. Len(es) /\ k + 1 \in 0 .. Len(es) /\ m \in 0 .. Len(es)
    OBVIOUS
  <2>2. /\ U(k) \in Seq(LogUnit) /\ Len(U(m)) <= Len(U(k))
        /\ \A i \in 1 .. Len(U(m)) : U(k)[i] = U(m)[i]
    BY <1>2, <2>1
  <2> HIDE DEF k
  <2>3. /\ Len(U(k + 1)) >= Len(U(k)) + 2
        /\ \A i \in 1 .. Len(U(k)) : U(k + 1)[i] = U(k)[i]
    BY <2>1, UnitsNext DEF U
  <2>4. U(k + 1) \in Seq(LogUnit) /\ U(m) \in Seq(LogUnit)
    BY <1>0, <2>1
  <2>5. Len(U(k + 1)) \in Nat /\ Len(U(k)) \in Nat /\ Len(U(m)) \in Nat
    BY <2>2, <2>4
  <2>6. \A i \in 1 .. Len(U(m)) : i \in 1 .. Len(U(k))
    BY <2>2, <2>5
  <2> QED
    BY <2>1, <2>2, <2>3, <2>4, <2>5, <2>6
<1> HIDE DEF S
<1>3. Nat \subseteq S
  BY <1>1, <1>2, SetInduction
<1>4. n - m \in Nat /\ m + (n - m) = n /\ (0 < n - m <=> m < n)
  OBVIOUS
<1> QED
  BY <1>3, <1>4 DEF S, U
=============================================================================
