------------------------------ MODULE IndexMap ------------------------------
(***************************************************************************)
(* What a hash index promises, without a table: it absorbs the entries of  *)
(* a log in their order, keeps the position of the newest PUT of every key *)
(* that was not deleted since, is made public once, and from then on       *)
(* answers lookups of keys and walks over its live entries.                *)
(***************************************************************************)
EXTENDS Naturals, Sequences

CONSTANTS Key,      \* the keys
          NoKey,    \* nobody asks
          Entry     \* the log entries: records with a type and a key

VARIABLES
  log,     \* the entries absorbed so far
  live,    \* the positions in log of the live entries
  open,    \* readers see the index
  asked,   \* the key of the lookup that is under way
  cursor,  \* the walk has passed the entries 1 .. cursor
  answer   \* the position last returned, 0 for none

mapVars == <<log, live, open, asked, cursor, answer>>

MapInit == /\ log = << >> /\ live = {} /\ open = FALSE
           /\ asked = NoKey /\ cursor = 0 /\ answer = 0

\* A PUT replaces the key's entry, a DELETE removes it.
Absorb(e) ==
  /\ ~open
  /\ log' = Append(log, e)
  /\ live' = {p \in live : log[p].key # e.key}
               \cup IF e.type = "put" THEN {Len(log) + 1} ELSE {}
  /\ UNCHANGED <<open, asked, cursor, answer>>

Open == /\ ~open /\ open' = TRUE
        /\ UNCHANGED <<log, live, asked, cursor, answer>>

Ask(k) == /\ open /\ asked = NoKey /\ asked' = k
          /\ UNCHANGED <<log, live, open, cursor, answer>>

\* The lookup returns the live entry of the key, or nothing if it has none.
Tell ==
  /\ asked # NoKey
  /\ \/ answer' \in live /\ log[answer'].key = asked
     \/ answer' = 0 /\ \A p \in live : log[p].key # asked
  /\ asked' = NoKey
  /\ UNCHANGED <<log, live, open, cursor>>

\* The walk stops at the live entries, passes the others and ends once.
WalkStops == /\ cursor + 1 \in live
             /\ answer' = cursor + 1
WalkPasses == /\ cursor < Len(log) /\ cursor + 1 \notin live
              /\ UNCHANGED answer
WalkEnds == cursor = Len(log) /\ answer' = 0
WalkOn == /\ open /\ asked = NoKey
          /\ WalkStops \/ WalkPasses \/ WalkEnds
          /\ cursor' = cursor + 1
          /\ UNCHANGED <<log, live, open, asked>>

MapNext == \/ \E e \in Entry : Absorb(e)
           \/ Open
           \/ \E k \in Key : Ask(k)
           \/ Tell
           \/ WalkOn

MapSpec == MapInit /\ [][MapNext]_mapVars
=============================================================================
