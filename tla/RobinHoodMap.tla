---------------------------- MODULE RobinHoodMap ----------------------------
(***************************************************************************)
(* The robin hood table implements the abstract index of IndexMap: every   *)
(* iteration of a probe loop is one of its steps or none at all.           *)
(***************************************************************************)
EXTENDS RobinHood

\* The entry that was read last and has not taken effect yet: hash_put
\* still looks for its slot, hash_delete for its key.
Pending == op = "delete" \/ (op = "put" /\ fresh)
AbsorbedLog == IF Pending THEN SubSeq(log, 1, Len(log) - 1) ELSE log

\* What the table stands for in the middle of a loop: the entry that
\* hash_put took out of its slot and carries on is still in the index; the
\* slot that hash_delete is about to overwrite or to clear is not.
Hole == IF op = "shift" THEN {slot} ELSE {}
Carried == IF op = "put" /\ ~fresh THEN {pos} ELSE {}
LivePointers == {table[s].pos : s \in Occupied \ Hole} \cup Carried

\* The entry that hashnext has read and is looking up is not passed yet.
WalkCursor == IF op = "probe" THEN iterPos - 1 ELSE iterPos
AskedKey == IF op = "get" THEN key ELSE NoKey

Map == INSTANCE IndexMap WITH
         log <- AbsorbedLog, live <- LivePointers, open <- published,
         asked <- AskedKey, cursor <- WalkCursor, answer <- result

\* hash_put, hash_delete, the publication of the table, hash_get and
\* hashnext together behave as the abstract index: in each call exactly one
\* loop iteration changes what the table stands for, whatever entries it
\* moves before and after, and lookups and walks answer from that index.
ImplementsMap == Map!MapSpec
=============================================================================
