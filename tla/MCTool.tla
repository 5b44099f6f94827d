------------------------------- MODULE MCTool -------------------------------
(***************************************************************************)
(* Small instances of Tool: two processes, two pairs of files, and a log   *)
(* with one entry or with a deleted key.                                   *)
(***************************************************************************)
EXTENDS Tool, TLC

CONSTANTS p1, p2, n1, n2, k1, k2

MCProc == {p1, p2}
MCPair == {n1, n2}
MCPut(k, v) == [type |-> "put", key |-> k, value |-> v]
MCDelete(k) == [type |-> "delete", key |-> k, value |-> NoValue]
MCLogs == {<<MCPut(k1, "v1")>>, <<MCPut(k1, "v1"), MCDelete(k1), MCPut(k2, "v1")>>}
MCBlockArgs == {Unset, NoInteger, CompMinBlocksize - 1}
Symmetry == Permutations(MCProc) \cup Permutations(MCPair)
=============================================================================
