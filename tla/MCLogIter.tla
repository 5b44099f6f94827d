----------------------------- MODULE MCLogIter -----------------------------
(***************************************************************************)
(* Small instances of LogIter: entries that share a block, that fill one   *)
(* exactly, and that span two or three; keys that are a prefix of another, *)
(* and keys that differ in the byte that the next block begins with.       *)
(***************************************************************************)
EXTENDS LogIter

MCShapes == {[type |-> "put", key |-> << >>, klen |-> 0, vlen |-> 0],
             [type |-> "put", key |-> <<1>>, klen |-> 1, vlen |-> 2],
             [type |-> "put", key |-> <<1, 1, 1, 1, 1>>, klen |-> 5, vlen |-> 3],
             [type |-> "delete", key |-> <<1, 1, 1, 2, 1>>, klen |-> 5, vlen |-> 0]}
=============================================================================
