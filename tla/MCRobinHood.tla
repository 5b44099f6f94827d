---------------------------- MODULE MCRobinHood ----------------------------
(***************************************************************************)
(* A small instance of RobinHood: capacities 1, 3 and 5, hashes that       *)
(* collide in the slot and hashes that are equal for different keys.       *)
(***************************************************************************)
EXTENDS RobinHoodMap, TLC

CONSTANTS a, b, c

MCKey == {a, b, c}
MCHashFns == [MCKey -> {0, 2, 5}]
MCFewHashFns == {[k \in MCKey |-> 2], [k \in MCKey |-> IF k = a THEN 0 ELSE 2]}
MCKeyLen == [k \in MCKey |-> 127]
Symmetry == Permutations(MCKey)
============================================================================
