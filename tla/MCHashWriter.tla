---------------------------- MODULE MCHashWriter ----------------------------
(***************************************************************************)
(* Small instances of HashWriter: two keys that collide in every table.    *)
(***************************************************************************)
EXTENDS HashWriter

CONSTANTS a, b

MCKey == {a, b}
MCOneHashFn == {[k \in MCKey |-> 2]}
MCKeyLen == [k \in MCKey |-> 127]

\* The two keys are interchangeable, and nothing depends on them before the
\* first entry: that one has the key a.  (Symmetry sets and liveness do not
\* go together.)
MCFirstKey == log # << >> => log[1].key = a
=============================================================================
