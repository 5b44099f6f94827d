---------------------------- MODULE MCLogWriter ----------------------------
(***************************************************************************)
(* Small instances of LogWriter: entries of two to five units, a file      *)
(* buffer that most entries do not fit.                                    *)
(***************************************************************************)
EXTENDS LogWriter

MCPutShapes == {[klen |-> 1, vlen |-> 0], [klen |-> 1, vlen |-> 2]}
MCEmptyKey == {[klen |-> 0, vlen |-> 0]}
=============================================================================
