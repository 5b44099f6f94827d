---------------------------- MODULE MCIndexFile ----------------------------
(***************************************************************************)
(* Small instances of IndexFile: tables of one and of two slots, so that a *)
(* header can be paired with a table that is longer or shorter.  Readers   *)
(* change nothing that hash_write or another reader sees, so that one of   *)
(* them meets everything that any of several could.                        *)
(***************************************************************************)
EXTENDS IndexFile

CONSTANTS r1

MCReaders == {r1}
=============================================================================
