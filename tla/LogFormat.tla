----------------------------- MODULE LogFormat -----------------------------
(***************************************************************************)
(* What log_add makes of an entry.  An entry is a record                   *)
(* [id, type, klen, vlen]; a unit of the log is <<entry id, number>> and   *)
(* stands for a byte.  The first two units are the VLQ lengths (one byte   *)
(* each for the lengths the models use), then come the key and the value:  *)
(* a PUT is <<klen + 1, vlen, key, value>>, a DELETE <<0, klen, key>>.     *)
(***************************************************************************)
EXTENDS Integers, Sequences, SequencesExt

Prelude == 2  \* units of the two lengths

EntryUnits(e) == [i \in 1 .. Prelude + e.klen + e.vlen |-> <<e.id, i>>]
Units(es) == FlattenSeq([i \in DOMAIN es |-> EntryUnits(es[i])])
Prefix(s, n) == SubSeq(s, 1, n)
=============================================================================
