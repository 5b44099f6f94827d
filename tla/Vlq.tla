-------------------------------- MODULE Vlq --------------------------------
(***************************************************************************)
(* Variable length quantities, in which the log keeps lengths: seven bits  *)
(* of the number in a byte, low ones first, with 128 added to every byte   *)
(* that another one follows (write_vlq of logwriter.c, read_vlq of         *)
(* logreader.c).                                                           *)
(***************************************************************************)
EXTENDS Integers, Sequences

\* The prover does not compute powers; these are the ones it needs.
ASSUME PowersOfTwo ==
  2^7 = 128 /\ 2^14 = 128 * 2^7 /\ 2^21 = 128 * 2^14 /\ 2^28 = 128 * 2^21

WriteVlq[n \in Nat] ==
  IF n < 2^7 THEN <<n>> ELSE <<(n % 2^7) + 2^7>> \o WriteVlq[n \div 2^7]

\* The number that begins at a position, and the position behind it.
ReadVlq(bytes, position) ==
  LET last == CHOOSE k \in position .. Len(bytes) :
                bytes[k] < 2^7 /\ \A j \in position .. k - 1 : bytes[j] >= 2^7
      Res[k \in position .. last] ==
        (bytes[k] % 2^7) + IF k = last THEN 0 ELSE 2^7 * Res[k + 1]
  IN  [value |-> Res[position], position |-> last + 1]

\* The two lengths that log_add writes at the start of an entry are those
\* that sparkey_logiter_next reads, around every change of their size.
VlqEdges == {0, 1} \cup UNION {2^(7 * k) - 1 .. 2^(7 * k) + 1 : k \in 1 .. 4}
ASSUME VlqRoundTrip ==
  \A m, n \in VlqEdges :
    LET bytes == WriteVlq[m] \o WriteVlq[n]
        first == ReadVlq(bytes, 1)
    IN  /\ first.value = m
        /\ ReadVlq(bytes, first.position) = [value |-> n, position |-> Len(bytes) + 1]
=============================================================================
