----------------------------- MODULE Intervals -----------------------------
(***************************************************************************)
(* Byte ranges as the LTP code writes them, [offset, length], and the      *)
(* canonical list of ranges that stands for a set of offsets.              *)
(***************************************************************************)
EXTENDS Naturals, SequencesExt

Claim(o, l) == [offset |-> o, length |-> l]
End(r) == r.offset + r.length

\* The bytes of a list of ranges.
Bytes(claims) == UNION {r.offset .. End(r) - 1 : r \in ToSet(claims)}

\* The maximal runs of consecutive offsets of a finite set, in ascending order.
MaximalRanges(S) ==
  LET Starts == {x \in S : x = 0 \/ x - 1 \notin S}
      Nth(i) == CHOOSE x \in Starts : Cardinality({y \in Starts : y < x}) = i - 1
      Stop(x) == Min({z \in S : z >= x /\ z + 1 \notin S}) + 1
  IN [i \in 1 .. Cardinality(Starts) |-> Claim(Nth(i), Stop(Nth(i)) - Nth(i))]
=============================================================================
