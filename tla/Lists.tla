------------------------------- MODULE Lists -------------------------------
(***************************************************************************)
(* Operations on sequences that the modules share, as recursive functions  *)
(* over the indices, which the proofs can unfold.                          *)
(***************************************************************************)
EXTENDS Naturals, Sequences

\* The sum of a sequence of numbers.
SumOf(s) ==
  LET upto[k \in 0 .. Len(s)] == IF k = 0 THEN 0 ELSE upto[k - 1] + s[k]
  IN upto[Len(s)]

\* s without the members of the set D: the erase-remove idiom.
Without(s, D) ==
  LET kept[k \in 0 .. Len(s)] ==
        IF k = 0 THEN <<>>
        ELSE IF s[k] \in D THEN kept[k - 1] ELSE Append(kept[k - 1], s[k])
  IN kept[Len(s)]
=============================================================================
