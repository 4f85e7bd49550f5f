----------------------------- MODULE MCLtpLink -----------------------------
(* Instances of the link for TLC: what the applications send. *)
EXTENDS LtpLink

CONSTANTS left, right,   \* engines
          p, q           \* bytes

TwoBytes == {<<p, q>>}
ShortBlocks == {<<>>, <<p, q>>}
OneBlock == (left :> 1) @@ (right :> 0)
BothWays == (left :> 1) @@ (right :> 1)
=============================================================================
