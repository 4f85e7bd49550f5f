------------------------------ MODULE ByteSet ------------------------------
(***************************************************************************)
(* What a reception tracker promises: it remembers the set of bytes that   *)
(* were received, whatever the order and overlap of the ranges reported to *)
(* it.                                                                     *)
(***************************************************************************)
EXTENDS Naturals

CONSTANT Limit      \* offsets are below Limit
VARIABLE received   \* the offsets received so far

BInit == received = {}

Receive(o, l) == received' = received \cup (o .. o + l - 1)

Forget == received' = {}

BNext == \/ \E o \in 0 .. Limit - 1 : \E l \in 0 .. Limit - o : Receive(o, l)
         \/ Forget

BSpec == BInit /\ [][BNext]_received
=============================================================================
