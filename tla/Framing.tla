------------------------------ MODULE Framing ------------------------------
(***************************************************************************)
(* The length-prefixed stream of convergence_layer_adapter.cpp, which the  *)
(* adapter, the ingress and the egress use.  A message is a sequence of    *)
(* bytes; its frame starts with its length as PrefixLen big-endian bytes.  *)
(* The code has Base = 256 and PrefixLen = 4; its sums of lengths are      *)
(* uint32_t, modulo Base to the power of PrefixLen.                        *)
(***************************************************************************)
EXTENDS Naturals, Sequences

CONSTANTS Base, PrefixLen

ASSUME FramingAssumption == Base \in Nat \ {0, 1} /\ PrefixLen \in Nat \ {0}

Byte == 0 .. (Base - 1)

\* Base to the power of n, and 2^32.
Power(n) == LET p[k \in 0 .. n] == IF k = 0 THEN 1 ELSE p[k - 1] * Base IN p[n]
Wrap == Power(PrefixLen)

Prefix(len) == [i \in 1 .. PrefixLen |-> (len \div Power(PrefixLen - i)) % Base]
frame_message(data) == Prefix(Len(data)) \o data

\* The length that the first bytes of the buffer spell.
PrefixValue(buffer) ==
  LET upto[i \in 0 .. PrefixLen] ==
        IF i = 0 THEN 0 ELSE upto[i - 1] * Base + buffer[i]
  IN upto[PrefixLen]

\* extract_framed_message: whether it returns true, what it returns, what it leaves.
HasMessage(buffer) ==
  /\ Len(buffer) >= PrefixLen
  /\ Len(buffer) >= (PrefixLen + PrefixValue(buffer)) % Wrap
FirstMessage(buffer) == SubSeq(buffer, PrefixLen + 1, PrefixLen + PrefixValue(buffer))
AfterMessage(buffer) == SubSeq(buffer, PrefixLen + PrefixValue(buffer) + 1, Len(buffer))

\* What repeated extraction finds in a stream, and what it leaves.  Each
\* message takes at least one byte, so as many rounds as there are bytes are enough.
Extracted(stream) ==
  LET round[k \in 0 .. Len(stream)] ==
        IF k = 0 THEN [found |-> <<>>, rest |-> stream]
        ELSE LET r == round[k - 1] IN
             IF HasMessage(r.rest)
               THEN [found |-> Append(r.found, FirstMessage(r.rest)),
                     rest  |-> AfterMessage(r.rest)]
               ELSE r
  IN round[Len(stream)]
Messages(stream) == Extracted(stream).found
=============================================================================
