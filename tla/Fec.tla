-------------------------------- MODULE Fec --------------------------------
(***************************************************************************)
(* src/fec_encoder.cpp and src/fec_decoder.cpp: a convolutional code with  *)
(* optional puncturing, and its Viterbi decoder.  A vector of bytes is the *)
(* sequence of its bits, most significant first.                           *)
(***************************************************************************)
EXTENDS Integers, FiniteSets, SequencesExt

CONSTANTS ByteBits,      \* bits of a byte
          K,             \* constraint length
          Gen0, Gen1,    \* generators, as sets of bit positions
          Pattern        \* PUNCTURE_PATTERN

ASSUME FecAssumption ==
  /\ ByteBits \in Nat \ {0} /\ K \in Nat \ {0}
  /\ Gen0 \subseteq 0 .. K - 1 /\ Gen1 \subseteq 0 .. K - 1
  /\ Pattern \in Seq({0, 1}) /\ Len(Pattern) > 0

Rate == {"1/2", "3/4"}
Zeros(n) == [i \in 1 .. n |-> 0]
Least(a, b) == IF a < b THEN a ELSE b

\* The n bits of a number, and the number of some bits.
ToBits(v, n) == [i \in 1 .. n |-> (v \div 2^(n - i)) % 2]
FromBits(bits) ==
  LET value[i \in 0 .. Len(bits)] == IF i = 0 THEN 0 ELSE 2 * value[i - 1] + bits[i]
  IN value[Len(bits)]
-----------------------------------------------------------------------------
(* FecEncoder. *)

\* The register after a bit has entered at its upper end, and its two outputs.
Shift(reg, bit) == reg \div 2 + bit * 2^(K - 1)
parity(reg, mask) == Cardinality({i \in mask : (reg \div 2^i) % 2 = 1}) % 2
Outputs == [reg \in 0 .. 2^K - 1 |-> <<parity(reg, Gen0), parity(reg, Gen1)>>]

Kept(i) == Pattern[((i - 1) % Len(Pattern)) + 1] = 1

\* Bits of the rate-1/2 code for n bytes, and those that are left at a rate.
HalfBits(n) == 2 * (n * ByteBits + K - 1)
CodedBits(n, rate) ==
  IF rate = "1/2" THEN HalfBits(n) ELSE Cardinality({i \in 1 .. HalfBits(n) : Kept(i)})
ByteCount(bits) == (bits + ByteBits - 1) \div ByteBits
coded_length(n, rate) == ByteCount(CodedBits(n, rate))

\* Bits packed left-aligned into bytes.
Packed(bits) == bits \o Zeros(ByteBits * ByteCount(Len(bits)) - Len(bits))

FecEncode(data, rate) ==
  LET bits == data \o Zeros(K - 1)
      reg[i \in 0 .. Len(bits)] == IF i = 0 THEN 0 ELSE Shift(reg[i - 1], bits[i])
      half == FlattenSeq([i \in DOMAIN bits |-> Outputs[reg[i]]])
      kept == SelectSeq([i \in DOMAIN half |-> i], LAMBDA i : rate = "1/2" \/ Kept(i))
  IN Packed([i \in DOMAIN kept |-> half[kept[i]]])
-----------------------------------------------------------------------------
(* FecDecoder. *)

Erasure == 2
InfinityLow == 2
Infinity == 16777215

\* What has come of the code for n bytes, with erasures where bits were punctured.
Depunctured(coded, n, rate) ==
  LET bits == SubSeq(coded, 1, Least(Len(coded), CodedBits(n, rate)))
  IN IF rate = "1/2" THEN bits
     ELSE [i \in 1 .. HalfBits(n) |->
             LET at == Cardinality({j \in 1 .. i : Kept(j)})
             IN IF Kept(i) /\ at <= Len(bits) THEN bits[at] ELSE Erasure]

\* The distance of a received pair from the outputs of a register.
Branch(reg, pair) ==
  Cardinality({i \in 1 .. 2 : pair[i] # Erasure /\ pair[i] # Outputs[reg][i]})

\* One step: every register is reached from two others; the nearer one survives,
\* the lower one when they are equal.  A path is the sequence of bits that have
\* entered.  Registers count from 1.
Survivor(last, reg) ==
  LET low == 2 * (reg % 2^(K - 1))
  IN IF last[low + 2].metric < last[low + 1].metric THEN last[low + 2] ELSE last[low + 1]
Advance(last, pair) ==
  <<>> \o [r \in 1 .. 2^K |->
             LET from == Survivor(last, r - 1)
             IN IF from.metric >= Infinity THEN from
                ELSE [metric |-> from.metric + Branch(r - 1, pair),
                      path |-> Append(from.path, (r - 1) \div 2^(K - 1))]]

\* The path of the best register, the first of them, at the end.
Best(last) ==
  last[CHOOSE r \in DOMAIN last :
         \A s \in DOMAIN last : \/ last[r].metric < last[s].metric
                                \/ last[r].metric = last[s].metric /\ r <= s].path

Viterbi(rx) ==
  LET at[step \in 0 .. Len(rx) \div 2] ==
        IF step = 0
          THEN [r \in 1 .. 2^K |-> [metric |-> IF r = 1 THEN 0 ELSE Infinity, path |-> <<>>]]
          ELSE Advance(at[step - 1], <<rx[2 * step - 1], rx[2 * step]>>)
  IN Best(at[Len(rx) \div 2])

\* Decoded bytes; of a byte whose bits did not all come, those there are stand right.
FecDecode(coded, n, rate) ==
  LET path == Viterbi(Depunctured(coded, n, rate))
      bits == SubSeq(path, 1, Least(n * ByteBits, Len(path)))
      whole == Len(bits) - (Len(bits) % ByteBits)
  IN IF whole = Len(bits) THEN bits
     ELSE SubSeq(bits, 1, whole) \o Zeros(ByteBits - (Len(bits) % ByteBits))
            \o SubSeq(bits, whole + 1, Len(bits))

\* Differences between what has come and the code of the result.
Errors(coded, decoded, rate) ==
  LET code == FecEncode(decoded, rate)
  IN Cardinality({i \in 1 .. Least(Len(code), Len(coded)) : code[i] # coded[i]})
=============================================================================
