---------------------------- MODULE FramingProofs ----------------------------
(***************************************************************************)
(* What frame_message and the extraction of messages make of a stream: a   *)
(* length read back from its prefix is the length (PrefixValueIs); of a    *)
(* stream of whole frames and a part of one, extraction takes the next     *)
(* messages until the buffer has none (ExtractedIs), and all of them when  *)
(* the buffer has the whole stream (MessagesAre).  The proofs about the    *)
(* adapter and the ingress rest on these facts.                            *)
(***************************************************************************)
EXTENDS Framing, ListFacts

(* A number is its quotient and its remainder.                               *)
LEMMA DivMod ==
  ASSUME NEW n \in Nat, NEW q \in Nat, q >= 1
  PROVE  n \div q \in Nat /\ n % q \in Nat /\ n % q < q /\ n = q * (n \div q) + (n % q)
  <1>1. n \div q \in Nat
    OBVIOUS
  <1>2. n % q \in Nat
    OBVIOUS
  <1>3. n % q < q
    OBVIOUS
  <1>4. n = q * (n \div q) + (n % q)
    OBVIOUS
  <1>. QED  BY <1>1, <1>2, <1>3, <1>4

(* One factor more is at least one multiple more.                            *)
LEMMA ProductLess ==
  ASSUME NEW q \in Nat, NEW a \in Nat, NEW b \in Nat, a + 1 <= b
  PROVE  q * a + q <= q * b
  <1>1. PICK d \in Nat : b = (a + 1) + d
    <2>1. b - (a + 1) \in Nat /\ b = (a + 1) + (b - (a + 1))
      OBVIOUS
    <2>. QED  BY <2>1
  <1>2. q * b = q * a + q + q * d /\ q * d >= 0
    BY <1>1
  <1>. QED  BY <1>2

(* A quotient is what leaves a remainder below the divisor.                  *)
LEMMA DivUnique ==
  ASSUME NEW n \in Nat, NEW q \in Nat, q >= 1, NEW c \in Nat, NEW r \in Nat, r < q, n = q * c + r
  PROVE  n \div q = c
  <1>1. PICK a \in Nat, s \in Nat : a = n \div q /\ s < q /\ n = q * a + s
    BY DivMod
  <1>2. CASE a < c
    <2>1. q * a + q <= q * c
      BY <1>2, ProductLess
    <2>2. q * a \in Nat /\ q * c \in Nat
      OBVIOUS
    <2>. QED  BY <1>1, <2>1, <2>2
  <1>3. CASE c < a
    <2>1. q * c + q <= q * a
      BY <1>3, ProductLess
    <2>2. q * a \in Nat /\ q * c \in Nat
      OBVIOUS
    <2>. QED  BY <1>1, <2>1, <2>2
  <1>. QED  BY <1>1, <1>2, <1>3

(* One digit more: what is left of n after one digit less, times the base,   *)
(* and the digit.                                                            *)
LEMMA DigitStep ==
  ASSUME NEW n \in Nat, NEW q \in Nat, q >= 1, NEW base \in Nat, base >= 1
  PROVE  (n \div (q * base)) * base + ((n \div q) % base) = n \div q
  <1>1. PICK a \in Nat, r \in Nat : a = n \div q /\ r < q /\ n = q * a + r
    BY DivMod
  <1>2. PICK c \in Nat, d \in Nat : c = a \div base /\ d = a % base /\ d < base /\ a = base * c + d
    BY DivMod
  <1>3. PICK m \in Nat : m = q * base /\ m >= 1
    OBVIOUS
  <1>4. PICK e \in Nat : e = q * d + r
    OBVIOUS
  <1>5. e < m
    <2>1. q * d + q <= q * base
      BY <1>2, ProductLess
    <2>2. q * d \in Nat
      OBVIOUS
    <2>. QED  BY <1>1, <1>3, <1>4, <2>1, <2>2
  <1>6. n = m * c + e
    <2>1. q * (base * c + d) = (q * base) * c + q * d
      OBVIOUS
    <2>2. q * d \in Nat /\ m * c \in Nat
      OBVIOUS
    <2>3. n = q * (base * c + d) + r
      BY <1>1, <1>2
    <2>. QED  BY <1>3, <1>4, <2>1, <2>2, <2>3
  <1>7. n \div m = c
    BY <1>3, <1>5, <1>6, DivUnique
  <1>. QED  BY <1>1, <1>2, <1>3, <1>7

(* Powers, from the first on.                                                *)
IsPowers(p, n) ==
  p[0] = 1 /\ \A k \in 1 .. n : p[k] = p[k - 1] * Base

(* FramingAssumption, for arithmetic.                                        *)
LEMMA BaseFacts == Base \in Nat /\ Base >= 2 /\ PrefixLen \in Nat /\ PrefixLen >= 1
  BY FramingAssumption

(* Power(n) is the last of the powers up to n.                               *)
LEMMA PowerUnfolds ==
  ASSUME NEW n \in Nat
  PROVE  \E p : IsPowers(p, n) /\ Power(n) = p[n]
  <1> DEFINE step == [k \in 1 .. n |-> [v \in Nat |-> v * Base]]
             IsPower(u) == u = [k \in 0 .. n |-> IF k = 0 THEN 1 ELSE u[k - 1] * Base]
             p == CHOOSE u : IsPower(u)
  <1>1. step \in [1 .. n -> [Nat -> Nat]]
    BY BaseFacts
  <1>2. PICK f \in [0 .. n -> Nat] : IsIteration(f, 1, step, n)
    <2> HIDE DEF step
    <2>. QED  BY <1>1, IterationExists
  <1>3. IsPower(f)
    <2>1. ASSUME NEW k \in 1 .. n PROVE f[k] = f[k - 1] * Base
      <3>1. f[k] = step[k][f[k - 1]]
        BY <1>2 DEF IsIteration
      <3>2. k - 1 \in 0 .. n
        OBVIOUS
      <3>. QED  BY <3>1, <3>2
    <2>2. f[0] = 1
      BY <1>2 DEF IsIteration
    <2>3. ASSUME NEW k \in 0 .. n PROVE f[k] = IF k = 0 THEN 1 ELSE f[k - 1] * Base
      BY <2>1, <2>2
    <2>. QED  BY <2>3
  <1>4. IsPower(p)
    BY <1>3, Zenon
  <1>5. Power(n) = p[n]
    BY DEF Power
  <1> HIDE DEF p
  <1>6. IsPowers(p, n)
    <2>1. ASSUME NEW k \in 0 .. n PROVE p[k] = IF k = 0 THEN 1 ELSE p[k - 1] * Base
      BY <1>4
    <2>2. p[0] = 1
      BY <2>1
    <2>3. ASSUME NEW k \in 1 .. n PROVE p[k] = p[k - 1] * Base
      BY <2>1
    <2>. QED  BY <2>2, <2>3 DEF IsPowers
  <1>. QED  BY <1>5, <1>6

(* What a power is.                                                          *)
LEMMA PowerIs ==
  ASSUME NEW n \in Nat
  PROVE  Power(0) = 1 /\ Power(n) \in Nat /\ Power(n) >= 1 /\ Power(n + 1) = Power(n) * Base
  <1>1. PICK p : IsPowers(p, n) /\ Power(n) = p[n]
    BY PowerUnfolds
  <1>2. PICK q : IsPowers(q, n + 1) /\ Power(n + 1) = q[n + 1]
    BY PowerUnfolds
  <1>3. PICK z : IsPowers(z, 0) /\ Power(0) = z[0]
    BY PowerUnfolds
  <1> DEFINE S == {m \in Nat : m <= n => p[m] = q[m] /\ p[m] \in Nat /\ p[m] >= 1}
  <1>4. 0 \in S
    BY <1>1, <1>2 DEF IsPowers
  <1>5. ASSUME NEW m \in Nat, m \in S PROVE m + 1 \in S
    <2> SUFFICES ASSUME m + 1 <= n PROVE p[m + 1] = q[m + 1] /\ p[m + 1] \in Nat /\ p[m + 1] >= 1
      OBVIOUS
    <2>1. m + 1 \in 1 .. n /\ m + 1 \in 1 .. n + 1 /\ (m + 1) - 1 = m
      OBVIOUS
    <2>2. p[m + 1] = p[m] * Base /\ q[m + 1] = q[m] * Base
      BY <1>1, <1>2, <2>1 DEF IsPowers
    <2>3. PICK v \in Nat : v = p[m] /\ v = q[m] /\ v >= 1
      BY <1>5
    <2>4. v * Base \in Nat /\ v * Base >= 1
      BY <2>3, BaseFacts
    <2>. QED  BY <2>2, <2>3, <2>4
  <1>6. Nat \subseteq S
    <2> HIDE DEF S
    <2>. QED  BY <1>4, <1>5, SetInduction
  <1>7. p[n] = q[n] /\ p[n] \in Nat /\ p[n] >= 1
    BY <1>6
  <1>8. q[n + 1] = q[n] * Base
    <2>1. n + 1 \in 1 .. n + 1 /\ (n + 1) - 1 = n
      OBVIOUS
    <2>. QED  BY <1>2, <2>1 DEF IsPowers
  <1>9. Power(0) = 1
    BY <1>3 DEF IsPowers
  <1>. QED  BY <1>1, <1>2, <1>7, <1>8, <1>9

(* The number that the first i bytes of b spell, for each i.                 *)
IsValues(u, b) ==
  u[0] = 0 /\ \A i \in 1 .. PrefixLen : u[i] = u[i - 1] * Base + b[i]

(* PrefixValue(b) is the last of these numbers.                              *)
LEMMA ValueUnfolds ==
  ASSUME NEW b, \A i \in 1 .. PrefixLen : b[i] \in Nat
  PROVE  \E u : IsValues(u, b) /\ PrefixValue(b) = u[PrefixLen]
  <1> DEFINE n == PrefixLen
             step == [k \in 1 .. n |-> [v \in Nat |-> v * Base + b[k]]]
             IsValue(u) == u = [k \in 0 .. n |-> IF k = 0 THEN 0 ELSE u[k - 1] * Base + b[k]]
             w == CHOOSE u : IsValue(u)
  <1>1. n \in Nat /\ step \in [1 .. n -> [Nat -> Nat]]
    <2>1. ASSUME NEW k \in 1 .. n, NEW v \in Nat PROVE v * Base + b[k] \in Nat
      BY BaseFacts
    <2>. QED  BY <2>1, BaseFacts
  <1>2. PICK f \in [0 .. n -> Nat] : IsIteration(f, 0, step, n)
    <2> HIDE DEF step, n
    <2>. QED  BY <1>1, IterationExists
  <1>3. IsValue(f)
    <2>1. ASSUME NEW k \in 1 .. n PROVE f[k] = f[k - 1] * Base + b[k]
      <3>1. f[k] = step[k][f[k - 1]]
        BY <1>2 DEF IsIteration
      <3>2. k - 1 \in 0 .. n
        BY <1>1
      <3>. QED  BY <3>1, <3>2
    <2>2. f[0] = 0
      BY <1>2 DEF IsIteration
    <2> HIDE DEF n
    <2>3. ASSUME NEW k \in 0 .. n PROVE f[k] = IF k = 0 THEN 0 ELSE f[k - 1] * Base + b[k]
      BY <1>1, <2>1, <2>2
    <2>. QED  BY <2>3
  <1>4. IsValue(w)
    BY <1>3, Zenon
  <1>5. PrefixValue(b) = w[n]
    BY DEF PrefixValue
  <1> HIDE DEF w
  <1>6. IsValues(w, b)
    <2>1. ASSUME NEW k \in 0 .. n PROVE w[k] = IF k = 0 THEN 0 ELSE w[k - 1] * Base + b[k]
      BY <1>4
    <2>2. w[0] = 0
      BY <1>1, <2>1
    <2>3. ASSUME NEW k \in 1 .. n PROVE w[k] = w[k - 1] * Base + b[k]
      BY <1>1, <2>1
    <2>. QED  BY <2>2, <2>3 DEF IsValues
  <1>. QED  BY <1>5, <1>6

(* The length that a buffer spells depends on its first bytes only.          *)
LEMMA PrefixValueLocal ==
  ASSUME NEW b, NEW c, \A i \in 1 .. PrefixLen : b[i] \in Nat /\ c[i] = b[i]
  PROVE  PrefixValue(b) \in Nat /\ PrefixValue(c) = PrefixValue(b)
  <1>1. PICK u : IsValues(u, b) /\ PrefixValue(b) = u[PrefixLen]
    BY ValueUnfolds
  <1>2. PICK w : IsValues(w, c) /\ PrefixValue(c) = w[PrefixLen]
    BY ValueUnfolds
  <1> DEFINE S == {m \in Nat : m <= PrefixLen => u[m] = w[m] /\ u[m] \in Nat}
  <1>3. 0 \in S
    BY <1>1, <1>2 DEF IsValues
  <1>4. ASSUME NEW m \in Nat, m \in S PROVE m + 1 \in S
    <2> SUFFICES ASSUME m + 1 <= PrefixLen PROVE u[m + 1] = w[m + 1] /\ u[m + 1] \in Nat
      OBVIOUS
    <2>1. m + 1 \in 1 .. PrefixLen /\ (m + 1) - 1 = m
      BY BaseFacts
    <2>2. u[m + 1] = u[m] * Base + b[m + 1] /\ w[m + 1] = w[m] * Base + b[m + 1]
      BY <1>1, <1>2, <2>1 DEF IsValues
    <2>3. PICK v \in Nat, d \in Nat : v = u[m] /\ v = w[m] /\ d = b[m + 1]
      BY <1>4, <2>1, BaseFacts
    <2>4. v * Base + d \in Nat
      BY BaseFacts
    <2>. QED  BY <2>2, <2>3, <2>4
  <1>5. Nat \subseteq S
    <2> HIDE DEF S
    <2>. QED  BY <1>3, <1>4, SetInduction
  <1>. QED  BY <1>1, <1>2, <1>5, BaseFacts

(* The prefix of a frame is made of bytes and spells the length.             *)
LEMMA PrefixIs ==
  ASSUME NEW len \in Nat
  PROVE  /\ Prefix(len) \in Seq(Byte) /\ Len(Prefix(len)) = PrefixLen
         /\ \A i \in 1 .. PrefixLen :
              Prefix(len)[i] \in Byte /\ Prefix(len)[i] = (len \div Power(PrefixLen - i)) % Base
  <1>1. ASSUME NEW i \in 1 .. PrefixLen
        PROVE  (len \div Power(PrefixLen - i)) % Base \in Byte
    <2>1. PICK q \in Nat : q = Power(PrefixLen - i) /\ q >= 1
      BY BaseFacts, PowerIs
    <2>2. PICK v \in Nat : v = len \div q
      BY <2>1, DivMod
    <2>3. v % Base \in Nat /\ v % Base < Base
      BY BaseFacts, DivMod
    <2>. QED  BY <2>1, <2>2, <2>3, BaseFacts DEF Byte
  <1>. QED  BY <1>1, BaseFacts DEF Prefix

(* What a buffer that starts with a prefix spells is the length: the digits  *)
(* of a number below 2^32, put together again.                               *)
LEMMA PrefixValueIs ==
  ASSUME NEW len \in Nat, len < Wrap, NEW b, \A i \in 1 .. PrefixLen : b[i] = Prefix(len)[i]
  PROVE  PrefixValue(b) = len
  <1>1. \A i \in 1 .. PrefixLen : b[i] \in Nat /\ b[i] = (len \div Power(PrefixLen - i)) % Base
    <2>1. \A i \in 1 .. PrefixLen :
            Prefix(len)[i] \in Byte /\ Prefix(len)[i] = (len \div Power(PrefixLen - i)) % Base
      BY PrefixIs
    <2>. QED  BY <2>1, BaseFacts DEF Byte
  <1>2. PICK u : IsValues(u, b) /\ PrefixValue(b) = u[PrefixLen]
    BY <1>1, ValueUnfolds
  <1> DEFINE S == {m \in Nat : m <= PrefixLen => u[m] = len \div Power(PrefixLen - m)}
  <1>3. 0 \in S
    <2>1. PICK q \in Nat : q = Power(PrefixLen - 0) /\ q >= 1 /\ q = Wrap
      BY BaseFacts, PowerIs DEF Wrap
    <2>2. len = q * 0 + len /\ len < q
      BY <2>1
    <2>3. len \div q = 0
      BY <2>1, <2>2, DivUnique
    <2>. QED  BY <1>2, <2>1, <2>3 DEF IsValues
  <1>4. ASSUME NEW m \in Nat, m \in S PROVE m + 1 \in S
    <2> SUFFICES ASSUME m + 1 <= PrefixLen PROVE u[m + 1] = len \div Power(PrefixLen - (m + 1))
      OBVIOUS
    <2>1. PICK k \in Nat : k = PrefixLen - (m + 1) /\ k + 1 = PrefixLen - m
      BY BaseFacts
    <2>2. PICK q \in Nat : q = Power(k) /\ q >= 1 /\ Power(k + 1) = q * Base
      BY PowerIs
    <2>3. m + 1 \in 1 .. PrefixLen /\ (m + 1) - 1 = m /\ m <= PrefixLen
      BY BaseFacts
    <2>4. u[m + 1] = u[m] * Base + b[m + 1]
      BY <1>2, <2>3 DEF IsValues
    <2>5. u[m] = len \div (q * Base)
      BY <1>4, <2>1, <2>2, <2>3
    <2>6. b[m + 1] = (len \div q) % Base
      BY <1>1, <2>1, <2>2, <2>3
    <2>7. (len \div (q * Base)) * Base + ((len \div q) % Base) = len \div q
      <3>1. Base \in Nat /\ Base >= 1
        BY BaseFacts
      <3>. QED  BY <2>2, <3>1, DigitStep, Zenon
    <2>. QED  BY <2>1, <2>2, <2>4, <2>5, <2>6, <2>7
  <1>5. Nat \subseteq S
    <2> HIDE DEF S
    <2>. QED  BY <1>3, <1>4, SetInduction
  <1>6. u[PrefixLen] = len \div Power(0)
    <2>1. PrefixLen \in S /\ PrefixLen - PrefixLen = 0
      BY <1>5, BaseFacts
    <2>. QED  BY <2>1, BaseFacts
  <1>7. len \div 1 = len
    OBVIOUS
  <1>. QED  BY <1>2, <1>6, <1>7, PowerIs

-----------------------------------------------------------------------------
(* Frames.                                                                   *)

(* A message whose frame is shorter than 2^32 bytes.                         *)
Short == {d \in Seq(Byte) : PrefixLen + Len(d) < Wrap}

(* The bytes of a frame.                                                     *)
LEMMA FrameIs ==
  ASSUME NEW d \in Short
  PROVE  /\ d \in Seq(Byte) /\ Len(d) \in Nat /\ Len(d) < Wrap
         /\ frame_message(d) \in Seq(Byte) /\ Len(frame_message(d)) = PrefixLen + Len(d)
         /\ \A i \in 1 .. PrefixLen : frame_message(d)[i] = Prefix(Len(d))[i]
         /\ \A i \in 1 .. Len(d) : frame_message(d)[PrefixLen + i] = d[i]
  <1>1. d \in Seq(Byte) /\ Len(d) \in Nat /\ PrefixLen + Len(d) < Wrap
    BY DEF Short
  <1>2. Wrap \in Nat
    BY BaseFacts, PowerIs DEF Wrap
  <1>3. Len(d) < Wrap
    BY <1>1, <1>2, BaseFacts
  <1>4. PICK p \in Seq(Byte) : p = Prefix(Len(d)) /\ Len(p) = PrefixLen
    BY <1>1, PrefixIs
  <1>5. frame_message(d) = p \o d
    BY <1>4 DEF frame_message
  <1>6. /\ p \o d \in Seq(Byte) /\ Len(p \o d) = Len(p) + Len(d)
        /\ \A i \in 1 .. Len(p) : (p \o d)[i] = p[i]
        /\ \A i \in 1 .. Len(d) : (p \o d)[Len(p) + i] = d[i]
    BY <1>1, ConcatIs
  <1>. QED  BY <1>1, <1>3, <1>4, <1>5, <1>6

(* A number below the modulus.                                               *)
LEMMA SmallMod ==
  ASSUME NEW s \in Nat, NEW q \in Nat, s < q
  PROVE  s % q = s
  <1>1. q >= 1 /\ s = q * 0 + s
    OBVIOUS
  <1>2. s \div q = 0
    BY <1>1, DivUnique
  <1>3. s = q * (s \div q) + (s % q)
    BY <1>1, DivMod
  <1>4. q * 0 = 0 /\ s % q \in Nat
    BY <1>1, DivMod
  <1>. QED  BY <1>2, <1>3, <1>4

(* A buffer that starts like a frame has a message exactly when it has the   *)
(* whole frame: the sum of lengths does not wrap.                            *)
LEMMA MessageThere ==
  ASSUME NEW d \in Short, NEW b \in Seq(Byte),
         \A i \in 1 .. PrefixLen : i <= Len(b) => b[i] = frame_message(d)[i]
  PROVE  /\ HasMessage(b) <=> Len(b) >= PrefixLen + Len(d)
         /\ HasMessage(b) => PrefixValue(b) = Len(d)
  <1>1. PICK n \in Nat : n = Len(d) /\ n < Wrap /\ PrefixLen + n < Wrap
    BY FrameIs DEF Short
  <1>2. CASE Len(b) < PrefixLen
    BY <1>1, <1>2, BaseFacts DEF HasMessage
  <1>3. CASE Len(b) >= PrefixLen
    <2>1. \A i \in 1 .. PrefixLen : b[i] = Prefix(n)[i]
      BY <1>1, <1>3, BaseFacts, FrameIs
    <2>2. PrefixValue(b) = n
      BY <1>1, <2>1, PrefixValueIs
    <2>3. (PrefixLen + n) % Wrap = PrefixLen + n
      <3>1. PICK q \in Nat : q = Wrap
        BY BaseFacts, PowerIs DEF Wrap
      <3>2. PICK s \in Nat : s = PrefixLen + n /\ s < q
        BY <1>1, <3>1, BaseFacts
      <3>. QED  BY <3>1, <3>2, SmallMod
    <2>. QED  BY <1>1, <1>3, <2>2, <2>3 DEF HasMessage
  <1>. QED  BY <1>2, <1>3, BaseFacts

(* The part of a concatenation behind a prefix of its first half.            *)
LEMMA CutConcat ==
  ASSUME NEW T, NEW b \in Seq(T), NEW w \in Seq(T), NEW f \in Seq(T), NEW r \in Seq(T),
         b \o w = f \o r, Len(f) <= Len(b)
  PROVE  SubSeq(b, Len(f) + 1, Len(b)) \o w = r
  <1>1. PICK n \in Nat : n = Len(f) /\ n \in 0 .. Len(b)
    OBVIOUS
  <1>2. PICK a \in Seq(T) : /\ a = SubSeq(b, n + 1, Len(b)) /\ Len(a) = Len(b) - n
                            /\ \A i \in 1 .. Len(b) - n : a[i] = b[n + i]
    <2>1. /\ SubSeq(b, n + 1, Len(b)) \in Seq(T) /\ Len(SubSeq(b, n + 1, Len(b))) = Len(b) - n
          /\ \A i \in 1 .. Len(b) - n : SubSeq(b, n + 1, Len(b))[i] = b[n + i]
      BY <1>1, SuffixIs
    <2>. QED  BY <2>1, Zenon
  <1>3. /\ b \o w \in Seq(T) /\ Len(b \o w) = Len(b) + Len(w)
        /\ \A i \in 1 .. Len(b) : (b \o w)[i] = b[i]
        /\ \A i \in 1 .. Len(w) : (b \o w)[Len(b) + i] = w[i]
    BY ConcatIs, SMTT(30)
  <1>4. /\ f \o r \in Seq(T) /\ Len(f \o r) = Len(f) + Len(r)
        /\ \A i \in 1 .. Len(r) : (f \o r)[Len(f) + i] = r[i]
    BY ConcatIs
  <1>5. PICK c \in Seq(T) : /\ c = a \o w /\ Len(c) = Len(a) + Len(w)
                            /\ \A i \in 1 .. Len(a) : c[i] = a[i]
                            /\ \A i \in 1 .. Len(w) : c[Len(a) + i] = w[i]
    <2>1. /\ a \o w \in Seq(T) /\ Len(a \o w) = Len(a) + Len(w)
          /\ \A i \in 1 .. Len(a) : (a \o w)[i] = a[i]
          /\ \A i \in 1 .. Len(w) : (a \o w)[Len(a) + i] = w[i]
      BY ConcatIs
    <2>. QED  BY <2>1, Zenon
  <1>6. PICK z : z = b \o w /\ z = f \o r
    OBVIOUS
  <1>7. Len(b) \in Nat /\ Len(w) \in Nat /\ Len(r) \in Nat
    OBVIOUS
  <1>8. Len(c) = Len(r)
    BY <1>1, <1>2, <1>3, <1>4, <1>5, <1>6, <1>7
  <1>9. ASSUME NEW i \in 1 .. Len(r) PROVE c[i] = r[i]
    <2>1. z[n + i] = r[i]
      BY <1>1, <1>4, <1>6
    <2>2. CASE i <= Len(a)
      <3>1. i \in 1 .. Len(a) /\ n + i \in 1 .. Len(b) /\ i \in 1 .. Len(b) - n
        BY <1>1, <1>2, <1>7, <2>2
      <3>2. c[i] = b[n + i] /\ z[n + i] = b[n + i]
        BY <1>2, <1>3, <1>5, <1>6, <3>1
      <3>. QED  BY <2>1, <3>2
    <2>3. CASE i > Len(a)
      <3>1. PICK j \in 1 .. Len(w) : i = Len(a) + j /\ n + i = Len(b) + j
        <4>1. Len(a) \in Nat /\ Len(b) = Len(a) + n
          BY <1>1, <1>2, <1>7
        <4>2. i \in Nat /\ i <= Len(a) + Len(w)
          BY <1>5, <1>7, <1>8
        <4>3. \A m, k, p \in Nat : (p = m + n /\ i > m /\ i <= m + k) =>
                (i - m \in 1 .. k /\ i = m + (i - m) /\ n + i = p + (i - m))
          BY <4>2
        <4>. QED  BY <1>7, <2>3, <4>1, <4>2, <4>3
      <3>2. c[i] = w[j] /\ z[n + i] = w[j]
        BY <1>3, <1>5, <1>6, <3>1
      <3>. QED  BY <2>1, <3>2
    <2>. QED  BY <1>1, <1>2, <1>7, <2>2, <2>3
  <1>10. c = r
    BY <1>8, <1>9, SeqEqual
  <1>. QED  BY <1>1, <1>2, <1>5, <1>10

(* A sequence that lies in another is a part of it.                           *)
LEMMA PieceIs ==
  ASSUME NEW b \in Seq(Byte), NEW d \in Seq(Byte), NEW n \in Nat, n = PrefixLen + Len(d),
         n <= Len(b), \A i \in 1 .. Len(d) : b[PrefixLen + i] = d[i]
  PROVE  SubSeq(b, PrefixLen + 1, n) = d
  BY BaseFacts

(* extract_framed_message on a buffer b, when w is still to come: it finds   *)
(* the first message once its frame is there, and leaves what follows.       *)
LEMMA TakesMessage ==
  ASSUME NEW d \in Short, NEW r \in Seq(Byte), NEW b \in Seq(Byte), NEW w \in Seq(Byte),
         b \o w = frame_message(d) \o r
  PROVE  /\ HasMessage(b) <=> Len(b) >= PrefixLen + Len(d)
         /\ HasMessage(b) =>
              /\ FirstMessage(b) = d /\ AfterMessage(b) \in Seq(Byte)
              /\ AfterMessage(b) \o w = r /\ Len(AfterMessage(b)) < Len(b)
  <1>1. PICK n \in Nat : n = PrefixLen + Len(d) /\ n >= 1
    BY FrameIs, BaseFacts
  <1>2. PICK f \in Seq(Byte) : /\ f = frame_message(d) /\ Len(f) = n
                               /\ \A i \in 1 .. Len(d) : f[PrefixLen + i] = d[i]
    BY <1>1, FrameIs
  <1>3. b \o w = f \o r
    BY <1>2
  <1>4. \A i \in 1 .. Len(b) : i <= n => b[i] = f[i]
    <2> SUFFICES ASSUME NEW i \in 1 .. Len(b), i <= n PROVE b[i] = f[i]
      OBVIOUS
    <2>1. i \in 1 .. Len(f)
      BY <1>2
    <2>2. (b \o w)[i] = b[i]
      BY ConcatIs
    <2>3. (f \o r)[i] = f[i]
      BY <2>1, ConcatIs
    <2>. QED  BY <1>3, <2>2, <2>3
  <1>5. /\ HasMessage(b) <=> Len(b) >= PrefixLen + Len(d)
        /\ HasMessage(b) => PrefixValue(b) = Len(d)
    <2>1. \A i \in 1 .. PrefixLen : i <= Len(b) => b[i] = frame_message(d)[i]
      BY <1>1, <1>2, <1>4, BaseFacts, FrameIs
    <2>. QED  BY <2>1, MessageThere
  <1>6. ASSUME HasMessage(b)
        PROVE  /\ FirstMessage(b) = d /\ AfterMessage(b) \in Seq(Byte)
               /\ AfterMessage(b) \o w = r /\ Len(AfterMessage(b)) < Len(b)
    <2>1. Len(b) >= n /\ PrefixLen + PrefixValue(b) = n /\ Len(d) \in Nat /\ d \in Seq(Byte)
      BY <1>1, <1>5, <1>6, FrameIs
    <2>2. n \in 0 .. Len(b)
      BY <2>1
    <2>3. PICK a \in Seq(Byte) : a = SubSeq(b, n + 1, Len(b)) /\ Len(a) = Len(b) - n
      BY <2>2, SuffixIs
    <2>4. AfterMessage(b) = a
      BY <2>1, <2>3 DEF AfterMessage
    <2>5. a \o w = r
      <3>1. Len(f) <= Len(b)
        BY <1>2, <2>1
      <3>2. SubSeq(b, Len(f) + 1, Len(b)) \o w = r
        BY <1>3, <3>1, CutConcat
      <3>. QED  BY <1>2, <2>3, <3>2
    <2>6. FirstMessage(b) = d
      <3>1. FirstMessage(b) = SubSeq(b, PrefixLen + 1, n)
        BY <2>1 DEF FirstMessage
      <3>2. \A i \in 1 .. Len(d) : b[PrefixLen + i] = d[i]
        <4> SUFFICES ASSUME NEW i \in 1 .. Len(d) PROVE b[PrefixLen + i] = d[i]
          OBVIOUS
        <4>1. PrefixLen + i \in 1 .. Len(b) /\ PrefixLen + i <= n
          BY <1>1, <2>1, BaseFacts
        <4>2. b[PrefixLen + i] = f[PrefixLen + i]
          BY <1>4, <4>1, Zenon
        <4>3. f[PrefixLen + i] = d[i]
          BY <1>2, Zenon
        <4>. QED  BY <4>2, <4>3, Zenon
      <3>. QED  BY <1>1, <2>1, <3>1, <3>2, PieceIs
    <2>7. Len(a) < Len(b)
      BY <1>1, <2>1, <2>3
    <2>. QED  BY <2>3, <2>4, <2>5, <2>6, <2>7
  <1>. QED  BY <1>5, <1>6

(* What a stream may end with: a frame of which the end is missing.          *)
Open(t) ==
  \/ t = <<>>
  \/ \E d \in Short : \E n \in 0 .. PrefixLen + Len(d) - 1 : t = SubSeq(frame_message(d), 1, n)

(* There is no message in a part of a frame, or in a part of that.           *)
LEMMA NoneInPart ==
  ASSUME NEW t, Open(t), NEW b \in Seq(Byte), NEW w \in Seq(Byte), b \o w = t
  PROVE  t \in Seq(Byte) /\ ~HasMessage(b)
  <1>1. /\ b \o w \in Seq(Byte) /\ Len(b \o w) = Len(b) + Len(w)
        /\ \A i \in 1 .. Len(b) : (b \o w)[i] = b[i]
    BY ConcatIs
  <1>2. Len(b) \in Nat /\ Len(w) \in Nat
    OBVIOUS
  <1>3. CASE t = <<>>
    <2>1. Len(b) = 0
      BY <1>1, <1>2, <1>3
    <2>. QED  BY <1>1, <2>1, BaseFacts DEF HasMessage
  <1>4. CASE \E d \in Short : \E n \in 0 .. PrefixLen + Len(d) - 1 : t = SubSeq(frame_message(d), 1, n)
    <2>0. PICK d \in Short : \E n \in 0 .. PrefixLen + Len(d) - 1 : t = SubSeq(frame_message(d), 1, n)
      BY <1>4
    <2>1. PICK n \in 0 .. PrefixLen + Len(d) - 1 : t = SubSeq(frame_message(d), 1, n)
      BY <2>0
    <2>2. PICK f \in Seq(Byte) : f = frame_message(d) /\ Len(f) = PrefixLen + Len(d) /\ Len(d) \in Nat
      BY FrameIs
    <2>3. n \in 0 .. Len(f) /\ n < PrefixLen + Len(d)
      BY <2>2, BaseFacts
    <2>4. PICK c \in Seq(Byte) : c = t /\ Len(c) = n /\ \A i \in 1 .. n : c[i] = f[i]
      <3>1. /\ SubSeq(f, 1, n) \in Seq(Byte) /\ Len(SubSeq(f, 1, n)) = n
            /\ \A i \in 1 .. n : SubSeq(f, 1, n)[i] = f[i]
        BY <2>3, FirstIs
      <3>. QED  BY <2>1, <2>2, <3>1, Zenon
    <2>5. Len(b) <= n /\ \A i \in 1 .. Len(b) : b[i] = f[i]
      BY <1>1, <1>2, <2>4
    <2>6. \A i \in 1 .. PrefixLen : i <= Len(b) => b[i] = frame_message(d)[i]
      BY <1>2, <2>2, <2>5, BaseFacts
    <2>7. HasMessage(b) <=> Len(b) >= PrefixLen + Len(d)
      BY <2>6, MessageThere
    <2>. QED  BY <1>1, <1>2, <2>2, <2>3, <2>5, <2>7, BaseFacts
  <1>. QED  BY <1>3, <1>4 DEF Open

-----------------------------------------------------------------------------
(* Streams of frames.                                                        *)

(* The bytes of the frames of the messages ws, one after the other.          *)
Frames(ws) == [i \in 1 .. Len(ws) |-> frame_message(ws[i])]
Framed(ws) == FlattenSeq(Frames(ws))

(* The frames are sequences of bytes, and so are the bytes of all.           *)
LEMMA FramesAre ==
  ASSUME NEW ws \in Seq(Short)
  PROVE  /\ Frames(ws) \in Seq(Seq(Byte)) /\ Len(Frames(ws)) = Len(ws) /\ Framed(ws) \in Seq(Byte)
         /\ \A i \in 1 .. Len(ws) : Frames(ws)[i] = frame_message(ws[i])
  <1>1. PICK V : V = Seq(Byte)
    OBVIOUS
  <1>2. Len(ws) \in Nat /\ \A i \in 1 .. Len(ws) : frame_message(ws[i]) \in V
    BY <1>1, FrameIs
  <1>3. /\ Frames(ws) \in Seq(V) /\ Len(Frames(ws)) = Len(ws)
        /\ \A i \in 1 .. Len(ws) : Frames(ws)[i] = frame_message(ws[i])
    BY <1>2 DEF Frames
  <1>. QED  BY <1>1, <1>3, FlattenTyped DEF Framed

(* Bytes put together in one order or the other.                             *)
LEMMA Regroup ==
  ASSUME NEW a \in Seq(Byte), NEW b \in Seq(Byte), NEW c \in Seq(Byte)
  PROVE  (a \o b) \o c = a \o (b \o c)
  <1>1. PICK T : T = Byte
    OBVIOUS
  <1>2. a \in Seq(T) /\ b \in Seq(T) /\ c \in Seq(T)
    BY <1>1
  <1>. QED  BY <1>2, ConcatAssociative

(* The same bytes before.                                                    *)
LEMMA Cancel ==
  ASSUME NEW a \in Seq(Byte), NEW b \in Seq(Byte), NEW c \in Seq(Byte), a \o b = a \o c
  PROVE  b = c
  BY ConcatSimplifications, Zenon

(* What concatenation of bytes keeps to.                                     *)
LEMMA CatFacts ==
  /\ \A a, b \in Seq(Byte) : Cat(a, b) \in Seq(Byte)
  /\ \A a, b, c \in Seq(Byte) : Cat(Cat(a, b), c) = Cat(a, Cat(b, c))
  /\ \A a, b, c \in Seq(Byte) : Cat(a, b) = Cat(a, c) => b = c
  <1>1. \A a, b \in Seq(Byte) : Cat(a, b) \in Seq(Byte)
    BY ConcatIs DEF Cat
  <1>2. ASSUME NEW a \in Seq(Byte), NEW b \in Seq(Byte), NEW c \in Seq(Byte)
        PROVE  Cat(Cat(a, b), c) = Cat(a, Cat(b, c))
    BY Regroup DEF Cat
  <1>3. ASSUME NEW a \in Seq(Byte), NEW b \in Seq(Byte), NEW c \in Seq(Byte), Cat(a, b) = Cat(a, c)
        PROVE  b = c
    BY <1>3, Cancel DEF Cat
  <1>. QED  BY <1>1, <1>2, <1>3

(* What follows the bytes p on both sides.                                   *)
LEMMA Peel ==
  ASSUME NEW p \in Seq(Byte), NEW f \in Seq(Byte), NEW r \in Seq(Byte), NEW t \in Seq(Byte),
         NEW z \in Seq(Byte), Cat(p, z) = Cat(Cat(p, Cat(f, r)), t)
  PROVE  z = Cat(f, Cat(r, t))
  <1>1. PICK x \in Seq(Byte) : x = Cat(f, r)
    BY CatFacts
  <1>2. PICK y \in Seq(Byte) : y = Cat(r, t)
    BY CatFacts
  <1>3. Cat(Cat(p, x), t) = Cat(p, Cat(x, t)) /\ Cat(x, t) = Cat(f, y) /\ Cat(f, y) \in Seq(Byte)
    BY <1>1, <1>2, CatFacts
  <1>4. Cat(p, z) = Cat(p, Cat(f, y))
    BY <1>1, <1>3
  <1>5. z = Cat(f, y)
    BY <1>3, <1>4, CatFacts
  <1>. QED  BY <1>2, <1>5

(* No message, no byte.                                                      *)
LEMMA FramedEmpty == Framed(<<>>) = <<>>
  <1>1. Frames(<<>>) = <<>>
    BY DEF Frames
  <1>. QED  BY <1>1, FlattenEmpty DEF Framed

(* The frame of one message more is at the end.                              *)
LEMMA FramedAppend ==
  ASSUME NEW ws \in Seq(Short), NEW d \in Short
  PROVE  Framed(Append(ws, d)) = Framed(ws) \o frame_message(d)
  <1>1. PICK V : V = Seq(Byte)
    OBVIOUS
  <1>2. PICK f \in V : f = frame_message(d)
    BY <1>1, FrameIs
  <1>3. PICK fs \in Seq(V) : /\ fs = Frames(ws) /\ Len(fs) = Len(ws)
                            /\ \A i \in 1 .. Len(ws) : fs[i] = frame_message(ws[i])
    BY <1>1, FramesAre
  <1>4. PICK xs \in Seq(Short) : /\ xs = Append(ws, d) /\ Len(xs) = Len(ws) + 1 /\ xs[Len(ws) + 1] = d
                                /\ \A i \in 1 .. Len(ws) : xs[i] = ws[i]
    <2>1. /\ Append(ws, d) \in Seq(Short) /\ Len(Append(ws, d)) = Len(ws) + 1
          /\ Append(ws, d)[Len(ws) + 1] = d
          /\ \A i \in 1 .. Len(ws) : Append(ws, d)[i] = ws[i]
      BY AppendIs
    <2>. QED  BY <2>1, Zenon
  <1>5. PICK gs \in Seq(V) : /\ gs = Frames(xs) /\ Len(gs) = Len(xs)
                            /\ \A i \in 1 .. Len(xs) : gs[i] = frame_message(xs[i])
    BY <1>1, FramesAre
  <1>6. PICK hs \in Seq(V) : /\ hs = Append(fs, f) /\ Len(hs) = Len(fs) + 1 /\ hs[Len(fs) + 1] = f
                            /\ \A i \in 1 .. Len(fs) : hs[i] = fs[i]
    <2>1. /\ Append(fs, f) \in Seq(V) /\ Len(Append(fs, f)) = Len(fs) + 1
          /\ Append(fs, f)[Len(fs) + 1] = f
          /\ \A i \in 1 .. Len(fs) : Append(fs, f)[i] = fs[i]
      BY AppendIs
    <2>. QED  BY <2>1, Zenon
  <1>7. gs = hs
    <2>1. Len(ws) \in Nat
      OBVIOUS
    <2>2. Len(gs) = Len(hs)
      BY <1>3, <1>4, <1>5, <1>6
    <2>3. ASSUME NEW i \in 1 .. Len(gs) PROVE gs[i] = hs[i]
      <3>1. gs[i] = frame_message(xs[i])
        BY <1>5, <2>3
      <3>2. CASE i \in 1 .. Len(ws)
        BY <1>3, <1>4, <1>6, <3>1, <3>2
      <3>3. CASE i = Len(ws) + 1
        BY <1>2, <1>3, <1>4, <1>6, <3>1, <3>3
      <3>. QED  BY <1>4, <1>5, <2>1, <3>2, <3>3
    <2>. QED  BY <2>2, <2>3, SeqEqual
  <1>8. FlattenSeq(hs) = FlattenSeq(fs) \o f
    BY <1>1, <1>6, FlattenAppend
  <1>. QED  BY <1>2, <1>3, <1>4, <1>5, <1>7, <1>8 DEF Framed

(* The bytes behind the first k messages begin with the next frame.          *)
LEMMA FramedSplit ==
  ASSUME NEW ws \in Seq(Short), NEW k \in Nat, k < Len(ws)
  PROVE  \E r \in Seq(Byte) :
           Framed(ws) = Framed(SubSeq(ws, 1, k)) \o (frame_message(ws[k + 1]) \o r)
  <1>1. PICK n \in Nat : n = Len(ws)
    OBVIOUS
  <1>2. PICK d \in Short : d = ws[k + 1]
    BY <1>1
  <1>3. PICK f \in Seq(Byte) : f = frame_message(d)
    BY FrameIs
  <1>4. PICK p \in Seq(Byte) : p = Framed(SubSeq(ws, 1, k))
    <2>1. SubSeq(ws, 1, k) \in Seq(Short)
      <3>1. k \in 0 .. Len(ws)
        BY <1>1
      <3>. QED  BY <3>1, FirstIs
    <2>. QED  BY <2>1, FramesAre
  <1>5. \A i \in 0 .. n : SubSeq(ws, 1, i) \in Seq(Short) /\ Framed(SubSeq(ws, 1, i)) \in Seq(Byte)
    <2>1. ASSUME NEW i \in 0 .. n
          PROVE  SubSeq(ws, 1, i) \in Seq(Short) /\ Framed(SubSeq(ws, 1, i)) \in Seq(Byte)
      <3>1. SubSeq(ws, 1, i) \in Seq(Short)
        BY <1>1, FirstIs
      <3>. QED  BY <3>1, FramesAre
    <2>. QED  BY <2>1
  <1>6. ASSUME NEW i \in Nat, i < n
        PROVE  Framed(SubSeq(ws, 1, i + 1)) = Framed(SubSeq(ws, 1, i)) \o frame_message(ws[i + 1])
    <2>1. PICK e \in Short : e = ws[i + 1]
      BY <1>1, <1>6
    <2>2. PICK a \in Seq(Short) : a = SubSeq(ws, 1, i)
      <3>1. i \in 0 .. n
        BY <1>6
      <3>. QED  BY <1>5, <3>1
    <2>3. Append(a, e) = SubSeq(ws, 1, i + 1)
      BY <1>1, <1>6, <2>1, <2>2, FirstAndNext
    <2>4. Framed(Append(a, e)) = Framed(a) \o frame_message(e)
      BY FramedAppend
    <2>. QED  BY <2>1, <2>2, <2>3, <2>4
  <1> DEFINE Begins(i) == \E r \in Seq(Byte) : Framed(SubSeq(ws, 1, i)) = p \o (f \o r)
             S == {m \in Nat : k + 1 + m <= n => Begins(k + 1 + m)}
  <1>7. 0 \in S
    <2>1. Framed(SubSeq(ws, 1, k + 1)) = p \o f
      BY <1>1, <1>2, <1>3, <1>4, <1>6
    <2>2. f \o <<>> = f /\ <<>> \in Seq(Byte)
      BY ConcatEmptySeq
    <2>3. k + 1 + 0 = k + 1
      OBVIOUS
    <2>. QED  BY <2>1, <2>2, <2>3
  <1>8. ASSUME NEW m \in Nat, m \in S PROVE m + 1 \in S
    <2> SUFFICES ASSUME k + 1 + (m + 1) <= n
                 PROVE  Begins(k + 1 + (m + 1))
      <3> HIDE DEF Begins
      <3>. QED  OBVIOUS
    <2>1. PICK i \in Nat : i = k + 1 + m /\ i < n /\ i + 1 = k + 1 + (m + 1) /\ i + 1 \in 1 .. n
      OBVIOUS
    <2>2. PICK r \in Seq(Byte) : Framed(SubSeq(ws, 1, i)) = p \o (f \o r)
      <3>1. Begins(i)
        <4> HIDE DEF Begins
        <4>. QED  BY <1>8, <2>1
      <3>. QED  BY <3>1
    <2>3. PICK g \in Seq(Byte) : g = frame_message(ws[i + 1])
      <3>1. ws[i + 1] \in Short
        BY <1>1, <2>1
      <3>. QED  BY <3>1, FrameIs
    <2>4. Framed(SubSeq(ws, 1, i + 1)) = (p \o (f \o r)) \o g
      BY <1>6, <2>1, <2>2, <2>3
    <2>5. f \o r \in Seq(Byte) /\ r \o g \in Seq(Byte)
      BY ConcatIs
    <2>6. (p \o (f \o r)) \o g = p \o ((f \o r) \o g)
      BY <2>5, Regroup, SMTT(30)
    <2>7. (f \o r) \o g = f \o (r \o g)
      BY Regroup
    <2>8. Framed(SubSeq(ws, 1, i + 1)) = p \o (f \o (r \o g))
      BY <2>4, <2>6, <2>7
    <2>9. Begins(i + 1)
      BY <2>5, <2>8
    <2>. QED  BY <2>1, <2>9
  <1>9. Nat \subseteq S
    <2> HIDE DEF S
    <2>. QED  BY <1>7, <1>8, SetInduction
  <1>10. PICK m \in Nat : k + 1 + m = n
    <2>1. n - (k + 1) \in Nat /\ k + 1 + (n - (k + 1)) = n
      BY <1>1
    <2>. QED  BY <2>1
  <1>11. SubSeq(ws, 1, n) = ws
    BY <1>1, SubSeqFull
  <1>12. Begins(n)
    <2>1. m \in S
      BY <1>9, Zenon
    <2>2. k + 1 + m <= n => Begins(k + 1 + m)
      BY <2>1, Zenon
    <2>3. k + 1 + m <= n
      BY <1>10
    <2>. HIDE DEF Begins, S
    <2>. QED  BY <1>10, <2>2, <2>3, Zenon
  <1>. QED  BY <1>2, <1>3, <1>4, <1>11, <1>12

(* Of a stream of the messages ws that ends with t, the messages in found    *)
(* have been taken and rest is left.                                         *)
Parsed(ws, t, found, rest) ==
  /\ found \in Seq(Short) /\ rest \in Seq(Byte)
  /\ Len(found) <= Len(ws) /\ found = SubSeq(ws, 1, Len(found))
  /\ Framed(found) \o rest = Framed(ws) \o t

(* A buffer with a message in it has the next message.                       *)
LEMMA ParsedNext ==
  ASSUME NEW ws \in Seq(Short), NEW t \in Seq(Byte), Open(t), NEW found,
         NEW b \in Seq(Byte), NEW w \in Seq(Byte), Parsed(ws, t, found, b \o w), HasMessage(b)
  PROVE  /\ FirstMessage(b) \in Short /\ AfterMessage(b) \in Seq(Byte)
         /\ Len(AfterMessage(b)) < Len(b)
         /\ Parsed(ws, t, Append(found, FirstMessage(b)), AfterMessage(b) \o w)
  <1>1. PICK z \in Seq(Byte) : z = b \o w
    BY ConcatIs
  <1>2. PICK k \in Nat : k = Len(found) /\ k <= Len(ws) /\ found = SubSeq(ws, 1, k) /\ found \in Seq(Short)
    <2>1. found \in Seq(Short) /\ Len(found) <= Len(ws) /\ found = SubSeq(ws, 1, Len(found))
      BY DEF Parsed
    <2>2. Len(found) \in Nat
      BY <2>1
    <2>. QED  BY <2>1, <2>2, Zenon
  <1>3. PICK p \in Seq(Byte) : p = Framed(found)
    BY <1>2, FramesAre
  <1>4. PICK q \in Seq(Byte) : q = Framed(ws)
    BY FramesAre
  <1>5. p \o z = q \o t
    BY <1>1, <1>3, <1>4 DEF Parsed
  <1>6. CASE k = Len(ws)
    <2>1. found = ws
      BY <1>2, <1>6, SubSeqFull
    <2>2. p \o z = p \o t
      BY <1>3, <1>4, <1>5, <2>1
    <2>3. z = t
      BY <2>2, Cancel
    <2>. QED  BY <1>1, <2>3, NoneInPart
  <1>7. CASE k < Len(ws)
    <2>1. PICK r \in Seq(Byte) : Framed(ws) = Framed(SubSeq(ws, 1, k)) \o (frame_message(ws[k + 1]) \o r)
      BY <1>7, FramedSplit
    <2>2. PICK d \in Short : d = ws[k + 1]
      BY <1>7
    <2>3. PICK f \in Seq(Byte) : f = frame_message(d)
      BY FrameIs
    <2>4. PICK y \in Seq(Byte) : y = r \o t
      BY ConcatIs
    <2>5. PICK x \in Seq(Byte) : x = f \o r
      BY ConcatIs
    <2>6. q = p \o x
      BY <1>2, <1>3, <1>4, <2>1, <2>2, <2>3, <2>5
    <2>7. z = f \o y
      <3>1. Cat(p, z) = Cat(Cat(p, Cat(f, r)), t)
        BY <1>5, <2>5, <2>6, Zenon DEF Cat
      <3>2. z = Cat(f, Cat(r, t))
        BY <3>1, Peel
      <3>. QED  BY <2>4, <3>2, Zenon DEF Cat
    <2>8. b \o w = frame_message(d) \o y
      BY <1>1, <2>3, <2>7
    <2>9. /\ FirstMessage(b) = d /\ AfterMessage(b) \in Seq(Byte)
          /\ AfterMessage(b) \o w = y /\ Len(AfterMessage(b)) < Len(b)
      BY <2>8, TakesMessage
    <2>10. PICK new \in Seq(Short) : new = Append(found, d) /\ Len(new) = k + 1
      <3>1. Append(found, d) \in Seq(Short) /\ Len(Append(found, d)) = Len(found) + 1
        BY <1>2, AppendIs
      <3>. QED  BY <1>2, <3>1
    <2>11. new = SubSeq(ws, 1, k + 1)
      BY <1>2, <1>7, <2>2, <2>10, FirstAndNext
    <2>12. Framed(new) \o y = q \o t
      <3>1. Framed(new) = p \o f
        BY <1>2, <1>3, <2>3, <2>10, FramedAppend
      <3>2. (p \o f) \o y = p \o (f \o y)
        <4>1. Cat(Cat(p, f), y) = Cat(p, Cat(f, y))
          BY CatFacts
        <4>. QED  BY <4>1, Zenon DEF Cat
      <3>. QED  BY <1>5, <2>7, <3>1, <3>2
    <2>13. k + 1 <= Len(ws)
      BY <1>7
    <2>14. Parsed(ws, t, new, y)
      BY <1>4, <2>10, <2>11, <2>12, <2>13 DEF Parsed
    <2>. QED  BY <2>9, <2>10, <2>14
  <1>. QED  BY <1>2, <1>6, <1>7

(* A stream without a message in it has none left.                           *)
LEMMA ParsedAll ==
  ASSUME NEW ws \in Seq(Short), NEW t \in Seq(Byte), NEW found,
         NEW b \in Seq(Byte), Parsed(ws, t, found, b), ~HasMessage(b)
  PROVE  found = ws
  <1>1. PICK k \in Nat : k = Len(found) /\ k <= Len(ws) /\ found = SubSeq(ws, 1, k) /\ found \in Seq(Short)
    <2>1. found \in Seq(Short) /\ Len(found) <= Len(ws) /\ found = SubSeq(ws, 1, Len(found))
      BY DEF Parsed
    <2>2. Len(found) \in Nat
      BY <2>1
    <2>. QED  BY <2>1, <2>2, Zenon
  <1>2. CASE k = Len(ws)
    BY <1>1, <1>2, SubSeqFull
  <1>3. CASE k < Len(ws)
    <2>1. PICK r \in Seq(Byte) : Framed(ws) = Framed(SubSeq(ws, 1, k)) \o (frame_message(ws[k + 1]) \o r)
      BY <1>3, FramedSplit
    <2>2. PICK d \in Short : d = ws[k + 1]
      BY <1>3
    <2>3. PICK f \in Seq(Byte) : f = frame_message(d) /\ Len(f) = PrefixLen + Len(d) /\ Len(d) \in Nat
      BY FrameIs
    <2>4. PICK p \in Seq(Byte) : p = Framed(found)
      BY <1>1, FramesAre
    <2>5. PICK y \in Seq(Byte) : y = r \o t
      BY ConcatIs
    <2>7. p \o b = (p \o (f \o r)) \o t
      BY <1>1, <2>1, <2>2, <2>3, <2>4 DEF Parsed
    <2>8. b = f \o y
      <3>1. Cat(p, b) = Cat(Cat(p, Cat(f, r)), t)
        BY <2>7, Zenon DEF Cat
      <3>2. b = Cat(f, Cat(r, t))
        BY <3>1, Peel
      <3>. QED  BY <2>5, <3>2, Zenon DEF Cat
    <2>9. b \o <<>> = frame_message(d) \o y /\ <<>> \in Seq(Byte)
      BY <2>3, <2>8, ConcatEmptySeq
    <2>10. HasMessage(b) <=> Len(b) >= PrefixLen + Len(d)
      BY <2>9, TakesMessage
    <2>11. Len(b) = Len(f) + Len(y) /\ Len(y) \in Nat
      BY <2>8, ConcatIs
    <2>. QED  BY <2>3, <2>10, <2>11, BaseFacts
  <1>. QED  BY <1>1, <1>2, <1>3

(* A round of the extraction.                                                *)
After(v) == [found |-> Append(v.found, FirstMessage(v.rest)), rest |-> AfterMessage(v.rest)]
Round(v) == IF HasMessage(v.rest) THEN After(v) ELSE v

(* The states that extraction goes through: found had been taken before, w  *)
(* has not come yet.                                                         *)
States(ws, t, found, w) ==
  {v \in [found : Seq(Short), rest : Seq(Byte)] : Parsed(ws, t, found \o v.found, v.rest \o w)}

(* A round leads from one to another, and takes a byte at least.             *)
LEMMA RoundIs ==
  ASSUME NEW ws \in Seq(Short), NEW t \in Seq(Byte), Open(t), NEW found \in Seq(Short),
         NEW w \in Seq(Byte), NEW v \in States(ws, t, found, w)
  PROVE  /\ Round(v) \in States(ws, t, found, w)
         /\ HasMessage(v.rest) => Len(Round(v).rest) < Len(v.rest)
         /\ ~HasMessage(v.rest) => Round(v) = v
  <1>1. CASE ~HasMessage(v.rest)
    BY <1>1 DEF Round
  <1>2. CASE HasMessage(v.rest)
    <2>1. PICK b \in Seq(Byte) : b = v.rest
      BY DEF States
    <2>2. PICK p \in Seq(Short) : p = v.found
      BY DEF States
    <2>3. PICK g \in Seq(Short) : g = found \o p
      BY ConcatIs
    <2>4. Parsed(ws, t, g, b \o w)
      BY <2>1, <2>2, <2>3 DEF States
    <2>5. /\ FirstMessage(b) \in Short /\ AfterMessage(b) \in Seq(Byte)
          /\ Len(AfterMessage(b)) < Len(b)
          /\ Parsed(ws, t, Append(g, FirstMessage(b)), AfterMessage(b) \o w)
      BY <1>2, <2>1, <2>4, ParsedNext
    <2>6. PICK a \in Seq(Byte) : a = AfterMessage(b) /\ Len(a) < Len(b)
      BY <2>5
    <2>7. PICK x \in Short : x = FirstMessage(b)
      BY <2>5
    <2>8. PICK q \in Seq(Short) : q = Append(p, x)
      BY AppendIs
    <2>9. Append(g, x) = found \o q
      <3>1. Append(Cat(found, p), x) = Cat(found, Append(p, x))
        BY AppendBehind
      <3>. QED  BY <2>3, <2>8, <3>1, Zenon DEF Cat
    <2>10. Round(v) = [found |-> q, rest |-> a]
      BY <1>2, <2>1, <2>2, <2>6, <2>7, <2>8 DEF Round, After
    <2>11. Parsed(ws, t, found \o q, a \o w)
      BY <2>5, <2>6, <2>7, <2>9
    <2>12. Round(v) \in States(ws, t, found, w) /\ Round(v).rest = a
      BY <2>10, <2>11 DEF States
    <2>. QED  BY <1>2, <2>1, <2>6, <2>12
  <1>. QED  BY <1>1, <1>2

(* A byte taken for a round.                                                 *)
LEMMA ByteForRound ==
  \A x, y, k, n \in Nat : (x + k <= n /\ y < x) => y + (k + 1) <= n
  OBVIOUS

(* Extraction takes the next messages until the buffer has none.  What comes *)
(* behind the buffer does not matter.                                        *)
LEMMA ExtractedIs ==
  ASSUME NEW ws \in Seq(Short), NEW t \in Seq(Byte), Open(t), NEW found \in Seq(Short),
         NEW st \in Seq(Byte), NEW w \in Seq(Byte), Parsed(ws, t, found, st \o w)
  PROVE  /\ Extracted(st).found \in Seq(Short) /\ Extracted(st).rest \in Seq(Byte)
         /\ ~HasMessage(Extracted(st).rest)
         /\ Parsed(ws, t, found \o Extracted(st).found, Extracted(st).rest \o w)
  <1>2. PICK n \in Nat : n = Len(st)
    OBVIOUS
  <1>3. PICK V : V = States(ws, t, found, w)
    OBVIOUS
  <1>4. PICK first : first = [found |-> <<>>, rest |-> st]
    OBVIOUS
  <1>5. first \in V
    <2>1. <<>> \in Seq(Short) /\ found \o <<>> = found
      BY ConcatEmptySeq
    <2>. QED  BY <1>3, <1>4, <2>1 DEF States
  <1>6. \A v \in V : /\ Round(v) \in V /\ Len(v.rest) \in Nat
                     /\ HasMessage(v.rest) => Len(Round(v).rest) < Len(v.rest) /\ Len(v.rest) >= 1
                     /\ ~HasMessage(v.rest) => Round(v) = v
    <2> SUFFICES ASSUME NEW v \in V
                 PROVE  /\ Round(v) \in V /\ Len(v.rest) \in Nat
                        /\ HasMessage(v.rest) => Len(Round(v).rest) < Len(v.rest) /\ Len(v.rest) >= 1
                        /\ ~HasMessage(v.rest) => Round(v) = v
      OBVIOUS
    <2>1. /\ Round(v) \in V
          /\ HasMessage(v.rest) => Len(Round(v).rest) < Len(v.rest)
          /\ ~HasMessage(v.rest) => Round(v) = v
      BY <1>3, RoundIs
    <2>2. v.rest \in Seq(Byte)
      BY <1>3 DEF States
    <2>3. HasMessage(v.rest) => Len(v.rest) >= 1
      BY <2>2, BaseFacts DEF HasMessage
    <2>4. Len(v.rest) \in Nat
      BY <2>2
    <2>. QED  BY <2>1, <2>3, <2>4
  <1> DEFINE step == [k \in 1 .. n |-> [v \in V |-> Round(v)]]
             Is(u) == u = [k \in 0 .. n |->
                             IF k = 0 THEN [found |-> <<>>, rest |-> st]
                             ELSE LET r == u[k - 1] IN
                                  IF HasMessage(r.rest)
                                    THEN [found |-> Append(r.found, FirstMessage(r.rest)),
                                          rest  |-> AfterMessage(r.rest)]
                                    ELSE r]
             round == CHOOSE u : Is(u)
  <1>7. step \in [1 .. n -> [V -> V]]
    BY <1>6
  <1>8. PICK f \in [0 .. n -> V] : IsIteration(f, first, step, n)
    <2> HIDE DEF step
    <2>. QED  BY <1>5, <1>7, IterationExists
  <1>9. Is(f)
    <2>1. ASSUME NEW k \in 1 .. n PROVE f[k] = Round(f[k - 1])
      <3>1. f[k] = step[k][f[k - 1]]
        BY <1>8 DEF IsIteration
      <3>2. f[k - 1] \in V
        BY <1>8
      <3>. QED  BY <3>1, <3>2
    <2>2. f[0] = first
      BY <1>8 DEF IsIteration
    <2>3. ASSUME NEW k \in 0 .. n
          PROVE  f[k] = IF k = 0 THEN first ELSE Round(f[k - 1])
      BY <2>1, <2>2
    <2>4. f = [k \in 0 .. n |-> IF k = 0 THEN first ELSE Round(f[k - 1])]
      BY <2>3
    <2>. QED  BY <1>4, <2>4, Zenon DEF Round, After
  <1>10. Is(round)
    BY <1>9, Zenon
  <1>11. Extracted(st) = round[n]
    BY <1>2 DEF Extracted
  <1> HIDE DEF round
  <1>12. round[0] = first /\ \A k \in 1 .. n : round[k] = Round(round[k - 1])
    <2>1. round = [k \in 0 .. n |-> IF k = 0 THEN first ELSE Round(round[k - 1])]
      BY <1>4, <1>10, Zenon DEF Round, After
    <2>. QED  BY <2>1
  <1> DEFINE Spent(k) == ~HasMessage(round[k].rest) \/ Len(round[k].rest) + k <= n
             S == {k \in Nat : k <= n => round[k] \in V /\ Spent(k)}
  <1>13. 0 \in S
    BY <1>2, <1>4, <1>5, <1>12
  <1>14. ASSUME NEW k \in Nat, k \in S PROVE k + 1 \in S
    <2> SUFFICES ASSUME k + 1 <= n PROVE round[k + 1] \in V /\ Spent(k + 1)
      <3> HIDE DEF Spent
      <3>. QED  OBVIOUS
    <2>1. PICK v \in V : v = round[k] /\ (~HasMessage(v.rest) \/ Len(v.rest) + k <= n)
      BY <1>14
    <2>2. k + 1 \in 1 .. n /\ (k + 1) - 1 = k
      OBVIOUS
    <2>3. round[k + 1] = Round(v)
      BY <1>12, <2>1, <2>2
    <2>4. PICK u \in V : u = Round(v) /\ Len(u.rest) \in Nat
      BY <1>6
    <2>5. ~HasMessage(u.rest) \/ Len(u.rest) + (k + 1) <= n
      <3>1. CASE HasMessage(v.rest)
        <4>1. Len(v.rest) + k <= n /\ Len(v.rest) \in Nat /\ Len(u.rest) < Len(v.rest)
          BY <1>6, <2>1, <2>4, <3>1
        <4>2. PICK x \in Nat, y \in Nat : x = Len(v.rest) /\ y = Len(u.rest) /\ x + k <= n /\ y < x
          BY <2>4, <4>1, Zenon
        <4>3. y + (k + 1) <= n
          BY <4>2, ByteForRound, Zenon
        <4>. QED  BY <4>2, <4>3, Zenon
      <3>2. CASE ~HasMessage(v.rest)
        BY <1>6, <2>4, <3>2
      <3>. QED  BY <3>1, <3>2
    <2>. QED  BY <2>3, <2>4, <2>5
  <1>15. Nat \subseteq S
    <2> HIDE DEF S
    <2>. QED  BY <1>13, <1>14, SetInduction
  <1>16. PICK v \in V : v = round[n] /\ (~HasMessage(v.rest) \/ Len(v.rest) + n <= n)
    <2>1. n \in S /\ n <= n
      <3> HIDE DEF S
      <3>. QED  BY <1>15
    <2>2. round[n] \in V /\ Spent(n)
      BY <2>1, Zenon
    <2>. QED  BY <2>2, Zenon
  <1>17. ~HasMessage(v.rest)
    BY <1>6, <1>16
  <1>18. /\ v.found \in Seq(Short) /\ v.rest \in Seq(Byte)
         /\ Parsed(ws, t, found \o v.found, v.rest \o w)
    BY <1>3 DEF States
  <1>. QED  BY <1>11, <1>16, <1>17, <1>18, Zenon

(* What extraction finds in the rest of a stream is what has not been found. *)
LEMMA RestIs ==
  ASSUME NEW ws \in Seq(Short), NEW t \in Seq(Byte), Open(t), NEW found \in Seq(Short),
         NEW st \in Seq(Byte), Parsed(ws, t, found, st)
  PROVE  ws = found \o Messages(st)
  <1>1. st \o <<>> = st /\ <<>> \in Seq(Byte)
    BY ConcatEmptySeq
  <1>2. Parsed(ws, t, found, st \o <<>>)
    BY <1>1
  <1>3. PICK e : e = Extracted(st)
    OBVIOUS
  <1>4. /\ e.found \in Seq(Short) /\ e.rest \in Seq(Byte) /\ ~HasMessage(e.rest)
        /\ Parsed(ws, t, found \o e.found, e.rest \o <<>>)
    BY <1>1, <1>2, <1>3, ExtractedIs
  <1>5. PICK r \in Seq(Byte) : r = e.rest /\ r \o <<>> = r
    BY <1>4, ConcatEmptySeq
  <1>6. Parsed(ws, t, found \o e.found, r) /\ ~HasMessage(r)
    BY <1>4, <1>5
  <1>7. found \o e.found = ws
    BY <1>6, ParsedAll
  <1>. QED  BY <1>3, <1>7 DEF Messages

(* Extraction finds the messages whose frames a stream consists of, and a    *)
(* part of a frame at its end does not matter.                               *)
LEMMA MessagesAre ==
  ASSUME NEW ws \in Seq(Short), NEW t \in Seq(Byte), Open(t), NEW st,
         st = Framed(ws) \o t
  PROVE  Messages(st) = ws
  <1>1. st \in Seq(Byte)
    BY FramesAre, ConcatIs
  <1>2. <<>> \in Seq(Short) /\ Len(<<>>) = 0 /\ <<>> = SubSeq(ws, 1, 0) /\ 0 <= Len(ws)
    OBVIOUS
  <1>3. Framed(<<>>) \o st = Framed(ws) \o t
    BY <1>1, FramedEmpty, ConcatEmptySeq
  <1>4. Parsed(ws, t, <<>>, st)
    BY <1>1, <1>2, <1>3 DEF Parsed
  <1>5. ws = <<>> \o Messages(st)
    BY <1>1, <1>2, <1>4, RestIs
  <1>6. Messages(st) \in Seq(Short)
    <2>1. st \o <<>> = st /\ <<>> \in Seq(Byte)
      BY <1>1, ConcatEmptySeq
    <2>. QED  BY <1>1, <1>2, <1>4, <2>1, ExtractedIs DEF Messages
  <1>. QED  BY <1>5, <1>6, ConcatEmptySeq
-----------------------------------------------------------------------------
(* Streams that grow, and bytes that move from the wire into a buffer. *)

(* What a stream may end with.                                               *)
Tails == {t \in Seq(Byte) : Open(t)}

(* The empty stream, and what it may end with.                               *)
LEMMA NoTail == <<>> \in Tails /\ Open(<<>>) /\ ~HasMessage(<<>>)
  <1>1. <<>> \in Seq(Byte) /\ Len(<<>>) = 0
    OBVIOUS
  <1>. QED  BY <1>1, BaseFacts DEF Tails, Open, HasMessage

(* Nothing sent, nothing received.                                           *)
LEMMA ParsedNone == Parsed(<<>>, <<>>, <<>>, <<>> \o <<>>)
  <1>1. <<>> \in Seq(Short) /\ <<>> \in Seq(Byte) /\ Len(<<>>) = 0 /\ <<>> = SubSeq(<<>>, 1, 0)
    OBVIOUS
  <1>2. <<>> \o <<>> = <<>>
    BY ConcatEmptySeq
  <1>. QED  BY <1>1, <1>2, FramedEmpty DEF Parsed

(* A part of a sequence and the part behind it.                              *)
LEMMA PartsJoin ==
  ASSUME NEW T, NEW f \in Seq(T), NEW m \in Nat, NEW n \in Nat, m + n <= Len(f)
  PROVE  /\ SubSeq(f, m + 1, m + n) \in Seq(T)
         /\ SubSeq(f, 1, m) \o SubSeq(f, m + 1, m + n) = SubSeq(f, 1, m + n)
  <1>1. PICK a \in Seq(T) : /\ a = SubSeq(f, 1, m) /\ Len(a) = m
                            /\ \A i \in 1 .. m : a[i] = f[i]
    <2>1. m \in 0 .. Len(f)
      OBVIOUS
    <2>2. /\ SubSeq(f, 1, m) \in Seq(T) /\ Len(SubSeq(f, 1, m)) = m
          /\ \A i \in 1 .. m : SubSeq(f, 1, m)[i] = f[i]
      BY <2>1, FirstIs
    <2>. QED  BY <2>2, Zenon
  <1>2. PICK b \in Seq(T) : /\ b = SubSeq(f, m + 1, m + n) /\ Len(b) = n
                            /\ \A i \in 1 .. n : b[i] = f[m + i]
    <2>1. /\ SubSeq(f, m + 1, m + n) \in Seq(T) /\ Len(SubSeq(f, m + 1, m + n)) = n
          /\ \A i \in 1 .. n : SubSeq(f, m + 1, m + n)[i] = f[m + i]
      <3>1. \A i \in m + 1 .. m + n : f[i] \in T
        OBVIOUS
      <3>2. m + 1 \in Int /\ m + n \in Int
        OBVIOUS
      <3>3. /\ SubSeq(f, m + 1, m + n) \in Seq(T)
            /\ Len(SubSeq(f, m + 1, m + n)) = IF m + 1 <= m + n THEN (m + n) - (m + 1) + 1 ELSE 0
            /\ \A i \in 1 .. (m + n) - (m + 1) + 1 : SubSeq(f, m + 1, m + n)[i] = f[(m + 1) + i - 1]
        BY <3>1, <3>2, SubSeqProperties
      <3>4. (m + n) - (m + 1) + 1 = n /\ (m + 1 <= m + n <=> n # 0)
            /\ \A i \in 1 .. n : (m + 1) + i - 1 = m + i
        OBVIOUS
      <3>. QED  BY <3>3, <3>4
    <2>. QED  BY <2>1, Zenon
  <1>3. PICK c \in Seq(T) : /\ c = SubSeq(f, 1, m + n) /\ Len(c) = m + n
                            /\ \A i \in 1 .. m + n : c[i] = f[i]
    <2>1. m + n \in 0 .. Len(f)
      OBVIOUS
    <2>2. /\ SubSeq(f, 1, m + n) \in Seq(T) /\ Len(SubSeq(f, 1, m + n)) = m + n
          /\ \A i \in 1 .. m + n : SubSeq(f, 1, m + n)[i] = f[i]
      BY <2>1, FirstIs
    <2>. QED  BY <2>2, Zenon
  <1>4. PICK d \in Seq(T) : /\ d = a \o b /\ Len(d) = m + n
                            /\ \A i \in 1 .. m : d[i] = a[i]
                            /\ \A i \in 1 .. n : d[m + i] = b[i]
    <2>1. /\ a \o b \in Seq(T) /\ Len(a \o b) = Len(a) + Len(b)
          /\ \A i \in 1 .. Len(a) : (a \o b)[i] = a[i]
          /\ \A i \in 1 .. Len(b) : (a \o b)[Len(a) + i] = b[i]
      BY ConcatIs
    <2>2. /\ a \o b \in Seq(T) /\ Len(a \o b) = m + n
          /\ \A i \in 1 .. m : (a \o b)[i] = a[i]
          /\ \A i \in 1 .. n : (a \o b)[m + i] = b[i]
      BY <1>1, <1>2, <2>1
    <2>. QED  BY <2>2, Zenon
  <1>5. ASSUME NEW i \in 1 .. m + n PROVE d[i] = c[i]
    <2>1. CASE i <= m
      BY <1>1, <1>3, <1>4, <2>1
    <2>2. CASE i > m
      <3>1. i - m \in 1 .. n /\ m + (i - m) = i
        BY <2>2
      <3>2. d[i] = f[i]
        BY <1>2, <1>4, <3>1
      <3>. QED  BY <1>3, <3>2
    <2>. QED  BY <2>1, <2>2
  <1>6. d = c
    BY <1>3, <1>4, <1>5, SeqEqual
  <1>. QED  BY <1>1, <1>2, <1>3, <1>4, <1>6

(* Bytes that go from the wire into the buffer.                              *)
LEMMA BytesMove ==
  ASSUME NEW b \in Seq(Byte), NEW w \in Seq(Byte), NEW n \in 1 .. Len(w)
  PROVE  /\ b \o SubSeq(w, 1, n) \in Seq(Byte) /\ SubSeq(w, n + 1, Len(w)) \in Seq(Byte)
         /\ (b \o SubSeq(w, 1, n)) \o SubSeq(w, n + 1, Len(w)) = b \o w
  <1>1. PICK m \in Nat : n + m = Len(w) /\ n \in Nat
    <2>1. Len(w) \in Nat /\ n \in Nat /\ n <= Len(w)
      OBVIOUS
    <2>2. Len(w) - n \in Nat /\ n + (Len(w) - n) = Len(w)
      BY <2>1
    <2>. QED  BY <2>1, <2>2, Zenon
  <1>2. PICK x \in Seq(Byte) : x = SubSeq(w, 1, n)
    <2>1. n \in 0 .. Len(w)
      OBVIOUS
    <2>. QED  BY <2>1, FirstIs
  <1>3. PICK y \in Seq(Byte) : y = SubSeq(w, n + 1, n + m)
    <2>1. n + m <= Len(w)
      BY <1>1
    <2>2. SubSeq(w, n + 1, n + m) \in Seq(Byte)
      BY <1>1, <2>1, PartsJoin
    <2>. QED  BY <2>2
  <1>4. SubSeq(w, 1, n) \o SubSeq(w, n + 1, n + m) = SubSeq(w, 1, n + m)
    BY <1>1, PartsJoin
  <1>5. SubSeq(w, 1, n + m) = w
    BY <1>1, SubSeqFull
  <1>6. Cat(x, y) = w
    BY <1>2, <1>3, <1>4, <1>5 DEF Cat
  <1>7. Cat(Cat(b, x), y) = Cat(b, w) /\ Cat(b, x) \in Seq(Byte)
    BY <1>6, CatFacts
  <1>. QED  BY <1>1, <1>2, <1>3, <1>7 DEF Cat

(* A frame more at the end of a stream of whole frames.                      *)
LEMMA ParsedMore ==
  ASSUME NEW ws \in Seq(Short), NEW d \in Short, NEW found, NEW b \in Seq(Byte), NEW w \in Seq(Byte),
         Parsed(ws, <<>>, found, b \o w)
  PROVE  Parsed(Append(ws, d), <<>>, found, b \o (w \o frame_message(d)))
  <1>1. PICK f \in Seq(Byte) : f = frame_message(d)
    BY FrameIs
  <1>2. PICK p \in Seq(Byte) : p = Framed(found) /\ found \in Seq(Short)
    BY FramesAre DEF Parsed
  <1>3. PICK q \in Seq(Byte) : q = Framed(ws)
    BY FramesAre
  <1>4. PICK z \in Seq(Byte) : z = Cat(b, w)
    BY CatFacts
  <1>5. PICK y \in Seq(Byte) : y = Cat(w, f)
    BY CatFacts
  <1>6. Cat(p, z) = q
    <2>1. Framed(found) \o (b \o w) = Framed(ws) \o <<>>
      BY DEF Parsed
    <2>2. q \o <<>> = q
      BY ConcatEmptySeq
    <2>. QED  BY <1>2, <1>3, <1>4, <2>1, <2>2 DEF Cat
  <1>7. Cat(p, Cat(b, y)) = Cat(q, f) /\ Cat(b, y) \in Seq(Byte) /\ Cat(q, f) \in Seq(Byte)
    <2>1. Cat(Cat(p, z), f) = Cat(p, Cat(z, f)) /\ Cat(z, f) = Cat(b, y)
      BY <1>4, <1>5, CatFacts
    <2>. QED  BY <1>6, <2>1, CatFacts
  <1>8. Framed(Append(ws, d)) = q \o f
    BY <1>1, <1>3, FramedAppend
  <1>9. (q \o f) \o <<>> = q \o f
    BY <1>7, ConcatEmptySeq DEF Cat
  <1>10. Framed(found) \o (b \o (w \o f)) = Framed(Append(ws, d)) \o <<>>
    BY <1>2, <1>5, <1>7, <1>8, <1>9 DEF Cat
  <1>11. PICK k \in Nat : k = Len(found) /\ k <= Len(ws) /\ found = SubSeq(ws, 1, k)
    <2>1. Len(found) \in Nat
      BY <1>2
    <2>2. Len(found) <= Len(ws) /\ found = SubSeq(ws, 1, Len(found))
      BY DEF Parsed
    <2>. QED  BY <2>1, <2>2, Zenon
  <1>12. k <= Len(Append(ws, d)) /\ SubSeq(Append(ws, d), 1, k) = SubSeq(ws, 1, k)
    BY <1>11, PrefixOfAppend
  <1>13. b \o (w \o f) \in Seq(Byte)
    BY <1>5, <1>7 DEF Cat
  <1>. QED  BY <1>1, <1>2, <1>10, <1>11, <1>12, <1>13 DEF Parsed

(* A part of a frame at the end of a stream of whole frames.                 *)
LEMMA ParsedCut ==
  ASSUME NEW ws \in Seq(Short), NEW t \in Seq(Byte), NEW found, NEW b \in Seq(Byte),
         NEW w \in Seq(Byte), Parsed(ws, <<>>, found, b \o w)
  PROVE  Parsed(ws, t, found, b \o (w \o t))
  <1>1. PICK p \in Seq(Byte) : p = Framed(found) /\ found \in Seq(Short)
    BY FramesAre DEF Parsed
  <1>2. PICK q \in Seq(Byte) : q = Framed(ws)
    BY FramesAre
  <1>3. PICK z \in Seq(Byte) : z = Cat(b, w)
    BY CatFacts
  <1>4. PICK y \in Seq(Byte) : y = Cat(w, t)
    BY CatFacts
  <1>5. Cat(p, z) = q
    <2>1. Framed(found) \o (b \o w) = Framed(ws) \o <<>>
      BY DEF Parsed
    <2>2. q \o <<>> = q
      BY ConcatEmptySeq
    <2>. QED  BY <1>1, <1>2, <1>3, <2>1, <2>2 DEF Cat
  <1>6. Cat(p, Cat(b, y)) = Cat(q, t) /\ Cat(b, y) \in Seq(Byte)
    <2>1. Cat(Cat(p, z), t) = Cat(p, Cat(z, t)) /\ Cat(z, t) = Cat(b, y)
      BY <1>3, <1>4, CatFacts
    <2>. QED  BY <1>5, <2>1, CatFacts
  <1>7. Framed(found) \o (b \o (w \o t)) = Framed(ws) \o t /\ b \o (w \o t) \in Seq(Byte)
    BY <1>1, <1>2, <1>4, <1>6 DEF Cat
  <1>. QED  BY <1>7 DEF Parsed
=============================================================================
