----------------------------- MODULE ListFacts -----------------------------
(***************************************************************************)
(* Facts that the proofs share: the least of a set of naturals, induction  *)
(* stated for a set instead of a predicate, functions defined by iteration *)
(* and, from them, what the operations of module Lists return.             *)
(***************************************************************************)
EXTENDS Lists, SequencesExt, TLAPS, WellFoundedInduction, SequenceTheorems

(* A set of naturals that is not empty has a least element. *)
LEMMA LeastNat ==
  ASSUME NEW S, S \subseteq Nat, S # {}
  PROVE  \E m \in S : \A n \in S : m <= n
  <1> DEFINE R == OpToRel(<, Nat)
  <1>1. \A n, m \in Nat : <<n, m>> \in R <=> n < m
    BY DEF OpToRel
  <1>2. IsWellFoundedOn(R, Nat)
    BY NatLessThanWellFounded
  <1> HIDE DEF R
  <1>3. PICK m \in S : \A n \in S : <<n, m>> \notin R
    BY <1>2, WFMin, Zenon
  <1>4. \A n \in S : ~(n < m)
    BY <1>1, <1>3
  <1>. QED  BY <1>4

(* A set that has 0, and with a number the next one, has all naturals. *)
LEMMA SetInduction ==
  ASSUME NEW S, 0 \in S, \A n \in Nat : n \in S => n + 1 \in S
  PROVE  Nat \subseteq S
  <1> SUFFICES ASSUME ~(Nat \subseteq S) PROVE FALSE
    OBVIOUS
  <1> DEFINE T == Nat \ S
  <1>1. PICK m \in T : \A n \in T : m <= n
    BY LeastNat, T \subseteq Nat, T # {}, Zenon
  <1>2. m \in Nat /\ m # 0 /\ m \notin S
    BY <1>1
  <1>3. m - 1 \in Nat /\ ~(m <= m - 1)
    BY <1>2
  <1>4. m - 1 \in S
    BY <1>1, <1>3
  <1>. QED  BY <1>2, <1>3, <1>4
-----------------------------------------------------------------------------
(***************************************************************************)
(* Iteration of the functions step[1], ..., step[n], from c.  A recursive  *)
(* definition over 0 .. n is unfolded by giving its step as such a family. *)
(***************************************************************************)
IsIteration(f, c, step, n) ==
  f[0] = c /\ \A k \in 1 .. n : f[k] = step[k][f[k - 1]]

(* A loop over n rounds has a trace: the value after each round.             *)
LEMMA IterationExists ==
  ASSUME NEW V, NEW c \in V, NEW n \in Nat, NEW step \in [1 .. n -> [V -> V]]
  PROVE  \E f \in [0 .. n -> V] : IsIteration(f, c, step, n)
  <1> DEFINE S == {m \in Nat : m <= n => \E f \in [0 .. m -> V] : IsIteration(f, c, step, m)}
  <1>1. 0 \in S
    <2>1. [k \in 0 .. 0 |-> c] \in [0 .. 0 -> V]
      OBVIOUS
    <2>2. IsIteration([k \in 0 .. 0 |-> c], c, step, 0)
      BY DEF IsIteration
    <2>. QED  BY <2>1, <2>2
  <1>2. ASSUME NEW m \in Nat, m \in S PROVE m + 1 \in S
    <2> SUFFICES ASSUME m + 1 <= n
                 PROVE  \E g \in [0 .. m + 1 -> V] : IsIteration(g, c, step, m + 1)
      OBVIOUS
    <2>1. PICK f \in [0 .. m -> V] : IsIteration(f, c, step, m)
      BY <1>2
    <2> DEFINE g == [k \in 0 .. m + 1 |-> IF k = m + 1 THEN step[m + 1][f[m]] ELSE f[k]]
    <2>2. step[m + 1] \in [V -> V] /\ f[m] \in V
      OBVIOUS
    <2>3. g \in [0 .. m + 1 -> V]
      BY <2>2
    <2>4. IsIteration(g, c, step, m + 1)
      BY <2>1 DEF IsIteration
    <2>. QED  BY <2>3, <2>4
  <1>3. n \in S
    <2> HIDE DEF S
    <2>. QED  BY <1>1, <1>2, SetInduction
  <1>. QED  BY <1>3

(* Two traces of the same loop agree in every round.                         *)
LEMMA IterationUnique ==
  ASSUME NEW c, NEW n \in Nat, NEW step, NEW f, NEW g,
         IsIteration(f, c, step, n), IsIteration(g, c, step, n)
  PROVE  \A k \in 0 .. n : f[k] = g[k]
  <1> DEFINE S == {m \in Nat : m <= n => f[m] = g[m]}
  <1>1. 0 \in S
    BY DEF IsIteration
  <1>2. ASSUME NEW m \in Nat, m \in S PROVE m + 1 \in S
    BY <1>2 DEF IsIteration
  <1>3. Nat \subseteq S
    <2> HIDE DEF S
    <2>. QED  BY <1>1, <1>2, SetInduction
  <1>. QED  BY <1>3
-----------------------------------------------------------------------------
(* The partial sums of a sequence of naturals. *)
PartialSums(f, s) ==
  /\ f \in [0 .. Len(s) -> Nat] /\ f[0] = 0
  /\ \A k \in 1 .. Len(s) : f[k] = f[k - 1] + s[k]

(* The sum of a list is the last of its partial sums.                        *)
LEMMA SumUnfolds ==
  ASSUME NEW s \in Seq(Nat)
  PROVE  \E f : PartialSums(f, s) /\ SumOf(s) = f[Len(s)]
  <1> DEFINE n == Len(s)
             step == [k \in 1 .. n |-> [v \in Nat |-> v + s[k]]]
             IsSum(u) == u = [k \in 0 .. n |-> IF k = 0 THEN 0 ELSE u[k - 1] + s[k]]
             upto == CHOOSE u : IsSum(u)
  <1>1. n \in Nat /\ step \in [1 .. n -> [Nat -> Nat]]
    OBVIOUS
  <1>2. PICK f \in [0 .. n -> Nat] : IsIteration(f, 0, step, n)
    <2> HIDE DEF n, step
    <2>. QED  BY <1>1, IterationExists
  <1>3. PartialSums(f, s)
    <2>1. ASSUME NEW k \in 1 .. n PROVE f[k] = f[k - 1] + s[k]
      <3>1. f[k] = step[k][f[k - 1]]
        BY <1>2 DEF IsIteration
      <3>2. k - 1 \in 0 .. n
        BY <1>1
      <3>. QED  BY <3>1, <3>2
    <2>. QED  BY <1>2, <2>1 DEF IsIteration, PartialSums
  <1>4. IsSum(f)
    BY <1>3 DEF PartialSums
  <1>5. IsSum(upto)
    BY <1>4, Zenon
  <1>6. IsIteration(upto, 0, step, n)
    <2> HIDE DEF upto
    <2>1. upto[0] = 0
      BY <1>1, <1>5
    <2>2. ASSUME NEW k \in 1 .. n PROVE upto[k] = upto[k - 1] + s[k] /\ k - 1 \in 0 .. n
      BY <1>1, <1>5
    <2>. DEFINE S == {m \in Nat : m <= n => upto[m] \in Nat}
    <2>3. 0 \in S
      BY <2>1
    <2>4. ASSUME NEW m \in Nat, m \in S PROVE m + 1 \in S
      <3> SUFFICES ASSUME m + 1 <= n PROVE upto[m + 1] \in Nat
        OBVIOUS
      <3>1. m + 1 \in 1 .. n /\ upto[m] \in Nat
        BY <1>1, <2>4
      <3>2. s[m + 1] \in Nat
        BY <3>1
      <3>3. upto[m + 1] = upto[m] + s[m + 1]
        BY <2>2, <3>1
      <3>. QED  BY <3>1, <3>2, <3>3
    <2>5. Nat \subseteq S
      <3> HIDE DEF S
      <3>. QED  BY <2>3, <2>4, SetInduction
    <2>6. ASSUME NEW k \in 1 .. n PROVE upto[k - 1] \in Nat
      BY <1>1, <2>5
    <2>. QED  BY <2>1, <2>2, <2>6 DEF IsIteration
  <1>7. upto[n] = f[n]
    <2> HIDE DEF upto, n, step
    <2>. QED  BY <1>1, <1>2, <1>6, IterationUnique
  <1>8. SumOf(s) = upto[n]
    BY DEF SumOf
  <1>. QED  BY <1>3, <1>7, <1>8

(* What the sum of a sequence is. *)
LEMMA SumOfEmpty == SumOf(<<>>) = 0
  <1>1. <<>> \in Seq(Nat) /\ Len(<<>>) = 0
    OBVIOUS
  <1>2. PICK f : PartialSums(f, <<>>) /\ SumOf(<<>>) = f[Len(<<>>)]
    BY <1>1, SumUnfolds
  <1>. QED  BY <1>1, <1>2 DEF PartialSums

(* A sum of naturals is one.                                                 *)
LEMMA SumOfNat ==
  ASSUME NEW s \in Seq(Nat)
  PROVE  SumOf(s) \in Nat
  <1>1. PICK f : PartialSums(f, s) /\ SumOf(s) = f[Len(s)]
    BY SumUnfolds
  <1>. QED  BY <1>1 DEF PartialSums

(* Appending a number adds it to the sum.                                    *)
LEMMA SumOfAppend ==
  ASSUME NEW s \in Seq(Nat), NEW x \in Nat
  PROVE  SumOf(Append(s, x)) = SumOf(s) + x
  <1> DEFINE t == Append(s, x)  n == Len(s)
  <1>1. t \in Seq(Nat) /\ n \in Nat /\ Len(t) = n + 1 /\ t[n + 1] = x
        /\ \A k \in 1 .. n : t[k] = s[k]
    OBVIOUS
  <1>2. PICK f : PartialSums(f, s) /\ SumOf(s) = f[Len(s)]
    BY SumUnfolds
  <1>3. PICK g : PartialSums(g, t) /\ SumOf(t) = g[Len(t)]
    BY <1>1, SumUnfolds
  <1> HIDE DEF t
  <1> DEFINE S == {m \in Nat : m <= n => g[m] = f[m]}
  <1>4. 0 \in S
    BY <1>2, <1>3 DEF PartialSums
  <1>5. ASSUME NEW m \in Nat, m \in S PROVE m + 1 \in S
    BY <1>1, <1>2, <1>3, <1>5 DEF PartialSums
  <1>6. Nat \subseteq S
    <2> HIDE DEF S
    <2>. QED  BY <1>4, <1>5, SetInduction
  <1>7. g[n + 1] = g[n] + x /\ g[n] = f[n]
    <2>1. n + 1 \in 1 .. Len(t) /\ (n + 1) - 1 = n
      BY <1>1
    <2>2. g[n + 1] = g[(n + 1) - 1] + t[n + 1]
      BY <1>3, <2>1 DEF PartialSums
    <2>. QED  BY <1>1, <1>6, <2>1, <2>2
  <1>. QED  BY <1>1, <1>2, <1>3, <1>7 DEF t

(* The first number and the sum of the rest make the sum.                    *)
LEMMA SumOfHead ==
  ASSUME NEW s \in Seq(Nat), s # <<>>
  PROVE  SumOf(s) = Head(s) + SumOf(Tail(s))
  <1> DEFINE t == Tail(s)  n == Len(t)
  <1>1. t \in Seq(Nat) /\ n \in Nat /\ Len(s) = n + 1 /\ Head(s) = s[1] /\ s[1] \in Nat
        /\ \A k \in 1 .. n : t[k] = s[k + 1] /\ t[k] \in Nat
    OBVIOUS
  <1>2. PICK f : PartialSums(f, s) /\ SumOf(s) = f[Len(s)]
    BY SumUnfolds
  <1>3. PICK g : PartialSums(g, t) /\ SumOf(t) = g[Len(t)]
    BY <1>1, SumUnfolds
  <1> HIDE DEF t
  <1> DEFINE S == {m \in Nat : m <= n => f[m + 1] = s[1] + g[m]}
  <1>4. 0 \in S
    BY <1>1, <1>2, <1>3 DEF PartialSums
  <1>5. ASSUME NEW m \in Nat, m \in S PROVE m + 1 \in S
    <2> SUFFICES ASSUME m + 1 <= n PROVE f[m + 2] = s[1] + g[m + 1]
      BY <1>5
    <2>1. f[m + 1] = s[1] + g[m]
      BY <1>1, <1>5
    <2>2. m + 2 \in 1 .. Len(s) /\ m + 1 \in 1 .. n /\ m \in 0 .. n
      BY <1>1
    <2>3. f[m + 2] = f[m + 1] + s[m + 2]
      BY <1>2, <2>2 DEF PartialSums
    <2>4. g[m + 1] = g[m] + t[m + 1] /\ g[m] \in Nat
      <3>1. (m + 1) - 1 = m
        OBVIOUS
      <3>2. g[m + 1] = g[(m + 1) - 1] + t[m + 1]
        BY <1>3, <2>2 DEF PartialSums
      <3>3. g[m] \in Nat
        BY <1>3, <2>2 DEF PartialSums
      <3>. QED  BY <3>1, <3>2, <3>3
    <2>5. t[m + 1] = s[m + 2] /\ t[m + 1] \in Nat
      BY <1>1, <2>2
    <2>. QED  BY <1>1, <2>1, <2>3, <2>4, <2>5, SMTT(30)
  <1>6. Nat \subseteq S
    <2> HIDE DEF S
    <2>. QED  BY <1>4, <1>5, SetInduction
  <1>7. f[n + 1] = s[1] + g[n]
    BY <1>1, <1>6
  <1>. QED  BY <1>1, <1>2, <1>3, <1>7 DEF t
-----------------------------------------------------------------------------
(* What the first k members of s leave without those of D. *)
IsKept(u, s, D) ==
  /\ u[0] = <<>>
  /\ \A k \in 1 .. Len(s) : u[k] = IF s[k] \in D THEN u[k - 1] ELSE Append(u[k - 1], s[k])

(* Without is what the recursion in it says. *)
LEMMA WithoutUnfolds ==
  ASSUME NEW T, NEW s \in Seq(T), NEW D
  PROVE  \E u : IsKept(u, s, D) /\ Without(s, D) = u[Len(s)]
  <1> DEFINE n == Len(s)
             Step(k, v) == IF s[k] \in D THEN v ELSE Append(v, s[k])
             step == [k \in 1 .. n |-> [v \in Seq(T) |-> Step(k, v)]]
             Fits(u) == u = [k \in 0 .. n |-> IF k = 0 THEN <<>> ELSE Step(k, u[k - 1])]
             kept == CHOOSE u : Fits(u)
  <1>1. n \in Nat /\ \A k \in 1 .. n : s[k] \in T
    OBVIOUS
  <1>2. step \in [1 .. n -> [Seq(T) -> Seq(T)]] /\ <<>> \in Seq(T)
    <2>1. ASSUME NEW k \in 1 .. n, NEW v \in Seq(T) PROVE Step(k, v) \in Seq(T)
      BY <1>1
    <2>. HIDE DEF Step
    <2>. QED  BY <2>1
  <1>3. PICK f \in [0 .. n -> Seq(T)] : IsIteration(f, <<>>, step, n)
    <2> HIDE DEF n, step
    <2>. QED  BY <1>1, <1>2, IterationExists
  <1>4. Fits(f)
    <2>1. ASSUME NEW k \in 1 .. n PROVE f[k] = Step(k, f[k - 1])
      <3>1. f[k] = step[k][f[k - 1]] /\ k - 1 \in 0 .. n
        BY <1>1, <1>3 DEF IsIteration
      <3>. HIDE DEF Step
      <3>. QED  BY <3>1
    <2>2. f[0] = <<>>
      BY <1>3 DEF IsIteration
    <2>. HIDE DEF Step, n
    <2>3. ASSUME NEW k \in 0 .. n PROVE f[k] = IF k = 0 THEN <<>> ELSE Step(k, f[k - 1])
      BY <1>1, <2>1, <2>2
    <2>. QED  BY <1>1, <2>3
  <1>5. Fits(kept)
    BY <1>4, Zenon
  <1>6. Without(s, D) = kept[n]
    BY DEF Without, kept
  <1> HIDE DEF kept
  <1>7. kept[0] = <<>> /\ \A k \in 1 .. n : kept[k] = Step(k, kept[k - 1])
    <2>. HIDE DEF Step, n
    <2>. QED  BY <1>1, <1>5
  <1>8. IsKept(kept, s, D)
    BY <1>7, Zenon DEF IsKept
  <1>. QED  BY <1>6, <1>8, Zenon

(* Without keeps the members that are not in D, each as often as before. *)
LEMMA WithoutKeeps ==
  ASSUME NEW T, NEW s \in Seq(T), NEW D
  PROVE  /\ Without(s, D) \in Seq(T)
         /\ Range(Without(s, D)) = Range(s) \ D
         /\ IsInjective(s) => IsInjective(Without(s, D))
  <1>0. PICK kept : IsKept(kept, s, D) /\ Without(s, D) = kept[Len(s)]
    BY WithoutUnfolds
  <1> DEFINE n == Len(s)
             Step(k, v) == IF s[k] \in D THEN v ELSE Append(v, s[k])
             Good(k) ==
               /\ kept[k] \in Seq(T)
               /\ Range(kept[k]) = {s[i] : i \in 1 .. k} \ D
               /\ IsInjective(s) => IsInjective(kept[k])
  <1>1. n \in Nat /\ \A k \in 1 .. n : s[k] \in T
    OBVIOUS
  <1>6. kept[0] = <<>> /\ \A k \in 1 .. n : kept[k] = Step(k, kept[k - 1])
    BY <1>0, Zenon DEF IsKept
  <1> DEFINE S == {m \in Nat : m <= n => Good(m)}
  <1>7. 0 \in S
    <2>1. Range(<<>>) = {} /\ IsInjective(<<>>) /\ <<>> \in Seq(T)
      BY DEF Range, IsInjective
    <2>2. {s[i] : i \in 1 .. 0} = {}
      OBVIOUS
    <2>. QED  BY <1>6, <2>1, <2>2
  <1>8. ASSUME NEW m \in Nat, m \in S PROVE m + 1 \in S
    <2> SUFFICES ASSUME m + 1 <= n PROVE Good(m + 1)
      OBVIOUS
    <2>1. Good(m) /\ m + 1 \in 1 .. n /\ (m + 1) - 1 = m
      BY <1>1, <1>8
    <2>2. kept[m + 1] = Step(m + 1, kept[m])
      BY <1>6, <2>1
    <2>3. {s[i] : i \in 1 .. m + 1} = {s[i] : i \in 1 .. m} \cup {s[m + 1]}
      BY <2>1
    <2>4. CASE s[m + 1] \in D
      BY <2>1, <2>2, <2>3, <2>4
    <2>5. CASE s[m + 1] \notin D
      <3> DEFINE v == kept[m]  e == s[m + 1]
      <3>1. kept[m + 1] = Append(v, e) /\ v \in Seq(T) /\ e \in T
        BY <1>1, <2>1, <2>2, <2>5
      <3>2. Range(Append(v, e)) = Range(v) \cup {e}
        <4> HIDE DEF v, e
        <4>1. /\ DOMAIN Append(v, e) = 1 .. Len(v) + 1 /\ Len(v) \in Nat
              /\ Append(v, e)[Len(v) + 1] = e /\ DOMAIN v = 1 .. Len(v)
              /\ \A i \in DOMAIN v : Append(v, e)[i] = v[i]
          BY <3>1
        <4>2. DOMAIN Append(v, e) = DOMAIN v \cup {Len(v) + 1}
          BY <4>1
        <4>. QED  BY <4>1, <4>2, ZenonT(30) DEF Range
      <3>3. ASSUME IsInjective(s) PROVE IsInjective(Append(v, e))
        <4>1. IsInjective(v)
          BY <2>1, <3>3
        <4>2. \A i \in 1 .. m : s[i] # e
          BY <1>1, <2>1, <3>3 DEF IsInjective
        <4>3. e \notin Range(v)
          BY <2>1, <4>2
        <4> HIDE DEF v, e
        <4>4. \A i \in DOMAIN v : v[i] # e
          BY <4>3 DEF Range
        <4>. QED  BY <3>1, <4>1, <4>4 DEF IsInjective
      <3>. QED  BY <2>1, <2>3, <2>5, <3>1, <3>2, <3>3
    <2>. QED  BY <2>4, <2>5
  <1>9. Good(n)
    <2>1. Nat \subseteq S
      <3> HIDE DEF S
      <3>. QED  BY <1>7, <1>8, SetInduction
    <2> HIDE DEF Good
    <2>2. \A m \in Nat : m <= n => Good(m)
      BY <2>1
    <2>3. n \in Nat /\ n <= n
      BY <1>1
    <2>. QED  BY <2>2, <2>3
  <1>10. Without(s, D) = kept[n]
    BY <1>0
  <1>11. Range(s) = {s[i] : i \in 1 .. n}
    BY DEF Range
  <1>. QED  BY <1>9, <1>10, <1>11

(* One member more is kept, or it is not. *)
LEMMA WithoutAppend ==
  ASSUME NEW T, NEW s \in Seq(T), NEW x \in T, NEW D
  PROVE  Without(Append(s, x), D) = IF x \in D THEN Without(s, D) ELSE Append(Without(s, D), x)
  <1> DEFINE n == Len(s)
  <1>1. PICK t \in Seq(T) : /\ t = Append(s, x) /\ Len(t) = n + 1 /\ t[n + 1] = x
                            /\ \A k \in 1 .. n : t[k] = s[k]
    <2>1. /\ Append(s, x) \in Seq(T) /\ Len(Append(s, x)) = n + 1
          /\ Append(s, x)[n + 1] = x /\ \A k \in 1 .. n : Append(s, x)[k] = s[k]
      OBVIOUS
    <2>. QED  BY <2>1, Zenon
  <1>2. PICK f : IsKept(f, s, D) /\ Without(s, D) = f[n]
    BY WithoutUnfolds
  <1>3. PICK g : IsKept(g, t, D) /\ Without(t, D) = g[Len(t)]
    BY WithoutUnfolds
  <1>4. n \in Nat
    OBVIOUS
  <1>5. /\ f[0] = <<>>
        /\ \A k \in 1 .. n : f[k] = IF s[k] \in D THEN f[k - 1] ELSE Append(f[k - 1], s[k])
    BY <1>2, Zenon DEF IsKept
  <1>6. /\ g[0] = <<>>
        /\ \A k \in 1 .. n + 1 : g[k] = IF t[k] \in D THEN g[k - 1] ELSE Append(g[k - 1], t[k])
    BY <1>1, <1>3, Zenon DEF IsKept
  <1> HIDE DEF n
  <1> DEFINE S == {m \in Nat : m <= n => f[m] = g[m]}
  <1>7. 0 \in S
    BY <1>5, <1>6
  <1>8. ASSUME NEW m \in Nat, m \in S PROVE m + 1 \in S
    <2> SUFFICES ASSUME m + 1 <= n PROVE f[m + 1] = g[m + 1]
      OBVIOUS
    <2>1. m + 1 \in 1 .. n /\ m + 1 \in 1 .. n + 1 /\ (m + 1) - 1 = m /\ m <= n
      BY <1>4
    <2>2. f[m + 1] = IF s[m + 1] \in D THEN f[(m + 1) - 1] ELSE Append(f[(m + 1) - 1], s[m + 1])
      BY <1>5, <2>1, Zenon
    <2>3. g[m + 1] = IF t[m + 1] \in D THEN g[(m + 1) - 1] ELSE Append(g[(m + 1) - 1], t[m + 1])
      BY <1>6, <2>1, Zenon
    <2>4. t[m + 1] = s[m + 1] /\ f[m] = g[m]
      BY <1>1, <1>8, <2>1
    <2>. QED  BY <2>1, <2>2, <2>3, <2>4, Zenon
  <1>9. Nat \subseteq S
    <2> HIDE DEF S
    <2>. QED  BY <1>7, <1>8, SetInduction
  <1>10. f[n] = g[n]
    BY <1>4, <1>9
  <1>11. g[n + 1] = IF x \in D THEN g[n] ELSE Append(g[n], x)
    <2>1. n + 1 \in 1 .. n + 1 /\ (n + 1) - 1 = n
      BY <1>4
    <2>2. g[n + 1] = IF t[n + 1] \in D THEN g[(n + 1) - 1] ELSE Append(g[(n + 1) - 1], t[n + 1])
      BY <1>6, <2>1, Zenon
    <2>. QED  BY <1>1, <2>1, <2>2, Zenon
  <1>. QED  BY <1>1, <1>2, <1>3, <1>10, <1>11, Zenon

(* Nothing leaves nothing. *)
LEMMA WithoutEmpty ==
  ASSUME NEW D
  PROVE  Without(<<>>, D) = <<>>
  <1>1. <<>> \in Seq({}) /\ Len(<<>>) = 0
    OBVIOUS
  <1>2. PICK u : IsKept(u, <<>>, D) /\ Without(<<>>, D) = u[Len(<<>>)]
    BY <1>1, WithoutUnfolds
  <1>. QED  BY <1>1, <1>2 DEF IsKept
-----------------------------------------------------------------------------
(* The members of a sequence and of its parts. *)
LEMMA MembersTyped ==
  ASSUME NEW T, NEW s \in Seq(T)
  PROVE  Range(s) \subseteq T
  BY DEF Range

(* The empty list has no member and none twice.                              *)
LEMMA MembersOfEmpty == Range(<<>>) = {} /\ IsInjective(<<>>)
  BY DEF Range, IsInjective

(* The head and the members of the tail are the members of a list.           *)
LEMMA MembersOfTail ==
  ASSUME NEW T, NEW s \in Seq(T), s # <<>>
  PROVE  /\ Head(s) \in T /\ Tail(s) \in Seq(T) /\ Len(Tail(s)) = Len(s) - 1
         /\ Range(s) = {Head(s)} \cup Range(Tail(s))
         /\ IsInjective(s) => IsInjective(Tail(s)) /\ Head(s) \notin Range(Tail(s))
  <1> DEFINE t == Tail(s)  n == Len(s)
  <1>1. /\ n \in Nat /\ n >= 1 /\ DOMAIN s = 1 .. n /\ Head(s) = s[1] /\ Head(s) \in T
        /\ t \in Seq(T) /\ DOMAIN t = 1 .. n - 1 /\ Len(t) = n - 1
        /\ \A i \in 1 .. n - 1 : t[i] = s[i + 1]
    OBVIOUS
  <1>2. Range(s) = {Head(s)} \cup Range(t)
    <2> HIDE DEF n, t
    <2>1. ASSUME NEW i \in DOMAIN t PROVE i + 1 \in DOMAIN s /\ t[i] = s[i + 1]
      BY <1>1
    <2>2. ASSUME NEW i \in DOMAIN s, i # 1 PROVE i - 1 \in DOMAIN t /\ s[i] = t[i - 1]
      BY <1>1, <2>2
    <2>3. 1 \in DOMAIN s
      BY <1>1
    <2>4. Range(t) \subseteq Range(s) /\ Head(s) \in Range(s)
      BY <1>1, <2>1, <2>3 DEF Range
    <2>5. ASSUME NEW e \in Range(s), e # Head(s) PROVE e \in Range(t)
      <3>1. PICK i \in DOMAIN s : e = s[i]
        BY DEF Range
      <3>2. i # 1
        BY <1>1, <2>5, <3>1
      <3>. QED  BY <2>2, <3>1, <3>2 DEF Range
    <2>. QED  BY <2>4, <2>5
  <1>3. ASSUME IsInjective(s) PROVE IsInjective(t) /\ Head(s) \notin Range(t)
    <2> HIDE DEF n, t
    <2>1. ASSUME NEW i \in DOMAIN t PROVE i + 1 \in DOMAIN s /\ t[i] = s[i + 1] /\ i + 1 # 1
      BY <1>1
    <2>2. IsInjective(t)
      BY <1>1, <1>3, <2>1 DEF IsInjective
    <2>3. Head(s) \notin Range(t)
      <3>1. 1 \in DOMAIN s /\ Head(s) = s[1]
        BY <1>1
      <3>2. \A i \in DOMAIN t : t[i] # Head(s)
        BY <1>3, <2>1, <3>1 DEF IsInjective
      <3>. QED  BY <3>2 DEF Range
    <2>. QED  BY <2>2, <2>3
  <1>. QED  BY <1>1, <1>2, <1>3

(* The members of two lists make up those of their concatenation.            *)
LEMMA MembersOfConcat ==
  ASSUME NEW T, NEW s \in Seq(T), NEW t \in Seq(T)
  PROVE  /\ s \o t \in Seq(T) /\ Len(s \o t) = Len(s) + Len(t)
         /\ Range(s \o t) = Range(s) \cup Range(t)
         /\ (IsInjective(s) /\ IsInjective(t) /\ Range(s) \cap Range(t) = {})
              => IsInjective(s \o t)
  <1> DEFINE u == s \o t  m == Len(s)  n == Len(t)
  <1>1. /\ m \in Nat /\ n \in Nat /\ DOMAIN s = 1 .. m /\ DOMAIN t = 1 .. n
        /\ u \in Seq(T) /\ DOMAIN u = 1 .. m + n /\ Len(u) = m + n
        /\ \A i \in 1 .. m : u[i] = s[i]
        /\ \A i \in m + 1 .. m + n : u[i] = t[i - m]
    OBVIOUS
  <1> HIDE DEF u, m, n
  <1>2. ASSUME NEW i \in DOMAIN s PROVE i \in DOMAIN u /\ u[i] = s[i]
    BY <1>1
  <1>3. ASSUME NEW i \in DOMAIN t PROVE i + m \in DOMAIN u /\ u[i + m] = t[i]
    BY <1>1
  <1>4. ASSUME NEW i \in DOMAIN u
        PROVE  \/ i \in DOMAIN s /\ u[i] = s[i]
               \/ i - m \in DOMAIN t /\ u[i] = t[i - m]
    BY <1>1
  <1>5. Range(u) = Range(s) \cup Range(t)
    <2>1. Range(s) \subseteq Range(u) /\ Range(t) \subseteq Range(u)
      BY <1>2, <1>3 DEF Range
    <2>2. Range(u) \subseteq Range(s) \cup Range(t)
      BY <1>4 DEF Range
    <2>. QED  BY <2>1, <2>2
  <1>6. ASSUME IsInjective(s), IsInjective(t), Range(s) \cap Range(t) = {}
        PROVE  IsInjective(u)
    <2> SUFFICES ASSUME NEW i \in DOMAIN u, NEW j \in DOMAIN u, u[i] = u[j] PROVE i = j
      BY DEF IsInjective
    <2>1. i \in Nat /\ j \in Nat
      BY <1>1
    <2>2. \A k \in DOMAIN s, l \in DOMAIN t : s[k] # t[l]
      BY <1>6 DEF Range
    <2>. QED  BY <1>1, <1>4, <1>6, <2>1, <2>2, SMTT(30) DEF IsInjective
  <1>. QED  BY <1>1, <1>5, <1>6 DEF u, m, n

(* The last members of a sequence. *)
LEMMA SuffixIs ==
  ASSUME NEW T, NEW s \in Seq(T), NEW k \in 0 .. Len(s)
  PROVE  /\ SubSeq(s, k + 1, Len(s)) \in Seq(T)
         /\ Len(SubSeq(s, k + 1, Len(s))) = Len(s) - k
         /\ \A i \in 1 .. Len(s) - k : SubSeq(s, k + 1, Len(s))[i] = s[k + i]
  OBVIOUS

(* One member more.                                                          *)
LEMMA AppendIs ==
  ASSUME NEW T, NEW s \in Seq(T), NEW x \in T
  PROVE  /\ Append(s, x) \in Seq(T) /\ Len(Append(s, x)) = Len(s) + 1
         /\ Append(s, x)[Len(s) + 1] = x /\ \A i \in 1 .. Len(s) : Append(s, x)[i] = s[i]
  OBVIOUS

(* Where the members of two lists come to lie when they are put together.    *)
LEMMA ConcatIs ==
  ASSUME NEW T, NEW s \in Seq(T), NEW t \in Seq(T)
  PROVE  /\ s \o t \in Seq(T) /\ Len(s \o t) = Len(s) + Len(t)
         /\ \A i \in 1 .. Len(s) : (s \o t)[i] = s[i]
         /\ \A i \in 1 .. Len(t) : (s \o t)[Len(s) + i] = t[i]
  OBVIOUS

(* The first members of a sequence.                                          *)
LEMMA FirstIs ==
  ASSUME NEW T, NEW s \in Seq(T), NEW k \in 0 .. Len(s)
  PROVE  /\ SubSeq(s, 1, k) \in Seq(T) /\ Len(SubSeq(s, 1, k)) = k
         /\ \A i \in 1 .. k : SubSeq(s, 1, k)[i] = s[i]
  OBVIOUS

(* A prefix and the next member.                                             *)
LEMMA FirstAndNext ==
  ASSUME NEW T, NEW s \in Seq(T), NEW k \in Nat, k < Len(s)
  PROVE  Append(SubSeq(s, 1, k), s[k + 1]) = SubSeq(s, 1, k + 1)
  <1>1. k \in 0 .. Len(s) /\ k + 1 \in 0 .. Len(s) /\ s[k + 1] \in T
    OBVIOUS
  <1>2. PICK p \in Seq(T) : /\ p = SubSeq(s, 1, k) /\ Len(p) = k
                            /\ \A i \in 1 .. k : p[i] = s[i]
    <2>1. /\ SubSeq(s, 1, k) \in Seq(T) /\ Len(SubSeq(s, 1, k)) = k
          /\ \A i \in 1 .. k : SubSeq(s, 1, k)[i] = s[i]
      BY <1>1, FirstIs
    <2>. QED  BY <2>1, Zenon
  <1>3. PICK q \in Seq(T) : /\ q = SubSeq(s, 1, k + 1) /\ Len(q) = k + 1
                            /\ \A i \in 1 .. k + 1 : q[i] = s[i]
    <2>1. /\ SubSeq(s, 1, k + 1) \in Seq(T) /\ Len(SubSeq(s, 1, k + 1)) = k + 1
          /\ \A i \in 1 .. k + 1 : SubSeq(s, 1, k + 1)[i] = s[i]
      BY <1>1, FirstIs
    <2>. QED  BY <2>1, Zenon
  <1>4. PICK r \in Seq(T) : /\ r = Append(p, s[k + 1]) /\ Len(r) = k + 1 /\ r[k + 1] = s[k + 1]
                            /\ \A i \in 1 .. k : r[i] = p[i]
    <2>1. PICK x \in T : x = s[k + 1]
      BY <1>1
    <2>2. /\ Append(p, x) \in Seq(T) /\ Len(Append(p, x)) = Len(p) + 1
          /\ Append(p, x)[Len(p) + 1] = x /\ \A i \in 1 .. Len(p) : Append(p, x)[i] = p[i]
      BY AppendIs
    <2>. QED  BY <1>2, <2>1, <2>2, Zenon
  <1>5. \A i \in 1 .. Len(r) : r[i] = q[i]
    BY <1>2, <1>3, <1>4
  <1>6. r = q
    BY <1>3, <1>4, <1>5, SeqEqual
  <1>. QED  BY <1>2, <1>3, <1>4, <1>6

(* Min picks the least of a set of numbers.                                  *)
LEMMA MinIs ==
  ASSUME NEW S, S \subseteq Nat, S # {}
  PROVE  Min(S) \in S /\ \A y \in S : Min(S) <= y
  <1>1. \E x \in S : \A y \in S : x <= y
    BY LeastNat
  <1>. QED  BY <1>1 DEF Min

(* Min of two is the smaller, as std::min.                                   *)
LEMMA MinOfTwo ==
  ASSUME NEW a \in Int, NEW b \in Int
  PROVE  Min({a, b}) = IF a <= b THEN a ELSE b
  <1>1. \E x \in {a, b} : \A y \in {a, b} : x <= y
    OBVIOUS
  <1>2. Min({a, b}) \in {a, b} /\ \A y \in {a, b} : Min({a, b}) <= y
    BY <1>1 DEF Min
  <1>. QED  BY <1>2

(* Max of two is the larger, as std::max.                                    *)
LEMMA MaxOfTwo ==
  ASSUME NEW a \in Int, NEW b \in Int
  PROVE  Max({a, b}) = IF a >= b THEN a ELSE b
  <1>1. \E x \in {a, b} : \A y \in {a, b} : x >= y
    OBVIOUS
  <1>2. Max({a, b}) \in {a, b} /\ \A y \in {a, b} : Max({a, b}) >= y
    BY <1>1 DEF Max
  <1>. QED  BY <1>2

(* f holds what joining the first sequences of ss gives.                     *)
IsJoined(f, ss) ==
  f[0] = <<>> /\ \A k \in 1 .. Len(ss) : f[k] = f[k - 1] \o ss[k]

(* FlattenSeq joins the sequences one after the other.                       *)
LEMMA FlattenUnfolds ==
  ASSUME NEW T, NEW ss \in Seq(Seq(T))
  PROVE  \E f \in [0 .. Len(ss) -> Seq(T)] : IsJoined(f, ss) /\ FlattenSeq(ss) = f[Len(ss)]
  <1> DEFINE n == Len(ss)
             V == Seq(T)
             step == [k \in 1 .. n |-> [v \in V |-> v \o ss[k]]]
             Joins(u) == u = [i \in 1 .. n |-> IF i = 1 THEN ss[i] ELSE u[i - 1] \o ss[i]]
             flatten == CHOOSE u : Joins(u)
  <1>1. n \in Nat /\ \A k \in 1 .. n : ss[k] \in V
    OBVIOUS
  <1>2. step \in [1 .. n -> [V -> V]] /\ <<>> \in V
    BY <1>1
  <1>3. PICK f \in [0 .. n -> V] : IsIteration(f, <<>>, step, n)
    <2> HIDE DEF n, V, step
    <2>. QED  BY <1>1, <1>2, IterationExists
  <1>4. f[0] = <<>>
    BY <1>3 DEF IsIteration
  <1>5. \A k \in 1 .. n : f[k] = f[k - 1] \o ss[k]
    <2>1. ASSUME NEW k \in 1 .. n PROVE f[k] = f[k - 1] \o ss[k]
      <3>1. f[k] = step[k][f[k - 1]] /\ f[k - 1] \in V
        <4>1. k - 1 \in 0 .. n
          BY <1>1
        <4>. HIDE DEF V, step, n
        <4>. QED  BY <1>3, <4>1 DEF IsIteration
      <3>. HIDE DEF V, n
      <3>. QED  BY <3>1
    <2>. QED  BY <2>1
  <1>6. FlattenSeq(ss) = f[n]
    <2>1. CASE n = 0
      <3>1. ss = <<>>
        BY <2>1
      <3>2. FlattenSeq(ss) = ss
        BY <2>1 DEF FlattenSeq
      <3>. QED  BY <1>4, <2>1, <3>1, <3>2
    <2>2. CASE n # 0
      <3> DEFINE g == [i \in 1 .. n |-> f[i]]
      <3>1. f[1] = ss[1] /\ 1 \in 1 .. n
        <4>1. 1 \in 1 .. n /\ 1 - 1 = 0
          BY <1>1, <2>2
        <4>2. f[1] = f[1 - 1] \o ss[1] /\ ss[1] \in V
          <5>. HIDE DEF V, n
          <5>. QED  BY <1>1, <1>5, <4>1
        <4>3. <<>> \o ss[1] = ss[1]
          BY <4>2, ConcatEmptySeq
        <4>. QED  BY <1>4, <4>1, <4>2, <4>3
      <3>2. Joins(g)
        <4>1. ASSUME NEW i \in 1 .. n PROVE g[i] = IF i = 1 THEN ss[i] ELSE g[i - 1] \o ss[i]
          <5>1. CASE i = 1
            BY <3>1, <5>1
          <5>2. CASE i # 1
            <6>1. i - 1 \in 1 .. n
              BY <1>1, <5>2
            <6>. HIDE DEF n
            <6>. QED  BY <1>5, <5>2, <6>1
          <5>. QED  BY <5>1, <5>2
        <4>. HIDE DEF n
        <4>. QED  BY <4>1
      <3>3. Joins(flatten)
        BY <3>2, Zenon
      <3>4. FlattenSeq(ss) = flatten[n]
        BY <2>2 DEF FlattenSeq, flatten
      <3> HIDE DEF flatten
      <3> DEFINE S == {m \in Nat : m + 1 <= n => flatten[m + 1] = f[m + 1]}
      <3>5. 0 \in S
        <4>1. flatten[1] = ss[1]
          BY <3>1, <3>3
        <4>. QED  BY <3>1, <4>1
      <3>6. ASSUME NEW m \in Nat, m \in S PROVE m + 1 \in S
        <4> SUFFICES ASSUME m + 2 <= n PROVE flatten[m + 2] = f[m + 2]
          OBVIOUS
        <4>1. m + 2 \in 1 .. n /\ flatten[m + 1] = f[m + 1] /\ (m + 2) - 1 = m + 1
          BY <1>1, <3>6
        <4>2. flatten[m + 2] = flatten[(m + 2) - 1] \o ss[m + 2]
          <5>1. m + 2 # 1
            OBVIOUS
          <5>. HIDE DEF n
          <5>2. \A i \in 1 .. n : i # 1 => flatten[i] = flatten[i - 1] \o ss[i]
            BY <3>3
          <5>. QED  BY <4>1, <5>1, <5>2
        <4>3. f[m + 2] = f[(m + 2) - 1] \o ss[m + 2]
          <5>. HIDE DEF n
          <5>. QED  BY <1>5, <4>1
        <4>. QED  BY <4>1, <4>2, <4>3
      <3>7. Nat \subseteq S
        <4> HIDE DEF S
        <4>. QED  BY <3>5, <3>6, SetInduction
      <3>8. flatten[n] = f[n]
        <4>1. n - 1 \in Nat /\ (n - 1) + 1 = n
          BY <1>1, <2>2
        <4>2. n - 1 \in S
          BY <3>7, <4>1
        <4>. HIDE DEF n
        <4>. QED  BY <4>1, <4>2
      <3>. QED  BY <3>4, <3>8
    <2>. QED  BY <2>1, <2>2
  <1>7. IsJoined(f, ss)
    BY <1>4, <1>5 DEF IsJoined
  <1>. QED  BY <1>6, <1>7

(* FlattenSeq keeps the members of the sequences that it joins. *)
LEMMA FlattenTyped ==
  ASSUME NEW T, NEW ss \in Seq(Seq(T))
  PROVE  FlattenSeq(ss) \in Seq(T)
  <1>1. PICK f \in [0 .. Len(ss) -> Seq(T)] : FlattenSeq(ss) = f[Len(ss)]
    BY FlattenUnfolds
  <1>2. Len(ss) \in 0 .. Len(ss)
    OBVIOUS
  <1>. QED  BY <1>1, <1>2

(* No sequence, nothing joined.                                              *)
LEMMA FlattenEmpty == FlattenSeq(<<>>) = <<>>
  BY DEF FlattenSeq

(* One sequence more is joined at the end.                                   *)
LEMMA FlattenAppend ==
  ASSUME NEW T, NEW ss \in Seq(Seq(T)), NEW x \in Seq(T)
  PROVE  FlattenSeq(Append(ss, x)) = FlattenSeq(ss) \o x
  <1> DEFINE n == Len(ss)
  <1>1. PICK tt \in Seq(Seq(T)) : /\ tt = Append(ss, x) /\ Len(tt) = n + 1 /\ tt[n + 1] = x
                                  /\ \A k \in 1 .. n : tt[k] = ss[k]
    <2>1. PICK V : V = Seq(T)
      OBVIOUS
    <2>2. ss \in Seq(V) /\ x \in V
      BY <2>1
    <2>3. /\ Append(ss, x) \in Seq(V) /\ Len(Append(ss, x)) = Len(ss) + 1
          /\ Append(ss, x)[Len(ss) + 1] = x /\ \A i \in 1 .. Len(ss) : Append(ss, x)[i] = ss[i]
      BY <2>2, AppendIs
    <2>. QED  BY <2>1, <2>3, Zenon
  <1>2. PICK f \in [0 .. n -> Seq(T)] : IsJoined(f, ss) /\ FlattenSeq(ss) = f[n]
    BY FlattenUnfolds
  <1>3. PICK g \in [0 .. Len(tt) -> Seq(T)] : IsJoined(g, tt) /\ FlattenSeq(tt) = g[Len(tt)]
    BY FlattenUnfolds
  <1>4. n \in Nat
    OBVIOUS
  <1> HIDE DEF n
  <1>5. /\ f[0] = <<>> /\ \A k \in 1 .. n : f[k] = f[k - 1] \o ss[k]
        /\ g[0] = <<>> /\ \A k \in 1 .. n + 1 : g[k] = g[k - 1] \o tt[k]
    BY <1>1, <1>2, <1>3 DEF IsJoined, n
  <1> DEFINE S == {m \in Nat : m <= n => f[m] = g[m]}
  <1>6. 0 \in S
    BY <1>5
  <1>7. ASSUME NEW m \in Nat, m \in S PROVE m + 1 \in S
    <2> SUFFICES ASSUME m + 1 <= n PROVE f[m + 1] = g[m + 1]
      OBVIOUS
    <2>1. m + 1 \in 1 .. n /\ m + 1 \in 1 .. n + 1 /\ (m + 1) - 1 = m /\ m <= n
      BY <1>4
    <2>2. f[m + 1] = f[(m + 1) - 1] \o ss[m + 1] /\ g[m + 1] = g[(m + 1) - 1] \o tt[m + 1]
      BY <1>5, <2>1
    <2>3. tt[m + 1] = ss[m + 1] /\ f[m] = g[m]
      BY <1>1, <1>7, <2>1
    <2>. QED  BY <2>1, <2>2, <2>3
  <1>8. Nat \subseteq S
    <2> HIDE DEF S
    <2>. QED  BY <1>6, <1>7, SetInduction
  <1>9. f[n] = g[n]
    BY <1>4, <1>8
  <1>10. g[n + 1] = g[n] \o x
    <2>1. n + 1 \in 1 .. n + 1 /\ (n + 1) - 1 = n
      BY <1>4
    <2>2. g[n + 1] = g[(n + 1) - 1] \o tt[n + 1]
      BY <1>5, <2>1
    <2>. QED  BY <1>1, <2>1, <2>2
  <1>. QED  BY <1>1, <1>2, <1>3, <1>9, <1>10

(* The last member of the last sequence is the last one when all are joined. *)
LEMMA FlattenLast ==
  ASSUME NEW T, NEW ss \in Seq(Seq(T)), ss # <<>>, NEW x, x = ss[Len(ss)], Len(x) > 0,
         NEW all, all = FlattenSeq(ss)
  PROVE  Len(all) > 0 /\ all[Len(all)] = x[Len(x)]
  <1>1. PICK V : V = Seq(T)
    OBVIOUS
  <1>2. ss \in Seq(V) /\ Len(ss) \in Nat /\ Len(ss) >= 1
    BY <1>1
  <1>3. PICK n \in Nat : n + 1 = Len(ss)
    <2>1. Len(ss) - 1 \in Nat /\ (Len(ss) - 1) + 1 = Len(ss)
      BY <1>2
    <2>. QED  BY <2>1
  <1>4. PICK front : front = SubSeq(ss, 1, n)
    OBVIOUS
  <1>5. front \in Seq(V) /\ x \in V /\ Append(front, x) = ss
    <2>1. /\ front \in Seq(V) /\ Len(front) = n /\ \A i \in 1 .. n : front[i] = ss[i]
      BY <1>2, <1>3, <1>4
    <2>2. x \in V
      BY <1>2
    <2>3. PICK back : back = Append(front, x)
      OBVIOUS
    <2>4. /\ back \in Seq(V) /\ Len(back) = n + 1 /\ back[n + 1] = x
          /\ \A i \in 1 .. n : back[i] = front[i]
      <3>1. /\ Append(front, x) \in Seq(V) /\ Len(Append(front, x)) = Len(front) + 1
            /\ Append(front, x)[Len(front) + 1] = x
            /\ \A i \in 1 .. Len(front) : Append(front, x)[i] = front[i]
        BY <2>1, <2>2, AppendIs
      <3>. QED  BY <2>1, <2>3, <3>1, Zenon
    <2>5. \A i \in 1 .. n + 1 : back[i] = ss[i]
      BY <1>3, <2>1, <2>4
    <2>6. back = ss
      BY <1>2, <1>3, <2>4, <2>5
    <2>. QED  BY <2>1, <2>2, <2>3, <2>6
  <1>6. front \in Seq(Seq(T)) /\ x \in Seq(T)
    BY <1>1, <1>5
  <1>7. all = FlattenSeq(front) \o x
    BY <1>5, <1>6, FlattenAppend
  <1>8. PICK head \in Seq(T) : head = FlattenSeq(front)
    BY <1>6, FlattenTyped
  <1>. QED  BY <1>6, <1>7, <1>8

(* A list of one.                                                            *)
LEMMA OneIs ==
  ASSUME NEW T, NEW s \in Seq(T), s # <<>>, Len(s) <= 1
  PROVE  s[1] \in T /\ s = <<s[1]>>
  <1>1. Len(s) = 1
    <2>1. Len(s) \in Nat \ {0}
      BY EmptySeq
    <2>. QED  BY <2>1
  <1>2. s[1] \in T
    BY <1>1
  <1>3. PICK x \in T : x = s[1]
    BY <1>2
  <1>4. PICK t \in Seq(T) : t = <<x>> /\ Len(t) = 1 /\ t[1] = x
    <2>1. <<x>> \in Seq(T) /\ Len(<<x>>) = 1 /\ <<x>>[1] = x
      OBVIOUS
    <2>. QED  BY <2>1, Zenon
  <1>5. \A i \in 1 .. Len(s) : s[i] = t[i]
    BY <1>1, <1>3, <1>4
  <1>6. s = t
    BY <1>1, <1>4, <1>5, SeqEqual
  <1>. QED  BY <1>2, <1>3, <1>4, <1>6

(* Concatenation, as a name that is not expanded.                            *)
Cat(a, b) == a \o b

(* One member more at the end of the second of two lists.                    *)
LEMMA AppendBehind ==
  ASSUME NEW T, NEW s \in Seq(T), NEW t \in Seq(T), NEW x \in T
  PROVE  Cat(s, t) \in Seq(T) /\ Append(Cat(s, t), x) = Cat(s, Append(t, x))
  <1>1. Append(s \o t, x) = s \o Append(t, x) /\ s \o t \in Seq(T)
    OBVIOUS
  <1>. QED  BY <1>1, Zenon DEF Cat

(* A member goes from the head of a list to the end of the one before it.    *)
LEMMA HeadMoves ==
  ASSUME NEW T, NEW s \in Seq(T), NEW t \in Seq(T), t # <<>>
  PROVE  Cat(s, t) = Cat(Append(s, Head(t)), Tail(t))
  <1>1. Head(t) \in T /\ Tail(t) \in Seq(T) /\ Len(Tail(t)) = Len(t) - 1 /\ Head(t) = t[1]
        /\ Len(t) \in Nat /\ Len(t) >= 1
        /\ \A i \in 1 .. Len(Tail(t)) : Tail(t)[i] = t[i + 1]
    OBVIOUS
  <1>2. s \o t = Append(s, Head(t)) \o Tail(t)
    BY <1>1
  <1>. QED  BY <1>2, Zenon DEF Cat

(* A prefix stays the same when a member is appended.                        *)
LEMMA PrefixOfAppend ==
  ASSUME NEW T, NEW s \in Seq(T), NEW x \in T, NEW k \in Nat, k <= Len(s)
  PROVE  k <= Len(Append(s, x)) /\ SubSeq(Append(s, x), 1, k) = SubSeq(s, 1, k)
  <1>1. PICK t \in Seq(T) : /\ t = Append(s, x) /\ Len(t) = Len(s) + 1
                            /\ \A i \in 1 .. Len(s) : t[i] = s[i]
    <2>1. /\ Append(s, x) \in Seq(T) /\ Len(Append(s, x)) = Len(s) + 1
          /\ \A i \in 1 .. Len(s) : Append(s, x)[i] = s[i]
      BY AppendIs
    <2>. QED  BY <2>1, Zenon
  <1>2. k \in 0 .. Len(s) /\ k \in 0 .. Len(t)
    BY <1>1
  <1>3. PICK p \in Seq(T) : p = SubSeq(s, 1, k) /\ Len(p) = k /\ \A i \in 1 .. k : p[i] = s[i]
    <2>1. /\ SubSeq(s, 1, k) \in Seq(T) /\ Len(SubSeq(s, 1, k)) = k
          /\ \A i \in 1 .. k : SubSeq(s, 1, k)[i] = s[i]
      BY <1>2, FirstIs
    <2>. QED  BY <2>1, Zenon
  <1>4. PICK q \in Seq(T) : q = SubSeq(t, 1, k) /\ Len(q) = k /\ \A i \in 1 .. k : q[i] = t[i]
    <2>1. /\ SubSeq(t, 1, k) \in Seq(T) /\ Len(SubSeq(t, 1, k)) = k
          /\ \A i \in 1 .. k : SubSeq(t, 1, k)[i] = t[i]
      BY <1>2, FirstIs
    <2>. QED  BY <2>1, Zenon
  <1>5. \A i \in 1 .. Len(q) : q[i] = p[i]
    BY <1>1, <1>2, <1>3, <1>4
  <1>6. q = p
    BY <1>3, <1>4, <1>5, SeqEqual
  <1>. QED  BY <1>1, <1>2, <1>3, <1>4, <1>6
=============================================================================
