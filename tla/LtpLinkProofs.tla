--------------------------- MODULE LtpLinkProofs ---------------------------
(***************************************************************************)
(* What the two engines guarantee for blocks of any length, any number of  *)
(* them, any segment size, pool and limit of retries, and whatever the     *)
(* link loses.  First the inductive invariant (LinkInv), what the          *)
(* operators of LtpEngine compute, and how a step is put together (Move):  *)
(* whoever makes a Move keeps the invariant (MoveKeeps).  Then every       *)
(* handler is shown to make one, and what follows from the invariant.      *)
(***************************************************************************)
EXTENDS LtpLink, ListFacts, FiniteSetTheorems

Data(k) == BlockOf(k).data
Red(k) == BlockOf(k).red
DataTypes == RedTypes \cup GreenTypes

(* What start_session accepted, and that lists are lists.                    *)
BlockRecord == [data : Seq(Byte), red : BOOLEAN, outcome : {"open", "sent", "complete", "failed"}]
BaseInv ==
  /\ session_counter_ \in [Engine -> Nat] /\ given \in [Engine -> Seq(BlockRecord)]
  /\ delivered \in [Engine -> Seq([key : Engine \X Nat, data : Seq(Byte \cup {Zero})])]
  /\ DOMAIN net = Engine /\ DOMAIN sessions_ = Engine
  /\ DOMAIN timers = Engine /\ DOMAIN firing = Engine
  /\ \A e \in Engine :
       /\ session_counter_[e] = Len(given[e]) /\ Len(given[e]) <= MaxStarts[e]
       /\ net[e] \in Seq(ToSet(net[e])) /\ timers[e] \in Seq(ToSet(timers[e]))
       /\ firing[e] \in Seq(ToSet(firing[e])) /\ Len(firing[e]) <= 1
  /\ cancels \in Nat

(* A data segment carries bytes of its block, in their place, and the end of *)
(* block is the end of the block.                                            *)
Placed(m) ==
  /\ m.offset \in Nat /\ m.data \in Seq(Byte)
  /\ m.offset + Len(m.data) <= Len(Data(m.key))
  /\ \A i \in 1 .. Len(m.data) : m.data[i] = Data(m.key)[m.offset + i]
  /\ m.type \in EobTypes => m.offset + Len(m.data) = Len(Data(m.key))
  /\ m.type \in RedTypes => Red(m.key)
  /\ m.type \in GreenTypes => ~Red(m.key)

(* What is on its way to an engine.                                          *)
SegmentOK(e, m) ==
  \/ m.type \in DataTypes /\ m.key \in Issued(Peer(e)) /\ Placed(m)
  \/ /\ m.type = "REPORT" /\ m.key \in Issued(e) /\ Red(m.key)
     /\ m.upper \in 0 .. Len(Data(m.key)) /\ m.claims \subseteq 0 .. Len(Data(m.key)) - 1
  \/ m.type = "REPORT_ACK" /\ m.key \in Issued(Peer(e)) /\ Red(m.key)
  \/ m.type = "CANCEL_BY_SENDER" /\ m.key \in Issued(Peer(e))
  \/ m.type = "CANCEL_BY_RECEIVER" /\ m.key \in Issued(e)
  \/ m.type \in CancelAckTypes

(* The two ends of a session.                                                *)
OwnOK(k, s) ==
  /\ s \in Session /\ s.role = "ORIGINATOR" /\ s.is_red /\ Red(k)
  /\ s.client_data = Data(k) /\ s.total_data_length = Len(Data(k))
  /\ BlockOf(k).outcome = "open"
  /\ max_retransmissions < CountModulus - 1 =>
       /\ s.retransmission_count <= max_retransmissions
       /\ s.checkpoint_serial_counter = s.retransmission_count + 1
PeerOK(k, s) ==
  /\ s \in Session /\ s.role = "RECEIVER" /\ s.checkpoint_serial_counter = 0
  /\ Len(s.client_data) <= Len(Data(k))
  /\ \A i \in 1 .. Len(s.client_data) : s.client_data[i] \in {Data(k)[i], Zero}
  /\ s.tracker \subseteq 0 .. Len(s.client_data) - 1
  /\ \A o \in s.tracker : s.client_data[o + 1] = Data(k)[o + 1]
  /\ s.total_data_length \in {0, Len(Data(k))}
  /\ s.total_data_length > 0 => Len(s.client_data) = Len(Data(k))
SessionOK(e, k, s) ==
  \/ k \in Issued(e) /\ OwnOK(k, s)
  \/ k \in Issued(Peer(e)) /\ PeerOK(k, s)

(* What a timer is for.                                                      *)
EventOK(e, ev) ==
  \/ ev.type = "CHECKPOINT" /\ ev.key \in Issued(e)
  \/ ev.type = "REPORT_SEGMENT" /\ ev.key \in Issued(Peer(e)) /\ Red(ev.key)

NetInv == \A e \in Engine : \A m \in ToSet(net[e]) : SegmentOK(e, m)
SessionInv == \A e \in Engine : \A k \in DOMAIN sessions_[e] : SessionOK(e, k, sessions_[e][k])
PoolInv == \A e \in Engine : /\ IsFiniteSet(DOMAIN sessions_[e])
                             /\ Cardinality(DOMAIN sessions_[e]) <= max_concurrent_sessions
TimerInv ==
  \A e \in Engine : /\ \A t \in ToSet(timers[e]) :
                         t = [event |-> t.event, mapped |-> t.mapped] /\ EventOK(e, t.event)
                    /\ \A ev \in ToSet(firing[e]) : EventOK(e, ev)

(* The sender's cancel is the last that it sends for a block, which failed.  *)
CancelInv ==
  \A e \in Engine : \A i \in DOMAIN net[e] :
    net[e][i].type = "CANCEL_BY_SENDER" =>
      /\ BlockOf(net[e][i].key).outcome = "failed"
      /\ \A j \in DOMAIN net[e] :
           (j > i /\ net[e][j].type \in DataTypes) => net[e][j].key # net[e][i].key

(* Until an application cancels a session, the end of a red block has        *)
(* reached the receiver before anything is reported, and what a report       *)
(* claims is kept until it is delivered, or the sender has given up.         *)
Cut(e, k) ==
  /\ BlockOf(k).outcome = "failed" /\ ~Known(Peer(e), k)
  /\ \A m \in ToSet(net[Peer(e)]) : m.type \in DataTypes => m.key # k
Holds(e, k, claims) ==
  /\ Known(Peer(e), k) /\ sessions_[Peer(e)][k].total_data_length = Len(Data(k))
  /\ claims \subseteq sessions_[Peer(e)][k].tracker
Safe(e, k, claims) == Intact(k) \/ Cut(e, k) \/ Holds(e, k, claims)

(* A retransmission ends with the last gap of the report that it answers:    *)
(* what lies behind it was claimed.  So a report that ends there claims all  *)
(* that lies behind its upper bound.                                         *)
Behind(m) == IF m.type = "RED_DATA_CP" THEN m.offset + Len(m.data) .. Len(Data(m.key)) - 1
                                       ELSE {}
Told(m) == Intact(m.key) \/ m.upper .. Len(Data(m.key)) - 1 \subseteq m.claims

HistoryOK(e, k) ==
  /\ \A m \in ToSet(net[Peer(e)]) :
       (m.key = k /\ m.type \in {"RED_DATA_CP", "REPORT_ACK"}) => Safe(e, k, Behind(m))
  /\ \A m \in ToSet(net[e]) :
       (m.key = k /\ m.type = "REPORT") => Safe(e, k, m.claims) /\ Told(m)
  /\ BlockOf(k).outcome = "complete" =>
       Red(k) /\ (Intact(k) \/ Holds(e, k, 0 .. Len(Data(k)) - 1))
HistoryInv ==
  cancels = 0 =>
    /\ \A e \in Engine : \A m \in ToSet(net[e]) : m.type # "CANCEL_BY_RECEIVER"
    /\ \A e \in Engine : \A k \in Issued(e) : HistoryOK(e, k)

(* What was delivered.                                                       *)
DeliveryOK(e, i) ==
  LET d == delivered[e][i] IN
  /\ d.key \in Issued(Peer(e))
  /\ Red(d.key) => \/ d.data = Data(d.key)
                   \/ d.data = <<>> /\ (cancels = 0 => \E j \in 1 .. i - 1 :
                         delivered[e][j] = [key |-> d.key, data |-> Data(d.key)])
  /\ ~Red(d.key) => /\ Len(d.data) = Len(Data(d.key))
                    /\ \A j \in DOMAIN d.data : d.data[j] \in {Data(d.key)[j], Zero}
DeliveryInv == \A e \in Engine : \A i \in DOMAIN delivered[e] : DeliveryOK(e, i)

LinkInv ==
  /\ BaseInv /\ NetInv /\ SessionInv /\ PoolInv /\ TimerInv /\ CancelInv
  /\ HistoryInv /\ DeliveryInv
-----------------------------------------------------------------------------
(* The ranges of a report.                                                 *)

(* The i-th element of a finite set of naturals has i - 1 below it. *)
Below(T, x) == {y \in T : y < x}
(* A finite set of numbers has an i-th smallest one.                         *)
LEMMA NthExists ==
  ASSUME NEW T, T \subseteq Nat, IsFiniteSet(T), NEW i \in 1 .. Cardinality(T)
  PROVE  \E x \in T : Cardinality(Below(T, x)) = i - 1
  <1> DEFINE n == Cardinality(T)
             S == {m \in Nat : m < n => \E x \in T : Cardinality(Below(T, x)) = m}
  <1>1. n \in Nat
    BY FS_CardinalityType
  <1>2. 0 \in S
    <2> SUFFICES ASSUME 0 < n PROVE \E x \in T : Cardinality(Below(T, x)) = 0
      OBVIOUS
    <2>1. T # {}
      BY <1>1, FS_EmptySet
    <2>2. PICK x \in T : \A y \in T : x <= y
      BY <2>1, LeastNat
    <2>3. \A y \in T : ~(y < x)
      <3>1. \A y \in T : x \in Nat /\ y \in Nat /\ x <= y
        BY <2>2
      <3>. QED  BY <3>1
    <2>4. Below(T, x) = {}
      BY <2>3 DEF Below
    <2>. QED  BY <2>4, FS_EmptySet
  <1>3. ASSUME NEW m \in Nat, m \in S PROVE m + 1 \in S
    <2> SUFFICES ASSUME m + 1 < n PROVE \E x \in T : Cardinality(Below(T, x)) = m + 1
      OBVIOUS
    <2>1. PICK x \in T : Cardinality(Below(T, x)) = m
      BY <1>1, <1>3
    <2> DEFINE B == Below(T, x) \cup {x}
    <2>2. B \subseteq T /\ IsFiniteSet(Below(T, x)) /\ x \notin Below(T, x)
      BY FS_Subset DEF Below
    <2>3. Cardinality(B) = m + 1
      BY <2>1, <2>2, FS_AddElement
    <2>4. T \ B # {}
      <3>1. CASE B = T
        BY <1>1, <2>3, <3>1
      <3>. QED  BY <2>2, <3>1
    <2>5. PICK z \in T \ B : \A y \in T \ B : z <= y
      BY <2>4, LeastNat
    <2>6. Below(T, z) = B
      <3>1. z \in Nat /\ x \in Nat /\ z \notin B /\ ~(z < x) /\ z # x
        BY <2>5 DEF Below
      <3>2. ASSUME NEW y \in T PROVE y < z <=> y \in B
        <4>1. y \in Nat /\ (y \in B <=> (y < x \/ y = x))
          BY DEF Below
        <4>2. y \notin B => z <= y
          BY <2>5
        <4>. HIDE DEF B
        <4>. QED  BY <3>1, <4>1, <4>2
      <3>. HIDE DEF B
      <3>. QED  BY <2>2, <3>2 DEF Below
    <2>. QED  BY <2>3, <2>5, <2>6
  <1>4. Nat \subseteq S
    <2> HIDE DEF S
    <2>. QED  BY <1>2, <1>3, SetInduction
  <1>. QED  BY <1>1, <1>4

(* The ranges of a set of numbers below a limit are not empty, and end       *)
(* within the limit.                                                         *)
RangesBelow(u) == {c \in [offset : Nat, length : Nat] : c.length >= 1 /\ c.offset + c.length <= u}

(* The maximal ranges of a set below u are ranges below u.                   *)
LEMMA RangesWithin ==
  ASSUME NEW u \in Nat, NEW S, S \subseteq 0 .. u - 1
  PROVE  MaximalRanges(S) \in Seq(RangesBelow(u))
  <1> DEFINE Starts == {x \in S : x = 0 \/ x - 1 \notin S}
             Nth(i) == CHOOSE x \in Starts : Cardinality({y \in Starts : y < x}) = i - 1
             Ends(x) == {z \in S : z >= x /\ z + 1 \notin S}
             Stop(x) == Min(Ends(x)) + 1
             n == Cardinality(Starts)
  <1>1. S \subseteq Nat /\ Starts \subseteq Nat /\ Starts \subseteq 0 .. u - 1
    <2>1. \A x \in S : x \in Nat /\ x \in 0 .. u - 1
      OBVIOUS
    <2>. QED  BY <2>1
  <1>2. IsFiniteSet(Starts) /\ n \in Nat
    <2>1. IsFiniteSet(0 .. u - 1)
      BY FS_Interval
    <2>2. IsFiniteSet(Starts)
      BY <1>1, <2>1, FS_Subset
    <2>. QED  BY <2>2, FS_CardinalityType
  <1>3. ASSUME NEW i \in 1 .. n PROVE Nth(i) \in Starts
    <2>1. \E x \in Starts : Cardinality({y \in Starts : y < x}) = i - 1
      <3> HIDE DEF Starts
      <3>. QED  BY <1>1, <1>2, NthExists DEF Below
    <2>. QED  BY <2>1, Zenon
  <1>4. ASSUME NEW x \in S PROVE Min(Ends(x)) \in Ends(x)
    <2> DEFINE Out == {z \in Nat : z >= x /\ z + 1 \notin S}
    <2>1. Out \subseteq Nat /\ u \in Out
      BY <1>1
    <2>2. PICK z \in Out : \A y \in Out : z <= y
      <3> HIDE DEF Out
      <3>. QED  BY <2>1, LeastNat
    <2>3. z \in S
      <3>1. CASE z = x
        BY <3>1
      <3>2. CASE z # x
        <4>1. z - 1 \in Nat /\ z - 1 >= x /\ ~(z <= z - 1) /\ (z - 1) + 1 = z
          BY <1>1, <2>2, <3>2
        <4>2. z - 1 \notin Out
          BY <2>2, <4>1
        <4>. QED  BY <4>1, <4>2
      <3>. QED  BY <3>1, <3>2
    <2>4. z \in Ends(x) /\ Ends(x) \subseteq Nat
      BY <1>1, <2>2, <2>3
    <2>. HIDE DEF Ends
    <2>. QED  BY <2>4, MinIs
  <1>5. ASSUME NEW i \in 1 .. n PROVE Claim(Nth(i), Stop(Nth(i)) - Nth(i)) \in RangesBelow(u)
    <2>1. PICK x \in Starts : x = Nth(i)
      BY <1>3
    <2>2. PICK z \in Ends(x) : z = Min(Ends(x))
      BY <1>4, <2>1
    <2>3. x \in Nat /\ z \in Nat /\ z >= x /\ z + 1 <= u
      <3>1. z \in S /\ z >= x /\ x \in S
        BY <2>1, <2>2
      <3>2. z \in 0 .. u - 1 /\ x \in 0 .. u - 1
        BY <3>1
      <3>. QED  BY <3>1, <3>2
    <2>4. Claim(x, (z + 1) - x) \in RangesBelow(u)
      BY <2>3 DEF Claim, RangesBelow
    <2>. QED  BY <2>1, <2>2, <2>4
  <1>6. MaximalRanges(S) = [i \in 1 .. n |-> Claim(Nth(i), Stop(Nth(i)) - Nth(i))]
    BY DEF MaximalRanges
  <1> HIDE DEF n, Nth, Stop
  <1>. QED  BY <1>2, <1>5, <1>6

(* No ranges, no numbers; otherwise the last range ends above all of them.   *)
LEMMA LastRange ==
  ASSUME NEW u \in Nat, NEW S, S \subseteq 0 .. u - 1, NEW rs, rs = MaximalRanges(S)
  PROVE  /\ rs = <<>> => S = {}
         /\ rs # <<>> => \A y \in S : y < End(rs[Len(rs)])
  <1> DEFINE Starts == {x \in S : x = 0 \/ x - 1 \notin S}
             Nth(i) == CHOOSE x \in Starts : Cardinality({y \in Starts : y < x}) = i - 1
             Ends(x) == {z \in S : z >= x /\ z + 1 \notin S}
             Stop(x) == Min(Ends(x)) + 1
             n == Cardinality(Starts)
  <1>1. S \subseteq Nat /\ Starts \subseteq Nat /\ Starts \subseteq 0 .. u - 1
    <2>1. \A x \in S : x \in Nat /\ x \in 0 .. u - 1
      OBVIOUS
    <2>. QED  BY <2>1
  <1>2. IsFiniteSet(Starts) /\ n \in Nat
    <2>1. IsFiniteSet(0 .. u - 1)
      BY FS_Interval
    <2>2. IsFiniteSet(Starts)
      BY <1>1, <2>1, FS_Subset
    <2>. QED  BY <2>2, FS_CardinalityType
  <1>3. rs = [i \in 1 .. n |-> Claim(Nth(i), Stop(Nth(i)) - Nth(i))]
    BY DEF MaximalRanges
  (* the least of the numbers from w on starts a range, if w - 1 ends one *)
  <1>4. ASSUME NEW w \in Nat, w = 0 \/ w - 1 \notin S \/ w \notin S, NEW y \in S, y >= w
        PROVE  \E x \in Starts : x >= w
    <2> DEFINE F == {x \in S : x >= w}
    <2>1. F \subseteq Nat /\ F # {}
      BY <1>1, <1>4
    <2>2. PICK x \in F : \A z \in F : x <= z
      <3> HIDE DEF F
      <3>. QED  BY <2>1, LeastNat
    <2>3. x \in Nat /\ x \in S /\ x >= w
      BY <2>1
    <2>4. x = 0 \/ x - 1 \notin S
      <3> SUFFICES ASSUME x # 0, x - 1 \in S PROVE FALSE
        OBVIOUS
      <3>1. x - 1 \in Nat /\ ~(x <= x - 1)
        BY <2>3
      <3>2. x - 1 \notin F
        BY <2>2, <3>1
      <3>3. ~(x - 1 >= w)
        BY <3>2
      <3>4. x = w
        BY <2>3, <3>1, <3>3
      <3>. QED  BY <1>4, <2>3, <3>4
    <2>. QED  BY <2>3, <2>4
  <1>5. ASSUME rs = <<>> PROVE S = {}
    <2>1. n = 0
      <3>1. DOMAIN rs = 1 .. n
        BY <1>3
      <3>2. 1 .. n = {}
        BY <1>5, <3>1
      <3>. HIDE DEF n
      <3>. QED  BY <1>2, <3>2
    <2>2. Starts = {}
      <3>. HIDE DEF Starts
      <3>. QED  BY <1>2, <2>1, FS_EmptySet
    <2>3. ASSUME NEW y \in S PROVE FALSE
      <3>1. y \in Nat /\ y >= 0
        BY <1>1
      <3>2. \E x \in Starts : x >= 0
        BY <1>4, <3>1
      <3>. QED  BY <2>2, <3>2
    <2>. QED  BY <2>3
  <1>6. ASSUME rs # <<>>, NEW y \in S PROVE y < End(rs[Len(rs)])
    <2>1. n >= 1 /\ Len(rs) = n /\ n \in 1 .. n
      <3>1. n # 0
        <4> SUFFICES ASSUME n = 0 PROVE FALSE
          OBVIOUS
        <4>. HIDE DEF n, Nth, Stop
        <4>1. rs = [i \in 1 .. 0 |-> Claim(Nth(i), Stop(Nth(i)) - Nth(i))]
          BY <1>3
        <4>. QED  BY <1>6, <4>1
      <3>. HIDE DEF n, Nth, Stop
      <3>. QED  BY <1>2, <1>3, <3>1
    <2>2. PICK x : x = Nth(n)
      OBVIOUS
    <2>3. x \in Starts /\ Cardinality({z \in Starts : z < x}) = n - 1
      <3>1. \E z \in Starts : Cardinality({v \in Starts : v < z}) = n - 1
        <4>1. n \in 1 .. n
          BY <2>1
        <4> HIDE DEF Starts
        <4>. QED  BY <1>1, <1>2, <4>1, NthExists DEF Below
      <3>. QED  BY <2>2, <3>1, Zenon
    (* x is the greatest start *)
    <2>4. ASSUME NEW v \in Starts PROVE v <= x
      <3> SUFFICES ASSUME v > x PROVE FALSE
        BY <1>1, <2>3
      <3> DEFINE B == {z \in Starts : z < x}
      <3>1. IsFiniteSet(B) /\ x \notin B /\ Cardinality(B) = n - 1
        <4>1. B \subseteq Starts
          OBVIOUS
        <4>2. x \notin B
          BY <1>1, <2>3
        <4>. QED  BY <1>2, <2>3, <4>1, <4>2, FS_Subset
      <3>2. IsFiniteSet(B \cup {x}) /\ Cardinality(B \cup {x}) = (n - 1) + 1
        <4>. HIDE DEF B, n
        <4>. QED  BY <3>1, FS_AddElement
      <3>3. B \cup {x} \subseteq Starts /\ v \notin B \cup {x}
        <4>1. x \in Nat /\ v \in Nat /\ ~(v < x) /\ v # x
          BY <1>1, <2>3
        <4>. QED  BY <2>3, <4>1
      <3>4. B \cup {x} = Starts
        <4>. HIDE DEF B, Starts
        <4>1. (n - 1) + 1 = n
          BY <1>2
        <4>. QED  BY <1>2, <3>2, <3>3, <4>1, FS_Subset DEF n
      <3>. QED  BY <3>3, <3>4
    <2>5. PICK w \in Ends(x) : w = Min(Ends(x))
      <3>1. Ends(x) \subseteq Nat /\ Ends(x) # {}
        <4>1. Claim(Nth(n), Stop(Nth(n)) - Nth(n)) = rs[n]
          BY <1>3, <2>1
        <4>2. Ends(x) # {}
          <5> DEFINE Out == {z \in Nat : z >= x /\ z + 1 \notin S}
          <5>1. Out \subseteq Nat /\ u \in Out
            BY <1>1, <2>3
          <5>2. PICK z \in Out : \A v \in Out : z <= v
            <6> HIDE DEF Out
            <6>. QED  BY <5>1, LeastNat
          <5>3. z \in S
            <6>1. CASE z = x
              BY <2>3, <6>1
            <6>2. CASE z # x
              <7>1. z - 1 \in Nat /\ z - 1 >= x /\ ~(z <= z - 1) /\ (z - 1) + 1 = z
                BY <1>1, <2>3, <5>2, <6>2
              <7>2. z - 1 \notin Out
                BY <5>2, <7>1
              <7>. QED  BY <7>1, <7>2
            <6>. QED  BY <6>1, <6>2
          <5>. QED  BY <5>2, <5>3
        <4>. QED  BY <1>1, <4>2
      <3>. HIDE DEF Ends
      <3>. QED  BY <3>1, MinIs
    <2>6. w \in S /\ w \in Nat /\ w >= x /\ w + 1 \notin S /\ x \in Nat
      BY <1>1, <2>3, <2>5
    <2>7. End(rs[Len(rs)]) = w + 1
      <3>1. rs[Len(rs)] = Claim(x, (w + 1) - x)
        <4>. HIDE DEF n, Nth, Ends
        <4>. QED  BY <1>3, <2>1, <2>2, <2>5
      <3>. QED  BY <2>6, <3>1 DEF Claim, End
    <2>8. ~(y >= w + 1)
      <3> SUFFICES ASSUME y >= w + 1 PROVE FALSE
        OBVIOUS
      <3>1. PICK v \in Starts : v >= w + 1
        BY <1>4, <2>6
      <3>2. v \in Nat /\ v <= x
        BY <1>1, <2>4
      <3>. QED  BY <2>6, <3>1, <3>2
    <2>9. y \in Nat
      BY <1>1
    <2>. QED  BY <2>6, <2>7, <2>8, <2>9
  <1>. QED  BY <1>5, <1>6

-----------------------------------------------------------------------------
(* The two engines, and the tables of sessions.                              *)

(* There are two engines, each the other's peer.                             *)
LEMMA PeerFacts ==
  ASSUME NEW e \in Engine
  PROVE  Peer(e) \in Engine /\ Peer(e) # e /\ Peer(Peer(e)) = e /\ Engine = {e, Peer(e)}
  <1>1. PICK a, b \in Engine : a # b /\ Engine = {a, b}
    BY EngineAssumption
  <1>2. ASSUME NEW x \in Engine PROVE Peer(x) \in Engine /\ Peer(x) # x
    BY <1>1 DEF Peer
  <1>. QED  BY <1>1, <1>2

(* The session table after an entry is set.                                  *)
LEMMA WithIs ==
  ASSUME NEW e, NEW k, NEW s
  PROVE  /\ DOMAIN With(e, k, s) = DOMAIN sessions_[e] \cup {k}
         /\ With(e, k, s)[k] = s
         /\ \A j \in DOMAIN sessions_[e] : j # k => With(e, k, s)[j] = sessions_[e][j]
  BY DEF With

(* The session table after an entry is erased.                               *)
LEMMA ErasedIs ==
  ASSUME NEW e, NEW k
  PROVE  /\ DOMAIN Erased(e, k) = DOMAIN sessions_[e] \ {k}
         /\ \A j \in DOMAIN sessions_[e] \ {k} : Erased(e, k)[j] = sessions_[e][j]
  BY DEF Erased, Restrict

(* The bounds of the configuration are positive numbers.                     *)
LEMMA ConfigFacts ==
  /\ max_segment_size \in Nat /\ max_segment_size >= 1
  /\ CountModulus \in Nat /\ max_retransmissions \in Nat
  /\ max_retransmissions >= 1 /\ max_retransmissions < CountModulus
  /\ max_concurrent_sessions \in Nat /\ max_concurrent_sessions >= 1
  BY ConfigAssumption

(* Claims within the first u bytes of a block, which may be empty only where *)
(* the block is.                                                             *)
Within(u) == {c \in [offset : Nat, length : Nat] : c.offset + c.length <= u}

(* The chunks of a range lie within it, and the last one ends where it ends. *)
LEMMA ChunksWithin ==
  ASSUME NEW lo \in Nat, NEW hi \in Nat, lo < hi, NEW u \in Nat, hi <= u
  PROVE  /\ Chunks(lo, hi) \in Seq(Within(u)) /\ Len(Chunks(lo, hi)) > 0
         /\ End(Chunks(lo, hi)[Len(Chunks(lo, hi))]) = hi
  <1> DEFINE m == max_segment_size
             n == (hi - lo + m - 1) \div m
             Off(i) == lo + (i - 1) * m
             C(i) == Claim(Off(i), Min({m, hi - Off(i)}))
  <1>1. m \in Nat /\ m >= 1
    BY ConfigFacts
  <1>2. Chunks(lo, hi) = [i \in 1 .. n |-> C(i)]
    BY DEF Chunks
  <1>3. n \in Nat /\ n >= 1 /\ n * m <= hi - lo + m - 1 /\ hi - lo <= n * m
    <2> HIDE DEF m
    <2>1. PICK x \in Nat : x = hi - lo + m - 1
      BY <1>1
    <2>2. x \div m \in Nat /\ (x \div m) * m <= x /\ x < (x \div m) * m + m
      BY <1>1
    <2>3. x \div m # 0
      <3>1. x >= m
        BY <1>1, <2>1
      <3>. QED  BY <1>1, <2>2, <3>1
    <2>4. n = x \div m
      BY <2>1
    <2>5. PICK q \in Nat : q = x \div m
      BY <2>2
    <2>6. PICK y \in Nat : y = q * m
      BY <1>1
    <2>. QED  BY <1>1, <2>1, <2>2, <2>3, <2>4, <2>5, <2>6
  <1> HIDE DEF m, n
  <1>4. ASSUME NEW i \in 1 .. n
        PROVE  C(i) \in Within(u) /\ (i = n => End(C(i)) = hi)
    <2>1. Off(i) \in Nat /\ Off(i) < hi /\ (i = n => hi - Off(i) <= m)
      <3>1. PICK y \in Nat : y = (i - 1) * m
        BY <1>1, <1>3
      <3>2. y + m = i * m
        BY <1>1, <1>3, <3>1
      <3>3. PICK z \in Nat : z = n * m
        BY <1>1, <1>3
      <3>4. y + m <= z
        BY <1>1, <1>3, <3>2, <3>3
      <3>. QED  BY <1>1, <1>3, <3>1, <3>2, <3>3, <3>4
    <2>2. PICK o \in Nat : o = Off(i)
      BY <2>1
    <2>3. Min({m, hi - o}) = IF m <= hi - o THEN m ELSE hi - o
      BY <1>1, <2>1, <2>2, MinOfTwo
    <2>4. PICK l \in Nat : l = Min({m, hi - o})
      BY <1>1, <2>1, <2>2, <2>3
    <2>5. o + l <= hi /\ (i = n => o + l = hi)
      BY <1>1, <2>1, <2>2, <2>3, <2>4
    <2>6. C(i) = Claim(o, l)
      BY <2>2, <2>4
    <2>. HIDE DEF C
    <2>. QED  BY <2>5, <2>6 DEF Claim, Within, End
  <1> HIDE DEF C
  <1>5. Chunks(lo, hi) \in Seq(Within(u)) /\ Len(Chunks(lo, hi)) = n
    BY <1>2, <1>3, <1>4
  <1>6. Chunks(lo, hi)[n] = C(n)
    BY <1>2, <1>3
  <1>. QED  BY <1>3, <1>4, <1>5, <1>6

(* A segment that carries bytes of data, for the session k.                  *)
Piece(m, k, data) ==
  /\ m.key = k /\ m.offset \in Nat /\ m.data \in Seq(Byte)
  /\ m.offset + Len(m.data) <= Len(data)
  /\ \A i \in 1 .. Len(m.data) : m.data[i] = data[m.offset + i]

(* Segments made of chunks carry the bytes of the block in their place.      *)
LEMMA SegmentsAre ==
  ASSUME NEW k, NEW data \in Seq(Byte), NEW chunks \in Seq(Within(Len(data))),
         NEW type, NEW lastType, NEW serial, NEW out,
         out = Segments(k, data, chunks, type, lastType, serial)
  PROVE  /\ out \in Seq(ToSet(out)) /\ DOMAIN out = 1 .. Len(chunks)
         /\ \A i \in 1 .. Len(chunks) :
              /\ Piece(out[i], k, data)
              /\ out[i].type = IF i = Len(chunks) THEN lastType ELSE type
              /\ out[i].offset + Len(out[i].data) = End(chunks[i])
  <1> DEFINE n == Len(chunks)
  <1>1. n \in Nat /\ DOMAIN out = 1 .. n
    BY DEF Segments
  <1>2. out \in Seq(ToSet(out))
    <2>1. \A i \in 1 .. n : out[i] \in ToSet(out)
      BY <1>1 DEF ToSet
    <2>2. out \in [1 .. n -> ToSet(out)]
      <3>1. out = [i \in 1 .. n |-> out[i]]
        BY <1>1 DEF Segments
      <3>. QED  BY <2>1, <3>1
    <2>. HIDE DEF n
    <2>. QED  BY <1>1, <2>2, SeqDef
  <1>3. ASSUME NEW i \in 1 .. n
        PROVE  /\ Piece(out[i], k, data)
               /\ out[i].type = IF i = n THEN lastType ELSE type
               /\ out[i].offset + Len(out[i].data) = End(chunks[i])
    <2>1. PICK c \in Within(Len(data)) : c = chunks[i]
      OBVIOUS
    <2>2. c.offset \in Nat /\ c.length \in Nat /\ c.offset + c.length <= Len(data)
      BY DEF Within
    <2>3. PICK b : b = SubSeq(data, c.offset + 1, End(c))
      OBVIOUS
    <2>4. b \in Seq(Byte) /\ Len(b) = c.length /\ \A j \in 1 .. Len(b) : b[j] = data[c.offset + j]
      <3>1. PICK o \in Nat, l \in Nat : o = c.offset /\ l = c.length
        BY <2>2
      <3>2. o + l <= Len(data) /\ b = SubSeq(data, o + 1, o + l)
        BY <2>2, <2>3, <3>1 DEF End
      <3>3. \A x \in o + 1 .. o + l : data[x] \in Byte
        BY <3>2
      <3>4. /\ b \in Seq(Byte) /\ Len(b) = IF o + 1 <= o + l THEN o + l - (o + 1) + 1 ELSE 0
            /\ \A j \in 1 .. o + l - (o + 1) + 1 : b[j] = data[o + 1 + j - 1]
        BY <3>2, <3>3, SubSeqProperties
      <3>5. Len(b) = l /\ o + l - (o + 1) + 1 = l
        BY <3>4
      <3>6. \A j \in 1 .. l : o + 1 + j - 1 = o + j
        OBVIOUS
      <3>. QED  BY <3>1, <3>4, <3>5, <3>6
    <2>5. PICK t : t = IF i = n THEN lastType ELSE type
      OBVIOUS
    <2>6. PICK sn : out[i] = DataSegment(k, t, c.offset, b, sn)
      BY <2>1, <2>3, <2>5 DEF Segments
    <2>7. /\ out[i].key = k /\ out[i].offset = c.offset /\ out[i].data = b /\ out[i].type = t
      BY <2>6 DEF DataSegment
    <2>8. Piece(out[i], k, data)
      BY <2>2, <2>4, <2>7 DEF Piece
    <2>. QED  BY <2>1, <2>2, <2>4, <2>5, <2>7, <2>8 DEF End
  <1>. QED  BY <1>1, <1>2, <1>3

(* The first transmission is pieces of the block, and its EOB is its end.    *)
LEMMA segment_dataIs ==
  ASSUME NEW k, NEW s, NEW serial, s.client_data \in Seq(Byte), s.is_red \in BOOLEAN, NEW out,
         out = segment_data(k, s, serial)
  PROVE  /\ out \in Seq(ToSet(out))
         /\ \A m \in ToSet(out) :
              /\ Piece(m, k, s.client_data)
              /\ m.type \in IF s.is_red THEN {"RED_DATA", "RED_DATA_CP_EORP_EOB"} ELSE GreenTypes
              /\ m.type \in EobTypes => m.offset + Len(m.data) = Len(s.client_data)
         /\ s.is_red => \E m \in ToSet(out) : m.type = "RED_DATA_CP_EORP_EOB"
  <1>1. PICK data \in Seq(Byte) : data = s.client_data
    OBVIOUS
  <1>2. PICK chunks : chunks = IF Len(data) = 0 THEN <<Claim(0, 0)>> ELSE Chunks(0, Len(data))
    OBVIOUS
  <1>3. /\ chunks \in Seq(Within(Len(data))) /\ Len(chunks) > 0
        /\ End(chunks[Len(chunks)]) = Len(data)
    <2>1. CASE Len(data) = 0
      <3>1. Claim(0, 0) \in Within(Len(data)) /\ End(Claim(0, 0)) = 0
        BY <2>1 DEF Claim, Within, End
      <3>2. chunks = <<Claim(0, 0)>>
        BY <1>2, <2>1
      <3>. QED  BY <2>1, <3>1, <3>2
    <2>2. CASE Len(data) # 0
      <3>1. 0 < Len(data) /\ Len(data) \in Nat /\ chunks = Chunks(0, Len(data))
        BY <1>2, <2>2
      <3>. QED  BY <3>1, ChunksWithin
    <2>. QED  BY <2>1, <2>2
  <1>4. \E type, lastType, sn :
          /\ out = Segments(k, data, chunks, type, lastType, sn)
          /\ {type, lastType} \subseteq IF s.is_red THEN {"RED_DATA", "RED_DATA_CP_EORP_EOB"}
                                                    ELSE GreenTypes
          /\ type \notin EobTypes /\ (s.is_red => lastType = "RED_DATA_CP_EORP_EOB")
    <2>1. CASE s.is_red
      <3>1. out = Segments(k, data, chunks, "RED_DATA", "RED_DATA_CP_EORP_EOB", serial)
        BY <1>1, <1>2, <2>1 DEF segment_data
      <3>. QED  BY <2>1, <3>1 DEF EobTypes
    <2>2. CASE ~s.is_red
      <3>1. out = Segments(k, data, chunks, "GREEN_DATA", "GREEN_DATA_EOB", 0)
        BY <1>1, <1>2, <2>2 DEF segment_data
      <3>. QED  BY <2>2, <3>1 DEF EobTypes, GreenTypes
    <2>. QED  BY <2>1, <2>2
  <1>5. PICK type, lastType, sn :
          /\ out = Segments(k, data, chunks, type, lastType, sn)
          /\ {type, lastType} \subseteq IF s.is_red THEN {"RED_DATA", "RED_DATA_CP_EORP_EOB"}
                                                    ELSE GreenTypes
          /\ type \notin EobTypes /\ (s.is_red => lastType = "RED_DATA_CP_EORP_EOB")
    BY <1>4
  <1>6. /\ out \in Seq(ToSet(out)) /\ DOMAIN out = 1 .. Len(chunks)
        /\ \A i \in 1 .. Len(chunks) :
             /\ Piece(out[i], k, data)
             /\ out[i].type = IF i = Len(chunks) THEN lastType ELSE type
             /\ out[i].offset + Len(out[i].data) = End(chunks[i])
    BY <1>3, <1>5, SegmentsAre
  <1>7. ASSUME NEW m \in ToSet(out)
        PROVE  /\ Piece(m, k, data)
               /\ m.type \in {type, lastType}
               /\ m.type \in EobTypes => m.offset + Len(m.data) = Len(data)
    <2>1. PICK i \in 1 .. Len(chunks) : m = out[i]
      BY <1>6 DEF ToSet
    <2>. QED  BY <1>3, <1>5, <1>6, <2>1
  <1>8. \E m \in ToSet(out) : m.type = lastType
    <2>1. Len(chunks) \in 1 .. Len(chunks)
      BY <1>3
    <2>2. out[Len(chunks)].type = lastType /\ out[Len(chunks)] \in ToSet(out)
      BY <1>6, <2>1 DEF ToSet
    <2>. QED  BY <2>2
  <1>. QED  BY <1>1, <1>5, <1>6, <1>7, <1>8

(* A retransmission is pieces of the block as well, and its checkpoint ends  *)
(* where the last gap ends.                                                  *)
LEMMA retransmit_gapsIs ==
  ASSUME NEW k, NEW s, NEW serial, s.client_data \in Seq(Byte),
         NEW u \in 0 .. Len(s.client_data), NEW gaps \in Seq(RangesBelow(u)), NEW out,
         out = retransmit_gaps(k, s, gaps, serial)
  PROVE  /\ out \in Seq(ToSet(out))
         /\ \A m \in ToSet(out) :
              Piece(m, k, s.client_data) /\ m.type \in {"RED_DATA", "RED_DATA_CP"}
         /\ gaps # <<>> =>
              /\ \E m \in ToSet(out) : m.type = "RED_DATA_CP"
              /\ \A m \in ToSet(out) : m.type = "RED_DATA_CP" =>
                   m.offset + Len(m.data) = End(gaps[Len(gaps)])
  <1>1. PICK data \in Seq(Byte) : data = s.client_data
    OBVIOUS
  <1>2. PICK lists : lists = [i \in 1 .. Len(gaps) |-> Chunks(gaps[i].offset, End(gaps[i]))]
    OBVIOUS
  <1>3. /\ lists \in Seq(Seq(Within(Len(data))))
        /\ gaps # <<>> =>
             /\ lists # <<>> /\ Len(lists) = Len(gaps) /\ Len(lists[Len(lists)]) > 0
             /\ End(lists[Len(lists)][Len(lists[Len(lists)])]) = End(gaps[Len(gaps)])
    <2>1. ASSUME NEW i \in 1 .. Len(gaps)
          PROVE  /\ Chunks(gaps[i].offset, End(gaps[i])) \in Seq(Within(Len(data)))
                 /\ \E c : /\ c = Chunks(gaps[i].offset, End(gaps[i])) /\ Len(c) > 0
                          /\ End(c[Len(c)]) = End(gaps[i])
      <3>1. PICK c \in RangesBelow(u) : c = gaps[i]
        OBVIOUS
      <3>2. c.offset \in Nat /\ End(c) \in Nat /\ c.offset < End(c) /\ End(c) <= Len(data)
        BY <1>1, SMTT(30) DEF RangesBelow, End
      <3>3. PICK lo \in Nat, hi \in Nat : lo = c.offset /\ hi = End(c)
        BY <3>2
      <3>4. lo < hi /\ hi <= Len(data) /\ Len(data) \in Nat
        BY <3>2, <3>3
      <3>5. /\ Chunks(lo, hi) \in Seq(Within(Len(data))) /\ Len(Chunks(lo, hi)) > 0
            /\ End(Chunks(lo, hi)[Len(Chunks(lo, hi))]) = hi
        BY <3>4, ChunksWithin
      <3>. QED  BY <3>1, <3>3, <3>5, Zenon
    <2>2. lists \in Seq(Seq(Within(Len(data))))
      BY <1>2, <2>1
    <2>3. ASSUME gaps # <<>>
          PROVE  /\ lists # <<>> /\ Len(lists) = Len(gaps) /\ Len(lists[Len(lists)]) > 0
                 /\ End(lists[Len(lists)][Len(lists[Len(lists)])]) = End(gaps[Len(gaps)])
      <3>1. PICK n \in Nat : n = Len(gaps)
        OBVIOUS
      <3>2. n \in 1 .. n
        BY <2>3, <3>1
      <3>3. PICK c : /\ c = Chunks(gaps[n].offset, End(gaps[n])) /\ Len(c) > 0
                     /\ End(c[Len(c)]) = End(gaps[n])
        BY <2>1, <3>1, <3>2
      <3>4. Len(lists) = n /\ lists # <<>>
        BY <1>2, <3>1, <3>2
      <3>5. lists[n] = c
        BY <1>2, <3>1, <3>2, <3>3
      <3>. QED  BY <3>1, <3>3, <3>4, <3>5
    <2>. QED  BY <2>2, <2>3
  <1>4. PICK chunks : chunks = FlattenSeq(lists)
    OBVIOUS
  <1>5. chunks \in Seq(Within(Len(data)))
    BY <1>3, <1>4, FlattenTyped
  <1>6. out = Segments(k, data, chunks, "RED_DATA", "RED_DATA_CP", serial)
    BY <1>1, <1>2, <1>4 DEF retransmit_gaps
  <1>7. /\ out \in Seq(ToSet(out)) /\ DOMAIN out = 1 .. Len(chunks)
        /\ \A i \in 1 .. Len(chunks) :
             /\ Piece(out[i], k, data)
             /\ out[i].type = IF i = Len(chunks) THEN "RED_DATA_CP" ELSE "RED_DATA"
             /\ out[i].offset + Len(out[i].data) = End(chunks[i])
    BY <1>5, <1>6, SegmentsAre
  <1>8. ASSUME gaps # <<>>
        PROVE  /\ \E m \in ToSet(out) : m.type = "RED_DATA_CP"
               /\ \A m \in ToSet(out) : m.type = "RED_DATA_CP" =>
                    m.offset + Len(m.data) = End(gaps[Len(gaps)])
    <2>1. PICK x : x = lists[Len(lists)]
      OBVIOUS
    <2>2. lists # <<>> /\ Len(x) > 0 /\ End(x[Len(x)]) = End(gaps[Len(gaps)])
      BY <1>3, <1>8, <2>1
    <2>3. Len(chunks) > 0 /\ chunks[Len(chunks)] = x[Len(x)]
      BY <1>3, <1>4, <2>1, <2>2, FlattenLast
    <2>4. Len(chunks) \in 1 .. Len(chunks)
      BY <1>5, <2>3
    <2>5. \E m \in ToSet(out) : m.type = "RED_DATA_CP"
      <3>1. out[Len(chunks)].type = "RED_DATA_CP" /\ out[Len(chunks)] \in ToSet(out)
        BY <1>7, <2>4 DEF ToSet
      <3>. QED  BY <3>1
    <2>6. ASSUME NEW m \in ToSet(out), m.type = "RED_DATA_CP"
          PROVE  m.offset + Len(m.data) = End(gaps[Len(gaps)])
      <3>1. PICK i \in 1 .. Len(chunks) : m = out[i]
        BY <1>7 DEF ToSet
      <3>2. i = Len(chunks)
        BY <1>7, <2>6, <3>1
      <3>. QED  BY <1>7, <2>2, <2>3, <3>1, <3>2
    <2>. QED  BY <2>5, <2>6
  <1>9. \A m \in ToSet(out) : Piece(m, k, data) /\ m.type \in {"RED_DATA", "RED_DATA_CP"}
    BY <1>7 DEF ToSet
  <1>. QED  BY <1>1, <1>7, <1>8, <1>9

-----------------------------------------------------------------------------
(* Blocks and the sessions that hold them.                                   *)

(* A session that was issued is an entry of its originator's history.        *)
LEMMA IssuedFacts ==
  ASSUME NEW x \in Engine, NEW k \in Issued(x)
  PROVE  k[1] = x /\ k[2] \in 1 .. Len(given[x]) /\ k = <<x, k[2]>> /\ BlockOf(k) = given[x][k[2]]
  BY DEF Issued, BlockOf

(* No session is issued by both engines.                                     *)
LEMMA IssuedApart ==
  ASSUME NEW e \in Engine, NEW k \in Issued(e)
  PROVE  k \notin Issued(Peer(e))
  <1>1. k[1] = e
    BY IssuedFacts
  <1>2. Peer(e) \in Engine /\ Peer(e) # e
    BY PeerFacts
  <1>. QED  BY <1>1, <1>2, IssuedFacts

(* A block that was given is a list of bytes, red or green.                  *)
LEMMA BlockFacts ==
  ASSUME BaseInv, NEW x \in Engine, NEW k \in Issued(x)
  PROVE  /\ BlockOf(k) \in BlockRecord /\ Data(k) \in Seq(Byte) /\ Len(Data(k)) \in Nat
         /\ Red(k) \in BOOLEAN
  <1>1. BlockOf(k) = given[x][k[2]] /\ k[2] \in 1 .. Len(given[x])
    BY IssuedFacts
  <1>2. given[x] \in Seq(BlockRecord)
    BY DEF BaseInv
  <1>3. BlockOf(k) \in BlockRecord
    BY <1>1, <1>2
  <1>. QED  BY <1>3 DEF BlockRecord, Data, Red

(* A session in the table is the originator's or the receiver's side of one. *)
LEMMA EndsOfSession ==
  ASSUME SessionInv, NEW e \in Engine, NEW k \in DOMAIN sessions_[e]
  PROVE  /\ k \in Issued(e) => OwnOK(k, sessions_[e][k])
         /\ k \in Issued(Peer(e)) => PeerOK(k, sessions_[e][k])
         /\ k \in Issued(e) \/ k \in Issued(Peer(e))
  BY IssuedApart DEF SessionInv, SessionOK

(* A buffer for the block b, data for its place off, and the buffer then.    *)
BufferFor(b, old) ==
  /\ old \in Seq(Byte \cup {Zero}) /\ Len(old) <= Len(b)
  /\ \A i \in 1 .. Len(old) : old[i] \in {b[i], Zero}
PartOf(b, off, data) ==
  /\ off \in Nat /\ data \in Seq(Byte) /\ off + Len(data) <= Len(b)
  /\ \A i \in 1 .. Len(data) : data[i] = b[off + i]
BufferAfter(b, old, off, data, r) ==
  /\ BufferFor(b, r) /\ Len(r) >= Len(old) /\ Len(r) >= off + Len(data)
  /\ \A i \in off + 1 .. off + Len(data) : r[i] = b[i]
  /\ \A i \in 1 .. Len(old) : old[i] = b[i] => r[i] = b[i]

(* Writing a piece of the block into the buffer leaves a buffer of the block.*)
LEMMA ReassembledIs ==
  ASSUME NEW b \in Seq(Byte), NEW old, BufferFor(b, old), NEW off, NEW data, PartOf(b, off, data),
         NEW r, r = Reassembled(old, off, data)
  PROVE  BufferAfter(b, old, off, data, r)
  <1> USE DEF BufferFor, PartOf
  <1> DEFINE n == Max({Len(old), off + Len(data)})
             R(i) == CASE i \in off + 1 .. off + Len(data) -> data[i - off]
                       [] i \in DOMAIN old \ (off + 1 .. off + Len(data)) -> old[i]
                       [] OTHER -> Zero
  <1>1. /\ Len(old) \in Nat /\ off + Len(data) \in Nat /\ Len(b) \in Nat /\ Len(data) \in Nat
        /\ DOMAIN old = 1 .. Len(old)
    OBVIOUS
  <1>2. n = IF Len(old) >= off + Len(data) THEN Len(old) ELSE off + Len(data)
    BY <1>1, MaxOfTwo, SMTT(30)
  <1>3. n \in Nat /\ n >= Len(old) /\ n >= off + Len(data) /\ n <= Len(b)
    BY <1>1, <1>2
  <1> HIDE DEF n
  <1>4. r = [i \in 1 .. n |-> R(i)]
    BY DEF Reassembled, n
  <1>5. ASSUME NEW i \in 1 .. n
        PROVE  /\ R(i) \in {b[i], Zero}
               /\ i \in off + 1 .. off + Len(data) => R(i) = b[i]
               /\ (i \in 1 .. Len(old) /\ old[i] = b[i]) => R(i) = b[i]
    <2>1. CASE i \in off + 1 .. off + Len(data)
      <3>1. R(i) = data[i - off]
        BY <2>1
      <3>2. i - off \in 1 .. Len(data) /\ off + (i - off) = i
        BY <1>1, <2>1
      <3>3. R(i) = b[i]
        BY <3>1, <3>2
      <3>. QED  BY <3>3
    <2>2. CASE i \notin off + 1 .. off + Len(data) /\ i \in 1 .. Len(old)
      <3>1. R(i) = old[i]
        BY <1>1, <2>2
      <3>. QED  BY <2>2, <3>1
    <2>3. CASE i \notin off + 1 .. off + Len(data) /\ i \notin 1 .. Len(old)
      <3>1. R(i) = Zero
        BY <1>1, <2>3
      <3>. QED  BY <2>3, <3>1
    <2>. QED  BY <2>1, <2>2, <2>3
  <1>6. ASSUME NEW i \in 1 .. n PROVE R(i) \in Byte \cup {Zero}
    <2>1. b[i] \in Byte
      BY <1>1, <1>3
    <2>. QED  BY <1>5, <2>1
  <1> HIDE DEF R
  <1>7. r \in Seq(Byte \cup {Zero}) /\ Len(r) = n
    BY <1>3, <1>4, <1>6
  <1>8. \A i \in 1 .. n : r[i] = R(i)
    BY <1>4
  <1>9. \A i \in 1 .. Len(old) : i \in 1 .. n
    BY <1>1, <1>3
  <1>10. \A i \in off + 1 .. off + Len(data) : i \in 1 .. n
    BY <1>1, <1>3
  <1>11. /\ \A i \in 1 .. n : r[i] \in {b[i], Zero}
         /\ \A i \in off + 1 .. off + Len(data) : r[i] = b[i]
         /\ \A i \in 1 .. Len(old) : old[i] = b[i] => r[i] = b[i]
    BY <1>5, <1>8, <1>9, <1>10
  <1>. QED  BY <1>3, <1>7, <1>11 DEF BufferAfter

(* A session that receive_data_segment has just created holds nothing yet.   *)
LEMMA ReceiverOK ==
  ASSUME NEW k, Len(Data(k)) \in Nat, NEW red \in BOOLEAN
  PROVE  PeerOK(k, Receiver(red)) /\ Receiver(red).total_data_length = 0
  <1>1. <<>> \in Seq(Byte \cup {Zero}) /\ Len(<<>>) = 0
    OBVIOUS
  <1>2. 0 \in 0 .. CountModulus - 1
    BY ConfigFacts
  <1>3. Receiver(red) \in Session
    BY <1>1, <1>2 DEF Receiver, Session
  <1>4. /\ Receiver(red).role = "RECEIVER" /\ Receiver(red).checkpoint_serial_counter = 0
        /\ Receiver(red).client_data = <<>> /\ Receiver(red).tracker = {}
        /\ Receiver(red).total_data_length = 0
    BY DEF Receiver
  <1>. QED  BY <1>1, <1>3, <1>4 DEF PeerOK

SessionWith(s, c, tr, tot) ==
  [s EXCEPT !.client_data = c, !.tracker = tr, !.total_data_length = tot]

(* A session with a new buffer, tracker and length is a session still, and   *)
(* its other fields are as they were.                                        *)
LEMMA SessionStored ==
  ASSUME NEW s \in Session, NEW c \in Seq(Byte \cup {Zero}), NEW tr \in SUBSET Nat, NEW tot \in Nat
  PROVE  /\ SessionWith(s, c, tr, tot) \in Session
         /\ SessionWith(s, c, tr, tot).client_data = c
         /\ SessionWith(s, c, tr, tot).tracker = tr
         /\ SessionWith(s, c, tr, tot).total_data_length = tot
         /\ SessionWith(s, c, tr, tot).role = s.role
         /\ SessionWith(s, c, tr, tot).checkpoint_serial_counter = s.checkpoint_serial_counter
  BY DEF Session, SessionWith

(* A segment that is stored leaves a true receiving side that holds no less. *)
LEMMA StoredIs ==
  ASSUME BaseInv, SessionInv, NEW e \in Engine, NEW m, SegmentOK(e, m), m.type \in DataTypes,
         NEW r, r = Stored(e, m)
  PROVE  /\ m.key \in Issued(Peer(e)) /\ PeerOK(m.key, r)
         /\ m.type \in EobTypes => /\ r.total_data_length = Len(Data(m.key))
                                   /\ Len(r.client_data) = Len(Data(m.key))
         /\ Known(e, m.key) =>
              /\ sessions_[e][m.key].tracker \subseteq r.tracker
              /\ m.type \notin EobTypes =>
                   r.total_data_length = sessions_[e][m.key].total_data_length
  <1> DEFINE k == m.key  b == Data(k)
  <1>1. k \in Issued(Peer(e)) /\ Placed(m)
    BY DEF SegmentOK, DataTypes, RedTypes, GreenTypes, CancelAckTypes
  <1>2. Peer(e) \in Engine
    BY PeerFacts
  <1>3. b \in Seq(Byte) /\ Len(b) \in Nat
    BY <1>1, <1>2, BlockFacts
  <1>4. PICK s : s = IF Known(e, k) THEN sessions_[e][k] ELSE Receiver(m.type \in RedTypes)
    OBVIOUS
  <1>5. PeerOK(k, s)
    <2>1. CASE Known(e, k)
      BY <1>1, <1>4, <2>1, EndsOfSession DEF Known
    <2>2. CASE ~Known(e, k)
      <3>1. (m.type \in RedTypes) \in BOOLEAN
        OBVIOUS
      <3>. HIDE DEF k
      <3>. QED  BY <1>3, <1>4, <2>2, <3>1, ReceiverOK
    <2>. QED  BY <2>1, <2>2
  <1>6. PICK old, off, data : old = s.client_data /\ off = m.offset /\ data = m.data
    OBVIOUS
  <1>7. PICK c, tr, tot : /\ c = Reassembled(old, off, data)
                          /\ tr = s.tracker \cup (off .. off + Len(data) - 1)
                          /\ tot = Total(m, s.total_data_length)
    OBVIOUS
  <1>8. r = [s EXCEPT !.client_data = c, !.tracker = tr, !.total_data_length = tot]
    BY <1>4, <1>6, <1>7 DEF Stored
  <1>9. s \in Session
    BY <1>5 DEF PeerOK
  <1>10. /\ old \in Seq(Byte \cup {Zero}) /\ s.tracker \subseteq Nat /\ s.total_data_length \in Nat
         /\ Len(old) \in Nat
    BY <1>6, <1>9 DEF Session
  <1>11. /\ Len(old) <= Len(b) /\ \A i \in 1 .. Len(old) : old[i] \in {b[i], Zero}
         /\ s.tracker \subseteq 0 .. Len(old) - 1
         /\ \A o \in s.tracker : old[o + 1] = b[o + 1]
         /\ s.total_data_length \in {0, Len(b)}
         /\ s.total_data_length > 0 => Len(old) = Len(b)
    BY <1>5, <1>6 DEF PeerOK
  <1>12. /\ off \in Nat /\ data \in Seq(Byte) /\ off + Len(data) <= Len(b)
         /\ \A i \in 1 .. Len(data) : data[i] = b[off + i]
         /\ m.type \in EobTypes => off + Len(data) = Len(b)
    BY <1>1, <1>6 DEF Placed
  <1> HIDE DEF b
  <1>13. /\ c \in Seq(Byte \cup {Zero}) /\ Len(c) <= Len(b)
         /\ Len(c) >= Len(old) /\ Len(c) >= off + Len(data)
         /\ \A i \in 1 .. Len(c) : c[i] \in {b[i], Zero}
         /\ \A i \in off + 1 .. off + Len(data) : c[i] = b[i]
         /\ \A i \in 1 .. Len(old) : old[i] = b[i] => c[i] = b[i]
    <2>1. BufferFor(b, old)
      BY <1>10, <1>11 DEF BufferFor
    <2>2. PartOf(b, off, data)
      BY <1>12 DEF PartOf
    <2>3. BufferAfter(b, old, off, data, c)
      BY <1>3, <1>7, <2>1, <2>2, ReassembledIs
    <2>. QED  BY <2>3 DEF BufferAfter, BufferFor
  <1>14. tot = IF m.type \in EobTypes THEN Len(b) ELSE s.total_data_length
    BY <1>6, <1>7, <1>12 DEF Total
  <1>15. /\ r \in Session /\ r.client_data = c /\ r.tracker = tr /\ r.total_data_length = tot
         /\ r.role = s.role /\ r.checkpoint_serial_counter = s.checkpoint_serial_counter
    <2>1. tr \subseteq Nat
      <3>1. Len(data) \in Nat
        BY <1>12
      <3>2. \A o \in off .. off + Len(data) - 1 : o \in Nat
        BY <1>12, <3>1
      <3>. QED  BY <1>7, <1>10, <3>2
    <2>2. tot \in Nat
      BY <1>3, <1>10, <1>14
    <2>3. c \in Seq(Byte \cup {Zero}) /\ tr \in SUBSET Nat
      BY <1>13, <2>1
    <2>4. r = SessionWith(s, c, tr, tot)
      BY <1>8 DEF SessionWith
    <2>. QED  BY <1>9, <2>2, <2>3, <2>4, SessionStored
  <1>16. /\ tr \subseteq 0 .. Len(c) - 1
         /\ \A o \in tr : c[o + 1] = b[o + 1]
    <2>1. Len(c) \in Nat /\ Len(data) \in Nat
      BY <1>12, <1>13
    <2>2. ASSUME NEW o \in s.tracker PROVE o \in 0 .. Len(c) - 1 /\ c[o + 1] = b[o + 1]
      <3>1. o \in 0 .. Len(old) - 1 /\ old[o + 1] = b[o + 1]
        BY <1>11
      <3>2. o + 1 \in 1 .. Len(old) /\ o \in 0 .. Len(c) - 1
        BY <1>10, <1>13, <2>1, <3>1
      <3>. QED  BY <1>13, <3>1, <3>2
    <2>3. ASSUME NEW o \in off .. off + Len(data) - 1
          PROVE  o \in 0 .. Len(c) - 1 /\ c[o + 1] = b[o + 1]
      <3>1. o + 1 \in off + 1 .. off + Len(data) /\ o \in 0 .. Len(c) - 1
        BY <1>12, <1>13, <2>1
      <3>. QED  BY <1>13, <3>1
    <2>. QED  BY <1>7, <2>2, <2>3
  <1>17. tot \in {0, Len(b)} /\ (tot > 0 => Len(c) = Len(b)) /\ (m.type \in EobTypes => Len(c) = Len(b))
    <2>1. Len(c) \in Nat
      BY <1>13
    <2>. QED  BY <1>3, <1>10, <1>11, <1>12, <1>13, <1>14, <2>1
  <1>18. PeerOK(k, r)
    <2>1. s.role = "RECEIVER" /\ s.checkpoint_serial_counter = 0
      BY <1>5 DEF PeerOK
    <2>. QED  BY <1>13, <1>15, <1>16, <1>17, <2>1 DEF PeerOK, b
  <1>. QED  BY <1>1, <1>4, <1>7, <1>14, <1>15, <1>17, <1>18 DEF b

-----------------------------------------------------------------------------
(* Lists.                                                                    *)

(* A list is a list of its members.                                          *)
LEMMA ListOfMembers ==
  ASSUME NEW T, NEW s \in Seq(T)
  PROVE  /\ s \in Seq(ToSet(s)) /\ ToSet(s) \subseteq T /\ Len(s) \in Nat /\ DOMAIN s = 1 .. Len(s)
         /\ \A x \in ToSet(s) : \E i \in 1 .. Len(s) : x = s[i]
         /\ \A i \in 1 .. Len(s) : s[i] \in ToSet(s)
  <1>1. Len(s) \in Nat /\ DOMAIN s = 1 .. Len(s)
    OBVIOUS
  <1>2. \A i \in 1 .. Len(s) : s[i] \in ToSet(s) /\ s[i] \in T
    BY <1>1 DEF ToSet
  <1>3. s \in [1 .. Len(s) -> ToSet(s)]
    <2>1. s = [i \in 1 .. Len(s) |-> s[i]]
      OBVIOUS
    <2>. QED  BY <1>2, <2>1
  <1>4. s \in Seq(ToSet(s))
    BY <1>1, <1>3, SeqDef
  <1>. QED  BY <1>1, <1>2, <1>4 DEF ToSet

(* The empty list has no member.                                             *)
LEMMA EmptyList == <<>> \in Seq(ToSet(<<>>)) /\ ToSet(<<>>) = {} /\ Len(<<>>) = 0
  BY DEF ToSet

(* A list of one has that one as its member.                                 *)
LEMMA OneMember ==
  ASSUME NEW x
  PROVE  /\ <<x>> \in Seq(ToSet(<<x>>)) /\ ToSet(<<x>>) = {x} /\ Len(<<x>>) = 1 /\ <<x>>[1] = x
         /\ DOMAIN <<x>> = 1 .. 1
  <1>1. ToSet(<<x>>) = {x}
    BY DEF ToSet
  <1>. QED  BY <1>1

(* The head and the members of the tail are the members of a list.           *)
LEMMA TailIs ==
  ASSUME NEW s, s \in Seq(ToSet(s)), s # <<>>
  PROVE  /\ Head(s) \in ToSet(s) /\ Tail(s) \in Seq(ToSet(Tail(s)))
         /\ ToSet(s) = {Head(s)} \cup ToSet(Tail(s)) /\ ToSet(Tail(s)) \subseteq ToSet(s)
         /\ Len(s) \in Nat /\ Len(s) >= 1 /\ Len(Tail(s)) = Len(s) - 1 /\ Head(s) = s[1]
         /\ \A i \in 1 .. Len(s) - 1 : Tail(s)[i] = s[i + 1]
  <1>1. PICK T : T = ToSet(s) /\ s \in Seq(T)
    OBVIOUS
  <1>2. /\ Head(s) \in T /\ Tail(s) \in Seq(T) /\ Len(Tail(s)) = Len(s) - 1
        /\ Range(s) = {Head(s)} \cup Range(Tail(s))
    BY <1>1, MembersOfTail
  <1>3. Tail(s) \in Seq(ToSet(Tail(s)))
    BY <1>2, ListOfMembers
  <1>4. Range(s) = ToSet(s) /\ Range(Tail(s)) = ToSet(Tail(s))
    BY DEF Range, ToSet
  <1>5. /\ Len(s) \in Nat /\ Len(s) >= 1 /\ Head(s) = s[1]
        /\ \A i \in 1 .. Len(s) - 1 : Tail(s)[i] = s[i + 1]
    BY <1>1
  <1>. QED  BY <1>1, <1>2, <1>3, <1>4, <1>5

(* The members of two lists make up those of their concatenation.            *)
LEMMA ConcatMembers ==
  ASSUME NEW s, s \in Seq(ToSet(s)), NEW t, t \in Seq(ToSet(t))
  PROVE  /\ s \o t \in Seq(ToSet(s \o t)) /\ ToSet(s \o t) = ToSet(s) \cup ToSet(t)
         /\ Len(s) \in Nat /\ Len(t) \in Nat /\ Len(s \o t) = Len(s) + Len(t)
         /\ DOMAIN (s \o t) = 1 .. Len(s) + Len(t)
         /\ \A i \in 1 .. Len(s) : (s \o t)[i] = s[i]
         /\ \A i \in Len(s) + 1 .. Len(s) + Len(t) : (s \o t)[i] = t[i - Len(s)]
  <1>1. PICK T : T = ToSet(s) \cup ToSet(t)
    OBVIOUS
  <1>2. s \in Seq(T) /\ t \in Seq(T)
    <2>1. ToSet(s) \subseteq T /\ ToSet(t) \subseteq T
      BY <1>1
    <2>. QED  BY <2>1, SeqMonotonic
  <1>3. s \o t \in Seq(T) /\ Range(s \o t) = Range(s) \cup Range(t)
    BY <1>2, MembersOfConcat
  <1>4. s \o t \in Seq(ToSet(s \o t))
    BY <1>3, ListOfMembers
  <1>5. Range(s) = ToSet(s) /\ Range(t) = ToSet(t) /\ Range(s \o t) = ToSet(s \o t)
    BY DEF Range, ToSet
  <1>6. /\ Len(s) \in Nat /\ Len(t) \in Nat /\ Len(s \o t) = Len(s) + Len(t)
        /\ DOMAIN (s \o t) = 1 .. Len(s) + Len(t)
        /\ \A i \in 1 .. Len(s) : (s \o t)[i] = s[i]
        /\ \A i \in Len(s) + 1 .. Len(s) + Len(t) : (s \o t)[i] = t[i - Len(s)]
    BY <1>2
  <1>. QED  BY <1>3, <1>4, <1>5, <1>6

(* Sending nothing leaves the list as it was.                                *)
LEMMA ConcatEmpty ==
  ASSUME NEW s, s \in Seq(ToSet(s))
  PROVE  s \o <<>> = s
  <1>1. PICK T : s \in Seq(T)
    OBVIOUS
  <1>. QED  BY <1>1

(* Timers: nothing is timed but what the timers were for and what is sent.   *)
EventFor(m) == IF m.type = "REPORT" THEN Event("REPORT_SEGMENT", m.key, m.report)
                                    ELSE Event("CHECKPOINT", m.key, m.checkpoint)
IsTimer(t) == t = [event |-> t.event, mapped |-> t.mapped]

(* Cancelling a timer adds none, and leaves those with another key alone.    *)
LEMMA CancelTimerKeeps ==
  ASSUME NEW ts, ts \in Seq(ToSet(ts)), NEW ev, NEW r, r = CancelTimer(ts, ev)
  PROVE  /\ r \in Seq(ToSet(r)) /\ ToSet(r) \subseteq ToSet(ts)
         /\ \A t \in ToSet(ts) : ~SameTimerKey(t.event, ev) => t \in ToSet(r)
  <1>1. PICK T : T = ToSet(ts) /\ ts \in Seq(T)
    OBVIOUS
  <1>2. PICK D : D = {t \in ToSet(ts) : t.mapped /\ SameTimerKey(t.event, ev)}
    OBVIOUS
  <1>3. r = Without(ts, D)
    BY <1>2 DEF CancelTimer
  <1>4. r \in Seq(T) /\ Range(r) = Range(ts) \ D
    BY <1>1, <1>3, WithoutKeeps
  <1>5. Range(r) = ToSet(r) /\ Range(ts) = ToSet(ts)
    BY DEF Range, ToSet
  <1>6. \A t \in ToSet(ts) : ~SameTimerKey(t.event, ev) => t \in ToSet(r)
    BY <1>2, <1>4, <1>5
  <1>. QED  BY <1>1, <1>4, <1>6, ListOfMembers

(* Sending starts timers for what is sent, and keeps the events of the rest. *)
LEMMA SendTimersIs ==
  ASSUME NEW ts, ts \in Seq(ToSet(ts)), \A t \in ToSet(ts) : IsTimer(t), NEW out,
         NEW r, r = SendTimers(ts, out)
  PROVE  /\ r \in Seq(ToSet(r))
         /\ \A t \in ToSet(r) :
              /\ IsTimer(t)
              /\ \/ \E u \in ToSet(ts) : u.event = t.event
                 \/ \E m \in ToSet(out) : Timed(m) /\ t.event = EventFor(m)
         /\ \A t \in ToSet(ts) : \E u \in ToSet(r) : u.event = t.event
         /\ (\E m \in ToSet(out) : Timed(m)) =>
              \E m \in ToSet(out) : Timed(m) /\ \E u \in ToSet(r) : u.event = EventFor(m)
  <1> DEFINE timed == {m \in ToSet(out) : Timed(m)}
  <1>1. CASE timed = {}
    <2>1. r = ts
      BY <1>1 DEF SendTimers
    <2>2. ~\E m \in ToSet(out) : Timed(m)
      BY <1>1
    <2>. QED  BY <2>1, <2>2
  <1>2. CASE timed # {}
    <2>1. PICK m \in timed : m = CHOOSE s \in timed : TRUE
      BY <1>2
    <2>2. r = StartTimer(ts, EventFor(m))
      BY <1>2, <2>1 DEF SendTimers, EventFor
    <2>3. PICK ev : ev = EventFor(m)
      OBVIOUS
    <2> DEFINE Old(i) == [ts[i] EXCEPT !.mapped = @ /\ ~SameTimerKey(ts[i].event, ev)]
               new == [event |-> ev, mapped |-> TRUE]
               olds == [i \in DOMAIN ts |-> Old(i)]
    <2>4. r = Append(olds, new)
      BY <2>2, <2>3 DEF StartTimer
    <2>5. Len(ts) \in Nat /\ DOMAIN ts = 1 .. Len(ts) /\ \A i \in 1 .. Len(ts) : ts[i] \in ToSet(ts)
      BY ListOfMembers
    <2>6. ASSUME NEW i \in 1 .. Len(ts) PROVE IsTimer(Old(i)) /\ Old(i).event = ts[i].event
      <3>1. ts[i] = [event |-> ts[i].event, mapped |-> ts[i].mapped]
        BY <2>5 DEF IsTimer
      <3>2. PICK x, y : ts[i] = [event |-> x, mapped |-> y]
        BY <3>1
      <3>3. PICK z : z = (y /\ ~SameTimerKey(x, ev))
        OBVIOUS
      <3>4. Old(i) = [event |-> x, mapped |-> z]
        BY <3>2, <3>3
      <3>. HIDE DEF Old
      <3>. QED  BY <3>2, <3>4 DEF IsTimer
    <2> DEFINE T == {Old(i) : i \in 1 .. Len(ts)} \cup {new}
    <2>7. olds \in Seq(T) /\ new \in T
      <3>. HIDE DEF Old, new
      <3>1. olds \in [1 .. Len(ts) -> T]
        BY <2>5
      <3>. HIDE DEF olds, T
      <3>2. olds \in Seq(T)
        BY <2>5, <3>1, SeqDef
      <3>. QED  BY <3>2 DEF T
    <2>8. r \in Seq(T)
      <3>. HIDE DEF olds, new, T
      <3>. QED  BY <2>4, <2>7
    <2>9. r \in Seq(ToSet(r)) /\ ToSet(r) \subseteq T
      <3>. HIDE DEF T
      <3>. QED  BY <2>8, ListOfMembers
    <2>10. ASSUME NEW t \in T
           PROVE  /\ IsTimer(t)
                  /\ \/ \E u \in ToSet(ts) : u.event = t.event
                     \/ \E n \in ToSet(out) : Timed(n) /\ t.event = EventFor(n)
      <3>1. CASE t = new
        <4>1. IsTimer(t) /\ t.event = ev
          BY <3>1 DEF IsTimer
        <4>2. m \in ToSet(out) /\ Timed(m)
          BY <2>1
        <4>. QED  BY <2>3, <4>1, <4>2
      <3>2. ASSUME NEW i \in 1 .. Len(ts), t = Old(i)
            PROVE  IsTimer(t) /\ \E u \in ToSet(ts) : u.event = t.event
        <4>. HIDE DEF Old
        <4>. QED  BY <2>5, <2>6, <3>2
      <3>. HIDE DEF Old, new
      <3>. QED  BY <3>1, <3>2 DEF T
    <2>11. /\ \A i \in 1 .. Len(ts) : Old(i) \in ToSet(r)
           /\ new \in ToSet(r)
      <3>1. /\ Append(olds, new) \in Seq(T) /\ Len(Append(olds, new)) = Len(olds) + 1
            /\ Append(olds, new)[Len(olds) + 1] = new
            /\ \A i \in 1 .. Len(olds) : Append(olds, new)[i] = olds[i]
        <4>. HIDE DEF olds, new, T
        <4>. QED  BY <2>7, AppendIs
      <3>2. Len(olds) = Len(ts) /\ \A i \in 1 .. Len(ts) : olds[i] = Old(i)
        <4>. HIDE DEF Old, new, T
        <4>. QED  BY <2>5
      <3>. HIDE DEF Old, new, olds, T
      <3>3. DOMAIN r = 1 .. Len(ts) + 1
        BY <2>4, <2>8, <3>1, <3>2
      <3>4. r[Len(ts) + 1] = new /\ \A i \in 1 .. Len(ts) : r[i] = Old(i)
        BY <2>4, <3>1, <3>2
      <3>5. Len(ts) + 1 \in DOMAIN r /\ \A i \in 1 .. Len(ts) : i \in DOMAIN r
        BY <2>5, <3>3
      <3>. QED  BY <3>4, <3>5 DEF ToSet
    <2>12. ASSUME NEW t \in ToSet(ts) PROVE \E u \in ToSet(r) : u.event = t.event
      <3>1. PICK i \in 1 .. Len(ts) : t = ts[i]
        BY <2>5 DEF ToSet
      <3>. HIDE DEF Old
      <3>. QED  BY <2>6, <2>11, <3>1
    <2>13. \E x \in ToSet(out) : Timed(x) /\ \E u \in ToSet(r) : u.event = EventFor(x)
      <3>1. m \in ToSet(out) /\ Timed(m)
        BY <2>1
      <3>2. new.event = EventFor(m)
        BY <2>3
      <3>. HIDE DEF new
      <3>. QED  BY <2>11, <3>1, <3>2
    <2>. QED  BY <2>9, <2>10, <2>12, <2>13
  <1>. QED  BY <1>1, <1>2

-----------------------------------------------------------------------------
(* A step of the engine e, as far as every handler agrees.                   *)

(* The blocks of the peer stay as they are.  Those of e stay too, and keep   *)
(* their outcome, unless it was open and the session ends.                   *)
GivenStep(e) ==
  /\ given' \in [Engine -> Seq(BlockRecord)] /\ given'[Peer(e)] = given[Peer(e)]
  /\ Len(given[e]) <= Len(given'[e])
  /\ \A i \in 1 .. Len(given[e]) :
       /\ given'[e][i].data = given[e][i].data /\ given'[e][i].red = given[e][i].red
       /\ \/ given'[e][i] = given[e][i]
          \/ given[e][i].outcome = "open" /\ <<e, i>> \notin DOMAIN sessions_'[e]

(* A step changes no block given before, except an outcome that was open.    *)
LEMMA BlocksKept ==
  ASSUME BaseInv, NEW e \in Engine, GivenStep(e), NEW x \in Engine, NEW k \in Issued(x)
  PROVE  /\ k \in Issued(x)' /\ BlockOf(k)' = given'[x][k[2]]
         /\ Data(k)' = Data(k) /\ Red(k)' = Red(k)
         /\ \/ BlockOf(k)' = BlockOf(k)
            \/ BlockOf(k).outcome = "open" /\ x = e /\ k \notin DOMAIN sessions_'[e]
  <1>1. k[1] = x /\ k[2] \in 1 .. Len(given[x]) /\ k = <<x, k[2]>> /\ BlockOf(k) = given[x][k[2]]
    BY IssuedFacts
  <1>2. BlockOf(k)' = given'[x][k[2]]
    BY <1>1 DEF BlockOf
  <1>3. Engine = {e, Peer(e)}
    BY PeerFacts
  <1>4. given[x] \in Seq(BlockRecord) /\ given'[x] \in Seq(BlockRecord)
    BY DEF BaseInv, GivenStep
  <1>5. Len(given[x]) \in Nat /\ Len(given'[x]) \in Nat
    BY <1>4
  <1>6. CASE x = Peer(e)
    <2>1. given'[x] = given[x]
      BY <1>6 DEF GivenStep
    <2>2. k \in Issued(x)' /\ BlockOf(k)' = BlockOf(k)
      BY <1>1, <1>2, <2>1 DEF Issued
    <2>. QED  BY <1>2, <2>2 DEF Data, Red
  <1>7. CASE x = e
    <2>1. k[2] \in 1 .. Len(given'[x])
      BY <1>1, <1>5, <1>7 DEF GivenStep
    <2>2. k \in Issued(x)'
      BY <1>1, <2>1 DEF Issued
    <2>3. /\ given'[x][k[2]].data = given[x][k[2]].data /\ given'[x][k[2]].red = given[x][k[2]].red
          /\ \/ given'[x][k[2]] = given[x][k[2]]
             \/ given[x][k[2]].outcome = "open" /\ <<x, k[2]>> \notin DOMAIN sessions_'[e]
      BY <1>1, <1>7 DEF GivenStep
    <2>4. Data(k)' = Data(k) /\ Red(k)' = Red(k)
      BY <1>1, <1>2, <2>3 DEF Data, Red
    <2>. QED  BY <1>1, <1>2, <1>7, <2>2, <2>3, <2>4
  <1>. QED  BY <1>3, <1>6, <1>7

(* A segment under way stays true of its block.                              *)
LEMMA SegmentKept ==
  ASSUME BaseInv, NEW e \in Engine, GivenStep(e), NEW x \in Engine, NEW m, SegmentOK(x, m)
  PROVE  SegmentOK(x, m)'
  <1>1. Peer(x) \in Engine
    BY PeerFacts
  <1>2. ASSUME NEW y \in Engine, m.key \in Issued(y)
        PROVE  m.key \in Issued(y)' /\ Data(m.key)' = Data(m.key) /\ Red(m.key)' = Red(m.key)
    BY <1>2, BlocksKept
  <1>3. CASE m.type \in DataTypes /\ m.key \in Issued(Peer(x)) /\ Placed(m)
    <2>1. Placed(m)'
      BY <1>1, <1>2, <1>3 DEF Placed
    <2>. QED  BY <1>1, <1>2, <1>3, <2>1 DEF SegmentOK
  <1>4. CASE /\ m.type = "REPORT" /\ m.key \in Issued(x) /\ Red(m.key)
             /\ m.upper \in 0 .. Len(Data(m.key)) /\ m.claims \subseteq 0 .. Len(Data(m.key)) - 1
    BY <1>2, <1>4 DEF SegmentOK
  <1>5. CASE m.type = "REPORT_ACK" /\ m.key \in Issued(Peer(x)) /\ Red(m.key)
    BY <1>1, <1>2, <1>5 DEF SegmentOK
  <1>6. CASE m.type = "CANCEL_BY_SENDER" /\ m.key \in Issued(Peer(x))
    BY <1>1, <1>2, <1>6 DEF SegmentOK
  <1>7. CASE m.type = "CANCEL_BY_RECEIVER" /\ m.key \in Issued(x)
    BY <1>2, <1>7 DEF SegmentOK
  <1>8. CASE m.type \in CancelAckTypes
    BY <1>8 DEF SegmentOK
  <1>. QED  BY <1>3, <1>4, <1>5, <1>6, <1>7, <1>8 DEF SegmentOK

(* A session that no step touches stays true of its block.                   *)
LEMMA SessionKept ==
  ASSUME BaseInv, NEW e \in Engine, GivenStep(e), NEW x \in Engine, NEW k, NEW s, SessionOK(x, k, s),
         k \in DOMAIN sessions_'[x]
  PROVE  SessionOK(x, k, s)'
  <1>1. Peer(x) \in Engine
    BY PeerFacts
  <1>2. CASE k \in Issued(x) /\ OwnOK(k, s)
    <2>1. /\ k \in Issued(x)' /\ Data(k)' = Data(k) /\ Red(k)' = Red(k) /\ BlockOf(k)' = BlockOf(k)
      BY <1>2, BlocksKept
    <2>. QED  BY <1>2, <2>1 DEF SessionOK, OwnOK
  <1>3. CASE k \in Issued(Peer(x)) /\ PeerOK(k, s)
    <2>1. k \in Issued(Peer(x))' /\ Data(k)' = Data(k)
      BY <1>1, <1>3, BlocksKept
    <2>. QED  BY <1>3, <2>1 DEF SessionOK, PeerOK
  <1>. QED  BY <1>2, <1>3 DEF SessionOK

(* An event that a timer stands for stays one of a session.                  *)
LEMMA EventKept ==
  ASSUME BaseInv, NEW e \in Engine, GivenStep(e), NEW x \in Engine, NEW ev, EventOK(x, ev)
  PROVE  EventOK(x, ev)'
  <1>1. Peer(x) \in Engine
    BY PeerFacts
  <1>2. ASSUME NEW y \in Engine, ev.key \in Issued(y)
        PROVE  ev.key \in Issued(y)' /\ Red(ev.key)' = Red(ev.key)
    BY <1>2, BlocksKept
  <1>. QED  BY <1>1, <1>2 DEF EventOK

(* Its sessions are ss then, rest is left to receive, and it has sent out.   *)
Turn(e, ss, rest, out) ==
  /\ DOMAIN sessions_' = Engine /\ DOMAIN net' = Engine
  /\ sessions_'[e] = ss /\ sessions_'[Peer(e)] = sessions_[Peer(e)]
  /\ net'[e] = rest /\ net'[Peer(e)] = net[Peer(e)] \o out
  /\ rest = net[e] \/ (net[e] # <<>> /\ rest = Tail(net[e]))
  /\ out \in Seq(ToSet(out))
TimerTurn(e, out) ==
  /\ DOMAIN timers' = Engine /\ DOMAIN firing' = Engine
  /\ timers'[Peer(e)] = timers[Peer(e)] /\ firing'[Peer(e)] = firing[Peer(e)]
  /\ timers'[e] \in Seq(ToSet(timers'[e]))
  /\ \A t \in ToSet(timers'[e]) :
       /\ IsTimer(t)
       /\ \/ \E u \in ToSet(timers[e]) : u.event = t.event
          \/ \E m \in ToSet(out) : Timed(m) /\ t.event = EventFor(m)
  /\ firing'[e] \in Seq(ToSet(firing'[e])) /\ Len(firing'[e]) <= 1
  /\ \A ev \in ToSet(firing'[e]) : \/ ev \in ToSet(firing[e])
                                   \/ \E t \in ToSet(timers[e]) : t.event = ev

(* The end of a handler is a turn of its engine: table, timers and network.  *)
LEMMA ProceedTurn ==
  ASSUME BaseInv, TimerInv, NEW e \in Engine, NEW ss, NEW ts, NEW rest, NEW out,
         Proceed(e, ss, ts, rest, out),
         ts \in Seq(ToSet(ts)), ToSet(ts) \subseteq ToSet(timers[e]),
         rest = net[e] \/ (net[e] # <<>> /\ rest = Tail(net[e])), out \in Seq(ToSet(out)),
         firing' = firing \/ firing' = [firing EXCEPT ![e] = <<>>]
  PROVE  Turn(e, ss, rest, out) /\ TimerTurn(e, out)
  <1>1. Peer(e) \in Engine /\ Peer(e) # e
    BY PeerFacts
  <1>2. DOMAIN sessions_ = Engine /\ DOMAIN net = Engine /\ DOMAIN timers = Engine /\ DOMAIN firing = Engine
    BY DEF BaseInv
  <1>3. Turn(e, ss, rest, out)
    <2>1. DOMAIN sessions_' = Engine /\ sessions_'[e] = ss /\ sessions_'[Peer(e)] = sessions_[Peer(e)]
      BY <1>1, <1>2 DEF Proceed
    <2>2. DOMAIN net' = Engine /\ net'[e] = rest /\ net'[Peer(e)] = net[Peer(e)] \o out
      BY <1>1, <1>2 DEF Proceed
    <2>. QED  BY <2>1, <2>2 DEF Turn
  <1>4. PICK r : r = SendTimers(ts, out)
    OBVIOUS
  <1>5. DOMAIN timers' = Engine /\ timers'[e] = r /\ timers'[Peer(e)] = timers[Peer(e)]
    BY <1>1, <1>2, <1>4 DEF Proceed
  <1>6. \A t \in ToSet(ts) : IsTimer(t)
    BY DEF TimerInv, IsTimer
  <1>7. /\ r \in Seq(ToSet(r))
        /\ \A t \in ToSet(r) :
              /\ IsTimer(t)
              /\ \/ \E u \in ToSet(ts) : u.event = t.event
                 \/ \E m \in ToSet(out) : Timed(m) /\ t.event = EventFor(m)
    BY <1>4, <1>6, SendTimersIs
  <1>8. /\ DOMAIN firing' = Engine /\ firing'[Peer(e)] = firing[Peer(e)]
        /\ firing'[e] = firing[e] \/ firing'[e] = <<>>
    BY <1>1, <1>2
  <1>9. firing[e] \in Seq(ToSet(firing[e])) /\ Len(firing[e]) <= 1
    BY DEF BaseInv
  <1>10. /\ firing'[e] \in Seq(ToSet(firing'[e])) /\ Len(firing'[e]) <= 1
         /\ ToSet(firing'[e]) \subseteq ToSet(firing[e])
    <2>1. CASE firing'[e] = firing[e]
      BY <1>9, <2>1
    <2>2. CASE firing'[e] = <<>>
      BY <2>2, EmptyList
    <2>. QED  BY <1>8, <2>1, <2>2
  <1>11. \A t \in ToSet(timers'[e]) :
           /\ IsTimer(t)
           /\ \/ \E u \in ToSet(timers[e]) : u.event = t.event
              \/ \E m \in ToSet(out) : Timed(m) /\ t.event = EventFor(m)
    BY <1>5, <1>7
  <1>. QED  BY <1>3, <1>5, <1>7, <1>8, <1>10, <1>11 DEF TimerTurn

(* What it sends and the sessions it goes on with are right, and the counts  *)
(* and the deliveries have their types.                                      *)
SentOK(e, out) ==
  \A i \in 1 .. Len(out) :
    /\ SegmentOK(Peer(e), out[i])'
    /\ out[i].type \in DataTypes =>
         out[i].key \notin Issued(e) \/ BlockOf(out[i].key).outcome = "open"
    /\ out[i].type = "CANCEL_BY_SENDER" =>
         i = Len(out) /\ (BlockOf(out[i].key).outcome = "failed")'
SessionsOK(e, ss) ==
  /\ \A k \in DOMAIN ss : SessionOK(e, k, ss[k])'
  /\ IsFiniteSet(DOMAIN ss) /\ Cardinality(DOMAIN ss) <= max_concurrent_sessions
CountStep ==
  /\ session_counter_' \in [Engine -> Nat] /\ cancels' \in Nat
  /\ \A x \in Engine : session_counter_'[x] = Len(given'[x]) /\ Len(given'[x]) <= MaxStarts[x]
  /\ delivered' \in [Engine -> Seq([key : Engine \X Nat, data : Seq(Byte \cup {Zero})])]
Step(e, ss, rest, out) ==
  /\ Turn(e, ss, rest, out) /\ TimerTurn(e, out) /\ GivenStep(e)
  /\ SentOK(e, out) /\ SessionsOK(e, ss) /\ CountStep

(* What a turn leaves under way: the rest of its own queue, and what it      *)
(* sends.                                                                    *)
LEMMA StepNet ==
  ASSUME BaseInv, NEW e \in Engine, NEW ss, NEW rest, NEW out, Turn(e, ss, rest, out)
  PROVE  /\ net[e] \in Seq(ToSet(net[e])) /\ net[Peer(e)] \in Seq(ToSet(net[Peer(e)]))
         /\ rest \in Seq(ToSet(rest)) /\ ToSet(rest) \subseteq ToSet(net[e])
         /\ net'[Peer(e)] \in Seq(ToSet(net'[Peer(e)]))
         /\ ToSet(net'[Peer(e)]) = ToSet(net[Peer(e)]) \cup ToSet(out)
         /\ net'[e] = rest
  <1>1. net[e] \in Seq(ToSet(net[e])) /\ net[Peer(e)] \in Seq(ToSet(net[Peer(e)]))
    BY PeerFacts DEF BaseInv
  <1>2. rest \in Seq(ToSet(rest)) /\ ToSet(rest) \subseteq ToSet(net[e])
    <2>1. CASE rest = net[e]
      BY <1>1, <2>1
    <2>2. CASE net[e] # <<>> /\ rest = Tail(net[e])
      BY <1>1, <2>2, TailIs
    <2>. QED  BY <2>1, <2>2 DEF Turn
  <1>3. /\ net'[Peer(e)] \in Seq(ToSet(net'[Peer(e)]))
        /\ ToSet(net'[Peer(e)]) = ToSet(net[Peer(e)]) \cup ToSet(out)
    <2>1. net'[Peer(e)] = net[Peer(e)] \o out /\ out \in Seq(ToSet(out))
      BY DEF Turn
    <2>. QED  BY <1>1, <2>1, ConcatMembers
  <1>. QED  BY <1>1, <1>2, <1>3 DEF Turn

(* A cancel of the sender comes after all the data of its session.           *)
LEMMA CancelStep ==
  ASSUME BaseInv, NetInv, CancelInv, NEW e \in Engine, NEW ss, NEW rest, NEW out,
         Turn(e, ss, rest, out), GivenStep(e), SentOK(e, out)
  PROVE  CancelInv'
  <1> DEFINE p == Peer(e)
             Failed(k) == BlockOf(k).outcome = "failed"
  <1>1. p \in Engine /\ Peer(p) = e /\ Engine = {e, p}
    BY PeerFacts
  <1>2. /\ net[e] \in Seq(ToSet(net[e])) /\ net[p] \in Seq(ToSet(net[p]))
        /\ rest \in Seq(ToSet(rest)) /\ net'[p] \in Seq(ToSet(net'[p])) /\ net'[e] = rest
    BY StepNet
  <1>3. ASSUME NEW y \in Engine, NEW m \in ToSet(net[y]), m.type = "CANCEL_BY_SENDER", Failed(m.key)
        PROVE  Failed(m.key)' /\ m.key \in Issued(Peer(y))
    <2>1. SegmentOK(y, m)
      BY DEF NetInv
    <2>2. m.key \in Issued(Peer(y)) /\ Peer(y) \in Engine
      BY <1>3, <2>1, PeerFacts DEF SegmentOK, DataTypes, RedTypes, GreenTypes, CancelAckTypes
    <2>3. BlockOf(m.key)' = BlockOf(m.key)
      BY <1>3, <2>2, BlocksKept
    <2>. QED  BY <1>3, <2>2, <2>3
  <1>4. ASSUME NEW y \in Engine, NEW i \in 1 .. Len(net[y]), net[y][i].type = "CANCEL_BY_SENDER"
        PROVE  /\ Failed(net[y][i].key) /\ net[y][i] \in ToSet(net[y])
               /\ \A j \in 1 .. Len(net[y]) :
                    (j > i /\ net[y][j].type \in DataTypes) => net[y][j].key # net[y][i].key
    <2>1. DOMAIN net[y] = 1 .. Len(net[y]) /\ \A j \in 1 .. Len(net[y]) : net[y][j] \in ToSet(net[y])
      <3>1. net[y] \in Seq(ToSet(net[y]))
        BY DEF BaseInv
      <3>. QED  BY <3>1, ListOfMembers
    <2>. QED  BY <1>4, <2>1 DEF CancelInv, Failed
  <1> HIDE DEF Failed
  <1>5. ASSUME NEW i \in 1 .. Len(rest), rest[i].type = "CANCEL_BY_SENDER"
        PROVE  /\ Failed(rest[i].key)'
               /\ \A j \in 1 .. Len(rest) :
                    (j > i /\ rest[j].type \in DataTypes) => rest[j].key # rest[i].key
    <2>1. CASE rest = net[e]
      <3>1. PICK m : m = rest[i]
        OBVIOUS
      <3>2. Failed(m.key) /\ m \in ToSet(net[e]) /\ m.type = "CANCEL_BY_SENDER"
        BY <1>4, <1>5, <2>1, <3>1
      <3>3. Failed(m.key)'
        BY <1>3, <3>2
      <3>. QED  BY <1>4, <1>5, <2>1, <3>1, <3>3
    <2>2. CASE net[e] # <<>> /\ rest = Tail(net[e])
      <3>1. /\ Len(net[e]) \in Nat /\ Len(rest) = Len(net[e]) - 1
            /\ \A j \in 1 .. Len(rest) : rest[j] = net[e][j + 1]
        BY <1>2, <2>2, TailIs
      <3>2. \A j \in 1 .. Len(rest) : j + 1 \in 1 .. Len(net[e])
        BY <3>1
      <3>3. PICK m : m = rest[i]
        OBVIOUS
      <3>4. m = net[e][i + 1] /\ i + 1 \in 1 .. Len(net[e]) /\ m.type = "CANCEL_BY_SENDER"
        BY <1>5, <3>1, <3>2, <3>3
      <3>5. /\ Failed(m.key) /\ m \in ToSet(net[e])
            /\ \A j \in 1 .. Len(net[e]) :
                 (j > i + 1 /\ net[e][j].type \in DataTypes) => net[e][j].key # m.key
        BY <1>4, <3>4
      <3>6. Failed(m.key)'
        BY <1>3, <3>4, <3>5
      <3>7. ASSUME NEW j \in 1 .. Len(rest), j > i, rest[j].type \in DataTypes
            PROVE  rest[j].key # m.key
        <4>1. j + 1 > i + 1 /\ j + 1 \in 1 .. Len(net[e]) /\ rest[j] = net[e][j + 1]
          BY <3>1, <3>2, <3>7
        <4>. QED  BY <3>5, <3>7, <4>1
      <3>. QED  BY <3>3, <3>6, <3>7
    <2>. QED  BY <2>1, <2>2 DEF Turn
  <1>6. PICK w : w = net'[p]
    OBVIOUS
  <1>7. ASSUME NEW i \in 1 .. Len(w), w[i].type = "CANCEL_BY_SENDER"
        PROVE  /\ Failed(w[i].key)'
               /\ \A j \in 1 .. Len(w) :
                    (j > i /\ w[j].type \in DataTypes) => w[j].key # w[i].key
    <2>1. PICK a : a = Len(net[p])
      OBVIOUS
    <2>2. PICK b : b = Len(out)
      OBVIOUS
    <2>3. w = net[p] \o out /\ out \in Seq(ToSet(out))
      BY <1>6 DEF Turn
    <2>4. /\ a \in Nat /\ b \in Nat /\ Len(w) = a + b
          /\ \A j \in 1 .. a : w[j] = net[p][j]
          /\ \A j \in a + 1 .. a + b : w[j] = out[j - a]
      BY <1>2, <2>1, <2>2, <2>3, ConcatMembers
    <2>5. \A j \in 1 .. a + b : j \in 1 .. a \/ (j \in a + 1 .. a + b /\ j - a \in 1 .. b)
      BY <2>4
    <2>6. PICK m : m = w[i]
      OBVIOUS
    <2>7. CASE i \in 1 .. a
      <3>1. m = net[p][i] /\ m.type = "CANCEL_BY_SENDER"
        BY <1>7, <2>4, <2>6, <2>7
      <3>2. /\ Failed(m.key) /\ m \in ToSet(net[p])
            /\ \A j \in 1 .. a : (j > i /\ net[p][j].type \in DataTypes) => net[p][j].key # m.key
        BY <1>1, <1>4, <2>1, <2>7, <3>1
      <3>3. Failed(m.key)' /\ m.key \in Issued(e)
        BY <1>1, <1>3, <3>1, <3>2
      <3>4. ASSUME NEW j \in 1 .. a + b, j > i, w[j].type \in DataTypes
            PROVE  w[j].key # m.key
        <4>1. CASE j \in 1 .. a
          BY <2>4, <3>2, <3>4, <4>1
        <4>2. CASE j \in a + 1 .. a + b /\ j - a \in 1 .. b
          <5>1. out[j - a].key \notin Issued(e) \/ BlockOf(out[j - a].key).outcome = "open"
            BY <2>2, <2>4, <3>4, <4>2 DEF SentOK
          <5>. QED  BY <2>4, <3>2, <3>3, <4>2, <5>1 DEF Failed
        <4>. QED  BY <2>5, <4>1, <4>2
      <3>. QED  BY <2>4, <2>6, <3>3, <3>4
    <2>8. CASE i \in a + 1 .. a + b /\ i - a \in 1 .. b
      <3>1. m = out[i - a]
        BY <2>4, <2>6, <2>8
      <3>2. i - a = b /\ (BlockOf(out[i - a].key).outcome = "failed")'
        BY <1>7, <2>2, <2>6, <2>8, <3>1 DEF SentOK
      <3>3. Failed(m.key)'
        BY <3>1, <3>2 DEF Failed
      <3>4. \A j \in 1 .. a + b : ~(j > i)
        BY <2>4, <2>8, <3>2
      <3>. QED  BY <2>4, <2>6, <3>3, <3>4
    <2>. QED  BY <2>4, <2>5, <2>7, <2>8
  <1>8. DOMAIN rest = 1 .. Len(rest) /\ DOMAIN w = 1 .. Len(w)
    BY <1>2, <1>6, ListOfMembers
  <1>9. ASSUME NEW y \in Engine, NEW v, v = net'[y], NEW i \in DOMAIN v,
               v[i].type = "CANCEL_BY_SENDER"
        PROVE  /\ given'[v[i].key[1]][v[i].key[2]].outcome = "failed"
               /\ \A j \in DOMAIN v : (j > i /\ v[j].type \in DataTypes) => v[j].key # v[i].key
    <2>1. v = rest \/ v = w
      BY <1>1, <1>2, <1>6, <1>9
    <2>2. /\ Failed(v[i].key)'
          /\ \A j \in DOMAIN v : (j > i /\ v[j].type \in DataTypes) => v[j].key # v[i].key
      <3>1. CASE v = rest
        BY <1>5, <1>8, <1>9, <3>1
      <3>2. CASE v = w
        BY <1>7, <1>8, <1>9, <3>2
      <3>. QED  BY <2>1, <3>1, <3>2
    <2>. QED  BY <2>2 DEF Failed, BlockOf
  <1>. QED  BY <1>9 DEF CancelInv, BlockOf

(* A step of an engine keeps the parts of the invariant about single states. *)
LEMMA StepKeeps ==
  ASSUME LinkInv, NEW e \in Engine, NEW ss, NEW rest, NEW out, Step(e, ss, rest, out)
  PROVE  BaseInv' /\ NetInv' /\ SessionInv' /\ PoolInv' /\ TimerInv' /\ CancelInv'
  <1> USE DEF LinkInv, Step
  <1> DEFINE p == Peer(e)
  <1>1. p \in Engine /\ p # e /\ Peer(p) = e /\ Engine = {e, p}
    BY PeerFacts
  <1>2. /\ net[e] \in Seq(ToSet(net[e])) /\ net[p] \in Seq(ToSet(net[p]))
        /\ rest \in Seq(ToSet(rest)) /\ ToSet(rest) \subseteq ToSet(net[e])
        /\ net'[p] \in Seq(ToSet(net'[p])) /\ ToSet(net'[p]) = ToSet(net[p]) \cup ToSet(out)
        /\ net'[e] = rest
    BY StepNet
  <1>3. BaseInv'
    <2>1. \A x \in Engine : net'[x] \in Seq(ToSet(net'[x]))
      <3>1. net'[e] \in Seq(ToSet(net'[e]))
        BY <1>2
      <3>. QED  BY <1>1, <1>2, <3>1
    <2>2. \A x \in Engine : timers'[x] \in Seq(ToSet(timers'[x]))
      <3>1. timers[p] \in Seq(ToSet(timers[p]))
        BY <1>1 DEF BaseInv
      <3>2. timers'[p] \in Seq(ToSet(timers'[p]))
        BY <3>1 DEF TimerTurn
      <3>3. timers'[e] \in Seq(ToSet(timers'[e]))
        BY DEF TimerTurn
      <3>. QED  BY <1>1, <3>2, <3>3
    <2>3. \A x \in Engine : firing'[x] \in Seq(ToSet(firing'[x])) /\ Len(firing'[x]) <= 1
      <3>1. firing[p] \in Seq(ToSet(firing[p])) /\ Len(firing[p]) <= 1
        BY <1>1 DEF BaseInv
      <3>2. firing'[p] \in Seq(ToSet(firing'[p])) /\ Len(firing'[p]) <= 1
        BY <3>1 DEF TimerTurn
      <3>3. firing'[e] \in Seq(ToSet(firing'[e])) /\ Len(firing'[e]) <= 1
        BY DEF TimerTurn
      <3>. QED  BY <1>1, <3>2, <3>3
    <2>4. /\ DOMAIN net' = Engine /\ DOMAIN sessions_' = Engine /\ DOMAIN timers' = Engine
          /\ DOMAIN firing' = Engine /\ given' \in [Engine -> Seq(BlockRecord)]
      BY DEF Turn, TimerTurn, GivenStep
    <2>5. CountStep
      OBVIOUS
    <2>. QED  BY <2>1, <2>2, <2>3, <2>4, <2>5 DEF BaseInv, CountStep
  <1>4. \A m \in ToSet(out) : SegmentOK(p, m)'
    <2>1. \A m \in ToSet(out) : \E i \in 1 .. Len(out) : m = out[i]
      <3>1. out \in Seq(ToSet(out))
        BY DEF Turn
      <3>. QED  BY <3>1, ListOfMembers
    <2>2. \A i \in 1 .. Len(out) : SegmentOK(p, out[i])'
      BY DEF SentOK
    <2>. QED  BY <2>1, <2>2
  <1>5. NetInv'
    <2> SUFFICES ASSUME NEW x \in Engine, NEW m, m \in ToSet(net'[x]) PROVE SegmentOK(x, m)'
      BY DEF NetInv
    <2>1. ASSUME m \in ToSet(net[x]) PROVE SegmentOK(x, m)'
      BY <2>1, SegmentKept DEF NetInv
    <2>2. CASE x = e
      BY <1>2, <2>1, <2>2
    <2>3. CASE x = p
      BY <1>2, <1>4, <2>1, <2>3
    <2>. QED  BY <1>1, <2>2, <2>3
  <1>6. SessionInv'
    <2> SUFFICES ASSUME NEW x \in Engine, NEW k, k \in DOMAIN sessions_'[x], NEW s, s = sessions_'[x][k]
                 PROVE  SessionOK(x, k, s)'
      BY DEF SessionInv
    <2>1. CASE x = e
      <3>1. sessions_'[e] = ss
        BY DEF Turn
      <3>. QED  BY <2>1, <3>1 DEF SessionsOK
    <2>2. CASE x = p
      <3>1. sessions_'[p] = sessions_[p]
        BY DEF Turn
      <3>2. SessionOK(x, k, s)
        BY <2>2, <3>1 DEF SessionInv
      <3>. QED  BY <3>2, SessionKept
    <2>. QED  BY <1>1, <2>1, <2>2
  <1>7. PoolInv'
    <2>1. sessions_'[e] = ss /\ sessions_'[p] = sessions_[p]
      BY DEF Turn
    <2>2. IsFiniteSet(DOMAIN ss) /\ Cardinality(DOMAIN ss) <= max_concurrent_sessions
      BY DEF SessionsOK
    <2>3. IsFiniteSet(DOMAIN sessions_[p]) /\ Cardinality(DOMAIN sessions_[p]) <= max_concurrent_sessions
      BY <1>1 DEF PoolInv
    <2>4. ASSUME NEW x \in Engine
          PROVE  /\ IsFiniteSet(DOMAIN sessions_'[x])
                 /\ Cardinality(DOMAIN sessions_'[x]) <= max_concurrent_sessions
      BY <1>1, <2>1, <2>2, <2>3
    <2>. QED  BY <2>4 DEF PoolInv
  <1>8. TimerInv'
    <2>1. ASSUME NEW m \in ToSet(out), Timed(m) PROVE EventOK(e, EventFor(m))'
      <3>1. SegmentOK(p, m)'
        BY <1>4
      <3>2. CASE m.type = "REPORT"
        <4>1. m.key \in Issued(p)' /\ Red(m.key)'
          BY <3>1, <3>2 DEF SegmentOK, DataTypes, RedTypes, GreenTypes, CancelAckTypes
        <4>2. EventFor(m).type = "REPORT_SEGMENT" /\ EventFor(m).key = m.key
          BY <3>2 DEF EventFor, Event
        <4>. QED  BY <4>1, <4>2 DEF EventOK
      <3>3. CASE m.type \in CheckpointTypes
        <4>1. m.key \in Issued(Peer(p))'
          BY <3>1, <3>3 DEF SegmentOK, DataTypes, RedTypes, GreenTypes, CancelAckTypes, CheckpointTypes
        <4>2. m.key \in Issued(e)'
          BY <1>1, <4>1
        <4>3. EventFor(m).type = "CHECKPOINT" /\ EventFor(m).key = m.key
          BY <3>3 DEF EventFor, Event, CheckpointTypes
        <4>. QED  BY <4>2, <4>3 DEF EventOK
      <3>. QED  BY <2>1, <3>2, <3>3 DEF Timed
    <2>2. \A x \in Engine : \A t \in ToSet(timers[x]) : IsTimer(t) /\ EventOK(x, t.event)'
      BY EventKept DEF TimerInv, IsTimer
    <2>3. \A x \in Engine : \A ev \in ToSet(firing[x]) : EventOK(x, ev)'
      BY EventKept DEF TimerInv
    <2>4. ASSUME NEW x \in Engine, NEW t, t \in ToSet(timers'[x]) PROVE IsTimer(t) /\ EventOK(x, t.event)'
      <3>1. CASE x = p
        BY <2>2, <2>4, <3>1 DEF TimerTurn
      <3>2. CASE x = e
        <4>1. /\ IsTimer(t)
              /\ \/ \E u \in ToSet(timers[e]) : u.event = t.event
                 \/ \E m \in ToSet(out) : Timed(m) /\ t.event = EventFor(m)
          BY <2>4, <3>2 DEF TimerTurn
        <4>. QED  BY <2>1, <2>2, <3>2, <4>1
      <3>. QED  BY <1>1, <3>1, <3>2
    <2>5. ASSUME NEW x \in Engine, NEW ev, ev \in ToSet(firing'[x]) PROVE EventOK(x, ev)'
      <3>1. CASE x = p
        BY <2>3, <2>5, <3>1 DEF TimerTurn
      <3>2. CASE x = e
        <4>1. ev \in ToSet(firing[e]) \/ \E t \in ToSet(timers[e]) : t.event = ev
          BY <2>5, <3>2 DEF TimerTurn
        <4>. QED  BY <2>2, <2>3, <3>2, <4>1
      <3>. QED  BY <1>1, <3>1, <3>2
    <2>. QED  BY <2>4, <2>5 DEF TimerInv, IsTimer
  <1>9. CancelInv'
    BY CancelStep
  <1>. QED  BY <1>3, <1>5, <1>6, <1>7, <1>8, <1>9

-----------------------------------------------------------------------------
(* What a step does for the blocks that the peer sends: a session that knows *)
(* the length of its red block goes on with what it has, unless the block is *)
(* delivered or the sender gave it up; a session begins with a data segment; *)
(* and a report is true.                                                     *)
ReceiverStep(e, ss, out) ==
  /\ \A c : \A k \in Issued(Peer(e)) :
       (Red(k) /\ Holds(Peer(e), k, c)) => Safe(Peer(e), k, c)'
  /\ \A k \in Issued(Peer(e)) :
       (k \in DOMAIN ss /\ ~Known(e, k)) => \E m \in ToSet(net[e]) : m.type \in DataTypes /\ m.key = k
  /\ \A m \in ToSet(out) :
       /\ m.type # "CANCEL_BY_RECEIVER"
       /\ m.type = "REPORT" => Safe(Peer(e), m.key, m.claims)' /\ Told(m)'

(* And for its own: retransmissions and acknowledgements answer a report,    *)
(* and so does completion.                                                   *)
SenderStep(e, out) ==
  /\ \A m \in ToSet(out) :
       m.type \in {"RED_DATA_CP", "REPORT_ACK"} =>
         m.key \in Issued(e) /\ Red(m.key) /\ Safe(e, m.key, Behind(m))
  /\ \A i \in 1 .. Len(given'[e]) :
       given'[e][i].outcome = "complete" =>
         /\ i \in 1 .. Len(given[e]) /\ given[e][i].red
         /\ \/ given[e][i].outcome = "complete"
            \/ Safe(e, <<e, i>>, 0 .. Len(given[e][i].data) - 1)

(* A delivery is the block, or nothing once more, or a green block with      *)
(* zeros for what was lost.                                                  *)
DeliveredOK(e, d) ==
  /\ d.key \in Issued(Peer(e))
  /\ Red(d.key) => \/ d.data = Data(d.key)
                   \/ d.data = <<>> /\ (cancels' = 0 => Intact(d.key))
  /\ ~Red(d.key) => /\ Len(d.data) = Len(Data(d.key))
                    /\ \A j \in DOMAIN d.data : d.data[j] \in {Data(d.key)[j], Zero}
DeliveryTurn(e) ==
  /\ delivered'[Peer(e)] = delivered[Peer(e)]
  /\ \/ delivered'[e] = delivered[e]
     \/ \E d : delivered'[e] = Append(delivered[e], d) /\ DeliveredOK(e, d)

(* A delivery is never taken back.                                           *)
LEMMA DeliveredGrows ==
  ASSUME BaseInv, NEW e \in Engine, DeliveryTurn(e), NEW x \in Engine
  PROVE  /\ DOMAIN delivered[x] \subseteq DOMAIN delivered'[x]
         /\ \A i \in DOMAIN delivered[x] : delivered'[x][i] = delivered[x][i]
         /\ DOMAIN delivered[x] = 1 .. Len(delivered[x]) /\ Len(delivered[x]) \in Nat
  <1>1. Engine = {e, Peer(e)}
    BY PeerFacts
  <1>2. PICK T : delivered[x] \in Seq(T)
    BY DEF BaseInv
  <1>3. ASSUME NEW d, delivered'[x] = Append(delivered[x], d)
        PROVE  /\ DOMAIN delivered[x] \subseteq DOMAIN delivered'[x]
               /\ \A i \in DOMAIN delivered[x] : delivered'[x][i] = delivered[x][i]
    <2>1. delivered[x] \in Seq(T \cup {d})
      BY <1>2, SeqMonotonic
    <2>. QED  BY <1>3, <2>1
  <1>4. delivered'[x] = delivered[x] \/ \E d : delivered'[x] = Append(delivered[x], d)
    BY <1>1 DEF DeliveryTurn
  <1>. QED  BY <1>2, <1>3, <1>4

(* A block that was delivered whole stays so.                                *)
LEMMA IntactKept ==
  ASSUME BaseInv, NEW e \in Engine, GivenStep(e), DeliveryTurn(e),
         NEW x \in Engine, NEW k \in Issued(x), Intact(k)
  PROVE  Intact(k)'
  <1>1. k[1] = x /\ Peer(x) \in Engine
    BY IssuedFacts, PeerFacts
  <1>2. Data(k)' = Data(k)
    BY BlocksKept
  <1>3. PICK i \in DOMAIN delivered[Peer(x)] : delivered[Peer(x)][i] = [key |-> k, data |-> Data(k)]
    BY <1>1 DEF Intact, Data
  <1>4. i \in DOMAIN delivered'[Peer(x)] /\ delivered'[Peer(x)][i] = [key |-> k, data |-> Data(k)]
    BY <1>1, <1>3, DeliveredGrows
  <1>. QED  BY <1>1, <1>2, <1>4 DEF Intact, Data

(* Bytes that were safe for a session stay safe in a step.                   *)
LEMMA SafeKept ==
  ASSUME BaseInv, NEW e \in Engine, NEW ss, NEW rest, NEW out, Step(e, ss, rest, out),
         DeliveryTurn(e), ReceiverStep(e, ss, out),
         NEW x \in Engine, NEW k \in Issued(x), Red(k), NEW c, Safe(x, k, c)
  PROVE  Safe(x, k, c)'
  <1> USE DEF Step
  <1> DEFINE p == Peer(e)
  <1>1. p \in Engine /\ p # e /\ Peer(p) = e /\ Engine = {e, p}
    BY PeerFacts
  <1>2. Data(k)' = Data(k) /\ (BlockOf(k)' = BlockOf(k) \/ BlockOf(k).outcome = "open")
    BY BlocksKept
  <1>3. CASE Intact(k)
    BY <1>3, IntactKept DEF Safe
  <1>4. CASE Cut(x, k)
    <2>1. (BlockOf(k).outcome = "failed")'
      BY <1>2, <1>4 DEF Cut
    <2>2. /\ ToSet(net'[e]) \subseteq ToSet(net[e])
          /\ ToSet(net'[p]) = ToSet(net[p]) \cup ToSet(out)
      BY StepNet
    <2>3. CASE x = e
      <3>1. ~Known(p, k) /\ \A m \in ToSet(net[p]) : m.type \in DataTypes => m.key # k
        BY <1>4, <2>3 DEF Cut
      <3>2. ~Known(p, k)'
        BY <3>1 DEF Known, Turn
      <3>3. ASSUME NEW m \in ToSet(out), m.type \in DataTypes PROVE m.key # k
        <4>1. PICK i \in 1 .. Len(out) : m = out[i]
          <5>1. out \in Seq(ToSet(out))
            BY DEF Turn
          <5>. QED  BY <5>1, ListOfMembers
        <4>2. m.key \notin Issued(e) \/ BlockOf(m.key).outcome = "open"
          BY <3>3, <4>1 DEF SentOK
        <4>. QED  BY <1>4, <2>3, <4>2 DEF Cut
      <3>4. \A m \in ToSet(net'[p]) : m.type \in DataTypes => m.key # k
        BY <2>2, <3>1, <3>3
      <3>. QED  BY <2>1, <2>3, <3>2, <3>4 DEF Safe, Cut
    <2>4. CASE x = p
      <3>1. ~Known(e, k) /\ \A m \in ToSet(net[e]) : m.type \in DataTypes => m.key # k
        BY <1>1, <1>4, <2>4 DEF Cut
      <3>2. k \notin DOMAIN ss
        BY <2>4, <3>1 DEF ReceiverStep
      <3>3. ~Known(e, k)'
        BY <3>2 DEF Known, Turn
      <3>4. \A m \in ToSet(net'[e]) : m.type \in DataTypes => m.key # k
        BY <2>2, <3>1
      <3>. QED  BY <1>1, <2>1, <2>4, <3>3, <3>4 DEF Safe, Cut
    <2>. QED  BY <1>1, <2>3, <2>4
  <1>5. CASE Holds(x, k, c)
    <2>1. CASE x = e
      <3>1. sessions_'[p] = sessions_[p]
        BY DEF Turn
      <3>. QED  BY <1>2, <1>5, <2>1, <3>1 DEF Safe, Holds, Known
    <2>2. CASE x = p
      BY <1>5, <2>2 DEF ReceiverStep
    <2>. QED  BY <1>1, <2>1, <2>2
  <1>. QED  BY <1>3, <1>4, <1>5 DEF Safe

(* A step delivers at most one more block, a true one.                       *)
LEMMA DeliveryStep ==
  ASSUME LinkInv, NEW e \in Engine, GivenStep(e), DeliveryTurn(e), cancels' = 0 => cancels = 0,
         delivered' \in [Engine -> Seq([key : Engine \X Nat, data : Seq(Byte \cup {Zero})])]
  PROVE  DeliveryInv'
  <1> USE DEF LinkInv
  <1>1. Peer(e) \in Engine /\ Engine = {e, Peer(e)} /\ \A x \in Engine : Peer(x) \in Engine
    BY PeerFacts
  <1> SUFFICES ASSUME NEW x \in Engine, NEW i, i \in DOMAIN delivered'[x] PROVE DeliveryOK(x, i)'
    BY DEF DeliveryInv
  <1>2. /\ DOMAIN delivered[x] \subseteq DOMAIN delivered'[x]
        /\ \A j \in DOMAIN delivered[x] : delivered'[x][j] = delivered[x][j]
        /\ DOMAIN delivered[x] = 1 .. Len(delivered[x]) /\ Len(delivered[x]) \in Nat
    BY DeliveredGrows
  <1>3. PICK d : d = delivered'[x][i]
    OBVIOUS
  <1>4. CASE i \in DOMAIN delivered[x]
    <2>1. d = delivered[x][i] /\ DeliveryOK(x, i)
      BY <1>2, <1>3, <1>4 DEF DeliveryInv
    <2>2. /\ d.key \in Issued(Peer(x))
          /\ Red(d.key) => \/ d.data = Data(d.key)
                           \/ d.data = <<>> /\ (cancels = 0 => \E j \in 1 .. i - 1 :
                                delivered[x][j] = [key |-> d.key, data |-> Data(d.key)])
          /\ ~Red(d.key) => /\ Len(d.data) = Len(Data(d.key))
                            /\ \A j \in DOMAIN d.data : d.data[j] \in {Data(d.key)[j], Zero}
      BY <2>1 DEF DeliveryOK
    <2>3. PICK k : k = d.key
      OBVIOUS
    <2>4. k \in Issued(Peer(x))' /\ Data(k)' = Data(k) /\ Red(k)' = Red(k)
      BY <1>1, <2>2, <2>3, BlocksKept
    <2>5. \A j \in 1 .. i - 1 : delivered'[x][j] = delivered[x][j]
      <3>1. i \in 1 .. Len(delivered[x])
        BY <1>2, <1>4
      <3>2. \A j \in 1 .. i - 1 : j \in 1 .. Len(delivered[x])
        <4>1. PICK n \in Nat : n = Len(delivered[x])
          BY <1>2
        <4>2. i \in 1 .. n
          BY <3>1, <4>1
        <4>3. \A j \in 1 .. i - 1 : j \in 1 .. n
          BY <4>2
        <4>. QED  BY <4>1, <4>3
      <3>. QED  BY <1>2, <3>2
    <2>. QED  BY <1>3, <2>2, <2>3, <2>4, <2>5 DEF DeliveryOK
  <1>5. CASE i \notin DOMAIN delivered[x]
    <2>1. x = e /\ \E y : delivered'[e] = Append(delivered[e], y) /\ DeliveredOK(e, y)
      BY <1>1, <1>5 DEF DeliveryTurn
    <2>2. PICK y : delivered'[e] = Append(delivered[e], y) /\ DeliveredOK(e, y)
      BY <2>1
    <2>3. i = Len(delivered[e]) + 1 /\ d = y
      <3>1. PICK T : delivered[e] \in Seq(T)
        BY DEF BaseInv
      <3>2. delivered[e] \in Seq(T \cup {y})
        BY <3>1, SeqMonotonic
      <3>. QED  BY <1>2, <1>3, <1>5, <2>1, <2>2, <3>2, SMTT(30)
    <2>4. PICK k : k = d.key
      OBVIOUS
    <2>5. /\ k \in Issued(Peer(e))
          /\ Red(k) => d.data = Data(k) \/ (d.data = <<>> /\ (cancels' = 0 => Intact(k)))
          /\ ~Red(k) => /\ Len(d.data) = Len(Data(k))
                        /\ \A j \in DOMAIN d.data : d.data[j] \in {Data(k)[j], Zero}
      <3>1. DeliveredOK(e, d)
        BY <2>2, <2>3
      <3>. QED  BY <2>4, <3>1, Zenon DEF DeliveredOK
    <2>6. k \in Issued(Peer(e))' /\ Data(k)' = Data(k) /\ Red(k)' = Red(k)
      BY <1>1, <2>5, BlocksKept
    <2>7. ASSUME Intact(k)
          PROVE  \E j \in 1 .. i - 1 : delivered'[e][j] = [key |-> k, data |-> Data(k)]
      <3>1. k[1] = Peer(e) /\ Peer(Peer(e)) = e
        BY <1>1, <2>5, IssuedFacts, PeerFacts
      <3>2. PICK j \in DOMAIN delivered[e] : delivered[e][j] = [key |-> k, data |-> Data(k)]
        BY <2>7, <3>1 DEF Intact, Data
      <3>3. j \in 1 .. i - 1
        <4>1. PICK n \in Nat : n = Len(delivered[e])
          BY <1>2, <2>1
        <4>2. i = n + 1 /\ j \in 1 .. n
          BY <1>2, <2>1, <2>3, <4>1
        <4>. QED  BY <4>2
      <3>. QED  BY <1>2, <2>1, <3>2, <3>3
    <2>. QED  BY <1>3, <2>1, <2>4, <2>5, <2>6, <2>7 DEF DeliveryOK
  <1>. QED  BY <1>4, <1>5

(* A step keeps what is promised of reports and of completed blocks.         *)
LEMMA HistoryStep ==
  ASSUME LinkInv, NEW e \in Engine, NEW ss, NEW rest, NEW out, Step(e, ss, rest, out),
         DeliveryTurn(e), cancels = 0, ReceiverStep(e, ss, out), SenderStep(e, out)
  PROVE  HistoryInv'
  <1> USE DEF LinkInv
  <1> DEFINE p == Peer(e)
  <1>1. p \in Engine /\ p # e /\ Peer(p) = e /\ Engine = {e, p}
    BY PeerFacts
  <1>2. Turn(e, ss, rest, out) /\ GivenStep(e)
    BY DEF Step
  <1>3. /\ ToSet(net'[e]) \subseteq ToSet(net[e])
        /\ ToSet(net'[p]) = ToSet(net[p]) \cup ToSet(out)
    BY <1>2, StepNet
  <1>4. /\ \A x \in Engine : \A m \in ToSet(net[x]) : m.type # "CANCEL_BY_RECEIVER"
        /\ \A x \in Engine : \A k \in Issued(x) : HistoryOK(x, k)
    BY DEF HistoryInv
  <1>5. ASSUME NEW x \in Engine, NEW m \in ToSet(net'[x]) PROVE m.type # "CANCEL_BY_RECEIVER"
    BY <1>1, <1>3, <1>4 DEF ReceiverStep
  <1>6. ASSUME NEW x \in Engine, NEW m, m.key \in Issued(x), Red(m.key), Safe(x, m.key, Behind(m))
         PROVE  Safe(x, m.key, Behind(m))'
    <2>1. PICK c : c = Behind(m)
      OBVIOUS
    <2>2. Safe(x, m.key, c)'
      BY <1>6, <2>1, SafeKept
    <2>3. Data(m.key)' = Data(m.key)
      BY <1>2, <1>6, BlocksKept
    <2>4. Behind(m)' = c
      BY <2>1, <2>3 DEF Behind
    <2>. QED  BY <2>2, <2>4 DEF Safe, Holds
  (* a segment that was under way before *)
  <1>7. ASSUME NEW x \in Engine, NEW m \in ToSet(net[Peer(x)]), m.type \in {"RED_DATA_CP", "REPORT_ACK"}
        PROVE  Safe(x, m.key, Behind(m))'
    <2>1. Peer(x) \in Engine /\ Peer(Peer(x)) = x
      BY PeerFacts
    <2>2. SegmentOK(Peer(x), m)
      BY <2>1 DEF NetInv
    <2>3. m.key \in Issued(x) /\ Red(m.key)
      BY <1>7, <2>1, <2>2 DEF SegmentOK, DataTypes, RedTypes, GreenTypes, CancelAckTypes, Placed
    <2>4. Safe(x, m.key, Behind(m))
      BY <1>4, <1>7, <2>3 DEF HistoryOK
    <2>. QED  BY <2>3, <2>4, <1>6
  <1>8. ASSUME NEW x \in Engine, NEW m \in ToSet(net[x]), m.type = "REPORT"
        PROVE  Safe(x, m.key, m.claims)' /\ Told(m)'
    <2>1. SegmentOK(x, m)
      BY DEF NetInv
    <2>2. m.key \in Issued(x) /\ Red(m.key)
      BY <1>8, <2>1 DEF SegmentOK, DataTypes, RedTypes, GreenTypes, CancelAckTypes
    <2>3. Safe(x, m.key, m.claims) /\ Told(m)
      BY <1>4, <1>8, <2>2 DEF HistoryOK
    <2>4. Safe(x, m.key, m.claims)'
      BY <2>2, <2>3, SafeKept
    <2>5. Data(m.key)' = Data(m.key) /\ (Intact(m.key) => Intact(m.key)')
      BY <1>2, <2>2, BlocksKept, IntactKept
    <2>6. Told(m)'
      BY <2>3, <2>5 DEF Told
    <2>. QED  BY <2>4, <2>6
  <1>9. ASSUME NEW x \in Engine, NEW m, m \in ToSet(net'[Peer(x)]), m.type \in {"RED_DATA_CP", "REPORT_ACK"}
        PROVE  Safe(x, m.key, Behind(m))'
    <2>1. CASE m \in ToSet(net[Peer(x)])
      BY <1>7, <1>9, <2>1
    <2>2. CASE m \notin ToSet(net[Peer(x)])
      <3>1. x = e /\ m \in ToSet(out)
        BY <1>1, <1>3, <1>9, <2>2
      <3>2. m.key \in Issued(e) /\ Red(m.key) /\ Safe(e, m.key, Behind(m))
        BY <1>9, <3>1 DEF SenderStep
      <3>. QED  BY <3>1, <3>2, <1>6
    <2>. QED  BY <2>1, <2>2
  <1>10. ASSUME NEW x \in Engine, NEW m, m \in ToSet(net'[x]), m.type = "REPORT"
        PROVE  Safe(x, m.key, m.claims)' /\ Told(m)'
    <2>1. CASE m \in ToSet(net[x])
      BY <1>8, <1>10, <2>1
    <2>2. CASE m \notin ToSet(net[x])
      <3>1. x = p /\ m \in ToSet(out)
        BY <1>1, <1>3, <1>10, <2>2
      <3>. QED  BY <1>10, <3>1 DEF ReceiverStep
    <2>. QED  BY <2>1, <2>2
  <1>11. ASSUME NEW x \in Engine, NEW k, k \in Issued(x)', (BlockOf(k).outcome = "complete")'
         PROVE  Red(k)' /\ (Intact(k) \/ Holds(x, k, 0 .. Len(Data(k)) - 1))'
    <2>1. k[1] = x /\ k[2] \in 1 .. Len(given'[x]) /\ k = <<x, k[2]>> /\ BlockOf(k)' = given'[x][k[2]]
      BY <1>11 DEF Issued, BlockOf
    <2>2. k \in Issued(x) /\ Red(k) /\ Safe(x, k, 0 .. Len(Data(k)) - 1)
      <3>1. ASSUME k \in Issued(x), BlockOf(k).outcome = "complete"
            PROVE  Red(k) /\ Safe(x, k, 0 .. Len(Data(k)) - 1)
        BY <1>4, <3>1 DEF HistoryOK, Safe
      <3>2. CASE x = p
        <4>1. given'[x] = given[x]
          BY <1>2, <3>2 DEF GivenStep
        <4>2. k \in Issued(x) /\ BlockOf(k).outcome = "complete"
          BY <1>11, <2>1, <4>1 DEF Issued, BlockOf
        <4>. QED  BY <3>1, <4>2
      <3>3. CASE x = e
        <4>1. /\ k[2] \in 1 .. Len(given[e]) /\ given[e][k[2]].red
              /\ \/ given[e][k[2]].outcome = "complete"
                 \/ Safe(e, <<e, k[2]>>, 0 .. Len(given[e][k[2]].data) - 1)
          BY <1>11, <2>1, <3>3 DEF SenderStep
        <4>2. k \in Issued(x) /\ BlockOf(k) = given[e][k[2]]
          BY <2>1, <3>3, <4>1 DEF Issued, BlockOf
        <4>. QED  BY <2>1, <3>1, <3>3, <4>1, <4>2 DEF Red, Data
      <3>. QED  BY <1>1, <3>2, <3>3
    <2>3. PICK c : c = 0 .. Len(Data(k)) - 1
      OBVIOUS
    <2>4. Safe(x, k, c)'
      BY <2>2, <2>3, SafeKept
    <2>5. Red(k)' = Red(k) /\ Data(k)' = Data(k)
      BY <1>2, <2>2, BlocksKept
    <2>6. ~Cut(x, k)'
      BY <1>11 DEF Cut
    <2>7. (Intact(k) \/ Holds(x, k, c))'
      BY <2>4, <2>6 DEF Safe
    <2>8. (0 .. Len(Data(k)) - 1)' = c
      BY <2>3, <2>5
    <2>. QED  BY <2>2, <2>5, <2>7, <2>8 DEF Holds
  <1>12. ASSUME NEW x \in Engine, NEW k, k \in Issued(x)' PROVE HistoryOK(x, k)'
    BY <1>9, <1>10, <1>11, <1>12 DEF HistoryOK
  <1>. QED  BY <1>5, <1>12 DEF HistoryInv

(* A whole step, and that it keeps the invariant.                            *)
Move(e, ss, rest, out) ==
  /\ Step(e, ss, rest, out) /\ DeliveryTurn(e)
  /\ cancels' = 0 => cancels = 0 /\ ReceiverStep(e, ss, out) /\ SenderStep(e, out)

(* A step of an engine that meets its obligations keeps the invariant.       *)
LEMMA MoveKeeps ==
  ASSUME LinkInv, NEW e \in Engine, NEW ss, NEW rest, NEW out, Move(e, ss, rest, out)
  PROVE  LinkInv'
  <1>1. Step(e, ss, rest, out) /\ DeliveryTurn(e) /\ GivenStep(e) /\ CountStep
    BY DEF Move, Step
  <1>2. BaseInv' /\ NetInv' /\ SessionInv' /\ PoolInv' /\ TimerInv' /\ CancelInv'
    BY <1>1, StepKeeps
  <1>3. cancels' = 0 => cancels = 0
    BY DEF Move
  <1>4. DeliveryInv'
    BY <1>1, <1>3, DeliveryStep DEF CountStep
  <1>5. HistoryInv'
    <2>1. CASE cancels' = 0
      <3>1. cancels = 0 /\ ReceiverStep(e, ss, out) /\ SenderStep(e, out)
        BY <2>1 DEF Move
      <3>. QED  BY <1>1, <3>1, HistoryStep
    <2>2. CASE cancels' # 0
      BY <2>2 DEF HistoryInv
    <2>. QED  BY <2>1, <2>2
  <1>. QED  BY <1>2, <1>4, <1>5 DEF LinkInv

-----------------------------------------------------------------------------
(* The parts of a step, as the handlers compose them.                        *)

(* A step that gives no block changes no history.                            *)
LEMMA GivenSame ==
  ASSUME BaseInv, NEW e \in Engine, given' = given
  PROVE  GivenStep(e) /\ Len(given'[e]) = Len(given[e])
  <1>1. given[e] \in Seq(BlockRecord) /\ given \in [Engine -> Seq(BlockRecord)]
    BY DEF BaseInv
  <1>. QED  BY <1>1 DEF GivenStep

(* A step that settles a session changes the outcome of that one alone.      *)
LEMMA GivenOutcome ==
  ASSUME BaseInv, NEW e \in Engine, NEW k \in Issued(e), BlockOf(k).outcome = "open",
         NEW how \in {"complete", "failed"}, Outcome(e, k, how), k \notin DOMAIN sessions_'[e]
  PROVE  /\ GivenStep(e) /\ DOMAIN given' = Engine
         /\ \A x \in Engine : Len(given'[x]) = Len(given[x])
         /\ (BlockOf(k).outcome = how)'
         /\ \A i \in 1 .. Len(given[e]) : i # k[2] => given'[e][i] = given[e][i]
  <1>1. k[1] = e /\ k[2] \in 1 .. Len(given[e]) /\ k = <<e, k[2]>> /\ BlockOf(k) = given[e][k[2]]
    BY IssuedFacts
  <1>2. given[e] \in Seq(BlockRecord) /\ given \in [Engine -> Seq(BlockRecord)]
    BY DEF BaseInv
  <1>3. PICK n : n = k[2]
    OBVIOUS
  <1>4. PICK b \in BlockRecord : b = given[e][n]
    BY <1>1, <1>2, <1>3
  <1>5. PICK c : c = [b EXCEPT !.outcome = how]
    OBVIOUS
  <1>6. c \in BlockRecord /\ c.data = b.data /\ c.red = b.red /\ c.outcome = how
    BY <1>5 DEF BlockRecord
  <1>7. PICK g : g = [given[e] EXCEPT ![n] = c]
    OBVIOUS
  <1>8. given' = [given EXCEPT ![e] = g]
    BY <1>3, <1>4, <1>5, <1>7 DEF Outcome
  <1>9. /\ g \in Seq(BlockRecord) /\ Len(g) = Len(given[e]) /\ n \in 1 .. Len(given[e])
        /\ g[n] = c /\ \A i \in 1 .. Len(given[e]) : i # n => g[i] = given[e][i]
    BY <1>1, <1>2, <1>3, <1>6, <1>7
  <1>10. Peer(e) # e /\ Peer(e) \in Engine
    BY PeerFacts
  <1>11. /\ given' \in [Engine -> Seq(BlockRecord)] /\ given'[e] = g
         /\ \A x \in Engine : x # e => given'[x] = given[x]
    BY <1>2, <1>8, <1>9
  <1>12. Len(given[e]) \in Nat /\ k = <<e, n>> /\ given[e][n].outcome = "open"
    BY <1>1, <1>2, <1>3
  <1>13. GivenStep(e)
    <2>1. Len(given'[e]) = Len(given[e]) /\ given'[Peer(e)] = given[Peer(e)]
      BY <1>9, <1>10, <1>11
    <2>2. ASSUME NEW i \in 1 .. Len(given[e])
          PROVE  /\ given'[e][i].data = given[e][i].data /\ given'[e][i].red = given[e][i].red
                 /\ \/ given'[e][i] = given[e][i]
                    \/ given[e][i].outcome = "open" /\ <<e, i>> \notin DOMAIN sessions_'[e]
      <3>1. CASE i = n
        <4>1. given'[e][i] = c /\ given[e][i] = b
          BY <1>4, <1>9, <1>11, <3>1
        <4>2. given[e][i].outcome = "open" /\ <<e, i>> \notin DOMAIN sessions_'[e]
          BY <1>12, <3>1
        <4>. QED  BY <1>6, <4>1, <4>2
      <3>2. CASE i # n
        BY <1>9, <1>11, <3>2
      <3>. QED  BY <3>1, <3>2
    <2>. QED  BY <1>11, <1>12, <2>1, <2>2 DEF GivenStep
  <1>14. (BlockOf(k).outcome = how)'
    BY <1>1, <1>3, <1>6, <1>9, <1>11 DEF BlockOf
  <1>15. \A i \in 1 .. Len(given[e]) : i # k[2] => given'[e][i] = given[e][i]
    BY <1>3, <1>9, <1>11
  <1>16. \A x \in Engine : Len(given'[x]) = Len(given[x])
    BY <1>9, <1>11
  <1>. QED  BY <1>11, <1>13, <1>14, <1>15, <1>16

(* The number of sessions issued is unchanged when no block is given.        *)
LEMMA CountSame ==
  ASSUME BaseInv, session_counter_' = session_counter_, cancels' \in Nat,
         \A x \in Engine : Len(given'[x]) = Len(given[x]),
         delivered' \in [Engine -> Seq([key : Engine \X Nat, data : Seq(Byte \cup {Zero})])]
  PROVE  CountStep
  BY DEF BaseInv, CountStep

(* The same sessions are in order after a step.                              *)
LEMMA SessionsSame ==
  ASSUME LinkInv, NEW e \in Engine, GivenStep(e), NEW ss, ss = sessions_[e], sessions_'[e] = ss
  PROVE  SessionsOK(e, ss)
  <1> USE DEF LinkInv
  <1>1. ASSUME NEW k \in DOMAIN ss PROVE SessionOK(e, k, ss[k])'
    <2>1. SessionOK(e, k, ss[k])
      BY DEF SessionInv
    <2>. QED  BY <2>1, SessionKept
  <1>2. IsFiniteSet(DOMAIN ss) /\ Cardinality(DOMAIN ss) <= max_concurrent_sessions
    BY DEF PoolInv
  <1>. QED  BY <1>1, <1>2 DEF SessionsOK

(* The sessions left after one is erased are in order.                       *)
LEMMA SessionsErased ==
  ASSUME LinkInv, NEW e \in Engine, GivenStep(e), NEW k, NEW ss, ss = Erased(e, k), sessions_'[e] = ss
  PROVE  SessionsOK(e, ss)
  <1> USE DEF LinkInv
  <1> DEFINE D == DOMAIN sessions_[e]
  <1>1. DOMAIN ss = D \ {k} /\ \A j \in D \ {k} : ss[j] = sessions_[e][j]
    <2>1. /\ DOMAIN Erased(e, k) = DOMAIN sessions_[e] \ {k}
          /\ \A j \in DOMAIN sessions_[e] \ {k} : Erased(e, k)[j] = sessions_[e][j]
      BY ErasedIs, ZenonT(30)
    <2>. QED  BY <2>1, ZenonT(30)
  <1>2. ASSUME NEW j \in DOMAIN ss PROVE SessionOK(e, j, ss[j])'
    <2>1. SessionOK(e, j, ss[j])
      BY <1>1 DEF SessionInv
    <2>. QED  BY <2>1, SessionKept
  <1>3. IsFiniteSet(D) /\ Cardinality(D) <= max_concurrent_sessions
    BY DEF PoolInv
  <1>4. IsFiniteSet(DOMAIN ss) /\ Cardinality(DOMAIN ss) <= max_concurrent_sessions
    <2> HIDE DEF D
    <2>1. PICK x : x = DOMAIN ss
      OBVIOUS
    <2>2. x \in SUBSET D
      BY <1>1, <2>1
    <2>3. IsFiniteSet(x) /\ Cardinality(x) <= Cardinality(D) /\ Cardinality(D) \in Nat
      BY <1>3, <2>2, FS_Subset, FS_CardinalityType
    <2>4. Cardinality(x) \in Nat
      BY <2>3, FS_CardinalityType
    <2>. QED  BY <1>3, <2>1, <2>3, <2>4, ConfigFacts
  <1>. QED  BY <1>2, <1>4 DEF SessionsOK

(* A true session may be set in the table when it is there or there is room. *)
LEMMA SessionsWith ==
  ASSUME LinkInv, NEW e \in Engine, GivenStep(e), NEW k, NEW s, SessionOK(e, k, s)',
         k \in DOMAIN sessions_[e] \/ ~PoolFull(e),
         NEW ss, ss = With(e, k, s), sessions_'[e] = ss
  PROVE  SessionsOK(e, ss)
  <1> USE DEF LinkInv
  <1> DEFINE D == DOMAIN sessions_[e]
  <1>1. DOMAIN ss = D \cup {k} /\ ss[k] = s /\ \A j \in D : j # k => ss[j] = sessions_[e][j]
    BY DEF With
  <1>2. ASSUME NEW j \in DOMAIN ss PROVE SessionOK(e, j, ss[j])'
    <2>1. CASE j = k
      BY <1>1, <2>1
    <2>2. CASE j # k
      <3>1. SessionOK(e, j, ss[j])
        BY <1>1, <2>2 DEF SessionInv
      <3>. QED  BY <3>1, SessionKept
    <2>. QED  BY <2>1, <2>2
  <1>3. IsFiniteSet(D) /\ Cardinality(D) <= max_concurrent_sessions
    BY DEF PoolInv
  <1>4. IsFiniteSet(DOMAIN ss) /\ Cardinality(DOMAIN ss) <= max_concurrent_sessions
    <2>1. k \in D \/ ~(Cardinality(D) >= max_concurrent_sessions)
      BY DEF PoolFull
    <2> HIDE DEF D
    <2>2. PICK x : x = D \cup {k}
      OBVIOUS
    <2>3. /\ IsFiniteSet(x) /\ Cardinality(D) \in Nat
          /\ Cardinality(x) = IF k \in D THEN Cardinality(D) ELSE Cardinality(D) + 1
      BY <1>3, <2>2, FS_AddElement, FS_CardinalityType
    <2>. QED  BY <1>1, <1>3, <2>1, <2>2, <2>3, ConfigFacts
  <1>. QED  BY <1>2, <1>4 DEF SessionsOK

(* Sessions for blocks of the peer that go on with all they had.             *)
GoesOn(e, ss) ==
  \A k \in Issued(Peer(e)) :
    (Red(k) /\ Known(e, k)) =>
      /\ k \in DOMAIN ss /\ sessions_[e][k].tracker \subseteq ss[k].tracker
      /\ ss[k].total_data_length \in {sessions_[e][k].total_data_length, Len(Data(k))}

(* A receiver that keeps what it had still holds what it held.               *)
LEMMA HoldsOn ==
  ASSUME BaseInv, NEW e \in Engine, NEW ss, NEW rest, NEW out, Turn(e, ss, rest, out), GivenStep(e),
         NEW k \in Issued(Peer(e)), NEW c, Holds(Peer(e), k, c), k \in DOMAIN ss,
         sessions_[e][k].tracker \subseteq ss[k].tracker,
         ss[k].total_data_length \in {sessions_[e][k].total_data_length, Len(Data(k))}
  PROVE  Holds(Peer(e), k, c)'
  <1>1. Peer(e) \in Engine /\ Peer(Peer(e)) = e
    BY PeerFacts
  <1>2. Data(k)' = Data(k)
    BY <1>1, BlocksKept
  <1>3. sessions_'[e] = ss
    BY DEF Turn
  <1>4. c \subseteq ss[k].tracker /\ ss[k].total_data_length = Len(Data(k))
    BY <1>1 DEF Holds
  <1>. QED  BY <1>1, <1>2, <1>3, <1>4 DEF Holds, Known

(* A receiver that goes on keeps safe what it held.                          *)
LEMMA GoesOnSafe ==
  ASSUME BaseInv, NEW e \in Engine, NEW ss, NEW rest, NEW out, Turn(e, ss, rest, out), GivenStep(e),
         GoesOn(e, ss)
  PROVE  \A c : \A k \in Issued(Peer(e)) : (Red(k) /\ Holds(Peer(e), k, c)) => Safe(Peer(e), k, c)'
  <1> SUFFICES ASSUME NEW c, NEW k \in Issued(Peer(e)), Red(k), Holds(Peer(e), k, c)
               PROVE  Safe(Peer(e), k, c)'
    OBVIOUS
  <1>1. Known(e, k)
    BY PeerFacts DEF Holds
  <1>2. Holds(Peer(e), k, c)'
    BY <1>1, HoldsOn DEF GoesOn
  <1>. QED  BY <1>2 DEF Safe

(* A step that leaves the sessions for the peer's blocks alone.              *)
PeerSame(e, ss) ==
  \A k \in Issued(Peer(e)) :
    /\ k \in DOMAIN ss <=> Known(e, k)
    /\ k \in DOMAIN ss => ss[k] = sessions_[e][k]

(* A step of the originator that leaves the receiving side alone.            *)
LEMMA OwnMove ==
  ASSUME LinkInv, NEW e \in Engine, NEW ss, NEW rest, NEW out, Step(e, ss, rest, out),
         delivered' = delivered, cancels' = cancels, PeerSame(e, ss),
         \A m \in ToSet(out) : m.type \notin {"REPORT", "CANCEL_BY_RECEIVER"},
         cancels = 0 => SenderStep(e, out)
  PROVE  LinkInv'
  <1>1. BaseInv /\ Turn(e, ss, rest, out) /\ GivenStep(e)
    BY DEF LinkInv, Step
  <1>2. GoesOn(e, ss)
    BY DEF GoesOn, PeerSame, Known
  <1>3. \A c : \A k \in Issued(Peer(e)) : (Red(k) /\ Holds(Peer(e), k, c)) => Safe(Peer(e), k, c)'
    BY <1>1, <1>2, GoesOnSafe
  <1>4. ReceiverStep(e, ss, out)
    <2>1. \A k \in Issued(Peer(e)) : ~(k \in DOMAIN ss /\ ~Known(e, k))
      BY DEF PeerSame, Known
    <2>2. \A m \in ToSet(out) : m.type # "REPORT" /\ m.type # "CANCEL_BY_RECEIVER"
      OBVIOUS
    <2>. QED  BY <1>3, <2>1, <2>2 DEF ReceiverStep
  <1>5. DeliveryTurn(e)
    BY DEF DeliveryTurn
  <1>6. Move(e, ss, rest, out)
    BY <1>4, <1>5 DEF Move
  <1>. QED  BY <1>6, MoveKeeps

(* Only a red block is reported complete.                                    *)
LEMMA CompleteRed ==
  ASSUME LinkInv, cancels = 0, NEW e \in Engine,
         NEW i \in 1 .. Len(given[e]), given[e][i].outcome = "complete"
  PROVE  given[e][i].red
  <1>1. PICK k : k = <<e, i>>
    OBVIOUS
  <1>2. k \in Issued(e) /\ BlockOf(k) = given[e][i]
    BY <1>1 DEF Issued, BlockOf
  <1>3. HistoryOK(e, k)
    BY <1>2 DEF LinkInv, HistoryInv
  <1>4. Red(k)
    BY <1>2, <1>3 DEF HistoryOK
  <1>. QED  BY <1>2, <1>4 DEF Red

(* A step that completes nothing leaves the completed blocks as they were.   *)
LEMMA SenderSame ==
  ASSUME LinkInv, cancels = 0, NEW e \in Engine,
         \A i \in 1 .. Len(given'[e]) : given'[e][i].outcome = "complete" =>
           i \in 1 .. Len(given[e]) /\ given[e][i].outcome = "complete"
  PROVE  \A i \in 1 .. Len(given'[e]) : given'[e][i].outcome = "complete" =>
           /\ i \in 1 .. Len(given[e]) /\ given[e][i].red /\ given[e][i].outcome = "complete"
  BY CompleteRed

(* A step that starts no timer is a turn of the timers.                      *)
LEMMA TimerSame ==
  ASSUME BaseInv, TimerInv, NEW e \in Engine, NEW out, timers' = timers,
         firing' = firing \/ firing' = [firing EXCEPT ![e] = <<>>]
  PROVE  TimerTurn(e, out)
  <1>1. Peer(e) \in Engine /\ Peer(e) # e
    BY PeerFacts
  <1>2. /\ DOMAIN timers = Engine /\ DOMAIN firing = Engine /\ timers[e] \in Seq(ToSet(timers[e]))
        /\ firing[e] \in Seq(ToSet(firing[e])) /\ Len(firing[e]) <= 1
    BY DEF BaseInv
  <1>3. /\ DOMAIN firing' = Engine /\ firing'[Peer(e)] = firing[Peer(e)]
        /\ firing'[e] = firing[e] \/ firing'[e] = <<>>
    BY <1>1, <1>2
  <1>4. /\ firing'[e] \in Seq(ToSet(firing'[e])) /\ Len(firing'[e]) <= 1
        /\ ToSet(firing'[e]) \subseteq ToSet(firing[e])
    <2>1. CASE firing'[e] = firing[e]
      BY <1>2, <2>1
    <2>2. CASE firing'[e] = <<>>
      BY <2>2, EmptyList
    <2>. QED  BY <1>3, <2>1, <2>2
  <1>5. \A t \in ToSet(timers[e]) : IsTimer(t)
    BY DEF TimerInv, IsTimer
  <1>. QED  BY <1>2, <1>3, <1>4, <1>5 DEF TimerTurn

(* A step that changes no session and sends nothing.                         *)
LEMMA IdleMove ==
  ASSUME LinkInv, NEW e \in Engine, NEW ss, ss = sessions_[e], NEW rest, NEW out, out = <<>>,
         Turn(e, ss, rest, out), TimerTurn(e, out),
         session_counter_' = session_counter_, given' = given, delivered' = delivered,
         cancels' = cancels
  PROVE  LinkInv'
  <1>1. BaseInv
    BY DEF LinkInv
  <1>2. GivenStep(e)
    BY <1>1, GivenSame
  <1>3. Len(out) = 0 /\ ToSet(out) = {}
    BY EmptyList
  <1>4. SentOK(e, out)
    BY <1>3 DEF SentOK
  <1>5. SessionsOK(e, ss)
    BY <1>2, SessionsSame DEF Turn
  <1>6. CountStep
    BY <1>1 DEF BaseInv, CountStep
  <1>7. Step(e, ss, rest, out)
    BY <1>2, <1>4, <1>5, <1>6 DEF Step
  <1>8. PeerSame(e, ss)
    BY DEF PeerSame, Known
  <1>9. cancels = 0 => SenderStep(e, out)
    <2>1. ASSUME cancels = 0 PROVE SenderStep(e, out)
      BY <1>3, <2>1, SenderSame DEF SenderStep
    <2>. QED  BY <2>1
  <1>. QED  BY <1>3, <1>7, <1>8, <1>9, OwnMove

(* Losing the first segment under way keeps the invariant.                   *)
LEMMA LostKeeps ==
  ASSUME LinkInv, NEW e \in Engine, net[e] # <<>>, net' = [net EXCEPT ![e] = Tail(@)],
         UNCHANGED <<session_counter_, sessions_, timers, firing, given, delivered, cancels>>
  PROVE  LinkInv'
  <1>1. BaseInv /\ TimerInv /\ Peer(e) \in Engine /\ Peer(e) # e
    BY PeerFacts DEF LinkInv
  <1>2. PICK ss, rest, out : ss = sessions_[e] /\ rest = Tail(net[e]) /\ out = <<>>
    OBVIOUS
  <1>3. DOMAIN net = Engine /\ DOMAIN sessions_ = Engine /\ net[Peer(e)] \in Seq(ToSet(net[Peer(e)]))
    BY <1>1 DEF BaseInv
  <1>4. net[Peer(e)] \o out = net[Peer(e)] /\ out \in Seq(ToSet(out))
    BY <1>2, <1>3, ConcatEmpty, EmptyList
  <1>5. net'[e] = rest /\ net'[Peer(e)] = net[Peer(e)] /\ DOMAIN net' = Engine
    BY <1>1, <1>2, <1>3
  <1>6. Turn(e, ss, rest, out)
    BY <1>2, <1>3, <1>4, <1>5 DEF Turn
  <1>7. TimerTurn(e, out)
    BY <1>1, TimerSame
  <1>. QED  BY <1>2, <1>6, <1>7, IdleMove

(* A step of the timers alone keeps the invariant.                           *)
LEMMA RestKeeps ==
  ASSUME LinkInv, NEW e \in Engine, NEW out, out = <<>>, TimerTurn(e, out),
         UNCHANGED <<session_counter_, sessions_, net, given, delivered, cancels>>
  PROVE  LinkInv'
  <1>1. BaseInv /\ Peer(e) \in Engine /\ Peer(e) # e
    BY PeerFacts DEF LinkInv
  <1>2. PICK ss, rest : ss = sessions_[e] /\ rest = net[e]
    OBVIOUS
  <1>3. DOMAIN net = Engine /\ DOMAIN sessions_ = Engine /\ net[Peer(e)] \in Seq(ToSet(net[Peer(e)]))
    BY <1>1 DEF BaseInv
  <1>4. net[Peer(e)] \o out = net[Peer(e)] /\ out \in Seq(ToSet(out))
    BY <1>3, ConcatEmpty, EmptyList
  <1>5. Turn(e, ss, rest, out)
    BY <1>2, <1>3, <1>4 DEF Turn
  <1>. QED  BY <1>2, <1>5, IdleMove

(* A timer that runs out keeps the invariant.                                *)
LEMMA ExpireKeeps ==
  ASSUME LinkInv, NEW e \in Engine, Expire(e)
  PROVE  LinkInv'
  <1>1. BaseInv /\ TimerInv /\ Peer(e) \in Engine /\ Peer(e) # e
    BY PeerFacts DEF LinkInv
  <1>2. /\ timers[e] # <<>> /\ firing' = [firing EXCEPT ![e] = <<Head(timers[e]).event>>]
        /\ timers' = [timers EXCEPT ![e] = Tail(@)]
        /\ UNCHANGED <<session_counter_, sessions_, net, given, delivered, cancels>>
    BY DEF Expire, timer_pop
  <1>3. DOMAIN timers = Engine /\ DOMAIN firing = Engine /\ timers[e] \in Seq(ToSet(timers[e]))
    BY DEF LinkInv, BaseInv
  <1>4. PICK t : t = Head(timers[e])
    OBVIOUS
  <1>5. /\ t \in ToSet(timers[e]) /\ Tail(timers[e]) \in Seq(ToSet(Tail(timers[e])))
        /\ ToSet(Tail(timers[e])) \subseteq ToSet(timers[e])
    BY <1>2, <1>3, <1>4, TailIs
  <1>6. /\ DOMAIN timers' = Engine /\ DOMAIN firing' = Engine
        /\ timers'[e] = Tail(timers[e]) /\ timers'[Peer(e)] = timers[Peer(e)]
        /\ firing'[e] = <<t.event>> /\ firing'[Peer(e)] = firing[Peer(e)]
    BY <1>1, <1>2, <1>3, <1>4
  <1>7. /\ firing'[e] \in Seq(ToSet(firing'[e])) /\ Len(firing'[e]) <= 1
        /\ ToSet(firing'[e]) = {t.event}
    <2>1. PICK f : f = <<t.event>>
      OBVIOUS
    <2>2. f \in Seq(ToSet(f)) /\ Len(f) = 1 /\ ToSet(f) = {t.event}
      BY <2>1, OneMember
    <2>. QED  BY <1>6, <2>1, <2>2
  <1>8. \A u \in ToSet(timers[e]) : IsTimer(u)
    BY DEF LinkInv, TimerInv, IsTimer
  <1>9. PICK out : out = <<>>
    OBVIOUS
  <1>10. TimerTurn(e, out)
    <2>1. timers'[e] \in Seq(ToSet(timers'[e])) /\ ToSet(timers'[e]) \subseteq ToSet(timers[e])
      BY <1>5, <1>6
    <2>2. \A ev \in ToSet(firing'[e]) : \E u \in ToSet(timers[e]) : u.event = ev
      BY <1>5, <1>7
    <2>. QED  BY <1>6, <1>7, <1>8, <2>1, <2>2 DEF TimerTurn
  <1>. QED  BY <1>2, <1>9, <1>10, RestKeeps
-----------------------------------------------------------------------------
(* The handlers.                                                             *)

(* A piece of the block of a session is a right segment for the peer.         *)
LEMMA PieceOK ==
  ASSUME NEW e \in Engine, NEW k, k \in Issued(e)', NEW data, data = Data(k)', NEW red, red = Red(k)',
         NEW m, Piece(m, k, data), m.type \in DataTypes,
         m.type \in EobTypes => m.offset + Len(m.data) = Len(data),
         m.type \in RedTypes => red, m.type \in GreenTypes => ~red
  PROVE  SegmentOK(Peer(e), m)'
  <1>1. Peer(Peer(e)) = e
    BY PeerFacts
  <1>2. m.key = k
    BY DEF Piece
  <1>3. Placed(m)'
    BY <1>2 DEF Placed, Piece
  <1>. QED  BY <1>1, <1>2, <1>3 DEF SegmentOK

(* start_session keeps the invariant.                                        *)
LEMMA StartKeeps ==
  ASSUME LinkInv, NEW e \in Engine, StartBlock(e)
  PROVE  LinkInv'
  <1> DEFINE p == Peer(e)
  <1>1. BaseInv /\ TimerInv /\ p \in Engine /\ p # e /\ Peer(p) = e /\ Engine = {e, p}
    BY PeerFacts DEF LinkInv
  <1>2. PICK data \in Block, red \in Modes : start_session(e, data, red)
    BY DEF StartBlock
  <1>3. data \in Seq(Byte) /\ red \in BOOLEAN /\ MaxStarts[e] \in Nat /\ Len(data) \in Nat
    BY LinkAssumption
  <1>4. /\ given \in [Engine -> Seq(BlockRecord)] /\ given[e] \in Seq(BlockRecord)
        /\ Len(given[e]) \in Nat /\ session_counter_ \in [Engine -> Nat]
        /\ \A x \in Engine : session_counter_[x] = Len(given[x]) /\ Len(given[x]) <= MaxStarts[x]
        /\ delivered \in [Engine -> Seq([key : Engine \X Nat, data : Seq(Byte \cup {Zero})])]
        /\ cancels \in Nat
    BY <1>1 DEF BaseInv
  <1>5. PICK n \in Nat : n = Len(given[e]) + 1
    BY <1>4
  <1>6. PICK k : k = <<e, n>>
    OBVIOUS
  <1>7. PICK s : s = Originator(data, red)
    OBVIOUS
  <1>8. PICK out : out = segment_data(k, s, 1)
    OBVIOUS
  <1>9. PICK s1 : s1 = [s EXCEPT !.checkpoint_serial_counter = 1]
    OBVIOUS
  <1>10. PICK ss : ss = IF red THEN With(e, k, s1) ELSE sessions_[e]
    OBVIOUS
  <1>11. PICK rest : rest = net[e]
    OBVIOUS
  <1>12. PICK b : b = [data |-> data, red |-> red, outcome |-> IF red THEN "open" ELSE "sent"]
    OBVIOUS
  <1>13. k = <<e, session_counter_[e] + 1>>
    BY <1>4, <1>5, <1>6
  <1>14. /\ ~PoolFull(e) /\ session_counter_' = [session_counter_ EXCEPT ![e] = @ + 1]
         /\ given' = [given EXCEPT ![e] = Append(@, b)]
         /\ Proceed(e, ss, timers[e], rest, out)
         /\ firing' = firing /\ delivered' = delivered
    BY <1>2, <1>7, <1>8, <1>9, <1>10, <1>11, <1>12, <1>13 DEF start_session
  <1>15. cancels' = cancels /\ session_counter_[e] < MaxStarts[e]
    BY DEF StartBlock
  <1>16. b \in BlockRecord
    BY <1>3, <1>12 DEF BlockRecord
  <1>17. /\ given' \in [Engine -> Seq(BlockRecord)] /\ given'[p] = given[p]
         /\ Len(given'[e]) = n /\ given'[e][n] = b
         /\ \A i \in 1 .. Len(given[e]) : given'[e][i] = given[e][i]
    <2>1. PICK g : g = Append(given[e], b)
      OBVIOUS
    <2>2. /\ g \in Seq(BlockRecord) /\ Len(g) = n /\ g[n] = b
          /\ \A i \in 1 .. Len(given[e]) : g[i] = given[e][i]
      BY <1>4, <1>5, <1>16, <2>1
    <2>3. given' = [given EXCEPT ![e] = g]
      BY <1>14, <2>1
    <2>. QED  BY <1>1, <1>4, <2>2, <2>3
  <1>18. GivenStep(e)
    BY <1>4, <1>5, <1>17 DEF GivenStep
  <1>19. CountStep
    <2>1. session_counter_' \in [Engine -> Nat] /\ session_counter_'[e] = n
          /\ session_counter_'[p] = session_counter_[p]
      BY <1>1, <1>4, <1>5, <1>14
    <2>2. n <= MaxStarts[e]
      BY <1>3, <1>4, <1>5, <1>15
    <2>3. ASSUME NEW x \in Engine
          PROVE  session_counter_'[x] = Len(given'[x]) /\ Len(given'[x]) <= MaxStarts[x]
      <3>1. CASE x = e
        BY <1>17, <2>1, <2>2, <3>1
      <3>2. CASE x = p
        BY <1>4, <1>17, <2>1, <3>2
      <3>. QED  BY <1>1, <3>1, <3>2
    <2>. QED  BY <1>4, <1>14, <1>15, <2>1, <2>3 DEF CountStep
  <1>20. k \in Issued(e)' /\ BlockOf(k)' = b /\ Data(k)' = data /\ Red(k)' = red
    <2>1. n \in 1 .. Len(given'[e])
      BY <1>4, <1>5, <1>17
    <2>2. k \in Issued(e)' /\ BlockOf(k)' = b
      BY <1>6, <1>17, <2>1 DEF Issued, BlockOf
    <2>. QED  BY <1>12, <2>2 DEF Data, Red
  <1>21. k \notin Issued(e) /\ k \notin Issued(p)
    <2>1. n \notin 1 .. Len(given[e])
      BY <1>4, <1>5
    <2>. QED  BY <1>1, <1>6, <2>1 DEF Issued
  <1>22. s.client_data = data /\ s.is_red = red
    BY <1>7 DEF Originator
  <1>23. /\ out \in Seq(ToSet(out))
         /\ \A m \in ToSet(out) :
              /\ Piece(m, k, data)
              /\ m.type \in IF red THEN {"RED_DATA", "RED_DATA_CP_EORP_EOB"} ELSE GreenTypes
              /\ m.type \in EobTypes => m.offset + Len(m.data) = Len(data)
    BY <1>3, <1>8, <1>22, segment_dataIs
  <1>24. Turn(e, ss, rest, out) /\ TimerTurn(e, out)
    <2>1. PICK ts : ts = timers[e]
      OBVIOUS
    <2>2. ts \in Seq(ToSet(ts)) /\ ToSet(ts) \subseteq ToSet(timers[e])
      BY <1>1, <2>1 DEF BaseInv
    <2>. QED  BY <1>1, <1>11, <1>14, <1>23, <2>1, <2>2, ProceedTurn
  <1>25. SentOK(e, out)
    <2>1. ASSUME NEW i \in 1 .. Len(out)
          PROVE  SegmentOK(p, out[i])' /\ out[i].key = k /\ out[i].type # "CANCEL_BY_SENDER"
      <3>1. PICK m : m = out[i]
        OBVIOUS
      <3>2. m \in ToSet(out)
        BY <1>23, <3>1, ListOfMembers
      <3>3. /\ m.type \in DataTypes /\ (m.type \in RedTypes => red) /\ (m.type \in GreenTypes => ~red)
            /\ m.type # "CANCEL_BY_SENDER"
        BY <1>3, <1>23, <3>2 DEF DataTypes, RedTypes, GreenTypes
      <3>4. Piece(m, k, data) /\ (m.type \in EobTypes => m.offset + Len(m.data) = Len(data))
        BY <1>23, <3>2
      <3>7. SegmentOK(p, m)'
        BY <1>20, <3>3, <3>4, PieceOK
      <3>. QED  BY <1>23, <3>1, <3>2, <3>3, <3>7 DEF Piece
    <2>. QED  BY <1>21, <2>1 DEF SentOK
  <1>26. SessionsOK(e, ss)
    <2>1. sessions_'[e] = ss
      BY <1>24 DEF Turn
    <2>2. CASE red
      <3>1. s1 = [Originator(data, red) EXCEPT !.checkpoint_serial_counter = 1]
        BY <1>7, <1>9
      <3>2. data \in Seq(Byte \cup {Zero}) /\ 0 \in 0 .. CountModulus - 1
        BY <1>3, ConfigFacts, SeqMonotonic
      <3>3. /\ s1 \in Session /\ s1.role = "ORIGINATOR" /\ s1.is_red = red /\ s1.client_data = data
            /\ s1.total_data_length = Len(data) /\ s1.retransmission_count = 0
            /\ s1.checkpoint_serial_counter = 1
        BY <1>3, <3>1, <3>2 DEF Originator, Session
      <3>4. BlockOf(k)'.outcome = "open"
        BY <1>12, <1>20, <2>2
      <3>5. OwnOK(k, s1)'
        BY <1>20, <2>2, <3>3, <3>4, ConfigFacts DEF OwnOK
      <3>6. SessionOK(e, k, s1)'
        BY <1>20, <3>5 DEF SessionOK
      <3>7. ss = With(e, k, s1)
        BY <1>10, <2>2
      <3>. QED  BY <1>14, <1>18, <2>1, <3>6, <3>7, SessionsWith
    <2>3. CASE ~red
      <3>1. ss = sessions_[e]
        BY <1>10, <2>3
      <3>. QED  BY <1>18, <2>1, <3>1, SessionsSame
    <2>. QED  BY <1>3, <2>2, <2>3
  <1>27. PeerSame(e, ss)
    <2>1. CASE red
      <3>1. ss = With(e, k, s1)
        BY <1>10, <2>1
      <3>2. DOMAIN ss = DOMAIN sessions_[e] \cup {k}
            /\ \A j \in DOMAIN sessions_[e] : j # k => ss[j] = sessions_[e][j]
        BY <3>1 DEF With
      <3>. QED  BY <1>21, <3>2 DEF PeerSame, Known
    <2>2. CASE ~red
      <3>1. ss = sessions_[e]
        BY <1>10, <2>2
      <3>. QED  BY <3>1 DEF PeerSame, Known
    <2>. QED  BY <1>3, <2>1, <2>2
  <1>28. \A m \in ToSet(out) : m.type \notin {"REPORT", "CANCEL_BY_RECEIVER", "RED_DATA_CP", "REPORT_ACK"}
    BY <1>3, <1>23 DEF GreenTypes
  <1>29. cancels = 0 => SenderStep(e, out)
    <2>1. ASSUME NEW i \in 1 .. Len(given'[e]), given'[e][i].outcome = "complete"
          PROVE  i \in 1 .. Len(given[e]) /\ given[e][i].outcome = "complete"
      <3>1. CASE i = n
        BY <1>12, <1>17, <2>1, <3>1
      <3>2. CASE i # n
        <4>1. i \in 1 .. Len(given[e])
          BY <1>4, <1>5, <1>17, <3>2
        <4>. QED  BY <1>17, <2>1, <4>1
      <3>. QED  BY <3>1, <3>2
    <2>2. ASSUME cancels = 0 PROVE SenderStep(e, out)
      BY <1>28, <2>1, <2>2, SenderSame DEF SenderStep
    <2>. QED  BY <2>2
  <1>30. Step(e, ss, rest, out)
    BY <1>18, <1>19, <1>24, <1>25, <1>26 DEF Step
  <1>. QED  BY <1>14, <1>15, <1>27, <1>28, <1>29, <1>30, OwnMove

-----------------------------------------------------------------------------
(* An engine's own sessions.                                                 *)

(* What is sent is in order when each segment of it is.                      *)
LEMMA SentByMembers ==
  ASSUME NEW e, NEW out, out \in Seq(ToSet(out)),
         \A m \in ToSet(out) :
           /\ SegmentOK(Peer(e), m)' /\ m.type # "CANCEL_BY_SENDER"
           /\ m.type \in DataTypes => m.key \notin Issued(e) \/ BlockOf(m.key).outcome = "open"
  PROVE  SentOK(e, out)
  <1>1. \A i \in 1 .. Len(out) : out[i] \in ToSet(out)
    BY ListOfMembers
  <1>2. ASSUME NEW i \in 1 .. Len(out)
        PROVE  /\ SegmentOK(Peer(e), out[i])' /\ out[i].type # "CANCEL_BY_SENDER"
               /\ out[i].type \in DataTypes =>
                    out[i].key \notin Issued(e) \/ BlockOf(out[i].key).outcome = "open"
    <2>1. PICK m : m = out[i]
      OBVIOUS
    <2>2. m \in ToSet(out)
      BY <1>1, <2>1
    <2>. QED  BY <2>1, <2>2
  <1>. QED  BY <1>2 DEF SentOK

(* What the originator's session leaves when it ends, complete or failed.    *)
LEMMA OwnEnds ==
  ASSUME LinkInv, NEW e \in Engine, NEW k \in Issued(e), Known(e, k),
         NEW how \in {"complete", "failed"}, Outcome(e, k, how),
         NEW ss, ss = Erased(e, k), sessions_'[e] = ss,
         session_counter_' = session_counter_, delivered' = delivered, cancels' \in Nat
  PROVE  /\ GivenStep(e) /\ SessionsOK(e, ss) /\ CountStep /\ PeerSame(e, ss)
         /\ (BlockOf(k).outcome = how)' /\ BlockOf(k).outcome = "open"
         /\ \A i \in 1 .. Len(given'[e]) :
              i \in 1 .. Len(given[e]) /\ (i # k[2] => given'[e][i] = given[e][i])
  <1>1. BaseInv /\ SessionInv
    BY DEF LinkInv
  <1>2. DOMAIN ss = DOMAIN sessions_[e] \ {k} /\ \A j \in DOMAIN ss : ss[j] = sessions_[e][j]
    BY DEF Erased, Restrict
  <1>3. OwnOK(k, sessions_[e][k])
    BY <1>1, EndsOfSession DEF Known
  <1>4. BlockOf(k).outcome = "open"
    BY <1>3 DEF OwnOK
  <1>5. k \notin DOMAIN sessions_'[e]
    BY <1>2
  <1>6. /\ GivenStep(e) /\ \A x \in Engine : Len(given'[x]) = Len(given[x])
        /\ (BlockOf(k).outcome = how)'
        /\ \A i \in 1 .. Len(given[e]) : i # k[2] => given'[e][i] = given[e][i]
    BY <1>1, <1>4, <1>5, GivenOutcome
  <1>7. SessionsOK(e, ss)
    BY <1>6, SessionsErased
  <1>8. CountStep
    <2>1. delivered' \in [Engine -> Seq([key : Engine \X Nat, data : Seq(Byte \cup {Zero})])]
      BY <1>1 DEF BaseInv
    <2>. QED  BY <1>1, <1>6, <2>1, CountSame
  <1>9. PeerSame(e, ss)
    <2>1. k \notin Issued(Peer(e))
      BY IssuedApart
    <2>. QED  BY <1>2, <2>1 DEF PeerSame, Known
  <1>. QED  BY <1>4, <1>6, <1>7, <1>8, <1>9

(* What the originator's session becomes when it counts a retransmission.    *)
LEMMA OwnRetries ==
  ASSUME LinkInv, NEW e \in Engine, NEW k \in Issued(e), Known(e, k),
         NEW s, s = sessions_[e][k], NEW count, count = RetryCount(s), count <= max_retransmissions,
         NEW t, t = [s EXCEPT !.retransmission_count = count,
                              !.checkpoint_serial_counter = s.checkpoint_serial_counter + 1],
         NEW ss, ss = With(e, k, t), sessions_'[e] = ss,
         session_counter_' = session_counter_, delivered' = delivered, given' = given,
         cancels' = cancels
  PROVE  GivenStep(e) /\ SessionsOK(e, ss) /\ CountStep /\ PeerSame(e, ss)
  <1>1. BaseInv /\ SessionInv
    BY DEF LinkInv
  <1>2. DOMAIN ss = DOMAIN sessions_[e] \cup {k}
        /\ \A j \in DOMAIN sessions_[e] : j # k => ss[j] = sessions_[e][j]
    BY DEF With
  <1>3. OwnOK(k, s)
    BY <1>1, EndsOfSession DEF Known
  <1>4. /\ s \in Session /\ s.role = "ORIGINATOR" /\ s.is_red /\ Red(k)
        /\ s.client_data = Data(k) /\ s.total_data_length = Len(Data(k))
        /\ BlockOf(k).outcome = "open"
        /\ max_retransmissions < CountModulus - 1 =>
             /\ s.retransmission_count <= max_retransmissions
             /\ s.checkpoint_serial_counter = s.retransmission_count + 1
    BY <1>3 DEF OwnOK
  <1>5. PICK rc \in 0 .. CountModulus - 1, cs \in Nat :
          rc = s.retransmission_count /\ cs = s.checkpoint_serial_counter
    BY <1>4 DEF Session
  <1>6. count \in 0 .. CountModulus - 1 /\ (rc + 1 < CountModulus => count = rc + 1)
    BY <1>5, ConfigFacts DEF RetryCount
  <1>7. t = [s EXCEPT !.retransmission_count = count, !.checkpoint_serial_counter = cs + 1]
    BY <1>5
  <1>8. /\ t \in Session /\ t.role = s.role /\ t.is_red = s.is_red /\ t.client_data = s.client_data
        /\ t.total_data_length = s.total_data_length /\ t.retransmission_count = count
        /\ t.checkpoint_serial_counter = cs + 1
    <2>1. PICK c \in Nat : c = cs + 1
      OBVIOUS
    <2>2. PICK n \in 0 .. CountModulus - 1 : n = count
      BY <1>6
    <2>3. t = [s EXCEPT !.retransmission_count = n, !.checkpoint_serial_counter = c]
      BY <1>7, <2>1, <2>2
    <2>4. s \in Session
      BY <1>4
    <2>5. /\ t \in Session /\ t.role = s.role /\ t.is_red = s.is_red /\ t.client_data = s.client_data
          /\ t.total_data_length = s.total_data_length /\ t.retransmission_count = n
          /\ t.checkpoint_serial_counter = c
      BY <2>3, <2>4 DEF Session
    <2>. QED  BY <2>1, <2>2, <2>5
  <1>9. max_retransmissions < CountModulus - 1 => count <= max_retransmissions /\ cs + 1 = count + 1
    BY <1>4, <1>5, <1>6, ConfigFacts, SMTT(30)
  <1>10. OwnOK(k, t)
    BY <1>4, <1>8, <1>9 DEF OwnOK
  <1>11. GivenStep(e) /\ \A x \in Engine : Len(given'[x]) = Len(given[x])
    BY <1>1, GivenSame
  <1>12. SessionOK(e, k, t)'
    <2>1. SessionOK(e, k, t) /\ k \in DOMAIN sessions_'[e]
      BY <1>2, <1>10 DEF SessionOK
    <2>. QED  BY <1>1, <1>11, <2>1, SessionKept
  <1>13. SessionsOK(e, ss)
    BY <1>11, <1>12, SessionsWith DEF Known
  <1>14. CountStep
    <2>1. /\ delivered' \in [Engine -> Seq([key : Engine \X Nat, data : Seq(Byte \cup {Zero})])]
          /\ cancels' \in Nat
      BY <1>1 DEF BaseInv
    <2>. QED  BY <1>1, <1>11, <2>1, CountSame
  <1>15. PeerSame(e, ss)
    <2>1. k \notin Issued(Peer(e))
      BY IssuedApart
    <2>. QED  BY <1>2, <2>1 DEF PeerSame, Known
  <1>. QED  BY <1>11, <1>13, <1>14, <1>15

(* The segment that arrives is one of those under way.                       *)
LEMMA HeadArrives ==
  ASSUME LinkInv, NEW e \in Engine, net[e] # <<>>, NEW m, m = Head(net[e])
  PROVE  m \in ToSet(net[e]) /\ SegmentOK(e, m)
  <1>1. net[e] \in Seq(ToSet(net[e]))
    BY DEF LinkInv, BaseInv
  <1>2. m \in ToSet(net[e])
    BY <1>1, TailIs
  <1>. QED  BY <1>2 DEF LinkInv, NetInv

(* A report that arrives is about a red block of the engine, its claims are  *)
(* safe, and it leaves nothing out behind its upper bound.                   *)
LEMMA ReportArrives ==
  ASSUME LinkInv, NEW e \in Engine, net[e] # <<>>, NEW m, m = Head(net[e]), m.type = "REPORT"
  PROVE  /\ m.key \in Issued(e) /\ Red(m.key) /\ m.key = <<e, m.key[2]>>
         /\ m.upper \in 0 .. Len(Data(m.key)) /\ m.claims \subseteq 0 .. Len(Data(m.key)) - 1
         /\ cancels = 0 => Safe(e, m.key, m.claims) /\ Safe(e, m.key, {}) /\ Told(m)
  <1>1. m \in ToSet(net[e]) /\ SegmentOK(e, m)
    BY HeadArrives
  <1>2. /\ m.key \in Issued(e) /\ Red(m.key)
        /\ m.upper \in 0 .. Len(Data(m.key)) /\ m.claims \subseteq 0 .. Len(Data(m.key)) - 1
    BY <1>1 DEF SegmentOK, DataTypes, RedTypes, GreenTypes, CancelAckTypes
  <1>3. m.key = <<e, m.key[2]>>
    BY <1>2, IssuedFacts
  <1>4. cancels = 0 => Safe(e, m.key, m.claims) /\ Told(m)
    BY <1>1, <1>2 DEF LinkInv, HistoryInv, HistoryOK
  <1>5. Safe(e, m.key, m.claims) => Safe(e, m.key, {})
    BY DEF Safe, Holds
  <1>. QED  BY <1>2, <1>3, <1>4, <1>5

(* A set that covers n bytes has the first n bytes in it.                    *)
LEMMA CoversAll ==
  ASSUME NEW n \in Nat, NEW S, S \subseteq 0 .. n - 1, Covers(S, n)
  PROVE  0 .. n - 1 \subseteq S
  <1>1. CASE n = 0
    BY <1>1
  <1>2. CASE n # 0
    <2>1. PICK c : c = Cardinality(S)
      OBVIOUS
    <2>2. c \in Nat
      <3>1. IsFiniteSet(0 .. n - 1)
        BY FS_Interval
      <3>2. IsFiniteSet(S)
        BY <3>1, FS_Subset
      <3>. QED  BY <2>1, <3>2, FS_CardinalityType
    <2>3. S = 0 .. c - 1 /\ c >= n
      BY <1>2, <2>1 DEF Covers
    <2>. QED  BY <2>2, <2>3
  <1>. QED  BY <1>1, <1>2

(* A report that claims all behind its upper bound: what lies behind its     *)
(* last gap was claimed, and without a gap the whole block was.              *)
LEMMA BehindGaps ==
  ASSUME NEW n \in Nat, NEW u \in 0 .. n, NEW S, S \subseteq 0 .. n - 1, u .. n - 1 \subseteq S,
         NEW gaps, gaps = MaximalRanges((0 .. u - 1) \ S)
  PROVE  /\ gaps # <<>> => End(gaps[Len(gaps)]) .. n - 1 \subseteq S
         /\ gaps = <<>> => 0 .. n - 1 \subseteq S /\ Covers(S, n)
  <1>1. PICK M : M = (0 .. u - 1) \ S
    OBVIOUS
  <1>2. M \subseteq 0 .. u - 1 /\ u \in Nat /\ gaps = MaximalRanges(M)
    BY <1>1
  <1>3. /\ gaps = <<>> => M = {}
        /\ gaps # <<>> => \A y \in M : y < End(gaps[Len(gaps)])
    BY <1>2, LastRange
  <1>4. ASSUME gaps # <<>> PROVE End(gaps[Len(gaps)]) .. n - 1 \subseteq S
    <2>1. gaps \in Seq(RangesBelow(u))
      BY <1>2, RangesWithin
    <2>2. PICK g : g = End(gaps[Len(gaps)])
      OBVIOUS
    <2>3. g \in Nat
      <3>1. PICK c \in RangesBelow(u) : c = gaps[Len(gaps)]
        BY <1>4, <2>1
      <3>. QED  BY <2>2, <3>1 DEF RangesBelow, End
    <2>4. \A y \in M : y < g
      BY <1>3, <1>4, <2>2
    <2>5. ASSUME NEW y \in g .. n - 1 PROVE y \in S
      <3>1. y \in Nat /\ ~(y < g) /\ y < n
        BY <2>3
      <3>2. CASE y < u
        BY <1>1, <2>4, <3>1, <3>2
      <3>3. CASE ~(y < u)
        BY <3>1, <3>3
      <3>. QED  BY <3>2, <3>3
    <2>. QED  BY <2>2, <2>5
  <1>5. ASSUME gaps = <<>> PROVE 0 .. n - 1 \subseteq S /\ Covers(S, n)
    <2>1. ASSUME NEW y \in 0 .. n - 1 PROVE y \in S
      <3>1. CASE y < u
        BY <1>1, <1>3, <1>5, <3>1
      <3>2. CASE ~(y < u)
        BY <3>2
      <3>. QED  BY <3>1, <3>2
    <2>2. S = 0 .. n - 1
      BY <2>1
    <2>3. Cardinality(S) = n
      <3>1. Cardinality(0 .. n - 1) = IF 0 > n - 1 THEN 0 ELSE (n - 1) - 0 + 1
        BY FS_Interval
      <3>. QED  BY <2>2, <3>1
    <2>. QED  BY <2>2, <2>3 DEF Covers
  <1>. QED  BY <1>4, <1>5

(* An acknowledgement is about a session of its receiver.                    *)
LEMMA AckSent ==
  ASSUME LinkInv, NEW e \in Engine, GivenStep(e), NEW k \in Issued(e), Red(k),
         NEW n, NEW ack, ack = ReportAck(k, n)
  PROVE  SegmentOK(Peer(e), ack)' /\ ack.type = "REPORT_ACK" /\ ack.key = k
  <1>1. Peer(Peer(e)) = e /\ BaseInv
    BY PeerFacts DEF LinkInv
  <1>2. k \in Issued(e)' /\ Red(k)' = Red(k)
    BY <1>1, BlocksKept
  <1>3. ack.type = "REPORT_ACK" /\ ack.key = k
    BY DEF ReportAck
  <1>. QED  BY <1>1, <1>2, <1>3 DEF SegmentOK

(* A cancel of the sender is about a session of its own.                     *)
LEMMA CancelSent ==
  ASSUME LinkInv, NEW e \in Engine, GivenStep(e), NEW k \in Issued(e), NEW c,
         c = CancelSegment(k, "CANCEL_BY_SENDER")
  PROVE  SegmentOK(Peer(e), c)' /\ c.type = "CANCEL_BY_SENDER" /\ c.key = k
  <1>1. Peer(Peer(e)) = e /\ BaseInv
    BY PeerFacts DEF LinkInv
  <1>2. k \in Issued(e)'
    BY <1>1, BlocksKept
  <1>3. c.type = "CANCEL_BY_SENDER" /\ c.key = k
    BY DEF CancelSegment
  <1>. QED  BY <1>1, <1>2, <1>3 DEF SegmentOK

(* A step that answers a report and leaves the sessions and outcomes alone.  *)
LEMMA AnswerMove ==
  ASSUME LinkInv, NEW e \in Engine, NEW k \in Issued(e), Red(k), cancels = 0 => Safe(e, k, {}),
         NEW n, NEW out, out = <<ReportAck(k, n)>>,
         NEW ss, ss = sessions_[e], NEW rest, Turn(e, ss, rest, out), TimerTurn(e, out),
         UNCHANGED <<session_counter_, given, delivered, cancels>>
  PROVE  LinkInv'
  <1>1. BaseInv
    BY DEF LinkInv
  <1>2. GivenStep(e)
    BY <1>1, GivenSame
  <1>3. PICK ack : ack = ReportAck(k, n)
    OBVIOUS
  <1>4. SegmentOK(Peer(e), ack)' /\ ack.type = "REPORT_ACK" /\ ack.key = k
    BY <1>2, <1>3, AckSent
  <1>5. out \in Seq(ToSet(out)) /\ ToSet(out) = {ack}
    BY <1>3, OneMember
  <1>6. SentOK(e, out)
    BY <1>4, <1>5, SentByMembers DEF DataTypes, RedTypes, GreenTypes
  <1>7. SessionsOK(e, ss)
    BY <1>2, SessionsSame DEF Turn
  <1>8. CountStep
    BY <1>1 DEF BaseInv, CountStep
  <1>9. Step(e, ss, rest, out)
    BY <1>2, <1>6, <1>7, <1>8 DEF Step
  <1>10. PeerSame(e, ss)
    BY DEF PeerSame, Known
  <1>11. ASSUME cancels = 0 PROVE SenderStep(e, out)
    <2>1. Behind(ack) = {}
      BY <1>4 DEF Behind
    <2>. QED  BY <1>4, <1>5, <1>11, <2>1, SenderSame DEF SenderStep
  <1>12. \A m \in ToSet(out) : m.type \notin {"REPORT", "CANCEL_BY_RECEIVER"}
    BY <1>4, <1>5
  <1>13. cancels = 0 => SenderStep(e, out)
    BY <1>11
  <1>. QED  BY <1>9, <1>10, <1>12, <1>13, OwnMove

(* A report for a session that has ended keeps the invariant.                *)
LEMMA ReportUnknownKeeps ==
  ASSUME LinkInv, NEW e \in Engine, receive_report_unknown(e), cancels' = cancels
  PROVE  LinkInv'
  <1>1. BaseInv /\ TimerInv
    BY DEF LinkInv
  <1>2. net[e] # <<>>
    BY DEF receive_report_unknown, Arrives
  <1>3. PICK m : m = Head(net[e])
    OBVIOUS
  <1>4. m.type = "REPORT"
    BY <1>3 DEF receive_report_unknown, Arrives
  <1>5. m.key \in Issued(e) /\ Red(m.key) /\ (cancels = 0 => Safe(e, m.key, {}))
    BY <1>2, <1>3, <1>4, ReportArrives
  <1>6. PICK ss, ts, rest, out : /\ ss = sessions_[e] /\ ts = timers[e] /\ rest = Tail(net[e])
                                 /\ out = <<ReportAck(m.key, m.report)>>
    OBVIOUS
  <1>7. Proceed(e, ss, ts, rest, out) /\ UNCHANGED <<session_counter_, firing, given, delivered>>
    BY <1>3, <1>6 DEF receive_report_unknown
  <1>8. ts \in Seq(ToSet(ts)) /\ ToSet(ts) \subseteq ToSet(timers[e]) /\ out \in Seq(ToSet(out))
    BY <1>1, <1>6, OneMember DEF BaseInv
  <1>9. Turn(e, ss, rest, out) /\ TimerTurn(e, out)
    BY <1>1, <1>2, <1>6, <1>7, <1>8, ProceedTurn
  <1>. QED  BY <1>5, <1>6, <1>7, <1>9, AnswerMove

(* An originator that gives up: what it still sends ends with the cancel.    *)
LEMMA GiveUpMove ==
  ASSUME LinkInv, NEW e \in Engine, NEW k \in Issued(e), Known(e, k),
         NEW ack, ack = <<>> \/ ((cancels = 0 => Safe(e, k, {})) /\ \E n : ack = <<ReportAck(k, n)>>),
         NEW ts, ts \in Seq(ToSet(ts)), ToSet(ts) \subseteq ToSet(timers[e]),
         NEW rest, rest = net[e] \/ (net[e] # <<>> /\ rest = Tail(net[e])),
         GiveUp(e, k, ts, rest, ack), firing' = firing \/ firing' = [firing EXCEPT ![e] = <<>>],
         UNCHANGED <<session_counter_, delivered, cancels>>
  PROVE  LinkInv'
  <1>1. BaseInv /\ TimerInv /\ SessionInv /\ cancels' \in Nat
    BY DEF LinkInv, BaseInv
  <1>2. PICK c : c = CancelSegment(k, "CANCEL_BY_SENDER")
    OBVIOUS
  <1>3. PICK out, ss : out = ack \o <<c>> /\ ss = Erased(e, k)
    OBVIOUS
  <1>4. ack \in Seq(ToSet(ack)) /\ <<c>> \in Seq(ToSet(<<c>>)) /\ ToSet(<<c>>) = {c} /\ Len(<<c>>) = 1
    BY EmptyList, OneMember
  <1>5. /\ out \in Seq(ToSet(out)) /\ ToSet(out) = ToSet(ack) \cup {c} /\ Len(ack) \in Nat
        /\ Len(out) = Len(ack) + 1 /\ \A i \in 1 .. Len(ack) : out[i] = ack[i]
        /\ out[Len(out)] = c
    <2>1. PICK d : d = <<c>>
      OBVIOUS
    <2>2. /\ d \in Seq(ToSet(d)) /\ ToSet(d) = {c} /\ Len(d) = 1 /\ d[1] = c
      BY <1>4, <2>1
    <2>3. out = ack \o d
      BY <1>3, <2>1
    <2>4. /\ out \in Seq(ToSet(out)) /\ ToSet(out) = ToSet(ack) \cup ToSet(d) /\ Len(ack) \in Nat
          /\ Len(out) = Len(ack) + Len(d) /\ \A i \in 1 .. Len(ack) : out[i] = ack[i]
          /\ \A i \in Len(ack) + 1 .. Len(ack) + Len(d) : out[i] = d[i - Len(ack)]
      <3>1. ack \in Seq(ToSet(ack)) /\ d \in Seq(ToSet(d))
        BY <1>4, <2>2
      <3>2. /\ ack \o d \in Seq(ToSet(ack \o d)) /\ ToSet(ack \o d) = ToSet(ack) \cup ToSet(d)
            /\ Len(ack) \in Nat /\ Len(ack \o d) = Len(ack) + Len(d)
            /\ \A i \in 1 .. Len(ack) : (ack \o d)[i] = ack[i]
            /\ \A i \in Len(ack) + 1 .. Len(ack) + Len(d) : (ack \o d)[i] = d[i - Len(ack)]
        BY <3>1, ConcatMembers
      <3>. QED  BY <2>3, <3>2, Zenon
    <2>5. Len(out) \in Len(ack) + 1 .. Len(ack) + Len(d) /\ Len(out) - Len(ack) = 1
      BY <2>2, <2>4
    <2>. QED  BY <2>2, <2>4, <2>5
  <1>6. Proceed(e, ss, ts, rest, out) /\ Outcome(e, k, "failed")
    BY <1>2, <1>3 DEF GiveUp
  <1>7. Turn(e, ss, rest, out) /\ TimerTurn(e, out)
    BY <1>1, <1>5, <1>6, ProceedTurn
  <1>8. /\ GivenStep(e) /\ SessionsOK(e, ss) /\ CountStep /\ PeerSame(e, ss)
        /\ (BlockOf(k).outcome = "failed")' /\ BlockOf(k).outcome = "open"
        /\ \A i \in 1 .. Len(given'[e]) :
             i \in 1 .. Len(given[e]) /\ (i # k[2] => given'[e][i] = given[e][i])
    <2>1. sessions_'[e] = ss
      BY <1>7 DEF Turn
    <2>. QED  BY <1>1, <1>3, <1>6, <2>1, OwnEnds
  <1>9. SegmentOK(Peer(e), c)' /\ c.type = "CANCEL_BY_SENDER" /\ c.key = k
    BY <1>2, <1>8, CancelSent
  <1>10. Red(k)
    BY <1>1, EndsOfSession DEF Known, OwnOK
  <1>11. ASSUME NEW m \in ToSet(ack)
         PROVE  /\ SegmentOK(Peer(e), m)' /\ m.type = "REPORT_ACK" /\ m.key = k
                /\ cancels = 0 => Safe(e, k, {})
    <2>1. ack # <<>>
      BY EmptyList
    <2>2. PICK n : ack = <<ReportAck(k, n)>> /\ (cancels = 0 => Safe(e, k, {}))
      BY <2>1
    <2>3. m = ReportAck(k, n)
      BY <2>2, OneMember
    <2>. QED  BY <1>8, <1>10, <2>2, <2>3, AckSent
  <1>12. SentOK(e, out)
    <2>1. ASSUME NEW i \in 1 .. Len(out)
          PROVE  /\ SegmentOK(Peer(e), out[i])' /\ out[i].type \notin DataTypes
                 /\ out[i].type = "CANCEL_BY_SENDER" =>
                      i = Len(out) /\ (BlockOf(out[i].key).outcome = "failed")'
      <3>1. CASE i = Len(out)
        BY <1>5, <1>8, <1>9, <3>1 DEF DataTypes, RedTypes, GreenTypes
      <3>2. CASE i # Len(out)
        <4>1. i \in 1 .. Len(ack)
          BY <1>5, <3>2
        <4>2. PICK m : m = out[i]
          OBVIOUS
        <4>3. m \in ToSet(ack)
          BY <1>4, <1>5, <4>1, <4>2, ListOfMembers
        <4>. QED  BY <1>11, <4>2, <4>3 DEF DataTypes, RedTypes, GreenTypes
      <3>. QED  BY <3>1, <3>2
    <2>. QED  BY <2>1 DEF SentOK
  <1>13. Step(e, ss, rest, out)
    BY <1>7, <1>8, <1>12 DEF Step
  <1>14. ASSUME cancels = 0 PROVE SenderStep(e, out)
    <2>1. \A m \in ToSet(out) : m.type \in {"RED_DATA_CP", "REPORT_ACK"} =>
            m.key \in Issued(e) /\ Red(m.key) /\ Safe(e, m.key, Behind(m))
      <3>1. \A m \in ToSet(ack) : Behind(m) = {}
        BY <1>11 DEF Behind
      <3>. QED  BY <1>5, <1>9, <1>10, <1>11, <1>14, <3>1
    <2>2. ASSUME NEW i \in 1 .. Len(given'[e]), given'[e][i].outcome = "complete"
          PROVE  i \in 1 .. Len(given[e]) /\ given[e][i].outcome = "complete"
      <3>1. i # k[2]
        <4>1. k[1] = e
          BY IssuedFacts
        <4>2. given'[e][k[2]].outcome = "failed"
          BY <1>8, <4>1 DEF BlockOf
        <4>. QED  BY <2>2, <4>2
      <3>. QED  BY <1>8, <2>2, <3>1
    <2>. QED  BY <1>14, <2>1, <2>2, SenderSame DEF SenderStep
  <1>15. \A m \in ToSet(out) : m.type \notin {"REPORT", "CANCEL_BY_RECEIVER"}
    BY <1>5, <1>9, <1>11
  <1>. QED  BY <1>8, <1>13, <1>14, <1>15, OwnMove

(* A report for an active session completes it, or makes it wait, give up or *)
(* retransmit.                                                               *)
LEMMA ReportKeeps ==
  ASSUME LinkInv, NEW e \in Engine, receive_report_segment(e), cancels' = cancels
  PROVE  LinkInv'
  <1>1. BaseInv /\ TimerInv /\ SessionInv /\ cancels' \in Nat
    BY DEF LinkInv, BaseInv
  <1>2. net[e] # <<>>
    BY DEF receive_report_segment, Arrives
  <1>3. PICK m, k, s : m = Head(net[e]) /\ k = <<e, m.key[2]>> /\ s = sessions_[e][k]
    OBVIOUS
  <1>4. PICK ack : ack = <<ReportAck(m.key, m.report)>>
    OBVIOUS
  <1>5. PICK ts : ts = CancelTimer(timers[e], Event("CHECKPOINT", k, m.checkpoint))
    OBVIOUS
  <1>6. PICK gaps : gaps = MaximalRanges((0 .. m.upper - 1) \ m.claims)
    OBVIOUS
  <1>7. PICK count, serial : count = RetryCount(s) /\ serial = s.checkpoint_serial_counter + 1
    OBVIOUS
  <1>8. PICK rest : rest = Tail(net[e])
    OBVIOUS
  <1>9. /\ Known(e, k) /\ m.type = "REPORT"
        /\ UNCHANGED <<session_counter_, firing, delivered>>
        /\ \/ /\ Covers(m.claims, s.total_data_length)
              /\ Proceed(e, Erased(e, k), ts, rest, ack)
              /\ Outcome(e, k, "complete")
           \/ /\ Proceed(e, sessions_[e], ts, rest, ack)
              /\ UNCHANGED given
           \/ GiveUp(e, k, ts, rest, ack)
           \/ /\ count <= max_retransmissions /\ gaps # <<>>
              /\ Proceed(e, With(e, k, [s EXCEPT !.retransmission_count = count,
                                                 !.checkpoint_serial_counter = serial]),
                         ts, rest, ack \o retransmit_gaps(k, s, gaps, serial))
              /\ UNCHANGED given
    BY <1>3, <1>4, <1>5, <1>6, <1>7, <1>8 DEF receive_report_segment, Arrives
  <1>10. /\ m.key \in Issued(e) /\ Red(m.key) /\ m.key = k
         /\ m.upper \in 0 .. Len(Data(k)) /\ m.claims \subseteq 0 .. Len(Data(k)) - 1
         /\ cancels = 0 => Safe(e, k, m.claims) /\ Safe(e, k, {}) /\ Told(m)
    BY <1>2, <1>3, <1>9, ReportArrives
  <1>11. OwnOK(k, s) /\ Data(k) \in Seq(Byte) /\ Len(Data(k)) \in Nat /\ k \in Issued(e)
    BY <1>1, <1>3, <1>9, <1>10, EndsOfSession, BlockFacts DEF Known
  <1>12. /\ s.client_data = Data(k) /\ s.total_data_length = Len(Data(k))
         /\ BlockOf(k).outcome = "open"
    BY <1>11 DEF OwnOK
  <1>13. ts \in Seq(ToSet(ts)) /\ ToSet(ts) \subseteq ToSet(timers[e])
    <2>1. timers[e] \in Seq(ToSet(timers[e]))
      BY <1>1 DEF BaseInv
    <2>. QED  BY <1>5, <2>1, CancelTimerKeeps
  <1>14. PICK a : a = ReportAck(k, m.report)
    OBVIOUS
  <1>15. ack = <<a>> /\ ack \in Seq(ToSet(ack)) /\ ToSet(ack) = {a}
    BY <1>4, <1>10, <1>14, OneMember
  <1>16. CASE /\ Covers(m.claims, s.total_data_length)
              /\ Proceed(e, Erased(e, k), ts, rest, ack)
              /\ Outcome(e, k, "complete")
    <2>1. PICK ss : ss = Erased(e, k)
      OBVIOUS
    <2>2. Turn(e, ss, rest, ack) /\ TimerTurn(e, ack)
      BY <1>1, <1>2, <1>8, <1>9, <1>13, <1>15, <1>16, <2>1, ProceedTurn
    <2>3. /\ GivenStep(e) /\ SessionsOK(e, ss) /\ CountStep /\ PeerSame(e, ss)
          /\ \A i \in 1 .. Len(given'[e]) :
               i \in 1 .. Len(given[e]) /\ (i # k[2] => given'[e][i] = given[e][i])
      <3>1. sessions_'[e] = ss
        BY <2>2 DEF Turn
      <3>. QED  BY <1>1, <1>9, <1>11, <1>16, <2>1, <3>1, OwnEnds
    <2>4. SegmentOK(Peer(e), a)' /\ a.type = "REPORT_ACK" /\ a.key = k
      BY <1>10, <1>11, <1>14, <2>3, AckSent
    <2>5. SentOK(e, ack)
      BY <1>15, <2>4, SentByMembers DEF DataTypes, RedTypes, GreenTypes
    <2>6. Step(e, ss, rest, ack)
      BY <2>2, <2>3, <2>5 DEF Step
    <2>7. ASSUME cancels = 0 PROVE SenderStep(e, ack)
      <3>1. 0 .. Len(Data(k)) - 1 \subseteq m.claims
        BY <1>10, <1>11, <1>12, <1>16, CoversAll
      <3>2. Safe(e, k, 0 .. Len(Data(k)) - 1)
        BY <1>10, <2>7, <3>1 DEF Safe, Holds
      <3>3. /\ k = <<e, k[2]>> /\ given[e][k[2]].red /\ given[e][k[2]].data = Data(k)
        BY <1>10, <1>11, IssuedFacts DEF Data, Red
      <3>4. ASSUME NEW i \in 1 .. Len(given'[e]), given'[e][i].outcome = "complete"
            PROVE  /\ i \in 1 .. Len(given[e]) /\ given[e][i].red
                   /\ \/ given[e][i].outcome = "complete"
                      \/ Safe(e, <<e, i>>, 0 .. Len(given[e][i].data) - 1)
        <4>1. CASE i = k[2]
          BY <2>3, <3>2, <3>3, <4>1
        <4>2. CASE i # k[2]
          BY <2>3, <2>7, <3>4, <4>2, CompleteRed
        <4>. QED  BY <4>1, <4>2
      <3>5. Behind(a) = {}
        BY <2>4 DEF Behind
      <3>. QED  BY <1>10, <1>11, <1>15, <2>4, <2>7, <3>4, <3>5 DEF SenderStep
    <2>8. \A x \in ToSet(ack) : x.type \notin {"REPORT", "CANCEL_BY_RECEIVER"}
      BY <1>15, <2>4
    <2>. QED  BY <1>9, <2>3, <2>6, <2>7, <2>8, OwnMove
  <1>17. CASE Proceed(e, sessions_[e], ts, rest, ack) /\ UNCHANGED given
    <2>1. PICK ss : ss = sessions_[e]
      OBVIOUS
    <2>2. Turn(e, ss, rest, ack) /\ TimerTurn(e, ack)
      BY <1>1, <1>2, <1>8, <1>9, <1>13, <1>15, <1>17, <2>1, ProceedTurn
    <2>. QED  BY <1>9, <1>10, <1>14, <1>15, <1>17, <2>1, <2>2, AnswerMove
  <1>18. CASE GiveUp(e, k, ts, rest, ack)
    <2>1. (cancels = 0 => Safe(e, k, {})) /\ \E n : ack = <<ReportAck(k, n)>>
      BY <1>10, <1>14, <1>15
    <2>. QED  BY <1>2, <1>8, <1>9, <1>11, <1>13, <1>18, <2>1, GiveUpMove
  <1>19. CASE /\ count <= max_retransmissions /\ gaps # <<>>
              /\ Proceed(e, With(e, k, [s EXCEPT !.retransmission_count = count,
                                                 !.checkpoint_serial_counter = serial]),
                         ts, rest, ack \o retransmit_gaps(k, s, gaps, serial))
              /\ UNCHANGED given
    <2>1. PICK t : t = [s EXCEPT !.retransmission_count = count,
                                 !.checkpoint_serial_counter = s.checkpoint_serial_counter + 1]
      OBVIOUS
    <2>2. PICK ss, again : ss = With(e, k, t) /\ again = retransmit_gaps(k, s, gaps, serial)
      OBVIOUS
    <2>3. /\ again \in Seq(ToSet(again))
          /\ \A x \in ToSet(again) :
               /\ Piece(x, k, Data(k)) /\ x.type \in {"RED_DATA", "RED_DATA_CP"}
               /\ x.type = "RED_DATA_CP" => x.offset + Len(x.data) = End(gaps[Len(gaps)])
      <3>1. PICK u \in 0 .. Len(Data(k)) : u = m.upper
        BY <1>10
      <3>2. (0 .. u - 1) \ m.claims \subseteq 0 .. u - 1 /\ u \in Nat
        BY <1>11
      <3>3. gaps \in Seq(RangesBelow(u))
        BY <1>6, <3>1, <3>2, RangesWithin
      <3>4. gaps # <<>> /\ s.client_data \in Seq(Byte) /\ u \in 0 .. Len(s.client_data)
        BY <1>11, <1>12, <1>19
      <3>5. /\ again \in Seq(ToSet(again))
            /\ \A x \in ToSet(again) :
                 Piece(x, k, s.client_data) /\ x.type \in {"RED_DATA", "RED_DATA_CP"}
            /\ \A x \in ToSet(again) : x.type = "RED_DATA_CP" =>
                 x.offset + Len(x.data) = End(gaps[Len(gaps)])
        BY <2>2, <3>3, <3>4, retransmit_gapsIs
      <3>. QED  BY <1>12, <3>5
    <2>4. PICK out : out = ack \o again
      OBVIOUS
    <2>5. out \in Seq(ToSet(out)) /\ ToSet(out) = {a} \cup ToSet(again)
      BY <1>15, <2>3, <2>4, ConcatMembers
    <2>6. Proceed(e, ss, ts, rest, out) /\ given' = given /\ count <= max_retransmissions
      BY <1>7, <1>19, <2>1, <2>2, <2>4
    <2>7. Turn(e, ss, rest, out) /\ TimerTurn(e, out)
      BY <1>1, <1>2, <1>8, <1>9, <1>13, <2>5, <2>6, ProceedTurn
    <2>8. GivenStep(e) /\ SessionsOK(e, ss) /\ CountStep /\ PeerSame(e, ss)
      <3>1. sessions_'[e] = ss
        BY <2>7 DEF Turn
      <3>2. /\ session_counter_' = session_counter_ /\ delivered' = delivered /\ given' = given
            /\ cancels' = cancels /\ Known(e, k) /\ k \in Issued(e)
            /\ s = sessions_[e][k] /\ count = RetryCount(s) /\ count <= max_retransmissions
            /\ ss = With(e, k, t)
        BY <1>3, <1>7, <1>9, <1>11, <2>2, <2>6
      <3>. QED  BY <2>1, <3>1, <3>2, OwnRetries
    <2>9. SegmentOK(Peer(e), a)' /\ a.type = "REPORT_ACK" /\ a.key = k
      BY <1>10, <1>11, <1>14, <2>8, AckSent
    <2>10. ASSUME NEW x \in ToSet(again)
           PROVE  SegmentOK(Peer(e), x)' /\ x.key = k /\ x.type \in {"RED_DATA", "RED_DATA_CP"}
      <3>1. k \in Issued(e)' /\ Data(k)' = Data(k) /\ Red(k)' = Red(k)
        BY <1>1, <1>11, <2>8, BlocksKept
      <3>2. PICK data, red : data = Data(k)' /\ red = Red(k)'
        OBVIOUS
      <3>3. Piece(x, k, data) /\ x.type \in {"RED_DATA", "RED_DATA_CP"} /\ red
        BY <1>10, <2>3, <3>1, <3>2
      <3>4. x.type \in DataTypes /\ x.type \notin EobTypes /\ x.type \notin GreenTypes
        BY <3>3 DEF DataTypes, RedTypes, GreenTypes, EobTypes
      <3>5. SegmentOK(Peer(e), x)'
        BY <3>1, <3>2, <3>3, <3>4, PieceOK
      <3>. QED  BY <3>3, <3>5 DEF Piece
    <2>11. SentOK(e, out)
      BY <1>12, <2>5, <2>9, <2>10, SentByMembers DEF DataTypes, RedTypes, GreenTypes
    <2>12. Step(e, ss, rest, out)
      BY <2>7, <2>8, <2>11 DEF Step
    <2>13. ASSUME cancels = 0 PROVE SenderStep(e, out)
      <3>1. \A x \in ToSet(out) : x.key = k
        BY <2>5, <2>9, <2>10
      <3>2. k \in Issued(e) /\ Red(k) /\ Safe(e, k, {}) /\ Safe(e, k, m.claims) /\ Told(m)
        BY <1>10, <1>11, <2>13
      <3>3. ASSUME NEW x \in ToSet(out) PROVE Safe(e, k, Behind(x))
        <4>1. CASE x.type # "RED_DATA_CP"
          BY <3>2, <4>1 DEF Behind
        <4>2. CASE x.type = "RED_DATA_CP"
          <5>1. x \in ToSet(again)
            BY <2>5, <2>9, <4>2
          <5>2. PICK g : g = End(gaps[Len(gaps)])
            OBVIOUS
          <5>3. Behind(x) = g .. Len(Data(k)) - 1
            BY <2>3, <3>1, <4>2, <5>1, <5>2 DEF Behind
          <5>4. CASE Intact(k)
            BY <5>4 DEF Safe
          <5>5. CASE ~Intact(k)
            <6>1. g .. Len(Data(k)) - 1 \subseteq m.claims
              BY <1>6, <1>10, <1>11, <1>19, <3>2, <5>2, <5>5, BehindGaps DEF Told
            <6>. QED  BY <3>2, <5>3, <6>1 DEF Safe, Holds
          <5>. QED  BY <5>4, <5>5
        <4>. QED  BY <4>1, <4>2
      <3>4. \A x \in ToSet(out) : x.key \in Issued(e) /\ Red(x.key) /\ Safe(e, x.key, Behind(x))
        BY <3>1, <3>2, <3>3
      <3>. QED  BY <2>6, <2>13, <3>4, SenderSame DEF SenderStep
    <2>14. \A x \in ToSet(out) : x.type \notin {"REPORT", "CANCEL_BY_RECEIVER"}
      BY <2>5, <2>9, <2>10
    <2>. QED  BY <1>9, <2>8, <2>12, <2>13, <2>14, OwnMove
  <1>. QED  BY <1>9, <1>16, <1>17, <1>18, <1>19

-----------------------------------------------------------------------------
(* Sessions for the peer's blocks.                                           *)

(* A step of the receiver that leaves the originator's sessions alone.       *)
LEMMA PeerMove ==
  ASSUME LinkInv, NEW e \in Engine, NEW ss, NEW rest, NEW out, Turn(e, ss, rest, out),
         TimerTurn(e, out), SessionsOK(e, ss), SentOK(e, out), DeliveryTurn(e),
         session_counter_' = session_counter_, given' = given, cancels' = cancels,
         delivered' \in [Engine -> Seq([key : Engine \X Nat, data : Seq(Byte \cup {Zero})])],
         \A m \in ToSet(out) : m.type \notin {"RED_DATA_CP", "REPORT_ACK"},
         cancels = 0 => ReceiverStep(e, ss, out)
  PROVE  LinkInv'
  <1>1. BaseInv
    BY DEF LinkInv
  <1>2. GivenStep(e) /\ \A x \in Engine : Len(given'[x]) = Len(given[x])
    BY <1>1, GivenSame
  <1>3. CountStep
    BY <1>1, <1>2, CountSame DEF BaseInv
  <1>4. Step(e, ss, rest, out)
    BY <1>2, <1>3 DEF Step
  <1>5. ASSUME cancels = 0 PROVE SenderStep(e, out)
    BY <1>5, SenderSame DEF SenderStep
  <1>6. Move(e, ss, rest, out)
    BY <1>4, <1>5 DEF Move
  <1>. QED  BY <1>6, MoveKeeps

(* The session for k goes on as r, and nothing but reports on it is sent.    *)
LEMMA PeerGoesOn ==
  ASSUME LinkInv, NEW e \in Engine, NEW k \in Issued(Peer(e)), NEW r, PeerOK(k, r),
         Known(e, k) \/ (~PoolFull(e) /\ \E m \in ToSet(net[e]) : m.type \in DataTypes /\ m.key = k),
         Known(e, k) => /\ sessions_[e][k].tracker \subseteq r.tracker
                        /\ r.total_data_length \in {sessions_[e][k].total_data_length, Len(Data(k))},
         NEW ss, ss = With(e, k, r), NEW rest, NEW out, Turn(e, ss, rest, out), TimerTurn(e, out),
         UNCHANGED <<session_counter_, given, delivered, cancels>>,
         \A m \in ToSet(out) :
           /\ m.type = "REPORT" /\ m.key = k /\ Red(k) /\ m.upper \in 0 .. Len(Data(k))
           /\ m.claims = r.tracker
           /\ cancels = 0 => r.total_data_length = Len(Data(k)) \/ Intact(k)
           /\ cancels = 0 => m.upper .. Len(Data(k)) - 1 \subseteq r.tracker \/ Intact(k)
  PROVE  LinkInv'
  <1> DEFINE p == Peer(e)
  <1>1. BaseInv /\ p \in Engine /\ Peer(p) = e
    BY PeerFacts DEF LinkInv
  <1>2. GivenStep(e)
    BY <1>1, GivenSame
  <1>3. /\ DOMAIN ss = DOMAIN sessions_[e] \cup {k} /\ ss[k] = r
        /\ \A j \in DOMAIN sessions_[e] : j # k => ss[j] = sessions_[e][j]
    BY DEF With
  <1>4. sessions_'[e] = ss /\ out \in Seq(ToSet(out))
    BY DEF Turn
  <1>5. k \in Issued(p)' /\ Data(k)' = Data(k) /\ Red(k)' = Red(k)
    BY <1>1, <1>2, BlocksKept
  <1>6. SessionsOK(e, ss)
    <2>1. SessionOK(e, k, r) /\ k \in DOMAIN sessions_'[e]
      BY <1>3, <1>4 DEF SessionOK
    <2>2. SessionOK(e, k, r)'
      BY <1>1, <1>2, <2>1, SessionKept
    <2>. QED  BY <1>2, <1>4, <2>2, SessionsWith DEF Known
  <1>7. r.tracker \subseteq 0 .. Len(Data(k)) - 1
    <2>1. /\ r.tracker \subseteq 0 .. Len(r.client_data) - 1 /\ Len(r.client_data) <= Len(Data(k))
          /\ r.client_data \in Seq(Byte \cup {Zero})
      BY DEF PeerOK, Session
    <2>2. Len(Data(k)) \in Nat
      BY <1>1, BlockFacts
    <2>3. PICK x \in Nat, y \in Nat : x = Len(r.client_data) /\ y = Len(Data(k))
      BY <2>1, <2>2
    <2>4. x <= y /\ r.tracker \subseteq 0 .. x - 1
      BY <2>1, <2>3
    <2>5. 0 .. x - 1 \subseteq 0 .. y - 1
      BY <2>4
    <2>. QED  BY <2>3, <2>4, <2>5
  <1>8. SentOK(e, out)
    <2>1. ASSUME NEW m \in ToSet(out)
          PROVE  SegmentOK(p, m)' /\ m.type # "CANCEL_BY_SENDER" /\ m.type \notin DataTypes
      BY <1>5, <1>7 DEF SegmentOK, DataTypes, RedTypes, GreenTypes
    <2>. QED  BY <1>4, <2>1, SentByMembers
  <1>9. DeliveryTurn(e) /\ delivered' \in [Engine -> Seq([key : Engine \X Nat, data : Seq(Byte \cup {Zero})])]
    BY <1>1 DEF DeliveryTurn, BaseInv
  <1>10. ASSUME cancels = 0 PROVE ReceiverStep(e, ss, out)
    <2>1. GoesOn(e, ss)
      <3>1. ASSUME NEW j \in Issued(p), Known(e, j)
            PROVE  /\ j \in DOMAIN ss /\ sessions_[e][j].tracker \subseteq ss[j].tracker
                   /\ ss[j].total_data_length \in {sessions_[e][j].total_data_length, Len(Data(j))}
        <4>1. CASE j = k
          BY <1>3, <3>1, <4>1
        <4>2. CASE j # k
          BY <1>3, <3>1, <4>2 DEF Known
        <4>. QED  BY <4>1, <4>2
      <3>. QED  BY <3>1 DEF GoesOn
    <2>2. \A c : \A j \in Issued(p) : (Red(j) /\ Holds(p, j, c)) => Safe(p, j, c)'
      BY <1>1, <1>2, <2>1, GoesOnSafe
    <2>3. \A j \in Issued(p) : (j \in DOMAIN ss /\ ~Known(e, j)) =>
            \E m \in ToSet(net[e]) : m.type \in DataTypes /\ m.key = j
      BY <1>3 DEF Known
    <2>4. ASSUME NEW m \in ToSet(out)
          PROVE  Safe(p, m.key, m.claims)' /\ m.type # "CANCEL_BY_RECEIVER" /\ Told(m)'
      <3>1. m.type = "REPORT" /\ m.key = k /\ m.claims = r.tracker
        OBVIOUS
      <3>2. ASSUME r.total_data_length = Len(Data(k)) PROVE Safe(p, m.key, m.claims)'
        <4>1. k \in DOMAIN sessions_'[e] /\ sessions_'[e][k] = r
          BY <1>3, <1>4
        <4>2. Holds(p, k, r.tracker)'
          BY <1>1, <1>5, <3>2, <4>1 DEF Holds, Known
        <4>. QED  BY <3>1, <4>2 DEF Safe
      <3>3. ASSUME Intact(k) PROVE Safe(p, m.key, m.claims)'
        BY <1>1, <1>2, <1>9, <3>1, <3>3, IntactKept DEF Safe
      <3>4. Told(m)'
        <4>1. Intact(k) => Intact(k)'
          BY <1>1, <1>2, <1>9, IntactKept
        <4>2. m.upper .. Len(Data(k)) - 1 \subseteq m.claims \/ Intact(k)
          BY <1>10, <3>1
        <4>. QED  BY <1>5, <3>1, <4>1, <4>2 DEF Told
      <3>. QED  BY <1>10, <3>1, <3>2, <3>3, <3>4
    <2>. QED  BY <2>2, <2>3, <2>4 DEF ReceiverStep
  <1>11. \A m \in ToSet(out) : m.type \notin {"RED_DATA_CP", "REPORT_ACK"}
    OBVIOUS
  <1>. QED  BY <1>6, <1>8, <1>9, <1>10, <1>11, PeerMove

(* The count of a session's reports is no part of what it holds.             *)
LEMMA ReportCounted ==
  ASSUME NEW k, NEW s, PeerOK(k, s), NEW r, r = [s EXCEPT !.report_serial_counter = @ + 1]
  PROVE  PeerOK(k, r) /\ r.tracker = s.tracker /\ r.total_data_length = s.total_data_length
  <1>1. s \in Session
    BY DEF PeerOK
  <1>2. PICK n \in Nat : n = s.report_serial_counter + 1
    BY <1>1 DEF Session
  <1>3. r = [s EXCEPT !.report_serial_counter = n]
    BY <1>2
  <1>4. /\ r \in Session /\ r.role = s.role /\ r.client_data = s.client_data /\ r.tracker = s.tracker
        /\ r.total_data_length = s.total_data_length
        /\ r.checkpoint_serial_counter = s.checkpoint_serial_counter
    BY <1>1, <1>3 DEF Session
  <1>. QED  BY <1>4 DEF PeerOK

(* receive_data_segment keeps the invariant.                                 *)
LEMMA DataKeeps ==
  ASSUME LinkInv, NEW e \in Engine, receive_data_segment(e), cancels' = cancels
  PROVE  LinkInv'
  <1> DEFINE p == Peer(e)
  <1>1. BaseInv /\ TimerInv /\ SessionInv /\ p \in Engine /\ Peer(p) = e
    BY PeerFacts DEF LinkInv
  <1>2. net[e] # <<>>
    BY DEF receive_data_segment, Arrives
  <1>3. PICK m, s : m = Head(net[e]) /\ s = Stored(e, m)
    OBVIOUS
  <1>4. /\ m.type \in RedTypes \cup {"GREEN_DATA"} /\ (Known(e, m.key) \/ ~PoolFull(e))
        /\ UNCHANGED <<session_counter_, firing, given, delivered>>
    BY <1>3 DEF receive_data_segment, Arrives
  <1>5. m \in ToSet(net[e]) /\ SegmentOK(e, m)
    BY <1>2, <1>3, HeadArrives
  <1>6. PICK k : k = m.key
    OBVIOUS
  <1>7. m.type \in DataTypes
    BY <1>4 DEF DataTypes, GreenTypes
  <1>8. /\ k \in Issued(p) /\ PeerOK(k, s)
        /\ m.type \in EobTypes => s.total_data_length = Len(Data(k))
        /\ Known(e, k) =>
             /\ sessions_[e][k].tracker \subseteq s.tracker
             /\ m.type \notin EobTypes => s.total_data_length = sessions_[e][k].total_data_length
    BY <1>1, <1>3, <1>5, <1>6, <1>7, StoredIs
  <1>9. /\ Known(e, k) \/ (~PoolFull(e) /\ \E x \in ToSet(net[e]) : x.type \in DataTypes /\ x.key = k)
        /\ Known(e, k) => /\ sessions_[e][k].tracker \subseteq s.tracker
                          /\ s.total_data_length \in {sessions_[e][k].total_data_length, Len(Data(k))}
    BY <1>4, <1>5, <1>6, <1>7, <1>8
  <1>10. PICK ts, rest : ts = timers[e] /\ rest = Tail(net[e])
    OBVIOUS
  <1>11. ts \in Seq(ToSet(ts)) /\ ToSet(ts) \subseteq ToSet(timers[e])
    BY <1>1, <1>10 DEF BaseInv
  <1>12. CASE m.type \notin CheckpointTypes
    <2>1. PICK ss, out : ss = With(e, k, s) /\ out = <<>>
      OBVIOUS
    <2>2. Proceed(e, ss, ts, rest, out)
      BY <1>3, <1>6, <1>10, <1>12, <2>1 DEF receive_data_segment
    <2>3. out \in Seq(ToSet(out)) /\ ToSet(out) = {}
      BY <2>1, EmptyList
    <2>4. Turn(e, ss, rest, out) /\ TimerTurn(e, out)
      BY <1>1, <1>2, <1>4, <1>10, <1>11, <2>2, <2>3, ProceedTurn
    <2>. QED  BY <1>4, <1>8, <1>9, <2>1, <2>3, <2>4, PeerGoesOn
  <1>13. CASE m.type \in CheckpointTypes
    <2>1. PICK r, upper : /\ r = [s EXCEPT !.report_serial_counter = @ + 1]
                          /\ upper = m.offset + Len(m.data)
      OBVIOUS
    <2>2. PICK report : report = generate_report(k, s, m.checkpoint, upper)
      OBVIOUS
    <2>3. PICK ss, out : ss = With(e, k, r) /\ out = <<report>>
      OBVIOUS
    <2>4. Proceed(e, ss, ts, rest, out)
      BY <1>3, <1>6, <1>10, <1>13, <2>1, <2>2, <2>3 DEF receive_data_segment
    <2>5. out \in Seq(ToSet(out)) /\ ToSet(out) = {report}
      BY <2>3, OneMember
    <2>6. Turn(e, ss, rest, out) /\ TimerTurn(e, out)
      BY <1>1, <1>2, <1>4, <1>10, <1>11, <2>4, <2>5, ProceedTurn
    <2>7. PeerOK(k, r) /\ r.tracker = s.tracker /\ r.total_data_length = s.total_data_length
      BY <1>8, <2>1, ReportCounted
    <2>8. Placed(m)
      BY <1>5, <1>7 DEF SegmentOK, DataTypes, RedTypes, GreenTypes, CancelAckTypes
    <2>9. Red(k) /\ upper \in 0 .. Len(Data(k))
      <3>1. m.type \in RedTypes
        BY <1>13 DEF CheckpointTypes, RedTypes
      <3>2. Len(Data(k)) \in Nat
        BY <1>1, <1>8, BlockFacts
      <3>3. /\ m.offset \in Nat /\ Len(m.data) \in Nat /\ m.offset + Len(m.data) <= Len(Data(k))
            /\ Red(k)
        BY <1>6, <2>8, <3>1 DEF Placed
      <3>. QED  BY <2>1, <3>2, <3>3
    <2>10. ASSUME cancels = 0
           PROVE  \/ Intact(k)
                  \/ /\ r.total_data_length = Len(Data(k))
                     /\ upper .. Len(Data(k)) - 1 \subseteq r.tracker
      <3>1. CASE m.type \in EobTypes
        <4>1. upper = Len(Data(k)) /\ Len(Data(k)) \in Nat
          BY <1>1, <1>6, <1>8, <2>1, <2>8, <3>1, BlockFacts DEF Placed
        <4>. QED  BY <1>8, <2>7, <3>1, <4>1
      <3>2. CASE m.type \notin EobTypes
        <4>1. m.type = "RED_DATA_CP"
          BY <1>13, <3>2 DEF CheckpointTypes, EobTypes
        <4>2. HistoryOK(p, k)
          BY <1>1, <1>8, <2>10 DEF LinkInv, HistoryInv
        <4>3. Safe(p, k, Behind(m))
          BY <1>1, <1>5, <1>6, <4>1, <4>2 DEF HistoryOK
        <4>4. ~Cut(p, k)
          BY <1>1, <1>5, <1>6, <1>7 DEF Cut
        <4>5. Holds(p, k, Behind(m)) =>
                r.total_data_length = Len(Data(k)) /\ Behind(m) \subseteq r.tracker
          BY <1>1, <1>8, <2>7, <3>2 DEF Holds
        <4>6. Behind(m) = upper .. Len(Data(k)) - 1
          BY <1>6, <2>1, <4>1 DEF Behind
        <4>. QED  BY <4>3, <4>4, <4>5, <4>6 DEF Safe
      <3>. QED  BY <3>1, <3>2
    <2>11. /\ report.type = "REPORT" /\ report.key = k /\ report.upper = upper
           /\ report.claims = s.tracker
      BY <2>2 DEF generate_report, ReportSegment
    <2>12. \A x \in ToSet(out) :
             /\ x.type = "REPORT" /\ x.key = k /\ Red(k) /\ x.upper \in 0 .. Len(Data(k))
             /\ x.claims = r.tracker
             /\ cancels = 0 => r.total_data_length = Len(Data(k)) \/ Intact(k)
             /\ cancels = 0 => x.upper .. Len(Data(k)) - 1 \subseteq r.tracker \/ Intact(k)
      BY <2>5, <2>7, <2>9, <2>10, <2>11
    <2>13. Known(e, k) => /\ sessions_[e][k].tracker \subseteq r.tracker
                          /\ r.total_data_length \in {sessions_[e][k].total_data_length, Len(Data(k))}
      BY <1>9, <2>7
    <2>. QED  BY <1>4, <1>8, <1>9, <2>3, <2>6, <2>7, <2>12, <2>13, PeerGoesOn
  <1>. QED  BY <1>12, <1>13

(* The three callbacks of the timers keep the invariant.                     *)
LEMMA ExpiryKeeps ==
  ASSUME LinkInv, NEW e \in Engine, HandleExpiry(e)
  PROVE  LinkInv'
  <1> DEFINE p == Peer(e)
  <1>1. BaseInv /\ TimerInv /\ SessionInv /\ p \in Engine /\ Peer(p) = e
    BY PeerFacts DEF LinkInv
  <1>2. PICK ev : ev = firing[e][1]
    OBVIOUS
  <1>3. PICK k : k = ev.key
    OBVIOUS
  <1>4. PICK s : s = sessions_[e][k]
    OBVIOUS
  <1>5. PICK count, serial : count = RetryCount(s) /\ serial = s.checkpoint_serial_counter + 1
    OBVIOUS
  <1>6. PICK ts, rest : ts = timers[e] /\ rest = net[e]
    OBVIOUS
  <1>7. /\ firing[e] # <<>> /\ firing' = [firing EXCEPT ![e] = <<>>]
        /\ UNCHANGED <<session_counter_, delivered, cancels>>
        /\ \/ UNCHANGED <<sessions_, timers, net, given>>
           \/ Known(e, k) /\ ev.type = "CHECKPOINT" /\ GiveUp(e, k, ts, rest, <<>>)
           \/ /\ Known(e, k) /\ ev.type = "CHECKPOINT" /\ count <= max_retransmissions
              /\ Proceed(e, With(e, k, [s EXCEPT !.retransmission_count = count,
                                                 !.checkpoint_serial_counter = serial]),
                         ts, rest, segment_data(k, s, serial))
              /\ UNCHANGED given
           \/ /\ Known(e, k) /\ ev.type = "REPORT_SEGMENT" /\ s.total_data_length > 0
              /\ Proceed(e, With(e, k, [s EXCEPT !.report_serial_counter = @ + 1]), ts, rest,
                         <<generate_report(k, s, ev.serial, s.total_data_length)>>)
              /\ UNCHANGED given
    BY <1>2, <1>3, <1>4, <1>5, <1>6 DEF HandleExpiry, handle_timer_expiry
  <1>8. EventOK(e, ev)
    <2>1. firing[e] \in Seq(ToSet(firing[e]))
      BY <1>1 DEF BaseInv
    <2>2. ev \in ToSet(firing[e])
      BY <1>2, <1>7, <2>1, TailIs
    <2>. QED  BY <1>1, <2>2 DEF TimerInv
  <1>9. ts \in Seq(ToSet(ts)) /\ ToSet(ts) \subseteq ToSet(timers[e])
    BY <1>1, <1>6 DEF BaseInv
  <1>10. CASE UNCHANGED <<sessions_, timers, net, given>>
    <2>1. PICK out : out = <<>>
      OBVIOUS
    <2>2. TimerTurn(e, out)
      BY <1>1, <1>7, <1>10, TimerSame
    <2>. QED  BY <1>7, <1>10, <2>1, <2>2, RestKeeps
  <1>11. CASE Known(e, k) /\ ev.type = "CHECKPOINT" /\ GiveUp(e, k, ts, rest, <<>>)
    <2>1. k \in Issued(e)
      BY <1>3, <1>8, <1>11 DEF EventOK
    <2>2. PICK ack : ack = <<>>
      OBVIOUS
    <2>3. GiveUp(e, k, ts, rest, ack)
      BY <1>11, <2>2
    <2>. QED  BY <1>6, <1>7, <1>9, <1>11, <2>1, <2>2, <2>3, GiveUpMove
  <1>12. CASE /\ Known(e, k) /\ ev.type = "CHECKPOINT" /\ count <= max_retransmissions
              /\ Proceed(e, With(e, k, [s EXCEPT !.retransmission_count = count,
                                                 !.checkpoint_serial_counter = serial]),
                         ts, rest, segment_data(k, s, serial))
              /\ UNCHANGED given
    <2>1. k \in Issued(e)
      BY <1>3, <1>8, <1>12 DEF EventOK
    <2>2. OwnOK(k, s) /\ Data(k) \in Seq(Byte) /\ Len(Data(k)) \in Nat
      BY <1>1, <1>4, <1>12, <2>1, EndsOfSession, BlockFacts DEF Known
    <2>3. s.client_data = Data(k) /\ BlockOf(k).outcome = "open" /\ s.is_red = TRUE /\ Red(k)
      BY <2>2 DEF OwnOK, Session
    <2>4. PICK t : t = [s EXCEPT !.retransmission_count = count,
                                 !.checkpoint_serial_counter = s.checkpoint_serial_counter + 1]
      OBVIOUS
    <2>5. PICK ss, out : ss = With(e, k, t) /\ out = segment_data(k, s, serial)
      OBVIOUS
    <2>6. /\ out \in Seq(ToSet(out))
          /\ \A x \in ToSet(out) :
               /\ Piece(x, k, Data(k)) /\ x.type \in {"RED_DATA", "RED_DATA_CP_EORP_EOB"}
               /\ x.type \in EobTypes => x.offset + Len(x.data) = Len(Data(k))
      BY <2>2, <2>3, <2>5, segment_dataIs
    <2>7. Proceed(e, ss, ts, rest, out) /\ given' = given
      BY <1>5, <1>12, <2>4, <2>5
    <2>8. Turn(e, ss, rest, out) /\ TimerTurn(e, out)
      BY <1>1, <1>6, <1>7, <1>9, <2>6, <2>7, ProceedTurn
    <2>9. GivenStep(e) /\ SessionsOK(e, ss) /\ CountStep /\ PeerSame(e, ss)
      <3>1. sessions_'[e] = ss
        BY <2>8 DEF Turn
      <3>2. /\ session_counter_' = session_counter_ /\ delivered' = delivered /\ given' = given
            /\ cancels' = cancels /\ Known(e, k) /\ k \in Issued(e)
            /\ s = sessions_[e][k] /\ count = RetryCount(s) /\ count <= max_retransmissions
            /\ ss = With(e, k, t)
        BY <1>4, <1>5, <1>7, <1>12, <2>1, <2>5, <2>7
      <3>. QED  BY <2>4, <3>1, <3>2, OwnRetries
    <2>10. ASSUME NEW x \in ToSet(out)
           PROVE  SegmentOK(p, x)' /\ x.key = k /\ x.type \in {"RED_DATA", "RED_DATA_CP_EORP_EOB"}
      <3>1. k \in Issued(e)' /\ Data(k)' = Data(k) /\ Red(k)' = Red(k)
        BY <1>1, <2>1, <2>9, BlocksKept
      <3>2. PICK data, red : data = Data(k)' /\ red = Red(k)'
        OBVIOUS
      <3>3. /\ Piece(x, k, data) /\ x.type \in {"RED_DATA", "RED_DATA_CP_EORP_EOB"} /\ red
            /\ x.type \in EobTypes => x.offset + Len(x.data) = Len(data)
        BY <2>3, <2>6, <3>1, <3>2
      <3>4. x.type \in DataTypes /\ x.type \notin GreenTypes
        BY <3>3 DEF DataTypes, RedTypes, GreenTypes
      <3>5. SegmentOK(p, x)'
        BY <3>1, <3>2, <3>3, <3>4, PieceOK
      <3>. QED  BY <3>3, <3>5 DEF Piece
    <2>11. SentOK(e, out)
      BY <2>3, <2>6, <2>10, SentByMembers
    <2>12. Step(e, ss, rest, out)
      BY <2>8, <2>9, <2>11 DEF Step
    <2>13. ASSUME cancels = 0 PROVE SenderStep(e, out)
      BY <2>7, <2>10, <2>13, SenderSame DEF SenderStep
    <2>14. \A x \in ToSet(out) : x.type \notin {"REPORT", "CANCEL_BY_RECEIVER"}
      BY <2>10
    <2>. QED  BY <1>7, <2>9, <2>12, <2>13, <2>14, OwnMove
  <1>13. CASE /\ Known(e, k) /\ ev.type = "REPORT_SEGMENT" /\ s.total_data_length > 0
              /\ Proceed(e, With(e, k, [s EXCEPT !.report_serial_counter = @ + 1]), ts, rest,
                         <<generate_report(k, s, ev.serial, s.total_data_length)>>)
              /\ UNCHANGED given
    <2>1. k \in Issued(p) /\ Red(k)
      BY <1>3, <1>8, <1>13 DEF EventOK
    <2>2. PeerOK(k, s) /\ Len(Data(k)) \in Nat
      BY <1>1, <1>4, <1>13, <2>1, EndsOfSession, BlockFacts DEF Known
    <2>3. s.total_data_length = Len(Data(k))
      BY <1>13, <2>2 DEF PeerOK
    <2>4. PICK r : r = [s EXCEPT !.report_serial_counter = @ + 1]
      OBVIOUS
    <2>5. PICK report : report = generate_report(k, s, ev.serial, s.total_data_length)
      OBVIOUS
    <2>6. PICK ss, out : ss = With(e, k, r) /\ out = <<report>>
      OBVIOUS
    <2>7. Proceed(e, ss, ts, rest, out)
      BY <1>13, <2>4, <2>5, <2>6
    <2>8. out \in Seq(ToSet(out)) /\ ToSet(out) = {report}
      BY <2>6, OneMember
    <2>9. Turn(e, ss, rest, out) /\ TimerTurn(e, out)
      BY <1>1, <1>6, <1>7, <1>9, <2>7, <2>8, ProceedTurn
    <2>10. PeerOK(k, r) /\ r.tracker = s.tracker /\ r.total_data_length = s.total_data_length
      BY <2>2, <2>4, ReportCounted
    <2>11. /\ report.type = "REPORT" /\ report.key = k /\ report.upper = Len(Data(k))
           /\ report.claims = s.tracker
      BY <2>3, <2>5 DEF generate_report, ReportSegment
    <2>12. \A x \in ToSet(out) :
             /\ x.type = "REPORT" /\ x.key = k /\ Red(k) /\ x.upper \in 0 .. Len(Data(k))
             /\ x.claims = r.tracker
             /\ cancels = 0 => r.total_data_length = Len(Data(k)) \/ Intact(k)
             /\ cancels = 0 => x.upper .. Len(Data(k)) - 1 \subseteq r.tracker \/ Intact(k)
      BY <2>1, <2>2, <2>3, <2>8, <2>10, <2>11
    <2>13. Known(e, k) => /\ sessions_[e][k].tracker \subseteq r.tracker
                          /\ r.total_data_length \in {sessions_[e][k].total_data_length, Len(Data(k))}
      BY <1>4, <2>10
    <2>14. Known(e, k) /\ UNCHANGED <<session_counter_, given, delivered, cancels>>
      BY <1>7, <1>13
    <2>. QED  BY <2>1, <2>6, <2>9, <2>10, <2>12, <2>13, <2>14, PeerGoesOn
  <1>. QED  BY <1>7, <1>10, <1>11, <1>12, <1>13

(* What is delivered of a buffer.                                            *)
LEMMA WholeSubSeq ==
  ASSUME NEW T, NEW s \in Seq(T)
  PROVE  SubSeq(s, 1, Len(s)) = s
  <1>1. PICK n \in Nat : n = Len(s)
    OBVIOUS
  <1>2. PICK r : r = SubSeq(s, 1, n)
    OBVIOUS
  <1>3. \A i \in 1 .. n : s[i] \in T
    BY <1>1
  <1>4. /\ r \in Seq(T) /\ Len(r) = IF 1 <= n THEN n - 1 + 1 ELSE 0
        /\ \A i \in 1 .. n - 1 + 1 : r[i] = s[1 + i - 1]
    BY <1>1, <1>2, <1>3, SubSeqProperties
  <1>5. Len(r) = n
    BY <1>4
  <1>6. \A i \in 1 .. n : r[i] = s[i]
    BY <1>4
  <1>7. r = s
    BY <1>1, <1>4, <1>5, <1>6
  <1>. QED  BY <1>1, <1>2, <1>7

(* A segment of length 0 carries no bytes.                                   *)
LEMMA EmptySubSeq ==
  ASSUME NEW T, NEW s \in Seq(T)
  PROVE  SubSeq(s, 1, 0) = <<>>
  OBVIOUS

(* A receiving session delivers its block and ends.                          *)
LEMMA DeliverMove ==
  ASSUME LinkInv, NEW e \in Engine, NEW k \in Issued(Peer(e)), NEW data \in Seq(Byte \cup {Zero}),
         NEW d, d = [key |-> k, data |-> data], DeliveredOK(e, d), Deliver(e, k, data),
         NEW ss, ss = Erased(e, k), NEW rest, NEW out, out = <<>>, Turn(e, ss, rest, out),
         TimerTurn(e, out), UNCHANGED <<session_counter_, given, cancels>>
  PROVE  LinkInv'
  <1> DEFINE p == Peer(e)
             Arrival == [key : Engine \X Nat, data : Seq(Byte \cup {Zero})]
  <1>1. BaseInv /\ p \in Engine /\ p # e /\ Peer(p) = e
    BY PeerFacts DEF LinkInv
  <1>2. delivered \in [Engine -> Seq(Arrival)] /\ given \in [Engine -> Seq(BlockRecord)]
    BY <1>1 DEF BaseInv
  <1>3. d \in Arrival /\ d.key = k /\ d.data = data
    <2>1. k[1] = p /\ k[2] \in 1 .. Len(given[p]) /\ k = <<p, k[2]>>
      BY <1>1, IssuedFacts
    <2>2. k \in Engine \X Nat
      <3>1. PICK n \in Nat : n = k[2]
        BY <1>1, <1>2, <2>1
      <3>. QED  BY <1>1, <2>1, <3>1
    <2>. QED  BY <2>2
  <1> HIDE DEF Arrival
  <1>4. PICK ds : ds = Append(delivered[e], d)
    OBVIOUS
  <1>5. /\ delivered[e] \in Seq(Arrival) /\ ds \in Seq(Arrival) /\ Len(ds) = Len(delivered[e]) + 1
        /\ Len(delivered[e]) \in Nat /\ ds[Len(ds)] = d /\ DOMAIN ds = 1 .. Len(ds)
    BY <1>2, <1>3, <1>4
  <1>6. delivered' = [delivered EXCEPT ![e] = ds]
    BY <1>4 DEF Deliver
  <1>7. /\ delivered' \in [Engine -> Seq(Arrival)]
        /\ delivered'[e] = ds /\ delivered'[p] = delivered[p]
    BY <1>1, <1>2, <1>5, <1>6
  <1>8. DeliveryTurn(e)
    BY <1>4, <1>7 DEF DeliveryTurn
  <1>9. GivenStep(e)
    BY <1>1, GivenSame
  <1>10. out \in Seq(ToSet(out)) /\ ToSet(out) = {} /\ Len(out) = 0 /\ sessions_'[e] = ss
    BY EmptyList DEF Turn
  <1>11. SentOK(e, out)
    BY <1>10 DEF SentOK
  <1>12. SessionsOK(e, ss)
    BY <1>9, <1>10, SessionsErased
  <1>13. DOMAIN ss = DOMAIN sessions_[e] \ {k} /\ \A j \in DOMAIN ss : ss[j] = sessions_[e][j]
    BY DEF Erased, Restrict
  <1>14. (cancels = 0 /\ Red(k)) => Intact(k)'
    <2>1. SUFFICES ASSUME cancels = 0, Red(k) PROVE Intact(k)'
      OBVIOUS
    <2>2. data = Data(k) \/ Intact(k)
      BY <1>3, <2>1 DEF DeliveredOK
    <2>3. CASE data = Data(k)
      <3>1. Data(k)' = Data(k) /\ k[1] = p
        BY <1>1, <1>9, BlocksKept, IssuedFacts
      <3>2. Len(ds) \in DOMAIN delivered'[e] /\ delivered'[e][Len(ds)] = [key |-> k, data |-> Data(k)']
        BY <1>5, <1>7, <2>3, <3>1
      <3>. QED  BY <1>1, <3>1, <3>2 DEF Intact, Data
    <2>4. CASE Intact(k)
      BY <1>1, <1>8, <1>9, <2>4, IntactKept
    <2>. QED  BY <2>2, <2>3, <2>4
  <1>15. ASSUME cancels = 0 PROVE ReceiverStep(e, ss, out)
    <2>1. ASSUME NEW c, NEW j \in Issued(p), Red(j), Holds(p, j, c) PROVE Safe(p, j, c)'
      <3>1. CASE j = k
        BY <1>14, <1>15, <2>1, <3>1 DEF Safe
      <3>2. CASE j # k
        <4>1. /\ j \in DOMAIN ss /\ sessions_[e][j].tracker \subseteq ss[j].tracker
              /\ ss[j].total_data_length \in {sessions_[e][j].total_data_length, Len(Data(j))}
          BY <1>1, <1>13, <2>1, <3>2 DEF Holds, Known
        <4>2. Holds(p, j, c)'
          BY <1>1, <1>9, <2>1, <4>1, HoldsOn
        <4>. QED  BY <4>2 DEF Safe
      <3>. QED  BY <3>1, <3>2
    <2>2. \A j \in Issued(p) : j \in DOMAIN ss => Known(e, j)
      BY <1>13 DEF Known
    <2>. QED  BY <1>10, <2>1, <2>2 DEF ReceiverStep
  <1>16. delivered' \in [Engine -> Seq([key : Engine \X Nat, data : Seq(Byte \cup {Zero})])]
    BY <1>7 DEF Arrival
  <1>. QED  BY <1>8, <1>10, <1>11, <1>12, <1>15, <1>16, PeerMove

(* The end of a green block, which is delivered at once, keeps the invariant.*)
LEMMA GreenKeeps ==
  ASSUME LinkInv, NEW e \in Engine, receive_green_eob(e), cancels' = cancels
  PROVE  LinkInv'
  <1> DEFINE p == Peer(e)
  <1>1. BaseInv /\ TimerInv /\ SessionInv /\ p \in Engine /\ Peer(p) = e
    BY PeerFacts DEF LinkInv
  <1>2. net[e] # <<>>
    BY DEF receive_green_eob, Arrives
  <1>3. PICK m, s : m = Head(net[e]) /\ s = Stored(e, m)
    OBVIOUS
  <1>4. PICK k, data : k = m.key /\ data = SubSeq(s.client_data, 1, s.total_data_length)
    OBVIOUS
  <1>5. PICK ss, ts, rest, out : ss = Erased(e, k) /\ ts = timers[e] /\ rest = Tail(net[e]) /\ out = <<>>
    OBVIOUS
  <1>6. /\ m.type = "GREEN_DATA_EOB" /\ Deliver(e, k, data) /\ Proceed(e, ss, ts, rest, out)
        /\ UNCHANGED <<session_counter_, firing, given>>
    BY <1>3, <1>4, <1>5 DEF receive_green_eob, Arrives
  <1>7. m \in ToSet(net[e]) /\ SegmentOK(e, m)
    BY <1>2, <1>3, HeadArrives
  <1>8. m.type \in DataTypes /\ m.type \in EobTypes /\ m.type \in GreenTypes
    BY <1>6 DEF DataTypes, GreenTypes, EobTypes
  <1>9. /\ k \in Issued(p) /\ PeerOK(k, s)
        /\ s.total_data_length = Len(Data(k)) /\ Len(s.client_data) = Len(Data(k))
    BY <1>1, <1>3, <1>4, <1>7, <1>8, StoredIs
  <1>10. ~Red(k)
    <2>1. Placed(m)
      BY <1>7, <1>8 DEF SegmentOK, DataTypes, RedTypes, GreenTypes, CancelAckTypes
    <2>. QED  BY <1>4, <1>8, <2>1 DEF Placed
  <1>11. data = s.client_data /\ data \in Seq(Byte \cup {Zero})
    <2>1. s.client_data \in Seq(Byte \cup {Zero})
      BY <1>9 DEF PeerOK, Session
    <2>. QED  BY <1>4, <1>9, <2>1, WholeSubSeq
  <1>12. Len(data) = Len(Data(k)) /\ \A j \in DOMAIN data : data[j] \in {Data(k)[j], Zero}
    BY <1>9, <1>11 DEF PeerOK
  <1>13. PICK d : d = [key |-> k, data |-> data]
    OBVIOUS
  <1>14. DeliveredOK(e, d)
    BY <1>9, <1>10, <1>12, <1>13 DEF DeliveredOK
  <1>15. /\ ts \in Seq(ToSet(ts)) /\ ToSet(ts) \subseteq ToSet(timers[e]) /\ out \in Seq(ToSet(out))
         /\ rest = net[e] \/ (net[e] # <<>> /\ rest = Tail(net[e]))
    BY <1>1, <1>2, <1>5, EmptyList DEF BaseInv
  <1>16. Turn(e, ss, rest, out) /\ TimerTurn(e, out)
    BY <1>1, <1>6, <1>15, ProceedTurn
  <1>17. UNCHANGED <<session_counter_, given, cancels>>
    BY <1>6
  <1>. QED  BY <1>5, <1>6, <1>9, <1>11, <1>13, <1>14, <1>16, <1>17, DeliverMove

(* A report that is acknowledged: the block is delivered once it is whole.   *)
LEMMA AckKeeps ==
  ASSUME LinkInv, NEW e \in Engine, receive_report_ack(e), cancels' = cancels
  PROVE  LinkInv'
  <1> DEFINE p == Peer(e)
  <1>1. BaseInv /\ TimerInv /\ SessionInv /\ p \in Engine /\ Peer(p) = e
    BY PeerFacts DEF LinkInv
  <1>2. net[e] # <<>>
    BY DEF receive_report_ack, Arrives
  <1>3. PICK m : m = Head(net[e])
    OBVIOUS
  <1>4. PICK k : k = m.key
    OBVIOUS
  <1>5. PICK s : s = sessions_[e][k]
    OBVIOUS
  <1>6. PICK ts : ts = CancelTimer(timers[e], Event("REPORT_SEGMENT", k, m.report))
    OBVIOUS
  <1>7. PICK rest, out, data : /\ rest = Tail(net[e]) /\ out = <<>>
                               /\ data = SubSeq(s.client_data, 1, s.total_data_length)
    OBVIOUS
  <1>8. /\ m.type = "REPORT_ACK" /\ UNCHANGED <<session_counter_, firing, given>>
        /\ \/ /\ \E u \in {ts, timers[e]} : Proceed(e, sessions_[e], u, rest, out)
              /\ UNCHANGED delivered
           \/ /\ Known(e, k) /\ Covers(s.tracker, s.total_data_length)
              /\ Deliver(e, k, data) /\ Proceed(e, Erased(e, k), ts, rest, out)
    BY <1>3, <1>4, <1>5, <1>6, <1>7 DEF receive_report_ack, Arrives
  <1>9. m \in ToSet(net[e]) /\ SegmentOK(e, m)
    BY <1>2, <1>3, HeadArrives
  <1>10. k \in Issued(p) /\ Red(k)
    BY <1>4, <1>8, <1>9 DEF SegmentOK, DataTypes, RedTypes, GreenTypes, CancelAckTypes
  <1>11. timers[e] \in Seq(ToSet(timers[e])) /\ ts \in Seq(ToSet(ts)) /\ ToSet(ts) \subseteq ToSet(timers[e])
    <2>1. timers[e] \in Seq(ToSet(timers[e]))
      BY <1>1 DEF BaseInv
    <2>. QED  BY <1>6, <2>1, CancelTimerKeeps
  <1>12. out \in Seq(ToSet(out)) /\ (rest = net[e] \/ (net[e] # <<>> /\ rest = Tail(net[e])))
    BY <1>2, <1>7, EmptyList
  <1>13. CASE /\ \E u \in {ts, timers[e]} : Proceed(e, sessions_[e], u, rest, out)
              /\ UNCHANGED delivered
    <2>1. PICK u \in {ts, timers[e]} : Proceed(e, sessions_[e], u, rest, out)
      BY <1>13
    <2>2. PICK ss : ss = sessions_[e]
      OBVIOUS
    <2>3. u \in Seq(ToSet(u)) /\ ToSet(u) \subseteq ToSet(timers[e]) /\ Proceed(e, ss, u, rest, out)
      BY <1>11, <2>1, <2>2
    <2>4. Turn(e, ss, rest, out) /\ TimerTurn(e, out)
      BY <1>1, <1>8, <1>12, <2>3, ProceedTurn
    <2>. QED  BY <1>7, <1>8, <1>13, <2>2, <2>4, IdleMove
  <1>14. CASE /\ Known(e, k) /\ Covers(s.tracker, s.total_data_length)
              /\ Deliver(e, k, data) /\ Proceed(e, Erased(e, k), ts, rest, out)
    <2>1. PICK ss : ss = Erased(e, k)
      OBVIOUS
    <2>2. Turn(e, ss, rest, out) /\ TimerTurn(e, out)
      BY <1>1, <1>8, <1>11, <1>12, <1>14, <2>1, ProceedTurn
    <2>3. PeerOK(k, s) /\ Data(k) \in Seq(Byte) /\ Len(Data(k)) \in Nat
      BY <1>1, <1>5, <1>10, <1>14, EndsOfSession, BlockFacts DEF Known
    <2>4. /\ s.client_data \in Seq(Byte \cup {Zero}) /\ Len(s.client_data) <= Len(Data(k))
          /\ s.tracker \subseteq 0 .. Len(s.client_data) - 1
          /\ \A o \in s.tracker : s.client_data[o + 1] = Data(k)[o + 1]
          /\ s.total_data_length \in {0, Len(Data(k))}
          /\ s.total_data_length > 0 => Len(s.client_data) = Len(Data(k))
      BY <2>3 DEF PeerOK, Session
    <2>5. PICK d : d = [key |-> k, data |-> data]
      OBVIOUS
    <2>6. data \in Seq(Byte \cup {Zero}) /\ DeliveredOK(e, d)
      <3>1. CASE s.total_data_length = 0
        <4>1. data = <<>>
          BY <1>7, <2>4, <3>1, EmptySubSeq
        <4>2. data = Data(k) \/ (cancels = 0 => Intact(k))
          <5>1. CASE Len(Data(k)) = 0
            BY <2>3, <4>1, <5>1
          <5>2. CASE Len(Data(k)) # 0 /\ cancels = 0
            <6>1. HistoryOK(p, k)
              BY <1>1, <1>10, <5>2 DEF LinkInv, HistoryInv
            <6>2. Safe(p, k, {})
              BY <1>1, <1>4, <1>8, <1>9, <6>1 DEF HistoryOK, Behind
            <6>3. ~Cut(p, k) /\ ~Holds(p, k, {})
              BY <1>1, <1>5, <1>14, <3>1, <5>2 DEF Cut, Holds
            <6>. QED  BY <6>2, <6>3 DEF Safe
          <5>. QED  BY <5>1, <5>2
        <4>3. DeliveredOK(e, d)
          BY <1>10, <2>5, <4>1, <4>2 DEF DeliveredOK
        <4>. QED  BY <4>1, <4>3
      <3>2. CASE s.total_data_length # 0
        <4>1. PICK n \in Nat : n = Len(Data(k))
          BY <2>3
        <4>2. s.total_data_length = n /\ Len(s.client_data) = n /\ n > 0
          BY <2>4, <3>2, <4>1
        <4>3. data = s.client_data
          BY <1>7, <2>4, <4>2, WholeSubSeq
        <4>4. 0 .. n - 1 \subseteq s.tracker
          BY <1>14, <2>4, <4>2, CoversAll
        <4>5. \A i \in 1 .. n : i - 1 \in 0 .. n - 1 /\ i - 1 + 1 = i
          OBVIOUS
        <4>6. \A i \in 1 .. n : s.client_data[i] = Data(k)[i]
          BY <2>4, <4>4, <4>5
        <4>7. data = Data(k)
          BY <2>3, <2>4, <4>1, <4>2, <4>3, <4>6
        <4>8. DeliveredOK(e, d)
          BY <1>10, <2>5, <4>7 DEF DeliveredOK
        <4>. QED  BY <2>4, <4>3, <4>8
      <3>. QED  BY <3>1, <3>2
    <2>7. UNCHANGED <<session_counter_, given, cancels>>
      BY <1>8
    <2>. QED  BY <1>7, <1>10, <1>14, <2>1, <2>2, <2>5, <2>6, <2>7, DeliverMove
  <1>. QED  BY <1>8, <1>13, <1>14

-----------------------------------------------------------------------------
(* Cancelling.                                                               *)

(* A session that is erased, its own block with it if there is one.          *)
LEMMA SessionEnds ==
  ASSUME LinkInv, NEW e \in Engine, NEW k,
         (k \in Issued(e) /\ Known(e, k) /\ Outcome(e, k, "failed")) \/ given' = given,
         NEW ss, ss = Erased(e, k), sessions_'[e] = ss,
         session_counter_' = session_counter_, delivered' = delivered, cancels' \in Nat
  PROVE  GivenStep(e) /\ SessionsOK(e, ss) /\ CountStep /\ DeliveryTurn(e)
  <1>1. BaseInv
    BY DEF LinkInv
  <1>2. DeliveryTurn(e)
    BY DEF DeliveryTurn
  <1>3. CASE k \in Issued(e) /\ Known(e, k) /\ Outcome(e, k, "failed")
    BY <1>2, <1>3, OwnEnds
  <1>4. CASE given' = given
    <2>1. GivenStep(e) /\ \A x \in Engine : Len(given'[x]) = Len(given[x])
      BY <1>1, <1>4, GivenSame
    <2>2. SessionsOK(e, ss)
      BY <2>1, SessionsErased
    <2>3. CountStep
      BY <1>1, <2>1, CountSame DEF BaseInv
    <2>. QED  BY <1>2, <2>1, <2>2, <2>3
  <1>. QED  BY <1>3, <1>4

(* One segment c is sent, after which what was promised without cancels is   *)
(* no longer at stake.                                                       *)
LEMMA CancelMove ==
  ASSUME LinkInv, NEW e \in Engine, NEW k,
         (k \in Issued(e) /\ Known(e, k) /\ Outcome(e, k, "failed")) \/ given' = given,
         NEW ss, ss = Erased(e, k), NEW c, NEW out, out = <<c>>, NEW rest,
         Turn(e, ss, rest, out), TimerTurn(e, out),
         GivenStep(e) => /\ SegmentOK(Peer(e), c)' /\ c.type \notin DataTypes
                         /\ c.type = "CANCEL_BY_SENDER" => (BlockOf(c.key).outcome = "failed")',
         session_counter_' = session_counter_, delivered' = delivered,
         cancels' \in Nat, cancels' # 0
  PROVE  LinkInv'
  <1>1. sessions_'[e] = ss
    BY DEF Turn
  <1>2. GivenStep(e) /\ SessionsOK(e, ss) /\ CountStep /\ DeliveryTurn(e)
    BY <1>1, SessionEnds
  <1>3. Len(out) = 1 /\ out[1] = c
    BY OneMember
  <1>4. SentOK(e, out)
    <2>1. ASSUME NEW i \in 1 .. Len(out) PROVE i = Len(out) /\ out[i] = c
      BY <1>3
    <2>. QED  BY <1>2, <2>1 DEF SentOK
  <1>5. Move(e, ss, rest, out)
    BY <1>2, <1>4 DEF Move, Step
  <1>. QED  BY <1>5, MoveKeeps

(* The sender's cancel ends a receiving session: it failed, and no data for  *)
(* it follows.                                                               *)
LEMMA CancelledBySender ==
  ASSUME LinkInv, NEW e \in Engine, NEW m, net[e] # <<>>, m = Head(net[e]), m.type = "CANCEL_BY_SENDER",
         NEW k \in Issued(Peer(e)), k = m.key, NEW ss, ss = Erased(e, k),
         NEW rest, rest = Tail(net[e]), NEW c, c = CancelSegment(k, AckOf(m.type)),
         NEW out, out = <<c>>, Turn(e, ss, rest, out), TimerTurn(e, out),
         UNCHANGED <<session_counter_, given, delivered, cancels>>
  PROVE  LinkInv'
  <1> DEFINE p == Peer(e)
  <1>1. BaseInv /\ CancelInv /\ p \in Engine /\ Peer(p) = e
    BY PeerFacts DEF LinkInv
  <1>2. cancels' \in Nat /\ sessions_'[e] = ss /\ net'[e] = rest
    BY <1>1 DEF BaseInv, Turn
  <1>3. GivenStep(e) /\ SessionsOK(e, ss) /\ DeliveryTurn(e)
    BY <1>2, SessionEnds
  <1>4. ToSet(out) = {c} /\ out \in Seq(ToSet(out))
    BY OneMember
  <1>5. c.type \in CancelAckTypes
    BY DEF CancelSegment, AckOf, CancelAckTypes
  <1>6. SegmentOK(p, c)'
    BY <1>5 DEF SegmentOK
  <1>7. /\ c.type \notin DataTypes
        /\ c.type \notin {"CANCEL_BY_SENDER", "CANCEL_BY_RECEIVER", "REPORT", "RED_DATA_CP", "REPORT_ACK"}
    BY <1>5 DEF CancelAckTypes, DataTypes, RedTypes, GreenTypes
  <1>8. SentOK(e, out)
    BY <1>4, <1>6, <1>7, SentByMembers
  <1>9. Cut(p, k)'
    <2>1. net[e] \in Seq(ToSet(net[e]))
      BY <1>1 DEF BaseInv
    <2>2. /\ Len(net[e]) \in Nat /\ Len(net[e]) >= 1 /\ m = net[e][1] /\ Len(rest) = Len(net[e]) - 1
          /\ \A i \in 1 .. Len(net[e]) - 1 : rest[i] = net[e][i + 1]
          /\ rest \in Seq(ToSet(rest))
      BY <2>1, TailIs
    <2>3. 1 \in DOMAIN net[e] /\ DOMAIN net[e] = 1 .. Len(net[e])
      BY <2>1, <2>2
    <2>4. /\ BlockOf(k).outcome = "failed"
          /\ \A j \in DOMAIN net[e] : (j > 1 /\ net[e][j].type \in DataTypes) => net[e][j].key # k
      BY <1>1, <2>2, <2>3 DEF CancelInv
    <2>5. ASSUME NEW x \in ToSet(rest), x.type \in DataTypes PROVE x.key # k
      <3>1. PICK i \in 1 .. Len(rest) : x = rest[i]
        BY <2>2, ListOfMembers
      <3>2. i \in 1 .. Len(net[e]) - 1 /\ i + 1 \in 1 .. Len(net[e]) /\ i + 1 > 1
        BY <2>2
      <3>. QED  BY <2>2, <2>3, <2>4, <2>5, <3>1, <3>2
    <2>6. BlockOf(k)' = BlockOf(k)
      BY DEF BlockOf
    <2>7. k \notin DOMAIN sessions_'[e]
      BY <1>2 DEF Erased, Restrict
    <2>. QED  BY <1>1, <1>2, <2>4, <2>5, <2>6, <2>7 DEF Cut, Known
  <1>10. DOMAIN ss = DOMAIN sessions_[e] \ {k} /\ \A j \in DOMAIN ss : ss[j] = sessions_[e][j]
    BY DEF Erased, Restrict
  <1>11. ReceiverStep(e, ss, out)
    <2>1. ASSUME NEW d, NEW j \in Issued(p), Red(j), Holds(p, j, d) PROVE Safe(p, j, d)'
      <3>1. CASE j = k
        BY <1>9, <3>1 DEF Safe
      <3>2. CASE j # k
        <4>1. /\ j \in DOMAIN ss /\ sessions_[e][j].tracker \subseteq ss[j].tracker
              /\ ss[j].total_data_length \in {sessions_[e][j].total_data_length, Len(Data(j))}
          BY <1>1, <1>10, <2>1, <3>2 DEF Holds, Known
        <4>2. Holds(p, j, d)'
          BY <1>1, <1>3, <2>1, <4>1, HoldsOn
        <4>. QED  BY <4>2 DEF Safe
      <3>. QED  BY <3>1, <3>2
    <2>2. \A j \in Issued(p) : j \in DOMAIN ss => Known(e, j)
      BY <1>10 DEF Known
    <2>. QED  BY <1>4, <1>7, <2>1, <2>2 DEF ReceiverStep
  <1>12. delivered' \in [Engine -> Seq([key : Engine \X Nat, data : Seq(Byte \cup {Zero})])]
    BY <1>1 DEF BaseInv
  <1>13. \A x \in ToSet(out) : x.type \notin {"RED_DATA_CP", "REPORT_ACK"}
    BY <1>4, <1>7
  <1>. QED  BY <1>3, <1>8, <1>11, <1>12, <1>13, PeerMove

(* A cancel that arrives keeps the invariant.                                *)
LEMMA CancelSegmentKeeps ==
  ASSUME LinkInv, NEW e \in Engine, receive_cancel_segment(e), cancels' = cancels
  PROVE  LinkInv'
  <1> DEFINE p == Peer(e)
  <1>1. BaseInv /\ TimerInv /\ p \in Engine /\ p # e /\ Peer(p) = e
    BY PeerFacts DEF LinkInv
  <1>2. net[e] # <<>>
    BY DEF receive_cancel_segment, Arrives
  <1>3. PICK m, k : m = Head(net[e]) /\ k = m.key
    OBVIOUS
  <1>4. PICK c : c = CancelSegment(k, AckOf(m.type))
    OBVIOUS
  <1>5. PICK ss, ts, rest, out : ss = Erased(e, k) /\ ts = timers[e] /\ rest = Tail(net[e]) /\ out = <<c>>
    OBVIOUS
  <1>6. /\ m.type \in CancelTypes /\ Proceed(e, ss, ts, rest, out)
        /\ IF Known(e, k) THEN CancelledOutcome(e, k) ELSE UNCHANGED given
        /\ UNCHANGED <<session_counter_, firing, delivered>>
    BY <1>3, <1>4, <1>5 DEF receive_cancel_segment, Arrives
  <1>7. m \in ToSet(net[e]) /\ SegmentOK(e, m)
    BY <1>2, <1>3, HeadArrives
  <1>8. /\ ts \in Seq(ToSet(ts)) /\ ToSet(ts) \subseteq ToSet(timers[e]) /\ out \in Seq(ToSet(out))
        /\ rest = net[e] \/ (net[e] # <<>> /\ rest = Tail(net[e]))
    BY <1>1, <1>2, <1>5, OneMember DEF BaseInv
  <1>9. Turn(e, ss, rest, out) /\ TimerTurn(e, out)
    BY <1>1, <1>6, <1>8, ProceedTurn
  <1>10. CASE m.type = "CANCEL_BY_SENDER"
    <2>1. k \in Issued(p)
      BY <1>3, <1>7, <1>10 DEF SegmentOK, DataTypes, RedTypes, GreenTypes, CancelAckTypes
    <2>2. k[1] # e
      BY <1>1, <2>1, IssuedFacts
    <2>3. UNCHANGED <<session_counter_, given, delivered, cancels>>
      BY <1>6, <2>2 DEF CancelledOutcome
    <2>. QED  BY <1>2, <1>3, <1>4, <1>5, <1>9, <1>10, <2>1, <2>3, CancelledBySender
  <1>11. CASE m.type = "CANCEL_BY_RECEIVER"
    <2>1. k \in Issued(e)
      BY <1>3, <1>7, <1>11 DEF SegmentOK, DataTypes, RedTypes, GreenTypes, CancelAckTypes
    <2>2. k[1] = e
      BY <2>1, IssuedFacts
    <2>3. (k \in Issued(e) /\ Known(e, k) /\ Outcome(e, k, "failed")) \/ given' = given
      BY <1>6, <2>1, <2>2 DEF CancelledOutcome
    <2>4. cancels' \in Nat /\ cancels' # 0
      BY <1>7, <1>11 DEF LinkInv, BaseInv, HistoryInv
    <2>5. c.type \in CancelAckTypes
      BY <1>4 DEF CancelSegment, AckOf, CancelAckTypes
    <2>6. /\ SegmentOK(p, c)' /\ c.type \notin DataTypes /\ c.type # "CANCEL_BY_SENDER"
      BY <2>5 DEF SegmentOK, CancelAckTypes, DataTypes, RedTypes, GreenTypes
    <2>. QED  BY <1>5, <1>6, <1>9, <2>3, <2>4, <2>6, CancelMove
  <1>. QED  BY <1>6, <1>10, <1>11 DEF CancelTypes

(* An acknowledged cancel keeps the invariant.                               *)
LEMMA CancelAckKeeps ==
  ASSUME LinkInv, NEW e \in Engine, receive_cancel_ack(e), cancels' = cancels
  PROVE  LinkInv'
  <1>1. BaseInv /\ TimerInv /\ net[e] # <<>>
    BY DEF LinkInv, receive_cancel_ack, Arrives
  <1>2. PICK ss, ts, rest, out : ss = sessions_[e] /\ ts = timers[e] /\ rest = Tail(net[e]) /\ out = <<>>
    OBVIOUS
  <1>3. Proceed(e, ss, ts, rest, out) /\ UNCHANGED <<session_counter_, firing, given, delivered>>
    BY <1>2 DEF receive_cancel_ack
  <1>4. /\ ts \in Seq(ToSet(ts)) /\ ToSet(ts) \subseteq ToSet(timers[e]) /\ out \in Seq(ToSet(out))
        /\ rest = net[e] \/ (net[e] # <<>> /\ rest = Tail(net[e]))
    BY <1>1, <1>2, EmptyList DEF BaseInv
  <1>5. Turn(e, ss, rest, out) /\ TimerTurn(e, out)
    BY <1>1, <1>3, <1>4, ProceedTurn
  <1>. QED  BY <1>2, <1>3, <1>5, IdleMove

(* The application cancels a session of either role.                         *)
LEMMA CancelByUserKeeps ==
  ASSUME LinkInv, NEW e \in Engine, CancelByUser(e)
  PROVE  LinkInv'
  <1> DEFINE p == Peer(e)
  <1>1. BaseInv /\ TimerInv /\ SessionInv /\ p \in Engine /\ p # e /\ Peer(p) = e
    BY PeerFacts DEF LinkInv
  <1>2. PICK k \in DOMAIN sessions_[e] : cancel_session(e, k)
    BY DEF CancelByUser
  <1>3. PICK type : type = IF sessions_[e][k].role = "ORIGINATOR" THEN "CANCEL_BY_SENDER"
                                                                  ELSE "CANCEL_BY_RECEIVER"
    OBVIOUS
  <1>4. PICK c : c = CancelSegment(k, type)
    OBVIOUS
  <1>5. PICK ss, ts, rest, out : ss = Erased(e, k) /\ ts = timers[e] /\ rest = net[e] /\ out = <<c>>
    OBVIOUS
  <1>6. /\ Known(e, k) /\ Proceed(e, ss, ts, rest, out) /\ CancelledOutcome(e, k)
        /\ UNCHANGED <<session_counter_, firing, delivered>>
    BY <1>2, <1>3, <1>4, <1>5 DEF cancel_session
  <1>7. /\ ts \in Seq(ToSet(ts)) /\ ToSet(ts) \subseteq ToSet(timers[e]) /\ out \in Seq(ToSet(out))
        /\ rest = net[e] \/ (net[e] # <<>> /\ rest = Tail(net[e]))
    BY <1>1, <1>5, OneMember DEF BaseInv
  <1>8. Turn(e, ss, rest, out) /\ TimerTurn(e, out)
    BY <1>1, <1>6, <1>7, ProceedTurn
  <1>9. cancels' \in Nat /\ cancels' # 0
    BY <1>1 DEF CancelByUser, BaseInv
  <1>10. c.type = type /\ c.key = k
    BY <1>4 DEF CancelSegment
  <1>11. CASE k \in Issued(e)
    <2>1. k[1] = e
      BY <1>11, IssuedFacts
    <2>2. type = "CANCEL_BY_SENDER"
      BY <1>1, <1>3, <1>11, EndsOfSession DEF OwnOK
    <2>3. k \in Issued(e) /\ Known(e, k) /\ Outcome(e, k, "failed")
      BY <1>6, <1>11, <2>1 DEF CancelledOutcome
    <2>4. sessions_'[e] = ss
      BY <1>8 DEF Turn
    <2>5. GivenStep(e) /\ (BlockOf(k).outcome = "failed")'
      BY <1>5, <1>6, <1>9, <2>3, <2>4, OwnEnds
    <2>6. SegmentOK(p, c)' /\ c.type \notin DataTypes /\ (BlockOf(c.key).outcome = "failed")'
      BY <1>4, <1>10, <1>11, <2>2, <2>5, CancelSent DEF DataTypes, RedTypes, GreenTypes
    <2>. QED  BY <1>5, <1>6, <1>8, <1>9, <2>3, <2>6, CancelMove
  <1>12. CASE k \in Issued(p)
    <2>1. k[1] # e
      BY <1>1, <1>12, IssuedFacts
    <2>2. type = "CANCEL_BY_RECEIVER"
      BY <1>1, <1>3, <1>12, EndsOfSession DEF PeerOK
    <2>3. given' = given
      BY <1>6, <2>1 DEF CancelledOutcome
    <2>4. k \in Issued(p)'
      <3>1. GivenStep(e)
        BY <1>1, <2>3, GivenSame
      <3>. QED  BY <1>1, <1>12, <3>1, BlocksKept
    <2>5. SegmentOK(p, c)' /\ c.type \notin DataTypes /\ c.type # "CANCEL_BY_SENDER"
      BY <1>1, <1>10, <2>2, <2>4 DEF SegmentOK, DataTypes, RedTypes, GreenTypes
    <2>. QED  BY <1>5, <1>6, <1>8, <1>9, <2>3, <2>5, CancelMove
  <1>. QED  BY <1>1, <1>11, <1>12, EndsOfSession

-----------------------------------------------------------------------------
(* Every step keeps the invariant.                                           *)

(* Two engines without a session satisfy the invariant.                      *)
LEMMA InitKeeps ==
  ASSUME Init
  PROVE  LinkInv
  <1>1. /\ session_counter_ = [e \in Engine |-> 0] /\ sessions_ = [e \in Engine |-> <<>>]
        /\ timers = [e \in Engine |-> <<>>] /\ firing = [e \in Engine |-> <<>>]
        /\ net = [e \in Engine |-> <<>>] /\ given = [e \in Engine |-> <<>>]
        /\ delivered = [e \in Engine |-> <<>>] /\ cancels = 0
    BY DEF Init, EInit
  <1>2. ToSet(<<>>) = {} /\ <<>> \in Seq(ToSet(<<>>)) /\ Len(<<>>) = 0 /\ DOMAIN <<>> = {}
    BY EmptyList
  <1>3. \A e \in Engine : /\ ToSet(net[e]) = {} /\ ToSet(timers[e]) = {} /\ ToSet(firing[e]) = {}
                          /\ DOMAIN sessions_[e] = {} /\ DOMAIN delivered[e] = {} /\ DOMAIN net[e] = {}
    BY <1>1, <1>2
  <1>4. \A e \in Engine : Issued(e) = {}
    BY <1>1, <1>2 DEF Issued
  <1>5. BaseInv
    <2>1. given \in [Engine -> Seq(BlockRecord)]
          /\ delivered \in [Engine -> Seq([key : Engine \X Nat, data : Seq(Byte \cup {Zero})])]
      BY <1>1
    <2>2. ASSUME NEW e \in Engine PROVE MaxStarts[e] \in Nat
      BY LinkAssumption
    <2>. QED  BY <1>1, <1>2, <2>1, <2>2 DEF BaseInv
  <1>6. NetInv /\ SessionInv /\ TimerInv /\ CancelInv /\ DeliveryInv
    BY <1>3 DEF NetInv, SessionInv, TimerInv, CancelInv, DeliveryInv
  <1>7. PoolInv
    <2>1. IsFiniteSet({}) /\ Cardinality({}) = 0
      BY FS_EmptySet
    <2>. QED  BY <1>3, <2>1, ConfigFacts DEF PoolInv
  <1>8. HistoryInv
    BY <1>3, <1>4 DEF HistoryInv
  <1>. QED  BY <1>5, <1>6, <1>7, <1>8 DEF LinkInv

(* A step that changes nothing keeps the invariant.                          *)
LEMMA StutterKeeps ==
  ASSUME LinkInv, UNCHANGED vars
  PROVE  LinkInv'
  <1>1. UNCHANGED <<session_counter_, sessions_, timers, firing, net, given, delivered, cancels>>
    BY DEF vars, evars
  <1>2. PICK e : e \in Engine
    BY EngineAssumption
  <1>3. PICK out : out = <<>>
    OBVIOUS
  <1>4. TimerTurn(e, out)
    BY <1>1, <1>2, TimerSame DEF LinkInv
  <1>. QED  BY <1>1, <1>2, <1>3, <1>4, RestKeeps

(* Every step of the link keeps the invariant.                               *)
LEMMA NextKeeps ==
  ASSUME LinkInv, [Next]_vars
  PROVE  LinkInv'
  <1>1. ASSUME NEW e \in Engine, Receive(e) PROVE LinkInv'
    <2>1. receive_segment(e) /\ cancels' = cancels
      BY <1>1 DEF Receive
    <2>2. CASE receive_data_dropped(e)
      <3>1. /\ net[e] # <<>> /\ net' = [net EXCEPT ![e] = Tail(@)]
            /\ UNCHANGED <<session_counter_, sessions_, timers, firing, given, delivered, cancels>>
        BY <2>1, <2>2 DEF receive_data_dropped, Arrives
      <3>. QED  BY <3>1, LostKeeps
    <2>3. CASE receive_data_segment(e)
      BY <2>1, <2>3, DataKeeps
    <2>4. CASE receive_green_eob(e)
      BY <2>1, <2>4, GreenKeeps
    <2>5. CASE receive_report_unknown(e)
      BY <2>1, <2>5, ReportUnknownKeeps
    <2>6. CASE receive_report_segment(e)
      BY <2>1, <2>6, ReportKeeps
    <2>7. CASE receive_report_ack(e)
      BY <2>1, <2>7, AckKeeps
    <2>8. CASE receive_cancel_segment(e)
      BY <2>1, <2>8, CancelSegmentKeeps
    <2>9. CASE receive_cancel_ack(e)
      BY <2>1, <2>9, CancelAckKeeps
    <2>. QED  BY <2>1, <2>2, <2>3, <2>4, <2>5, <2>6, <2>7, <2>8, <2>9 DEF receive_segment
  <1>2. ASSUME NEW e \in Engine, Lose(e) PROVE LinkInv'
    <2>1. /\ net[e] # <<>> /\ net' = [net EXCEPT ![e] = Tail(@)]
          /\ UNCHANGED <<session_counter_, sessions_, timers, firing, given, delivered, cancels>>
      BY <1>2 DEF Lose
    <2>. QED  BY <2>1, LostKeeps
  <1>3. CASE Next
    BY <1>1, <1>2, <1>3, StartKeeps, ExpireKeeps, ExpiryKeeps, CancelByUserKeeps DEF Next
  <1>4. CASE UNCHANGED vars
    BY <1>4, StutterKeeps
  <1>. QED  BY <1>3, <1>4

\* The invariant that the properties of the link rest on holds throughout:
\* segments under way carry bytes of their block in their place, the two ends of
\* a session agree about it, and until an application cancels a session, what a
\* receiver reported is kept until it is delivered or the sender has given up.
THEOREM LinkInvariant == Spec => []LinkInv
  <1>1. Init => LinkInv
    BY InitKeeps
  <1>2. LinkInv /\ [Next]_vars => LinkInv'
    BY NextKeeps
  <1>. QED  BY <1>1, <1>2, PTL DEF Spec

-----------------------------------------------------------------------------
(* What follows.                                                             *)

(* A session that was issued has a key of the model.                         *)
LEMMA KeysBounded ==
  ASSUME BaseInv, NEW e \in Engine, NEW k \in Issued(e)
  PROVE  k \in Key
  <1> DEFINE p == Peer(e)
  <1>1. p \in Engine /\ Engine = {e, p}
    BY PeerFacts
  <1>2. PICK a \in Nat, b \in Nat : a = MaxStarts[e] /\ b = MaxStarts[p]
    BY <1>1, LinkAssumption
  <1>3. {MaxStarts[x] : x \in Engine} = {a, b}
    BY <1>1, <1>2
  <1>4. PICK u \in Nat : u = Max({a, b}) /\ a <= u
    BY MaxOfTwo
  <1>5. k[2] \in 1 .. Len(given[e]) /\ k = <<e, k[2]>>
    BY IssuedFacts
  <1>6. PICK n \in Nat : n = Len(given[e])
    BY DEF BaseInv
  <1>7. n <= a
    BY <1>2, <1>6 DEF BaseInv
  <1>8. k[2] \in 1 .. u
    BY <1>4, <1>5, <1>6, <1>7
  <1>9. PICK n2 : n2 = k[2]
    OBVIOUS
  <1>10. k = <<e, n2>> /\ n2 \in 1 .. u
    BY <1>5, <1>8, <1>9
  <1>11. n2 \in 1 .. Max({MaxStarts[x] : x \in Engine})
    BY <1>3, <1>4, <1>10
  <1>12. \E x \in Engine, y \in 1 .. Max({MaxStarts[z] : z \in Engine}) : k = <<x, y>>
    BY <1>10, <1>11
  <1>. QED  BY <1>12 DEF Key

(* The invariant gives the types.                                            *)
LEMMA TypeHolds ==
  ASSUME LinkInv
  PROVE  TypeOK
  <1>1. BaseInv /\ SessionInv /\ PoolInv
    BY DEF LinkInv
  <1> SUFFICES ASSUME NEW e \in Engine
               PROVE  /\ session_counter_[e] = Len(given[e])
                      /\ \A i \in DOMAIN given[e] :
                           /\ given[e][i].data \in Seq(Byte) /\ given[e][i].red \in BOOLEAN
                           /\ given[e][i].outcome \in {"open", "sent", "complete", "failed"}
                      /\ DOMAIN sessions_[e] \subseteq Key
                      /\ Cardinality(DOMAIN sessions_[e]) <= max_concurrent_sessions
                      /\ \A k \in DOMAIN sessions_[e] :
                           /\ sessions_[e][k] \in Session
                           /\ sessions_[e][k].role = "ORIGINATOR" <=> k[1] = e
                      /\ \A i \in DOMAIN delivered[e] : delivered[e][i].data \in Seq(Byte \cup {Zero})
                      /\ Len(firing[e]) <= 1
    BY DEF TypeOK
  <1>2. session_counter_[e] = Len(given[e]) /\ Len(firing[e]) <= 1
        /\ Cardinality(DOMAIN sessions_[e]) <= max_concurrent_sessions
    BY <1>1 DEF BaseInv, PoolInv
  <1>3. \A i \in DOMAIN given[e] :
          /\ given[e][i].data \in Seq(Byte) /\ given[e][i].red \in BOOLEAN
          /\ given[e][i].outcome \in {"open", "sent", "complete", "failed"}
    <2>1. given[e] \in Seq(BlockRecord)
      BY <1>1 DEF BaseInv
    <2>2. \A i \in DOMAIN given[e] : given[e][i] \in BlockRecord
      BY <2>1
    <2>. QED  BY <2>2 DEF BlockRecord
  <1>4. \A i \in DOMAIN delivered[e] : delivered[e][i].data \in Seq(Byte \cup {Zero})
    <2>1. PICK T : T = [key : Engine \X Nat, data : Seq(Byte \cup {Zero})]
      OBVIOUS
    <2>2. delivered[e] \in Seq(T)
      BY <1>1, <2>1 DEF BaseInv
    <2>3. \A i \in DOMAIN delivered[e] : delivered[e][i] \in T
      BY <2>2
    <2>. QED  BY <2>1, <2>3
  <1>5. ASSUME NEW k \in DOMAIN sessions_[e]
        PROVE  /\ k \in Key /\ sessions_[e][k] \in Session
               /\ sessions_[e][k].role = "ORIGINATOR" <=> k[1] = e
    <2>1. CASE k \in Issued(e)
      BY <1>1, <2>1, EndsOfSession, IssuedFacts, KeysBounded DEF OwnOK
    <2>2. CASE k \in Issued(Peer(e))
      BY <1>1, <2>2, EndsOfSession, IssuedFacts, KeysBounded, PeerFacts DEF PeerOK
    <2>. QED  BY <1>1, <2>1, <2>2, EndsOfSession
  <1>. QED  BY <1>2, <1>3, <1>4, <1>5

\* Every variable keeps its type, no engine holds more sessions than
\* max_concurrent_sessions, and its own sessions are exactly its originators
\* (start_session and receive_data_segment, the two that create sessions).
THEOREM TypeCorrect == Spec => []TypeOK
  BY LinkInvariant, TypeHolds, PTL

(* The invariant gives: what a receiver claims are bytes of the block in     *)
(* place.                                                                    *)
LEMMA ClaimsAreBytes ==
  ASSUME LinkInv
  PROVE  ClaimsHoldBlockBytes
  <1> SUFFICES ASSUME NEW e \in Engine, NEW k \in DOMAIN sessions_[e], k[1] # e, NEW s,
                      s = sessions_[e][k], NEW o \in s.tracker
               PROVE  o < Len(Data(k)) /\ s.client_data[o + 1] = Data(k)[o + 1]
    BY DEF ClaimsHoldBlockBytes, Data
  <1>1. BaseInv /\ SessionInv
    BY DEF LinkInv
  <1>2. k \in Issued(Peer(e))
    BY <1>1, EndsOfSession, IssuedFacts
  <1>3. PeerOK(k, s) /\ Len(Data(k)) \in Nat
    BY <1>1, <1>2, EndsOfSession, BlockFacts, PeerFacts
  <1>4. /\ s.client_data \in Seq(Byte \cup {Zero}) /\ Len(s.client_data) <= Len(Data(k))
        /\ s.tracker \subseteq 0 .. Len(s.client_data) - 1
        /\ s.client_data[o + 1] = Data(k)[o + 1]
    BY <1>3 DEF PeerOK, Session
  <1>5. PICK n \in Nat, b \in Nat : n = Len(s.client_data) /\ b = Len(Data(k))
    BY <1>3, <1>4
  <1>6. o \in 0 .. n - 1 /\ n <= b
    BY <1>4, <1>5
  <1>7. o < b
    BY <1>6
  <1>. QED  BY <1>4, <1>5, <1>7

(* A receiver that holds the whole block holds nothing else.                 *)
LEMMA HeldIsBlock ==
  ASSUME LinkInv, NEW e \in Engine, NEW k \in Issued(e), Holds(e, k, 0 .. Len(Data(k)) - 1)
  PROVE  /\ Known(Peer(e), k)
         /\ sessions_[Peer(e)][k].client_data = Data(k)
         /\ Covers(sessions_[Peer(e)][k].tracker, Len(Data(k)))
         /\ sessions_[Peer(e)][k].total_data_length = Len(Data(k))
  <1> DEFINE p == Peer(e)
  <1>1. BaseInv /\ SessionInv /\ p \in Engine /\ Peer(p) = e
    BY PeerFacts DEF LinkInv
  <1>2. PICK s : s = sessions_[p][k]
    OBVIOUS
  <1>3. Known(p, k) /\ s.total_data_length = Len(Data(k)) /\ 0 .. Len(Data(k)) - 1 \subseteq s.tracker
    BY <1>2 DEF Holds
  <1>4. PeerOK(k, s) /\ Data(k) \in Seq(Byte) /\ Len(Data(k)) \in Nat
    BY <1>1, <1>2, <1>3, EndsOfSession, BlockFacts DEF Known
  <1>5. /\ s.client_data \in Seq(Byte \cup {Zero}) /\ Len(s.client_data) <= Len(Data(k))
        /\ s.tracker \subseteq 0 .. Len(s.client_data) - 1
        /\ \A o \in s.tracker : s.client_data[o + 1] = Data(k)[o + 1]
        /\ s.total_data_length > 0 => Len(s.client_data) = Len(Data(k))
    BY <1>4 DEF PeerOK, Session
  <1>6. PICK n \in Nat : n = Len(Data(k))
    BY <1>4
  <1>7. Len(s.client_data) = n
    <2>1. PICK l \in Nat : l = Len(s.client_data)
      BY <1>5
    <2>2. l <= n /\ (n > 0 => l = n)
      BY <1>3, <1>5, <1>6, <2>1
    <2>. QED  BY <2>1, <2>2
  <1>8. s.tracker = 0 .. n - 1
    BY <1>3, <1>5, <1>6, <1>7
  <1>9. \A i \in 1 .. n : i - 1 \in 0 .. n - 1 /\ i - 1 + 1 = i
    OBVIOUS
  <1>10. \A i \in 1 .. n : s.client_data[i] = Data(k)[i]
    BY <1>5, <1>8, <1>9
  <1>11. s.client_data = Data(k)
    BY <1>4, <1>5, <1>6, <1>7, <1>10
  <1>12. Covers(s.tracker, n)
    <2>1. CASE n = 0
      BY <2>1 DEF Covers
    <2>2. CASE n > 0
      <3>1. Cardinality(0 .. n - 1) = n
        BY <2>2, FS_Interval
      <3>. QED  BY <1>8, <3>1 DEF Covers
    <2>. QED  BY <2>1, <2>2
  <1>. QED  BY <1>2, <1>3, <1>6, <1>11, <1>12

(* The invariant gives: what is claimed and what is reported complete is     *)
(* true.                                                                     *)
LEMMA ClaimsHold ==
  ASSUME LinkInv, cancels = 0
  PROVE  ClaimsTrue
  <1>1. ASSUME NEW e \in Engine, NEW k \in Issued(e), BlockOf(k).outcome = "complete"
        PROVE  \/ Intact(k)
               \/ /\ Known(Peer(e), k)
                  /\ sessions_[Peer(e)][k].client_data = BlockOf(k).data
                  /\ Covers(sessions_[Peer(e)][k].tracker, Len(BlockOf(k).data))
                  /\ sessions_[Peer(e)][k].total_data_length = Len(BlockOf(k).data)
    <2>1. HistoryOK(e, k)
      BY DEF LinkInv, HistoryInv
    <2>2. Intact(k) \/ Holds(e, k, 0 .. Len(Data(k)) - 1)
      BY <1>1, <2>1 DEF HistoryOK
    <2>. QED  BY <2>2, HeldIsBlock DEF Data
  <1>2. CompletionMeansReceived
    BY <1>1 DEF CompletionMeansReceived
  <1>. QED  BY <1>2, ClaimsAreBytes DEF ClaimsTrue

\* While no application has called cancel_session, what a receiver claims to hold
\* are bytes of the block in their place, and a block that its originator reports
\* complete has been delivered whole or is held whole by the peer: the way from
\* receive_data_segment over generate_report to receive_report_segment.
THEOREM ClaimsAreTrue == Spec => [](cancels = 0 => ClaimsTrue)
  BY LinkInvariant, ClaimsHold, PTL

\* What a receiver claims to hold are bytes of the block in their place, whatever
\* is lost, cancelled or sent twice (receive_data_segment).
THEOREM ClaimsAreBlockBytes == Spec => []ClaimsHoldBlockBytes
  BY LinkInvariant, ClaimsAreBytes, PTL

(* The invariant gives: a red block is delivered as it was given.            *)
LEMMA RedIntact ==
  ASSUME LinkInv, cancels = 0
  PROVE  RedDeliveryIntact
  <1> SUFFICES ASSUME NEW e \in Engine, NEW i \in DOMAIN delivered[e], NEW d, d = delivered[e][i],
                      Red(d.key)
               PROVE  \/ d.data = Data(d.key)
                      \/ d.data = <<>> /\ \E j \in 1 .. i - 1 :
                            delivered[e][j] = [d EXCEPT !.data = Data(d.key)]
    BY DEF RedDeliveryIntact, Data, Red
  <1>1. DeliveryOK(e, i)
    BY DEF LinkInv, DeliveryInv
  <1>2. \/ d.data = Data(d.key)
        \/ d.data = <<>> /\ \E j \in 1 .. i - 1 : delivered[e][j] = [key |-> d.key, data |-> Data(d.key)]
    BY <1>1 DEF DeliveryOK
  <1>3. d \in [key : Engine \X Nat, data : Seq(Byte \cup {Zero})]
    <2>1. PICK T : T = [key : Engine \X Nat, data : Seq(Byte \cup {Zero})]
      OBVIOUS
    <2>2. delivered[e] \in Seq(T)
      BY <2>1 DEF LinkInv, BaseInv
    <2>3. d \in T
      BY <2>2
    <2>. QED  BY <2>1, <2>3
  <1>4. [key |-> d.key, data |-> Data(d.key)] = [d EXCEPT !.data = Data(d.key)]
    BY <1>3
  <1>. QED  BY <1>2, <1>4

\* While no application has called cancel_session, no delivery of a red block
\* hands its client anything but the block, save an empty one once more after it
\* (receive_report_ack on a session that came back after its delivery).
THEOREM RedIsIntact == Spec => [](cancels = 0 => RedDeliveryIntact)
  BY LinkInvariant, RedIntact, PTL

(* The invariant gives: bytes of a green block are delivered in their place. *)
LEMMA GreenPlaced ==
  ASSUME LinkInv
  PROVE  GreenDeliveryPlaced
  <1> SUFFICES ASSUME NEW e \in Engine, NEW i \in DOMAIN delivered[e], NEW d, d = delivered[e][i],
                      ~Red(d.key)
               PROVE  /\ Len(d.data) = Len(Data(d.key))
                      /\ \A j \in DOMAIN d.data : d.data[j] \in {Data(d.key)[j], Zero}
    BY DEF GreenDeliveryPlaced, Data, Red
  <1>1. DeliveryOK(e, i)
    BY DEF LinkInv, DeliveryInv
  <1>. QED  BY <1>1 DEF DeliveryOK

\* A green block is delivered at its length, every byte in its place or a zero
\* for a lost one (receive_green_eob).
THEOREM GreenIsPlaced == Spec => []GreenDeliveryPlaced
  BY LinkInvariant, GreenPlaced, PTL

\* A red block is delivered whole or not at all, even where an application cancels
\* one end of the session: no prefix of a block and no block with holes in it
\* reaches the client (is_complete in receive_report_ack).
RedWholeOrEmpty ==
  \A e \in Engine : \A i \in DOMAIN delivered[e] :
     LET d == delivered[e][i] IN Red(d.key) => d.data \in {Data(d.key), <<>>}

\* RedWholeOrEmpty holds for every block, whatever is lost or cancelled.
THEOREM RedIsWholeOrEmpty == Spec => []RedWholeOrEmpty
  <1>1. LinkInv => RedWholeOrEmpty
    BY DEF LinkInv, DeliveryInv, DeliveryOK, RedWholeOrEmpty
  <1>. QED  BY <1>1, LinkInvariant, PTL

\* A session makes at most max_retransmissions retransmissions, each under a new
\* checkpoint serial, provided that retransmission_count, a uint8_t, can count
\* past the limit: with max_retransmissions at its greatest value it wraps around
\* instead (handle_timer_expiry, receive_report_segment).
THEOREM RetriesAreBounded ==
  ASSUME max_retransmissions < CountModulus - 1
  PROVE  Spec => []RetriesBounded
  <1>1. ASSUME LinkInv PROVE RetriesBounded
    <2> SUFFICES ASSUME NEW e \in Engine, NEW k \in DOMAIN sessions_[e], NEW s, s = sessions_[e][k]
                 PROVE  s.checkpoint_serial_counter <= max_retransmissions + 1
      BY DEF RetriesBounded
    <2>1. OwnOK(k, s) \/ PeerOK(k, s)
      BY <1>1, EndsOfSession DEF LinkInv
    <2>2. CASE OwnOK(k, s)
      <3>1. PICK c \in Nat, r \in Nat : c = s.checkpoint_serial_counter /\ r = s.retransmission_count
        BY <2>2, ConfigFacts DEF OwnOK, Session
      <3>2. r <= max_retransmissions /\ c = r + 1
        BY <2>2, <3>1 DEF OwnOK
      <3>. QED  BY <3>1, <3>2, ConfigFacts
    <2>3. CASE PeerOK(k, s)
      BY <2>3, ConfigFacts DEF PeerOK
    <2>. QED  BY <2>1, <2>2, <2>3
  <1>2. LinkInv => RetriesBounded
    BY <1>1
  <1>. QED  BY <1>2, LinkInvariant, PTL

-----------------------------------------------------------------------------
(* What a step does to the outcomes: it appends an open or sent block, or    *)
(* settles that of a session it still has.                                   *)
OutcomeStep(e) ==
  \/ given' = given
  \/ \E b : given' = [given EXCEPT ![e] = Append(@, b)]
  \/ \E k, how : Known(e, k) /\ k[1] = e /\ Outcome(e, k, how)

(* A step settles at most one session, of the engine that takes it.          *)
LEMMA NextOutcome ==
  ASSUME LinkInv, NEW e \in Engine,
         StartBlock(e) \/ Receive(e) \/ Lose(e) \/ Expire(e) \/ HandleExpiry(e) \/ CancelByUser(e)
  PROVE  OutcomeStep(e)
  <1>1. CASE StartBlock(e)
    BY <1>1 DEF StartBlock, start_session, OutcomeStep
  <1>2. CASE Receive(e)
    <2>1. CASE receive_report_segment(e)
      <3>1. PICK m, k : m = Head(net[e]) /\ k = <<e, m.key[2]>>
        OBVIOUS
      <3>2. Known(e, k) /\ k[1] = e /\ (given' = given \/ \E how : Outcome(e, k, how))
        BY <2>1, <3>1 DEF receive_report_segment, GiveUp
      <3>. QED  BY <3>2 DEF OutcomeStep
    <2>2. CASE receive_cancel_segment(e)
      <3>1. PICK k : k = Head(net[e]).key
        OBVIOUS
      <3>2. given' = given \/ (Known(e, k) /\ k[1] = e /\ Outcome(e, k, "failed"))
        BY <2>2, <3>1 DEF receive_cancel_segment, CancelledOutcome
      <3>. QED  BY <3>2 DEF OutcomeStep
    <2>3. CASE \/ receive_data_dropped(e) \/ receive_data_segment(e) \/ receive_green_eob(e)
               \/ receive_report_unknown(e) \/ receive_report_ack(e) \/ receive_cancel_ack(e)
      <3>1. given' = given
        BY <2>3 DEF receive_data_dropped, receive_data_segment, receive_green_eob,
                    receive_report_unknown, receive_report_ack, receive_cancel_ack
      <3>. QED  BY <3>1 DEF OutcomeStep
    <2>. QED  BY <1>2, <2>1, <2>2, <2>3 DEF Receive, receive_segment
  <1>3. CASE Lose(e) \/ Expire(e)
    BY <1>3 DEF Lose, Expire, timer_pop, OutcomeStep
  <1>4. CASE HandleExpiry(e)
    <2>1. PICK ev, k : ev = firing[e][1] /\ k = ev.key
      OBVIOUS
    <2>2. \/ given' = given
          \/ /\ firing[e] # <<>> /\ ev.type = "CHECKPOINT" /\ Known(e, k)
             /\ Outcome(e, k, "failed")
      BY <1>4, <2>1 DEF HandleExpiry, handle_timer_expiry, GiveUp
    <2>3. ASSUME firing[e] # <<>>, ev.type = "CHECKPOINT" PROVE k[1] = e
      <3>1. firing[e] \in Seq(ToSet(firing[e]))
        BY DEF LinkInv, BaseInv
      <3>2. ev \in ToSet(firing[e])
        BY <2>1, <2>3, <3>1, TailIs
      <3>3. EventOK(e, ev)
        BY <3>2 DEF LinkInv, TimerInv
      <3>4. k \in Issued(e)
        BY <2>1, <2>3, <3>3 DEF EventOK
      <3>. QED  BY <3>4, IssuedFacts
    <2>. QED  BY <2>2, <2>3 DEF OutcomeStep
  <1>5. CASE CancelByUser(e)
    BY <1>5 DEF CancelByUser, cancel_session, CancelledOutcome, OutcomeStep
  <1>. QED  BY <1>1, <1>2, <1>3, <1>4, <1>5

(* An outcome that was settled is not settled again.                         *)
LEMMA OutcomeKept ==
  ASSUME LinkInv, NEW e \in Engine, OutcomeStep(e), NEW x \in Engine, NEW i \in DOMAIN given[x],
         given[x][i].outcome # "open"
  PROVE  given'[x][i].outcome = given[x][i].outcome
  <1>1. BaseInv /\ SessionInv /\ given \in [Engine -> Seq(BlockRecord)]
    BY DEF LinkInv, BaseInv
  <1>2. given[x] \in Seq(BlockRecord) /\ given[e] \in Seq(BlockRecord) /\ i \in 1 .. Len(given[x])
    BY <1>1
  <1>3. CASE given' = given
    BY <1>3
  <1>4. CASE \E b : given' = [given EXCEPT ![e] = Append(@, b)]
    <2>1. PICK b, g : g = Append(given[e], b) /\ given' = [given EXCEPT ![e] = g]
      BY <1>4
    <2>2. \A j \in 1 .. Len(given[e]) : g[j] = given[e][j]
      BY <1>2, <2>1
    <2>. QED  BY <1>1, <1>2, <2>1, <2>2
  <1>5. CASE \E k, how : Known(e, k) /\ k[1] = e /\ Outcome(e, k, how)
    <2>1. PICK k, how : Known(e, k) /\ k[1] = e /\ Outcome(e, k, how)
      BY <1>5
    <2>2. k \in Issued(e)
      BY <1>1, <2>1, EndsOfSession, IssuedFacts, PeerFacts DEF Known
    <2>3. BlockOf(k).outcome = "open" /\ BlockOf(k) = given[e][k[2]]
      BY <1>1, <2>1, <2>2, EndsOfSession, IssuedFacts DEF Known, OwnOK
    <2>4. PICK n : n = k[2]
      OBVIOUS
    <2>5. PICK c : c = [given[e][n] EXCEPT !.outcome = how]
      OBVIOUS
    <2>6. PICK g : g = [given[e] EXCEPT ![n] = c]
      OBVIOUS
    <2>7. given' = [given EXCEPT ![e] = g]
      BY <2>1, <2>4, <2>5, <2>6 DEF Outcome
    <2>8. x # e \/ i # n
      BY <2>3, <2>4
    <2>9. \A j \in 1 .. Len(given[e]) : j # n => g[j] = given[e][j]
      BY <1>2, <2>6
    <2>. QED  BY <1>1, <1>2, <2>7, <2>8, <2>9
  <1>. QED  BY <1>3, <1>4, <1>5 DEF OutcomeStep

\* A session that ended keeps its outcome, although reports, timers and cancels
\* cross: none fails after it completed or completes after it failed (the erase
\* of receive_report_segment and cancel_session is what later calls look up).
THEOREM OutcomesAreFinal == Spec => OutcomeFinal
  <1>1. LinkInv /\ [Next]_vars =>
          [\A e \in Engine : \A i \in DOMAIN given[e] :
              given[e][i].outcome # "open" => given'[e][i].outcome = given[e][i].outcome]_vars
    <2>1. ASSUME LinkInv, Next, NEW x \in Engine, NEW i \in DOMAIN given[x],
                 given[x][i].outcome # "open"
          PROVE  given'[x][i].outcome = given[x][i].outcome
      <3>1. PICK e \in Engine : OutcomeStep(e)
        BY <2>1, NextOutcome DEF Next
      <3>. QED  BY <2>1, <3>1, OutcomeKept
    <2>. QED  BY <2>1
  <1>. QED  BY <1>1, LinkInvariant, PTL DEF Spec, OutcomeFinal

-----------------------------------------------------------------------------
(* Originators that wait for a report.                                       *)

(* What a step does to the deliveries: the engine makes at most one more.    *)
DeliverStep(e) ==
  delivered' = delivered \/ \E d : delivered' = [delivered EXCEPT ![e] = Append(@, d)]

(* Only the end of a green block and an acknowledgement deliver.             *)
LEMMA NextDelivers ==
  ASSUME NEW e \in Engine,
         StartBlock(e) \/ Receive(e) \/ Lose(e) \/ Expire(e) \/ HandleExpiry(e) \/ CancelByUser(e)
  PROVE  DeliverStep(e)
  <1>1. CASE Receive(e)
    <2>1. CASE receive_green_eob(e) \/ receive_report_ack(e)
      BY <2>1 DEF receive_green_eob, receive_report_ack, Deliver, DeliverStep
    <2>2. CASE \/ receive_data_dropped(e) \/ receive_data_segment(e)
               \/ receive_report_unknown(e) \/ receive_report_segment(e)
               \/ receive_cancel_segment(e) \/ receive_cancel_ack(e)
      BY <2>2 DEF receive_data_dropped, receive_data_segment, receive_report_unknown,
                  receive_report_segment, receive_cancel_segment, receive_cancel_ack, DeliverStep
    <2>. QED  BY <1>1, <2>1, <2>2 DEF Receive, receive_segment
  <1>2. CASE StartBlock(e) \/ Lose(e) \/ Expire(e) \/ HandleExpiry(e) \/ CancelByUser(e)
    BY <1>2 DEF StartBlock, start_session, Lose, Expire, timer_pop, HandleExpiry,
                handle_timer_expiry, CancelByUser, cancel_session, DeliverStep
  <1>. QED  BY <1>1, <1>2

(* No step changes the bytes of a block.                                     *)
LEMMA OutcomeData ==
  ASSUME LinkInv, NEW e \in Engine, OutcomeStep(e), NEW x \in Engine, NEW k \in Issued(x)
  PROVE  Data(k)' = Data(k)
  <1>1. given \in [Engine -> Seq(BlockRecord)]
    BY DEF LinkInv, BaseInv
  <1>2. k[1] = x /\ k[2] \in 1 .. Len(given[x])
    BY IssuedFacts
  <1>3. PICK i : i = k[2]
    OBVIOUS
  <1>4. given[x] \in Seq(BlockRecord) /\ given[e] \in Seq(BlockRecord) /\ i \in 1 .. Len(given[x])
    BY <1>1, <1>2, <1>3
  <1>5. given'[x][i].data = given[x][i].data
    <2>1. CASE given' = given
      BY <2>1
    <2>2. CASE \E b : given' = [given EXCEPT ![e] = Append(@, b)]
      <3>1. PICK b, g : g = Append(given[e], b) /\ given' = [given EXCEPT ![e] = g]
        BY <2>2
      <3>2. \A j \in 1 .. Len(given[e]) : g[j] = given[e][j]
        BY <1>4, <3>1
      <3>. QED  BY <1>1, <1>4, <3>1, <3>2
    <2>3. CASE \E j, how : Known(e, j) /\ j[1] = e /\ Outcome(e, j, how)
      <3>1. PICK j, how : Outcome(e, j, how)
        BY <2>3
      <3>2. PICK n : n = j[2]
        OBVIOUS
      <3>3. PICK c : c = [given[e][n] EXCEPT !.outcome = how]
        OBVIOUS
      <3>4. PICK g : g = [given[e] EXCEPT ![n] = c]
        OBVIOUS
      <3>5. given' = [given EXCEPT ![e] = g]
        BY <3>1, <3>2, <3>3, <3>4 DEF Outcome
      <3>6. ASSUME NEW y \in 1 .. Len(given[e]) PROVE g[y].data = given[e][y].data
        <4>1. CASE y = n
          <5>1. given[e][y] \in BlockRecord
            BY <1>4
          <5>2. PICK b \in BlockRecord : b = given[e][y]
            BY <5>1
          <5>3. c = [b EXCEPT !.outcome = how]
            BY <3>3, <4>1, <5>2
          <5>4. c.data = b.data
            BY <5>3 DEF BlockRecord
          <5>5. g[y] = c
            BY <1>4, <3>4, <4>1
          <5>. QED  BY <5>2, <5>4, <5>5
        <4>2. CASE y # n
          BY <1>4, <3>4, <4>2
        <4>. QED  BY <4>1, <4>2
      <3>. QED  BY <1>1, <1>4, <3>5, <3>6
    <2>. QED  BY <2>1, <2>2, <2>3 DEF OutcomeStep
  <1>. QED  BY <1>2, <1>3, <1>5 DEF Data, BlockOf

(* A block that its client has stays delivered.                              *)
LEMMA IntactStays ==
  ASSUME LinkInv, NEW e \in Engine, OutcomeStep(e), DeliverStep(e),
         NEW x \in Engine, NEW k \in Issued(x), Intact(k)
  PROVE  Intact(k)'
  <1>1. k[1] = x /\ Peer(x) \in Engine
    BY IssuedFacts, PeerFacts
  <1>2. Data(k)' = Data(k)
    BY OutcomeData
  <1>3. PICK q \in Engine : q = Peer(x)
    BY <1>1
  <1>4. PICK i \in DOMAIN delivered[q] : delivered[q][i] = [key |-> k, data |-> Data(k)]
    BY <1>1, <1>3 DEF Intact, Data
  <1>5. DOMAIN delivered = Engine /\ \E T : delivered[q] \in Seq(T)
    BY DEF LinkInv, BaseInv
  <1>6. i \in DOMAIN delivered'[q] /\ delivered'[q][i] = delivered[q][i]
    <2>1. CASE delivered'[q] = delivered[q]
      BY <2>1
    <2>2. CASE \E d : delivered'[q] = Append(delivered[q], d)
      <3>1. PICK d, T : delivered'[q] = Append(delivered[q], d) /\ delivered[q] \in Seq(T)
        BY <1>5, <2>2
      <3>2. delivered[q] \in Seq(T \cup {d})
        BY <3>1, SeqMonotonic
      <3>. QED  BY <3>1, <3>2
    <2>. QED  BY <1>5, <2>1, <2>2 DEF DeliverStep
  <1>. QED  BY <1>1, <1>2, <1>3, <1>4, <1>6 DEF Intact, Data

(* A step leaves the other engine alone, and each originator of this one has *)
(* the timer it had, a new one, or its block delivered.                      *)
LEMMA CoveredStep ==
  ASSUME LinkInv, OriginatorCovered, NEW e \in Engine, OutcomeStep(e), DeliverStep(e),
         sessions_'[Peer(e)] = sessions_[Peer(e)], timers'[Peer(e)] = timers[Peer(e)],
         firing'[Peer(e)] = firing[Peer(e)],
         \A k \in DOMAIN sessions_'[e] : k[1] = e =>
           \/ k \in Issued(e) /\ Intact(k)
           \/ HasTimer(e, k, "CHECKPOINT")'
           \/ /\ k \in DOMAIN sessions_[e]
              /\ HasTimer(e, k, "CHECKPOINT") => HasTimer(e, k, "CHECKPOINT")'
  PROVE  OriginatorCovered'
  <1>1. Peer(e) \in Engine /\ Engine = {e, Peer(e)} /\ SessionInv /\ \A x \in Engine : Peer(x) \in Engine
    BY PeerFacts DEF LinkInv
  <1>2. ASSUME NEW x \in Engine, NEW k \in DOMAIN sessions_[x], k[1] = x
        PROVE  k \in Issued(x) /\ (HasTimer(x, k, "CHECKPOINT") \/ Intact(k))
    <2>1. k \in Issued(x) \/ k \in Issued(Peer(x))
      BY <1>1, EndsOfSession
    <2>2. k \in Issued(Peer(x)) => k[1] = Peer(x) /\ Peer(x) # x
      BY <1>1, IssuedFacts, PeerFacts
    <2>. QED  BY <1>2, <2>1, <2>2 DEF OriginatorCovered
  <1>3. ASSUME NEW x \in Engine, NEW k, k \in DOMAIN sessions_'[x], k[1] = x
        PROVE  HasTimer(x, k, "CHECKPOINT")' \/ Intact(k)'
    <2>1. CASE x = e
      <3>1. k \in Issued(e) /\ Intact(k) => Intact(k)'
        BY IntactStays
      <3>. QED  BY <1>2, <1>3, <2>1, <3>1
    <2>2. CASE x = Peer(e)
      <3>1. k \in DOMAIN sessions_[x]
        BY <1>3, <2>2
      <3>2. k \in Issued(x) /\ (HasTimer(x, k, "CHECKPOINT") \/ Intact(k))
        BY <1>2, <1>3, <3>1
      <3>3. Intact(k) => Intact(k)'
        BY <3>2, IntactStays
      <3>4. HasTimer(x, k, "CHECKPOINT") => HasTimer(x, k, "CHECKPOINT")'
        BY <2>2 DEF HasTimer
      <3>. QED  BY <3>2, <3>3, <3>4
    <2>. QED  BY <1>1, <2>1, <2>2
  <1>. QED  BY <1>3 DEF OriginatorCovered

(* The timers a handler leaves: the events of ts, and one for what it sends  *)
(* that is timed.                                                            *)
LEMMA TimersAfter ==
  ASSUME LinkInv, NEW e \in Engine, NEW ss, NEW ts, NEW rest, NEW out, Proceed(e, ss, ts, rest, out),
         ts \in Seq(ToSet(ts)), ToSet(ts) \subseteq ToSet(timers[e])
  PROVE  /\ sessions_'[e] = ss /\ sessions_'[Peer(e)] = sessions_[Peer(e)]
         /\ timers'[Peer(e)] = timers[Peer(e)]
         /\ \A t \in ToSet(ts) : \E u \in ToSet(timers'[e]) : u.event = t.event
         /\ (\E m \in ToSet(out) : Timed(m)) =>
              \E m \in ToSet(out) : Timed(m) /\ \E u \in ToSet(timers'[e]) : u.event = EventFor(m)
  <1>1. Peer(e) \in Engine /\ Peer(e) # e
    BY PeerFacts
  <1>2. DOMAIN sessions_ = Engine /\ DOMAIN timers = Engine
    BY DEF LinkInv, BaseInv
  <1>3. PICK r : r = SendTimers(ts, out)
    OBVIOUS
  <1>4. timers'[e] = r /\ timers'[Peer(e)] = timers[Peer(e)]
    BY <1>1, <1>2, <1>3 DEF Proceed
  <1>5. sessions_'[e] = ss /\ sessions_'[Peer(e)] = sessions_[Peer(e)]
    BY <1>1, <1>2 DEF Proceed
  <1>6. \A t \in ToSet(ts) : IsTimer(t)
    BY DEF LinkInv, TimerInv, IsTimer
  <1>7. /\ \A t \in ToSet(ts) : \E u \in ToSet(r) : u.event = t.event
        /\ (\E m \in ToSet(out) : Timed(m)) =>
             \E m \in ToSet(out) : Timed(m) /\ \E u \in ToSet(r) : u.event = EventFor(m)
    BY <1>3, <1>6, SendTimersIs
  <1>. QED  BY <1>4, <1>5, <1>7

(* The session k keeps the checkpoint timers that it had.                    *)
KeepsTimers(e, k, ts) ==
  /\ \A t \in ToSet(timers[e]) : (t.event.key = k /\ t.event.type = "CHECKPOINT") => t \in ToSet(ts)
  /\ \A ev \in ToSet(firing[e]) :
       (ev.key = k /\ ev.type = "CHECKPOINT") => ev \in ToSet(firing'[e])
(* A checkpoint is sent for the session k, and nothing else that is timed.   *)
SendsCheckpoint(k, out) ==
  /\ \E m \in ToSet(out) : Timed(m)
  /\ \A m \in ToSet(out) : Timed(m) => m.key = k /\ m.type # "REPORT"

(* A handler covers its originators when each of them keeps its timers, has  *)
(* sent a checkpoint, or has its block delivered.                            *)
LEMMA ProceedCovers ==
  ASSUME LinkInv, OriginatorCovered, NEW e \in Engine, OutcomeStep(e), DeliverStep(e),
         NEW ss, NEW ts, NEW rest, NEW out, Proceed(e, ss, ts, rest, out),
         ts \in Seq(ToSet(ts)), ToSet(ts) \subseteq ToSet(timers[e]),
         firing' = firing \/ firing' = [firing EXCEPT ![e] = <<>>],
         \A k \in DOMAIN ss : k[1] = e =>
           \/ k \in Issued(e) /\ Intact(k)
           \/ k \in DOMAIN sessions_[e] /\ KeepsTimers(e, k, ts)
           \/ SendsCheckpoint(k, out)
  PROVE  OriginatorCovered'
  <1>1. /\ sessions_'[e] = ss /\ sessions_'[Peer(e)] = sessions_[Peer(e)]
        /\ timers'[Peer(e)] = timers[Peer(e)]
        /\ \A t \in ToSet(ts) : \E u \in ToSet(timers'[e]) : u.event = t.event
        /\ (\E m \in ToSet(out) : Timed(m)) =>
             \E m \in ToSet(out) : Timed(m) /\ \E u \in ToSet(timers'[e]) : u.event = EventFor(m)
    BY TimersAfter
  <1>2. firing'[Peer(e)] = firing[Peer(e)]
    <2>1. Peer(e) \in Engine /\ Peer(e) # e /\ DOMAIN firing = Engine
      BY PeerFacts DEF LinkInv, BaseInv
    <2>. QED  BY <2>1
  <1>3. ASSUME NEW k, NEW u \in ToSet(timers'[e]), u.event.key = k, u.event.type = "CHECKPOINT"
        PROVE  HasTimer(e, k, "CHECKPOINT")'
    BY <1>3 DEF HasTimer, ToSet
  <1>4. ASSUME NEW k, KeepsTimers(e, k, ts), HasTimer(e, k, "CHECKPOINT")
        PROVE  HasTimer(e, k, "CHECKPOINT")'
    <2>1. CASE \E i \in DOMAIN timers[e] : timers[e][i].event.key = k /\ timers[e][i].event.type = "CHECKPOINT"
      <3>1. PICK t \in ToSet(timers[e]) : t.event.key = k /\ t.event.type = "CHECKPOINT"
        BY <2>1 DEF ToSet
      <3>2. PICK u \in ToSet(timers'[e]) : u.event = t.event
        BY <1>1, <1>4, <3>1 DEF KeepsTimers
      <3>. QED  BY <1>3, <3>1, <3>2
    <2>2. CASE \E i \in DOMAIN firing[e] : firing[e][i].key = k /\ firing[e][i].type = "CHECKPOINT"
      <3>1. PICK ev \in ToSet(firing[e]) : ev.key = k /\ ev.type = "CHECKPOINT"
        BY <2>2 DEF ToSet
      <3>2. ev \in ToSet(firing'[e])
        BY <1>4, <3>1 DEF KeepsTimers
      <3>. QED  BY <3>1, <3>2 DEF HasTimer, ToSet
    <2>. QED  BY <1>4, <2>1, <2>2 DEF HasTimer
  <1>5. ASSUME NEW k, SendsCheckpoint(k, out) PROVE HasTimer(e, k, "CHECKPOINT")'
    <2>1. PICK m \in ToSet(out) : Timed(m) /\ \E u \in ToSet(timers'[e]) : u.event = EventFor(m)
      BY <1>1, <1>5 DEF SendsCheckpoint
    <2>2. PICK u \in ToSet(timers'[e]) : u.event = EventFor(m)
      BY <2>1
    <2>3. EventFor(m) = Event("CHECKPOINT", k, m.checkpoint)
      BY <1>5, <2>1 DEF SendsCheckpoint, EventFor
    <2>. QED  BY <1>3, <2>2, <2>3 DEF Event
  <1>6. \A k \in DOMAIN sessions_'[e] : k[1] = e =>
          \/ k \in Issued(e) /\ Intact(k)
          \/ HasTimer(e, k, "CHECKPOINT")'
          \/ /\ k \in DOMAIN sessions_[e]
             /\ HasTimer(e, k, "CHECKPOINT") => HasTimer(e, k, "CHECKPOINT")'
    BY <1>1, <1>4, <1>5
  <1>. QED  BY <1>1, <1>2, <1>6, CoveredStep

(* A handler that cancels no timer of an originator, and adds none to its    *)
(* sessions.                                                                 *)
LEMMA SameCovers ==
  ASSUME LinkInv, OriginatorCovered, NEW e \in Engine, OutcomeStep(e), DeliverStep(e),
         NEW ss, NEW rest, NEW out, Proceed(e, ss, timers[e], rest, out), firing' = firing,
         \A k \in DOMAIN ss : k[1] = e => k \in DOMAIN sessions_[e]
  PROVE  OriginatorCovered'
  <1>1. PICK ts : ts = timers[e]
    OBVIOUS
  <1>2. ts \in Seq(ToSet(ts)) /\ ToSet(ts) \subseteq ToSet(timers[e])
    BY <1>1 DEF LinkInv, BaseInv
  <1>3. \A k : KeepsTimers(e, k, ts)
    BY <1>1 DEF KeepsTimers
  <1>. QED  BY <1>1, <1>2, <1>3, ProceedCovers

(* start_session covers the session that it starts.                          *)
LEMMA StartCovers ==
  ASSUME LinkInv, OriginatorCovered, NEW e \in Engine, StartBlock(e)
  PROVE  OriginatorCovered'
  <1>1. OutcomeStep(e) /\ DeliverStep(e)
    BY NextOutcome, NextDelivers
  <1>2. PICK data \in Block, red \in Modes : start_session(e, data, red)
    BY DEF StartBlock
  <1>3. data \in Seq(Byte) /\ red \in BOOLEAN
    BY LinkAssumption
  <1>4. PICK k, s : k = <<e, session_counter_[e] + 1>> /\ s = Originator(data, red)
    OBVIOUS
  <1>5. PICK out : out = segment_data(k, s, 1)
    OBVIOUS
  <1>6. PICK ss : ss = IF red THEN With(e, k, [s EXCEPT !.checkpoint_serial_counter = 1])
                              ELSE sessions_[e]
    OBVIOUS
  <1>7. PICK ts, rest : ts = timers[e] /\ rest = net[e]
    OBVIOUS
  <1>8. Proceed(e, ss, ts, rest, out) /\ firing' = firing
    BY <1>2, <1>4, <1>5, <1>6, <1>7 DEF start_session
  <1>9. ts \in Seq(ToSet(ts)) /\ ToSet(ts) \subseteq ToSet(timers[e])
    BY <1>7 DEF LinkInv, BaseInv
  <1>10. s.client_data = data /\ s.is_red = red
    BY <1>4 DEF Originator
  <1>11. /\ \A m \in ToSet(out) :
              /\ Piece(m, k, data)
              /\ m.type \in IF red THEN {"RED_DATA", "RED_DATA_CP_EORP_EOB"} ELSE GreenTypes
         /\ red => \E m \in ToSet(out) : m.type = "RED_DATA_CP_EORP_EOB"
    BY <1>3, <1>5, <1>10, segment_dataIs
  <1>12. red => SendsCheckpoint(k, out)
    <2>1. \A m \in ToSet(out) : m.key = k
      BY <1>11 DEF Piece
    <2>2. red => \A m \in ToSet(out) : m.type # "REPORT"
      BY <1>11
    <2>3. \A m \in ToSet(out) : m.type = "RED_DATA_CP_EORP_EOB" => Timed(m)
      BY DEF Timed, CheckpointTypes
    <2>. QED  BY <1>11, <2>1, <2>2, <2>3 DEF SendsCheckpoint
  <1>13. \A j : KeepsTimers(e, j, ts)
    BY <1>7, <1>8 DEF KeepsTimers
  <1>14. \A j \in DOMAIN ss : j \in DOMAIN sessions_[e] \/ (red /\ j = k)
    BY <1>3, <1>6 DEF With
  <1>15. \A j \in DOMAIN ss : j[1] = e =>
           \/ j \in Issued(e) /\ Intact(j)
           \/ j \in DOMAIN sessions_[e] /\ KeepsTimers(e, j, ts)
           \/ SendsCheckpoint(j, out)
    BY <1>12, <1>13, <1>14
  <1>. QED  BY <1>1, <1>8, <1>9, <1>15, ProceedCovers

(* A session whose key begins with its engine is an originator's.            *)
LEMMA OwnKey ==
  ASSUME LinkInv, NEW e \in Engine, NEW k \in DOMAIN sessions_[e], k[1] = e
  PROVE  k \in Issued(e) /\ k = <<e, k[2]>>
  <1>1. SessionInv /\ Peer(e) \in Engine /\ Peer(e) # e
    BY PeerFacts DEF LinkInv
  <1>2. k \in Issued(e)
    BY <1>1, EndsOfSession, IssuedFacts
  <1>. QED  BY <1>2, IssuedFacts

(* A report stops the timer of its checkpoint only when the originator goes  *)
(* on without it: it ends, it sends a new checkpoint, or the report left     *)
(* nothing out and the block is delivered.                                   *)
LEMMA ReportCovers ==
  ASSUME LinkInv, OriginatorCovered, cancels = 0, NEW e \in Engine, receive_report_segment(e),
         OutcomeStep(e), DeliverStep(e)
  PROVE  OriginatorCovered'
  <1>1. BaseInv /\ SessionInv
    BY DEF LinkInv
  <1>2. net[e] # <<>>
    BY DEF receive_report_segment, Arrives
  <1>3. PICK m, k, s : m = Head(net[e]) /\ k = <<e, m.key[2]>> /\ s = sessions_[e][k]
    OBVIOUS
  <1>4. PICK ack : ack = <<ReportAck(m.key, m.report)>>
    OBVIOUS
  <1>5. PICK ev : ev = Event("CHECKPOINT", k, m.checkpoint)
    OBVIOUS
  <1>6. PICK ts : ts = CancelTimer(timers[e], ev)
    OBVIOUS
  <1>7. PICK gaps : gaps = MaximalRanges((0 .. m.upper - 1) \ m.claims)
    OBVIOUS
  <1>8. PICK count, serial : count = RetryCount(s) /\ serial = s.checkpoint_serial_counter + 1
    OBVIOUS
  <1>9. PICK rest : rest = Tail(net[e])
    OBVIOUS
  <1>10. PICK again : again = retransmit_gaps(k, s, gaps, serial)
    OBVIOUS
  <1>11. /\ Known(e, k) /\ m.type = "REPORT" /\ firing' = firing
         /\ \/ Proceed(e, Erased(e, k), ts, rest, ack)
            \/ /\ ~Covers(m.claims, s.total_data_length) /\ gaps = <<>>
               /\ Proceed(e, sessions_[e], ts, rest, ack)
            \/ Proceed(e, Erased(e, k), ts, rest, ack \o <<CancelSegment(k, "CANCEL_BY_SENDER")>>)
            \/ /\ gaps # <<>>
               /\ Proceed(e, With(e, k, [s EXCEPT !.retransmission_count = count,
                                                  !.checkpoint_serial_counter = serial]),
                          ts, rest, ack \o again)
    BY <1>3, <1>4, <1>5, <1>6, <1>7, <1>8, <1>9, <1>10 DEF receive_report_segment, Arrives, GiveUp
  <1>12. /\ k \in Issued(e) /\ m.key = k /\ Told(m)
         /\ m.upper \in 0 .. Len(Data(k)) /\ m.claims \subseteq 0 .. Len(Data(k)) - 1
    BY <1>2, <1>3, <1>11, ReportArrives
  <1>13. /\ OwnOK(k, s) /\ Data(k) \in Seq(Byte) /\ Len(Data(k)) \in Nat
         /\ s.client_data = Data(k) /\ s.total_data_length = Len(Data(k))
    BY <1>1, <1>3, <1>11, <1>12, EndsOfSession, BlockFacts DEF Known, OwnOK
  <1>14. /\ ts \in Seq(ToSet(ts)) /\ ToSet(ts) \subseteq ToSet(timers[e])
         /\ \A t \in ToSet(timers[e]) : ~SameTimerKey(t.event, ev) => t \in ToSet(ts)
    <2>1. PICK tt : tt = timers[e]
      OBVIOUS
    <2>2. tt \in Seq(ToSet(tt))
      BY <1>1, <2>1 DEF BaseInv
    <2>. QED  BY <1>6, <2>1, <2>2, CancelTimerKeeps
  <1>15. ASSUME NEW j \in DOMAIN sessions_[e], j[1] = e, j # k PROVE KeepsTimers(e, j, ts)
    <2>1. j = <<e, j[2]>>
      BY <1>15, OwnKey
    <2>2. j[2] # m.key[2]
      BY <1>3, <1>15, <2>1
    <2>3. ASSUME NEW t \in ToSet(timers[e]), t.event.key = j PROVE t \in ToSet(ts)
      <3>1. ev.key[2] = m.key[2]
        BY <1>3, <1>5 DEF Event
      <3>2. ~SameTimerKey(t.event, ev)
        BY <2>2, <2>3, <3>1 DEF SameTimerKey
      <3>. QED  BY <1>14, <3>2
    <2>. QED  BY <1>11, <2>3 DEF KeepsTimers
  <1>16. ASSUME NEW out, Proceed(e, Erased(e, k), ts, rest, out) PROVE OriginatorCovered'
    <2>1. PICK ss : ss = Erased(e, k)
      OBVIOUS
    <2>2. \A j \in DOMAIN ss : j \in DOMAIN sessions_[e] /\ j # k
      BY <2>1 DEF Erased, Restrict
    <2>3. Proceed(e, ss, ts, rest, out)
      BY <1>16, <2>1
    <2>. QED  BY <1>11, <1>14, <1>15, <2>2, <2>3, ProceedCovers
  <1>17. CASE /\ ~Covers(m.claims, s.total_data_length) /\ gaps = <<>>
              /\ Proceed(e, sessions_[e], ts, rest, ack)
    <2>1. Intact(k)
      <3>1. PICK n \in Nat : n = Len(Data(k))
        BY <1>13
      <3>2. PICK u \in 0 .. n : u = m.upper
        BY <1>12, <3>1
      <3>3. m.claims \subseteq 0 .. n - 1 /\ gaps = MaximalRanges((0 .. u - 1) \ m.claims)
        BY <1>7, <1>12, <3>1, <3>2
      <3>4. ~Covers(m.claims, n)
        BY <1>13, <1>17, <3>1
      <3>5. ~(u .. n - 1 \subseteq m.claims)
        BY <1>17, <3>3, <3>4, BehindGaps
      <3>. QED  BY <1>12, <3>1, <3>2, <3>5 DEF Told
    <2>2. PICK ss : ss = sessions_[e]
      OBVIOUS
    <2>3. Proceed(e, ss, ts, rest, ack)
      BY <1>17, <2>2
    <2>4. \A j \in DOMAIN ss : j[1] = e =>
            (j \in Issued(e) /\ Intact(j)) \/ (j \in DOMAIN sessions_[e] /\ KeepsTimers(e, j, ts))
      BY <1>12, <1>15, <2>1, <2>2
    <2>. QED  BY <1>11, <1>14, <2>3, <2>4, ProceedCovers
  <1>18. CASE /\ gaps # <<>>
              /\ Proceed(e, With(e, k, [s EXCEPT !.retransmission_count = count,
                                                 !.checkpoint_serial_counter = serial]),
                         ts, rest, ack \o again)
    <2>1. PICK t : t = [s EXCEPT !.retransmission_count = count,
                                 !.checkpoint_serial_counter = serial]
      OBVIOUS
    <2>2. PICK ss : ss = With(e, k, t)
      OBVIOUS
    <2>3. PICK out : out = ack \o again
      OBVIOUS
    <2>4. /\ again \in Seq(ToSet(again))
          /\ \A x \in ToSet(again) : x.key = k /\ x.type \in {"RED_DATA", "RED_DATA_CP"}
          /\ \E x \in ToSet(again) : x.type = "RED_DATA_CP"
      <3>1. PICK u \in 0 .. Len(Data(k)) : u = m.upper
        BY <1>12
      <3>2. (0 .. u - 1) \ m.claims \subseteq 0 .. u - 1 /\ u \in Nat
        BY <1>13
      <3>3. gaps \in Seq(RangesBelow(u))
        BY <1>7, <3>1, <3>2, RangesWithin
      <3>4. gaps # <<>> /\ s.client_data \in Seq(Byte) /\ u \in 0 .. Len(s.client_data)
        BY <1>13, <1>18
      <3>5. /\ again \in Seq(ToSet(again))
            /\ \A x \in ToSet(again) :
                 Piece(x, k, s.client_data) /\ x.type \in {"RED_DATA", "RED_DATA_CP"}
            /\ \E x \in ToSet(again) : x.type = "RED_DATA_CP"
        BY <1>10, <3>3, <3>4, retransmit_gapsIs
      <3>. QED  BY <3>5 DEF Piece
    <2>5. PICK a : a = ReportAck(m.key, m.report)
      OBVIOUS
    <2>6. ack = <<a>> /\ ack \in Seq(ToSet(ack)) /\ ToSet(ack) = {a} /\ a.type = "REPORT_ACK"
      BY <1>4, <2>5, OneMember DEF ReportAck
    <2>7. ToSet(out) = {a} \cup ToSet(again)
      <3>1. ToSet(ack \o again) = ToSet(ack) \cup ToSet(again)
        BY <2>4, <2>6, ConcatMembers
      <3>. QED  BY <2>6, <2>3, <3>1
    <2>8. SendsCheckpoint(k, out)
      <3>1. ~Timed(a)
        BY <2>6 DEF Timed, CheckpointTypes
      <3>2. \A x \in ToSet(again) : x.type = "RED_DATA_CP" => Timed(x)
        BY DEF Timed, CheckpointTypes
      <3>. QED  BY <2>4, <2>7, <3>1, <3>2 DEF SendsCheckpoint
    <2>9. \A j \in DOMAIN ss : j \in DOMAIN sessions_[e] \/ j = k
      BY <2>2 DEF With
    <2>10. Proceed(e, ss, ts, rest, out)
      BY <1>18, <2>1, <2>2, <2>3
    <2>11. \A j \in DOMAIN ss : j[1] = e =>
             (j \in DOMAIN sessions_[e] /\ KeepsTimers(e, j, ts)) \/ SendsCheckpoint(j, out)
      BY <1>15, <2>8, <2>9
    <2>. QED  BY <1>11, <1>14, <2>10, <2>11, ProceedCovers
  <1>. QED  BY <1>11, <1>16, <1>17, <1>18

(* An acknowledgement stops the timer of a report, not that of a checkpoint. *)
LEMMA AckCovers ==
  ASSUME LinkInv, OriginatorCovered, NEW e \in Engine, receive_report_ack(e),
         OutcomeStep(e), DeliverStep(e)
  PROVE  OriginatorCovered'
  <1>1. PICK m, ev, ts, tt : /\ m = Head(net[e]) /\ ev = Event("REPORT_SEGMENT", m.key, m.report)
                             /\ tt = timers[e] /\ ts = CancelTimer(tt, ev)
    OBVIOUS
  <1>2. PICK rest : rest = Tail(net[e])
    OBVIOUS
  <1>3. /\ firing' = firing
        /\ \/ Proceed(e, sessions_[e], tt, rest, <<>>)
           \/ Proceed(e, sessions_[e], ts, rest, <<>>)
           \/ Proceed(e, Erased(e, m.key), ts, rest, <<>>)
    BY <1>1, <1>2 DEF receive_report_ack
  <1>4. tt \in Seq(ToSet(tt))
    BY <1>1 DEF LinkInv, BaseInv
  <1>5. /\ ts \in Seq(ToSet(ts)) /\ ToSet(ts) \subseteq ToSet(tt)
        /\ \A t \in ToSet(tt) : ~SameTimerKey(t.event, ev) => t \in ToSet(ts)
    BY <1>1, <1>4, CancelTimerKeeps
  <1>6. ASSUME NEW t, t.event.type = "CHECKPOINT" PROVE ~SameTimerKey(t.event, ev)
    BY <1>1, <1>6 DEF SameTimerKey, Event
  <1>7. \A j : KeepsTimers(e, j, ts) /\ KeepsTimers(e, j, tt)
    BY <1>1, <1>3, <1>5, <1>6 DEF KeepsTimers
  <1>8. PICK ss, us : /\ Proceed(e, ss, us, rest, <<>>) /\ us \in {ts, tt}
                      /\ ss \in {sessions_[e], Erased(e, m.key)}
    BY <1>3
  <1>9. \A j \in DOMAIN ss : j \in DOMAIN sessions_[e]
    BY <1>8, ErasedIs
  <1>10. /\ us \in Seq(ToSet(us)) /\ ToSet(us) \subseteq ToSet(timers[e])
         /\ \A j : KeepsTimers(e, j, us)
    BY <1>1, <1>4, <1>5, <1>7, <1>8
  <1>. QED  BY <1>3, <1>8, <1>9, <1>10, ProceedCovers

(* No other segment that arrives touches a checkpoint timer.                 *)
LEMMA ReceiveCovers ==
  ASSUME LinkInv, OriginatorCovered, cancels = 0, NEW e \in Engine, Receive(e)
  PROVE  OriginatorCovered'
  <1>1. OutcomeStep(e) /\ DeliverStep(e) /\ receive_segment(e)
    BY NextOutcome, NextDelivers DEF Receive
  <1>2. CASE receive_data_dropped(e)
    <2>1. sessions_' = sessions_ /\ timers' = timers /\ firing' = firing
      BY <1>2 DEF receive_data_dropped
    <2>2. \A k : HasTimer(e, k, "CHECKPOINT") => HasTimer(e, k, "CHECKPOINT")'
      BY <2>1 DEF HasTimer
    <2>. QED  BY <1>1, <2>1, <2>2, CoveredStep
  <1>3. CASE receive_data_segment(e)
    <2>1. PICK m : m = Head(net[e])
      OBVIOUS
    <2>2. net[e] # <<>> /\ m.type \in DataTypes
      BY <1>3, <2>1 DEF receive_data_segment, Arrives, DataTypes, GreenTypes
    <2>3. m.key[1] # e
      <3>1. m.key \in Issued(Peer(e))
        BY <2>1, <2>2, HeadArrives
           DEF SegmentOK, DataTypes, RedTypes, GreenTypes, CancelAckTypes
      <3>. QED  BY <3>1, IssuedFacts, PeerFacts
    <2>4. firing' = firing /\ \E s, out : Proceed(e, With(e, m.key, s), timers[e], Tail(net[e]), out)
      BY <1>3, <2>1 DEF receive_data_segment
    <2>5. PICK ss, s, rest, out : ss = With(e, m.key, s) /\ Proceed(e, ss, timers[e], rest, out)
      BY <2>4
    <2>6. \A k \in DOMAIN ss : k[1] = e => k \in DOMAIN sessions_[e]
      BY <2>3, <2>5 DEF With
    <2>. QED  BY <1>1, <2>4, <2>5, <2>6, SameCovers
  <1>4. CASE receive_green_eob(e) \/ receive_cancel_segment(e)
    <2>1. firing' = firing /\ \E k, rest, out : Proceed(e, Erased(e, k), timers[e], rest, out)
      BY <1>4 DEF receive_green_eob, receive_cancel_segment
    <2>2. PICK ss, k, rest, out : ss = Erased(e, k) /\ Proceed(e, ss, timers[e], rest, out)
      BY <2>1
    <2>3. \A j \in DOMAIN ss : j \in DOMAIN sessions_[e]
      BY <2>2 DEF Erased, Restrict
    <2>. QED  BY <1>1, <2>1, <2>2, <2>3, SameCovers
  <1>5. CASE receive_report_unknown(e) \/ receive_cancel_ack(e)
    <2>1. firing' = firing /\ \E rest, out : Proceed(e, sessions_[e], timers[e], rest, out)
      BY <1>5 DEF receive_report_unknown, receive_cancel_ack
    <2>2. PICK ss, rest, out : ss = sessions_[e] /\ Proceed(e, ss, timers[e], rest, out)
      BY <2>1
    <2>. QED  BY <1>1, <2>1, <2>2, SameCovers
  <1>6. CASE receive_report_segment(e)
    BY <1>1, <1>6, ReportCovers
  <1>7. CASE receive_report_ack(e)
    BY <1>1, <1>7, AckCovers
  <1>. QED  BY <1>1, <1>2, <1>3, <1>4, <1>5, <1>6, <1>7 DEF receive_segment

(* A timer that the timer thread takes is still to be handled.               *)
LEMMA ExpireCovers ==
  ASSUME LinkInv, OriginatorCovered, NEW e \in Engine, Expire(e)
  PROVE  OriginatorCovered'
  <1>1. OutcomeStep(e) /\ DeliverStep(e)
    BY NextOutcome, NextDelivers
  <1>2. /\ firing[e] = <<>> /\ timers[e] # <<>> /\ sessions_' = sessions_
        /\ firing' = [firing EXCEPT ![e] = <<Head(timers[e]).event>>]
        /\ timers' = [timers EXCEPT ![e] = Tail(timers[e])]
    BY DEF Expire, timer_pop
  <1>3. Peer(e) \in Engine /\ Peer(e) # e /\ DOMAIN timers = Engine /\ DOMAIN firing = Engine
    BY PeerFacts DEF LinkInv, BaseInv
  <1>4. PICK tt, h, ev : tt = timers[e] /\ h = Head(tt) /\ ev = h.event
    OBVIOUS
  <1>5. timers'[e] = Tail(tt) /\ firing'[e] = <<ev>>
    BY <1>2, <1>3, <1>4
  <1>6. ToSet(tt) = {h} \cup ToSet(Tail(tt))
    <2>1. tt \in Seq(ToSet(tt)) /\ tt # <<>>
      BY <1>2, <1>4 DEF LinkInv, BaseInv
    <2>. QED  BY <1>4, <2>1, TailIs
  <1>7. ASSUME NEW k, HasTimer(e, k, "CHECKPOINT") PROVE HasTimer(e, k, "CHECKPOINT")'
    <2>1. PICK t \in ToSet(tt) : t.event.key = k /\ t.event.type = "CHECKPOINT"
      BY <1>2, <1>4, <1>7 DEF HasTimer, ToSet
    <2>2. CASE t = h
      <3>1. 1 \in DOMAIN firing'[e] /\ firing'[e][1] = ev
        BY <1>5
      <3>. QED  BY <1>4, <2>1, <2>2, <3>1 DEF HasTimer
    <2>3. CASE t \in ToSet(Tail(tt))
      BY <1>5, <2>1, <2>3 DEF HasTimer, ToSet
    <2>. QED  BY <1>6, <2>1, <2>2, <2>3
  <1>8. timers'[Peer(e)] = timers[Peer(e)] /\ firing'[Peer(e)] = firing[Peer(e)]
    BY <1>2, <1>3
  <1>. QED  BY <1>1, <1>2, <1>7, <1>8, CoveredStep

(* handle_timer_expiry ends its session or sends a new checkpoint for it.    *)
LEMMA ExpiryCovers ==
  ASSUME LinkInv, OriginatorCovered, NEW e \in Engine, HandleExpiry(e)
  PROVE  OriginatorCovered'
  <1>1. OutcomeStep(e) /\ DeliverStep(e) /\ BaseInv /\ SessionInv
    BY NextOutcome, NextDelivers DEF LinkInv
  <1>2. firing[e] # <<>> /\ firing' = [firing EXCEPT ![e] = <<>>]
    BY DEF HandleExpiry, handle_timer_expiry
  <1>3. PICK ff, ev, k, s : /\ ff = firing[e] /\ ev = ff[1] /\ k = ev.key
                            /\ s = sessions_[e][k]
    OBVIOUS
  <1>4. PICK ts, rest : ts = timers[e] /\ rest = net[e]
    OBVIOUS
  <1>5. PICK count, serial : count = RetryCount(s) /\ serial = s.checkpoint_serial_counter + 1
    OBVIOUS
  <1>6. \/ ~Known(e, k) /\ UNCHANGED <<sessions_, timers>>
        \/ Proceed(e, Erased(e, k), ts, rest, <<>> \o <<CancelSegment(k, "CANCEL_BY_SENDER")>>)
        \/ /\ Known(e, k) /\ ev.type = "CHECKPOINT"
           /\ Proceed(e, With(e, k, [s EXCEPT !.retransmission_count = count,
                                              !.checkpoint_serial_counter = serial]),
                      ts, rest, segment_data(k, s, serial))
        \/ /\ Known(e, k) /\ ev.type = "REPORT_SEGMENT"
           /\ \E t, out : Proceed(e, With(e, k, t), ts, rest, out)
        \/ ev.type = "REPORT_SEGMENT" /\ UNCHANGED <<sessions_, timers>>
    BY <1>3, <1>4, <1>5 DEF HandleExpiry, handle_timer_expiry, GiveUp
  <1>7. ToSet(ff) = {ev} /\ EventOK(e, ev)
    <2>1. ff \in Seq(ToSet(ff)) /\ ff # <<>> /\ Len(ff) <= 1
      BY <1>1, <1>2, <1>3 DEF BaseInv
    <2>2. Len(ff) \in Nat /\ Len(ff) >= 1
      BY <2>1, TailIs
    <2>3. Len(ff) = 1 /\ DOMAIN ff = 1 .. Len(ff)
      <3>1. PICK T : ff \in Seq(T)
        BY <2>1
      <3>2. DOMAIN ff = 1 .. Len(ff)
        BY <3>1
      <3>. QED  BY <2>1, <2>2, <3>2
    <2>4. ToSet(ff) = {ev}
      BY <1>3, <2>3 DEF ToSet
    <2>5. EventOK(e, ev)
      BY <1>3, <2>4 DEF LinkInv, TimerInv
    <2>. QED  BY <2>4, <2>5
  <1>8. ts \in Seq(ToSet(ts)) /\ ToSet(ts) \subseteq ToSet(timers[e])
    BY <1>1, <1>4 DEF BaseInv
  <1>9. ASSUME NEW j, j # k \/ ev.type # "CHECKPOINT" PROVE KeepsTimers(e, j, ts)
    BY <1>3, <1>4, <1>7, <1>9 DEF KeepsTimers
  <1>10. ASSUME UNCHANGED <<sessions_, timers>>, ~Known(e, k) \/ ev.type # "CHECKPOINT"
         PROVE  OriginatorCovered'
    <2>1. ASSUME NEW j \in DOMAIN sessions_[e], HasTimer(e, j, "CHECKPOINT")
          PROVE  HasTimer(e, j, "CHECKPOINT")'
      <3>1. \A i \in DOMAIN firing[e] : firing[e][i] = ev
        BY <1>3, <1>7 DEF ToSet
      <3>2. j # k \/ ev.type # "CHECKPOINT"
        BY <1>10, <2>1 DEF Known
      <3>3. \E i \in DOMAIN timers[e] : timers[e][i].event.key = j /\ timers[e][i].event.type = "CHECKPOINT"
        BY <1>3, <2>1, <3>1, <3>2 DEF HasTimer
      <3>. QED  BY <1>10, <3>3 DEF HasTimer
    <2>2. Peer(e) \in Engine /\ Peer(e) # e /\ DOMAIN firing = Engine
      BY <1>1, PeerFacts DEF BaseInv
    <2>3. firing'[Peer(e)] = firing[Peer(e)]
      BY <1>2, <2>2
    <2>. QED  BY <1>1, <1>10, <2>1, <2>3, CoveredStep
  <1>11. CASE Proceed(e, Erased(e, k), ts, rest, <<>> \o <<CancelSegment(k, "CANCEL_BY_SENDER")>>)
    <2>1. PICK ss : ss = Erased(e, k)
      OBVIOUS
    <2>2. PICK out : out = <<>> \o <<CancelSegment(k, "CANCEL_BY_SENDER")>>
      OBVIOUS
    <2>3. Proceed(e, ss, ts, rest, out)
      BY <1>11, <2>1, <2>2
    <2>4. \A j \in DOMAIN ss : j \in DOMAIN sessions_[e] /\ j # k
      BY <2>1 DEF Erased, Restrict
    <2>. QED  BY <1>1, <1>2, <1>8, <1>9, <2>3, <2>4, ProceedCovers
  <1>12. CASE /\ Known(e, k) /\ ev.type = "CHECKPOINT"
              /\ Proceed(e, With(e, k, [s EXCEPT !.retransmission_count = count,
                                                 !.checkpoint_serial_counter = serial]),
                         ts, rest, segment_data(k, s, serial))
    <2>1. PICK t : t = [s EXCEPT !.retransmission_count = count,
                                 !.checkpoint_serial_counter = serial]
      OBVIOUS
    <2>2. PICK ss : ss = With(e, k, t)
      OBVIOUS
    <2>3. PICK out : out = segment_data(k, s, serial)
      OBVIOUS
    <2>4. Proceed(e, ss, ts, rest, out)
      BY <1>12, <2>1, <2>2, <2>3
    <2>5. k \in Issued(e)
      BY <1>3, <1>7, <1>12 DEF EventOK
    <2>6. OwnOK(k, s) /\ Data(k) \in Seq(Byte)
      BY <1>1, <1>3, <1>12, <2>5, EndsOfSession, BlockFacts DEF Known
    <2>7. s.client_data \in Seq(Byte) /\ s.is_red \in BOOLEAN /\ s.is_red
      BY <2>6 DEF OwnOK, Session
    <2>8. /\ \A m \in ToSet(out) : Piece(m, k, s.client_data)
                                   /\ m.type \in {"RED_DATA", "RED_DATA_CP_EORP_EOB"}
          /\ \E m \in ToSet(out) : m.type = "RED_DATA_CP_EORP_EOB"
      BY <2>3, <2>7, segment_dataIs
    <2>9. SendsCheckpoint(k, out)
      <3>1. \A m \in ToSet(out) : m.key = k /\ m.type # "REPORT"
        BY <2>8 DEF Piece
      <3>2. \A m \in ToSet(out) : m.type = "RED_DATA_CP_EORP_EOB" => Timed(m)
        BY DEF Timed, CheckpointTypes
      <3>. QED  BY <2>8, <3>1, <3>2 DEF SendsCheckpoint
    <2>10. \A j \in DOMAIN ss : j \in DOMAIN sessions_[e] \/ j = k
      BY <2>2 DEF With
    <2>11. \A j \in DOMAIN ss : j[1] = e =>
             (j \in DOMAIN sessions_[e] /\ KeepsTimers(e, j, ts)) \/ SendsCheckpoint(j, out)
      BY <1>9, <2>9, <2>10
    <2>. QED  BY <1>1, <1>2, <1>8, <2>4, <2>11, ProceedCovers
  <1>13. CASE /\ Known(e, k) /\ ev.type = "REPORT_SEGMENT"
              /\ \E t, out : Proceed(e, With(e, k, t), ts, rest, out)
    <2>1. PICK ss, t, out : ss = With(e, k, t) /\ Proceed(e, ss, ts, rest, out)
      BY <1>13
    <2>2. \A j \in DOMAIN ss : j \in DOMAIN sessions_[e]
      BY <1>13, <2>1 DEF With, Known
    <2>3. \A j : KeepsTimers(e, j, ts)
      BY <1>9, <1>13
    <2>. QED  BY <1>1, <1>2, <1>8, <2>1, <2>2, <2>3, ProceedCovers
  <1>. QED  BY <1>6, <1>10, <1>11, <1>12, <1>13

(* Until an application cancels a session, every step covers the originators. *)
LEMMA NextCovers ==
  ASSUME LinkInv, cancels = 0 => OriginatorCovered, [Next]_vars, cancels' = 0
  PROVE  OriginatorCovered'
  <1>1. ASSUME cancels = 0, NEW e \in Engine, Lose(e) PROVE OriginatorCovered'
    <2>1. OutcomeStep(e) /\ DeliverStep(e) /\ OriginatorCovered
      BY <1>1, NextOutcome, NextDelivers
    <2>2. sessions_' = sessions_ /\ timers' = timers /\ firing' = firing
      BY <1>1 DEF Lose
    <2>3. \A k : HasTimer(e, k, "CHECKPOINT") => HasTimer(e, k, "CHECKPOINT")'
      BY <2>2 DEF HasTimer
    <2>. QED  BY <2>1, <2>2, <2>3, CoveredStep
  <1>2. CASE UNCHANGED vars
    <2>1. /\ cancels = 0 /\ sessions_' = sessions_ /\ timers' = timers /\ firing' = firing
          /\ given' = given /\ delivered' = delivered
      BY <1>2 DEF vars, evars
    <2>. QED  BY <2>1 DEF OriginatorCovered, HasTimer, Intact, BlockOf
  <1>3. CASE Next
    <2>1. PICK e \in Engine : \/ StartBlock(e) \/ Receive(e) \/ Lose(e)
                              \/ Expire(e) \/ HandleExpiry(e) \/ CancelByUser(e)
      BY <1>3 DEF Next
    <2>2. ~CancelByUser(e)
      <3>1. cancels \in Nat
        BY DEF LinkInv, BaseInv
      <3>. QED  BY <3>1 DEF CancelByUser
    <2>3. cancels = 0
      BY <2>1, <2>2 DEF StartBlock, Receive, Lose, Expire, HandleExpiry
    <2>. QED  BY <1>1, <2>1, <2>2, <2>3, StartCovers, ReceiveCovers, ExpireCovers, ExpiryCovers
  <1>. QED  BY <1>2, <1>3

\* As long as no application cancels a session, an originator that waits for a
\* report has a checkpoint timer that will wake it, or its block has been
\* delivered: a report stops the timer of its checkpoint (receive_report_segment)
\* and retransmits only what lies below its upper bound, but never leaves a byte
\* behind that bound unclaimed, so an originator that is left without a timer has
\* nothing more to send.
THEOREM OriginatorIsCovered == Spec => [](cancels = 0 => OriginatorCovered)
  <1>1. Init => (cancels = 0 => OriginatorCovered)
    <2>1. ASSUME Init, NEW e \in Engine PROVE sessions_[e] = <<>>
      BY <2>1 DEF Init, EInit
    <2>2. DOMAIN <<>> = {}
      OBVIOUS
    <2>. QED  BY <2>1, <2>2 DEF OriginatorCovered
  <1>2. LinkInv /\ (cancels = 0 => OriginatorCovered) /\ [Next]_vars
          => (cancels = 0 => OriginatorCovered)'
    BY NextCovers
  <1>. QED  BY <1>1, <1>2, LinkInvariant, PTL DEF Spec

\* An originator neither stops trying before its block is there nor tries for
\* ever, as long as no application cancels a session and retransmission_count, a
\* uint8_t, can count past max_retransmissions: it has a checkpoint timer or its
\* block is delivered, and it sends at most max_retransmissions + 1 checkpoints.
THEOREM OriginatorKeepsTrying ==
  ASSUME max_retransmissions < CountModulus - 1
  PROVE  Spec => [](cancels = 0 => OriginatorTries)
  <1>1. Spec => []RetriesBounded
    BY RetriesAreBounded
  <1>2. (cancels = 0 => OriginatorCovered) /\ RetriesBounded => (cancels = 0 => OriginatorTries)
    BY DEF OriginatorTries
  <1>. QED  BY <1>1, <1>2, OriginatorIsCovered, PTL
=============================================================================
