------------------------------ MODULE LtpLink ------------------------------
(***************************************************************************)
(* Two LTP engines over a radio link.  The link keeps the order of the     *)
(* segments and may lose any of them (a burst that is not decoded, a       *)
(* segment that is malformed on arrival); it neither duplicates nor        *)
(* reorders.  A timer may also expire while an answer to it is under way   *)
(* (retransmission_timeout_ms below the round trip).                       *)
(***************************************************************************)
EXTENDS LtpEngine

CONSTANTS
  Block,          \* the blocks the applications send
  Modes,          \* SUBSET BOOLEAN: TRUE for red, FALSE for green blocks
  MaxStarts,      \* bound: [Engine -> Nat], blocks each application sends
  MaxLoss,        \* bound: segments the link loses
  MaxEarly,       \* bound: timers that expire while segments are under way
  MaxCancels,     \* bound: cancel_session calls of the applications
  Unreachable     \* engines that no segment reaches at all

ASSUME LinkAssumption ==
  /\ Block \subseteq Seq(Byte) /\ Modes \subseteq BOOLEAN
  /\ MaxStarts \in [Engine -> Nat] /\ {MaxLoss, MaxEarly, MaxCancels} \subseteq Nat

VARIABLES losses, early, cancels

vars == <<evars, losses, early, cancels>>

Init == EInit /\ losses = 0 /\ early = 0 /\ cancels = 0

StartBlock(e) ==
  /\ session_counter_[e] < MaxStarts[e]
  /\ \E data \in Block, red \in Modes : start_session(e, data, red)
  /\ UNCHANGED <<losses, early, cancels>>

Receive(e) ==
  /\ e \notin Unreachable
  /\ receive_segment(e)
  /\ UNCHANGED <<losses, early, cancels>>

Lose(e) ==
  /\ net[e] # <<>>
  /\ net' = [net EXCEPT ![e] = Tail(@)]
  /\ UNCHANGED <<session_counter_, sessions_, timers, firing, given, delivered,
                 early, cancels>>
  /\ IF e \in Unreachable THEN UNCHANGED losses
     ELSE losses < MaxLoss /\ losses' = losses + 1

\* Nothing is under way in either direction.
Quiet == \A e \in Engine : net[e] = <<>>

Expire(e) ==
  /\ timer_pop(e)
  /\ IF Quiet THEN UNCHANGED early ELSE early < MaxEarly /\ early' = early + 1
  /\ UNCHANGED <<losses, cancels>>

HandleExpiry(e) == handle_timer_expiry(e) /\ UNCHANGED <<losses, early, cancels>>

CancelByUser(e) ==
  /\ cancels < MaxCancels /\ cancels' = cancels + 1
  /\ \E k \in DOMAIN sessions_[e] : cancel_session(e, k)
  /\ UNCHANGED <<losses, early>>

Next == \E e \in Engine : \/ StartBlock(e) \/ Receive(e) \/ Lose(e)
                          \/ Expire(e) \/ HandleExpiry(e) \/ CancelByUser(e)

Spec == Init /\ [][Next]_vars

(* The CLA's receiving thread and the timer thread keep running.  Nothing  *)
(* is assumed of the applications; of the link, only that it loses at most *)
(* MaxLoss segments, and everything for an engine that is Unreachable.     *)
Fairness == \A e \in Engine : /\ WF_vars(Receive(e)) /\ WF_vars(Expire(e))
                              /\ WF_vars(HandleExpiry(e))
                              /\ WF_vars(Lose(e) /\ e \in Unreachable)

FairSpec == Spec /\ Fairness
-----------------------------------------------------------------------------
(* Properties. *)

Key == {<<e, n>> : e \in Engine, n \in 1 .. Max({MaxStarts[x] : x \in Engine})}
Issued(e) == {<<e, n>> : n \in 1 .. Len(given[e])}
BlockOf(k) == given[k[1]][k[2]]
Intact(k) == \E i \in DOMAIN delivered[Peer(k[1])] :
                delivered[Peer(k[1])][i] = [key |-> k, data |-> BlockOf(k).data]

Session == [role : {"ORIGINATOR", "RECEIVER"}, client_data : Seq(Byte \cup {Zero}),
            total_data_length : Nat, is_red : BOOLEAN, tracker : SUBSET Nat,
            checkpoint_serial_counter : Nat, report_serial_counter : Nat,
            retransmission_count : 0 .. CountModulus - 1]

\* Every variable keeps its type, an engine never holds more sessions than
\* max_concurrent_sessions, and its own sessions are exactly its originators.
TypeOK ==
  \A e \in Engine :
    /\ session_counter_[e] = Len(given[e])
    /\ \A i \in DOMAIN given[e] :
         /\ given[e][i].data \in Seq(Byte) /\ given[e][i].red \in BOOLEAN
         /\ given[e][i].outcome \in {"open", "sent", "complete", "failed"}
    /\ DOMAIN sessions_[e] \subseteq Key
    /\ Cardinality(DOMAIN sessions_[e]) <= max_concurrent_sessions
    /\ \A k \in DOMAIN sessions_[e] :
         /\ sessions_[e][k] \in Session
         /\ sessions_[e][k].role = "ORIGINATOR" <=> k[1] = e
    /\ \A i \in DOMAIN delivered[e] : delivered[e][i].data \in Seq(Byte \cup {Zero})
    /\ Len(firing[e]) <= 1

\* No delivery of a red session hands corrupt data to the client: the bytes
\* delivered are exactly the block, never a prefix or one with holes, whatever
\* was lost, retransmitted in part or sent twice.  (A session that comes back
\* after its delivery may deliver nothing, once more: see DeliveredOnlyWhole.)
RedDeliveryIntact ==
  \A e \in Engine : \A i \in DOMAIN delivered[e] :
     LET d == delivered[e][i]
     IN BlockOf(d.key).red =>
          \/ d.data = BlockOf(d.key).data
          \/ d.data = <<>> /\ \E j \in 1 .. i - 1 :
                delivered[e][j] = [d EXCEPT !.data = BlockOf(d.key).data]

\* A green delivery has the length of its block, and each byte is the block's
\* or a zero that stands for a lost one.
GreenDeliveryPlaced ==
  \A e \in Engine : \A i \in DOMAIN delivered[e] :
     LET d == delivered[e][i]
         b == BlockOf(d.key)
     IN ~b.red => /\ Len(d.data) = Len(b.data)
                  /\ \A j \in DOMAIN d.data : d.data[j] \in {b.data[j], Zero}

\* When the originator reports completion to its client, the peer's client has
\* the block or the peer's session holds every byte of it.
CompletionMeansReceived ==
  \A e \in Engine : \A k \in Issued(e) :
     BlockOf(k).outcome = "complete" =>
        \/ Intact(k)
        \/ /\ Known(Peer(e), k)
           /\ sessions_[Peer(e)][k].client_data = BlockOf(k).data
           /\ Covers(sessions_[Peer(e)][k].tracker, Len(BlockOf(k).data))
           /\ sessions_[Peer(e)][k].total_data_length = Len(BlockOf(k).data)

\* Receivers' and originators' ends of a session agree: whatever a receiver
\* claims to hold are bytes of the block in their place.
ClaimsHoldBlockBytes ==
  \A e \in Engine : \A k \in DOMAIN sessions_[e] : k[1] # e =>
     LET s == sessions_[e][k]
     IN \A o \in s.tracker : /\ o < Len(BlockOf(k).data)
                             /\ s.client_data[o + 1] = BlockOf(k).data[o + 1]

\* What a receiver claims and what an originator concludes from it is true.
ClaimsTrue == ClaimsHoldBlockBytes /\ CompletionMeansReceived

HasTimer(e, k, type) ==
  \/ \E i \in DOMAIN timers[e] : timers[e][i].event.key = k /\ timers[e][i].event.type = type
  \/ \E i \in DOMAIN firing[e] : firing[e][i].key = k /\ firing[e][i].type = type

\* An originator session that waits for a report has a checkpoint timer that
\* will wake it, or its block has been delivered already: no lost segment makes
\* it wait for ever with its block undelivered.
OriginatorCovered ==
  \A e \in Engine : \A k \in DOMAIN sessions_[e] :
     k[1] = e => HasTimer(e, k, "CHECKPOINT") \/ Intact(k)

\* Each retransmission is one more checkpoint, and there are at most
\* max_retransmissions of them.
RetriesBounded ==
  \A e \in Engine : \A k \in DOMAIN sessions_[e] :
     sessions_[e][k].checkpoint_serial_counter <= max_retransmissions + 1

\* An originator neither stops trying before its block is there nor tries for ever.
OriginatorTries == OriginatorCovered /\ RetriesBounded

\* A session that ended keeps its outcome: no session fails after it completed
\* or completes after it failed, although reports and cancels cross.
OutcomeFinal ==
  [][\A e \in Engine : \A i \in DOMAIN given[e] :
        given[e][i].outcome # "open" => given'[e][i].outcome = given[e][i].outcome]_vars

\* Every red block is settled: its originator completes or fails, or at least
\* the peer's client has the block.
BlockSettled ==
  \A k \in Key : Known(k[1], k) ~> (~Known(k[1], k) \/ Intact(k))

\* A block whose originator was told "complete" reaches the peer's client.
CompleteIsDelivered ==
  \A k \in Key : (k \in Issued(k[1]) /\ BlockOf(k).outcome = "complete") ~> Intact(k)

\* A receiving session that holds the whole block ends: it is delivered, or the
\* originator cancels it.
WholeReceiverEnds ==
  \A k \in Key :
     LET e == Peer(k[1])
     IN (Known(e, k) /\ sessions_[e][k].total_data_length > 0
           /\ Covers(sessions_[e][k].tracker, sessions_[e][k].total_data_length))
        ~> ~Known(e, k)

\* The receiving end comes to its end, with the block where the originator was
\* told so.
ReceiverSettled == CompleteIsDelivered /\ WholeReceiverEnds
-----------------------------------------------------------------------------
(* What comments and tests of the repository say and the code does not do. *)

\* ltp_engine.cpp:536: a receiving session is complete when "all data received
\* and report acknowledged".
DeliveredOnlyWhole ==
  \A e \in Engine : \A i \in DOMAIN delivered[e] :
     LET d == delivered[e][i]
     IN BlockOf(d.key).red => d.data = BlockOf(d.key).data
=============================================================================
