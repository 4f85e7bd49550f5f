-------------------- MODULE ConvergenceLayerAdapterProofs --------------------
(***************************************************************************)
(* Proofs about ConvergenceLayerAdapter: the inductive invariant, one      *)
(* lemma per action, and the theorems.  What the framing makes of the      *)
(* streams is in FramingProofs.                                            *)
(***************************************************************************)
EXTENDS ConvergenceLayerAdapter, FramingProofs
-----------------------------------------------------------------------------
(* The inductive invariant.                                                  *)

(* Who runs: stop() ends the threads one after the other and then closes;    *)
(* a thread that uses its descriptor has one; and stop() is heard.           *)
Lifecycle ==
  /\ pc["TX"] \in {"top", "lock", "decided", "blocked", "write", "writing"} =>
       fd["TX"] # "closed"
  /\ pc["RX"] \in {"top", "poll", "extract"} => fd["RX"] # "closed"
  /\ owner \in {"joinRX", "close"} => pc["TX"] = "none"
  /\ owner = "close" => pc["RX"] = "none"
  /\ running_ => owner \in {"idle", "killed"}
  /\ (owner = "idle" /\ ~running_) =>
       \A s \in Side : pc[s] = "none" /\ fd[s] = "closed" /\ ~connected[s]
  /\ StopHeard

\* The loop of the writes, and a call of write() in it.
Writes == {"write", "writing"}

(* The TX thread has a segment in its hand while it writes, and none while   *)
(* it waits; it leaves a segment unwritten only when it ends.                *)
InHand ==
  /\ pc["TX"] \in Writes => segment # <<>> /\ written < Len(Frame)
  /\ pc["TX"] \in {"lock", "decided", "blocked"} => segment = <<>>
  /\ pc["TX"] = "top" /\ running_ => segment = <<>>

(* The connection has the whole frames, and then a part of one: the part     *)
(* that is written of the segment in hand.                                   *)
TxStream ==
  /\ \E t \in Tails : stream = Framed(whole) \o t
  /\ pc["TX"] \in Writes => stream = Framed(whole) \o SubSeq(Frame, 1, written)
  /\ pc["TX"] = "top" /\ running_ => stream = Framed(whole)
  /\ pc["TX"] \in {"lock", "decided", "blocked"} => stream = Framed(whole)

(* The RX thread has taken the first messages; the rest of the stream is in  *)
(* its buffer and on the wire, with a part of a frame at the end only when   *)
(* the connection is lost.                                                   *)
RxStream ==
  /\ pc["RX"] \in {"connect", "dial", "backoff"} => buffer = <<>>
  /\ pc["RX"] \in {"top", "poll", "extract"} =>
       \E t \in Tails : /\ fd["RX"] = "open" => t = <<>>
                        /\ Parsed(peerSent, t, received, buffer \o wire)
  /\ pc["RX"] \in {"top", "poll"} => ~HasMessage(buffer)
  /\ Len(received) <= Len(peerSent) /\ received = SubSeq(peerSent, 1, Len(received))

AdapterInv == TypeOK /\ Lifecycle /\ InHand /\ TxStream /\ InQueueOrder /\ RxStream

(* A segment has a frame that a prefix can measure.                          *)
LEMMA SegmentsShort == Segment \subseteq Short /\ Seq(Segment) \subseteq Seq(Short)
  <1>1. Segment \subseteq Short
    BY SegmentAssumption DEF Short
  <1>. QED  BY <1>1, SeqMonotonic

(* The types of the TX side, in the form that the steps use.                 *)
LEMMA TxTypes ==
  ASSUME TypeOK
  PROVE  /\ whole \in Seq(Short) /\ Framed(whole) \in Seq(Byte) /\ stream \in Seq(Byte)
         /\ segment # <<>> => /\ segment[1] \in Segment /\ segment[1] \in Short
                              /\ segment = <<segment[1]>>
                              /\ Frame \in Seq(Byte) /\ Len(Frame) = PrefixLen + Len(segment[1])
                              /\ Len(segment[1]) \in Nat
  <1>1. whole \in Seq(Short) /\ stream \in Seq(Byte)
    BY SegmentsShort DEF TypeOK
  <1>2. Framed(whole) \in Seq(Byte)
    BY <1>1, FramesAre
  <1>3. ASSUME segment # <<>>
        PROVE  /\ segment[1] \in Segment /\ segment[1] \in Short /\ segment = <<segment[1]>>
               /\ Frame \in Seq(Byte) /\ Len(Frame) = PrefixLen + Len(segment[1])
               /\ Len(segment[1]) \in Nat
    <2>1. segment[1] \in Segment /\ segment = <<segment[1]>>
      BY <1>3, OneIs DEF TypeOK
    <2>2. segment[1] \in Short
      BY <2>1, SegmentsShort
    <2>3. PICK d \in Short : d = segment[1]
      BY <2>2
    <2>4. /\ Len(d) \in Nat /\ frame_message(d) \in Seq(Byte)
          /\ Len(frame_message(d)) = PrefixLen + Len(d)
      BY FrameIs
    <2>. QED  BY <2>1, <2>3, <2>4 DEF Frame
  <1>. QED  BY <1>1, <1>2, <1>3

(* The TX side is left alone, and the thread comes to no place that asks for *)
(* more.                                                                     *)
LEMMA TxKept ==
  ASSUME InHand, TxStream, InQueueOrder, UNCHANGED txVars,
         pc'["TX"] \in Writes => pc["TX"] \in Writes,
         pc'["TX"] \in {"lock", "decided", "blocked"} => segment = <<>> /\ stream = Framed(whole),
         pc'["TX"] = "top" /\ running_' => segment = <<>> /\ stream = Framed(whole)
  PROVE  InHand' /\ TxStream' /\ InQueueOrder'
  <1>1. /\ tx_queue_' = tx_queue_ /\ segment' = segment /\ written' = written /\ stream' = stream
        /\ whole' = whole /\ accepted' = accepted /\ finished' = finished
    BY DEF txVars
  <1>2. InQueueOrder'
    BY <1>1 DEF InQueueOrder
  <1>3. Frame' = Frame
    BY <1>1 DEF Frame
  <1>4. InHand'
    BY <1>1, <1>3 DEF InHand
  <1>5. TxStream'
    BY <1>1, <1>3 DEF TxStream
  <1>. QED  BY <1>2, <1>4, <1>5

(* The same for the RX side.                                                 *)
LEMMA RxKept ==
  ASSUME RxStream, UNCHANGED rxVars, fd'["RX"] = "open" => fd["RX"] = "open",
         pc'["RX"] \in {"connect", "dial", "backoff"} => buffer = <<>>,
         pc'["RX"] \in {"top", "poll", "extract"} => pc["RX"] \in {"top", "poll", "extract"},
         pc'["RX"] \in {"top", "poll"} => ~HasMessage(buffer)
  PROVE  RxStream'
  <1>1. buffer' = buffer /\ wire' = wire /\ peerSent' = peerSent /\ received' = received
    BY DEF rxVars
  <1>2. ASSUME pc'["RX"] \in {"top", "poll", "extract"}
        PROVE  \E t \in Tails : /\ fd'["RX"] = "open" => t = <<>>
                                /\ Parsed(peerSent, t, received, buffer \o wire)
    BY <1>2 DEF RxStream
  <1>. QED  BY <1>1, <1>2 DEF RxStream

(* A thread goes from one place to another and does nothing else.            *)
LEMMA Moves ==
  ASSUME AdapterInv, NEW s \in Side, NEW place \in Place, pc[s] # "none", Goto(s, place),
         UNCHANGED <<running_, fd, connected, owner, txVars, rxVars, counters>>,
         delay' \in [Side -> InitialDelay .. MaxDelay],
         place \in Writes => (s = "TX" /\ pc[s] = "write"),
         (s = "TX" /\ place \in {"lock", "decided", "blocked"}) =>
           (pc[s] \in {"lock", "decided", "blocked"} \/ (pc[s] = "top" /\ running_)),
         (s = "TX" /\ place \in {"decided", "blocked"}) => (pc[s] = "decided" \/ running_),
         (s = "TX" /\ place = "top") => (pc[s] = "write" /\ ~running_),
         (s = "RX" /\ place \in {"connect", "dial", "backoff"}) =>
           pc[s] \in {"connect", "dial", "backoff"},
         (s = "RX" /\ place \in {"top", "poll", "extract"}) =>
           (pc[s] \in {"top", "poll", "extract"} /\ ~HasMessage(buffer))
  PROVE  AdapterInv'
  <1>1. /\ TypeOK /\ Lifecycle /\ InHand /\ TxStream /\ InQueueOrder /\ RxStream
    BY DEF AdapterInv
  <1>2. /\ pc \in [Side -> Place] /\ pc' \in [Side -> Place]
        /\ pc'[s] = place /\ \A r \in Side : r # s => pc'[r] = pc[r]
    BY <1>1 DEF TypeOK, Goto
  <1>3. TypeOK'
    BY <1>1, <1>2 DEF TypeOK, txVars, rxVars, counters
  <1>4. Lifecycle'
    BY <1>1, <1>2 DEF Lifecycle, StopHeard, Side, Writes, counters
  <1>5. InHand' /\ TxStream' /\ InQueueOrder'
    <2>1. UNCHANGED txVars /\ running_' = running_
      OBVIOUS
    <2>2. pc'["TX"] \in Writes => pc["TX"] \in Writes
      BY <1>2 DEF Side, Writes
    <2>3. pc'["TX"] \in {"lock", "decided", "blocked"} => segment = <<>> /\ stream = Framed(whole)
      BY <1>1, <1>2 DEF Side, InHand, TxStream
    <2>4. pc'["TX"] = "top" /\ running_' => segment = <<>> /\ stream = Framed(whole)
      BY <1>1, <1>2, <2>1 DEF Side, InHand, TxStream
    <2>. QED  BY <1>1, <2>1, <2>2, <2>3, <2>4, TxKept
  <1>6. RxStream'
    <2>1. UNCHANGED rxVars /\ (fd'["RX"] = "open" => fd["RX"] = "open")
      OBVIOUS
    <2>2. pc'["RX"] \in {"connect", "dial", "backoff"} => buffer = <<>>
      BY <1>1, <1>2 DEF Side, RxStream
    <2>3. pc'["RX"] \in {"top", "poll", "extract"} => pc["RX"] \in {"top", "poll", "extract"}
      BY <1>2 DEF Side
    <2>4. pc'["RX"] \in {"top", "poll"} => ~HasMessage(buffer)
      BY <1>1, <1>2 DEF Side, RxStream
    <2>. QED  BY <1>1, <2>1, <2>2, <2>3, <2>4, RxKept
  <1>. QED  BY <1>3, <1>4, <1>5, <1>6 DEF AdapterInv

-----------------------------------------------------------------------------
(* The steps.                                                                *)

(* reconnect_loop doubles the delay within its limits.                       *)
LEMMA DelayDoubles ==
  ASSUME NEW d \in InitialDelay .. MaxDelay
  PROVE  Doubled(d) \in InitialDelay .. MaxDelay
  <1>1. /\ InitialDelay \in Nat /\ MaxDelay \in Nat /\ DelayMod \in Nat
        /\ InitialDelay <= MaxDelay /\ 2 * MaxDelay < DelayMod
    BY DelayAssumption
  <1>2. 2 * d \in Nat /\ 2 * d < DelayMod
    BY <1>1
  <1>3. (2 * d) % DelayMod = 2 * d
    BY <1>1, <1>2, SmallMod
  <1>4. Doubled(d) = IF 2 * d < MaxDelay THEN 2 * d ELSE MaxDelay
    BY <1>3 DEF Doubled
  <1>. QED  BY <1>1, <1>4

(* A notification only makes a blocked TX thread contend for the mutex.      *)
LEMMA NotifiedIs ==
  ASSUME pc \in [Side -> Place]
  PROVE  /\ Notified \in [Side -> Place] /\ Notified["RX"] = pc["RX"]
         /\ Notified["TX"] = IF pc["TX"] = "blocked" THEN "lock" ELSE pc["TX"]
  BY DEF Notified, Side, Place

(* What is written, what is in hand, and what waits.                         *)
Line(f, g, q) == Cat(Cat(f, g), q)

(* A segment more comes behind all others.                                   *)
LEMMA LineGrows ==
  ASSUME NEW T, NEW f \in Seq(T), NEW g \in Seq(T), NEW q \in Seq(T), NEW x \in T
  PROVE  Append(Line(f, g, q), x) = Line(f, g, Append(q, x))
  <1>1. PICK a \in Seq(T) : a = Cat(f, g)
    BY AppendBehind
  <1>2. Append(Cat(a, q), x) = Cat(a, Append(q, x))
    BY AppendBehind
  <1>. QED  BY <1>1, <1>2 DEF Line

(* send_segment puts the segment behind all others.                          *)
LEMMA QueueGrows ==
  ASSUME TypeOK, InQueueOrder, NEW s \in Segment, send_segment(s)
  PROVE  InQueueOrder'
  <1>1. finished \in Seq(Segment) /\ segment \in Seq(Segment) /\ tx_queue_ \in Seq(Segment)
    BY DEF TypeOK
  <1>2. accepted = Line(finished, segment, tx_queue_)
    BY DEF InQueueOrder, Line, Cat
  <1>3. Append(Line(finished, segment, tx_queue_), s) = Line(finished, segment, Append(tx_queue_, s))
    BY <1>1, LineGrows
  <1>4. /\ tx_queue_' = Append(tx_queue_, s) /\ accepted' = Append(accepted, s)
        /\ segment' = segment /\ finished' = finished
    BY DEF send_segment
  <1>. QED  BY <1>2, <1>3, <1>4, Zenon DEF InQueueOrder, Line, Cat

(* send_segment: the queue grows and a thread that waits is notified.        *)
LEMMA SendKeeps ==
  ASSUME AdapterInv, NEW s \in Segment, send_segment(s)
  PROVE  AdapterInv'
  <1>1. TypeOK /\ Lifecycle /\ InHand /\ TxStream /\ InQueueOrder /\ RxStream
    BY DEF AdapterInv
  <1>2. /\ pc' \in [Side -> Place] /\ pc'["RX"] = pc["RX"]
        /\ pc'["TX"] = IF pc["TX"] = "blocked" THEN "lock" ELSE pc["TX"]
    BY <1>1, NotifiedIs DEF send_segment, TypeOK
  <1>3. TypeOK'
    <2>1. Append(tx_queue_, s) \in Seq(Segment) /\ Append(accepted, s) \in Seq(Segment)
      BY <1>1, AppendIs DEF TypeOK
    <2>. QED  BY <1>1, <1>2, <2>1 DEF send_segment, TypeOK, rxVars
  <1>4. Lifecycle'
    BY <1>1, <1>2 DEF send_segment, Lifecycle, StopHeard, Side
  <1>5. segment' = segment /\ written' = written /\ stream' = stream /\ whole' = whole
        /\ running_' = running_ /\ finished' = finished
    BY DEF send_segment
  <1>6. Frame' = Frame
    BY <1>5 DEF Frame
  <1>7. InHand'
    BY <1>1, <1>2, <1>5, <1>6 DEF InHand, Writes
  <1>8. TxStream'
    BY <1>1, <1>2, <1>5, <1>6 DEF TxStream, Writes
  <1>9. InQueueOrder'
    BY <1>1, QueueGrows
  <1>10. RxStream'
    <2>1. UNCHANGED rxVars /\ (fd'["RX"] = "open" => fd["RX"] = "open")
      BY DEF send_segment
    <2>. QED  BY <1>1, <1>2, <2>1, RxKept DEF RxStream
  <1>. QED  BY <1>3, <1>4, <1>7, <1>8, <1>9, <1>10 DEF AdapterInv

(* start: fresh threads, and the queue as it was left.                       *)
LEMMA StartKeeps ==
  ASSUME AdapterInv, start
  PROVE  AdapterInv'
  <1>1. TypeOK /\ Lifecycle /\ InHand /\ TxStream /\ InQueueOrder /\ RxStream
    BY DEF AdapterInv
  <1>2. pc' = [s \in Side |-> "connect"] /\ fd' = fd /\ owner' = owner /\ running_' = TRUE
        /\ delay' = [s \in Side |-> InitialDelay]
    BY DEF start
  <1>3. TypeOK'
    <2>1. InitialDelay \in InitialDelay .. MaxDelay
      BY DelayAssumption
    <2>2. upsets' \in Nat
      BY <1>1, LimitAssumption DEF start, TypeOK
    <2>3. started' \in BOOLEAN /\ missed' \in BOOLEAN
      BY DEF start
    <2>4. /\ pc' \in [Side -> Place] /\ delay' \in [Side -> InitialDelay .. MaxDelay]
          /\ running_' \in BOOLEAN
      BY <1>2, <2>1 DEF Place
    <2>. QED  BY <1>1, <1>2, <2>2, <2>3, <2>4 DEF start, TypeOK
  <1>4. Lifecycle'
    BY <1>1, <1>2 DEF start, Lifecycle, StopHeard, Side
  <1>5. pc'["TX"] = "connect" /\ pc'["RX"] = "connect"
    BY <1>2 DEF Side
  <1>6. InHand'
    BY <1>5 DEF InHand, Writes
  <1>7. TxStream'
    BY <1>1, <1>5 DEF start, TxStream, Writes
  <1>8. InQueueOrder'
    <2>1. <<>> \o <<>> = <<>> /\ <<>> \o tx_queue_ = tx_queue_
      BY <1>1, ConcatEmptySeq DEF TypeOK
    <2>2. accepted' = tx_queue_ /\ finished' = <<>> /\ segment' = <<>> /\ tx_queue_' = tx_queue_
      BY DEF start
    <2>. QED  BY <2>1, <2>2 DEF InQueueOrder
  <1>9. RxStream'
    BY <1>1, <1>5 DEF start, RxStream
  <1>. QED  BY <1>3, <1>4, <1>6, <1>7, <1>8, <1>9 DEF AdapterInv

(* stop() and what it does after it has cleared the flag.                    *)
LEMMA StopKeeps ==
  ASSUME AdapterInv, stop \/ StopStep
  PROVE  AdapterInv'
  <1>1. TypeOK /\ Lifecycle /\ InHand /\ TxStream /\ InQueueOrder /\ RxStream
    BY DEF AdapterInv
  <1>2. ASSUME UNCHANGED <<txVars, rxVars>>, running_' => running_,
               fd'["RX"] = "open" => fd["RX"] = "open",
               pc'["RX"] \in {pc["RX"], "none"},
               pc'["TX"] \in {pc["TX"], "none"} \/ (pc'["TX"] = "lock" /\ pc["TX"] = "blocked")
        PROVE  InHand' /\ TxStream' /\ InQueueOrder' /\ RxStream'
    <2>1. InHand' /\ TxStream' /\ InQueueOrder'
      BY <1>1, <1>2, TxKept DEF InHand, TxStream, Writes
    <2>2. RxStream'
      BY <1>1, <1>2, RxKept DEF RxStream
    <2>. QED  BY <2>1, <2>2
  <1>3. CASE stop
    <2>1. TypeOK'
      BY <1>1, <1>3 DEF stop, TypeOK, txVars, rxVars, counters
    <2>2. Lifecycle'
      BY <1>1, <1>3 DEF stop, Lifecycle, StopHeard
    <2>3. InHand' /\ TxStream' /\ InQueueOrder' /\ RxStream'
      BY <1>2, <1>3 DEF stop
    <2>. QED  BY <2>1, <2>2, <2>3 DEF AdapterInv
  <1>4. CASE StopNotify
    <2>1. /\ pc' \in [Side -> Place] /\ pc'["RX"] = pc["RX"]
          /\ pc'["TX"] = IF pc["TX"] = "blocked" THEN "lock" ELSE pc["TX"]
      BY <1>1, <1>4, NotifiedIs DEF StopNotify, TypeOK
    <2>2. TypeOK'
      BY <1>1, <1>4, <2>1 DEF StopNotify, TypeOK, txVars, rxVars, counters
    <2>3. Lifecycle'
      BY <1>1, <1>4, <2>1 DEF StopNotify, Lifecycle, StopHeard
    <2>4. InHand' /\ TxStream' /\ InQueueOrder' /\ RxStream'
      BY <1>2, <1>4, <2>1 DEF StopNotify
    <2>. QED  BY <2>2, <2>3, <2>4 DEF AdapterInv
  <1>5. CASE JoinTX
    <2>1. pc' \in [Side -> Place] /\ pc'["TX"] = "none" /\ pc'["RX"] = pc["RX"]
      BY <1>1, <1>5 DEF JoinTX, Goto, TypeOK, Side, Place
    <2>2. TypeOK'
      BY <1>1, <1>5, <2>1 DEF JoinTX, TypeOK, txVars, rxVars, counters
    <2>3. Lifecycle'
      BY <1>1, <1>5, <2>1 DEF JoinTX, Lifecycle, StopHeard
    <2>4. InHand' /\ TxStream' /\ InQueueOrder' /\ RxStream'
      BY <1>2, <1>5, <2>1 DEF JoinTX
    <2>. QED  BY <2>2, <2>3, <2>4 DEF AdapterInv
  <1>6. CASE JoinRX
    <2>1. pc' \in [Side -> Place] /\ pc'["RX"] = "none" /\ pc'["TX"] = pc["TX"]
      BY <1>1, <1>6 DEF JoinRX, Goto, TypeOK, Side, Place
    <2>2. TypeOK'
      BY <1>1, <1>6, <2>1 DEF JoinRX, TypeOK, txVars, rxVars, counters
    <2>3. Lifecycle'
      BY <1>1, <1>6, <2>1 DEF JoinRX, Lifecycle, StopHeard
    <2>4. InHand' /\ TxStream' /\ InQueueOrder' /\ RxStream'
      BY <1>2, <1>6, <2>1 DEF JoinRX
    <2>. QED  BY <2>2, <2>3, <2>4 DEF AdapterInv
  <1>7. CASE StopClose
    <2>1. fd' = [s \in Side |-> "closed"] /\ connected' = [s \in Side |-> FALSE] /\ pc' = pc
      BY <1>7 DEF StopClose
    <2>2. TypeOK'
      BY <1>1, <1>7, <2>1 DEF StopClose, TypeOK, txVars, rxVars, counters
    <2>3. Lifecycle'
      BY <1>1, <1>7, <2>1 DEF StopClose, Lifecycle, StopHeard, Side
    <2>4. fd'["RX"] = "closed"
      BY <2>1 DEF Side
    <2>5. InHand' /\ TxStream' /\ InQueueOrder' /\ RxStream'
      BY <1>2, <1>7, <2>1, <2>4 DEF StopClose
    <2>. QED  BY <2>2, <2>3, <2>5 DEF AdapterInv
  <1>. QED  BY <1>3, <1>4, <1>5, <1>6, <1>7 DEF StopStep

(* reconnect_loop, as long as there is no connection.                        *)
LEMMA RedialKeeps ==
  ASSUME AdapterInv, NEW s \in Side, Reconnect(s) \/ DialFails(s) \/ Backoff(s)
  PROVE  AdapterInv'
  <1>1. TypeOK
    BY DEF AdapterInv
  <1>2. CASE Reconnect(s)
    <2>1. PICK place \in Place : place \in {"dial", "done"} /\ Goto(s, place)
      BY <1>2 DEF Reconnect, Place
    <2>2. pc[s] = "connect" /\ delay' \in [Side -> InitialDelay .. MaxDelay]
          /\ UNCHANGED <<running_, fd, connected, owner, txVars, rxVars, counters>>
      BY <1>1, <1>2 DEF Reconnect, TypeOK
    <2>. QED  BY <2>1, <2>2, Moves DEF Writes
  <1>3. CASE DialFails(s)
    <2>1. PICK place \in Place : place = "backoff" /\ Goto(s, place)
      BY <1>3 DEF DialFails, Place
    <2>2. pc[s] = "dial" /\ delay' \in [Side -> InitialDelay .. MaxDelay]
          /\ UNCHANGED <<running_, fd, connected, owner, txVars, rxVars, counters>>
      BY <1>1, <1>3 DEF DialFails, TypeOK
    <2>. QED  BY <2>1, <2>2, Moves DEF Writes
  <1>4. CASE Backoff(s)
    <2>1. PICK place \in Place : place = "connect" /\ Goto(s, place)
      BY <1>4 DEF Backoff, Place
    <2>2. delay' \in [Side -> InitialDelay .. MaxDelay]
      <3>1. delay[s] \in InitialDelay .. MaxDelay
        BY <1>1 DEF TypeOK
      <3>2. Doubled(delay[s]) \in InitialDelay .. MaxDelay
        BY <3>1, DelayDoubles
      <3>. QED  BY <1>1, <1>4, <3>2 DEF Backoff, TypeOK
    <2>3. pc[s] = "backoff"
          /\ UNCHANGED <<running_, fd, connected, owner, txVars, rxVars, counters>>
      BY <1>4 DEF Backoff
    <2>. QED  BY <2>1, <2>2, <2>3, Moves DEF Writes
  <1>. QED  BY <1>2, <1>3, <1>4

(* Nothing of a frame is written at first.                                   *)
LEMMA NothingWritten ==
  ASSUME TypeOK, segment # <<>>
  PROVE  /\ 0 < Len(Frame) /\ SubSeq(Frame, 1, 0) = <<>>
         /\ \A b \in Seq(Byte) : b \o SubSeq(Frame, 1, 0) = b
  <1>1. Frame \in Seq(Byte) /\ Len(Frame) = PrefixLen + Len(segment[1]) /\ Len(segment[1]) \in Nat
    BY TxTypes
  <1>2. 0 < Len(Frame)
    BY <1>1, BaseFacts
  <1>3. SubSeq(Frame, 1, 0) = <<>>
    BY SubSeqEmpty
  <1>. QED  BY <1>2, <1>3, ConcatEmptySeq

(* A new TX connection: a segment in hand is written from the beginning.     *)
LEMMA DialOkTxKeeps ==
  ASSUME AdapterInv, DialOk("TX")
  PROVE  AdapterInv'
  <1>1. TypeOK /\ Lifecycle /\ InHand /\ TxStream /\ InQueueOrder /\ RxStream
    BY DEF AdapterInv
  <1>2. /\ pc["TX"] = "dial" /\ fd' = [fd EXCEPT !["TX"] = "open"]
        /\ connected' = [connected EXCEPT !["TX"] = TRUE]
        /\ stream' = <<>> /\ whole' = <<>> /\ written' = 0
        /\ pc' = [pc EXCEPT !["TX"] = IF segment = <<>> THEN "top" ELSE "write"]
        /\ UNCHANGED <<tx_queue_, segment, accepted, finished, rxVars>>
        /\ UNCHANGED <<running_, delay, owner, counters>>
    BY DEF DialOk, Resume, Goto
  <1>3. /\ pc' \in [Side -> Place] /\ pc'["RX"] = pc["RX"] /\ fd'["RX"] = fd["RX"]
        /\ fd' \in [Side -> {"closed", "open", "broken", "stalled"}] /\ fd'["TX"] = "open"
        /\ connected' \in [Side -> BOOLEAN]
        /\ pc'["TX"] = IF segment = <<>> THEN "top" ELSE "write"
    BY <1>1, <1>2 DEF TypeOK, Side, Place
  <1>4. TypeOK'
    BY <1>1, <1>2, <1>3 DEF TypeOK, rxVars, counters
  <1>5. Lifecycle'
    BY <1>1, <1>2, <1>3 DEF Lifecycle, StopHeard, Side
  <1>6. Frame' = Frame
    BY <1>2 DEF Frame
  <1>7. InHand'
    BY <1>1, <1>2, <1>3, <1>6, NothingWritten DEF InHand, Writes
  <1>8. TxStream'
    <2>1. Framed(whole') = <<>> /\ <<>> \o <<>> = <<>>
      BY <1>2, FramedEmpty, ConcatEmptySeq
    <2>2. segment # <<>> => SubSeq(Frame, 1, 0) = <<>>
      BY <1>1, NothingWritten
    <2>3. \E t \in Tails : stream' = Framed(whole') \o t
      BY <1>2, <2>1, NoTail
    <2>4. pc'["TX"] \in Writes => stream' = Framed(whole') \o SubSeq(Frame', 1, written')
      BY <1>2, <1>3, <1>6, <2>1, <2>2 DEF Writes
    <2>5. stream' = Framed(whole')
      BY <1>2, <2>1
    <2>. QED  BY <2>3, <2>4, <2>5 DEF TxStream
  <1>9. InQueueOrder'
    BY <1>1, <1>2 DEF InQueueOrder
  <1>10. RxStream'
    BY <1>1, <1>2, <1>3, RxKept DEF RxStream
  <1>. QED  BY <1>4, <1>5, <1>7, <1>8, <1>9, <1>10 DEF AdapterInv

(* A new RX connection, of which nothing has come.                           *)
LEMMA DialOkRxKeeps ==
  ASSUME AdapterInv, DialOk("RX")
  PROVE  AdapterInv'
  <1>1. TypeOK /\ Lifecycle /\ InHand /\ TxStream /\ InQueueOrder /\ RxStream
    BY DEF AdapterInv
  <1>2. /\ pc["RX"] = "dial" /\ fd' = [fd EXCEPT !["RX"] = "open"]
        /\ connected' = [connected EXCEPT !["RX"] = TRUE]
        /\ wire' = <<>> /\ peerSent' = <<>> /\ received' = <<>>
        /\ pc' = [pc EXCEPT !["RX"] = "top"]
        /\ UNCHANGED <<buffer, txVars>>
        /\ UNCHANGED <<running_, delay, owner, counters>>
    BY DEF DialOk, Resume, Goto
  <1>3. /\ pc' \in [Side -> Place] /\ pc'["TX"] = pc["TX"] /\ fd'["TX"] = fd["TX"]
        /\ fd' \in [Side -> {"closed", "open", "broken", "stalled"}] /\ fd'["RX"] = "open"
        /\ connected' \in [Side -> BOOLEAN] /\ pc'["RX"] = "top"
    BY <1>1, <1>2 DEF TypeOK, Side, Place
  <1>4. TypeOK'
    BY <1>1, <1>2, <1>3 DEF TypeOK, txVars, counters
  <1>5. Lifecycle'
    BY <1>1, <1>2, <1>3 DEF Lifecycle, StopHeard, Side, counters
  <1>6. InHand' /\ TxStream' /\ InQueueOrder'
    BY <1>1, <1>2, <1>3, TxKept DEF InHand, TxStream
  <1>7. RxStream'
    <2>1. buffer' = <<>>
      BY <1>1, <1>2 DEF RxStream
    <2>2. Parsed(peerSent', <<>>, received', buffer' \o wire')
      BY <1>2, <2>1, ParsedNone
    <2>3. \E t \in Tails : /\ fd'["RX"] = "open" => t = <<>>
                           /\ Parsed(peerSent', t, received', buffer' \o wire')
      BY <2>2, NoTail
    <2>4. ~HasMessage(buffer')
      BY <2>1, NoTail
    <2>5. Len(received') <= Len(peerSent') /\ received' = SubSeq(peerSent', 1, Len(received'))
      BY <1>2
    <2>. QED  BY <1>3, <2>3, <2>4, <2>5 DEF RxStream
  <1>. QED  BY <1>4, <1>5, <1>6, <1>7 DEF AdapterInv

(* The places of run_tx between the writes.                                  *)
LEMMA TxMovesKeep ==
  ASSUME AdapterInv,
         TxTop \/ TxBreak \/ TxDecide \/ TxBlock \/ TxSpurious \/ TxCall
  PROVE  AdapterInv'
  <1>1. TypeOK /\ "TX" \in Side
    BY DEF AdapterInv, Side
  <1>2. PICK place \in Place :
          /\ Goto("TX", place) /\ pc["TX"] # "none" /\ place # "none"
          /\ place \in Writes => pc["TX"] = "write"
          /\ place \in {"lock", "decided", "blocked"} =>
               (pc["TX"] \in {"lock", "decided", "blocked"} \/ (pc["TX"] = "top" /\ running_))
          /\ place \in {"decided", "blocked"} => (pc["TX"] = "decided" \/ running_)
          /\ place = "top" => (pc["TX"] = "write" /\ ~running_)
    BY DEF TxTop, TxBreak, TxDecide, TxBlock, TxSpurious, TxCall, Place, Writes
  <1>3. UNCHANGED <<running_, fd, connected, delay, owner, txVars, rxVars, counters>>
    BY DEF TxTop, TxBreak, TxDecide, TxBlock, TxSpurious, TxCall
  <1>4. delay' \in [Side -> InitialDelay .. MaxDelay]
    BY <1>1, <1>3 DEF TypeOK
  <1>. QED  BY <1>1, <1>2, <1>3, <1>4, Moves

(* The first segment of the queue is taken.                                  *)
LEMMA TxTakeKeeps ==
  ASSUME AdapterInv, TxTake
  PROVE  AdapterInv'
  <1>1. TypeOK /\ Lifecycle /\ InHand /\ TxStream /\ InQueueOrder /\ RxStream
    BY DEF AdapterInv
  <1>2. /\ pc["TX"] = "lock" /\ running_ /\ tx_queue_ # <<>>
        /\ segment' = <<Head(tx_queue_)>> /\ tx_queue_' = Tail(tx_queue_) /\ written' = 0
        /\ pc' = [pc EXCEPT !["TX"] = "write"]
        /\ UNCHANGED <<running_, fd, connected, delay, owner, txHist, rxVars, counters>>
    BY DEF TxTake, Goto
  <1>3. pc' \in [Side -> Place] /\ pc'["RX"] = pc["RX"] /\ pc'["TX"] = "write"
    BY <1>1, <1>2 DEF TypeOK, Side, Place
  <1>4. PICK h \in Segment : h = Head(tx_queue_)
    BY <1>1, <1>2 DEF TypeOK
  <1>5. Tail(tx_queue_) \in Seq(Segment)
    BY <1>1, <1>2 DEF TypeOK
  <1>6. segment' = <<h>> /\ segment' \in Seq(Segment) /\ Len(segment') <= 1 /\ segment' # <<>>
    BY <1>2, <1>4
  <1>7. TypeOK'
    BY <1>1, <1>2, <1>3, <1>5, <1>6 DEF TypeOK, txHist, rxVars, counters
  <1>8. Lifecycle'
    BY <1>1, <1>2, <1>3 DEF Lifecycle, StopHeard, Side
  <1>9. 0 < Len(Frame') /\ SubSeq(Frame', 1, 0) = <<>>
    <2>1. h \in Short
      BY SegmentsShort
    <2>2. Len(frame_message(h)) = PrefixLen + Len(h) /\ Len(h) \in Nat
      BY <2>1, FrameIs
    <2>3. Frame' = frame_message(h)
      BY <1>6 DEF Frame
    <2>4. SubSeq(Frame', 1, 0) = <<>>
      BY SubSeqEmpty
    <2>. QED  BY <2>2, <2>3, <2>4, BaseFacts
  <1>10. InHand'
    BY <1>2, <1>3, <1>6, <1>9 DEF InHand
  <1>11. TxStream'
    <2>1. stream' = stream /\ whole' = whole /\ stream = Framed(whole)
      BY <1>1, <1>2 DEF TxStream, txHist
    <2>2. Framed(whole) \o <<>> = Framed(whole)
      BY <1>1, TxTypes, ConcatEmptySeq
    <2>3. stream' = Framed(whole') \o SubSeq(Frame', 1, written')
      BY <1>2, <1>9, <2>1, <2>2
    <2>4. \E t \in Tails : stream' = Framed(whole') \o t
      BY <2>1, <2>2, NoTail
    <2>. QED  BY <1>3, <2>3, <2>4 DEF TxStream
  <1>12. InQueueOrder'
    <2>1. PICK q \in Seq(Segment), f \in Seq(Segment) : q = tx_queue_ /\ f = finished /\ q # <<>>
      BY <1>1, <1>2 DEF TypeOK
    <2>2. segment = <<>> /\ f \o <<>> = f
      BY <1>1, <1>2, <2>1, ConcatEmptySeq DEF InHand
    <2>3. accepted = f \o q
      BY <1>1, <2>1, <2>2 DEF InQueueOrder
    <2>4. f \o q = Append(f, Head(q)) \o Tail(q)
      <3>1. Cat(f, q) = Cat(Append(f, Head(q)), Tail(q))
        BY <2>1, HeadMoves
      <3>. QED  BY <3>1, Zenon DEF Cat
    <2>5. Append(f, h) = f \o <<h>>
      BY AppendIsConcat
    <2>6. accepted' = accepted /\ finished' = f
      BY <1>2, <2>1 DEF txHist
    <2>7. accepted = (f \o <<h>>) \o Tail(q)
      BY <1>4, <2>1, <2>3, <2>4, <2>5
    <2>. QED  BY <1>2, <1>6, <2>1, <2>6, <2>7 DEF InQueueOrder
  <1>13. RxStream'
    BY <1>1, <1>2, <1>3, RxKept DEF RxStream
  <1>. QED  BY <1>7, <1>8, <1>10, <1>11, <1>12, <1>13 DEF AdapterInv

(* n bytes more of the frame.                                                *)
LEMMA StreamGrows ==
  ASSUME NEW p \in Seq(Byte), NEW f \in Seq(Byte), NEW m \in Nat, NEW n \in Nat, m + n <= Len(f)
  PROVE  /\ Cat(Cat(p, SubSeq(f, 1, m)), SubSeq(f, m + 1, m + n)) = Cat(p, SubSeq(f, 1, m + n))
         /\ Cat(p, SubSeq(f, 1, m + n)) \in Seq(Byte) /\ SubSeq(f, 1, m + n) \in Seq(Byte)
  <1>1. PICK b \in Seq(Byte) : b = SubSeq(f, m + 1, m + n)
    BY PartsJoin
  <1>2. PICK a \in Seq(Byte) : a = SubSeq(f, 1, m)
    <2>1. m \in 0 .. Len(f)
      OBVIOUS
    <2>. QED  BY <2>1, FirstIs
  <1>3. PICK c \in Seq(Byte) : c = SubSeq(f, 1, m + n)
    <2>1. m + n \in 0 .. Len(f)
      OBVIOUS
    <2>. QED  BY <2>1, FirstIs
  <1>4. Cat(a, b) = c
    <2>1. SubSeq(f, 1, m) \o SubSeq(f, m + 1, m + n) = SubSeq(f, 1, m + n)
      BY PartsJoin
    <2>. QED  BY <1>1, <1>2, <1>3, <2>1 DEF Cat
  <1>5. Cat(Cat(p, a), b) = Cat(p, c) /\ Cat(p, c) \in Seq(Byte)
    BY <1>4, CatFacts
  <1>. QED  BY <1>1, <1>2, <1>3, <1>5

(* write(): some bytes more of the frame, and perhaps its last.              *)
LEMMA TxWriteKeeps ==
  ASSUME AdapterInv, TxWrite
  PROVE  AdapterInv'
  <1>1. TypeOK /\ Lifecycle /\ InHand /\ TxStream /\ InQueueOrder /\ RxStream
    BY DEF AdapterInv
  <1>2. /\ pc["TX"] = "writing" /\ pc["TX"] \in Writes
        /\ UNCHANGED <<running_, fd, connected, delay, owner, tx_queue_, accepted, rxVars, counters>>
    BY DEF TxWrite, Writes
  <1>3. segment # <<>> /\ written \in Nat /\ written < Len(Frame)
    BY <1>1, <1>2 DEF InHand, TypeOK
  <1>4. PICK d \in Segment : d = segment[1] /\ segment = <<d>> /\ d \in Short
    BY <1>1, <1>3, TxTypes
  <1>5. PICK f \in Seq(Byte) : f = Frame /\ Len(f) = PrefixLen + Len(d) /\ Len(d) \in Nat
                               /\ f = frame_message(d)
    BY <1>1, <1>3, <1>4, TxTypes DEF Frame
  <1>6. PICK p \in Seq(Byte) : p = Framed(whole)
    BY <1>1, TxTypes
  <1>7. PICK n \in 1 .. (Len(f) - written) :
          /\ stream' = stream \o SubSeq(f, written + 1, written + n)
          /\ IF written + n = Len(f)
               THEN /\ whole' = Append(whole, d) /\ finished' = Append(finished, d)
                    /\ segment' = <<>> /\ written' = 0 /\ Goto("TX", "top")
               ELSE written' = written + n /\ Goto("TX", "write")
                    /\ UNCHANGED <<whole, finished, segment>>
    BY <1>4, <1>5 DEF TxWrite
  <1>8. PICK k \in Nat : k = written + n /\ k <= Len(f) /\ n \in Nat
    BY <1>3, <1>5
  <1>9. stream' = Cat(p, SubSeq(f, 1, k)) /\ stream' \in Seq(Byte) /\ SubSeq(f, 1, k) \in Seq(Byte)
    <2>1. stream = Cat(p, SubSeq(f, 1, written))
      BY <1>1, <1>2, <1>5, <1>6 DEF TxStream, Cat
    <2>2. /\ Cat(Cat(p, SubSeq(f, 1, written)), SubSeq(f, written + 1, written + n))
               = Cat(p, SubSeq(f, 1, written + n))
          /\ Cat(p, SubSeq(f, 1, written + n)) \in Seq(Byte)
          /\ SubSeq(f, 1, written + n) \in Seq(Byte)
      BY <1>3, <1>8, StreamGrows
    <2>3. stream' = Cat(stream, SubSeq(f, written + 1, written + n))
      BY <1>7 DEF Cat
    <2>. QED  BY <1>8, <2>1, <2>2, <2>3
  <1>10. CASE k = Len(f)
    <2>1. /\ whole' = Append(whole, d) /\ finished' = Append(finished, d)
          /\ segment' = <<>> /\ written' = 0 /\ pc' = [pc EXCEPT !["TX"] = "top"]
      BY <1>7, <1>8, <1>10 DEF Goto
    <2>2. pc' \in [Side -> Place] /\ pc'["RX"] = pc["RX"] /\ pc'["TX"] = "top"
      BY <1>1, <2>1 DEF TypeOK, Side, Place
    <2>3. whole' \in Seq(Segment) /\ finished' \in Seq(Segment)
      BY <1>1, <2>1, AppendIs DEF TypeOK
    <2>4. TypeOK'
      BY <1>1, <1>2, <1>9, <2>1, <2>2, <2>3, SMTT(30) DEF TypeOK, rxVars, counters
    <2>5. Lifecycle'
      BY <1>1, <1>2, <2>2 DEF Lifecycle, StopHeard, Side
    <2>6. InHand'
      BY <2>1, <2>2 DEF InHand, Writes
    <2>7. TxStream'
      <3>1. Framed(whole') = p \o f
        BY <1>1, <1>4, <1>5, <1>6, <2>1, TxTypes, FramedAppend
      <3>2. SubSeq(f, 1, k) = f
        BY <1>10, SubSeqFull
      <3>3. stream' = Framed(whole')
        BY <1>9, <3>1, <3>2 DEF Cat
      <3>4. Framed(whole') \o <<>> = Framed(whole')
        BY <1>9, <3>3, ConcatEmptySeq
      <3>5. \E t \in Tails : stream' = Framed(whole') \o t
        BY <3>3, <3>4, NoTail
      <3>. QED  BY <2>2, <3>3, <3>5 DEF TxStream, Writes
    <2>8. InQueueOrder'
      <3>1. PICK g \in Seq(Segment) : g = finished
        BY <1>1 DEF TypeOK
      <3>2. Append(g, d) = g \o <<d>> /\ Append(g, d) \in Seq(Segment)
        BY AppendIsConcat, AppendIs
      <3>3. Append(g, d) \o <<>> = Append(g, d)
        BY <3>2, ConcatEmptySeq
      <3>4. accepted = (g \o <<d>>) \o tx_queue_
        BY <1>1, <1>4, <3>1 DEF InQueueOrder
      <3>5. accepted = (Append(g, d) \o <<>>) \o tx_queue_
        BY <3>2, <3>3, <3>4
      <3>. QED  BY <1>2, <2>1, <3>1, <3>5 DEF InQueueOrder
    <2>9. RxStream'
      BY <1>1, <1>2, <2>2, RxKept DEF RxStream
    <2>. QED  BY <2>4, <2>5, <2>6, <2>7, <2>8, <2>9 DEF AdapterInv
  <1>11. CASE k # Len(f)
    <2>1. /\ written' = k /\ UNCHANGED <<whole, finished, segment>> /\ k < Len(f)
          /\ pc' = [pc EXCEPT !["TX"] = "write"]
      BY <1>5, <1>7, <1>8, <1>11 DEF Goto
    <2>2. pc' \in [Side -> Place] /\ pc'["RX"] = pc["RX"] /\ pc'["TX"] = "write"
      BY <1>1, <2>1 DEF TypeOK, Side, Place
    <2>3. TypeOK'
      BY <1>1, <1>2, <1>9, <2>1, <2>2, SMTT(30) DEF TypeOK, rxVars, counters
    <2>4. Lifecycle'
      BY <1>1, <1>2, <2>2 DEF Lifecycle, StopHeard, Side
    <2>5. Frame' = f
      BY <1>5, <2>1 DEF Frame
    <2>6. InHand'
      BY <1>3, <2>1, <2>5, <2>2 DEF InHand
    <2>7. TxStream'
      <3>1. stream' = Framed(whole') \o SubSeq(f, 1, k)
        BY <1>6, <1>9, <2>1 DEF Cat
      <3>2. SubSeq(f, 1, k) \in Tails
        <4>1. k \in 0 .. PrefixLen + Len(d) - 1
          BY <1>5, <2>1, BaseFacts
        <4>. QED  BY <1>4, <1>5, <1>9, <4>1 DEF Tails, Open
      <3>. QED  BY <2>1, <2>5, <2>2, <3>1, <3>2 DEF TxStream
    <2>8. InQueueOrder'
      BY <1>1, <1>2, <2>1 DEF InQueueOrder
    <2>9. RxStream'
      BY <1>1, <1>2, <2>1, <2>2, RxKept DEF RxStream
    <2>. QED  BY <2>3, <2>4, <2>6, <2>7, <2>8, <2>9 DEF AdapterInv
  <1>. QED  BY <1>10, <1>11

(* write() fails, and perhaps the process with it.                           *)
LEMMA TxFailsKeeps ==
  ASSUME AdapterInv, TxWriteFails \/ TxWriteKilled
  PROVE  AdapterInv'
  <1>1. TypeOK /\ Lifecycle /\ InHand /\ TxStream /\ InQueueOrder /\ RxStream
    BY DEF AdapterInv
  <1>2. CASE TxWriteFails
    <2>1. /\ connected' = [connected EXCEPT !["TX"] = FALSE] /\ fd' = [fd EXCEPT !["TX"] = "closed"]
          /\ delay' = [delay EXCEPT !["TX"] = InitialDelay] /\ pc' = [pc EXCEPT !["TX"] = "connect"]
          /\ pc["TX"] = "writing" /\ UNCHANGED <<running_, owner, txVars, rxVars, counters>>
      BY <1>2 DEF TxWriteFails, Hangup, Goto
    <2>2. /\ pc' \in [Side -> Place] /\ pc'["RX"] = pc["RX"] /\ fd'["RX"] = fd["RX"]
          /\ fd' \in [Side -> {"closed", "open", "broken", "stalled"}] /\ pc'["TX"] = "connect"
          /\ connected' \in [Side -> BOOLEAN] /\ delay' \in [Side -> InitialDelay .. MaxDelay]
      BY <1>1, <2>1, DelayAssumption DEF TypeOK, Side, Place
    <2>3. TypeOK'
      BY <1>1, <2>1, <2>2 DEF TypeOK, txVars, rxVars, counters
    <2>4. Lifecycle'
      BY <1>1, <2>1, <2>2 DEF Lifecycle, StopHeard, Side
    <2>5. InHand' /\ TxStream' /\ InQueueOrder'
      BY <1>1, <2>1, <2>2, TxKept DEF Writes
    <2>6. RxStream'
      BY <1>1, <2>1, <2>2, RxKept DEF RxStream
    <2>. QED  BY <2>3, <2>4, <2>5, <2>6 DEF AdapterInv
  <1>3. CASE TxWriteKilled
    <2>1. /\ owner' = "killed" /\ pc' = [s \in Side |-> "killed"] /\ fd' = [s \in Side |-> "closed"]
          /\ UNCHANGED <<running_, connected, delay, txVars, rxVars, counters>>
      BY <1>3 DEF TxWriteKilled
    <2>2. /\ pc' \in [Side -> Place] /\ pc'["RX"] = "killed" /\ pc'["TX"] = "killed"
          /\ fd' \in [Side -> {"closed", "open", "broken", "stalled"}] /\ fd'["RX"] = "closed"
      BY <2>1 DEF Side, Place
    <2>3. TypeOK'
      BY <1>1, <2>1, <2>2 DEF TypeOK, txVars, rxVars, counters
    <2>4. Lifecycle'
      BY <1>1, <2>1, <2>2 DEF Lifecycle, StopHeard, Side
    <2>5. InHand' /\ TxStream' /\ InQueueOrder'
      BY <1>1, <2>1, <2>2, TxKept DEF Writes
    <2>6. RxStream'
      BY <1>1, <2>1, <2>2, RxKept DEF RxStream
    <2>. QED  BY <2>3, <2>4, <2>5, <2>6 DEF AdapterInv
  <1>. QED  BY <1>2, <1>3

(* The places of run_rx between the reads.                                   *)
LEMMA RxMovesKeep ==
  ASSUME AdapterInv, RxTop \/ RxTimeout \/ RxPollError \/ RxExtracted
  PROVE  AdapterInv'
  <1>1. TypeOK /\ RxStream /\ "RX" \in Side
    BY DEF AdapterInv, Side
  <1>2. PICK place \in Place :
          /\ Goto("RX", place) /\ pc["RX"] \in {"top", "poll", "extract"}
          /\ place \in {"done", "top", "poll"}
          /\ place \in {"top", "poll"} => ~HasMessage(buffer)
    BY <1>1 DEF RxTop, RxTimeout, RxPollError, RxExtracted, Place, RxStream
  <1>3. UNCHANGED <<running_, fd, connected, delay, owner, txVars, rxVars, counters>>
    BY DEF RxTop, RxTimeout, RxPollError, RxExtracted
  <1>4. delay' \in [Side -> InitialDelay .. MaxDelay]
    BY <1>1, <1>3 DEF TypeOK
  <1>. QED  BY <1>1, <1>2, <1>3, <1>4, Moves DEF Writes

(* The connection is lost: the part of a message in the buffer is dropped.   *)
LEMMA RxLostKeeps ==
  ASSUME AdapterInv, RxLost
  PROVE  AdapterInv'
  <1>1. TypeOK /\ Lifecycle /\ InHand /\ TxStream /\ InQueueOrder /\ RxStream
    BY DEF AdapterInv
  <1>2. /\ connected' = [connected EXCEPT !["RX"] = FALSE] /\ fd' = [fd EXCEPT !["RX"] = "closed"]
        /\ delay' = [delay EXCEPT !["RX"] = InitialDelay] /\ pc' = [pc EXCEPT !["RX"] = "connect"]
        /\ pc["RX"] = "poll" /\ buffer' = <<>>
        /\ UNCHANGED <<running_, owner, txVars, wire, peerSent, received, counters>>
    BY DEF RxLost, Hangup, Goto
  <1>3. /\ pc' \in [Side -> Place] /\ pc'["TX"] = pc["TX"] /\ fd'["TX"] = fd["TX"]
        /\ fd' \in [Side -> {"closed", "open", "broken", "stalled"}] /\ pc'["RX"] = "connect"
        /\ connected' \in [Side -> BOOLEAN] /\ delay' \in [Side -> InitialDelay .. MaxDelay]
    BY <1>1, <1>2, DelayAssumption DEF TypeOK, Side, Place
  <1>4. TypeOK'
    BY <1>1, <1>2, <1>3 DEF TypeOK, txVars, counters
  <1>5. Lifecycle'
    BY <1>1, <1>2, <1>3 DEF Lifecycle, StopHeard, Side, counters
  <1>6. InHand' /\ TxStream' /\ InQueueOrder'
    BY <1>1, <1>2, <1>3, TxKept DEF InHand, TxStream
  <1>7. RxStream'
    BY <1>1, <1>2, <1>3 DEF RxStream
  <1>. QED  BY <1>4, <1>5, <1>6, <1>7 DEF AdapterInv

(* read(): the stream stays the same, more of it is in the buffer.           *)
LEMMA RxReadKeeps ==
  ASSUME AdapterInv, RxRead
  PROVE  AdapterInv'
  <1>1. TypeOK /\ Lifecycle /\ InHand /\ TxStream /\ InQueueOrder /\ RxStream
    BY DEF AdapterInv
  <1>2. /\ pc["RX"] = "poll" /\ pc' = [pc EXCEPT !["RX"] = "extract"]
        /\ UNCHANGED <<running_, fd, connected, delay, owner, txVars, peerSent, received, counters>>
    BY DEF RxRead, Goto
  <1>3. PICK n \in 1 .. Len(wire) : /\ buffer' = buffer \o SubSeq(wire, 1, n)
                                    /\ wire' = SubSeq(wire, n + 1, Len(wire))
    BY DEF RxRead
  <1>4. buffer' \in Seq(Byte) /\ wire' \in Seq(Byte) /\ buffer' \o wire' = buffer \o wire
    BY <1>1, <1>3, BytesMove DEF TypeOK
  <1>5. pc' \in [Side -> Place] /\ pc'["TX"] = pc["TX"] /\ pc'["RX"] = "extract"
    BY <1>1, <1>2 DEF TypeOK, Side, Place
  <1>6. TypeOK'
    BY <1>1, <1>2, <1>4, <1>5 DEF TypeOK, txVars, counters
  <1>7. Lifecycle'
    BY <1>1, <1>2, <1>5 DEF Lifecycle, StopHeard, Side, counters
  <1>8. InHand' /\ TxStream' /\ InQueueOrder'
    BY <1>1, <1>2, <1>5, TxKept DEF InHand, TxStream
  <1>9. RxStream'
    <2>1. PICK t \in Tails : /\ fd["RX"] = "open" => t = <<>>
                             /\ Parsed(peerSent, t, received, buffer \o wire)
      BY <1>1, <1>2 DEF RxStream
    <2>2. Parsed(peerSent', t, received', buffer' \o wire')
      BY <1>2, <1>4, <2>1
    <2>. QED  BY <1>1, <1>2, <1>5, <2>1, <2>2 DEF RxStream
  <1>. QED  BY <1>6, <1>7, <1>8, <1>9 DEF AdapterInv

(* The callback gets the next message.                                       *)
LEMMA RxExtractKeeps ==
  ASSUME AdapterInv, RxExtract
  PROVE  AdapterInv'
  <1>1. TypeOK /\ Lifecycle /\ InHand /\ TxStream /\ InQueueOrder /\ RxStream
    BY DEF AdapterInv
  <1>2. /\ pc["RX"] = "extract" /\ HasMessage(buffer)
        /\ received' = Append(received, FirstMessage(buffer)) /\ buffer' = AfterMessage(buffer)
        /\ UNCHANGED <<running_, fd, connected, pc, delay, owner, txVars, wire, peerSent, counters>>
    BY DEF RxExtract
  <1>3. PICK t \in Tails : /\ fd["RX"] = "open" => t = <<>>
                           /\ Parsed(peerSent, t, received, buffer \o wire)
    BY <1>1, <1>2 DEF RxStream
  <1>4. t \in Seq(Byte) /\ Open(t) /\ peerSent \in Seq(Short)
        /\ buffer \in Seq(Byte) /\ wire \in Seq(Byte) /\ received \in Seq(Seq(Byte))
    BY <1>1, SegmentsShort DEF Tails, TypeOK
  <1>5. /\ FirstMessage(buffer) \in Short /\ AfterMessage(buffer) \in Seq(Byte)
        /\ Parsed(peerSent, t, Append(received, FirstMessage(buffer)), AfterMessage(buffer) \o wire)
    BY <1>2, <1>3, <1>4, ParsedNext
  <1>6. received' \in Seq(Seq(Byte))
    <2>1. PICK V : V = Seq(Byte)
      OBVIOUS
    <2>2. PICK x \in V : x = FirstMessage(buffer)
      BY <1>5, <2>1 DEF Short
    <2>3. received \in Seq(V)
      BY <1>4, <2>1
    <2>4. Append(received, x) \in Seq(V)
      BY <2>3, AppendIs
    <2>. QED  BY <1>2, <2>1, <2>2, <2>4
  <1>7. TypeOK'
    BY <1>1, <1>2, <1>5, <1>6 DEF TypeOK, txVars, counters
  <1>8. Lifecycle'
    BY <1>1, <1>2 DEF Lifecycle, StopHeard, Side, counters
  <1>9. InHand' /\ TxStream' /\ InQueueOrder'
    BY <1>1, <1>2, TxKept DEF InHand, TxStream
  <1>10. RxStream'
    <2>1. Parsed(peerSent', t, received', buffer' \o wire')
      BY <1>2, <1>5
    <2>2. Len(received') <= Len(peerSent') /\ received' = SubSeq(peerSent', 1, Len(received'))
      BY <2>1 DEF Parsed
    <2>. QED  BY <1>2, <1>3, <2>1, <2>2 DEF RxStream
  <1>. QED  BY <1>7, <1>8, <1>9, <1>10 DEF AdapterInv

-----------------------------------------------------------------------------
(* The modem's side of the RX connection.                                    *)

(* The modem sends a frame, which comes behind what is on the wire.          *)
LEMMA PeerSendKeeps ==
  ASSUME AdapterInv, NEW s \in Segment, PeerSend(s)
  PROVE  AdapterInv'
  <1>1. TypeOK /\ Lifecycle /\ InHand /\ TxStream /\ InQueueOrder /\ RxStream
    BY DEF AdapterInv
  <1>2. /\ fd["RX"] = "open" /\ wire' = wire \o frame_message(s) /\ peerSent' = Append(peerSent, s)
        /\ messages' = messages + 1
        /\ UNCHANGED <<running_, fd, connected, pc, delay, owner, txVars, buffer, received,
                       started, upsets, missed>>
    BY DEF PeerSend
  <1>3. PICK d \in Short : d = s
    BY SegmentsShort
  <1>4. /\ peerSent \in Seq(Short) /\ peerSent \in Seq(Segment)
        /\ buffer \in Seq(Byte) /\ wire \in Seq(Byte)
    BY <1>1, SegmentsShort DEF TypeOK
  <1>5. wire' \in Seq(Byte)
    <2>1. PICK f \in Seq(Byte) : f = frame_message(d)
      BY FrameIs
    <2>2. PICK w \in Seq(Byte) : w = wire
      BY <1>4
    <2>3. w \o f \in Seq(Byte)
      BY ConcatIs
    <2>. QED  BY <1>2, <1>3, <2>1, <2>2, <2>3
  <1>6. peerSent' \in Seq(Segment)
    BY <1>2, <1>4, AppendIs
  <1>7. TypeOK'
    BY <1>1, <1>2, <1>5, <1>6 DEF TypeOK, txVars
  <1>8. Lifecycle'
    BY <1>1, <1>2 DEF Lifecycle, StopHeard, Side
  <1>9. InHand' /\ TxStream' /\ InQueueOrder'
    BY <1>1, <1>2, TxKept DEF InHand, TxStream
  <1>10. RxStream'
    <2>1. ASSUME pc["RX"] \in {"top", "poll", "extract"}
          PROVE  Parsed(peerSent', <<>>, received', buffer' \o wire')
      <3>1. Parsed(peerSent, <<>>, received, buffer \o wire)
        BY <1>1, <1>2, <2>1 DEF RxStream
      <3>2. Parsed(Append(peerSent, d), <<>>, received, buffer \o (wire \o frame_message(d)))
        BY <1>4, <3>1, ParsedMore
      <3>. QED  BY <1>2, <1>3, <3>2
    <2>2. Len(received') <= Len(peerSent') /\ received' = SubSeq(peerSent', 1, Len(received'))
      <3>1. PICK k \in Nat : k = Len(received) /\ k <= Len(peerSent) /\ received = SubSeq(peerSent, 1, k)
        <4>1. Len(received) \in Nat
          BY <1>1 DEF TypeOK
        <4>. QED  BY <1>1, <4>1 DEF RxStream
      <3>2. /\ k <= Len(Append(peerSent, s))
            /\ SubSeq(Append(peerSent, s), 1, k) = SubSeq(peerSent, 1, k)
        BY <1>4, <3>1, PrefixOfAppend
      <3>. QED  BY <1>2, <3>1, <3>2
    <2>. QED  BY <1>1, <1>2, <2>1, <2>2, NoTail DEF RxStream
  <1>. QED  BY <1>7, <1>8, <1>9, <1>10 DEF AdapterInv

(* It goes away in the middle of a frame.                                    *)
LEMMA PeerCutKeeps ==
  ASSUME AdapterInv, NEW s \in Segment, NEW n \in 0 .. (PrefixLen + Len(s)), PeerCut(s, n)
  PROVE  AdapterInv'
  <1>1. TypeOK /\ Lifecycle /\ InHand /\ TxStream /\ InQueueOrder /\ RxStream
    BY DEF AdapterInv
  <1>2. /\ fd["RX"] = "open" /\ n < PrefixLen + Len(s)
        /\ wire' = wire \o SubSeq(frame_message(s), 1, n)
        /\ fd' = [fd EXCEPT !["RX"] = "broken"] /\ upsets' = upsets + 1
        /\ UNCHANGED <<running_, connected, pc, delay, owner, txVars, buffer, peerSent, received,
                       started, messages, missed>>
    BY DEF PeerCut
  <1>3. PICK d \in Short : d = s
    BY SegmentsShort
  <1>4. peerSent \in Seq(Short) /\ buffer \in Seq(Byte) /\ wire \in Seq(Byte)
    BY <1>1, SegmentsShort DEF TypeOK
  <1>5. PICK f \in Seq(Byte) : f = frame_message(d) /\ Len(f) = PrefixLen + Len(d) /\ Len(d) \in Nat
    BY FrameIs
  <1>6. n \in 0 .. PrefixLen + Len(d) - 1 /\ n \in 0 .. Len(f)
    BY <1>2, <1>3, <1>5, BaseFacts
  <1>7. PICK t \in Seq(Byte) : t = SubSeq(f, 1, n)
    BY <1>6, FirstIs
  <1>8. t \in Tails
    BY <1>5, <1>6, <1>7 DEF Tails, Open
  <1>9. wire' = wire \o t /\ wire' \in Seq(Byte)
    <2>1. PICK w \in Seq(Byte) : w = wire
      BY <1>4
    <2>2. w \o t \in Seq(Byte)
      BY ConcatIs
    <2>. QED  BY <1>2, <1>3, <1>5, <1>7, <2>1, <2>2
  <1>10. /\ fd' \in [Side -> {"closed", "open", "broken", "stalled"}]
         /\ fd'["RX"] = "broken" /\ fd'["TX"] = fd["TX"]
    BY <1>1, <1>2 DEF TypeOK, Side
  <1>11. TypeOK'
    BY <1>1, <1>2, <1>9, <1>10, SMTT(30) DEF TypeOK, txVars
  <1>12. Lifecycle'
    <2>1. ~(owner = "idle" /\ ~running_)
      BY <1>1, <1>2 DEF Lifecycle, StopHeard, Side
    <2>. QED  BY <1>1, <1>2, <1>10, <2>1 DEF Lifecycle, StopHeard
  <1>13. InHand' /\ TxStream' /\ InQueueOrder'
    BY <1>1, <1>2, TxKept DEF InHand, TxStream
  <1>14. RxStream'
    <2>1. ASSUME pc["RX"] \in {"top", "poll", "extract"}
          PROVE  Parsed(peerSent', t, received', buffer' \o wire')
      <3>1. Parsed(peerSent, <<>>, received, buffer \o wire)
        BY <1>1, <1>2, <2>1 DEF RxStream
      <3>2. Parsed(peerSent, t, received, buffer \o (wire \o t))
        BY <1>4, <3>1, ParsedCut
      <3>. QED  BY <1>2, <1>9, <3>2
    <2>. QED  BY <1>1, <1>2, <1>8, <1>10, <2>1 DEF RxStream
  <1>. QED  BY <1>11, <1>12, <1>13, <1>14 DEF AdapterInv

(* The TX connection is lost or stalls, or a stall ends.                     *)
LEMMA TxEndKeeps ==
  ASSUME AdapterInv, PeerGoneOrStalls \/ PeerEndsStall
  PROVE  AdapterInv'
  <1>1. TypeOK /\ Lifecycle /\ InHand /\ TxStream /\ InQueueOrder /\ RxStream
    BY DEF AdapterInv
  <1>2. /\ fd["TX"] # "closed" /\ upsets' \in Nat
        /\ UNCHANGED <<running_, connected, pc, delay, owner, txVars, rxVars, started, messages,
                       missed>>
    BY <1>1 DEF PeerGoneOrStalls, PeerEndsStall, TypeOK, counters
  <1>3. PICK state \in {"open", "broken", "stalled"} : fd' = [fd EXCEPT !["TX"] = state]
    BY DEF PeerGoneOrStalls, PeerEndsStall, TxEndIs
  <1>4. /\ fd' \in [Side -> {"closed", "open", "broken", "stalled"}]
        /\ fd'["TX"] = state /\ fd'["RX"] = fd["RX"]
    BY <1>1, <1>3 DEF TypeOK, Side
  <1>5. TypeOK'
    BY <1>1, <1>2, <1>4, SMTT(30) DEF TypeOK, txVars, rxVars
  <1>6. Lifecycle'
    <2>1. ~(owner = "idle" /\ ~running_)
      BY <1>1, <1>2 DEF Lifecycle, StopHeard, Side
    <2>. QED  BY <1>1, <1>2, <1>4, <2>1 DEF Lifecycle, StopHeard
  <1>7. InHand' /\ TxStream' /\ InQueueOrder'
    BY <1>1, <1>2, TxKept DEF InHand, TxStream
  <1>8. RxStream'
    BY <1>1, <1>2, <1>4, RxKept DEF RxStream
  <1>. QED  BY <1>5, <1>6, <1>7, <1>8 DEF AdapterInv

-----------------------------------------------------------------------------
(* The theorems.                                                             *)

(* The adapter starts with nothing open and nothing sent.                    *)
LEMMA InitAdapterInv == Init => AdapterInv
  <1> SUFFICES ASSUME Init PROVE AdapterInv
    OBVIOUS
  <1>1. pc["TX"] = "none" /\ pc["RX"] = "none" /\ fd["TX"] = "closed" /\ fd["RX"] = "closed"
    BY DEF Init, Side
  <1>2. TypeOK
    <2>1. InitialDelay \in InitialDelay .. MaxDelay
      BY DelayAssumption
    <2>2. received \in Seq(Seq(Byte))
      <3>1. PICK V : V = Seq(Byte)
        OBVIOUS
      <3>2. <<>> \in Seq(V)
        OBVIOUS
      <3>. QED  BY <3>1, <3>2 DEF Init
    <2>3. /\ fd \in [Side -> {"closed", "open", "broken", "stalled"}] /\ connected \in [Side -> BOOLEAN]
          /\ pc \in [Side -> Place]
      BY DEF Init, Place
    <2>4. delay \in [Side -> InitialDelay .. MaxDelay]
      BY <2>1 DEF Init
    <2>5. /\ <<>> \in Seq(Segment) /\ <<>> \in Seq(Byte) /\ 0 \in Nat /\ Len(<<>>) <= 1
      OBVIOUS
    <2>6. /\ tx_queue_ = <<>> /\ segment = <<>> /\ written = 0 /\ buffer = <<>> /\ wire = <<>>
          /\ stream = <<>> /\ whole = <<>> /\ accepted = <<>> /\ finished = <<>>
          /\ peerSent = <<>> /\ upsets = 0 /\ messages = 0
      BY DEF Init
    <2>7. /\ running_ \in BOOLEAN /\ started \in BOOLEAN /\ missed \in BOOLEAN
          /\ owner \in {"idle", "notify", "joinTX", "joinRX", "close", "killed"}
      BY DEF Init
    <2>. QED  BY <2>2, <2>3, <2>4, <2>5, <2>6, <2>7, Zenon DEF TypeOK
  <1>3. Lifecycle
    BY <1>1 DEF Init, Lifecycle, StopHeard, Side
  <1>4. InHand
    BY <1>1 DEF InHand, Writes
  <1>5. TxStream
    <2>1. Framed(<<>>) = <<>> /\ <<>> \o <<>> = <<>>
      BY FramedEmpty, ConcatEmptySeq
    <2>2. stream = Framed(whole) \o <<>>
      BY <2>1 DEF Init
    <2>. QED  BY <1>1, <2>2, NoTail DEF TxStream, Writes
  <1>6. InQueueOrder
    BY ConcatEmptySeq DEF Init, InQueueOrder
  <1>7. RxStream
    BY <1>1 DEF Init, RxStream
  <1>. QED  BY <1>2, <1>3, <1>4, <1>5, <1>6, <1>7 DEF AdapterInv

(* Every step of the adapter and of the modem keeps the invariant.           *)
LEMMA NextAdapterInv == AdapterInv /\ [Next]_vars => AdapterInv'
  <1> SUFFICES ASSUME AdapterInv, [Next]_vars PROVE AdapterInv'
    OBVIOUS
  <1>1. CASE \E s \in Segment : send_segment(s)
    BY <1>1, SendKeeps
  <1>2. CASE \E s \in Segment : PeerSend(s)
    BY <1>2, PeerSendKeeps
  <1>3. CASE \E s \in Segment : \E n \in 0 .. (PrefixLen + Len(s)) : PeerCut(s, n)
    BY <1>3, PeerCutKeeps
  <1>4. CASE start
    BY <1>4, StartKeeps
  <1>5. CASE stop \/ StopStep
    BY <1>5, StopKeeps
  <1>6. CASE Redial("TX")
    <2>1. CASE DialOk("TX")
      BY <2>1, DialOkTxKeeps
    <2>2. CASE Reconnect("TX") \/ DialFails("TX") \/ Backoff("TX")
      BY <2>2, RedialKeeps DEF Side
    <2>. QED  BY <1>6, <2>1, <2>2 DEF Redial
  <1>7. CASE Redial("RX")
    <2>1. CASE DialOk("RX")
      BY <2>1, DialOkRxKeeps
    <2>2. CASE Reconnect("RX") \/ DialFails("RX") \/ Backoff("RX")
      BY <2>2, RedialKeeps DEF Side
    <2>. QED  BY <1>7, <2>1, <2>2 DEF Redial
  <1>8. CASE TxTop \/ TxBreak \/ TxDecide \/ TxBlock \/ TxSpurious \/ TxCall
    BY <1>8, TxMovesKeep
  <1>9. CASE TxTake
    BY <1>9, TxTakeKeeps
  <1>10. CASE TxWrite
    BY <1>10, TxWriteKeeps
  <1>11. CASE TxWriteFails \/ TxWriteKilled
    BY <1>11, TxFailsKeeps
  <1>12. CASE RxTop \/ RxTimeout \/ RxPollError \/ RxExtracted
    BY <1>12, RxMovesKeep
  <1>13. CASE RxRead
    BY <1>13, RxReadKeeps
  <1>14. CASE RxLost
    BY <1>14, RxLostKeeps
  <1>15. CASE RxExtract
    BY <1>15, RxExtractKeeps
  <1>16. CASE PeerGoneOrStalls \/ PeerEndsStall
    BY <1>16, TxEndKeeps
  <1>17. CASE UNCHANGED vars
    <2>1. TypeOK /\ Lifecycle /\ InHand /\ TxStream /\ InQueueOrder /\ RxStream
      BY DEF AdapterInv
    <2>2. /\ UNCHANGED txVars /\ UNCHANGED rxVars /\ UNCHANGED counters
          /\ UNCHANGED <<running_, fd, connected, pc, delay, owner>>
      BY <1>17 DEF vars
    <2>3. TypeOK'
      BY <2>1, <2>2 DEF TypeOK, txVars, rxVars, counters
    <2>4. Lifecycle'
      BY <2>1, <2>2 DEF Lifecycle, StopHeard, counters
    <2>5. InHand' /\ TxStream' /\ InQueueOrder'
      BY <2>1, <2>2, TxKept DEF InHand, TxStream
    <2>6. RxStream'
      BY <2>1, <2>2, RxKept DEF RxStream
    <2>. QED  BY <2>3, <2>4, <2>5, <2>6 DEF AdapterInv
  <1>. QED  BY <1>1, <1>2, <1>3, <1>4, <1>5, <1>6, <1>7, <1>8, <1>9, <1>10, <1>11, <1>12, <1>13,
               <1>14, <1>15, <1>16, <1>17 DEF Next, TxThread, RxThread

(* The adapter keeps its invariant, whatever connections are lost, calls     *)
(* come and bytes are cut on the way.                                        *)
THEOREM AdapterInvariant == Spec => []AdapterInv
  BY InitAdapterInv, NextAdapterInv, PTL DEF Spec

(* run_tx sends the segments of the queue, each as one whole frame, in their *)
(* order: whoever parses the bytes of a connection finds the segments that   *)
(* were written in full there, for every base, length of prefix and segment  *)
(* whose frame is shorter than 2^32 bytes.                                   *)
THEOREM AdapterSendsInOrder == Spec => []SendsInOrder
  <1>1. ASSUME AdapterInv PROVE SendsInOrder
    <2>1. TypeOK /\ TxStream /\ InQueueOrder
      BY <1>1 DEF AdapterInv
    <2>2. PICK t \in Tails : stream = Framed(whole) \o t
      BY <2>1 DEF TxStream
    <2>3. whole \in Seq(Short) /\ t \in Seq(Byte) /\ Open(t)
      BY <2>1, TxTypes DEF Tails
    <2>4. Messages(stream) = whole
      BY <2>2, <2>3, MessagesAre
    <2>. QED  BY <2>1, <2>4 DEF SendsInOrder, StreamParses
  <1>. QED  BY <1>1, AdapterInvariant, PTL

(* run_rx hands over the modem's messages, whole, in order and as soon as    *)
(* they are there; no part of a message from a lost connection is joined     *)
(* with a later one.                                                         *)
THEOREM AdapterReceivesWhole == Spec => []ReceivesWhole
  <1>1. ASSUME AdapterInv PROVE ReceivesWhole
    BY <1>1 DEF AdapterInv, RxStream, ReceivesWhole, NoSplicedMessage, NothingLeftInBuffer
  <1>. QED  BY <1>1, AdapterInvariant, PTL

(* stop() is heard: after its notification the TX thread is neither blocked  *)
(* nor about to block, unless it had decided to block, with the mutex, when   *)
(* the notification came.                                                    *)
THEOREM AdapterHearsStop == Spec => []StopHeard
  <1>1. ASSUME AdapterInv PROVE StopHeard
    BY <1>1 DEF AdapterInv, Lifecycle
  <1>. QED  BY <1>1, AdapterInvariant, PTL

(* The threads use descriptors that are open, and when stop() has returned   *)
(* no thread runs and nothing is open or called connected.                   *)
THEOREM AdapterDescriptorsLive == Spec => []DescriptorsLive
  <1>1. ASSUME AdapterInv PROVE DescriptorsLive
    BY <1>1 DEF AdapterInv, Lifecycle, StopHeard, DescriptorsLive
  <1>. QED  BY <1>1, AdapterInvariant, PTL
=============================================================================
