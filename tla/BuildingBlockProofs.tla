------------------------- MODULE BuildingBlockProofs -------------------------
(***************************************************************************)
(* The parts that the composed models take for granted: the queue between  *)
(* the modem's threads (ModemInput and ModemOutput have a list in its      *)
(* place), and the timers and the reception trackers of an LTP engine      *)
(* (LtpEngine has a list of timers and a set of offsets).                  *)
(***************************************************************************)
EXTENDS SpscQueue, TimerManager, ReceptionTracker, ListFacts, FiniteSetTheorems

-----------------------------------------------------------------------------
(***************************************************************************)
(* The queue: safety of the ring buffer for every Capacity and every set of *)
(* elements, and that it implements BoundedFifo.                           *)
(***************************************************************************)

(* The index arithmetic of try_push and try_pop: one step round the ring.  *)
LEMMA NextSlotWraps ==
  ASSUME NEW i \in Slot
  PROVE  NextSlot(i) = IF i = Capacity - 1 THEN 0 ELSE i + 1
  BY CapacityAssumption DEF NextSlot, Slot

(* The index after a slot's, modulo the capacity, is a slot's.               *)
LEMMA NextSlotInSlot ==
  ASSUME NEW i \in Slot
  PROVE  NextSlot(i) \in Slot
  BY NextSlotWraps, CapacityAssumption DEF Slot
-----------------------------------------------------------------------------
(***************************************************************************)
(* The inductive invariant.  An index that a thread loaded is still the    *)
(* one it owns, the outcome of its check of the other thread's index still *)
(* holds when it acts on it, and whoever may have missed a notification is *)
(* known from the owner of the mutex.                                      *)
(***************************************************************************)
ProducerInv ==
  /\ ppc # "idle" => item \in Item
  /\ ppc \in {"check", "write", "publish"} => cur_head = head_
  /\ ppc \in {"write", "publish"} => NextSlot(head_) # tail_
  /\ ppc = "publish" => buffer_[head_] # NoItem

ConsumerInv ==
  /\ cpc \in {"peek", "take", "advance"} => cur_tail = tail_
  /\ cpc \in {"take", "advance"} => head_ # tail_
  /\ cpc = "peek" /\ attempt = "last" => head_ # tail_

WakeupInv ==
  /\ ppc = "unlock" => mtx_ = "producer"
  /\ cpc \in {"pred", "park"} => mtx_ = "consumer"
  /\ cpc = "park" /\ head_ # tail_ => ppc = "lock"
  /\ NoLostWakeup

RingInv == QTypeOK /\ ProducerInv /\ ConsumerInv /\ OccupiedFilled /\ WakeupInv
-----------------------------------------------------------------------------
(* Publishing the slot at head_ adds exactly that slot to the occupied     *)
(* ones, when the ring is not full.                                        *)
LEMMA OccupiedGrows ==
  ASSUME QTypeOK, NextSlot(head_) # tail_, head_' = NextSlot(head_),
         tail_' = tail_
  PROVE  Occupied' = Occupied \cup {head_}
  <1>1. Capacity \in Nat /\ head_ \in 0 .. Capacity - 1 /\ tail_ \in 0 .. Capacity - 1
    BY CapacityAssumption DEF QTypeOK, Slot
  <1>2. head_' = IF head_ = Capacity - 1 THEN 0 ELSE head_ + 1
    BY NextSlotWraps DEF QTypeOK
  <1>. QED  BY <1>1, <1>2 DEF Occupied

(* Advancing tail_ frees exactly the slot it pointed to, when the ring is  *)
(* not empty.                                                              *)
LEMMA OccupiedShrinks ==
  ASSUME QTypeOK, head_ # tail_, tail_' = NextSlot(tail_), head_' = head_
  PROVE  Occupied' = Occupied \ {tail_}
  <1>1. Capacity \in Nat /\ head_ \in 0 .. Capacity - 1 /\ tail_ \in 0 .. Capacity - 1
    BY CapacityAssumption DEF QTypeOK, Slot
  <1>2. tail_' = IF tail_ = Capacity - 1 THEN 0 ELSE tail_ + 1
    BY NextSlotWraps DEF QTypeOK
  <1>. QED  BY <1>1, <1>2 DEF Occupied

(* head_ itself is never occupied, tail_ is exactly when the ring holds    *)
(* something, and all occupied slots exist.                                *)
LEMMA OccupiedBounds ==
  ASSUME QTypeOK
  PROVE  /\ head_ \notin Occupied
         /\ head_ # tail_ => tail_ \in Occupied
         /\ Occupied \subseteq Slot
  BY CapacityAssumption DEF QTypeOK, Slot, Occupied
-----------------------------------------------------------------------------
(* An empty ring is in order.                                                *)
LEMMA InitRing == QInit => RingInv
  <1> SUFFICES ASSUME QInit PROVE RingInv
    OBVIOUS
  <1>1. QTypeOK
    <2>1. 0 \in Slot
      BY CapacityAssumption DEF Slot
    <2>2. buffer_ \in [Slot -> Item \cup {NoItem}]
      BY DEF QInit
    <2>. QED  BY <2>1, <2>2, Zenon DEF QInit, QTypeOK, ProducerPcs, ConsumerPcs
  <1>2. Occupied = {}
    BY DEF QInit, Occupied
  <1>3. ProducerInv /\ ConsumerInv /\ WakeupInv
    BY DEF QInit, ProducerInv, ConsumerInv, WakeupInv, NoLostWakeup
  <1>. QED  BY <1>1, <1>2, <1>3 DEF RingInv, OccupiedFilled

(* Every step of the two threads keeps the types.                            *)
LEMMA QTypeStep == RingInv /\ [QNext]_qvars => QTypeOK'
  <1> SUFFICES ASSUME RingInv, [QNext]_qvars PROVE QTypeOK'
    OBVIOUS
  <1> USE DEF RingInv, QTypeOK, ProducerPcs, ConsumerPcs, pvars, cvars
  <1>1. ASSUME NEW x \in Item, PushCall(x) PROVE QTypeOK'
    BY <1>1 DEF PushCall
  <1>2. CASE Producer
    <2>1. NextSlot(cur_head) \in Slot
      BY NextSlotInSlot
    <2>2. CASE PushFull
      BY <2>2 DEF PushFull
    <2>3. CASE PushPublish
      BY <2>1, <2>3 DEF PushPublish
    <2>4. CASE PushRoom \/ PushWrite
      BY <2>4 DEF PushRoom, PushWrite
    <2>5. CASE PushLock \/ PushUnlock \/ PushNotify \/ PushReturn
      BY <2>5 DEF PushLock, PushUnlock, PushNotify, PushReturn
    <2>. QED  BY <1>2, <2>2, <2>3, <2>4, <2>5 DEF Producer
  <1>3. ASSUME NEW a \in {"try", "first"}, PopCall(a) PROVE QTypeOK'
    BY <1>3 DEF PopCall
  <1>4. CASE Consumer
    <2>1. NextSlot(cur_tail) \in Slot
      BY NextSlotInSlot
    <2>. QED  BY <1>4, <2>1 DEF Consumer, PopEmpty, PopSome, PopTake, PopAdvance,
                     PopReturn, WaitLock, WaitReady, WaitIdle, WaitPark
  <1>5. ASSUME NEW e \in BOOLEAN, WaitWake(e) PROVE QTypeOK'
    BY <1>5 DEF WaitWake
  <1>6. CASE UNCHANGED qvars
    BY <1>6 DEF qvars
  <1>. QED  BY <1>1, <1>2, <1>3, <1>4, <1>5, <1>6 DEF QNext

(* What the threads know of the indices survives every step. *)
LEMMA IndexStep == RingInv /\ [QNext]_qvars => ProducerInv' /\ ConsumerInv'
  <1> SUFFICES ASSUME RingInv, [QNext]_qvars PROVE ProducerInv' /\ ConsumerInv'
    OBVIOUS
  <1> USE DEF RingInv, ProducerInv, ConsumerInv, pvars, cvars
  <1>1. ASSUME NEW x \in Item, PushCall(x) PROVE ProducerInv' /\ ConsumerInv'
    BY <1>1 DEF PushCall
  <1>2. CASE PushWrite
    <2>1. cur_head = head_ /\ head_ \in DOMAIN buffer_ /\ item # NoItem
      BY <1>2, NoItemAssumption DEF PushWrite, QTypeOK
    <2>. QED  BY <1>2, <2>1 DEF PushWrite
  <1>3. CASE PushPublish
    BY <1>3 DEF PushPublish
  <1>4. CASE PushFull \/ PushRoom \/ PushLock \/ PushUnlock \/ PushNotify \/ PushReturn
    BY <1>4 DEF PushFull, PushRoom, PushLock, PushUnlock, PushNotify, PushReturn
  <1>5. ASSUME NEW a \in {"try", "first"}, PopCall(a) PROVE ProducerInv' /\ ConsumerInv'
    BY <1>5 DEF PopCall
  <1>6. CASE PopTake
    <2>1. cur_tail # head_
      BY <1>6 DEF PopTake
    <2>. QED  BY <1>6, <2>1 DEF PopTake, QTypeOK
  <1>7. CASE PopAdvance
    <2>1. ppc \in {"write", "publish"} => NextSlot(head_) # tail_'
      <3>1. tail_' = NextSlot(tail_) /\ head_ # tail_
        BY <1>7 DEF PopAdvance
      <3>. QED  BY <3>1, NextSlotWraps, CapacityAssumption DEF QTypeOK, Slot
    <2>. QED  BY <1>7, <2>1 DEF PopAdvance
  <1>8. CASE PopEmpty \/ PopSome \/ PopReturn \/ WaitLock \/ WaitReady \/ WaitIdle \/ WaitPark
    BY <1>8 DEF PopEmpty, PopSome, PopReturn, WaitLock, WaitReady, WaitIdle, WaitPark
  <1>9. ASSUME NEW e \in BOOLEAN, WaitWake(e) PROVE ProducerInv' /\ ConsumerInv'
    BY <1>9 DEF WaitWake
  <1>10. CASE UNCHANGED qvars
    BY <1>10 DEF qvars
  <1>. QED  BY <1>1, <1>2, <1>3, <1>4, <1>5, <1>6, <1>7, <1>8, <1>9, <1>10
            DEF QNext, Producer, Consumer

(* Occupied slots stay filled: only PushWrite, PushPublish, PopTake and    *)
(* PopAdvance touch the slots or the indices.                              *)
LEMMA FilledStep == RingInv /\ [QNext]_qvars => OccupiedFilled'
  <1> SUFFICES ASSUME RingInv, [QNext]_qvars PROVE OccupiedFilled'
    OBVIOUS
  <1> USE DEF pvars, cvars
  <1>1. ASSUME NEW x \in Item, PushCall(x) PROVE OccupiedFilled'
    BY <1>1 DEF PushCall, RingInv, OccupiedFilled, Occupied
  <1>2. CASE PushWrite
    <2>1. cur_head \notin Occupied /\ Occupied \subseteq Slot
      BY <1>2, OccupiedBounds DEF PushWrite, RingInv, ProducerInv
    <2>2. Occupied' = Occupied
      BY <1>2 DEF PushWrite, Occupied
    <2>3. \A s \in Occupied : buffer_'[s] = buffer_[s]
      BY <1>2, <2>1 DEF PushWrite, RingInv, QTypeOK
    <2>. QED  BY <1>2, <2>2, <2>3 DEF PushWrite, RingInv, OccupiedFilled
  <1>3. CASE PushPublish
    <2>1. Occupied' = Occupied \cup {head_}
      BY <1>3, OccupiedGrows DEF PushPublish, RingInv, ProducerInv
    <2>. QED  BY <1>3, <2>1 DEF PushPublish, RingInv, ProducerInv, OccupiedFilled
  <1>4. CASE PushNotify
    BY <1>4 DEF PushNotify, RingInv, OccupiedFilled, Occupied
  <1>5. CASE PushFull \/ PushRoom \/ PushLock \/ PushUnlock \/ PushReturn
    BY <1>5 DEF PushFull, PushRoom, PushLock, PushUnlock, PushReturn,
                RingInv, OccupiedFilled, Occupied
  <1>6. ASSUME NEW a \in {"try", "first"}, PopCall(a) PROVE OccupiedFilled'
    BY <1>6 DEF PopCall, RingInv, OccupiedFilled, Occupied
  <1>7. CASE PopTake
    <2>1. Occupied' = Occupied /\ Occupied \subseteq Slot
      BY <1>7, OccupiedBounds DEF PopTake, Occupied, RingInv
    <2>2. \A s \in Occupied \ {cur_tail} : buffer_'[s] # NoItem
      BY <1>7, <2>1 DEF PopTake, RingInv, QTypeOK, OccupiedFilled
    <2>. QED  BY <1>7, <2>1, <2>2 DEF PopTake, OccupiedFilled
  <1>8. CASE PopAdvance
    <2>1. Occupied' = Occupied \ {tail_} /\ cur_tail = tail_
      BY <1>8, OccupiedShrinks DEF PopAdvance, RingInv, ConsumerInv
    <2>. QED  BY <1>8, <2>1 DEF PopAdvance, RingInv, OccupiedFilled
  <1>9. CASE PopEmpty \/ PopSome \/ PopReturn \/ WaitLock \/ WaitReady \/ WaitIdle \/ WaitPark
    BY <1>9 DEF PopEmpty, PopSome, PopReturn, WaitLock, WaitReady, WaitIdle, WaitPark,
                RingInv, OccupiedFilled, Occupied
  <1>10. ASSUME NEW e \in BOOLEAN, WaitWake(e) PROVE OccupiedFilled'
    BY <1>10 DEF WaitWake, RingInv, OccupiedFilled, Occupied
  <1>11. CASE UNCHANGED qvars
    BY <1>11 DEF qvars, RingInv, OccupiedFilled, Occupied
  <1>. QED  BY <1>1, <1>2, <1>3, <1>4, <1>5, <1>6, <1>7, <1>8, <1>9, <1>10, <1>11
            DEF QNext, Producer, Consumer

(* The hand-shake through the mutex: the consumer that has tested the      *)
(* predicate keeps the mutex until it is blocked, so the producer can only *)
(* notify it afterwards.                                                   *)
LEMMA WakeupStep == RingInv /\ [QNext]_qvars => WakeupInv'
  <1> SUFFICES ASSUME RingInv, [QNext]_qvars PROVE WakeupInv'
    OBVIOUS
  <1> USE DEF RingInv, WakeupInv, NoLostWakeup, pvars, cvars
  <1>1. ASSUME NEW x \in Item, PushCall(x) PROVE WakeupInv'
    BY <1>1 DEF PushCall
  <1>2. CASE PushFull \/ PushRoom \/ PushWrite
    BY <1>2 DEF PushFull, PushRoom, PushWrite
  <1>3. CASE PushPublish
    BY <1>3 DEF PushPublish
  <1>4. CASE PushLock \/ PushUnlock
    BY <1>4 DEF PushLock, PushUnlock
  <1>5. CASE PushNotify \/ PushReturn
    BY <1>5 DEF PushNotify, PushReturn
  <1>6. ASSUME NEW a \in {"try", "first"}, PopCall(a) PROVE WakeupInv'
    BY <1>6 DEF PopCall
  <1>7. CASE PopEmpty \/ PopSome \/ PopTake \/ PopAdvance \/ PopReturn
    BY <1>7 DEF PopEmpty, PopSome, PopTake, PopAdvance, PopReturn
  <1>8. CASE WaitLock \/ WaitReady \/ WaitIdle \/ WaitPark
    BY <1>8 DEF WaitLock, WaitReady, WaitIdle, WaitPark
  <1>9. ASSUME NEW e \in BOOLEAN, WaitWake(e) PROVE WakeupInv'
    BY <1>9 DEF WaitWake
  <1>10. CASE UNCHANGED qvars
    BY <1>10 DEF qvars
  <1>. QED  BY <1>1, <1>2, <1>3, <1>4, <1>5, <1>6, <1>7, <1>8, <1>9, <1>10
            DEF QNext, Producer, Consumer

(* head_, tail_ and the slots between them stay in order.                    *)
LEMMA RingInvariant == QSpec => []RingInv
  <1>1. RingInv /\ [QNext]_qvars => RingInv'
    BY QTypeStep, IndexStep, FilledStep, WakeupStep DEF RingInv
  <1>. QED  BY <1>1, InitRing, PTL DEF QSpec
-----------------------------------------------------------------------------
(* The variables of the ring buffer keep their types, for every capacity:  *)
(* in particular no index ever leaves the buffer.                          *)
THEOREM QueueTypeCorrect == QSpec => []QTypeOK
  <1>1. RingInv => QTypeOK
    BY DEF RingInv
  <1>. QED  BY <1>1, RingInvariant, PTL

(* try_push and try_pop never race on a slot although neither takes the    *)
(* mutex.                                                                  *)
THEOREM NoSlotRace == QSpec => []SlotExclusion
  <1>1. RingInv => SlotExclusion
    BY OccupiedBounds DEF RingInv, ProducerInv, ConsumerInv, SlotExclusion
  <1>. QED  BY <1>1, RingInvariant, PTL

(* No published slot is without its element. *)
THEOREM PublishedFilled == QSpec => []OccupiedFilled
  <1>1. RingInv => OccupiedFilled
    BY DEF RingInv
  <1>. QED  BY <1>1, RingInvariant, PTL

(* A consumer blocked in pop_wait never misses the push it waits for. *)
THEOREM WakeupNotLost == QSpec => []NoLostWakeup
  <1>1. RingInv => NoLostWakeup
    BY DEF RingInv, WakeupInv
  <1>. QED  BY <1>1, RingInvariant, PTL

(* pop_wait returns an element whenever its wait was signalled. *)
THEOREM WaitedPopNeverFails == QSpec => []WaitedPopSucceeds
  <1>1. RingInv => WaitedPopSucceeds
    BY DEF RingInv, ConsumerInv, WaitedPopSucceeds
  <1>. QED  BY <1>1, RingInvariant, PTL
-----------------------------------------------------------------------------
(***************************************************************************)
(* The refinement.  Two facts more are needed: the slot that is about to   *)
(* be published holds the element of this call, and a pop that has taken   *)
(* nothing has nothing to return.                                          *)
(***************************************************************************)
CallInv ==
  /\ ppc = "publish" => buffer_[head_] = item
  /\ cpc \notin {"advance", "return", "idle"} => popped = NoItem

(* A push or pop under way holds the index it has read itself.               *)
LEMMA CallStep == RingInv /\ CallInv /\ [QNext]_qvars => CallInv'
  <1> SUFFICES ASSUME RingInv, CallInv, [QNext]_qvars PROVE CallInv'
    OBVIOUS
  <1> USE DEF CallInv, pvars, cvars
  <1>1. ASSUME NEW x \in Item, PushCall(x) PROVE CallInv'
    BY <1>1 DEF PushCall
  <1>2. CASE PushWrite
    <2>1. cur_head = head_ /\ head_ \in DOMAIN buffer_
      BY <1>2 DEF PushWrite, RingInv, ProducerInv, QTypeOK
    <2>. QED  BY <1>2, <2>1 DEF PushWrite
  <1>3. CASE PushPublish
    BY <1>3 DEF PushPublish
  <1>4. CASE PushNotify
    BY <1>4 DEF PushNotify
  <1>5. CASE PushFull \/ PushRoom \/ PushLock \/ PushUnlock \/ PushReturn
    BY <1>5 DEF PushFull, PushRoom, PushLock, PushUnlock, PushReturn
  <1>6. ASSUME NEW a \in {"try", "first"}, PopCall(a) PROVE CallInv'
    BY <1>6 DEF PopCall
  <1>7. CASE PopTake
    <2>1. cur_tail # head_
      BY <1>7 DEF PopTake, RingInv, ConsumerInv
    <2>. QED  BY <1>7, <2>1 DEF PopTake, RingInv, QTypeOK
  <1>8. CASE PopEmpty \/ PopSome \/ PopAdvance \/ PopReturn
    BY <1>8 DEF PopEmpty, PopSome, PopAdvance, PopReturn
  <1>9. CASE WaitLock \/ WaitReady \/ WaitIdle \/ WaitPark
    BY <1>9 DEF WaitLock, WaitReady, WaitIdle, WaitPark
  <1>10. ASSUME NEW e \in BOOLEAN, WaitWake(e) PROVE CallInv'
    BY <1>10 DEF WaitWake
  <1>11. CASE UNCHANGED qvars
    BY <1>11 DEF qvars
  <1>. QED  BY <1>1, <1>2, <1>3, <1>4, <1>5, <1>6, <1>7, <1>8, <1>9, <1>10, <1>11
            DEF QNext, Producer, Consumer

(* The slot of the i-th queued element. *)
Nth(i) == (tail_ + i - 1) % Capacity

ContentsOK ==
  /\ Count \in 0 .. Capacity - 1
  /\ \A i \in 1 .. Count :
       /\ Nth(i) = IF tail_ + i - 1 < Capacity THEN tail_ + i - 1 ELSE tail_ + i - 1 - Capacity
       /\ Nth(i) \in Slot /\ Nth(i) # head_ /\ (Nth(i) = tail_ <=> i = 1)
  /\ Contents \in Seq(Item \cup {NoItem}) /\ Len(Contents) = Count
  /\ \A i \in 1 .. Count :
       Contents[i] = IF i = 1 /\ cpc = "advance" THEN popped ELSE buffer_[Nth(i)]

(* What is queued is a sequence, in consecutive slots from tail_ on. *)
LEMMA ContentsAreSeq == QTypeOK => ContentsOK
  <1> SUFFICES ASSUME QTypeOK PROVE ContentsOK
    OBVIOUS
  <1>1. Capacity \in Nat \ {0} /\ head_ \in 0 .. Capacity - 1 /\ tail_ \in 0 .. Capacity - 1
    BY CapacityAssumption DEF QTypeOK, Slot
  <1>2. Count \in 0 .. Capacity - 1
    BY <1>1 DEF Count
  <1>3. ASSUME NEW i \in 1 .. Count
        PROVE  Nth(i) = IF tail_ + i - 1 < Capacity THEN tail_ + i - 1
                                                    ELSE tail_ + i - 1 - Capacity
    BY <1>1, <1>2 DEF Nth
  <1>4. ASSUME NEW i \in 1 .. Count
        PROVE  Nth(i) \in Slot /\ Nth(i) # head_ /\ (Nth(i) = tail_ <=> i = 1)
    BY <1>1, <1>2, <1>3 DEF Count, Slot
  <1>5. ASSUME NEW i \in 1 .. Count
        PROVE  (IF i = 1 /\ cpc = "advance" THEN popped ELSE buffer_[Nth(i)]) \in Item \cup {NoItem}
    BY <1>4 DEF QTypeOK
  <1>6. Contents = [i \in 1 .. Count |-> IF i = 1 /\ cpc = "advance" THEN popped
                                         ELSE buffer_[Nth(i)]]
    BY DEF Contents, Nth
  <1>7. Count \in Nat
    BY <1>2
  <1>. QED  BY <1>2, <1>3, <1>4, <1>5, <1>6, <1>7 DEF ContentsOK

(* The contents are a list of values after a step as well.                   *)
LEMMA ContentsAreSeqNext == QTypeOK' => ContentsOK'
  BY ContentsAreSeq, PTL

(* Publishing a slot appends its element, freeing one drops the oldest.    *)
LEMMA ContentsGrow ==
  ASSUME RingInv, CallInv, PushPublish
  PROVE  Contents' = Append(Contents, item) /\ Count < Capacity - 1
  <1>1. QTypeOK /\ QTypeOK' /\ item \in Item
    BY QTypeStep DEF RingInv, ProducerInv, PushPublish, QNext, Producer
  <1>2. /\ head_' = NextSlot(head_) /\ NextSlot(head_) # tail_ /\ buffer_[head_] = item
        /\ UNCHANGED <<tail_, buffer_, cpc, popped>>
    BY DEF RingInv, ProducerInv, CallInv, PushPublish, cvars
  <1>3. head_' = IF head_ = Capacity - 1 THEN 0 ELSE head_ + 1
    BY <1>1, <1>2, NextSlotWraps DEF QTypeOK
  <1>4. Capacity \in Nat \ {0} /\ head_ \in 0 .. Capacity - 1 /\ tail_ \in 0 .. Capacity - 1
    BY <1>1, CapacityAssumption DEF QTypeOK, Slot
  <1>5. Count' = Count + 1 /\ Count \in 0 .. Capacity - 2
    BY <1>2, <1>3, <1>4 DEF Count
  <1>6. ContentsOK /\ ContentsOK'
    BY <1>1, ContentsAreSeq, ContentsAreSeqNext
  <1>7. \A i \in 1 .. Count + 1 : Nth(i)' = Nth(i)
    BY <1>2 DEF Nth
  <1>8. Nth(Count + 1) = head_
    BY <1>2, <1>4, <1>5, <1>6, <1>7 DEF ContentsOK, Count
  <1>9. cpc = "advance" => Count # 0
    BY <1>4 DEF RingInv, ConsumerInv, Count
  <1>10. \A i \in 1 .. Count : Contents'[i] = Contents[i]
    BY <1>2, <1>5, <1>6, <1>7 DEF ContentsOK
  <1>11. Contents'[Count + 1] = item
    BY <1>2, <1>5, <1>6, <1>7, <1>8, <1>9 DEF ContentsOK
  <1>. QED  BY <1>1, <1>4, <1>5, <1>6, <1>10, <1>11 DEF ContentsOK

(* The store of head_ that ends a pop takes the first value off the contents.*)
LEMMA ContentsShrink ==
  ASSUME RingInv, PopAdvance
  PROVE  Contents # <<>> /\ Contents' = Tail(Contents) /\ Head(Contents) = popped
  <1>1. QTypeOK /\ QTypeOK'
    BY QTypeStep DEF RingInv, PopAdvance, QNext, Consumer
  <1>2. /\ tail_' = NextSlot(tail_) /\ head_ # tail_ /\ cpc = "advance" /\ cpc' = "return"
        /\ UNCHANGED <<head_, buffer_>>
    BY DEF RingInv, ConsumerInv, PopAdvance
  <1>3. tail_' = IF tail_ = Capacity - 1 THEN 0 ELSE tail_ + 1
    BY <1>1, <1>2, NextSlotWraps DEF QTypeOK
  <1>4. Capacity \in Nat \ {0} /\ head_ \in 0 .. Capacity - 1 /\ tail_ \in 0 .. Capacity - 1
    BY <1>1, CapacityAssumption DEF QTypeOK, Slot
  <1>5. Count' = Count - 1 /\ Count \in 1 .. Capacity - 1
    BY <1>2, <1>3, <1>4 DEF Count
  <1>6. ContentsOK /\ ContentsOK'
    BY <1>1, ContentsAreSeq, ContentsAreSeqNext
  <1>7. \A i \in 1 .. Count - 1 : Nth(i)' = Nth(i + 1)
    BY <1>3, <1>4, <1>5, <1>6 DEF ContentsOK
  <1>8. \A i \in 1 .. Count - 1 : Contents'[i] = Contents[i + 1]
    BY <1>2, <1>5, <1>6, <1>7 DEF ContentsOK
  <1>9. Contents[1] = popped
    BY <1>2, <1>5, <1>6 DEF ContentsOK
  <1>. QED  BY <1>4, <1>5, <1>6, <1>8, <1>9 DEF ContentsOK

(* No other step changes what is queued: writing a slot touches a free     *)
(* one, and the element that is moved out is still the oldest.             *)
LEMMA ContentsKept ==
  ASSUME RingInv, [QNext]_qvars, head_' = head_, tail_' = tail_
  PROVE  Contents' = Contents
  <1>1. QTypeOK /\ QTypeOK'
    BY QTypeStep DEF RingInv
  <1>2. Count' = Count /\ \A i : Nth(i)' = Nth(i)
    BY DEF Count, Nth
  <1>3. ContentsOK /\ ContentsOK'
    BY <1>1, ContentsAreSeq, ContentsAreSeqNext
  <1>4. ASSUME NEW i \in 1 .. Count PROVE Contents'[i] = Contents[i]
    <2>1. CASE PushWrite
      <3>1. /\ \A s \in Slot : s # head_ => buffer_'[s] = buffer_[s]
            /\ UNCHANGED <<cpc, popped>>
        BY <1>1, <2>1 DEF PushWrite, RingInv, ProducerInv, QTypeOK, cvars
      <3>. QED  BY <1>2, <1>3, <3>1 DEF ContentsOK
    <2>2. CASE PopTake
      <3>1. /\ \A s \in Slot : s # tail_ => buffer_'[s] = buffer_[s]
            /\ popped' = buffer_[tail_] /\ cpc = "take" /\ cpc' = "advance"
        BY <1>1, <2>2 DEF PopTake, RingInv, ConsumerInv, QTypeOK
      <3>. QED  BY <1>2, <1>3, <3>1 DEF ContentsOK
    <2>3. CASE ~PushWrite /\ ~PopTake
      <3>1. buffer_' = buffer_
        BY <2>3 DEF QNext, Producer, Consumer, qvars, PushCall, PushFull, PushRoom, PushPublish,
                    PushLock, PushUnlock, PushNotify, PushReturn, PopCall, PopEmpty, PopSome,
                    PopAdvance, PopReturn, WaitLock, WaitReady, WaitIdle, WaitPark, WaitWake
      <3>2. cpc' = "advance" <=> cpc = "advance"
        <4>1. ~PopAdvance
          <5> SUFFICES ASSUME PopAdvance PROVE FALSE
            OBVIOUS
          <5>1. tail_ = IF tail_ = Capacity - 1 THEN 0 ELSE tail_ + 1
            BY <1>1, NextSlotWraps DEF PopAdvance, RingInv, ConsumerInv, QTypeOK
          <5>. QED  BY <1>1, <5>1, CapacityAssumption
                    DEF PopAdvance, RingInv, ConsumerInv, QTypeOK, Slot
        <4>. QED
          BY <2>3, <4>1 DEF QNext, Producer, Consumer, qvars, PushCall, PushFull, PushRoom,
                    PushPublish, PushLock, PushUnlock, PushNotify, PushReturn, PopCall, PopEmpty,
                    PopSome, PopReturn, WaitLock, WaitReady, WaitIdle, WaitPark, WaitWake, cvars
      <3>3. cpc = "advance" => popped' = popped
        BY <2>3 DEF QNext, Producer, Consumer, qvars, PushCall, PushFull, PushRoom, PushPublish,
                    PushLock, PushUnlock, PushNotify, PushReturn, PopCall, PopEmpty, PopSome,
                    PopAdvance, PopReturn, WaitLock, WaitReady, WaitIdle, WaitPark, WaitWake, cvars
      <3>. QED  BY <1>2, <1>3, <3>1, <3>2, <3>3 DEF ContentsOK
    <2>. QED  BY <2>1, <2>2, <2>3
  <1>. QED  BY <1>2, <1>3, <1>4 DEF ContentsOK

(* Every step of the ring buffer is a step of the FIFO or leaves it as it  *)
(* is: a push takes effect when head_ is stored, or when tail_ is loaded   *)
(* and the ring is full; a pop when tail_ is stored, or when head_ is      *)
(* loaded for the last time and the ring is empty.                         *)
LEMMA FifoStep ==
  ASSUME RingInv, CallInv, [QNext]_qvars
  PROVE  [Fifo!FNext]_(Fifo!fvars)
  <1> USE DEF PPhase, CPhase, Result, pvars, cvars
  <1>1. ASSUME NEW x \in Item, PushCall(x) PROVE Fifo!PushInvoke(x)
    <2>1. Contents' = Contents
      BY <1>1, ContentsKept DEF PushCall
    <2>. QED  BY <1>1, <2>1 DEF PushCall, Fifo!PushInvoke
  <1>2. CASE PushFull
    <2>1. Contents' = Contents
      BY <1>2, ContentsKept DEF PushFull
    <2>2. Len(Contents) = Capacity - 1
      <3>1. tail_ = IF head_ = Capacity - 1 THEN 0 ELSE head_ + 1
        BY <1>2, NextSlotWraps DEF PushFull, RingInv, ProducerInv, QTypeOK
      <3>2. Capacity \in Nat \ {0} /\ head_ \in 0 .. Capacity - 1
        BY CapacityAssumption DEF RingInv, QTypeOK, Slot
      <3>3. Len(Contents) = Count
        BY ContentsAreSeq DEF RingInv, ContentsOK
      <3>. QED  BY <3>1, <3>2, <3>3 DEF Count
    <2>3. Fifo!PushRefuse
      BY <1>2, <2>1, <2>2 DEF PushFull, Fifo!PushRefuse
    <2>. QED  BY <2>3 DEF Fifo!FNext
  <1>3. CASE PushPublish
    <2>1. Contents' = Append(Contents, item) /\ Len(Contents) < Capacity - 1
      BY <1>3, ContentsGrow, ContentsAreSeq DEF RingInv, ContentsOK
    <2>2. Fifo!PushAccept
      BY <1>3, <2>1 DEF PushPublish, Fifo!PushAccept
    <2>. QED  BY <2>2 DEF Fifo!FNext
  <1>4. CASE PushReturn
    <2>1. Contents' = Contents
      BY <1>4, ContentsKept DEF PushReturn
    <2>2. Fifo!PushReturn
      BY <1>4, <2>1 DEF PushReturn, Fifo!PushReturn
    <2>. QED  BY <2>2 DEF Fifo!FNext
  <1>5. CASE PushRoom \/ PushWrite \/ PushLock \/ PushUnlock \/ PushNotify
    <2>1. Contents' = Contents
      BY <1>5, ContentsKept DEF PushRoom, PushWrite, PushLock, PushUnlock, PushNotify
    <2>2. UNCHANGED <<PPhase, item, pushed, CPhase, Result>>
      BY <1>5 DEF PushRoom, PushWrite, PushLock, PushUnlock, PushNotify
    <2>. QED  BY <2>1, <2>2 DEF Fifo!fvars
  <1>6. ASSUME NEW a \in {"try", "first"}, PopCall(a) PROVE Fifo!PopInvoke
    <2>1. Contents' = Contents
      BY <1>6, ContentsKept DEF PopCall
    <2>. QED  BY <1>6, <2>1 DEF PopCall, Fifo!PopInvoke
  <1>7. ASSUME head_ = tail_ PROVE Contents = <<>>
    BY <1>7, ContentsAreSeq, CapacityAssumption DEF RingInv, QTypeOK, Slot, ContentsOK, Count
  <1>8. CASE PopEmpty \/ WaitIdle
    <2>1. Contents' = Contents /\ head_ = tail_
      BY <1>8, ContentsKept DEF PopEmpty, WaitIdle, RingInv, ConsumerInv
    <2>2. CASE cpc' = "return"
      <3>1. Fifo!PopNothing
        BY <1>7, <1>8, <2>1, <2>2 DEF PopEmpty, WaitIdle, CallInv, Fifo!PopNothing
      <3>. QED  BY <3>1 DEF Fifo!FNext
    <2>3. CASE cpc' # "return"
      <3>1. UNCHANGED <<PPhase, item, pushed, CPhase, Result>>
        BY <1>8, <2>3 DEF PopEmpty, WaitIdle
      <3>. QED  BY <2>1, <3>1 DEF Fifo!fvars
    <2>. QED  BY <2>2, <2>3
  <1>9. CASE PopAdvance
    <2>1. Contents # <<>> /\ Contents' = Tail(Contents) /\ Head(Contents) = popped
      BY <1>9, ContentsShrink
    <2>2. Fifo!PopTakeOldest
      BY <1>9, <2>1 DEF PopAdvance, Fifo!PopTakeOldest
    <2>. QED  BY <2>2 DEF Fifo!FNext
  <1>10. CASE PopReturn
    <2>1. Contents' = Contents
      BY <1>10, ContentsKept DEF PopReturn
    <2>2. Fifo!PopReturn
      BY <1>10, <2>1 DEF PopReturn, Fifo!PopReturn
    <2>. QED  BY <2>2 DEF Fifo!FNext
  <1>11. CASE PopSome \/ PopTake \/ WaitLock \/ WaitReady \/ WaitPark
    <2>1. Contents' = Contents
      BY <1>11, ContentsKept DEF PopSome, PopTake, WaitLock, WaitReady, WaitPark
    <2>2. UNCHANGED <<PPhase, item, pushed, CPhase, Result>>
      BY <1>11 DEF PopSome, PopTake, WaitLock, WaitReady, WaitPark
    <2>. QED  BY <2>1, <2>2 DEF Fifo!fvars
  <1>12. ASSUME NEW e \in BOOLEAN, WaitWake(e) PROVE UNCHANGED Fifo!fvars
    <2>1. Contents' = Contents
      BY <1>12, ContentsKept DEF WaitWake
    <2>2. UNCHANGED <<PPhase, item, pushed, CPhase, Result>>
      BY <1>12 DEF WaitWake
    <2>. QED  BY <2>1, <2>2 DEF Fifo!fvars
  <1>13. CASE UNCHANGED qvars
    <2>1. Contents' = Contents
      BY <1>13, ContentsKept DEF qvars
    <2>. QED  BY <1>13, <2>1 DEF qvars, Fifo!fvars
  <1>. QED  BY <1>1, <1>2, <1>3, <1>4, <1>5, <1>6, <1>8, <1>9, <1>10, <1>11, <1>12, <1>13
            DEF QNext, Producer, Consumer, Fifo!FNext

(* The ring starts as the empty bounded queue does.                          *)
LEMMA FifoInit == QInit => CallInv /\ Fifo!FInit
  <1> SUFFICES ASSUME QInit PROVE CallInv /\ Fifo!FInit
    OBVIOUS
  <1>1. Contents = <<>>
    BY InitRing, ContentsAreSeq DEF QInit, RingInv, ContentsOK, Count
  <1>. QED  BY <1>1 DEF QInit, CallInv, Fifo!FInit, PPhase, CPhase, Result

(* try_push and try_pop/pop_wait, run by two threads without a lock, are   *)
(* linearizable: the ring buffer implements a FIFO of Capacity - 1         *)
(* elements, for every capacity and every set of elements.                 *)
THEOREM ImplementsFifo == QSpec => LinearizableFifo
  <1>1. QSpec => []CallInv
    BY FifoInit, CallStep, RingInvariant, PTL DEF QSpec
  <1>2. RingInv /\ CallInv /\ [QNext]_qvars => [Fifo!FNext]_(Fifo!fvars)
    BY FifoStep
  <1>3. QInit => Fifo!FInit
    BY FifoInit
  <1>. QED  BY <1>1, <1>2, <1>3, RingInvariant, PTL DEF QSpec, LinearizableFifo, Fifo!FSpec
-----------------------------------------------------------------------------
(***************************************************************************)
(* The timers: safety for every set of timeouts, any number of timers and  *)
(* any length of the clock.                                                *)
(***************************************************************************)

(* A heap that is not empty has an entry that expires first. *)
LEMMA TopExists ==
  ASSUME TypeOK, heap_ # {}
  PROVE  \E t \in Tops : t.expiry \in 0 .. MaxTime
  <1> DEFINE E == {t.expiry : t \in heap_}
  <1>1. E \subseteq 0 .. MaxTime /\ E # {}
    BY DEF TypeOK, Entry
  <1>2. E \subseteq Nat
    BY <1>1, BoundAssumption
  <1>3. PICK m \in E : \A n \in E : m <= n
    BY <1>1, <1>2, LeastNat, Zenon
  <1>4. PICK t \in heap_ : t.expiry = m
    BY <1>3
  <1>5. \A u \in heap_ : u.expiry \in E
    OBVIOUS
  <1>. QED  BY <1>1, <1>3, <1>4, <1>5 DEF Tops
-----------------------------------------------------------------------------
(***************************************************************************)
(* The inductive invariant.  An id belongs to one entry, and to none once  *)
(* it has fired; a cancelled entry is known to be so as long as it is in   *)
(* the heap; and whatever has fired was due before all that is left.       *)
(***************************************************************************)
HeapInv ==
  /\ \A t, u \in heap_ : t.timer_id = u.timer_id => t = u
  /\ \A t \in heap_ : t.timer_id <= next_id_
  /\ \A t \in heap_ : t.timer_id \in revoked => t.timer_id \in cancelled_

FiredInv ==
  \A i \in DOMAIN fired : /\ fired[i].timer_id <= next_id_ /\ fired[i].expiry <= now
                          /\ \A t \in heap_ : fired[i].expiry <= t.expiry

OwnerInv == owner # "idle" => ~running_

TimerInv == FiresRightly /\ NoOversleep /\ HeapInv /\ FiredInv /\ OwnerInv
-----------------------------------------------------------------------------
(* A manager without a timer satisfies the invariant.                        *)
LEMMA InitTimer == Init => TimerInv
  <1> SUFFICES ASSUME Init PROVE TimerInv
    OBVIOUS
  <1>1. TypeOK
    <2>1. fired \in Seq(Entry)
      BY DEF Init
    <2>2. 0 \in 0 .. MaxTimers /\ 0 \in 0 .. MaxTime
      BY BoundAssumption
    <2>. QED  BY <2>1, <2>2, Zenon DEF Init, TypeOK
  <1>2. DOMAIN fired = {} /\ heap_ = {}
    BY DEF Init
  <1>3. FiresRightly
    BY <1>1, <1>2 DEF Init, FiresRightly, FiredOnce, CancelledNeverFires, FiresInExpiryOrder,
                      StoppedIsQuiet
  <1>. QED  BY <1>2, <1>3 DEF Init, TimerInv, NoOversleep, HeapInv, FiredInv, OwnerInv

(* The steps that touch neither the heap nor the clock nor the histories. *)
QuietStep == \/ run \/ stop \/ StopNotify \/ StopJoin
             \/ ThreadLock \/ LoopExit \/ LoopIdle \/ CallbackReturn \/ LoopWait
             \/ WaitTimeout \/ SpuriousWakeup \/ UNCHANGED vars

(* The steps of a thread that only waits or wakes leave the timers alone.    *)
LEMMA QuietKeeps ==
  QuietStep => UNCHANGED <<next_id_, heap_, cancelled_, now, fired, revoked>>
  BY DEF QuietStep, run, stop, StopNotify, StopJoin, ThreadLock, LoopExit, LoopIdle,
         CallbackReturn, LoopWait, WaitTimeout, SpuriousWakeup, vars

(* Every step is one of those, or one of five. *)
LEMMA StepCases ==
  ASSUME [Next]_vars
  PROVE  \/ \E timeout \in Timeout : start_timer(timeout)
         \/ \E id \in 1 .. next_id_ : cancel_timer(id)
         \/ LoopDiscard \/ LoopFire \/ Tick \/ QuietStep
  BY DEF Next, ThreadStep, QuietStep

(* Types. *)
LEMMA TypeStep == TimerInv /\ [Next]_vars => TypeOK'
  <1> SUFFICES ASSUME TypeOK, [Next]_vars PROVE TypeOK'
    BY DEF TimerInv, FiresRightly
  <1> USE BoundAssumption
  <1>1. ASSUME NEW timeout \in Timeout, start_timer(timeout) PROVE TypeOK'
    <2>1. timeout \in Nat /\ next_id_ \in Nat /\ now \in Nat
      BY TimeoutAssumption DEF TypeOK
    <2>2. [timer_id |-> NewId, expiry |-> now + timeout] \in Entry
      BY <1>1, <2>1 DEF start_timer, Entry, NewId
    <2>3. next_id_' \in 0 .. MaxTimers /\ 1 .. next_id_ \subseteq 1 .. next_id_'
      BY <1>1, <2>1 DEF start_timer
    <2>. QED  BY <1>1, <2>2, <2>3 DEF start_timer, TypeOK, Notified
  <1>2. ASSUME NEW id \in 1 .. next_id_, cancel_timer(id) PROVE TypeOK'
    BY <1>2 DEF cancel_timer, TypeOK, Notified
  <1>3. CASE LoopDiscard
    BY <1>3 DEF LoopDiscard, TypeOK
  <1>4. CASE LoopFire
    <2>1. PICK t \in heap_ : heap_' = heap_ \ {t} /\ fired' = Append(fired, t)
      BY <1>4 DEF LoopFire, Tops
    <2>2. fired' \in Seq(Entry)
      BY <2>1 DEF TypeOK
    <2>. QED  BY <1>4, <2>1, <2>2 DEF LoopFire, TypeOK
  <1>5. CASE Tick
    BY <1>5 DEF Tick, TypeOK
  <1>6. CASE LoopWait
    <2>1. PICK t \in Tops : t.expiry \in 0 .. MaxTime
      BY <1>6, TopExists DEF LoopWait
    <2>. QED  BY <1>6, <2>1 DEF LoopWait, TypeOK
  <1>7. CASE QuietStep /\ ~LoopWait
    BY <1>7 DEF QuietStep, run, stop, StopNotify, StopJoin, ThreadLock, LoopExit, LoopIdle,
                CallbackReturn, WaitTimeout, SpuriousWakeup, vars, TypeOK, Notified
  <1>. QED  BY <1>1, <1>2, <1>3, <1>4, <1>5, <1>6, <1>7, StepCases

(* Ids are handed out once; a cancel is remembered until its entry is gone. *)
LEMMA HeapStep == TimerInv /\ [Next]_vars => HeapInv'
  <1> SUFFICES ASSUME TypeOK, HeapInv, [Next]_vars PROVE HeapInv'
    BY DEF TimerInv, FiresRightly
  <1>1. ASSUME NEW timeout \in Timeout, start_timer(timeout) PROVE HeapInv'
    <2>1. next_id_ \in Nat /\ NewId = next_id_ + 1 /\ \A t \in heap_ : t.timer_id \in Nat
      BY BoundAssumption DEF TypeOK, NewId, Entry
    <2>2. NewId \notin revoked /\ \A t \in heap_ : t.timer_id # NewId
      BY <2>1 DEF TypeOK, HeapInv
    <2>3. /\ heap_' = heap_ \cup {[timer_id |-> NewId, expiry |-> now + timeout]}
          /\ next_id_' = NewId /\ UNCHANGED <<cancelled_, revoked>>
      BY <1>1 DEF start_timer, NewId
    <2>. QED  BY <2>1, <2>2, <2>3 DEF HeapInv
  <1>2. ASSUME NEW id \in 1 .. next_id_, cancel_timer(id) PROVE HeapInv'
    BY <1>2 DEF cancel_timer, HeapInv
  <1>3. CASE LoopDiscard
    <2>1. PICK t \in heap_ : heap_' = heap_ \ {t} /\ cancelled_' = cancelled_ \ {t.timer_id}
      BY <1>3 DEF LoopDiscard, Tops
    <2>2. UNCHANGED <<next_id_, revoked>>
      BY <1>3 DEF LoopDiscard
    <2>. QED  BY <2>1, <2>2 DEF HeapInv
  <1>4. CASE LoopFire
    BY <1>4 DEF LoopFire, HeapInv
  <1>5. CASE Tick
    BY <1>5 DEF Tick, HeapInv
  <1>6. CASE QuietStep
    BY <1>6, QuietKeeps DEF HeapInv
  <1>. QED  BY <1>1, <1>2, <1>3, <1>4, <1>5, <1>6, StepCases

(* What has fired: once, in order, not cancelled, and before all the rest. *)
FiredRight == FiredOnce /\ CancelledNeverFires /\ FiresInExpiryOrder /\ FiredInv

(* A callback runs only for a timer that is due and that nobody has          *)
(* cancelled.                                                                *)
LEMMA FiredStep == TimerInv /\ [Next]_vars => FiredRight'
  <1> SUFFICES ASSUME TypeOK, HeapInv, FiredRight, [Next]_vars PROVE FiredRight'
    BY DEF TimerInv, FiresRightly, FiredRight
  <1>0. /\ next_id_ \in Nat /\ now \in Nat
        /\ \A t \in heap_ : t.timer_id \in Nat /\ t.expiry \in Nat
        /\ \A i \in DOMAIN fired : fired[i].timer_id \in Nat /\ fired[i].expiry \in Nat
    <2>1. \A i \in DOMAIN fired : fired[i] \in Entry
      BY DEF TypeOK
    <2>. QED  BY <2>1, BoundAssumption DEF TypeOK, Entry
  <1> USE DEF FiredRight, FiredOnce, CancelledNeverFires, FiresInExpiryOrder, FiredInv, Ids
  <1>1. ASSUME NEW timeout \in Timeout, start_timer(timeout) PROVE FiredRight'
    <2>1. /\ heap_' = heap_ \cup {[timer_id |-> next_id_ + 1, expiry |-> now + timeout]}
          /\ next_id_' = next_id_ + 1 /\ UNCHANGED <<now, fired, revoked>>
      BY <1>1 DEF start_timer, NewId
    <2>2. timeout \in Nat
      BY TimeoutAssumption
    <2>. QED  BY <1>0, <2>1, <2>2
  <1>2. ASSUME NEW id \in 1 .. next_id_, cancel_timer(id) PROVE FiredRight'
    BY <1>2 DEF cancel_timer
  <1>3. CASE LoopDiscard
    BY <1>3 DEF LoopDiscard
  <1>4. CASE LoopFire
    <2>1. PICK t \in heap_ : /\ \A u \in heap_ : t.expiry <= u.expiry
                             /\ t.expiry <= now /\ t.timer_id \notin cancelled_
                             /\ heap_' = heap_ \ {t} /\ fired' = Append(fired, t)
      BY <1>4 DEF LoopFire, Tops
    <2>2. UNCHANGED <<next_id_, now, revoked>>
      BY <1>4 DEF LoopFire
    <2>3. /\ DOMAIN fired = 1 .. Len(fired) /\ Len(fired) \in Nat
          /\ DOMAIN fired' = 1 .. Len(fired) + 1
          /\ fired'[Len(fired) + 1] = t /\ \A i \in DOMAIN fired : fired'[i] = fired[i]
      BY <2>1 DEF TypeOK
    <2>4. t.timer_id \notin revoked /\ t.timer_id \notin Ids(heap_')
      BY <2>1 DEF HeapInv
    <2>5. \A i \in DOMAIN fired : fired[i].timer_id # t.timer_id /\ fired[i].expiry <= t.expiry
      BY <2>1
    <2>6. FiredOnce'
      BY <2>1, <2>3, <2>4, <2>5
    <2>7. CancelledNeverFires'
      BY <2>2, <2>3, <2>4
    <2>8. FiresInExpiryOrder'
      BY <2>3, <2>5
    <2>9. FiredInv'
      BY <2>1, <2>2, <2>3 DEF HeapInv
    <2>. QED  BY <2>6, <2>7, <2>8, <2>9
  <1>5. CASE Tick
    BY <1>0, <1>5 DEF Tick
  <1>6. CASE QuietStep
    BY <1>6, QuietKeeps
  <1>. QED  BY <1>1, <1>2, <1>3, <1>4, <1>5, <1>6, StepCases

(* The thread sleeps only when it may, and ends with stop(). *)
ThreadInv == StoppedIsQuiet /\ NoOversleep /\ OwnerInv

(* A sleeping thread has seen the timer that is due first, or is being woken.*)
LEMMA ThreadStepKeeps == TimerInv /\ [Next]_vars => ThreadInv'
  <1> SUFFICES ASSUME TypeOK, ThreadInv, [Next]_vars PROVE ThreadInv'
    BY DEF TimerInv, FiresRightly, ThreadInv
  <1> USE DEF ThreadInv, StoppedIsQuiet, NoOversleep, OwnerInv, Notified
  <1>1. ASSUME NEW timeout \in Timeout, start_timer(timeout) PROVE ThreadInv'
    BY <1>1 DEF start_timer
  <1>2. ASSUME NEW id \in 1 .. next_id_, cancel_timer(id) PROVE ThreadInv'
    BY <1>2 DEF cancel_timer
  <1>3. CASE LoopDiscard
    BY <1>3 DEF LoopDiscard
  <1>4. CASE LoopFire
    BY <1>4 DEF LoopFire
  <1>5. CASE Tick
    BY <1>5 DEF Tick
  <1>6. CASE run \/ stop \/ StopNotify \/ StopJoin
    BY <1>6 DEF run, stop, StopNotify, StopJoin, TypeOK
  <1>7. CASE LoopWait
    <2>1. PICK t \in Tops : deadline' = t.expiry
      BY <1>7, TopExists DEF LoopWait
    <2>2. \A u \in heap_ : deadline' <= u.expiry
      BY <2>1 DEF Tops
    <2>. QED  BY <1>7, <2>2 DEF LoopWait
  <1>8. CASE ThreadLock \/ LoopExit \/ LoopIdle \/ CallbackReturn
    BY <1>8 DEF ThreadLock, LoopExit, LoopIdle, CallbackReturn
  <1>9. CASE WaitTimeout \/ SpuriousWakeup \/ UNCHANGED vars
    BY <1>9 DEF WaitTimeout, SpuriousWakeup, vars
  <1>. QED  BY <1>1, <1>2, <1>3, <1>4, <1>5, <1>6, <1>7, <1>8, <1>9, StepCases DEF QuietStep

(* The timers, the callbacks and the thread stay in agreement.               *)
LEMMA TimerInvariant == Spec => []TimerInv
  <1>1. TimerInv /\ [Next]_vars => TimerInv'
    BY TypeStep, HeapStep, FiredStep, ThreadStepKeeps
       DEF TimerInv, FiresRightly, FiredRight, ThreadInv
  <1>. QED  BY <1>1, InitTimer, PTL DEF Spec
-----------------------------------------------------------------------------
(* Whatever the order of start_timer, cancel_timer, run and stop, and of   *)
(* the callbacks that run beside them: each timer's callback is called at  *)
(* most once, in the order of expiry, never after it was cancelled in the  *)
(* heap, and never after stop() has returned.                              *)
THEOREM CallbacksRight == Spec => []FiresRightly
  <1>1. TimerInv => FiresRightly
    BY DEF TimerInv
  <1>. QED  BY <1>1, TimerInvariant, PTL

(* No notification of the timer thread is lost. *)
THEOREM ThreadNeverOversleeps == Spec => []NoOversleep
  <1>1. TimerInv => NoOversleep
    BY DEF TimerInv
  <1>. QED  BY <1>1, TimerInvariant, PTL
-----------------------------------------------------------------------------
(***************************************************************************)
(* The tracker: the list of ranges stands for the set of received bytes,   *)
(* whatever is added in which order, and the queries answer as for that set; *)
(* for every length of a block.                                            *)
(***************************************************************************)

(* The inductive invariant: no range is empty, and between two of them there *)
(* is at least one byte that neither has.                                    *)
Ranges == {r \in [offset : Nat, length : Nat] : r.length >= 1}
Sorted(rs) ==
  /\ rs \in Seq(Ranges)
  /\ \A i, j \in 1 .. Len(rs) : i < j => End(rs[i]) < rs[j].offset

Covers(r, x) == r.offset <= x /\ x < End(r)

(* The bounds of a range, and the bytes it covers.                           *)
LEMMA RangeFacts ==
  ASSUME NEW r \in Ranges
  PROVE  /\ r.offset \in Nat /\ r.length \in Nat /\ r.length >= 1 /\ End(r) \in Nat
         /\ r.offset < End(r) /\ r = Claim(r.offset, r.length)
         /\ \A x \in Nat : x \in r.offset .. End(r) - 1 <=> Covers(r, x)
  BY DEF Ranges, End, Claim, Covers

(* From a to b is a range when a is below b.                                 *)
LEMMA ClaimIsRange ==
  ASSUME NEW a \in Nat, NEW b \in Nat, a < b
  PROVE  /\ Claim(a, b - a) \in Ranges /\ Claim(a, b - a).offset = a
         /\ End(Claim(a, b - a)) = b
  BY DEF Claim, Ranges, End

(* A byte is in the set when some range of the list covers it.               *)
LEMMA BytesAre ==
  ASSUME NEW rs \in Seq(Ranges)
  PROVE  /\ Bytes(rs) \subseteq Nat
         /\ \A x \in Nat : x \in Bytes(rs) <=> \E i \in 1 .. Len(rs) : Covers(rs[i], x)
  <1>1. ToSet(rs) = {rs[i] : i \in 1 .. Len(rs)}
    BY DEF ToSet
  <1>2. \A i \in 1 .. Len(rs) : rs[i] \in Ranges
    OBVIOUS
  <1>3. ASSUME NEW x \in Bytes(rs)
        PROVE  x \in Nat /\ \E i \in 1 .. Len(rs) : Covers(rs[i], x)
    <2>1. PICK r \in ToSet(rs) : x \in r.offset .. End(r) - 1
      BY DEF Bytes
    <2>2. r \in Ranges
      BY <1>1, <1>2
    <2>3. x \in Nat
      BY <2>1, <2>2, RangeFacts
    <2>4. Covers(r, x)
      BY <2>1, <2>2, <2>3, RangeFacts
    <2>. QED  BY <1>1, <2>3, <2>4
  <1>4. ASSUME NEW x \in Nat, NEW i \in 1 .. Len(rs), Covers(rs[i], x) PROVE x \in Bytes(rs)
    <2>1. x \in rs[i].offset .. End(rs[i]) - 1
      BY <1>2, <1>4, RangeFacts
    <2>2. rs[i] \in ToSet(rs)
      BY <1>1
    <2>. QED  BY <2>1, <2>2 DEF Bytes
  <1>. QED  BY <1>3, <1>4

(* Two ranges of the list have no byte in common, and none that touch.       *)
LEMMA SortedFacts ==
  ASSUME NEW rs, Sorted(rs), NEW i \in 1 .. Len(rs), NEW j \in 1 .. Len(rs)
  PROVE  /\ rs[i] \in Ranges /\ rs[j] \in Ranges
         /\ i < j => rs[i].offset < rs[j].offset /\ End(rs[i]) < rs[j].offset /\ End(rs[i]) < End(rs[j])
         /\ rs[i].offset = rs[j].offset => i = j
         /\ rs[i].offset < rs[j].offset => i < j
  <1>1. rs[i] \in Ranges /\ rs[j] \in Ranges /\ i \in Nat /\ j \in Nat
    BY DEF Sorted
  <1>2. (i < j => End(rs[i]) < rs[j].offset) /\ (j < i => End(rs[j]) < rs[i].offset)
    BY DEF Sorted
  <1>. QED  BY <1>1, <1>2, RangeFacts
-----------------------------------------------------------------------------
(* Such a list is the one of the maximal ranges of its bytes.                *)
LEMMA SortedIsMaximal ==
  ASSUME NEW rs, Sorted(rs)
  PROVE  MaximalRanges(Bytes(rs)) = rs
  <1> DEFINE B == Bytes(rs)
             n == Len(rs)
             Off == [i \in 1 .. n |-> rs[i].offset]
             Starts == {x \in B : x = 0 \/ x - 1 \notin B}
             Lower(x) == {y \in Starts : y < x}
             NthStart(i) == CHOOSE x \in Starts : Cardinality(Lower(x)) = i - 1
             Ends(x) == {z \in B : z >= x /\ z + 1 \notin B}
             Stop(x) == Min(Ends(x)) + 1
  <1>1. rs \in Seq(Ranges) /\ n \in Nat /\ \A i \in 1 .. n : rs[i] \in Ranges
    BY DEF Sorted
  <1>2. /\ B \subseteq Nat
        /\ \A x \in Nat : x \in B <=> \E i \in 1 .. n : Covers(rs[i], x)
    BY <1>1, BytesAre
  <1> HIDE DEF B
  <1>3. ASSUME NEW i \in 1 .. n
        PROVE  /\ Off[i] \in Nat /\ Off[i] \in Starts /\ Off[i] < End(rs[i]) /\ End(rs[i]) \in Nat
               /\ End(rs[i]) \notin B
    <2>1. PICK a \in Nat, b \in Nat : a = rs[i].offset /\ b = End(rs[i]) /\ a < b
      BY <1>1, RangeFacts
    <2>2. a \in B
      BY <1>2, <2>1 DEF Covers
    <2>3. b \notin B
      <3> SUFFICES ASSUME NEW j \in 1 .. n, Covers(rs[j], b) PROVE FALSE
        BY <1>2, <2>1
      <3>1. PICK c \in Nat, d \in Nat : c = rs[j].offset /\ d = End(rs[j]) /\ c < d
        BY <1>1, RangeFacts
      <3>2. c <= b /\ b < d
        BY <2>1, <3>1 DEF Covers
      <3>3. (i < j => b < c) /\ (j < i => d < a) /\ (i = j => b = d)
        BY <2>1, <3>1 DEF Sorted
      <3>. QED  BY <2>1, <3>1, <3>2, <3>3
    <2>4. a = 0 \/ a - 1 \notin B
      <3> SUFFICES ASSUME a # 0, NEW j \in 1 .. n, Covers(rs[j], a - 1) PROVE FALSE
        BY <1>2, <2>1
      <3>1. PICK c \in Nat, d \in Nat : c = rs[j].offset /\ d = End(rs[j]) /\ c < d
        BY <1>1, RangeFacts
      <3>2. c <= a - 1 /\ a - 1 < d
        BY <2>1, <3>1 DEF Covers
      <3>3. (i < j => b < c) /\ (j < i => d < a) /\ (i = j => a = c)
        BY <2>1, <3>1 DEF Sorted
      <3>. QED  BY <2>1, <3>1, <3>2, <3>3
    <2>. QED  BY <2>1, <2>2, <2>3, <2>4
  <1>4. ASSUME NEW x \in Starts PROVE \E i \in 1 .. n : x = Off[i]
    <2>1. x \in Nat /\ (x = 0 \/ x - 1 \notin B)
      BY <1>2
    <2>2. PICK i \in 1 .. n : Covers(rs[i], x)
      BY <1>2
    <2>3. PICK a \in Nat, b \in Nat : a = rs[i].offset /\ b = End(rs[i]) /\ a < b
      BY <1>1, RangeFacts
    <2>4. a <= x /\ x < b
      BY <2>2, <2>3 DEF Covers
    <2>5. a = x
      <3> SUFFICES ASSUME a < x PROVE FALSE
        BY <2>1, <2>3, <2>4
      <3>1. x - 1 \in Nat /\ a <= x - 1 /\ x - 1 < b /\ x # 0
        BY <2>1, <2>3, <2>4
      <3>2. x - 1 \in B
        BY <1>2, <2>3, <3>1 DEF Covers
      <3>. QED  BY <2>1, <3>1, <3>2
    <2>. QED  BY <2>3, <2>5
  <1>5. Starts = {Off[i] : i \in 1 .. n}
    BY <1>3, <1>4
  <1>6. \A i, j \in 1 .. n : (Off[i] = Off[j] => i = j) /\ (Off[i] < Off[j] <=> i < j)
    BY SortedFacts
  <1> HIDE DEF Starts, Off
  <1>7. ASSUME NEW k \in 0 .. n
        PROVE  Cardinality({Off[i] : i \in 1 .. k}) = k
    <2> DEFINE T == {Off[i] : i \in 1 .. k}
               f == [i \in 1 .. k |-> Off[i]]
    <2>1. k \in Nat /\ \A i \in 1 .. k : i \in 1 .. n
      BY <1>1
    <2>2. f \in Bijection(1 .. k, T)
      <3>1. \A i, j \in 1 .. k : f[i] = f[j] => i = j
        BY <1>6, <2>1
      <3>2. f \in [1 .. k -> T] /\ \A t \in T : \E i \in 1 .. k : f[i] = t
        OBVIOUS
      <3>. HIDE DEF f, T
      <3>. QED  BY <3>1, <3>2 DEF Bijection, Injection, Surjection, IsInjective
    <2>3. ExistsBijection(1 .. k, T)
      BY <2>2 DEF ExistsBijection
    <2>4. Cardinality(T) = k
      <3> HIDE DEF T
      <3>. QED  BY <2>1, <2>3, FS_CountingElements
    <2>. QED  BY <2>4
  <1>8. ASSUME NEW i \in 1 .. n PROVE Cardinality(Lower(Off[i])) = i - 1
    <2>1. i - 1 \in 0 .. n /\ \A j \in 1 .. n : j < i <=> j \in 1 .. i - 1
      BY <1>1
    <2>2. Lower(Off[i]) = {Off[j] : j \in 1 .. i - 1}
      <3>1. \A j \in 1 .. i - 1 : j \in 1 .. n
        BY <1>1
      <3>2. \A j \in 1 .. n : Off[j] < Off[i] <=> j \in 1 .. i - 1
        BY <1>6, <2>1
      <3>3. \A y \in Lower(Off[i]) : y \in {Off[j] : j \in 1 .. i - 1}
        BY <1>5, <3>2
      <3>4. \A j \in 1 .. i - 1 : Off[j] \in Lower(Off[i])
        BY <1>5, <3>1, <3>2
      <3>. QED  BY <3>3, <3>4
    <2>. QED  BY <1>7, <2>1, <2>2
  <1>9. Cardinality(Starts) = n
    <2>1. n \in 0 .. n
      BY <1>1
    <2>. HIDE DEF n
    <2>. QED  BY <1>5, <1>7, <2>1
  <1>10. ASSUME NEW i \in 1 .. n PROVE NthStart(i) = Off[i]
    <2>1. Off[i] \in Starts /\ Cardinality(Lower(Off[i])) = i - 1
      BY <1>5, <1>8
    <2>2. ASSUME NEW x \in Starts, Cardinality(Lower(x)) = i - 1 PROVE x = Off[i]
      <3>1. PICK j \in 1 .. n : x = Off[j]
        BY <1>5
      <3>2. Cardinality(Lower(x)) = j - 1
        BY <1>8, <3>1
      <3>3. i = j
        BY <1>1, <2>2, <3>2
      <3>. QED  BY <3>1, <3>3
    <2>. HIDE DEF Lower
    <2>. QED  BY <2>1, <2>2
  <1>11. ASSUME NEW i \in 1 .. n PROVE Stop(Off[i]) = End(rs[i])
    <2>1. PICK a \in Nat, b \in Nat : a = rs[i].offset /\ b = End(rs[i]) /\ a < b
      BY <1>1, RangeFacts
    <2>2. Off[i] = a /\ b \notin B
      BY <1>3, <2>1 DEF Off
    <2>3. \A z \in Nat : (a <= z /\ z < b) => z \in B
      BY <1>2, <2>1 DEF Covers
    <2>4. b - 1 \in Ends(a)
      <3>1. b - 1 \in Nat /\ a <= b - 1 /\ b - 1 < b /\ (b - 1) + 1 = b
        BY <2>1
      <3>. QED  BY <2>2, <2>3, <3>1
    <2>5. ASSUME NEW z \in Ends(a) PROVE b - 1 <= z
      <3>1. z \in Nat /\ z >= a /\ z + 1 \notin B
        BY <1>2
      <3>2. ~(a <= z + 1 /\ z + 1 < b)
        BY <2>3, <3>1
      <3>. QED  BY <2>1, <3>1, <3>2
    <2>6. Ends(a) \subseteq Nat
      BY <1>2
    <2>. HIDE DEF Ends
    <2>7. Min(Ends(a)) \in Ends(a) /\ \A y \in Ends(a) : Min(Ends(a)) <= y
      BY <2>4, <2>6, MinIs
    <2>8. PICK z \in Nat : z = Min(Ends(a))
      BY <2>6, <2>7
    <2>9. b - 1 <= z /\ z <= b - 1
      BY <2>4, <2>5, <2>7, <2>8
    <2>. QED  BY <2>1, <2>2, <2>8, <2>9
  <1>12. MaximalRanges(B) = [i \in 1 .. Cardinality(Starts) |-> Claim(NthStart(i), Stop(NthStart(i)) - NthStart(i))]
    BY DEF MaximalRanges, Starts
  <1>13. ASSUME NEW i \in 1 .. n PROVE Claim(NthStart(i), Stop(NthStart(i)) - NthStart(i)) = rs[i]
    <2>1. PICK a \in Nat, b \in Nat : a = rs[i].offset /\ b = End(rs[i]) /\ b = a + rs[i].length
      BY <1>1, RangeFacts DEF End
    <2>2. NthStart(i) = a /\ Stop(a) = b
      BY <1>10, <1>11, <2>1 DEF Off
    <2>3. rs[i] = Claim(a, rs[i].length) /\ rs[i].length \in Nat
      BY <1>1, <2>1, RangeFacts
    <2>. HIDE DEF NthStart, Stop
    <2>4. Stop(NthStart(i)) - NthStart(i) = rs[i].length
      BY <2>1, <2>2, <2>3
    <2>. QED  BY <2>2, <2>3, <2>4
  <1> HIDE DEF NthStart, Stop
  <1>14. rs = [i \in 1 .. n |-> rs[i]]
    BY <1>1
  <1>. QED  BY <1>9, <1>12, <1>13, <1>14 DEF B
-----------------------------------------------------------------------------
(* add_range: what the two loops do.                                         *)
LEMMA SkippedIs ==
  ASSUME NEW rs, Sorted(rs), NEW o \in Nat
  PROVE  /\ Skipped(rs, o) \in 0 .. Len(rs)
         /\ \A j \in 1 .. Skipped(rs, o) : End(rs[j]) < o
         /\ \A j \in Skipped(rs, o) + 1 .. Len(rs) : End(rs[j]) >= o
  <1> DEFINE n == Len(rs)
             T == {i \in 0 .. n : i = n \/ End(rs[i + 1]) >= o}
  <1>1. n \in Nat /\ \A j \in 1 .. n : rs[j] \in Ranges /\ End(rs[j]) \in Nat
    <2>1. n \in Nat /\ \A j \in 1 .. n : rs[j] \in Ranges
      BY DEF Sorted
    <2>. QED  BY <2>1, RangeFacts
  <1>2. T \subseteq Nat /\ n \in T /\ T \subseteq 0 .. n
    BY <1>1
  <1>3. Min(T) \in T /\ \A y \in T : Min(T) <= y
    <2> HIDE DEF T
    <2>. QED  BY <1>2, MinIs
  <1>4. PICK k \in T : k = Min(T) /\ \A y \in T : k <= y
    BY <1>3
  <1>5. Skipped(rs, o) = k
    BY <1>4 DEF Skipped
  <1>6. ASSUME NEW j \in 1 .. k PROVE End(rs[j]) < o
    <2>1. j - 1 \in 0 .. n /\ j \in 1 .. n /\ ~(k <= j - 1) /\ j - 1 # n /\ (j - 1) + 1 = j
      BY <1>1, <1>2, <1>4
    <2>2. j - 1 \notin T
      BY <1>4, <2>1
    <2>. QED  BY <1>1, <2>1, <2>2
  <1>7. ASSUME NEW j \in k + 1 .. n PROVE End(rs[j]) >= o
    <2>1. k \in Nat /\ k + 1 \in 1 .. n /\ j \in 1 .. n /\ k # n /\ k + 1 <= j
      BY <1>1, <1>2
    <2>2. End(rs[k + 1]) >= o
      BY <2>1
    <2>3. k + 1 < j => End(rs[k + 1]) < End(rs[j])
      BY <2>1, SortedFacts
    <2>. QED  BY <1>1, <2>1, <2>2, <2>3
  <1>. QED  BY <1>2, <1>5, <1>6, <1>7

MergeState == [start : Nat, stop : Nat, merged : Nat, open : BOOLEAN]

(* A round of add_range's loop widens the range in hand, or ends the loop.   *)
LEMMA MergeRoundIs ==
  ASSUME NEW m \in MergeState, NEW r \in Ranges
  PROVE  LET u == MergeRound(m, r) IN
         /\ u \in MergeState
         /\ IF m.open /\ r.offset <= m.stop
            THEN /\ u.start = IF m.start <= r.offset THEN m.start ELSE r.offset
                 /\ u.stop = IF m.stop >= End(r) THEN m.stop ELSE End(r)
                 /\ u.merged = m.merged + 1 /\ u.open
            ELSE /\ u.start = m.start /\ u.stop = m.stop /\ u.merged = m.merged /\ ~u.open
  <1>1. /\ m.start \in Nat /\ m.stop \in Nat /\ m.merged \in Nat
        /\ r.offset \in Nat /\ End(r) \in Nat
    BY RangeFacts DEF MergeState
  <1>2. PICK u : u = MergeRound(m, r)
    OBVIOUS
  <1>3. CASE m.open /\ r.offset <= m.stop
    <2>1. PICK a \in Nat : a = Min({m.start, r.offset}) /\ a = IF m.start <= r.offset THEN m.start ELSE r.offset
      BY <1>1, MinOfTwo
    <2>2. PICK b \in Nat : b = Max({m.stop, End(r)}) /\ b = IF m.stop >= End(r) THEN m.stop ELSE End(r)
      BY <1>1, MaxOfTwo
    <2>3. u = [start |-> a, stop |-> b, merged |-> m.merged + 1, open |-> TRUE]
      BY <1>2, <1>3, <2>1, <2>2 DEF MergeRound
    <2>4. u \in MergeState
      BY <1>1, <2>3 DEF MergeState
    <2>. QED  BY <1>2, <1>3, <2>1, <2>2, <2>3, <2>4
  <1>4. CASE ~(m.open /\ r.offset <= m.stop)
    <2>1. u = [m EXCEPT !.open = FALSE]
      BY <1>2, <1>4 DEF MergeRound
    <2>2. u \in MergeState
      BY <2>1 DEF MergeState
    <2>3. u.start = m.start /\ u.stop = m.stop /\ u.merged = m.merged /\ ~u.open
      BY <2>1 DEF MergeState
    <2>. QED  BY <1>2, <1>4, <2>2, <2>3
  <1>. QED  BY <1>3, <1>4

(* The loop of add_range is a round for each range after the skipped ones.   *)
LEMMA MergeLoopUnfolds ==
  ASSUME NEW rs \in Seq(Ranges), NEW k \in 0 .. Len(rs), NEW o \in Nat, NEW l \in Nat
  PROVE  \E m : /\ \A i \in 0 .. Len(rs) - k : m[i] \in MergeState
                /\ m[0] = [start |-> o, stop |-> o + l, merged |-> 0, open |-> TRUE]
                /\ \A i \in 1 .. Len(rs) - k : m[i] = MergeRound(m[i - 1], rs[k + i])
                /\ MergeLoop(rs, k, o, l) = m[Len(rs) - k]
  <1> DEFINE n == Len(rs) - k
             c == [start |-> o, stop |-> o + l, merged |-> 0, open |-> TRUE]
             step == [i \in 1 .. n |-> [v \in MergeState |-> MergeRound(v, rs[k + i])]]
             IsLoop(u) == u = [i \in 0 .. n |-> IF i = 0 THEN c ELSE MergeRound(u[i - 1], rs[k + i])]
             loop == CHOOSE u : IsLoop(u)
  <1>1. n \in Nat /\ \A i \in 1 .. n : k + i \in 1 .. Len(rs)
    OBVIOUS
  <1>2. c \in MergeState
    BY DEF MergeState
  <1>3. step \in [1 .. n -> [MergeState -> MergeState]]
    <2>1. ASSUME NEW i \in 1 .. n, NEW v \in MergeState PROVE MergeRound(v, rs[k + i]) \in MergeState
      <3>1. rs[k + i] \in Ranges
        BY <1>1
      <3>. QED  BY <3>1, MergeRoundIs
    <2>. HIDE DEF n
    <2>. QED  BY <2>1
  <1>4. PICK f \in [0 .. n -> MergeState] : IsIteration(f, c, step, n)
    <2> HIDE DEF n, step, c
    <2>. QED  BY <1>1, <1>2, <1>3, IterationExists
  <1>5. IsLoop(f)
    <2>1. ASSUME NEW i \in 1 .. n PROVE f[i] = MergeRound(f[i - 1], rs[k + i])
      <3>1. f[i] = step[i][f[i - 1]] /\ i - 1 \in 0 .. n
        BY <1>1, <1>4 DEF IsIteration
      <3>. HIDE DEF n
      <3>. QED  BY <3>1
    <2>2. f[0] = c
      BY <1>4 DEF IsIteration
    <2>. HIDE DEF n, c
    <2>3. ASSUME NEW i \in 0 .. n PROVE f[i] = IF i = 0 THEN c ELSE MergeRound(f[i - 1], rs[k + i])
      BY <1>1, <2>1, <2>2
    <2>. QED  BY <1>1, <2>3
  <1>6. IsLoop(loop)
    BY <1>5, Zenon
  <1>7. MergeLoop(rs, k, o, l) = loop[n]
    BY DEF MergeLoop
  <1> HIDE DEF loop, n, c
  <1>8. loop[0] = c /\ \A i \in 1 .. n : loop[i] = MergeRound(loop[i - 1], rs[k + i])
    BY <1>1, <1>6
  <1> DEFINE S == {i \in Nat : i <= n => loop[i] \in MergeState}
  <1>9. 0 \in S
    BY <1>2, <1>8
  <1>10. ASSUME NEW i \in Nat, i \in S PROVE i + 1 \in S
    <2> SUFFICES ASSUME i + 1 <= n PROVE loop[i + 1] \in MergeState
      OBVIOUS
    <2>1. i + 1 \in 1 .. n /\ (i + 1) - 1 = i /\ loop[i] \in MergeState
      BY <1>1, <1>10
    <2>2. loop[i + 1] = MergeRound(loop[i], rs[k + (i + 1)])
      BY <1>8, <2>1
    <2>3. rs[k + (i + 1)] \in Ranges
      <3>1. k + (i + 1) \in 1 .. Len(rs)
        BY <1>1, <2>1
      <3>. QED  BY <3>1
    <2>. QED  BY <2>1, <2>2, <2>3, MergeRoundIs
  <1>11. \A i \in 0 .. n : loop[i] \in MergeState
    <2>1. Nat \subseteq S
      <3> HIDE DEF S
      <3>. QED  BY <1>9, <1>10, SetInduction
    <2>. QED  BY <1>1, <2>1
  <1>. QED  BY <1>7, <1>8, <1>11 DEF n, c

(* The merged range has the new bytes and those of the ranges that it        *)
(* swallowed, and lies clear of the ranges before and behind it.             *)
LEMMA MergeLoopIs ==
  ASSUME NEW rs, Sorted(rs), NEW o \in Nat, NEW l \in Nat, l >= 1,
         NEW k, k = Skipped(rs, o), NEW m, m = MergeLoop(rs, k, o, l)
  PROVE  /\ m.start \in Nat /\ m.stop \in Nat /\ m.merged \in 0 .. Len(rs) - k
         /\ m.start < m.stop
         /\ \A j \in 1 .. k : End(rs[j]) < m.start
         /\ \A j \in k + m.merged + 1 .. Len(rs) : m.stop < rs[j].offset
         /\ \A x \in Nat : (m.start <= x /\ x < m.stop) <=>
                             \/ o <= x /\ x < o + l
                             \/ \E j \in k + 1 .. k + m.merged : Covers(rs[j], x)
  <1> DEFINE n == Len(rs)
  <1>1. rs \in Seq(Ranges) /\ n \in Nat /\ \A j \in 1 .. n : rs[j] \in Ranges
    BY DEF Sorted
  <1>2. /\ k \in 0 .. n /\ \A j \in 1 .. k : End(rs[j]) < o
        /\ \A j \in k + 1 .. n : End(rs[j]) >= o
    BY SkippedIs
  <1>3. PICK f : /\ \A i \in 0 .. n - k : f[i] \in MergeState
                 /\ f[0] = [start |-> o, stop |-> o + l, merged |-> 0, open |-> TRUE]
                 /\ \A i \in 1 .. n - k : f[i] = MergeRound(f[i - 1], rs[k + i])
                 /\ m = f[n - k]
    <2>1. k \in 0 .. Len(rs) /\ rs \in Seq(Ranges)
      BY <1>1, <1>2
    <2>2. \E f : /\ \A i \in 0 .. Len(rs) - k : f[i] \in MergeState
                 /\ f[0] = [start |-> o, stop |-> o + l, merged |-> 0, open |-> TRUE]
                 /\ \A i \in 1 .. Len(rs) - k : f[i] = MergeRound(f[i - 1], rs[k + i])
                 /\ MergeLoop(rs, k, o, l) = f[Len(rs) - k]
      BY <2>1, MergeLoopUnfolds, Zenon
    <2>. QED  BY <2>2, Zenon
  <1> HIDE DEF n
  <1> DEFINE Good(i, u) ==
        /\ u.merged <= i /\ (u.open => u.merged = i)
        /\ ~u.open => u.merged < i /\ u.stop < rs[k + u.merged + 1].offset
        /\ u.start <= o /\ o + l <= u.stop
        /\ \A j \in 1 .. k : End(rs[j]) < u.start
        /\ \A x \in Nat : (u.start <= x /\ x < u.stop) <=>
                             \/ o <= x /\ x < o + l
                             \/ \E j \in k + 1 .. k + u.merged : Covers(rs[j], x)
      S == {i \in Nat : i <= n - k => Good(i, f[i])}
  <1>4. 0 \in S
    <2>1. PICK u : u = f[0]
      OBVIOUS
    <2>2. u.start = o /\ u.stop = o + l /\ u.merged = 0 /\ u.open
      BY <1>3, <2>1
    <2>3. Good(0, u)
      BY <1>2, <2>2
    <2>. QED  BY <2>1, <2>3
  <1>5. ASSUME NEW i \in Nat, i \in S PROVE i + 1 \in S
    <2> SUFFICES ASSUME i + 1 <= n - k PROVE Good(i + 1, f[i + 1])
      OBVIOUS
    <2>1. Good(i, f[i]) /\ i \in 0 .. n - k /\ i + 1 \in 0 .. n - k /\ i + 1 \in 1 .. n - k /\ (i + 1) - 1 = i
      BY <1>1, <1>2, <1>5
    <2>2. PICK v \in MergeState : v = f[i]
      BY <1>3, <2>1
    <2>3. PICK q \in 1 .. n : q = k + i + 1 /\ q = k + (i + 1)
      <3>1. k \in Nat /\ n \in Nat
        BY <1>1, <1>2
      <3>2. k + i + 1 \in 1 .. n /\ k + i + 1 = k + (i + 1)
        BY <3>1
      <3>. QED  BY <3>2
    <2>4. PICK r \in Ranges : r = rs[q]
      BY <1>1
    <2>5. PICK u \in MergeState : u = f[i + 1]
      BY <1>3, <2>1
    <2>6. u = MergeRound(v, r)
      BY <1>3, <2>1, <2>2, <2>3, <2>4, <2>5
    <2>7. /\ v.start \in Nat /\ v.stop \in Nat /\ v.merged \in Nat /\ v.open \in BOOLEAN
          /\ u.start \in Nat /\ u.stop \in Nat /\ u.merged \in Nat /\ u.open \in BOOLEAN
      BY DEF MergeState
    <2>8. PICK a \in Nat, b \in Nat : a = r.offset /\ b = End(r) /\ a < b
      BY RangeFacts
    <2>9. Good(i, v)
      BY <2>1, <2>2
    <2>10. CASE v.open /\ a <= v.stop
      <3>1. /\ u.start = IF v.start <= a THEN v.start ELSE a
            /\ u.stop = IF v.stop >= b THEN v.stop ELSE b
            /\ u.merged = i + 1 /\ u.open /\ v.merged = i
        BY <2>6, <2>8, <2>9, <2>10, MergeRoundIs
      <3>2. b >= o
        <4>1. q \in k + 1 .. n
          BY <1>1, <1>2, <2>1, <2>3
        <4>. QED  BY <1>2, <2>4, <2>8, <4>1
      <3>3. ASSUME NEW j \in 1 .. k PROVE End(rs[j]) < u.start
        <4>1. j \in 1 .. n /\ j < q
          BY <1>1, <1>2, <2>1, <2>3, SMTT(30)
        <4>2. End(rs[j]) < a
          BY <2>4, <2>8, <4>1 DEF Sorted, n
        <4>3. End(rs[j]) < v.start
          BY <2>9
        <4>. QED  BY <3>1, <4>2, <4>3
      <3>4. ASSUME NEW x \in Nat
            PROVE  (u.start <= x /\ x < u.stop) <=>
                     \/ o <= x /\ x < o + l
                     \/ \E j \in k + 1 .. k + (i + 1) : Covers(rs[j], x)
        <4>1. (u.start <= x /\ x < u.stop) <=> (v.start <= x /\ x < v.stop) \/ (a <= x /\ x < b)
          BY <2>7, <2>8, <2>9, <2>10, <3>1, <3>2
        <4>2. (v.start <= x /\ x < v.stop) <=>
                     \/ o <= x /\ x < o + l
                     \/ \E j \in k + 1 .. k + i : Covers(rs[j], x)
          BY <2>9, <3>1
        <4>3. (a <= x /\ x < b) <=> Covers(rs[q], x)
          BY <2>4, <2>8 DEF Covers
        <4>4. k + 1 .. k + (i + 1) = (k + 1 .. k + i) \cup {q}
          BY <1>2, <2>3
        <4>. QED  BY <4>1, <4>2, <4>3, <4>4
      <3>. QED  BY <2>5, <2>7, <2>9, <3>1, <3>3, <3>4
    <2>11. CASE ~(v.open /\ a <= v.stop)
      <3>1. u.start = v.start /\ u.stop = v.stop /\ u.merged = v.merged /\ ~u.open
        BY <2>6, <2>8, <2>11, MergeRoundIs
      <3>2. u.merged < i + 1 /\ u.stop < rs[k + u.merged + 1].offset
        <4>1. CASE v.open
          <5>1. v.merged = i /\ v.stop < a /\ k + v.merged + 1 = q
            BY <1>2, <2>3, <2>7, <2>8, <2>9, <2>11, <4>1
          <5>. QED  BY <2>4, <2>7, <2>8, <3>1, <5>1
        <4>2. CASE ~v.open
          <5>1. v.merged < i /\ v.stop < rs[k + v.merged + 1].offset
            BY <2>9, <4>2
          <5>. QED  BY <2>7, <3>1, <5>1
        <4>. QED  BY <4>1, <4>2
      <3>3. u.start <= o /\ o + l <= u.stop /\ \A j \in 1 .. k : End(rs[j]) < u.start
        BY <2>9, <3>1
      <3>4. \A x \in Nat : (u.start <= x /\ x < u.stop) <=>
                             \/ o <= x /\ x < o + l
                             \/ \E j \in k + 1 .. k + u.merged : Covers(rs[j], x)
        BY <2>9, <3>1
      <3>. QED  BY <2>5, <2>7, <3>1, <3>2, <3>3, <3>4
    <2>. QED  BY <2>10, <2>11
  <1>6. n - k \in Nat /\ n - k \in 0 .. n - k
    BY <1>1, <1>2
  <1>7. Good(n - k, m) /\ m \in MergeState
    <2>1. Nat \subseteq S
      <3> HIDE DEF S
      <3>. QED  BY <1>4, <1>5, SetInduction
    <2>2. n - k \in S /\ n - k <= n - k
      BY <1>6, <2>1
    <2>. HIDE DEF Good
    <2>. QED  BY <1>3, <1>6, <2>2
  <1>8. m.start \in Nat /\ m.stop \in Nat /\ m.merged \in Nat /\ m.open \in BOOLEAN
    BY <1>7 DEF MergeState
  <1>9. ASSUME NEW j \in k + m.merged + 1 .. n PROVE m.stop < rs[j].offset
    <2>1. PICK t \in Nat : t = k + m.merged + 1
      BY <1>2, <1>8
    <2>2. t <= j /\ j \in 1 .. n /\ t \in 1 .. n
      BY <1>1, <1>2, <1>8, <2>1
    <2>3. ~m.open
      BY <1>1, <1>2, <1>7, <1>8, <2>1, <2>2, SMTT(30)
    <2>4. m.stop < rs[t].offset
      BY <1>7, <2>1, <2>3
    <2>5. t < j => rs[t].offset < rs[j].offset
      BY <2>2, SortedFacts DEF n
    <2>6. rs[t].offset \in Nat /\ rs[j].offset \in Nat
      BY <1>1, <2>2, RangeFacts
    <2>. QED  BY <1>8, <2>2, <2>4, <2>5, <2>6
  <1>. QED  BY <1>6, <1>7, <1>8, <1>9 DEF n

(* A range added to a canonical list makes a canonical list of all bytes.    *)
LEMMA MergedIs ==
  ASSUME NEW rs, Sorted(rs), NEW o \in Nat, NEW l \in Nat, l >= 1
  PROVE  Sorted(Merged(rs, o, l)) /\ Bytes(Merged(rs, o, l)) = Bytes(rs) \cup (o .. o + l - 1)
  <1> DEFINE n == Len(rs)
  <1>1. PICK k : k = Skipped(rs, o)
    OBVIOUS
  <1>2. PICK m : m = MergeLoop(rs, k, o, l)
    OBVIOUS
  <1>3. /\ m.start \in Nat /\ m.stop \in Nat /\ m.merged \in 0 .. n - k
        /\ m.start < m.stop
        /\ \A j \in 1 .. k : End(rs[j]) < m.start
        /\ \A j \in k + m.merged + 1 .. n : m.stop < rs[j].offset
        /\ \A x \in Nat : (m.start <= x /\ x < m.stop) <=>
                             \/ o <= x /\ x < o + l
                             \/ \E j \in k + 1 .. k + m.merged : Covers(rs[j], x)
    BY <1>1, <1>2, MergeLoopIs
  <1>4. rs \in Seq(Ranges) /\ n \in Nat /\ \A j \in 1 .. n : rs[j] \in Ranges
    BY DEF Sorted
  <1>5. k \in 0 .. n
    BY <1>1, SkippedIs
  <1>6. PICK t \in k .. n : t = k + m.merged
    BY <1>3, <1>4, <1>5
  <1>7. PICK c \in Ranges : c = Claim(m.start, m.stop - m.start) /\ c.offset = m.start /\ End(c) = m.stop
    BY <1>3, ClaimIsRange
  <1>8. PICK q : q = Merged(rs, o, l)
    OBVIOUS
  <1> DEFINE h == SubSeq(rs, 1, k)
             s == SubSeq(rs, t + 1, n)
  <1>9. q = h \o <<c>> \o s
    <2>1. t + 1 = k + m.merged + 1
      BY <1>6
    <2>. QED  BY <1>1, <1>2, <1>7, <1>8, <2>1 DEF Merged
  <1>10. h \in Seq(Ranges) /\ Len(h) = k /\ \A i \in 1 .. k : h[i] = rs[i]
    BY <1>4, <1>5
  <1>11. s \in Seq(Ranges) /\ Len(s) = n - t /\ \A i \in 1 .. n - t : s[i] = rs[t + i]
    <2>1. t \in 0 .. Len(rs)
      BY <1>4, <1>5
    <2>. QED  BY <1>4, <2>1, SuffixIs
  <1> HIDE DEF h, s
  <1>12. /\ q \in Seq(Ranges) /\ Len(q) = k + 1 + (n - t)
         /\ \A i \in 1 .. k : q[i] = h[i]
         /\ q[k + 1] = c
         /\ \A i \in k + 2 .. k + 1 + (n - t) : q[i] = s[i - (k + 1)]
    <2>1. k \in Nat /\ t \in Nat /\ n - t \in Nat
      BY <1>4, <1>5
    <2>. HIDE DEF n
    <2>2. PICK z \in Nat : z = n - t
      BY <2>1
    <2>3. PICK hc : hc = h \o <<c>>
      OBVIOUS
    <2>4. hc \in Seq(Ranges) /\ Len(hc) = k + 1 /\ hc[k + 1] = c /\ \A i \in 1 .. k : hc[i] = h[i]
      BY <1>10, <2>1, <2>3
    <2>5. q = hc \o s
      BY <1>9, <2>3
    <2>6. /\ q \in Seq(Ranges) /\ Len(q) = k + 1 + z
          /\ \A i \in 1 .. k + 1 : q[i] = hc[i]
          /\ \A i \in k + 2 .. k + 1 + z : q[i] = s[i - (k + 1)]
      <3>1. s \in Seq(Ranges) /\ Len(s) = z
        BY <1>11, <2>2
      <3>2. /\ q \in Seq(Ranges) /\ Len(q) = Len(hc) + Len(s)
            /\ \A i \in 1 .. Len(hc) : q[i] = hc[i]
            /\ \A i \in 1 .. Len(s) : q[Len(hc) + i] = s[i]
        <4>1. /\ hc \o s \in Seq(Ranges) /\ Len(hc \o s) = Len(hc) + Len(s)
              /\ \A i \in 1 .. Len(hc) : (hc \o s)[i] = hc[i]
              /\ \A i \in 1 .. Len(s) : (hc \o s)[Len(hc) + i] = s[i]
          <5>1. PICK T : T = Ranges
            OBVIOUS
          <5>2. hc \in Seq(T) /\ s \in Seq(T)
            BY <2>4, <3>1, <5>1
          <5>3. PICK w \in Seq(T) : w = s
            BY <5>2
          <5>4. /\ hc \o w \in Seq(T) /\ Len(hc \o w) = Len(hc) + Len(w)
                /\ \A i \in 1 .. Len(hc) : (hc \o w)[i] = hc[i]
                /\ \A i \in 1 .. Len(w) : (hc \o w)[Len(hc) + i] = w[i]
            BY <5>2, ConcatIs
          <5>. QED  BY <5>1, <5>3, <5>4
        <4>. QED  BY <2>5, <4>1, Zenon
      <3>3. \A i \in 1 .. z : q[k + 1 + i] = s[i]
        BY <2>4, <3>1, <3>2
      <3>4. ASSUME NEW i \in k + 2 .. k + 1 + z PROVE q[i] = s[i - (k + 1)]
        <4>1. i - (k + 1) \in 1 .. z /\ k + 1 + (i - (k + 1)) = i
          BY <2>1
        <4>. QED  BY <3>3, <4>1
      <3>. QED  BY <2>1, <2>4, <3>1, <3>2, <3>4
    <2>7. k + 1 \in 1 .. k + 1 /\ \A i \in 1 .. k : i \in 1 .. k + 1
      BY <2>1
    <2>. QED  BY <2>2, <2>4, <2>6, <2>7
  (* The place of each range of rs in q, and the range of rs at each place.  *)
  <1>13. \A i \in 1 .. Len(q) : \/ i < k + 1 /\ i \in 1 .. k /\ q[i] = rs[i]
                                \/ i = k + 1 /\ q[i] = c
                                \/ i > k + 1 /\ t + (i - (k + 1)) \in t + 1 .. n /\ q[i] = rs[t + (i - (k + 1))]
    <2>1. SUFFICES ASSUME NEW i \in 1 .. Len(q), i > k + 1
                   PROVE  t + (i - (k + 1)) \in t + 1 .. n /\ q[i] = rs[t + (i - (k + 1))]
      BY <1>5, <1>10, <1>12
    <2>2. PICK y \in Nat : y = i - (k + 1)
      BY <1>4, <1>5, <2>1
    <2>3. i \in k + 2 .. k + 1 + (n - t) /\ y \in 1 .. n - t
      BY <1>4, <1>5, <1>12, <2>1, <2>2
    <2>4. t + y \in t + 1 .. n /\ q[i] = s[y] /\ s[y] = rs[t + y]
      <3>1. t + y \in t + 1 .. n
        BY <1>4, <1>5, <2>3
      <3>2. q[i] = s[y]
        BY <1>12, <2>2, <2>3
      <3>. QED  BY <1>11, <2>3, <3>1, <3>2
    <2>. QED  BY <2>2, <2>4
  <1>14. ASSUME NEW i \in 1 .. Len(q), NEW j \in 1 .. Len(q), i < j
         PROVE  End(q[i]) < q[j].offset
    <2>1. /\ \A a \in 1 .. k : a \in 1 .. n
          /\ \A a \in t + 1 .. n : a \in 1 .. n /\ a > k
      BY <1>4, <1>5
    <2>2. CASE i < k + 1 /\ i \in 1 .. k /\ q[i] = rs[i]
      <3>1. CASE j < k + 1 /\ j \in 1 .. k /\ q[j] = rs[j]
        BY <1>14, <2>1, <2>2, <3>1 DEF Sorted
      <3>2. CASE j = k + 1 /\ q[j] = c
        BY <1>3, <1>7, <2>2, <3>2
      <3>3. CASE j > k + 1 /\ t + (j - (k + 1)) \in t + 1 .. n /\ q[j] = rs[t + (j - (k + 1))]
        <4>1. PICK a \in t + 1 .. n : a = t + (j - (k + 1))
          BY <3>3
        <4>2. a \in 1 .. n /\ i \in 1 .. n /\ i < a
          BY <1>4, <1>5, <2>1, <2>2
        <4>. QED  BY <2>2, <3>3, <4>1, <4>2 DEF Sorted
      <3>. QED  BY <1>13, <3>1, <3>2, <3>3
    <2>3. CASE i = k + 1 /\ q[i] = c
      <3>1. j > k + 1 /\ t + (j - (k + 1)) \in t + 1 .. n /\ q[j] = rs[t + (j - (k + 1))]
        <4>1. ~(j < k + 1) /\ j # k + 1
          BY <1>4, <1>14, <2>3
        <4>. QED  BY <1>13, <4>1
      <3>. QED  BY <1>3, <1>6, <1>7, <2>3, <3>1
    <2>4. CASE i > k + 1 /\ t + (i - (k + 1)) \in t + 1 .. n /\ q[i] = rs[t + (i - (k + 1))]
      <3>1. j > k + 1 /\ t + (j - (k + 1)) \in t + 1 .. n /\ q[j] = rs[t + (j - (k + 1))]
        <4>1. j > k + 1 /\ ~(j < k + 1) /\ j # k + 1
          BY <1>4, <1>5, <1>14, <2>4
        <4>. QED  BY <1>13, <4>1
      <3>2. PICK a \in t + 1 .. n, b \in t + 1 .. n : a = t + (i - (k + 1)) /\ b = t + (j - (k + 1))
        BY <2>4, <3>1
      <3>3. a \in 1 .. n /\ b \in 1 .. n /\ a < b
        BY <1>5, <1>14, <2>1, <3>2
      <3>. QED  BY <2>4, <3>1, <3>2, <3>3 DEF Sorted
    <2>. QED  BY <1>13, <2>2, <2>3, <2>4
  <1>15. Sorted(q)
    BY <1>12, <1>14 DEF Sorted
  <1>16. ASSUME NEW x \in Nat
         PROVE  (\E i \in 1 .. Len(q) : Covers(q[i], x)) <=>
                  \/ o <= x /\ x < o + l
                  \/ \E j \in 1 .. n : Covers(rs[j], x)
    <2>1. Covers(c, x) <=> \/ o <= x /\ x < o + l
                           \/ \E j \in k + 1 .. t : Covers(rs[j], x)
      BY <1>3, <1>6, <1>7 DEF Covers
    <2>2. ASSUME NEW i \in 1 .. Len(q), Covers(q[i], x)
          PROVE  \/ o <= x /\ x < o + l
                 \/ \E j \in 1 .. n : Covers(rs[j], x)
      <3>1. \A a \in 1 .. k : a \in 1 .. n
        BY <1>4, <1>5
      <3>2. \A a \in k + 1 .. t : a \in 1 .. n
        BY <1>4, <1>5
      <3>3. \A a \in t + 1 .. n : a \in 1 .. n
        BY <1>4, <1>5
      <3>. QED  BY <1>13, <2>1, <2>2, <3>1, <3>2, <3>3
    <2>3. k + 1 \in 1 .. Len(q) /\ q[k + 1] = c
      BY <1>4, <1>5, <1>12
    <2>4. ASSUME NEW j \in 1 .. n, Covers(rs[j], x)
          PROVE  \E i \in 1 .. Len(q) : Covers(q[i], x)
      <3>1. CASE j \in 1 .. k
        <4>1. j \in 1 .. Len(q) /\ q[j] = rs[j]
          BY <1>4, <1>5, <1>10, <1>12, <3>1
        <4>. QED  BY <2>4, <4>1
      <3>2. CASE j \in k + 1 .. t
        BY <2>1, <2>3, <2>4, <3>2
      <3>3. CASE j \in t + 1 .. n
        <4>1. PICK y \in 1 .. n - t : y = j - t
          <5>1. j - t \in 1 .. n - t
            BY <1>4, <1>5, <3>3
          <5>. QED  BY <5>1
        <4>2. PICK i \in Nat : i = k + 1 + y
          BY <1>5
        <4>3. i \in 1 .. Len(q) /\ i \in k + 2 .. k + 1 + (n - t) /\ i - (k + 1) = y /\ j = t + y
          BY <1>4, <1>5, <1>12, <4>1, <4>2
        <4>4. q[i] = rs[j]
          BY <1>11, <1>12, <4>1, <4>3
        <4>. QED  BY <2>4, <4>3, <4>4
      <3>. QED  BY <1>4, <1>5, <3>1, <3>2, <3>3
    <2>. QED  BY <2>1, <2>2, <2>3, <2>4
  <1>17. Bytes(q) = Bytes(rs) \cup (o .. o + l - 1)
    <2>1. Bytes(q) \subseteq Nat /\ \A x \in Nat : x \in Bytes(q) <=> \E i \in 1 .. Len(q) : Covers(q[i], x)
      BY <1>12, BytesAre
    <2>2. Bytes(rs) \subseteq Nat /\ \A x \in Nat : x \in Bytes(rs) <=> \E i \in 1 .. n : Covers(rs[i], x)
      BY <1>4, BytesAre
    <2>3. o .. o + l - 1 \subseteq Nat /\ \A x \in Nat : x \in o .. o + l - 1 <=> o <= x /\ x < o + l
      OBVIOUS
    <2>4. \A x \in Nat : x \in Bytes(q) <=> x \in Bytes(rs) \cup (o .. o + l - 1)
      BY <1>16, <2>1, <2>2, <2>3
    <2>. QED  BY <2>1, <2>2, <2>3, <2>4
  <1>. QED  BY <1>8, <1>15, <1>17
-----------------------------------------------------------------------------
(* get_gaps and compute_gaps.                                                *)
LEMMA SortedAppend ==
  ASSUME NEW rs, Sorted(rs), NEW r \in Ranges, \A i \in 1 .. Len(rs) : End(rs[i]) < r.offset
  PROVE  /\ Sorted(Append(rs, r))
         /\ \A x \in Nat : x \in Bytes(Append(rs, r)) <=> x \in Bytes(rs) \/ Covers(r, x)
  <1> DEFINE q == Append(rs, r)  n == Len(rs)
  <1>1. rs \in Seq(Ranges) /\ n \in Nat
    BY DEF Sorted
  <1>2. q \in Seq(Ranges) /\ Len(q) = n + 1 /\ q[n + 1] = r /\ \A i \in 1 .. n : q[i] = rs[i]
    BY <1>1
  <1> HIDE DEF q, n
  <1>3. 1 .. Len(q) = (1 .. n) \cup {n + 1}
    BY <1>1, <1>2
  <1>4. ASSUME NEW i \in 1 .. Len(q), NEW j \in 1 .. Len(q), i < j PROVE End(q[i]) < q[j].offset
    <2>1. i \in 1 .. n
      BY <1>1, <1>2, <1>4
    <2>2. CASE j \in 1 .. n
      BY <1>2, <1>4, <2>1, <2>2 DEF Sorted, n
    <2>3. CASE j = n + 1
      BY <1>2, <2>1, <2>3 DEF n
    <2>. QED  BY <1>3, <2>2, <2>3
  <1>5. Sorted(q)
    BY <1>2, <1>4 DEF Sorted
  <1>6. ASSUME NEW x \in Nat PROVE x \in Bytes(q) <=> x \in Bytes(rs) \/ Covers(r, x)
    <2>1. x \in Bytes(q) <=> \E i \in 1 .. Len(q) : Covers(q[i], x)
      BY <1>2, BytesAre
    <2>2. x \in Bytes(rs) <=> \E i \in 1 .. n : Covers(rs[i], x)
      BY <1>1, BytesAre DEF n
    <2>. QED  BY <1>2, <1>3, <2>1, <2>2
  <1>. QED  BY <1>5, <1>6 DEF q

(* An empty list is in order and covers nothing.                             *)
LEMMA SortedEmpty == Sorted(<<>>) /\ Bytes(<<>>) = {}
  <1>1. Sorted(<<>>)
    BY DEF Sorted
  <1>2. ToSet(<<>>) = {}
    BY DEF ToSet
  <1>. QED  BY <1>1, <1>2 DEF Bytes

GapState == [cursor : Nat, gaps : Seq(Ranges)]

(* A round of compute_gaps passes a range, and notes what is missing before  *)
(* it.                                                                       *)
LEMMA GapRoundIs ==
  ASSUME NEW upper \in Nat, NEW g \in GapState, NEW r \in Ranges
  PROVE  /\ GapRound(upper, g, r) \in GapState
         /\ (g.cursor >= upper \/ End(r) <= g.cursor) => GapRound(upper, g, r) = g
         /\ (g.cursor < upper /\ g.cursor < End(r) /\ r.offset <= g.cursor) =>
              GapRound(upper, g, r) = [cursor |-> End(r), gaps |-> g.gaps]
         /\ (g.cursor < upper /\ g.cursor < End(r) /\ g.cursor < r.offset) =>
              \E edge \in Nat :
                /\ edge = IF r.offset <= upper THEN r.offset ELSE upper
                /\ g.cursor < edge
                /\ GapRound(upper, g, r) =
                     [cursor |-> End(r), gaps |-> Append(g.gaps, Claim(g.cursor, edge - g.cursor))]
  <1>1. PICK p \in Nat, a \in Nat, b \in Nat : p = g.cursor /\ a = r.offset /\ b = End(r)
    BY RangeFacts DEF GapState
  <1>2. PICK gaps \in Seq(Ranges) : gaps = g.gaps
    BY DEF GapState
  <1>3. PICK h : h = GapRound(upper, g, r)
    OBVIOUS
  <1>4. CASE p >= upper \/ b <= p
    <2>1. h = g
      BY <1>1, <1>3, <1>4 DEF GapRound
    <2>2. ~(p < upper /\ p < b)
      BY <1>4
    <2>. QED  BY <1>1, <1>3, <2>1, <2>2
  <1>5. CASE p < upper /\ p < b /\ a <= p
    <2>1. ~(p >= upper \/ b <= p) /\ ~(a > p) /\ ~(p < a)
      BY <1>5
    <2>2. h = [cursor |-> b, gaps |-> gaps]
      BY <1>1, <1>2, <1>3, <2>1 DEF GapRound
    <2>3. h \in GapState
      BY <2>2 DEF GapState
    <2>. QED  BY <1>1, <1>2, <1>3, <2>1, <2>2, <2>3
  <1>6. CASE p < upper /\ p < b /\ p < a
    <2>1. PICK edge \in Nat : edge = Min({a, upper}) /\ edge = IF a <= upper THEN a ELSE upper
      BY MinOfTwo
    <2>2. p < edge /\ ~(p >= upper \/ b <= p) /\ a > p /\ ~(a <= p)
      BY <1>6, <2>1
    <2>3. PICK c \in Ranges : c = Claim(p, edge - p)
      BY <2>2, ClaimIsRange
    <2>4. h = [cursor |-> b, gaps |-> Append(gaps, c)]
      BY <1>1, <1>2, <1>3, <2>1, <2>2, <2>3 DEF GapRound
    <2>5. Append(gaps, c) \in Seq(Ranges)
      OBVIOUS
    <2>6. h \in GapState
      BY <2>4, <2>5 DEF GapState
    <2>. QED  BY <1>1, <1>2, <1>3, <2>1, <2>2, <2>3, <2>4, <2>6
  <1>. QED  BY <1>1, <1>4, <1>5, <1>6

(* A round of the scan leaves a position and a list of gaps.                 *)
LEMMA GapRoundType ==
  ASSUME NEW upper \in Nat, NEW g \in GapState, NEW r \in Ranges
  PROVE  GapRound(upper, g, r) \in GapState
  BY GapRoundIs

(* The scan find_gaps makes is a round per range, from the lower bound on.   *)
LEMMA GapScanUnfolds ==
  ASSUME NEW rs \in Seq(Ranges), NEW lower \in Nat, NEW upper \in Nat
  PROVE  \E g : /\ \A i \in 0 .. Len(rs) : g[i] \in GapState
                /\ g[0] = [cursor |-> lower, gaps |-> <<>>]
                /\ \A i \in 1 .. Len(rs) : g[i] = GapRound(upper, g[i - 1], rs[i])
                /\ GapScan(rs, lower, upper) = g[Len(rs)]
  <1> DEFINE n == Len(rs)
             c == [cursor |-> lower, gaps |-> <<>>]
             step == [i \in 1 .. n |-> [v \in GapState |-> GapRound(upper, v, rs[i])]]
             IsScan(u) == u = [i \in 0 .. n |-> IF i = 0 THEN c ELSE GapRound(upper, u[i - 1], rs[i])]
             scan == CHOOSE u : IsScan(u)
  <1>1. n \in Nat /\ \A i \in 1 .. n : rs[i] \in Ranges
    OBVIOUS
  <1>2. c \in GapState
    <2>1. <<>> \in Seq(Ranges)
      OBVIOUS
    <2>. QED  BY <2>1 DEF GapState
  <1>3. step \in [1 .. n -> [GapState -> GapState]]
    <2>1. ASSUME NEW i \in 1 .. n, NEW v \in GapState PROVE GapRound(upper, v, rs[i]) \in GapState
      BY <1>1, GapRoundType
    <2>. HIDE DEF n
    <2>. QED  BY <2>1
  <1>4. PICK f \in [0 .. n -> GapState] : IsIteration(f, c, step, n)
    <2> HIDE DEF n, step, c
    <2>. QED  BY <1>1, <1>2, <1>3, IterationExists
  <1>5. IsScan(f)
    <2>1. ASSUME NEW i \in 1 .. n PROVE f[i] = GapRound(upper, f[i - 1], rs[i])
      <3>1. f[i] = step[i][f[i - 1]] /\ i - 1 \in 0 .. n
        BY <1>1, <1>4 DEF IsIteration
      <3>. HIDE DEF n
      <3>. QED  BY <3>1
    <2>2. f[0] = c
      BY <1>4 DEF IsIteration
    <2>. HIDE DEF n, c
    <2>3. ASSUME NEW i \in 0 .. n PROVE f[i] = IF i = 0 THEN c ELSE GapRound(upper, f[i - 1], rs[i])
      BY <1>1, <2>1, <2>2
    <2>. QED  BY <1>1, <2>3
  <1>6. IsScan(scan)
    BY <1>5, Zenon
  <1>7. GapScan(rs, lower, upper) = scan[n]
    BY DEF GapScan
  <1> HIDE DEF scan, n, c
  <1>8. scan[0] = c /\ \A i \in 1 .. n : scan[i] = GapRound(upper, scan[i - 1], rs[i])
    BY <1>1, <1>6
  <1> DEFINE S == {i \in Nat : i <= n => scan[i] \in GapState}
  <1>9. 0 \in S
    BY <1>2, <1>8
  <1>10. ASSUME NEW i \in Nat, i \in S PROVE i + 1 \in S
    <2> SUFFICES ASSUME i + 1 <= n PROVE scan[i + 1] \in GapState
      OBVIOUS
    <2>1. i + 1 \in 1 .. n /\ (i + 1) - 1 = i /\ scan[i] \in GapState
      BY <1>1, <1>10
    <2>2. scan[i + 1] = GapRound(upper, scan[i], rs[i + 1]) /\ rs[i + 1] \in Ranges
      BY <1>1, <1>8, <2>1
    <2>3. PICK v \in GapState, r \in Ranges : v = scan[i] /\ r = rs[i + 1]
      BY <2>1, <2>2
    <2>4. GapRound(upper, v, r) \in GapState
      BY GapRoundType
    <2>. QED  BY <2>2, <2>3, <2>4
  <1>11. \A i \in 0 .. n : scan[i] \in GapState
    <2>1. Nat \subseteq S
      <3> HIDE DEF S
      <3>. QED  BY <1>9, <1>10, SetInduction
    <2>. QED  BY <1>1, <2>1
  <1>. QED  BY <1>7, <1>8, <1>11 DEF n, c

(* The scan finds the missing bytes before its cursor, and has passed all    *)
(* ranges once it comes to the end.                                          *)
LEMMA GapScanIs ==
  ASSUME NEW rs, Sorted(rs), NEW lower \in Nat, NEW upper \in Nat,
         NEW g, g = GapScan(rs, lower, upper)
  PROVE  /\ g.cursor \in Nat /\ g.cursor >= lower /\ Sorted(g.gaps)
         /\ \A j \in 1 .. Len(g.gaps) : End(g.gaps[j]) < g.cursor
         /\ g.cursor >= upper \/ \A j \in 1 .. Len(rs) : End(rs[j]) <= g.cursor
         /\ \A x \in Nat : x \in Bytes(g.gaps) <=>
               lower <= x /\ x < upper /\ x < g.cursor /\ \A j \in 1 .. Len(rs) : ~Covers(rs[j], x)
  <1> DEFINE n == Len(rs)
             Missing(x) == lower <= x /\ x < upper /\ \A j \in 1 .. n : ~Covers(rs[j], x)
  <1>1. rs \in Seq(Ranges) /\ n \in Nat /\ \A j \in 1 .. n : rs[j] \in Ranges
    BY DEF Sorted
  <1>2. PICK f : /\ \A i \in 0 .. n : f[i] \in GapState
                 /\ f[0] = [cursor |-> lower, gaps |-> <<>>]
                 /\ \A i \in 1 .. n : f[i] = GapRound(upper, f[i - 1], rs[i])
                 /\ g = f[n]
    <2>1. \E f : /\ \A i \in 0 .. Len(rs) : f[i] \in GapState
                 /\ f[0] = [cursor |-> lower, gaps |-> <<>>]
                 /\ \A i \in 1 .. Len(rs) : f[i] = GapRound(upper, f[i - 1], rs[i])
                 /\ GapScan(rs, lower, upper) = f[Len(rs)]
      BY <1>1, GapScanUnfolds, Zenon
    <2>. QED  BY <2>1, Zenon
  <1> HIDE DEF n
  <1> DEFINE Good(i, u) ==
        /\ u.cursor >= lower /\ Sorted(u.gaps)
        /\ \A j \in 1 .. Len(u.gaps) : End(u.gaps[j]) < u.cursor
        /\ u.cursor >= upper \/ \A j \in 1 .. i : End(rs[j]) <= u.cursor
        /\ u.cursor = lower \/ \A j \in i + 1 .. n : u.cursor < rs[j].offset
        /\ \A x \in Nat : x \in Bytes(u.gaps) <=> Missing(x) /\ x < u.cursor
      S == {i \in Nat : i <= n => Good(i, f[i])}
  <1>3. 0 \in S
    <2>1. PICK u : u = f[0]
      OBVIOUS
    <2>2. u.cursor = lower /\ u.gaps = <<>>
      BY <1>2, <2>1
    <2>3. Sorted(u.gaps) /\ Bytes(u.gaps) = {} /\ Len(u.gaps) = 0
      BY <2>2, SortedEmpty
    <2>4. Good(0, u)
      BY <2>2, <2>3
    <2>. QED  BY <2>1, <2>4
  <1>4. ASSUME NEW i \in Nat, i \in S PROVE i + 1 \in S
    <2> SUFFICES ASSUME i + 1 <= n PROVE Good(i + 1, f[i + 1])
      OBVIOUS
    <2>1. Good(i, f[i]) /\ i \in 0 .. n /\ i + 1 \in 0 .. n /\ i + 1 \in 1 .. n /\ (i + 1) - 1 = i
      BY <1>1, <1>4
    <2>2. PICK v \in GapState : v = f[i]
      BY <1>2, <2>1
    <2>3. PICK r \in Ranges : r = rs[i + 1]
      BY <1>1, <2>1
    <2>4. PICK u \in GapState : u = f[i + 1]
      BY <1>2, <2>1
    <2>5. u = GapRound(upper, v, r)
      BY <1>2, <2>1, <2>2, <2>3, <2>4
    <2>6. PICK a \in Nat, b \in Nat : a = r.offset /\ b = End(r) /\ a < b
      BY RangeFacts
    <2>7. PICK p \in Nat : p = v.cursor
      BY DEF GapState
    <2>8. Good(i, v)
      BY <2>1, <2>2
    <2>9. 1 .. i + 1 = (1 .. i) \cup {i + 1}
      OBVIOUS
    <2>10. \A j \in i + 2 .. n : b < rs[j].offset /\ j \in i + 1 .. n /\ j \in 1 .. n
      <3>1. \A j \in i + 2 .. n : i + 1 < j /\ j \in 1 .. n /\ j \in i + 1 .. n
        BY <1>1
      <3>. QED  BY <2>1, <2>3, <2>6, <3>1 DEF Sorted, n
    <2>11. /\ (p >= upper \/ b <= p) => u = v
           /\ ~(p >= upper \/ b <= p) => u.cursor = b
           /\ (~(p >= upper \/ b <= p) /\ a <= p) => u.gaps = v.gaps
           /\ (~(p >= upper \/ b <= p) /\ ~(a <= p)) => \E edge \in Nat :
                /\ edge = IF a <= upper THEN a ELSE upper
                /\ p < edge /\ u.gaps = Append(v.gaps, Claim(p, edge - p))
      <3>1. /\ (v.cursor >= upper \/ End(r) <= v.cursor) => GapRound(upper, v, r) = v
            /\ (v.cursor < upper /\ v.cursor < End(r) /\ r.offset <= v.cursor) =>
                 GapRound(upper, v, r) = [cursor |-> End(r), gaps |-> v.gaps]
            /\ (v.cursor < upper /\ v.cursor < End(r) /\ v.cursor < r.offset) =>
                 \E edge \in Nat :
                   /\ edge = IF r.offset <= upper THEN r.offset ELSE upper
                   /\ v.cursor < edge
                   /\ GapRound(upper, v, r) =
                        [cursor |-> End(r), gaps |-> Append(v.gaps, Claim(v.cursor, edge - v.cursor))]
        BY GapRoundIs
      <3>2. CASE p >= upper \/ b <= p
        BY <2>5, <2>6, <2>7, <3>1, <3>2
      <3>3. CASE p < upper /\ p < b /\ a <= p
        <4>1. u = [cursor |-> b, gaps |-> v.gaps]
          BY <2>5, <2>6, <2>7, <3>1, <3>3
        <4>. QED  BY <3>3, <4>1
      <3>4. CASE p < upper /\ p < b /\ p < a
        <4>1. PICK edge \in Nat : /\ edge = IF a <= upper THEN a ELSE upper
                                  /\ p < edge
                                  /\ u = [cursor |-> b, gaps |-> Append(v.gaps, Claim(p, edge - p))]
          BY <2>5, <2>6, <2>7, <3>1, <3>4
        <4>. QED  BY <3>4, <4>1
      <3>. QED  BY <3>2, <3>3, <3>4
    <2>12. CASE p >= upper \/ b <= p
      <3>1. u = v
        BY <2>11, <2>12
      <3>2. p >= upper \/ \A j \in 1 .. i + 1 : End(rs[j]) <= p
        BY <2>3, <2>6, <2>7, <2>8, <2>9, <2>12
      <3>3. i + 1 + 1 = i + 2 /\ (p = lower \/ \A j \in i + 2 .. n : p < rs[j].offset)
        BY <2>7, <2>8, <2>10
      <3>4. Good(i + 1, v)
        BY <2>7, <2>8, <3>2, <3>3
      <3>. QED  BY <2>4, <3>1, <3>4
    <2>13. CASE ~(p >= upper \/ b <= p)
      <3>1. /\ u.cursor = b
            /\ a <= p => u.gaps = v.gaps
            /\ ~(a <= p) => \E edge \in Nat :
                         /\ edge = IF a <= upper THEN a ELSE upper
                         /\ p < edge
                         /\ u.gaps = Append(v.gaps, Claim(p, edge - p))
        BY <2>11, <2>13
      <3>2. \A j \in 1 .. i : End(rs[j]) <= p
        BY <2>7, <2>8, <2>13
      <3>3. p >= lower /\ p < upper /\ p < b
        BY <2>7, <2>8, <2>13
      <3>4. \A x \in Nat : Missing(x) /\ x < p <=> x \in Bytes(v.gaps)
        BY <2>7, <2>8
      <3>5. ASSUME NEW x \in Nat, p <= x, x < b
            PROVE  (\A j \in 1 .. n : ~Covers(rs[j], x)) <=> x < a
        <4>1. Covers(r, x) <=> a <= x
          BY <2>6, <3>5 DEF Covers
        <4>2. ASSUME NEW j \in 1 .. n, j # i + 1 PROVE ~Covers(rs[j], x)
          <5>1. PICK c \in Nat, d \in Nat : c = rs[j].offset /\ d = End(rs[j])
            BY <1>1, RangeFacts
          <5>2. CASE j \in 1 .. i
            <6>1. d <= p
              BY <3>2, <5>1, <5>2
            <6>. QED  BY <3>5, <5>1, <6>1 DEF Covers
          <5>3. CASE j \in i + 2 .. n
            <6>1. b < c
              BY <2>10, <5>1, <5>3
            <6>. QED  BY <2>6, <3>5, <5>1, <6>1 DEF Covers
          <5>. QED  BY <1>1, <4>2, <5>2, <5>3
        <4>. QED  BY <2>1, <2>3, <4>1, <4>2
      <3>6. ASSUME NEW x \in Nat
            PROVE  Missing(x) /\ x < b <=> x \in Bytes(v.gaps) \/ (p <= x /\ x < a /\ x < upper)
        <4>1. CASE x < p
          BY <2>6, <3>3, <3>4, <4>1
        <4>2. CASE p <= x
          <5>1. x \notin Bytes(v.gaps)
            BY <3>4, <4>2
          <5>2. CASE x < b
            BY <3>3, <3>5, <4>2, <5>1, <5>2
          <5>3. CASE ~(x < b)
            BY <2>6, <5>1, <5>3
          <5>. QED  BY <5>2, <5>3
        <4>. QED  BY <4>1, <4>2
      <3>7. /\ Sorted(u.gaps)
            /\ \A j \in 1 .. Len(u.gaps) : End(u.gaps[j]) < b
            /\ \A x \in Nat : x \in Bytes(u.gaps) <=> x \in Bytes(v.gaps) \/ (p <= x /\ x < a /\ x < upper)
        <4>1. Sorted(v.gaps) /\ \A j \in 1 .. Len(v.gaps) : End(v.gaps[j]) < p
          BY <2>7, <2>8
        <4>2. \A j \in 1 .. Len(v.gaps) : End(v.gaps[j]) \in Nat
          <5>1. \A j \in 1 .. Len(v.gaps) : v.gaps[j] \in Ranges
            BY <4>1 DEF Sorted
          <5>. QED  BY <5>1, RangeFacts
        <4>3. CASE a <= p
          <5>1. u.gaps = v.gaps
            BY <3>1, <4>3
          <5>2. \A j \in 1 .. Len(v.gaps) : End(v.gaps[j]) < b
            BY <3>3, <4>1, <4>2
          <5>3. \A x \in Nat : ~(p <= x /\ x < a)
            BY <4>3
          <5>. QED  BY <4>1, <5>1, <5>2, <5>3
        <4>4. CASE ~(a <= p)
          <5>1. PICK edge \in Nat : /\ edge = IF a <= upper THEN a ELSE upper
                                    /\ p < edge
                                    /\ u.gaps = Append(v.gaps, Claim(p, edge - p))
            BY <3>1, <4>4
          <5>2. PICK c \in Ranges : c = Claim(p, edge - p) /\ c.offset = p /\ End(c) = edge
            BY <5>1, ClaimIsRange
          <5>3. \A j \in 1 .. Len(v.gaps) : End(v.gaps[j]) < c.offset
            BY <4>1, <5>2
          <5>4. /\ Sorted(Append(v.gaps, c))
                /\ \A x \in Nat : x \in Bytes(Append(v.gaps, c)) <=> x \in Bytes(v.gaps) \/ Covers(c, x)
            BY <4>1, <5>3, SortedAppend
          <5>5. \A x \in Nat : Covers(c, x) <=> (p <= x /\ x < a /\ x < upper)
            BY <5>1, <5>2 DEF Covers
          <5>6. edge < b
            BY <2>6, <5>1
          <5>7. ASSUME NEW j \in 1 .. Len(u.gaps) PROVE End(u.gaps[j]) < b
            <6>1. v.gaps \in Seq(Ranges)
              BY <4>1 DEF Sorted
            <6>2. PICK e \in Nat : e = Len(v.gaps)
              BY <6>1
            <6>3. u.gaps = Append(v.gaps, c)
              BY <5>1, <5>2
            <6>4. j = e + 1 \/ j \in 1 .. e
              BY <6>1, <6>2, <6>3
            <6>5. CASE j = e + 1
              <7>1. u.gaps[j] = c
                BY <6>1, <6>2, <6>3, <6>5
              <7>. QED  BY <5>2, <5>6, <7>1
            <6>6. CASE j \in 1 .. e
              <7>1. u.gaps[j] = v.gaps[j]
                BY <6>1, <6>2, <6>3, <6>6
              <7>2. End(v.gaps[j]) < p /\ End(v.gaps[j]) \in Nat
                BY <4>1, <4>2, <6>2, <6>6
              <7>. QED  BY <3>3, <7>1, <7>2
            <6>. QED  BY <6>4, <6>5, <6>6
          <5>. QED  BY <5>1, <5>2, <5>4, <5>5, <5>7
        <4>. QED  BY <2>6, <4>3, <4>4
      <3>8. \A j \in 1 .. i + 1 : End(rs[j]) <= b
        <4>1. \A j \in 1 .. i : j \in 1 .. n /\ End(rs[j]) <= p /\ End(rs[j]) \in Nat
          <5>1. \A j \in 1 .. i : j \in 1 .. n
            BY <1>1, <2>1
          <5>. QED  BY <1>1, <3>2, <5>1, RangeFacts
        <4>. QED  BY <2>3, <2>6, <2>9, <3>3, <4>1
      <3>9. i + 1 + 1 = i + 2 /\ b >= lower
        BY <2>6, <3>3
      <3>10. Good(i + 1, u)
        BY <2>10, <3>1, <3>6, <3>7, <3>8, <3>9
      <3>. QED  BY <2>4, <3>10
    <2>. QED  BY <2>12, <2>13
  <1>5. n \in Nat /\ n \in 0 .. n /\ n <= n
    BY <1>1
  <1>6. Good(n, g) /\ g \in GapState
    <2>1. Nat \subseteq S
      <3> HIDE DEF S
      <3>. QED  BY <1>3, <1>4, SetInduction
    <2>2. n \in S
      BY <1>5, <2>1
    <2>. HIDE DEF Good
    <2>. QED  BY <1>2, <1>5, <2>2
  <1>7. g.cursor \in Nat
    BY <1>6 DEF GapState
  <1>. QED  BY <1>6, <1>7 DEF n

(* compute_gaps returns the maximal ranges of the missing bytes, in order.   *)
LEMMA compute_gapsIs ==
  ASSUME NEW rs, Sorted(rs), NEW lower \in Nat, NEW upper \in Nat
  PROVE  compute_gaps(rs, lower, upper) = MaximalRanges((lower .. upper - 1) \ Bytes(rs))
  <1> DEFINE T == (lower .. upper - 1) \ Bytes(rs)
  <1>1. PICK g : g = GapScan(rs, lower, upper)
    OBVIOUS
  <1>2. /\ g.cursor \in Nat /\ g.cursor >= lower /\ Sorted(g.gaps)
        /\ \A j \in 1 .. Len(g.gaps) : End(g.gaps[j]) < g.cursor
        /\ g.cursor >= upper \/ \A j \in 1 .. Len(rs) : End(rs[j]) <= g.cursor
        /\ \A x \in Nat : x \in Bytes(g.gaps) <=>
               lower <= x /\ x < upper /\ x < g.cursor /\ \A j \in 1 .. Len(rs) : ~Covers(rs[j], x)
    BY <1>1, GapScanIs
  <1>3. PICK p \in Nat : p = g.cursor
    BY <1>2
  <1>4. PICK out : out = compute_gaps(rs, lower, upper)
    OBVIOUS
  <1>5. rs \in Seq(Ranges) /\ \A j \in 1 .. Len(rs) : rs[j] \in Ranges
    BY DEF Sorted
  <1>6. T \subseteq Nat /\ \A x \in Nat :
          x \in T <=> lower <= x /\ x < upper /\ \A j \in 1 .. Len(rs) : ~Covers(rs[j], x)
    <2>1. \A x \in Nat : x \in Bytes(rs) <=> \E i \in 1 .. Len(rs) : Covers(rs[i], x)
      BY <1>5, BytesAre
    <2>. QED  BY <2>1
  <1> HIDE DEF T
  <1>7. Sorted(out) /\ \A x \in Nat : x \in Bytes(out) <=> x \in T
    <2>1. CASE p >= upper
      <3>1. out = g.gaps
        BY <1>1, <1>3, <1>4, <2>1 DEF compute_gaps
      <3>2. \A x \in Nat : x < upper => x < p
        BY <2>1
      <3>. QED  BY <1>2, <1>3, <1>6, <3>1, <3>2
    <2>2. CASE ~(p >= upper)
      <3>1. p < upper /\ out = Append(g.gaps, Claim(p, upper - p))
        BY <1>1, <1>3, <1>4, <2>2 DEF compute_gaps
      <3>2. PICK c \in Ranges : c = Claim(p, upper - p) /\ c.offset = p /\ End(c) = upper
        BY <3>1, ClaimIsRange
      <3>3. \A j \in 1 .. Len(g.gaps) : End(g.gaps[j]) < c.offset
        BY <1>2, <1>3, <3>2
      <3>4. /\ Sorted(Append(g.gaps, c))
            /\ \A x \in Nat : x \in Bytes(Append(g.gaps, c)) <=> x \in Bytes(g.gaps) \/ Covers(c, x)
        BY <1>2, <3>3, SortedAppend
      <3>5. ASSUME NEW x \in Nat PROVE x \in Bytes(g.gaps) \/ Covers(c, x) <=> x \in T
        <4>1. Covers(c, x) <=> p <= x /\ x < upper
          BY <3>2 DEF Covers
        <4>2. p <= x => \A j \in 1 .. Len(rs) : ~Covers(rs[j], x)
          <5> SUFFICES ASSUME p <= x, NEW j \in 1 .. Len(rs) PROVE ~Covers(rs[j], x)
            OBVIOUS
          <5>1. PICK d \in Nat : d = End(rs[j])
            BY <1>5, RangeFacts
          <5>2. d <= p
            BY <1>2, <1>3, <2>2, <5>1
          <5>. QED  BY <5>1, <5>2 DEF Covers
        <4>3. CASE x < p
          BY <1>2, <1>3, <1>6, <3>1, <4>1, <4>3
        <4>4. CASE p <= x
          BY <1>2, <1>3, <1>6, <3>1, <4>1, <4>2, <4>4
        <4>. QED  BY <4>3, <4>4
      <3>. QED  BY <3>1, <3>2, <3>4, <3>5
    <2>. QED  BY <2>1, <2>2
  <1>8. Bytes(out) = T
    <2>1. Bytes(out) \subseteq Nat
      BY <1>7, BytesAre DEF Sorted
    <2>. QED  BY <1>6, <1>7, <2>1
  <1>9. MaximalRanges(Bytes(out)) = out
    BY <1>7, SortedIsMaximal
  <1>. QED  BY <1>4, <1>8, <1>9 DEF T

(* total_received counts each byte of the list once.                         *)
LEMMA total_receivedIs ==
  ASSUME NEW rs, Sorted(rs)
  PROVE  total_received(rs) = Cardinality(Bytes(rs)) /\ IsFiniteSet(Bytes(rs))
  <1> DEFINE n == Len(rs)
             lengths == [i \in 1 .. n |-> rs[i].length]
             U(k) == {x \in Nat : \E j \in 1 .. k : Covers(rs[j], x)}
  <1>1. rs \in Seq(Ranges) /\ n \in Nat /\ \A j \in 1 .. n : rs[j] \in Ranges
    BY DEF Sorted
  <1>2. lengths \in Seq(Nat) /\ Len(lengths) = n /\ \A i \in 1 .. n : lengths[i] = rs[i].length
    <2>1. \A i \in 1 .. n : rs[i].length \in Nat
      BY <1>1, RangeFacts
    <2>. HIDE DEF n
    <2>. QED  BY <1>1, <2>1
  <1> HIDE DEF lengths
  <1>3. PICK f : PartialSums(f, lengths) /\ SumOf(lengths) = f[Len(lengths)]
    BY <1>2, SumUnfolds
  <1>4. f[0] = 0 /\ \A k \in 1 .. n : f[k] = f[k - 1] + rs[k].length
    BY <1>2, <1>3 DEF PartialSums
  <1> HIDE DEF n
  <1> DEFINE S == {k \in Nat : k <= n => f[k] = Cardinality(U(k)) /\ IsFiniteSet(U(k))}
  <1>5. 0 \in S
    <2>1. U(0) = {}
      OBVIOUS
    <2>. HIDE DEF U
    <2>. QED  BY <1>4, <2>1, FS_EmptySet
  <1>6. ASSUME NEW k \in Nat, k \in S PROVE k + 1 \in S
    <2> SUFFICES ASSUME k + 1 <= n PROVE f[k + 1] = Cardinality(U(k + 1)) /\ IsFiniteSet(U(k + 1))
      OBVIOUS
    <2>1. /\ k + 1 \in 1 .. n /\ (k + 1) - 1 = k /\ f[k] = Cardinality(U(k)) /\ IsFiniteSet(U(k))
          /\ \A j \in 1 .. k : j \in 1 .. n /\ j < k + 1
          /\ 1 .. k + 1 = (1 .. k) \cup {k + 1}
      BY <1>1, <1>6
    <2>2. PICK r \in Ranges : r = rs[k + 1]
      BY <1>1, <2>1
    <2>3. PICK a \in Nat, b \in Nat, l \in Nat : a = r.offset /\ b = End(r) /\ l = r.length /\ a < b /\ b = a + l
      BY RangeFacts DEF End
    <2> DEFINE I == a .. b - 1
    <2>4. \A x \in Nat : x \in I <=> Covers(r, x)
      BY <2>3 DEF Covers
    <2>5. IsFiniteSet(I) /\ Cardinality(I) = l
      <3>1. a \in Int /\ b - 1 \in Int /\ ~(a > b - 1) /\ (b - 1) - a + 1 = l
        BY <2>3
      <3>. QED  BY <3>1, FS_Interval
    <2>6. U(k + 1) = U(k) \cup I
      <3>1. I \subseteq Nat
        OBVIOUS
      <3>. HIDE DEF I
      <3>. QED  BY <2>1, <2>2, <2>4, <3>1
    <2>7. U(k) \cap I = {}
      <3> SUFFICES ASSUME NEW x \in Nat, NEW j \in 1 .. k, Covers(rs[j], x), Covers(r, x) PROVE FALSE
        BY <2>4
      <3>1. End(rs[j]) < a
        BY <2>1, <2>2, <2>3 DEF Sorted, n
      <3>2. End(rs[j]) \in Nat
        BY <1>1, <2>1, RangeFacts
      <3>. QED  BY <2>3, <3>1, <3>2 DEF Covers
    <2>8. f[k + 1] = f[k] + l
      BY <1>4, <2>1, <2>2, <2>3
    <2>. HIDE DEF U, I
    <2>9. PICK A, B : A = U(k) /\ B = I
      OBVIOUS
    <2>10. IsFiniteSet(A) /\ IsFiniteSet(B) /\ A \cap B = {}
      BY <2>1, <2>5, <2>7, <2>9
    <2>11. IsFiniteSet(A \cup B) /\ Cardinality(A \cup B) = Cardinality(A) + Cardinality(B) - Cardinality({})
      BY <2>10, FS_Union
    <2>12. Cardinality({}) = 0 /\ Cardinality(A) \in Nat
      BY <2>10, FS_EmptySet, FS_CardinalityType
    <2>13. PICK y \in Nat : y = Cardinality(A)
      BY <2>12
    <2>14. f[k] = y /\ Cardinality(B) = l
      BY <2>1, <2>5, <2>9, <2>13
    <2>15. Cardinality(A \cup B) = y + l
      BY <2>11, <2>12, <2>13, <2>14
    <2>16. U(k + 1) = A \cup B
      BY <2>6, <2>9
    <2>. QED  BY <2>8, <2>11, <2>14, <2>15, <2>16
  <1>7. f[n] = Cardinality(U(n)) /\ IsFiniteSet(U(n))
    <2>1. Nat \subseteq S
      <3> HIDE DEF S
      <3>. QED  BY <1>5, <1>6, SetInduction
    <2>2. n \in S /\ n <= n
      <3> HIDE DEF S
      <3>. QED  BY <1>1, <2>1
    <2>. HIDE DEF U
    <2>. QED  BY <2>2
  <1>8. U(n) = Bytes(rs)
    <2>1. /\ Bytes(rs) \subseteq Nat
          /\ \A x \in Nat : x \in Bytes(rs) <=> \E i \in 1 .. n : Covers(rs[i], x)
      BY <1>1, BytesAre DEF n
    <2>. QED  BY <2>1
  <1>9. total_received(rs) = f[n]
    BY <1>2, <1>3 DEF total_received, lengths, n
  <1>. HIDE DEF U
  <1>. QED  BY <1>7, <1>8, <1>9

(* is_complete is right about every byte below the total.                    *)
LEMMA is_completeIs ==
  ASSUME NEW rs, Sorted(rs), NEW total \in Nat, is_complete(rs, total)
  PROVE  0 .. total - 1 \subseteq Bytes(rs)
  <1>1. CASE total = 0
    BY <1>1
  <1>2. CASE Len(rs) = 1 /\ rs[1].offset = 0 /\ rs[1].length >= total
    <2>1. rs \in Seq(Ranges) /\ 1 \in 1 .. Len(rs) /\ rs[1] \in Ranges
      BY <1>2, SMTT(30) DEF Sorted
    <2>2. ASSUME NEW x \in 0 .. total - 1 PROVE x \in Nat /\ Covers(rs[1], x)
      BY <1>2, <2>1, RangeFacts DEF Covers, End
    <2>3. \A x \in Nat : x \in Bytes(rs) <=> \E i \in 1 .. Len(rs) : Covers(rs[i], x)
      BY <2>1, BytesAre
    <2>. QED  BY <2>1, <2>2, <2>3
  <1>. QED  BY <1>1, <1>2 DEF is_complete
-----------------------------------------------------------------------------
(* A call of add_range.                                                      *)
LEMMA AddedIs ==
  ASSUME NEW rs, Sorted(rs), NEW o \in Nat, NEW l \in Nat
  PROVE  Sorted(Added(rs, o, l)) /\ Bytes(Added(rs, o, l)) = Bytes(rs) \cup (o .. o + l - 1)
  <1>1. CASE l = 0
    <2>1. Added(rs, o, l) = rs /\ o .. o + l - 1 = {}
      BY <1>1 DEF Added
    <2>. QED  BY <2>1
  <1>2. CASE l # 0
    <2>1. l >= 1 /\ Added(rs, o, l) = Merged(rs, o, l)
      BY <1>2 DEF Added
    <2>. QED  BY <2>1, MergedIs
  <1>. QED  BY <1>1, <1>2

(* The offsets and lengths handed to add_range are numbers.                  *)
LEMMA InputsAreNat ==
  ASSUME NEW o \in 0 .. Limit - 1, NEW l \in 0 .. Limit - o
  PROVE  o \in Nat /\ l \in Nat
  BY LimitAssumption

(* add_range and clear keep the list of ranges in order and apart.           *)
LEMMA SortedInvariant == TSpec => []Sorted(ranges_)
  <1>1. TInit => Sorted(ranges_)
    BY SortedEmpty DEF TInit
  <1>2. Sorted(ranges_) /\ [TNext]_ranges_ => Sorted(ranges_)'
    <2> SUFFICES ASSUME Sorted(ranges_), [TNext]_ranges_ PROVE Sorted(ranges_')
      OBVIOUS
    <2>1. ASSUME NEW o \in 0 .. Limit - 1, NEW l \in 0 .. Limit - o, add_range(o, l)
          PROVE  Sorted(ranges_')
      BY <2>1, InputsAreNat, AddedIs DEF add_range
    <2>2. CASE clear
      BY <2>2, SortedEmpty DEF clear
    <2>3. CASE UNCHANGED ranges_
      BY <2>3
    <2>. QED  BY <2>1, <2>2, <2>3 DEF TNext
  <1>. QED  BY <1>1, <1>2, PTL DEF TSpec

\* The list that add_range keeps always is the canonical one for its bytes, in
\* whatever order and with whatever overlaps the segments of a block arrive.
THEOREM ListIsCanonical == TSpec => []CanonicalRanges
  <1>1. Sorted(ranges_) => CanonicalRanges
    BY SortedIsMaximal DEF CanonicalRanges
  <1>. QED  BY <1>1, SortedInvariant, PTL

\* get_gaps, compute_gaps, is_complete and total_received answer as for the set
\* of the received bytes, for every scope.
THEOREM QueriesAreExact == TSpec => []QueriesExact
  <1>1. Sorted(ranges_) => QueriesExact
    <2> SUFFICES ASSUME Sorted(ranges_) PROVE QueriesExact
      OBVIOUS
    <2>1. GapsExact
      <3> SUFFICES ASSUME NEW lower \in 0 .. Limit, NEW upper \in 0 .. Limit
                   PROVE  LET missing == MaximalRanges((lower .. upper - 1) \ Bytes(ranges_))
                          IN /\ get_gaps(ranges_, lower, upper) = missing
                             /\ compute_gaps(ranges_, lower, upper) = missing
        BY DEF GapsExact
      <3>1. lower \in Nat /\ upper \in Nat
        BY LimitAssumption
      <3>2. PICK missing : missing = MaximalRanges((lower .. upper - 1) \ Bytes(ranges_))
        OBVIOUS
      <3>3. compute_gaps(ranges_, lower, upper) = missing
        BY <3>1, <3>2, compute_gapsIs
      <3>4. get_gaps(ranges_, lower, upper) = missing
        <4>1. CASE lower >= upper
          <5>1. (lower .. upper - 1) \ Bytes(ranges_) = {}
            BY <3>1, <4>1
          <5>2. MaximalRanges({}) = <<>>
            BY SortedEmpty, SortedIsMaximal
          <5>3. get_gaps(ranges_, lower, upper) = <<>>
            BY <4>1 DEF get_gaps
          <5>. QED  BY <3>2, <5>1, <5>2, <5>3
        <4>2. CASE ~(lower >= upper)
          BY <3>3, <4>2 DEF get_gaps
        <4>. QED  BY <4>1, <4>2
      <3>. QED  BY <3>2, <3>3, <3>4
    <2>2. CompleteSound
      <3> SUFFICES ASSUME NEW t \in 0 .. Limit, is_complete(ranges_, t)
                   PROVE  0 .. t - 1 \subseteq Bytes(ranges_)
        BY DEF CompleteSound
      <3>1. t \in Nat
        BY LimitAssumption
      <3>. QED  BY <3>1, is_completeIs
    <2>3. TotalCountsBytes
      BY total_receivedIs DEF TotalCountsBytes
    <2>. QED  BY <2>1, <2>2, <2>3 DEF QueriesExact
  <1>. QED  BY <1>1, SortedInvariant, PTL

\* The tracker implements the set of received bytes: add_range adds exactly its
\* bytes, clear forgets all.
THEOREM ImplementsByteSet == TSpec => TracksByteSet
  <1>1. TInit => Abstract!BInit
    BY SortedEmpty DEF TInit, Abstract!BInit
  <1>2. Sorted(ranges_) /\ [TNext]_ranges_ => [Abstract!BNext]_(Bytes(ranges_))
    <2> SUFFICES ASSUME Sorted(ranges_), [TNext]_ranges_
                 PROVE  Abstract!BNext \/ Bytes(ranges_') = Bytes(ranges_)
      OBVIOUS
    <2>1. ASSUME NEW o \in 0 .. Limit - 1, NEW l \in 0 .. Limit - o, add_range(o, l)
          PROVE  Abstract!BNext
      <3>1. Bytes(ranges_') = Bytes(ranges_) \cup (o .. o + l - 1)
        BY <2>1, InputsAreNat, AddedIs DEF add_range
      <3>2. Abstract!Receive(o, l)
        BY <3>1 DEF Abstract!Receive
      <3>. QED  BY <3>2 DEF Abstract!BNext
    <2>2. CASE clear
      <3>1. Bytes(ranges_') = {}
        BY <2>2, SortedEmpty DEF clear
      <3>. QED  BY <3>1 DEF Abstract!BNext, Abstract!Forget
    <2>3. CASE UNCHANGED ranges_
      BY <2>3
    <2>. QED  BY <2>1, <2>2, <2>3 DEF TNext
  <1>. QED  BY <1>1, <1>2, SortedInvariant, PTL DEF TSpec, TracksByteSet, Abstract!BSpec
=============================================================================
