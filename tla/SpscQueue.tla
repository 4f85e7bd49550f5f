----------------------------- MODULE SpscQueue -----------------------------
(***************************************************************************)
(* include/qpsk_b200/spsc_queue.h: the lock-free ring buffer between two   *)
(* threads of the modem.  One thread calls try_push, the other try_pop or  *)
(* pop_wait.  A step is one access to shared memory: an atomic load or     *)
(* store, one access to a slot, one mutex or condition-variable operation. *)
(* The release store of an index and the acquire load that reads it order  *)
(* the slot accesses around them, so steps interleave as written.          *)
(***************************************************************************)
EXTENDS Naturals, Sequences

CONSTANTS Capacity,  \* capacity_: the number of slots
          Item,      \* the elements that are queued
          NoItem     \* an empty slot: never written, or moved from

ASSUME CapacityAssumption == Capacity \in Nat \ {0}
ASSUME NoItemAssumption == NoItem \notin Item

VARIABLES head_, tail_,   \* next slot to write, next slot to read
          buffer_,        \* the slots
          mtx_,           \* owner of the mutex: "none", "producer", "consumer"
          ppc, item, cur_head, pushed,           \* the call of try_push
          cpc, attempt, cur_tail, popped, expired \* try_pop or pop_wait

pvars == <<ppc, item, cur_head, pushed>>
cvars == <<cpc, attempt, cur_tail, popped, expired>>
qvars == <<head_, tail_, buffer_, mtx_, ppc, item, cur_head, pushed,
          cpc, attempt, cur_tail, popped, expired>>

Slot == 0 .. Capacity - 1
NextSlot(i) == (i + 1) % Capacity

QInit == /\ head_ = 0 /\ tail_ = 0
         /\ buffer_ = [s \in Slot |-> NoItem]
         /\ mtx_ = "none"
         /\ ppc = "idle" /\ item = NoItem /\ cur_head = 0 /\ pushed = FALSE
         /\ cpc = "idle" /\ attempt = "try" /\ cur_tail = 0 /\ popped = NoItem
         /\ expired = FALSE
-----------------------------------------------------------------------------
(* try_push, on the producer's thread. *)

PushCall(x) == /\ ppc = "idle"
               /\ ppc' = "check" /\ item' = x /\ cur_head' = head_
               /\ UNCHANGED <<head_, tail_, buffer_, mtx_, pushed, cvars>>

PushFullEarly == /\ ppc = "check" /\ NextSlot(NextSlot(cur_head)) = tail_
                 /\ ppc' = "return" /\ pushed' = FALSE
                 /\ UNCHANGED <<head_, tail_, buffer_, mtx_, item, cur_head, cvars>>
\* The acquire load of tail_ decides between "full" and "room".
PushFull == /\ ppc = "check" /\ NextSlot(cur_head) = tail_
            /\ ppc' = "return" /\ pushed' = FALSE
            /\ UNCHANGED <<head_, tail_, buffer_, mtx_, item, cur_head, cvars>>

PushRoomUnchecked == /\ ppc = "check" /\ ppc' = "write"
                     /\ UNCHANGED <<head_, tail_, buffer_, mtx_, item, cur_head, pushed, cvars>>
PushRoom == /\ ppc = "check" /\ NextSlot(cur_head) # tail_
            /\ ppc' = "write"
            /\ UNCHANGED <<head_, tail_, buffer_, mtx_, item, cur_head, pushed, cvars>>

PushWrite == /\ ppc = "write"
             /\ buffer_' = [buffer_ EXCEPT ![cur_head] = item]
             /\ ppc' = "publish"
             /\ UNCHANGED <<head_, tail_, mtx_, item, cur_head, pushed, cvars>>

PushPublishUnlocked == /\ ppc = "publish"
                       /\ head_' = NextSlot(cur_head)
                       /\ ppc' = "notify" /\ pushed' = TRUE
                       /\ UNCHANGED <<tail_, buffer_, mtx_, item, cur_head, cvars>>
PushPublish == /\ ppc = "publish"
               /\ head_' = NextSlot(cur_head)
               /\ ppc' = "lock" /\ pushed' = TRUE
               /\ UNCHANGED <<tail_, buffer_, mtx_, item, cur_head, cvars>>

PushLock == /\ ppc = "lock" /\ mtx_ = "none"
            /\ mtx_' = "producer" /\ ppc' = "unlock"
            /\ UNCHANGED <<head_, tail_, buffer_, item, cur_head, pushed, cvars>>

PushUnlock == /\ ppc = "unlock"
              /\ mtx_' = "none" /\ ppc' = "notify"
              /\ UNCHANGED <<head_, tail_, buffer_, item, cur_head, pushed, cvars>>

PushNotifyNone == /\ ppc = "notify" /\ ppc' = "return"
                  /\ UNCHANGED <<head_, tail_, buffer_, mtx_, item, cur_head, pushed, cvars>>
\* notify_one wakes the consumer if it is blocked on cv_, else does nothing.
PushNotify == /\ ppc = "notify"
              /\ ppc' = "return"
              /\ cpc' = IF cpc = "sleep" THEN "relock" ELSE cpc
              /\ UNCHANGED <<head_, tail_, buffer_, mtx_, item, cur_head, pushed,
                             attempt, cur_tail, popped, expired>>

PushReturn == /\ ppc = "return"
              /\ ppc' = "idle"
              /\ UNCHANGED <<head_, tail_, buffer_, mtx_, item, cur_head, pushed, cvars>>

Producer == \/ PushFull \/ PushRoom \/ PushWrite \/ PushPublish
            \/ PushLock \/ PushUnlock \/ PushNotify \/ PushReturn
-----------------------------------------------------------------------------
(* try_pop and pop_wait, on the consumer's thread.  attempt tells which    *)
(* try_pop is running: "try" is a call of try_pop itself, "first" the fast *)
(* path of pop_wait and "last" the one after the wait, under the mutex.    *)

PopCall(a) == /\ cpc = "idle"
              /\ cpc' = "peek" /\ attempt' = a /\ cur_tail' = tail_
              /\ popped' = NoItem /\ expired' = FALSE
              /\ UNCHANGED <<head_, tail_, buffer_, mtx_, pvars>>

PopEmpty == /\ cpc = "peek" /\ cur_tail = head_
            /\ cpc' = IF attempt = "first" THEN "lock" ELSE "return"
            /\ UNCHANGED <<head_, tail_, buffer_, mtx_, pvars,
                           attempt, cur_tail, popped, expired>>

PopSome == /\ cpc = "peek" /\ cur_tail # head_
           /\ cpc' = "take"
           /\ UNCHANGED <<head_, tail_, buffer_, mtx_, pvars,
                          attempt, cur_tail, popped, expired>>

PopTake == /\ cpc = "take"
           /\ popped' = buffer_[cur_tail]
           /\ buffer_' = [buffer_ EXCEPT ![cur_tail] = NoItem]
           /\ cpc' = "advance"
           /\ UNCHANGED <<head_, tail_, mtx_, pvars, attempt, cur_tail, expired>>

PopAdvance == /\ cpc = "advance"
              /\ tail_' = NextSlot(cur_tail)
              /\ cpc' = "return"
              /\ UNCHANGED <<head_, buffer_, mtx_, pvars,
                             attempt, cur_tail, popped, expired>>

\* Leaving pop_wait after the wait destroys the unique_lock.
PopReturn == /\ cpc = "return"
             /\ cpc' = "idle"
             /\ mtx_' = IF mtx_ = "consumer" THEN "none" ELSE mtx_
             /\ UNCHANGED <<head_, tail_, buffer_, pvars,
                            attempt, cur_tail, popped, expired>>

WaitLock == /\ cpc \in {"lock", "relock"} /\ mtx_ = "none"
            /\ mtx_' = "consumer" /\ cpc' = "pred"
            /\ UNCHANGED <<head_, tail_, buffer_, pvars,
                           attempt, cur_tail, popped, expired>>

\* wait_for's predicate holds: pop_wait calls try_pop again.
WaitReady == /\ cpc = "pred" /\ head_ # tail_
             /\ cpc' = "peek" /\ attempt' = "last" /\ cur_tail' = tail_
             /\ UNCHANGED <<head_, tail_, buffer_, mtx_, pvars, popped, expired>>

\* The predicate does not hold: give up after the timeout, else block.
WaitIdle == /\ cpc = "pred" /\ head_ = tail_
            /\ cpc' = IF expired THEN "return" ELSE "park"
            /\ UNCHANGED <<head_, tail_, buffer_, mtx_, pvars,
                           attempt, cur_tail, popped, expired>>

\* Blocking on cv_ releases the mutex in the same step.
WaitPark == /\ cpc = "park"
            /\ cpc' = "sleep" /\ mtx_' = "none"
            /\ UNCHANGED <<head_, tail_, buffer_, pvars,
                           attempt, cur_tail, popped, expired>>

Consumer == \/ PopEmpty \/ PopSome \/ PopTake \/ PopAdvance \/ PopReturn
            \/ WaitLock \/ WaitReady \/ WaitIdle \/ WaitPark

\* The timeout passes, or the wait ends spuriously.
WaitWake(e) == /\ cpc = "sleep"
               /\ cpc' = "relock" /\ expired' = e
               /\ UNCHANGED <<head_, tail_, buffer_, mtx_, pvars,
                              attempt, cur_tail, popped>>
-----------------------------------------------------------------------------
QNext == \/ \E x \in Item : PushCall(x)
         \/ Producer
         \/ \E a \in {"try", "first"} : PopCall(a)
         \/ Consumer
         \/ \E e \in BOOLEAN : WaitWake(e)

QSpec == QInit /\ [][QNext]_qvars

(* A running call goes on, and the consumer's thread calls pop_wait over   *)
(* and over.  Nothing is assumed of the timeout, of spurious wake-ups or   *)
(* of when the producer's thread calls try_push.                           *)
QFairness == /\ WF_qvars(Producer)
             /\ WF_qvars(Consumer)
             /\ WF_qvars(PopCall("first"))

QFairSpec == QSpec /\ QFairness
-----------------------------------------------------------------------------
(* Properties. *)

ProducerPcs == {"idle", "check", "write", "publish", "lock", "unlock",
                "notify", "return"}
ConsumerPcs == {"idle", "peek", "take", "advance", "return", "lock", "relock",
                "pred", "park", "sleep"}

\* Every variable of the queue stays within its type.
QTypeOK == /\ head_ \in Slot /\ tail_ \in Slot
           /\ buffer_ \in [Slot -> Item \cup {NoItem}]
           /\ mtx_ \in {"none", "producer", "consumer"}
           /\ ppc \in ProducerPcs /\ item \in Item \cup {NoItem}
           /\ cur_head \in Slot /\ pushed \in BOOLEAN
           /\ cpc \in ConsumerPcs /\ attempt \in {"try", "first", "last"}
           /\ cur_tail \in Slot /\ popped \in Item \cup {NoItem}
           /\ expired \in BOOLEAN

\* The slots between tail_ and head_, which hold the queued elements.
Occupied == IF tail_ <= head_ THEN tail_ .. head_ - 1
                              ELSE (tail_ .. Capacity - 1) \cup (0 .. head_ - 1)

\* No data race on a slot: when the producer is about to write a slot, the
\* slot is outside the occupied ones, and so it is never the slot the
\* consumer is about to move from, although try_push and try_pop take no lock.
SlotExclusion == /\ ppc = "write" => cur_head \notin Occupied
                 /\ cpc = "take" => cur_tail \in Occupied
                 /\ ~(ppc = "write" /\ cpc = "take" /\ cur_head = cur_tail)

\* try_push publishes no slot before its element is in it, and try_pop frees
\* none before its element is out: every occupied slot holds an element,
\* except the one whose element the consumer has just moved out.
OccupiedFilled == \A s \in Occupied : \/ buffer_[s] # NoItem
                                      \/ cpc = "advance" /\ s = cur_tail

\* No lost wake-up: a consumer blocked in pop_wait while an element is queued
\* is one the producer has yet to notify.  The empty lock/unlock in try_push
\* exists for this.
NoLostWakeup == cpc = "sleep" /\ head_ # tail_
                   => ppc \in {"lock", "unlock", "notify"}

\* The try_pop that pop_wait makes after a successful wait never fails: with
\* one consumer nobody else can have taken the element.
WaitedPopSucceeds == cpc = "peek" /\ attempt = "last" => cur_tail # head_

\* Every element that was accepted is popped by a consumer that keeps calling
\* pop_wait, even if its timeout never expires.
EveryElementPopped == \A s \in Slot :
                         (tail_ = s /\ head_ # s) ~> (tail_ # s)

Count == IF tail_ <= head_ THEN head_ - tail_ ELSE Capacity - tail_ + head_
Contents == [i \in 1 .. Count |->
                IF i = 1 /\ cpc = "advance" THEN popped
                ELSE buffer_[(tail_ + i - 1) % Capacity]]

\* How far the two calls are, as their callers see it.
PPhase == CASE ppc = "idle" -> "idle"
            [] ppc \in {"check", "write", "publish"} -> "called"
            [] OTHER -> "done"
CPhase == CASE cpc = "idle" -> "idle"
            [] cpc = "return" -> "done"
            [] OTHER -> "called"
Result == IF cpc \in {"return", "idle"} THEN popped ELSE NoItem

(* try_push and try_pop/pop_wait behave as the operations of a FIFO that   *)
(* holds Capacity - 1 elements, each call taking effect at one instant.    *)
Fifo == INSTANCE BoundedFifo WITH
          Bound <- Capacity - 1, q <- Contents,
          pphase <- PPhase, parg <- item, pok <- pushed,
          cphase <- CPhase, cres <- Result

\* The ring buffer implements the bounded FIFO: no element is lost, duplicated
\* or reordered, and "full" and "empty" are reported only when true at some
\* instant of the call.
LinearizableFifo == Fifo!FSpec
=============================================================================
