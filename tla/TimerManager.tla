---------------------------- MODULE TimerManager ---------------------------
(***************************************************************************)
(* src/ltp_cla/timer_manager.cpp: a heap of timers, served by one thread.  *)
(* Any thread starts and cancels timers; the owner runs and stops the      *)
(* timer thread.  What happens under one hold of mtx_ is one step, except  *)
(* that the timer thread keeps the mutex over several rounds of its loop   *)
(* (pc = "loop"), while the clock moves on.  Callbacks run without it.     *)
(***************************************************************************)
EXTENDS Naturals, Sequences

CONSTANTS Timeout,    \* the timeouts that start_timer is called with
          MaxTimers,  \* bound: timers started
          MaxTime     \* bound: the clock stops here

ASSUME TimeoutAssumption == Timeout \subseteq Nat
ASSUME BoundAssumption == MaxTimers \in Nat /\ MaxTime \in Nat

VARIABLES
  running_, next_id_,
  heap_,       \* set of entries [timer_id, expiry]
  cancelled_,  \* ids to be discarded when their entry is popped
  now,         \* steady_clock
  pc,          \* timer thread: "none", "lock", "loop", "wait", "timed", "callback", "done"
  deadline,    \* the argument of wait_until
  owner,       \* the owner's call of stop(): "idle", "notify", "join"
  fired,       \* history: the entries whose callback was called, in order
  revoked      \* history: ids that were in heap_ when they were cancelled

vars == <<running_, next_id_, heap_, cancelled_, now, pc, deadline, owner,
          fired, revoked>>

Ids(entries) == {t.timer_id : t \in entries}
Entry == [timer_id : 1 .. MaxTimers, expiry : 0 .. MaxTime]

Init == /\ running_ = FALSE /\ next_id_ = 0 /\ heap_ = {} /\ cancelled_ = {}
        /\ now = 0 /\ pc = "none" /\ deadline = 0 /\ owner = "idle"
        /\ fired = <<>> /\ revoked = {}
-----------------------------------------------------------------------------
(* Calls from other threads; each needs the mutex. *)

MutexFree == pc # "loop"

NotifiedIfIdle(p) == IF p = "wait" THEN "lock" ELSE p
\* A notification makes a thread that blocks on cv_ contend for the mutex.
Notified(p) == IF p \in {"wait", "timed"} THEN "lock" ELSE p

NewId == next_id_ + 1

start_timer(timeout) ==
  /\ MutexFree /\ next_id_ < MaxTimers /\ now + timeout <= MaxTime
  /\ next_id_' = next_id_ + 1
  /\ heap_' = heap_ \cup {[timer_id |-> NewId, expiry |-> now + timeout]}
  /\ pc' = Notified(pc)
  /\ UNCHANGED <<running_, cancelled_, now, deadline, owner, fired, revoked>>

\* The id is one that start_timer returned; its timer may be over by now.
cancel_timer(id) ==
  /\ MutexFree
  /\ cancelled_' = cancelled_ \cup {id}
  /\ revoked' = IF id \in Ids(heap_) THEN revoked \cup {id} ELSE revoked
  /\ pc' = Notified(pc)
  /\ UNCHANGED <<running_, next_id_, heap_, now, deadline, owner, fired>>

run ==
  /\ MutexFree /\ owner = "idle" /\ ~running_
  /\ running_' = TRUE /\ pc' = "lock"
  /\ UNCHANGED <<next_id_, heap_, cancelled_, now, deadline, owner, fired, revoked>>

\* stop() clears running_, notifies without the mutex and joins the thread.
stop ==
  /\ MutexFree /\ owner = "idle" /\ running_
  /\ running_' = FALSE /\ owner' = "notify"
  /\ UNCHANGED <<next_id_, heap_, cancelled_, now, pc, deadline, fired, revoked>>

StopUnheard ==
  /\ owner = "notify" /\ owner' = "join"
  /\ UNCHANGED <<running_, next_id_, heap_, cancelled_, now, pc, deadline, fired,
                 revoked>>
StopNotify ==
  /\ owner = "notify" /\ owner' = "join" /\ pc' = Notified(pc)
  /\ UNCHANGED <<running_, next_id_, heap_, cancelled_, now, deadline, fired,
                 revoked>>

StopJoin ==
  /\ owner = "join" /\ pc = "done"
  /\ owner' = "idle" /\ pc' = "none"
  /\ UNCHANGED <<running_, next_id_, heap_, cancelled_, now, deadline, fired,
                 revoked>>
-----------------------------------------------------------------------------
(* thread_func. *)

ThreadLock ==
  /\ pc = "lock" /\ pc' = "loop"
  /\ UNCHANGED <<running_, next_id_, heap_, cancelled_, now, deadline, owner,
                 fired, revoked>>

LoopExit ==
  /\ pc = "loop" /\ ~running_ /\ pc' = "done"
  /\ UNCHANGED <<running_, next_id_, heap_, cancelled_, now, deadline, owner,
                 fired, revoked>>

\* Nothing to serve: wait for a notification.  A wake-up that finds the
\* predicate false leads back here.
LoopIdle ==
  /\ pc = "loop" /\ running_ /\ heap_ = {} /\ pc' = "wait"
  /\ UNCHANGED <<running_, next_id_, heap_, cancelled_, now, deadline, owner,
                 fired, revoked>>

\* The entries that may be on top: those that expire first.
Tops == {t \in heap_ : \A u \in heap_ : t.expiry <= u.expiry}

\* The top has expired but was cancelled: discard it and keep the mutex.
LoopDiscard ==
  /\ pc = "loop" /\ running_
  /\ \E t \in Tops :
       /\ t.expiry <= now /\ t.timer_id \in cancelled_
       /\ heap_' = heap_ \ {t} /\ cancelled_' = cancelled_ \ {t.timer_id}
  /\ UNCHANGED <<running_, next_id_, now, pc, deadline, owner, fired, revoked>>

LoopFireUnchecked ==
  /\ pc = "loop" /\ running_
  /\ \E t \in Tops : /\ t.expiry <= now
                     /\ heap_' = heap_ \ {t} /\ fired' = Append(fired, t)
  /\ pc' = "callback"
  /\ UNCHANGED <<running_, next_id_, cancelled_, now, deadline, owner, revoked>>
\* The top has expired: pop it, release the mutex and call the callback.
LoopFire ==
  /\ pc = "loop" /\ running_
  /\ \E t \in Tops : /\ t.expiry <= now /\ t.timer_id \notin cancelled_
                     /\ heap_' = heap_ \ {t} /\ fired' = Append(fired, t)
  /\ pc' = "callback"
  /\ UNCHANGED <<running_, next_id_, cancelled_, now, deadline, owner, revoked>>

CallbackReturn ==
  /\ pc = "callback" /\ pc' = "lock"
  /\ UNCHANGED <<running_, next_id_, heap_, cancelled_, now, deadline, owner,
                 fired, revoked>>

LoopWaitUntimed ==
  /\ pc = "loop" /\ running_ /\ heap_ # {} /\ \A t \in Tops : t.expiry > now
  /\ pc' = "wait"
  /\ UNCHANGED <<running_, next_id_, heap_, cancelled_, now, deadline, owner,
                 fired, revoked>>
\* The top has not expired: wait until it does, or for a notification.
LoopWait ==
  /\ pc = "loop" /\ running_ /\ heap_ # {}
  /\ \A t \in Tops : t.expiry > now /\ deadline' = t.expiry
  /\ pc' = "timed"
  /\ UNCHANGED <<running_, next_id_, heap_, cancelled_, now, owner, fired,
                 revoked>>

ThreadStep == \/ ThreadLock \/ LoopExit \/ LoopIdle \/ LoopDiscard \/ LoopFire
              \/ CallbackReturn \/ LoopWait

\* wait_until times out.
WaitTimeout ==
  /\ pc = "timed" /\ deadline <= now /\ pc' = "lock"
  /\ UNCHANGED <<running_, next_id_, heap_, cancelled_, now, deadline, owner,
                 fired, revoked>>

\* Either wait may end for no reason.
SpuriousWakeup ==
  /\ pc \in {"wait", "timed"} /\ pc' = "lock"
  /\ UNCHANGED <<running_, next_id_, heap_, cancelled_, now, deadline, owner,
                 fired, revoked>>

Tick ==
  /\ now < MaxTime /\ now' = now + 1
  /\ UNCHANGED <<running_, next_id_, heap_, cancelled_, pc, deadline, owner,
                 fired, revoked>>

Next == \/ \E timeout \in Timeout : start_timer(timeout)
        \/ \E id \in 1 .. next_id_ : cancel_timer(id)
        \/ run \/ stop \/ StopNotify \/ StopJoin
        \/ ThreadStep \/ WaitTimeout \/ SpuriousWakeup \/ Tick

Spec == Init /\ [][Next]_vars

(* The thread and a call of stop() go on, callbacks return, the clock      *)
(* advances.  Nothing is assumed of spurious wake-ups or of the callers.   *)
Fairness == /\ WF_vars(ThreadStep) /\ WF_vars(WaitTimeout) /\ WF_vars(Tick)
            /\ WF_vars(StopNotify) /\ WF_vars(StopJoin)

FairSpec == Spec /\ Fairness
-----------------------------------------------------------------------------
(* Properties. *)

\* Every variable keeps its type; the entries' ids are those handed out.
TypeOK == /\ running_ \in BOOLEAN /\ next_id_ \in 0 .. MaxTimers
          /\ heap_ \subseteq Entry /\ cancelled_ \subseteq 1 .. next_id_
          /\ now \in 0 .. MaxTime /\ deadline \in 0 .. MaxTime
          /\ pc \in {"none", "lock", "loop", "wait", "timed", "callback", "done"}
          /\ owner \in {"idle", "notify", "join"}
          /\ fired \in Seq(Entry) /\ revoked \subseteq 1 .. next_id_

\* No timer fires twice, across cancels and restarts of the thread, and none
\* that fired is still in the heap.
FiredOnce == /\ \A i, j \in DOMAIN fired : fired[i].timer_id = fired[j].timer_id => i = j
             /\ \A i \in DOMAIN fired : fired[i].timer_id \notin Ids(heap_)

\* A timer that was still in the heap when cancel_timer returned never fires,
\* although it stays there until it expires and callbacks run unlocked.
CancelledNeverFires == \A i \in DOMAIN fired : fired[i].timer_id \notin revoked

\* Callbacks come in the order of expiry, even though timers are started while
\* others are overdue: start_timer adds none that expires before the clock.
FiresInExpiryOrder ==
  \A i, j \in DOMAIN fired : i < j => fired[i].expiry <= fired[j].expiry

\* No lost wake-up: a thread that waits without a deadline has no timer to
\* serve, one that waits for a deadline has none that expires before it, and a
\* waiting thread that is to stop is about to be notified.
NoOversleep == /\ pc = "wait" => heap_ = {}
               /\ pc = "timed" => \A t \in heap_ : deadline <= t.expiry
               /\ pc \in {"wait", "timed"} /\ ~running_ => owner = "notify"

\* Once stop() has returned no callback runs: main() stops the convergence layer
\* and lets go of the engine after it.
StoppedIsQuiet == owner = "idle" /\ ~running_ => pc = "none"

\* Callbacks are those that were asked for: each timer's at most once, in order,
\* none after its cancel, and none after stop().
FiresRightly ==
  TypeOK /\ FiredOnce /\ CancelledNeverFires /\ FiresInExpiryOrder /\ StoppedIsQuiet

\* Every timer is served (fired or discarded) while the thread keeps running.
EveryTimerServed ==
  \A id \in 1 .. MaxTimers : id \in Ids(heap_) ~> (id \notin Ids(heap_) \/ ~running_)

\* stop() returns: the thread notices, whatever it waits for.
StopReturns == owner # "idle" ~> owner = "idle"
=============================================================================
