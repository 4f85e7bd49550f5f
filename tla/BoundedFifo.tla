---------------------------- MODULE BoundedFifo ----------------------------
(***************************************************************************)
(* What a bounded single-producer single-consumer queue promises its two   *)
(* threads: each call takes effect at one instant between its invocation   *)
(* and its return, a push is refused only when Bound elements are queued,  *)
(* a pop reports "nothing" only when the queue is empty, and elements      *)
(* leave in the order in which they entered.                               *)
(***************************************************************************)
EXTENDS Naturals, Sequences

CONSTANTS Item,    \* the elements that can be queued
          NoItem,  \* the result of a pop that found nothing
          Bound    \* the number of elements that fit

VARIABLES q,       \* the queued elements, oldest first
          pphase,  \* producer: "idle", "called" or "done"
          parg,    \* the element the producer's call carries
          pok,     \* the value the producer's call returns
          cphase,  \* consumer: "idle", "called" or "done"
          cres     \* the element the consumer's call returns, or NoItem

fvars == <<q, pphase, parg, pok, cphase, cres>>

FInit == /\ q = <<>>
         /\ pphase = "idle" /\ parg = NoItem /\ pok = FALSE
         /\ cphase = "idle" /\ cres = NoItem

PushInvoke(x) == /\ pphase = "idle"
                 /\ pphase' = "called" /\ parg' = x
                 /\ UNCHANGED <<q, pok, cphase, cres>>

PushAccept == /\ pphase = "called" /\ Len(q) < Bound
              /\ q' = Append(q, parg)
              /\ pphase' = "done" /\ pok' = TRUE
              /\ UNCHANGED <<parg, cphase, cres>>

PushRefuse == /\ pphase = "called" /\ Len(q) = Bound
              /\ pphase' = "done" /\ pok' = FALSE
              /\ UNCHANGED <<q, parg, cphase, cres>>

PushReturn == /\ pphase = "done"
              /\ pphase' = "idle"
              /\ UNCHANGED <<q, parg, pok, cphase, cres>>

PopInvoke == /\ cphase = "idle"
             /\ cphase' = "called" /\ cres' = NoItem
             /\ UNCHANGED <<q, pphase, parg, pok>>

PopTakeOldest == /\ cphase = "called" /\ q # <<>>
                 /\ q' = Tail(q) /\ cres' = Head(q)
                 /\ cphase' = "done"
                 /\ UNCHANGED <<pphase, parg, pok>>

PopNothing == /\ cphase = "called" /\ q = <<>>
              /\ cres' = NoItem
              /\ cphase' = "done"
              /\ UNCHANGED <<q, pphase, parg, pok>>

PopReturn == /\ cphase = "done"
             /\ cphase' = "idle"
             /\ UNCHANGED <<q, pphase, parg, pok, cres>>

FNext == \/ \E x \in Item : PushInvoke(x)
         \/ PushAccept \/ PushRefuse \/ PushReturn
         \/ PopInvoke \/ PopTakeOldest \/ PopNothing \/ PopReturn

FSpec == FInit /\ [][FNext]_fvars
=============================================================================
