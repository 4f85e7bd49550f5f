---------------------------- MODULE MCSpscQueue ----------------------------
(* A small instance of the ring buffer for TLC. *)
EXTENDS SpscQueue
=============================================================================
