--------------------------- MODULE MCTimerManager --------------------------
(* A few timers of two lengths and a short clock. *)
EXTENDS TimerManager
=============================================================================
