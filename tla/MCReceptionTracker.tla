------------------------ MODULE MCReceptionTracker -------------------------
(* The reception tracker over a block of Limit bytes. *)
EXTENDS ReceptionTracker
=============================================================================
