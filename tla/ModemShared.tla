---------------------------- MODULE ModemShared ----------------------------
(***************************************************************************)
(* What the two halves of the modem, src/main.cpp, have in common: the     *)
(* options that main() has read, the state of the radio, and the flag that *)
(* the signal handler clears.  A thread reads the flag, which changes once, *)
(* in one step with the call that follows, unless that call can block for  *)
(* ever.                                                                   *)
(***************************************************************************)
EXTENDS Naturals, SequencesExt

VARIABLES mode,       \* AppMode: "tx", "rx" or "txrx"
          use_udp,    \* the I/O layer: UDP, otherwise TCP
          radio,      \* B200Interface: "ok", "stub" (constructed, without streamers: its
                      \* calls throw) or "none" (its constructor throws)
          g_running

shared == <<mode, use_udp, radio, g_running>>

Mode == {"tx", "rx", "txrx"}
Transmits == mode \in {"tx", "txrx"}
Receives == mode \in {"rx", "txrx"}

\* Bounds are given for each mode and I/O layer.
Setting == Mode \X BOOLEAN
setting == <<mode, use_udp>>

SharedTypeOK ==
  /\ mode \in Mode /\ use_udp \in BOOLEAN /\ radio \in {"ok", "stub", "none"}
  /\ g_running \in BOOLEAN
=============================================================================
