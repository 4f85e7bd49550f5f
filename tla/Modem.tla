------------------------------- MODULE Modem -------------------------------
(***************************************************************************)
(* src/main.cpp: main() sets the radio and the I/O layer up, starts up to  *)
(* four threads, and joins them when a signal has cleared g_running.       *)
(***************************************************************************)
EXTENDS ModemInput, ModemOutput

VARIABLE main   \* where main() stands: "setup", "wait", "join" or "returned"

vars == <<shared, inputVars, outputVars, main>>

Init ==
  /\ mode \in Mode /\ use_udp \in BOOLEAN /\ radio \in {"ok", "stub", "none"}
  /\ g_running = TRUE /\ main = "setup"
  /\ InputInit /\ OutputInit

\* The I/O layer is started, the input first; when one cannot be, the other is
\* stopped and main() returns.
SetupFails ==
  /\ main = "setup" /\ main' = "returned"
  /\ UNCHANGED <<shared, inputVars, outputVars>>
Setup ==
  /\ main = "setup" /\ main' = "wait"
  /\ in_pc' = (IF Transmits THEN "top" ELSE "none")
  /\ tx_pc' = (IF Transmits /\ radio # "none" THEN "top" ELSE "none")
  /\ rx_pc' = (IF Receives /\ radio # "none" THEN "start" ELSE "none")
  /\ out_pc' = (IF Receives THEN "top" ELSE "none")
  /\ UNCHANGED <<shared, server, loop, input_to_tx, payload, handled, clients, taken, offered,
                 rx_buffer, samples_since_last_decode, air, batches, rx_to_output, clients_,
                 writing, got, joined, popped, client, upsets, late>>

signal_handler ==
  /\ g_running /\ g_running' = FALSE
  /\ UNCHANGED <<mode, use_udp, radio, inputVars, outputVars, main>>

\* main() sees the flag, joins the threads that there are, and closes everything.
Awake ==
  /\ main = "wait" /\ ~g_running /\ main' = "join"
  /\ UNCHANGED <<shared, inputVars, outputVars>>
Ended == {in_pc, tx_pc, rx_pc, out_pc} \subseteq {"none", "done"}
Return ==
  /\ main = "join" /\ Ended /\ main' = "returned"
  /\ client_fd_' = 0 /\ buffer_' = <<>> /\ clients_' = <<>>
  /\ UNCHANGED <<shared, loop, in_pc, input_to_tx, txThread, clients, taken, offered, rxThread,
                 rx_to_output, out_pc, writing, got, joined, popped, client, upsets, late>>

Main == SetupFails \/ Setup \/ Awake \/ Return
InputStep(action) == action /\ UNCHANGED <<outputVars, main>>
OutputStep(action) == action /\ UNCHANGED <<inputVars, main>>

Next ==
  \/ Main \/ signal_handler
  \/ InputStep(InputThread \/ TxThread \/ InputClients)
  \/ OutputStep(RxThread \/ OutputThread \/ OutputClients)

Spec == Init /\ [][Next]_vars

\* Threads go on unless a call blocks; that the radio ever answers send() or
\* recv() is not assumed.  A buffer that stays the same is found idle some
\* time, since 100 ms pass.
FairSpec ==
  /\ Spec
  /\ WF_vars(Main)
  /\ WF_vars(InputStep(InputThread)) /\ WF_vars(InputStep(TxEnd \/ TxPop))
  /\ WF_vars(OutputStep(RxStart \/ RxIdle \/ RxTop \/ RxDecode))
  /\ WF_vars(OutputStep(OutputThread))
  /\ SF_vars(InputStep(InFlushIdle))
-----------------------------------------------------------------------------
(* After a signal main() returns, unless recv() is parked on a client that    *)
(* took the place of another, send() on a client that does not read, or the   *)
(* radio does not answer.                                                     *)
ShutdownReturns ==
  \/ <>(main = "returned")
  \/ []g_running
  \/ <>[](InputParked \/ OutputParked \/ tx_pc = "send" \/ rx_pc = "recv")
=============================================================================
