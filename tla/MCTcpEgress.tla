---------------------------- MODULE MCTcpEgress ----------------------------
(* The egress with two clients, and frames of which one fits twice into the *)
(* buffer, or not at all beside another.                                    *)
EXTENDS TcpEgress
=============================================================================
