---------------------------- MODULE MCTcpIngress ---------------------------
(* Two descriptors, an empty block and one of a byte. *)
EXTENDS TcpIngress
MCBlock == {<<>>, <<1>>}
=============================================================================
