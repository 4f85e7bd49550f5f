--------------------- MODULE MCConvergenceLayerAdapter ---------------------
(* Two-digit prefixes in base three, an empty message, and one of a byte    *)
(* whose value could be taken for a part of a prefix.                       *)
EXTENDS ConvergenceLayerAdapter
MCSegment == {<<>>, <<1>>}
=============================================================================
