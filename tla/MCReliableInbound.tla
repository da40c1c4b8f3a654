------------------------- MODULE MCReliableInbound -------------------------
(***************************************************************************)
(* Instances of ReliableInbound for TLC.                                   *)
(***************************************************************************)
EXTENDS ReliableInbound, TLC

CONSTANTS t1, t2

Symmetry == Permutations(Invocation)
=============================================================================
