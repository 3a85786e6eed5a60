---------------------------------- MODULE MCNvM ----------------------------------
(* The instances of NvM that TLC checks. *)
EXTENDS NvM, TLC

CONSTANTS v1, v2

FirstBlock == {1}
FactoryImages == [b \in NvBlocks |-> v1]
=============================================================================
