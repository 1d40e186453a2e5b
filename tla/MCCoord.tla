------------------------------ MODULE MCCoord ------------------------------
(***************************************************************************)
(* The coordinator with keys for two devices and room for two nodes, small *)
(* enough for TLC.                                                         *)
(***************************************************************************)
EXTENDS OpenCoordinator, TLC

CONSTANT direct

OneReport == {[endpoint |-> direct, via_relay |-> None]}

Renamings == Permutations(Identity) \cup Permutations(WgKey)
             \cup Permutations(NodeId) \cup Permutations(Token)
             \cup Permutations(Call)
=============================================================================
