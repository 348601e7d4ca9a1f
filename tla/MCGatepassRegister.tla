------------------------ MODULE MCGatepassRegister -------------------------
(* GatepassRegister on small sets of model values. *)
EXTENDS GatepassRegister, TLC

Symmetry == Permutations(Gatepass) \cup Permutations(Day) \cup Permutations(Clerk)
=============================================================================
