---------------------------- MODULE MCChatRoster ---------------------------
(* ChatRoster on small sets of model values. *)
EXTENDS ChatRoster, TLC

Symmetry == Permutations(IT) \cup Permutations(Customer) \cup Permutations(Actor)
=============================================================================
