--------------------------- MODULE MCEnrollment ----------------------------
(* Enrollment on small sets of model values. *)
EXTENDS Enrollment, TLC

Symmetry == Permutations(Request) \cup Permutations(Ingest)
=============================================================================
