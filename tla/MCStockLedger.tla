--------------------------- MODULE MCStockLedger ---------------------------
(* StockLedger on small sets of model values. *)
EXTENDS StockLedger, TLC

Symmetry == Permutations(Branch) \cup Permutations(Request)
=============================================================================
