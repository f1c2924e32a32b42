---------------------------- MODULE MCStockTakes ----------------------------
(* Model-checking definitions for StockTakes. *)
EXTENDS StockTakes, TLC

Symmetry == Permutations(Clients) \cup Permutations(Auditors)
            \cup Permutations(Takes) \cup Permutations(Warehouses)

\* A .cfg cannot write a negative number.
OneUnitLoss == {-1}
=============================================================================
