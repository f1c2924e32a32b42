--------------------------- MODULE MCStockService ---------------------------
(* Model-checking definitions for StockService. *)
EXTENDS StockService, TLC

\* Ids with no order and no CHOOSE over them are interchangeable.
Symmetry == Permutations(Clients) \cup Permutations(Reservations)
            \cup Permutations(Warehouses)
BatchSymmetry == Permutations(Clients) \cup Permutations(BatchNos)
\* A .cfg cannot write a negative number.
OneUnitLoss == {-1}
=============================================================================
