------------------------ MODULE MCSupplierPerformance ------------------------
(* Model-checking definitions for SupplierPerformance. *)
EXTENDS SupplierPerformance, TLC

Symmetry == Permutations(Clerks) \cup Permutations(Items)
            \cup Permutations(Orders)
=============================================================================
