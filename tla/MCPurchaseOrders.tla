-------------------------- MODULE MCPurchaseOrders --------------------------
(* Model-checking definitions for PurchaseOrders. *)
EXTENDS PurchaseOrders, TLC

Symmetry == Permutations(Clerks) \cup Permutations(Items)
            \cup Permutations(Orders)
=============================================================================
