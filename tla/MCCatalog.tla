------------------------------ MODULE MCCatalog ------------------------------
(* Model-checking definitions for Catalog. *)
EXTENDS Catalog

Symmetry == Permutations(Categories) \cup Permutations(Products)
AnyCategory == Categories \cup {NoCategory}
\* What is active in one category, all that is active, everything.
SomeFilters == [cats : {{c} : c \in Categories} \cup {AnyCategory}, active : {{TRUE}}]
               \cup {[cats |-> AnyCategory, active |-> BOOLEAN]}
=============================================================================
