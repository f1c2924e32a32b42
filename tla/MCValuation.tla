---------------------------- MODULE MCValuation ----------------------------
(* Model-checking definitions for Valuation. *)
EXTENDS Valuation, TLC

CONSTANT v1

\* One product of each method and of each category.
OneOfEach == [v \in Variants |-> IF v = v1 THEN Average ELSE FIFO]
OwnCategory == [v \in Variants |-> v]
\* Warehouses are interchangeable.
SomeReports ==
    {[scope |-> Warehouses, categories |-> Categories, methods |-> MethodOf]}
    \cup {[scope |-> {w}, categories |-> {v1}, methods |-> [v \in Variants |-> FIFO]] :
             w \in Warehouses}
\* All; up to a date that can fall between the rows of a transfer; one type; and
\* one warehouse and variant from a date on.
All == [scope |-> Warehouses, variants |-> Variants, types |-> Types, from |-> 0, to |-> Open]
SomeSummaries ==
    {All, [All EXCEPT !.to = 2], [All EXCEPT !.types = {"TRANSFER_OUT"}]}
    \cup {[All EXCEPT !.scope = {w}, !.variants = {v1}, !.from = 2] : w \in Warehouses}
Symmetry == Permutations(Warehouses)
\* A .cfg cannot write a negative number.
OneUnit == {-1}
=============================================================================
