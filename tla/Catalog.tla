------------------------------- MODULE Catalog -------------------------------
(***************************************************************************)
(* The catalogue: the category tree (categories.service.ts), the products  *)
(* filed in it (products.service.ts), and a client that pages through the  *)
(* product list by cursor while others change it.  listMovements of        *)
(* stock.service.ts and findAll of purchase-orders.service.ts cut their    *)
(* pages the same way.                                                     *)
(*                                                                         *)
(* A handler that writes first reads whether the rows it names exist.  The *)
(* write itself fails when one has gone since, on the foreign key or on    *)
(* the missing row, so check and write are one step here.                  *)
(***************************************************************************)
EXTENDS Integers, Sequences, FiniteSets, SequencesExt

CONSTANTS
    Categories, Products,   \* ids of rows
    NoCategory,             \* parentId or categoryId null
    Filters,                \* the listings that clients ask for
    Absent,                 \* no such row
    Limit,                  \* products per page
    MaxTime,                \* bound: instants of createdAt
    MaxRows                 \* bound: categories and products there are at a time

ASSUME NoRowIsNull == /\ {NoCategory, Absent} \cap Categories = {}
                      /\ Absent \notin Products /\ NoCategory # Absent
\* A table has finitely many rows, and so only so many ids that occur in it.
ASSUME TablesAreFinite == IsFiniteSet(Categories) /\ IsFiniteSet(Products)
\* query-product.dto.ts: a category or any, isActive given or not.
ASSUME FiltersAreQueries ==
    Filters \subseteq [cats : SUBSET (Categories \cup {NoCategory}),
                       active : SUBSET BOOLEAN]
ASSUME LimitIsPositive == Limit \in Nat \ {0}
ASSUME BoundsAreNat == MaxTime \in Nat \ {0} /\ MaxRows \in Nat

VARIABLES
    parent,     \* Category.parentId of each category, or Absent
    filed,      \* Product.categoryId of each product, or Absent
    active,     \* the products with isActive
    createdAt,  \* Product.createdAt, 0 before create
    walk        \* the client's walk through the pages of one listing

treeVars == <<parent>>
productVars == <<filed, active, createdAt>>
vars == <<parent, filed, active, createdAt, walk>>

Exists == {c \in Categories : parent[c] # Absent}
Listed == {p \in Products : filed[p] # Absent}

NoWalk == [phase |-> "none"]
\* cursor: the last product of the previous page; got: how often each product
\* was delivered.  Ghosts: throughout, the products that have matched since the
\* walk began; lost, a cursor no longer matched when the next page was asked for.
Walk == [phase : {"paging", "done"}, filter : Filters, cursor : Products \cup {Absent},
         got : [Products -> 0 .. 2], throughout : SUBSET Products, lost : BOOLEAN]

CatalogTypeOK ==
    /\ parent \in [Categories -> Categories \cup {NoCategory, Absent}]
    /\ \A c \in Exists : parent[c] \in Exists \cup {NoCategory}
    /\ filed \in [Products -> Categories \cup {NoCategory, Absent}]
    /\ \A p \in Listed : filed[p] \in Exists \cup {NoCategory}
    /\ active \subseteq Listed
    /\ createdAt \in [Products -> 0 .. MaxTime]
    /\ walk \in Walk \cup {NoWalk}

Init ==
    /\ parent = [c \in Categories |-> Absent]
    /\ filed = [p \in Products |-> Absent]
    /\ active = {}
    /\ createdAt = [p \in Products |-> 0]
    /\ walk = NoWalk

-----------------------------------------------------------------------------
(* The forest that findTree nests, from one query of all categories.       *)

Children(c) == {d \in Exists : parent[d] = c}
\* mutant: a category that was nested stays in the list of roots
RootsAll == Exists
Roots == {c \in Exists : parent[c] \notin Exists}

\* Levels(S)[n]: what hangs n levels below the categories in S.
Levels(S) ==
    LET level[n \in Nat] ==
            IF n = 0 THEN S ELSE UNION {Children(c) : c \in level[n - 1]}
    IN  level
\* No category is needed twice to hang one below another.
Nested == [n \in 0 .. Cardinality(Categories) |-> Levels(Roots)[n]]
Forest == UNION {Nested[n] : n \in DOMAIN Nested}

-----------------------------------------------------------------------------
(* Writes.                                                                 *)

\* The products a listing by filter f has, of products filed as in file.
Matching(f, file, on) ==
    {p \in Products : /\ file[p] \in f.cats
                      /\ (p \in on) \in f.active}

\* What a write does to the walk: to one under way nothing but the ghost; one
\* that is done is forgotten.
Watched ==
    walk' = IF walk.phase = "paging"
            THEN [walk EXCEPT !.throughout =
                     @ \cap Matching(walk.filter, filed', active')]
            ELSE NoWalk

Bounded == Cardinality(Exists) + Cardinality(Listed) < MaxRows

CreateCategory(c, under) ==
    /\ Bounded
    /\ parent[c] = Absent
    /\ parent' = [parent EXCEPT ![c] = under]
    /\ UNCHANGED productVars
    /\ Watched

\* Only the category itself is refused as its parent, not one below it.
UpdateCategory(c, under) ==
    /\ c \in Exists
    /\ under # c
    /\ parent' = [parent EXCEPT ![c] = under]
    /\ UNCHANGED productVars
    /\ Watched

\* mutant: onDelete Cascade in place of SetNull
RemoveCascading(c) ==
    /\ c \in Exists
    /\ parent' = [d \in Categories |-> IF d = c \/ parent[d] = c THEN Absent
                                       ELSE parent[d]]
    /\ filed' = [p \in Products |-> IF \E d \in Categories :
                                          parent'[d] = Absent /\ filed[p] = d
                                    THEN NoCategory ELSE filed[p]]
    /\ UNCHANGED <<active, createdAt>>
    /\ Watched

\* mutant: the children are detached, the products not
RemoveDangling(c) ==
    /\ c \in Exists
    /\ parent' = [d \in Categories |-> IF d = c THEN Absent
                                       ELSE IF parent[d] = c THEN NoCategory
                                       ELSE parent[d]]
    /\ UNCHANGED productVars
    /\ Watched

\* Neither relation to Category says onDelete: the database sets them to null.
RemoveCategory(c) ==
    /\ c \in Exists
    /\ parent' = [d \in Categories |-> IF d = c THEN Absent
                                       ELSE IF parent[d] = c THEN NoCategory
                                       ELSE parent[d]]
    /\ filed' = [p \in Products |-> IF filed[p] = c THEN NoCategory ELSE filed[p]]
    /\ UNCHANGED <<active, createdAt>>
    /\ Watched

\* createdAt is read before the insert commits, so products need not appear in
\* its order.
CreateProduct(p, c, t) ==
    /\ Bounded
    /\ filed[p] = Absent
    /\ filed' = [filed EXCEPT ![p] = c]
    /\ active' = active \cup {p}
    /\ createdAt' = [createdAt EXCEPT ![p] = t]
    /\ UNCHANGED treeVars
    /\ Watched

UpdateProduct(p, c) ==
    /\ p \in Listed
    /\ filed' = [filed EXCEPT ![p] = c]
    /\ UNCHANGED <<treeVars, active, createdAt>>
    /\ Watched

\* remove is a soft delete, and nothing sets isActive again.
RemoveProduct(p) ==
    /\ p \in Listed
    /\ active' = active \ {p}
    /\ UNCHANGED <<treeVars, filed, createdAt>>
    /\ Watched

-----------------------------------------------------------------------------
(* ProductsService.findAll, page after page.                               *)

\* orderBy createdAt desc: rows that share an instant come in any order.
Orders(S) ==
    {s \in SetToSeqs(S) :
        \A i, j \in DOMAIN s : i < j => createdAt[s[i]] >= createdAt[s[j]]}

First(s, n) == SubSeq(s, 1, IF n < Len(s) THEN n ELSE Len(s))

\* mutant: pages by offset, skip the products delivered so far
FetchedByOffset(order) ==
    LET n == Cardinality({p \in Products : walk.got[p] > 0})
    IN  First(SubSeq(order, n + 1, Len(order)), Limit + 1)

\* take limit + 1 of the rows that follow the cursor; without a row to start
\* from, when the cursor no longer matches, there are none.
Fetched(order) ==
    LET at == SelectInSeq(order, LAMBDA p : p = walk.cursor)
    IN  IF walk.cursor = Absent THEN First(order, Limit + 1)
        ELSE IF at = 0 THEN <<>>
        ELSE First(SubSeq(order, at + 1, Len(order)), Limit + 1)

buildCursorPage(rows) ==
    LET more == Len(rows) > Limit
        data == First(rows, Limit)
    IN  [data |-> data, hasMore |-> more,
         nextCursor |-> IF more THEN Last(data) ELSE Absent]

StartWalk(f) ==
    /\ walk.phase # "paging"
    /\ walk' = [phase |-> "paging", filter |-> f, cursor |-> Absent,
                got |-> [p \in Products |-> 0],
                throughout |-> Matching(f, filed, active), lost |-> FALSE]
    /\ UNCHANGED <<treeVars, productVars>>

NextPage ==
    /\ walk.phase = "paging"
    /\ LET found == Matching(walk.filter, filed, active)
       IN  \E order \in Orders(found) :
              LET page == buildCursorPage(Fetched(order))
              IN  walk' = [walk EXCEPT
                    !.phase = IF page.hasMore THEN "paging" ELSE "done",
                    !.cursor = page.nextCursor,
                    !.got = [p \in Products |->
                                IF Contains(page.data, p) /\ @[p] < 2
                                THEN @[p] + 1 ELSE @[p]],
                    !.lost = @ \/ walk.cursor \notin found \cup {Absent}]
    /\ UNCHANGED <<treeVars, productVars>>

CategoryStep(c) ==
    \/ \E under \in Exists \cup {NoCategory} :
          CreateCategory(c, under) \/ UpdateCategory(c, under)
    \/ RemoveCategory(c)

ProductStep(p) ==
    \/ \E c \in Exists \cup {NoCategory} :
          \/ \E t \in 1 .. MaxTime : CreateProduct(p, c, t)
          \/ UpdateProduct(p, c)
    \/ RemoveProduct(p)

Next ==
    \/ \E c \in Categories : CategoryStep(c)
    \/ \E p \in Products : ProductStep(p)
    \/ \E f \in Filters : StartWalk(f)
    \/ NextPage

Spec == Init /\ [][Next]_vars

-----------------------------------------------------------------------------
(* Properties.                                                             *)

\* The walk up from category c, along the parents there are.
Up(c) ==
    LET up[k \in Nat] == IF k = 0 THEN c
                         ELSE IF up[k - 1] \in Exists THEN parent[up[k - 1]]
                         ELSE Absent
    IN  up

\* The answer of findTree has a category exactly at the depth that the walk up
\* from it gives, and not at all when that walk does not end: one pass over the
\* rows nests every category once, whatever order they come in.
ForestIsRooted ==
    \A c \in Exists, n \in DOMAIN Nested :
        c \in Nested[n] <=> /\ \A k \in 1 .. n : Up(c)[k] \in Exists
                            /\ Up(c)[n + 1] = NoCategory

Below(c) == UNION {Levels({c})[n] : n \in 0 .. Cardinality(Categories)}

\* Nothing but a cycle hides a category: what disappears from the forest in one
\* call is a single category that was deleted, or all that hangs below one that
\* was moved below itself or below one that is hidden already.  Deleting never
\* takes subcategories with it.
HiddenOnlyByCycle ==
    [][LET gone == Forest \ Forest'
       IN  \/ gone = {}
           \/ \E c \in gone : gone = {c} /\ c \notin Exists'
           \/ \E c \in gone : /\ gone = Below(c)
                              /\ parent'[c] \in Below(c) \cup (Exists \ Forest)]_vars

\* Cursor pages show every product that matches from the first page to the last
\* exactly once, and none twice, while products are created, refiled and
\* deactivated: provided it shares its createdAt with no other product, and that
\* the product each page ended with still matches when the next one is asked for.
ListingComplete ==
    walk.phase # "none" =>
        \A p \in Products :
            (\A q \in Products \ {p} : createdAt[q] # createdAt[p]) =>
            /\ walk.got[p] <= 1
            /\ (walk.phase = "done" /\ ~walk.lost /\ p \in walk.throughout)
               => walk.got[p] = 1
=============================================================================
