---------------------------- MODULE CatalogProofs ----------------------------
(***************************************************************************)
(* What holds of the catalogue however many categories and products there  *)
(* are: the forest is the least set with the roots and the children of its *)
(* members, and that carries both properties of findTree; what a walk by   *)
(* cursor has delivered is what comes before the cursor in the listing.    *)
(***************************************************************************)
EXTENDS Catalog, DataLemmas, FunctionTheorems, SequenceTheorems, TLAPS

-----------------------------------------------------------------------------
(* Levels: what hangs below a set of categories, one level after another.  *)

\* Levels is defined by its recursion.
LEMMA LevelsStep ==
  ASSUME NEW S \in SUBSET Exists
  PROVE  /\ Levels(S) \in [Nat -> SUBSET Exists]
         /\ Levels(S)[0] = S
         /\ \A n \in Nat :
               Levels(S)[n + 1] = UNION {Children(c) : c \in Levels(S)[n]}
<1>. DEFINE K == [X \in SUBSET Exists |-> UNION {Children(c) : c \in X}]
            Def(h) == h = [n \in Nat |-> IF n = 0 THEN S
                             ELSE UNION {Children(c) : c \in h[n - 1]}]
            g == CHOOSE h : Def(h)
<1>1. K \in [SUBSET Exists -> SUBSET Exists]
  BY DEF Children
<1>2. PICK h \in [Nat -> SUBSET Exists] :
         h[0] = S /\ \A n \in Nat : h[n + 1] = K[h[n]]
  <2>. DEFINE D == SUBSET Exists
  <2>1. S \in D /\ K \in [D -> D]
    BY <1>1
  <2>. HIDE DEF K, D
  <2>2. \E h \in [Nat -> D] : h[0] = S /\ \A n \in Nat : h[n + 1] = K[h[n]]
    BY <2>1, IterationExists
  <2>. QED  BY <2>2 DEF D
<1>3. Def(h)
  <2>1. ASSUME NEW n \in Nat, n # 0
        PROVE  h[n] = UNION {Children(c) : c \in h[n - 1]}
    <3>1. n - 1 \in Nat /\ (n - 1) + 1 = n
      BY <2>1
    <3>2. h[n] = K[h[n - 1]]
      BY <1>2, <3>1
    <3>. QED  BY <3>1, <3>2
  <2>. QED  BY <1>2, <2>1
<1>4. Def(g)
  <2>. HIDE DEF Def
  <2>. QED  BY Zenon, <1>3
<1>5. Levels(S) = g
  BY Zenon DEF Levels
<1>. HIDE DEF g, K
<1>6. g[0] = S
  BY <1>4
<1>7. ASSUME NEW n \in Nat
      PROVE  g[n + 1] = UNION {Children(c) : c \in g[n]}
  <2>1. n + 1 \in Nat /\ n + 1 # 0 /\ (n + 1) - 1 = n
    OBVIOUS
  <2>. QED  BY <1>4, <2>1
<1>8. \A n \in Nat : g[n] \in SUBSET Exists
  <2>. DEFINE T == {n \in Nat : g[n] \in SUBSET Exists}
  <2>1. 0 \in T
    BY <1>6
  <2>2. ASSUME NEW n \in T PROVE n + 1 \in T
    BY <1>7 DEF Children
  <2>3. T \in SUBSET Nat
    OBVIOUS
  <2>. HIDE DEF T
  <2>4. T = Nat
    BY <2>1, <2>2, <2>3, AllNumbers
  <2>. QED  BY <2>4 DEF T
<1>9. g \in [Nat -> SUBSET Exists]
  <2>1. g = [n \in Nat |-> g[n]]
    BY <1>4
  <2>. QED  BY <1>8, <2>1
<1>. QED  BY <1>5, <1>6, <1>7, <1>9

\* All that hangs below S, and S itself, within a number of levels.
Within(S, n) == UNION {Levels(S)[i] : i \in 0 .. n}
Hanging(S) == Within(S, Cardinality(Categories))
Closed(X) == \A c \in X : Children(c) \subseteq X

LEMMA WithinStep ==
  ASSUME NEW S \in SUBSET Exists, NEW n \in Nat
  PROVE  /\ Within(S, n) \subseteq Within(S, n + 1)
         /\ Within(S, n + 1) \subseteq Exists
         /\ Within(S, n + 1) = S \cup UNION {Children(c) : c \in Within(S, n)}
<1>. DEFINE L == Levels(S)
<1>1. /\ \A i \in Nat : L[i] \in SUBSET Exists
      /\ L[0] = S
      /\ \A i \in Nat : L[i + 1] = UNION {Children(c) : c \in L[i]}
  BY LevelsStep
<1>. HIDE DEF L
<1>2. Within(S, n) = UNION {L[i] : i \in 0 .. n}
      /\ Within(S, n + 1) = UNION {L[i] : i \in 0 .. (n + 1)}
  BY DEF Within, L
<1>3. ASSUME NEW i \in 0 .. (n + 1), NEW d \in L[i]
      PROVE  d \in S \cup UNION {Children(c) : c \in Within(S, n)}
  <2>1. CASE i = 0
    BY <1>1, <1>3, <2>1
  <2>2. CASE i # 0
    <3>1. i - 1 \in 0 .. n /\ i - 1 \in Nat /\ (i - 1) + 1 = i
      BY <2>2
    <3>2. L[i] = UNION {Children(c) : c \in L[i - 1]}
      BY <1>1, <3>1
    <3>. QED  BY <1>2, <1>3, <3>1, <3>2
  <2>. QED  BY <2>1, <2>2
<1>4. ASSUME NEW i \in 0 .. n, NEW c \in L[i]
      PROVE  Children(c) \subseteq Within(S, n + 1)
  <2>1. i + 1 \in 0 .. (n + 1) /\ i \in Nat
    OBVIOUS
  <2>2. Children(c) \subseteq L[i + 1]
    BY <1>1, <1>4, <2>1
  <2>. QED  BY <1>2, <2>1, <2>2
<1>5. S \subseteq Within(S, n + 1)
  <2>1. 0 \in 0 .. (n + 1)
    OBVIOUS
  <2>. QED  BY <1>1, <1>2, <2>1
<1>6. Within(S, n) \subseteq Within(S, n + 1)
  BY <1>2
<1>7. Within(S, n + 1) \subseteq Exists
  BY <1>1, <1>2
<1>8. ASSUME NEW d \in Within(S, n + 1)
      PROVE  d \in S \cup UNION {Children(c) : c \in Within(S, n)}
  <2>1. PICK i \in 0 .. (n + 1) : d \in L[i]
    BY <1>2, <1>8
  <2>. QED  BY <1>3, <2>1
<1>9. ASSUME NEW c \in Within(S, n)
      PROVE  Children(c) \subseteq Within(S, n + 1)
  <2>1. PICK i \in 0 .. n : c \in L[i]
    BY <1>2, <1>9
  <2>. QED  BY <1>4, <2>1
<1>. QED  BY <1>5, <1>6, <1>7, <1>8, <1>9

LEMMA WithinZero ==
  ASSUME NEW S \in SUBSET Exists
  PROVE  Within(S, 0) = S
<1>1. 0 .. 0 = {0}
  OBVIOUS
<1>. QED  BY <1>1, LevelsStep DEF Within

\* A set that has S and is closed has all that hangs below S.
LEMMA WithinLeast ==
  ASSUME NEW S \in SUBSET Exists, NEW X, S \subseteq X, Closed(X)
  PROVE  \A n \in Nat : Within(S, n) \subseteq X
<1>. DEFINE T == {n \in Nat : Within(S, n) \subseteq X}
<1>1. 0 \in T
  BY WithinZero
<1>2. ASSUME NEW n \in T PROVE n + 1 \in T
  <2>1. Within(S, n + 1) = S \cup UNION {Children(c) : c \in Within(S, n)}
    BY WithinStep
  <2>. QED  BY <2>1 DEF Closed
<1>3. T \in SUBSET Nat
  OBVIOUS
<1>. HIDE DEF T
<1>4. T = Nat
  BY <1>1, <1>2, <1>3, AllNumbers
<1>. QED  BY <1>4 DEF T

\* Each level adds a category, or none of the later ones does: after as many
\* levels as there are categories nothing is missing.
LEMMA HangingClosed ==
  ASSUME NEW S \in SUBSET Exists
  PROVE  Closed(Hanging(S))
<1>. DEFINE W(n) == Within(S, n)
            T == {n \in Nat : \/ Cardinality(W(n)) >= n
                              \/ \E m \in 0 .. n : Closed(W(m))}
            N == Cardinality(Categories)
<1>1. IsFiniteSet(Categories) /\ N \in Nat
  BY TablesAreFinite, FS_CardinalityType
<1>2. \A n \in Nat : W(n) \subseteq Categories /\ S \subseteq W(n)
  <2>1. \A n \in Nat : W(n) \subseteq W(n + 1) /\ W(n + 1) \subseteq Exists
                    /\ S \subseteq W(n + 1)
    BY WithinStep
  <2>2. W(0) = S
    BY WithinZero
  <2>3. \A n \in Nat : S \subseteq W(n)
    <3>1. \A n \in Nat : n = 0 \/ (n - 1 \in Nat /\ (n - 1) + 1 = n)
      OBVIOUS
    <3>. HIDE DEF W
    <3>. QED  BY <2>1, <2>2, <3>1
  <2>. HIDE DEF W
  <2>. QED  BY <2>1, <2>3 DEF Exists
<1>3. \A n \in Nat : IsFiniteSet(W(n)) /\ Cardinality(W(n)) \in Nat
                   /\ Cardinality(W(n)) <= N
                   /\ (Cardinality(W(n)) = N => W(n) = Categories)
  <2>. HIDE DEF W
  <2>. QED  BY <1>1, <1>2, FS_Subset, FS_CardinalityType
<1>4. 0 \in T
  BY <1>3
<1>5. ASSUME NEW n \in T PROVE n + 1 \in T
  <2>1. CASE \E m \in 0 .. n : Closed(W(m))
    BY <2>1
  <2>2. CASE ~ Closed(W(n)) /\ Cardinality(W(n)) >= n
    <3>1. W(n + 1) = S \cup UNION {Children(c) : c \in W(n)} /\ W(n) \subseteq W(n + 1)
      BY WithinStep
    <3>2. W(n) # W(n + 1)
      BY <2>2, <3>1 DEF Closed
    <3>. HIDE DEF W
    <3>3. n + 1 \in Nat
      OBVIOUS
    <3>4. IsFiniteSet(W(n + 1)) /\ W(n) \in SUBSET W(n + 1)
      BY <1>3, <3>1, <3>3
    <3>5. Cardinality(W(n)) <= Cardinality(W(n + 1))
          /\ Cardinality(W(n)) # Cardinality(W(n + 1))
      BY <3>2, <3>4, FS_Subset
    <3>6. Cardinality(W(n)) \in Nat /\ Cardinality(W(n + 1)) \in Nat
      BY <1>3, <3>3
    <3>. QED  BY <2>2, <3>5, <3>6
  <2>. QED  BY <2>1, <2>2
<1>6. T = Nat
  <2>1. T \in SUBSET Nat
    OBVIOUS
  <2>. HIDE DEF T
  <2>. QED  BY <1>4, <1>5, <2>1, AllNumbers
<1>7. Hanging(S) = W(N)
  BY DEF Hanging
<1>8. N \in T
  BY <1>1, <1>6
<1>9. CASE Cardinality(W(N)) >= N
  <2>1. W(N) = Categories
    <3>. HIDE DEF W
    <3>. QED  BY <1>1, <1>3, <1>9
  <2>. QED  BY <1>7, <2>1 DEF Closed, Children, Exists
<1>10. CASE \E m \in 0 .. N : Closed(W(m))
  <2>1. PICK m \in 0 .. N : Closed(W(m))
    BY <1>10
  <2>2. m \in Nat
    BY <1>1
  <2>3. W(N) \subseteq W(m)
    <3>1. S \subseteq W(m)
      BY <1>2, <2>2
    <3>. DEFINE X == W(m)
    <3>2. S \subseteq X /\ Closed(X)
      BY <2>1, <3>1
    <3>. HIDE DEF X
    <3>3. \A n \in Nat : Within(S, n) \subseteq X
      BY <3>2, WithinLeast
    <3>. QED  BY <1>1, <3>3 DEF X
  <2>4. W(m) \subseteq W(N)
    <3>1. 0 .. m \subseteq 0 .. N
      BY <1>1, <2>2
    <3>. QED  BY <3>1 DEF Within
  <2>5. W(m) = W(N)
    BY <2>3, <2>4
  <2>. QED  BY <1>7, <2>1, <2>5
<1>. QED  BY <1>8, <1>9, <1>10
LEMMA HangingIsBelow ==
  ASSUME NEW S \in SUBSET Exists
  PROVE  /\ S \subseteq Hanging(S) /\ Hanging(S) \subseteq Exists
         /\ \A d \in Exists : parent[d] \in Hanging(S) => d \in Hanging(S)
         /\ \A d \in Hanging(S) : d \in S \/ parent[d] \in Hanging(S)
<1>. DEFINE N == Cardinality(Categories)
<1>1. N \in Nat
  BY TablesAreFinite, FS_CardinalityType
<1>2. CASE N = 0
  <2>1. Hanging(S) = S
    BY <1>2, WithinZero DEF Hanging
  <2>. QED  BY <2>1, HangingClosed DEF Closed, Children, Exists
<1>3. CASE N # 0
  <2>. DEFINE m == N - 1
  <2>1. m \in Nat /\ m + 1 = N
    BY <1>1, <1>3
  <2>. HIDE DEF m
  <2>2. /\ Within(S, m) \subseteq Within(S, m + 1)
        /\ Within(S, m + 1) \subseteq Exists
        /\ Within(S, m + 1) = S \cup UNION {Children(c) : c \in Within(S, m)}
    BY <2>1, WithinStep
  <2>3. Hanging(S) = Within(S, m + 1)
    BY <2>1 DEF Hanging
  <2>. QED  BY <2>2, <2>3, HangingClosed DEF Closed, Children
<1>. QED  BY <1>2, <1>3

LEMMA HangingIsLeast ==
  ASSUME NEW S \in SUBSET Exists, NEW X, S \subseteq X,
         \A d \in Exists : parent[d] \in X => d \in X
  PROVE  Hanging(S) \subseteq X
<1>1. Closed(X)
  BY DEF Closed, Children
<1>2. Cardinality(Categories) \in Nat
  BY TablesAreFinite, FS_CardinalityType
<1>. QED  BY <1>1, <1>2, WithinLeast DEF Hanging

LEMMA ForestHangs == Forest = Hanging(Roots) /\ Roots \in SUBSET Exists
  BY DEF Forest, Nested, Hanging, Within, Roots

LEMMA BelowHangs == \A c : Below(c) = Hanging({c})
  BY DEF Below, Hanging, Within

\* The forest: the roots, and whatever has a parent in it.
InForest ==
    /\ Forest \subseteq Exists
    /\ \A d \in Exists : parent[d] \in Forest \cup {NoCategory} => d \in Forest
    /\ \A d \in Forest : parent[d] \in Forest \cup {NoCategory}

LEMMA ForestIs == CatalogTypeOK => InForest
<1>. SUFFICES ASSUME CatalogTypeOK PROVE InForest
  OBVIOUS
<1>1. \A d \in Exists : d \in Roots <=> parent[d] = NoCategory
  BY NoRowIsNull DEF CatalogTypeOK, Roots, Exists
<1>2. /\ Roots \subseteq Forest /\ Forest \subseteq Exists
      /\ \A d \in Exists : parent[d] \in Forest => d \in Forest
      /\ \A d \in Forest : d \in Roots \/ parent[d] \in Forest
  BY ForestHangs, HangingIsBelow
<1>. QED  BY <1>1, <1>2 DEF InForest

LEMMA ForestIsLeast ==
  ASSUME NEW X, CatalogTypeOK,
         \A d \in Exists : parent[d] \in X \cup {NoCategory} => d \in X
  PROVE  Forest \subseteq X
<1>1. Roots \subseteq X
  BY NoRowIsNull DEF CatalogTypeOK, Roots, Exists
<1>. QED  BY <1>1, ForestHangs, HangingIsLeast

LEMMA BelowIs ==
  ASSUME NEW c \in Exists
  PROVE  /\ c \in Below(c) /\ Below(c) \subseteq Exists
         /\ \A d \in Exists : parent[d] \in Below(c) => d \in Below(c)
<1>. DEFINE S == {c}
<1>1. S \in SUBSET Exists /\ c \in S /\ Below(c) = Hanging(S)
  BY BelowHangs
<1>. HIDE DEF S
<1>. QED  BY <1>1, HangingIsBelow

LEMMA BelowIsLeast ==
  ASSUME NEW c \in Exists, NEW X, c \in X,
         \A d \in Exists : parent[d] \in X => d \in X
  PROVE  Below(c) \subseteq X
<1>. DEFINE S == {c}
<1>1. S \in SUBSET Exists /\ S \subseteq X /\ Below(c) = Hanging(S)
  BY BelowHangs
<1>. HIDE DEF S
<1>. QED  BY <1>1, HangingIsLeast

-----------------------------------------------------------------------------
(* HiddenOnlyByCycle.                                                      *)

LEMMA CreateHidesNone ==
  ASSUME CatalogTypeOK, InForest, InForest', NEW c \in Categories,
         NEW under \in Exists \cup {NoCategory}, CreateCategory(c, under)
  PROVE  Forest \subseteq Forest'
<1>. DEFINE X == Forest'
<1>1. /\ c \notin Exists /\ \A d \in Exists : parent'[d] = parent[d] /\ d \in Exists'
  BY DEF CreateCategory, Exists, CatalogTypeOK
<1>2. \A d \in Exists : parent[d] \in X \cup {NoCategory} => d \in X
  BY <1>1 DEF InForest
<1>. HIDE DEF X
<1>3. Forest \subseteq X
  BY <1>2, ForestIsLeast
<1>. QED  BY <1>3 DEF X

LEMMA RemoveHidesOne ==
  ASSUME CatalogTypeOK, InForest, InForest', NEW c \in Categories, RemoveCategory(c)
  PROVE  Forest \subseteq Forest' \cup {c} /\ c \notin Exists'
<1>. DEFINE X == Forest' \cup {c}
<1>1. \A d \in Exists \ {c} :
         /\ d \in Exists'
         /\ parent'[d] = IF parent[d] = c THEN NoCategory ELSE parent[d]
  BY NoRowIsNull DEF RemoveCategory, Exists, CatalogTypeOK
<1>2. \A d \in Exists : parent[d] \in X \cup {NoCategory} => d \in X
  BY <1>1 DEF InForest
<1>3. c \notin Exists'
  BY DEF RemoveCategory, Exists, CatalogTypeOK
<1>. HIDE DEF X
<1>4. Forest \subseteq X
  BY <1>2, ForestIsLeast
<1>. QED  BY <1>3, <1>4 DEF X

\* A move hides all that hangs below the moved category, or nothing.
LEMMA UpdateHidesBelow ==
  ASSUME CatalogTypeOK, InForest, InForest', NEW c \in Categories,
         NEW under \in Exists \cup {NoCategory}, UpdateCategory(c, under),
         Forest \ Forest' # {}
  PROVE  /\ c \in Forest \ Forest' /\ Forest \ Forest' = Below(c)
         /\ parent'[c] \in Below(c) \cup (Exists \ Forest)
<1>. DEFINE B == Below(c)
            F == Forest
            G == Forest'
<1>1. /\ c \in Exists /\ parent'[c] = under
      /\ Exists' = Exists
      /\ \A d \in Exists \ {c} : parent'[d] = parent[d]
  BY NoRowIsNull DEF UpdateCategory, Exists, CatalogTypeOK
<1>2. /\ F \subseteq Exists
      /\ \A d \in Exists : parent[d] \in F \cup {NoCategory} => d \in F
      /\ \A d \in F : parent[d] \in F \cup {NoCategory}
  BY DEF InForest
<1>3. /\ G \subseteq Exists
      /\ \A d \in Exists : parent'[d] \in G \cup {NoCategory} => d \in G
      /\ \A d \in G : parent'[d] \in G \cup {NoCategory}
  BY <1>1 DEF InForest
<1>4. /\ c \in B /\ B \subseteq Exists
      /\ \A d \in Exists : parent[d] \in B => d \in B
  BY <1>1, BelowIs
<1>5. NoCategory \notin Exists /\ \A d \in Exists : parent[d] \in Exists \cup {NoCategory}
  BY NoRowIsNull DEF CatalogTypeOK, Exists
<1>. HIDE DEF F, G, B
<1>6. F \subseteq G \cup B
  <2>. DEFINE X == G \cup B
  <2>1. \A d \in Exists : parent[d] \in X \cup {NoCategory} => d \in X
    BY <1>1, <1>3, <1>4
  <2>. HIDE DEF X
  <2>2. Forest \subseteq X
    BY <2>1, ForestIsLeast
  <2>. QED  BY <2>2 DEF X, F
<1>7. F \ G # {}
  BY DEF F, G
<1>8. c \in F
  <2>. SUFFICES ASSUME c \notin F PROVE FALSE
    OBVIOUS
  <2>. DEFINE X == Exists \ F
  <2>1. c \in X /\ \A d \in Exists : parent[d] \in X => d \in X
    BY <1>1, <1>2, <1>5
  <2>. HIDE DEF X
  <2>2. Below(c) \subseteq X
    BY <1>1, <2>1, BelowIsLeast
  <2>. QED  BY <1>6, <1>7, <2>2 DEF X, B
<1>9. B \subseteq F
  <2>1. Below(c) \subseteq F
    BY <1>1, <1>2, <1>8, BelowIsLeast
  <2>. QED  BY <2>1 DEF B
<1>10. c \notin G
  <2>. SUFFICES ASSUME c \in G PROVE FALSE
    OBVIOUS
  <2>1. \A d \in Exists : parent[d] \in G => d \in G
    BY <1>1, <1>3
  <2>2. Below(c) \subseteq G
    BY <1>1, <2>1, BelowIsLeast
  <2>. QED  BY <1>6, <1>7, <2>2 DEF B
<1>11. B \cap G = {}
  <2>. DEFINE X == Exists \ G
  <2>1. c \in X /\ \A d \in Exists : parent[d] \in X => d \in X
    BY <1>1, <1>3, <1>5, <1>10
  <2>. HIDE DEF X
  <2>2. Below(c) \subseteq X
    BY <1>1, <2>1, BelowIsLeast
  <2>. QED  BY <2>2 DEF X, B
<1>12. F \ G = B
  BY <1>6, <1>9, <1>11
<1>13. under \in B \cup (Exists \ F)
  <2>1. under # NoCategory
    BY <1>1, <1>3, <1>10
  <2>2. under \in F => under \in B
    BY <1>1, <1>3, <1>10, <1>12
  <2>. QED  BY <2>1, <2>2
<1>. QED  BY <1>1, <1>8, <1>10, <1>12, <1>13 DEF F, G, B
-----------------------------------------------------------------------------
(* The pages.                                                              *)

\* A listing has each product found once, the latest first.
LEMMA OrderIs ==
  ASSUME NEW S \in SUBSET Products, NEW order \in Orders(S)
  PROVE  /\ order \in Seq(S) /\ order \in [1 .. Len(order) -> S]
         /\ \A i, j \in 1 .. Len(order) : order[i] = order[j] => i = j
         /\ \A p \in S : \E i \in 1 .. Len(order) : order[i] = p
         /\ \A i, j \in 1 .. Len(order) :
               i < j => createdAt[order[i]] >= createdAt[order[j]]
<1>. DEFINE N == Cardinality(S)
            D == 1 .. N
<1>1. IsFiniteSet(S) /\ N \in Nat
  BY TablesAreFinite, FS_Subset, FS_CardinalityType
<1>2. order \in [D -> S] /\ \A i, j \in D : i # j => order[i] # order[j]
  BY DEF Orders, SetToSeqs
<1>3. \A i, j \in D : i < j => createdAt[order[i]] >= createdAt[order[j]]
  BY <1>2 DEF Orders
<1>4. order \in Seq(S) /\ Len(order) = N
  BY <1>1, <1>2, SeqDef
<1>5. order \in Injection(D, S)
  BY <1>2 DEF Injection, IsInjective
<1>6. Cardinality(D) = N
  <2>1. 1 \in Int /\ N \in Int
    BY <1>1
  <2>. HIDE DEF N
  <2>2. Cardinality(1 .. N) = IF 1 > N THEN 0 ELSE N - 1 + 1
    BY <2>1, FS_Interval
  <2>. QED  BY <1>1, <2>2
<1>7. order \in Surjection(D, S)
  <2>. HIDE DEF D, N
  <2>. QED  BY <1>1, <1>5, <1>6, FS_Injection DEF N
<1>8. \A p \in S : \E i \in D : order[i] = p
  BY <1>7 DEF Surjection
<1>. QED  BY <1>2, <1>3, <1>4, <1>8

LEMMA SubSeqIs ==
  ASSUME NEW S, NEW s \in Seq(S), NEW m \in Nat, NEW n \in Nat, n <= Len(s), m <= n
  PROVE  /\ SubSeq(s, m + 1, n) \in Seq(S)
         /\ Len(SubSeq(s, m + 1, n)) = n - m
         /\ \A i \in 1 .. (n - m) : SubSeq(s, m + 1, n)[i] = s[m + i]
<1>1. s \in [1 .. Len(s) -> S] /\ Len(s) \in Nat
  BY LenProperties
<1>2. m + 1 \in Int /\ n \in Int /\ \A i \in (m + 1) .. n : s[i] \in S
  BY <1>1
<1>. DEFINE k == m + 1
<1>3. k \in Int /\ \A i \in k .. n : s[i] \in S
  BY <1>2
<1>. HIDE DEF k
<1>4. /\ SubSeq(s, k, n) \in Seq(S)
      /\ Len(SubSeq(s, k, n)) = IF k <= n THEN n - k + 1 ELSE 0
      /\ \A i \in 1 .. (n - k + 1) : SubSeq(s, k, n)[i] = s[k + i - 1]
  BY <1>2, <1>3, SubSeqProperties
<1>5. k <= n \/ n = m
  BY DEF k
<1>6. n - k + 1 = n - m
  BY DEF k
<1>7. \A i \in 1 .. (n - m) : k + i - 1 = m + i
  BY DEF k
<1>8. Len(SubSeq(s, k, n)) = n - m
  BY <1>4, <1>5, <1>6 DEF k
<1>. QED  BY <1>4, <1>6, <1>7, <1>8 DEF k

LEMMA FirstIs ==
  ASSUME NEW S, NEW s \in Seq(S), NEW n \in Nat
  PROVE  /\ First(s, n) \in Seq(S)
         /\ Len(First(s, n)) = IF n < Len(s) THEN n ELSE Len(s)
         /\ \A i \in 1 .. Len(First(s, n)) : First(s, n)[i] = s[i]
<1>. DEFINE m == IF n < Len(s) THEN n ELSE Len(s)
<1>1. m \in Nat /\ m <= Len(s) /\ 0 \in Nat /\ 0 <= m
  BY LenProperties
<1>2. First(s, n) = SubSeq(s, 0 + 1, m)
  BY DEF First
<1>. HIDE DEF m
<1>3. /\ SubSeq(s, 0 + 1, m) \in Seq(S)
      /\ Len(SubSeq(s, 0 + 1, m)) = m - 0
      /\ \A i \in 1 .. (m - 0) : SubSeq(s, 0 + 1, m)[i] = s[0 + i]
  <2>. DEFINE z == 0
  <2>1. z \in Nat /\ z <= m
    BY <1>1
  <2>. HIDE DEF z
  <2>2. /\ SubSeq(s, z + 1, m) \in Seq(S)
        /\ Len(SubSeq(s, z + 1, m)) = m - z
        /\ \A i \in 1 .. (m - z) : SubSeq(s, z + 1, m)[i] = s[z + i]
    BY <1>1, <2>1, SubSeqIs
  <2>. QED  BY <2>2 DEF z
<1>4. m - 0 = m /\ \A i \in 1 .. m : 0 + i = i
  BY <1>1
<1>. QED  BY <1>1, <1>2, <1>3, <1>4 DEF m

\* Where a page starts in the listing: after the product of the cursor, at its
\* start without a cursor, and at its end when the cursor no longer matches.
StartsAfter(order, from) ==
    /\ from \in 0 .. Len(order)
    /\ walk.cursor = Absent => from = 0
    /\ walk.cursor # Absent => \/ from > 0 /\ order[from] = walk.cursor
                               \/ /\ from = Len(order)
                                  /\ \A i \in 1 .. Len(order) : order[i] # walk.cursor

LEMMA FetchedIs ==
  ASSUME NEW S \in SUBSET Products, NEW order \in Orders(S)
  PROVE  \E from \in 0 .. Len(order) :
            /\ StartsAfter(order, from)
            /\ Fetched(order) = First(SubSeq(order, from + 1, Len(order)), Limit + 1)
<1>. DEFINE N == Len(order)
            At == {i \in 1 .. N : order[i] = walk.cursor}
            at == IF At # {} THEN Min(At) ELSE 0
<1>1. order \in Seq(S) /\ N \in Nat /\ \A i, j \in 1 .. N : order[i] = order[j] => i = j
  BY OrderIs, LenProperties
<1>2. SelectInSeq(order, LAMBDA p : p = walk.cursor) = at
  BY DEF SelectInSeq
<1>3. Fetched(order) = IF walk.cursor = Absent THEN First(order, Limit + 1)
                       ELSE IF at = 0 THEN <<>>
                       ELSE First(SubSeq(order, at + 1, N), Limit + 1)
  BY <1>2 DEF Fetched
<1>4. CASE walk.cursor = Absent
  <2>1. 0 + 1 = 1 /\ SubSeq(order, 1, N) = order
    BY <1>1, SubSeqFull
  <2>2. Fetched(order) = First(SubSeq(order, 0 + 1, N), Limit + 1)
    BY <1>3, <1>4, <2>1
  <2>3. 0 \in 0 .. N /\ StartsAfter(order, 0)
    BY <1>1, <1>4 DEF StartsAfter
  <2>. QED  BY <2>2, <2>3
<1>5. CASE walk.cursor # Absent /\ At = {}
  <2>1. SubSeq(order, N + 1, N) = <<>>
    <3>1. N + 1 \in Int /\ N \in Int /\ N < N + 1
      BY <1>1
    <3>. QED  BY <3>1, SubSeqEmpty
  <2>2. First(<<>>, Limit + 1) = <<>>
    <3>1. Limit + 1 \in Nat /\ <<>> \in Seq(S) /\ Len(<<>>) = 0
      BY LimitIsPositive
    <3>2. ~ (Limit + 1 < 0)
      BY LimitIsPositive
    <3>3. First(<<>>, Limit + 1) = SubSeq(<<>>, 1, 0)
      BY <3>1, <3>2 DEF First
    <3>4. 1 \in Int /\ 0 \in Int /\ 0 < 1
      OBVIOUS
    <3>. QED  BY <3>3, <3>4, SubSeqEmpty
  <2>3. Fetched(order) = First(SubSeq(order, N + 1, N), Limit + 1)
    BY <1>3, <1>5, <2>1, <2>2
  <2>4. N \in 0 .. N /\ StartsAfter(order, N)
    BY <1>1, <1>5 DEF StartsAfter
  <2>. QED  BY <2>3, <2>4
<1>6. CASE walk.cursor # Absent /\ At # {}
  <2>1. PICK i \in 1 .. N : At = {i}
    BY <1>1, <1>6
  <2>2. Min({i}) = i
    BY <2>1 DEF Min
  <2>3. at = i /\ i # 0 /\ i > 0 /\ i \in 0 .. N
    <3>1. Min(At) = i
      <4>. HIDE DEF At
      <4>. QED  BY <2>1, <2>2
    <3>. QED  BY <1>1, <1>6, <3>1
  <2>4. order[i] = walk.cursor
    BY <2>1
  <2>5. Fetched(order) = First(SubSeq(order, i + 1, N), Limit + 1)
    BY <1>3, <1>6, <2>3
  <2>6. StartsAfter(order, i)
    BY <1>6, <2>3, <2>4 DEF StartsAfter
  <2>. QED  BY <2>3, <2>5, <2>6
<1>. QED  BY <1>4, <1>5, <1>6
LEMMA PageIs ==
  ASSUME NEW S \in SUBSET Products, NEW order \in Orders(S)
  PROVE  LET N == Len(order)
             page == buildCursorPage(Fetched(order))
         IN  \E from \in 0 .. N :
               /\ StartsAfter(order, from)
               /\ page.hasMore = (N > from + Limit)
               /\ page.nextCursor = IF N > from + Limit THEN order[from + Limit]
                                    ELSE Absent
               /\ \A p : Contains(page.data, p) <=>
                         \E i \in 1 .. N : /\ from < i /\ i <= from + Limit
                                           /\ order[i] = p
<1>. DEFINE N == Len(order)
            rows == Fetched(order)
            data == First(rows, Limit)
<1>1. order \in Seq(S) /\ N \in Nat /\ Limit \in Nat \ {0}
  BY OrderIs, LenProperties, LimitIsPositive
<1>2. PICK from \in 0 .. N :
         /\ StartsAfter(order, from)
         /\ rows = First(SubSeq(order, from + 1, N), Limit + 1)
  BY FetchedIs
<1>. HIDE DEF N, rows
<1>. DEFINE rest == SubSeq(order, from + 1, N)
<1>3. /\ rest \in Seq(S) /\ Len(rest) = N - from
      /\ \A i \in 1 .. (N - from) : rest[i] = order[from + i]
  <2>1. from \in Nat /\ N \in Nat /\ from <= N /\ N <= Len(order)
    BY <1>1 DEF N
  <2>. QED  BY <1>1, <2>1, SubSeqIs
<1>. HIDE DEF rest
<1>4. /\ rows \in Seq(S)
      /\ Len(rows) = IF Limit + 1 < N - from THEN Limit + 1 ELSE N - from
      /\ \A i \in 1 .. Len(rows) : rows[i] = rest[i]
  <2>1. Limit + 1 \in Nat
    BY <1>1
  <2>. QED  BY <1>2, <1>3, <2>1, FirstIs DEF rest
<1>5. /\ data \in Seq(S)
      /\ Len(data) = IF Limit < Len(rows) THEN Limit ELSE Len(rows)
      /\ \A i \in 1 .. Len(data) : data[i] = rows[i]
  BY <1>1, <1>4, FirstIs
<1>. HIDE DEF data
<1>6. (Len(rows) > Limit) = (N > from + Limit)
  BY <1>1, <1>4
<1>7. Len(data) = IF N > from + Limit THEN Limit ELSE N - from
  BY <1>1, <1>4, <1>5
<1>8. \A i \in 1 .. Len(data) : data[i] = order[from + i]
  <2>1. \A i \in 1 .. Len(data) : i \in 1 .. Len(rows) /\ i \in 1 .. (N - from)
    BY <1>1, <1>4, <1>7
  <2>. QED  BY <1>3, <1>4, <1>5, <2>1
<1>9. N > from + Limit => Last(data) = order[from + Limit]
  BY <1>1, <1>7, <1>8 DEF Last
<1>10. ASSUME NEW p
       PROVE  Contains(data, p) <=>
                \E i \in 1 .. N : from < i /\ i <= from + Limit /\ order[i] = p
  <2>1. ASSUME NEW i \in 1 .. Len(data), data[i] = p
        PROVE  \E j \in 1 .. N : from < j /\ j <= from + Limit /\ order[j] = p
    <3>1. /\ from + i \in 1 .. N /\ from < from + i /\ from + i <= from + Limit
          /\ order[from + i] = p
      BY <1>1, <1>7, <1>8, <2>1
    <3>. QED  BY <3>1
  <2>2. ASSUME NEW j \in 1 .. N, from < j, j <= from + Limit, order[j] = p
        PROVE  \E i \in 1 .. Len(data) : data[i] = p
    <3>1. j - from \in 1 .. Len(data) /\ from + (j - from) = j
      BY <1>1, <1>7, <2>2
    <3>2. data[j - from] = p
      BY <1>8, <2>2, <3>1
    <3>. QED  BY <3>1, <3>2
  <2>. QED  BY <2>1, <2>2 DEF Contains
<1>11. /\ buildCursorPage(rows).data = data
       /\ buildCursorPage(rows).hasMore = (Len(rows) > Limit)
       /\ buildCursorPage(rows).nextCursor =
             IF Len(rows) > Limit THEN Last(data) ELSE Absent
  BY DEF buildCursorPage, data
<1>. QED  BY <1>2, <1>6, <1>9, <1>10, <1>11 DEF N, rows

-----------------------------------------------------------------------------
(* The type invariant.                                                     *)

LEMMA ProductsMatch ==
  ASSUME NEW f \in Filters, CatalogTypeOK
  PROVE  Matching(f, filed, active) \subseteq Listed
  BY FiltersAreQueries, NoRowIsNull DEF Matching, Listed

\* What a write leaves of the walk.
LEMMA WatchedOK ==
  ASSUME CatalogTypeOK, Watched
  PROVE  walk' \in Walk \cup {NoWalk}
<1>1. CASE walk.phase = "paging"
  <2>1. walk \in Walk
    BY <1>1 DEF CatalogTypeOK, NoWalk
  <2>. DEFINE M == Matching(walk.filter, filed', active')
  <2>2. walk' = [walk EXCEPT !.throughout = @ \cap M]
    BY <1>1 DEF Watched
  <2>. HIDE DEF M
  <2>. QED  BY <2>1, <2>2 DEF Walk
<1>2. CASE walk.phase # "paging"
  BY <1>2 DEF Watched
<1>. QED  BY <1>1, <1>2

LEMMA NextPageWalk ==
  ASSUME CatalogTypeOK, NextPage
  PROVE  walk' \in Walk
<1>1. walk.phase = "paging" /\ walk \in Walk
  BY DEF NextPage, CatalogTypeOK, NoWalk
<1>. DEFINE found == Matching(walk.filter, filed, active)
            page(order) == buildCursorPage(Fetched(order))
<1>2. PICK order \in Orders(found) :
         walk' = [walk EXCEPT
                    !.phase = IF page(order).hasMore THEN "paging" ELSE "done",
                    !.cursor = page(order).nextCursor,
                    !.got = [p \in Products |->
                                IF Contains(page(order).data, p) /\ @[p] < 2
                                THEN @[p] + 1 ELSE @[p]],
                    !.lost = @ \/ walk.cursor \notin found \cup {Absent}]
  BY DEF NextPage
<1>3. found \in SUBSET Products
  BY DEF Matching
<1>4. page(order).nextCursor \in Products \cup {Absent}
  <2>1. PICK from \in 0 .. Len(order) :
           page(order).nextCursor = IF Len(order) > from + Limit THEN order[from + Limit]
                                    ELSE Absent
    <3>. HIDE DEF found
    <3>. QED  BY <1>3, PageIs
  <2>2. order \in [1 .. Len(order) -> found] /\ Len(order) \in Nat
    <3>. HIDE DEF found
    <3>. QED  BY <1>3, OrderIs, LenProperties
  <2>3. Len(order) > from + Limit => from + Limit \in 1 .. Len(order)
    BY <2>2, LimitIsPositive
  <2>. HIDE DEF found, page
  <2>. QED  BY <1>3, <2>1, <2>2, <2>3
<1>5. \A p \in Products : walk.got[p] \in 0 .. 2
  BY <1>1 DEF Walk
<1>. DEFINE got == [p \in Products |-> IF Contains(page(order).data, p) /\ walk.got[p] < 2
                                      THEN walk.got[p] + 1 ELSE walk.got[p]]
<1>6. got \in [Products -> 0 .. 2]
  <2>. HIDE DEF page
  <2>. QED  BY <1>5
<1>. HIDE DEF page, found, got
<1>. DEFINE more == page(order).hasMore
            cursor == page(order).nextCursor
            lost == walk.lost \/ walk.cursor \notin found \cup {Absent}
<1>7. walk' = [walk EXCEPT !.phase = IF more THEN "paging" ELSE "done",
                           !.cursor = cursor, !.got = got, !.lost = lost]
  BY <1>2 DEF got
<1>8. lost \in BOOLEAN /\ cursor \in Products \cup {Absent}
  BY <1>1, <1>4 DEF Walk
<1>. HIDE DEF more, cursor, lost
<1>. QED  BY <1>1, <1>6, <1>7, <1>8 DEF Walk

LEMMA InitOK == Init => CatalogTypeOK
  BY BoundsAreNat DEF Init, CatalogTypeOK, Exists, Listed

LEMMA CategoryStepOK ==
  ASSUME CatalogTypeOK, NEW c \in Categories, CategoryStep(c)
  PROVE  CatalogTypeOK'
<1>1. /\ parent \in [Categories -> Categories \cup {NoCategory, Absent}]
      /\ \A d \in Exists : parent[d] \in Exists \cup {NoCategory}
      /\ filed \in [Products -> Categories \cup {NoCategory, Absent}]
      /\ \A p \in Listed : filed[p] \in Exists \cup {NoCategory}
      /\ active \subseteq Listed
      /\ createdAt \in [Products -> 0 .. MaxTime]
  BY DEF CatalogTypeOK
<1>2. ASSUME NEW under \in Exists \cup {NoCategory},
             CreateCategory(c, under) \/ UpdateCategory(c, under)
      PROVE  CatalogTypeOK'
  <2>1. /\ parent' = [parent EXCEPT ![c] = under] /\ Watched
        /\ filed' = filed /\ active' = active /\ createdAt' = createdAt
    BY <1>2 DEF CreateCategory, UpdateCategory, productVars
  <2>2. under # Absent /\ under \in Categories \cup {NoCategory, Absent}
    BY NoRowIsNull DEF Exists
  <2>3. Exists' = Exists \cup {c} /\ Listed' = Listed
    BY <1>1, <2>1, <2>2 DEF Exists, Listed
  <2>4. walk' \in Walk \cup {NoWalk}
    BY <2>1, WatchedOK
  <2>5. /\ parent' \in [Categories -> Categories \cup {NoCategory, Absent}]
        /\ \A d \in Exists' : parent'[d] \in Exists' \cup {NoCategory}
    BY <1>1, <2>1, <2>2, <2>3 DEF Exists
  <2>6. \A p \in Listed' : filed'[p] \in Exists' \cup {NoCategory}
    BY <1>1, <2>1, <2>3
  <2>. QED  BY <1>1, <2>1, <2>3, <2>4, <2>5, <2>6 DEF CatalogTypeOK, Walk, NoWalk
<1>3. ASSUME RemoveCategory(c)
      PROVE  CatalogTypeOK'
  <2>1. /\ c \in Exists
        /\ parent' = [d \in Categories |-> IF d = c THEN Absent
                                           ELSE IF parent[d] = c THEN NoCategory
                                           ELSE parent[d]]
        /\ filed' = [p \in Products |-> IF filed[p] = c THEN NoCategory ELSE filed[p]]
        /\ active' = active /\ createdAt' = createdAt /\ Watched
    BY <1>3 DEF RemoveCategory
  <2>2. Exists' = Exists \ {c} /\ Listed' = Listed
    BY <1>1, <2>1, NoRowIsNull DEF Exists, Listed
  <2>3. walk' \in Walk \cup {NoWalk}
    BY <2>1, WatchedOK
  <2>4. /\ parent' \in [Categories -> Categories \cup {NoCategory, Absent}]
        /\ \A d \in Exists' : parent'[d] \in Exists' \cup {NoCategory}
    BY <1>1, <2>1, <2>2 DEF Exists
  <2>5. /\ filed' \in [Products -> Categories \cup {NoCategory, Absent}]
        /\ \A p \in Listed' : filed'[p] \in Exists' \cup {NoCategory}
    BY <1>1, <2>1, <2>2 DEF Listed
  <2>. QED  BY <1>1, <2>1, <2>2, <2>3, <2>4, <2>5 DEF CatalogTypeOK, Walk, NoWalk
<1>. QED  BY <1>2, <1>3 DEF CategoryStep

LEMMA ProductStepOK ==
  ASSUME CatalogTypeOK, NEW p \in Products, ProductStep(p)
  PROVE  CatalogTypeOK'
<1>1. /\ parent \in [Categories -> Categories \cup {NoCategory, Absent}]
      /\ \A d \in Exists : parent[d] \in Exists \cup {NoCategory}
      /\ filed \in [Products -> Categories \cup {NoCategory, Absent}]
      /\ \A q \in Listed : filed[q] \in Exists \cup {NoCategory}
      /\ active \subseteq Listed
      /\ createdAt \in [Products -> 0 .. MaxTime]
  BY DEF CatalogTypeOK
<1>2. Watched /\ parent' = parent
  BY DEF ProductStep, CreateProduct, UpdateProduct, RemoveProduct, treeVars
<1>3. walk' \in Walk \cup {NoWalk} /\ Exists' = Exists
  BY <1>2, WatchedOK DEF Exists
<1>4. ASSUME NEW c \in Exists \cup {NoCategory}, filed' = [filed EXCEPT ![p] = c]
      PROVE  /\ filed' \in [Products -> Categories \cup {NoCategory, Absent}]
             /\ Listed' = Listed \cup {p}
             /\ \A q \in Listed' : filed'[q] \in Exists \cup {NoCategory}
  BY <1>1, <1>4, NoRowIsNull DEF Listed, Exists
<1>5. ASSUME NEW c \in Exists \cup {NoCategory}, NEW t \in 1 .. MaxTime,
             CreateProduct(p, c, t)
      PROVE  CatalogTypeOK'
  <2>1. /\ filed' = [filed EXCEPT ![p] = c] /\ active' = active \cup {p}
        /\ createdAt' = [createdAt EXCEPT ![p] = t]
    BY <1>5 DEF CreateProduct
  <2>2. createdAt' \in [Products -> 0 .. MaxTime]
    BY <1>1, <2>1, BoundsAreNat
  <2>3. active' \subseteq Listed'
    BY <1>1, <1>4, <2>1
  <2>. QED  BY <1>1, <1>2, <1>3, <1>4, <2>1, <2>2, <2>3 DEF CatalogTypeOK, Walk, NoWalk
<1>6. ASSUME NEW c \in Exists \cup {NoCategory}, UpdateProduct(p, c)
      PROVE  CatalogTypeOK'
  <2>1. /\ filed' = [filed EXCEPT ![p] = c] /\ active' = active
        /\ createdAt' = createdAt
    BY <1>6 DEF UpdateProduct
  <2>2. active' \subseteq Listed'
    BY <1>1, <1>4, <2>1
  <2>. QED  BY <1>1, <1>2, <1>3, <1>4, <2>1, <2>2 DEF CatalogTypeOK, Walk, NoWalk
<1>7. ASSUME RemoveProduct(p)
      PROVE  CatalogTypeOK'
  <2>1. filed' = filed /\ active' = active \ {p} /\ createdAt' = createdAt
    BY <1>7 DEF RemoveProduct
  <2>2. Listed' = Listed
    BY <2>1 DEF Listed
  <2>. QED  BY <1>1, <1>2, <1>3, <2>1, <2>2 DEF CatalogTypeOK, Walk, NoWalk
<1>. QED  BY <1>5, <1>6, <1>7 DEF ProductStep
LEMMA WalkStepOK ==
  ASSUME CatalogTypeOK, (\E f \in Filters : StartWalk(f)) \/ NextPage
  PROVE  CatalogTypeOK'
<1>1. parent' = parent /\ filed' = filed /\ active' = active /\ createdAt' = createdAt
  BY DEF StartWalk, NextPage, treeVars, productVars
<1>2. ASSUME NEW f \in Filters, StartWalk(f)
      PROVE  walk' \in Walk
  BY <1>2 DEF StartWalk, Walk, Matching
<1>3. walk' \in Walk
  BY <1>2, NextPageWalk
<1>. QED  BY <1>1, <1>3 DEF CatalogTypeOK, Exists, Listed, Walk, NoWalk

LEMMA NextOK == CatalogTypeOK /\ [Next]_vars => CatalogTypeOK'
<1>. SUFFICES ASSUME CatalogTypeOK, [Next]_vars PROVE CatalogTypeOK'
  OBVIOUS
<1>1. CASE UNCHANGED vars
  BY <1>1 DEF vars, CatalogTypeOK, Exists, Listed, Walk, NoWalk
<1>2. CASE Next
  BY <1>2, CategoryStepOK, ProductStepOK, WalkStepOK DEF Next
<1>. QED  BY <1>1, <1>2

\* Whatever calls are made, no category or product refers to a category that
\* is gone, and the client's place in a listing is a product or the start.
THEOREM CatalogTypes == Spec => []CatalogTypeOK
  BY InitOK, NextOK, PTL DEF Spec

LEMMA HidingStep ==
  ASSUME CatalogTypeOK, InForest, InForest', [Next]_vars
  PROVE  LET gone == Forest \ Forest'
         IN  \/ gone = {}
             \/ \E c \in gone : gone = {c} /\ c \notin Exists'
             \/ \E c \in gone : /\ gone = Below(c)
                                /\ parent'[c] \in Below(c) \cup (Exists \ Forest)
<1>. DEFINE gone == Forest \ Forest'
<1>1. CASE parent' = parent
  <2>1. Forest' = Forest
    BY <1>1 DEF Forest, Nested, Levels, Children, Roots, Exists
  <2>. QED  BY <2>1
<1>2. ASSUME NEW c \in Categories, NEW under \in Exists \cup {NoCategory},
             CreateCategory(c, under)
      PROVE  gone = {}
  BY <1>2, CreateHidesNone
<1>3. ASSUME NEW c \in Categories, NEW under \in Exists \cup {NoCategory},
             UpdateCategory(c, under), gone # {}
      PROVE  /\ c \in gone /\ gone = Below(c)
             /\ parent'[c] \in Below(c) \cup (Exists \ Forest)
  BY <1>3, UpdateHidesBelow
<1>4. ASSUME NEW c \in Categories, RemoveCategory(c), gone # {}
      PROVE  c \in gone /\ gone = {c} /\ c \notin Exists'
  BY <1>4, RemoveHidesOne
<1>5. CASE \E c \in Categories : CategoryStep(c)
  <2>. HIDE DEF gone
  <2>1. PICK c \in Categories : CategoryStep(c)
    BY <1>5
  <2>2. CASE \E under \in Exists \cup {NoCategory} :
                CreateCategory(c, under) \/ UpdateCategory(c, under)
    <3>1. gone = {} \/ (/\ c \in gone /\ gone = Below(c)
                       /\ parent'[c] \in Below(c) \cup (Exists \ Forest))
      BY <1>2, <1>3, <2>2
    <3>. QED  BY <3>1 DEF gone
  <2>3. CASE RemoveCategory(c)
    <3>1. gone = {} \/ (c \in gone /\ gone = {c} /\ c \notin Exists')
      BY <1>4, <2>3
    <3>. QED  BY <3>1 DEF gone
  <2>. QED  BY <2>1, <2>2, <2>3 DEF CategoryStep
<1>6. ~ (\E c \in Categories : CategoryStep(c)) => parent' = parent
  BY DEF Next, vars, ProductStep, CreateProduct, UpdateProduct, RemoveProduct,
         StartWalk, NextPage, treeVars
<1>. QED  BY <1>1, <1>5, <1>6

\* Deleting a category takes nothing else out of findTree's answer, and only a
\* cycle hides what is still there.
THEOREM OnlyCyclesHide == Spec => HiddenOnlyByCycle
<1>1. CatalogTypeOK => InForest
  BY ForestIs
<1>2. CatalogTypeOK /\ InForest /\ InForest' /\ [Next]_vars
        => [LET gone == Forest \ Forest'
            IN  \/ gone = {}
                \/ \E c \in gone : gone = {c} /\ c \notin Exists'
                \/ \E c \in gone :
                      /\ gone = Below(c)
                      /\ parent'[c] \in Below(c) \cup (Exists \ Forest)]_vars
  BY HidingStep
<1>. QED  BY <1>1, <1>2, CatalogTypes, PTL DEF Spec, HiddenOnlyByCycle

-----------------------------------------------------------------------------
(* ForestIsRooted.                                                         *)

Ids == Categories \cup {NoCategory, Absent}
Above(x) == IF x \in Exists THEN parent[x] ELSE Absent

\* Up is defined by its recursion.
LEMMA UpStep ==
  ASSUME CatalogTypeOK, NEW x \in Ids
  PROVE  /\ Up(x)[0] = x
         /\ \A n \in Nat : Up(x)[n] \in Ids /\ Up(x)[n + 1] = Above(Up(x)[n])
<1>. DEFINE K == [y \in Ids |-> Above(y)]
            Def(h) == h = [n \in Nat |-> IF n = 0 THEN x
                             ELSE IF h[n - 1] \in Exists THEN parent[h[n - 1]]
                             ELSE Absent]
            g == CHOOSE h : Def(h)
<1>1. K \in [Ids -> Ids]
  BY DEF CatalogTypeOK, Above, Exists, Ids
<1>2. PICK h \in [Nat -> Ids] : h[0] = x /\ \A n \in Nat : h[n + 1] = K[h[n]]
  <2>. HIDE DEF K
  <2>. QED  BY <1>1, IterationExists
<1>3. Def(h)
  <2>1. ASSUME NEW n \in Nat, n # 0
        PROVE  h[n] = IF h[n - 1] \in Exists THEN parent[h[n - 1]] ELSE Absent
    <3>1. n - 1 \in Nat /\ (n - 1) + 1 = n
      BY <2>1
    <3>2. h[n] = K[h[n - 1]] /\ h[n - 1] \in Ids
      BY <1>2, <3>1
    <3>. QED  BY <3>2 DEF Above
  <2>. QED  BY <1>2, <2>1
<1>4. Def(g)
  <2>. HIDE DEF Def
  <2>. QED  BY Zenon, <1>3
<1>5. Up(x) = g
  BY Zenon DEF Up
<1>. HIDE DEF g, K
<1>6. g[0] = x
  BY <1>4
<1>7. ASSUME NEW n \in Nat
      PROVE  g[n + 1] = Above(g[n])
  <2>1. n + 1 \in Nat /\ n + 1 # 0 /\ (n + 1) - 1 = n
    OBVIOUS
  <2>. QED  BY <1>4, <2>1 DEF Above
<1>8. \A n \in Nat : g[n] \in Ids
  <2>. DEFINE T == {n \in Nat : g[n] \in Ids}
  <2>1. 0 \in T
    BY <1>6
  <2>2. ASSUME NEW n \in T PROVE n + 1 \in T
    BY <1>1, <1>7 DEF K
  <2>3. T \in SUBSET Nat
    OBVIOUS
  <2>. HIDE DEF T
  <2>4. T = Nat
    BY <2>1, <2>2, <2>3, AllNumbers
  <2>. QED  BY <2>4 DEF T
<1>. QED  BY <1>5, <1>6, <1>7, <1>8

\* A walk up, without its first step, is the walk up from the parent.
LEMMA UpShift ==
  ASSUME CatalogTypeOK, NEW x \in Ids, Above(x) \in Ids
  PROVE  \A n \in Nat : Up(x)[n + 1] = Up(Above(x))[n]
<1>. DEFINE T == {n \in Nat : Up(x)[n + 1] = Up(Above(x))[n]}
            y == Above(x)
<1>1. Up(x)[0] = x /\ \A n \in Nat : Up(x)[n + 1] = Above(Up(x)[n])
  BY UpStep
<1>2. Up(y)[0] = y /\ \A n \in Nat : Up(y)[n + 1] = Above(Up(y)[n])
  <2>. HIDE DEF y
  <2>1. y \in Ids
    BY DEF y
  <2>. QED  BY <2>1, UpStep
<1>3. 0 \in T
  BY <1>1, <1>2
<1>4. ASSUME NEW n \in T PROVE n + 1 \in T
  <2>1. Up(x)[n + 1] = Up(y)[n] /\ n + 1 \in Nat
    BY <1>4
  <2>2. Up(x)[(n + 1) + 1] = Above(Up(x)[n + 1])
    BY <1>1, <2>1
  <2>3. Up(y)[n + 1] = Above(Up(y)[n])
    BY <1>2
  <2>. QED  BY <2>1, <2>2, <2>3
<1>5. T \in SUBSET Nat
  OBVIOUS
<1>. HIDE DEF T
<1>6. T = Nat
  BY <1>3, <1>4, <1>5, AllNumbers
<1>. QED  BY <1>6 DEF T

RootedAt(c, n) == /\ \A k \in 1 .. n : Up(c)[k] \in Exists
                  /\ Up(c)[n + 1] = NoCategory

LEMMA RootedStep ==
  ASSUME CatalogTypeOK, NEW c \in Exists, NEW n \in Nat
  PROVE  /\ RootedAt(c, 0) <=> c \in Roots
         /\ RootedAt(c, n + 1) <=> parent[c] \in Exists /\ RootedAt(parent[c], n)
<1>. DEFINE d == parent[c]
<1>1. Above(c) = d /\ c \in Ids /\ d \in Ids /\ d \in Exists \cup {NoCategory}
      /\ NoCategory \notin Exists
  BY NoRowIsNull DEF CatalogTypeOK, Above, Exists, Ids
<1>2. /\ \A k \in Nat : Up(c)[k + 1] = Up(d)[k]
      /\ Up(d)[0] = d
  <2>1. \A k \in Nat : Up(c)[k + 1] = Up(Above(c))[k]
    BY <1>1, UpShift
  <2>2. \A k \in Nat : Up(c)[k + 1] = Up(d)[k]
    <3>. HIDE DEF d
    <3>. QED  BY <1>1, <2>1
  <2>. HIDE DEF d
  <2>. QED  BY <1>1, <2>2, UpStep
<1>3. RootedAt(c, 0) <=> c \in Roots
  <2>1. Up(c)[0 + 1] = d
    BY <1>2
  <2>. QED  BY <1>1, <2>1 DEF RootedAt, Roots
<1>. HIDE DEF d
<1>4. (\A k \in 1 .. (n + 1) : Up(c)[k] \in Exists)
        <=> (d \in Exists /\ \A k \in 1 .. n : Up(d)[k] \in Exists)
  <2>1. \A k \in 1 .. (n + 1) : k - 1 \in 0 .. n /\ (k - 1) + 1 = k
    OBVIOUS
  <2>2. \A k \in 0 .. n : k + 1 \in 1 .. (n + 1) /\ k \in Nat
    OBVIOUS
  <2>3. ASSUME \A k \in 1 .. (n + 1) : Up(c)[k] \in Exists, NEW k \in 0 .. n
        PROVE  Up(d)[k] \in Exists
    BY <1>2, <2>2, <2>3
  <2>4. ASSUME \A k \in 0 .. n : Up(d)[k] \in Exists, NEW k \in 1 .. (n + 1)
        PROVE  Up(c)[k] \in Exists
    BY <1>2, <2>1, <2>2, <2>4
  <2>5. 0 \in 0 .. n /\ \A k \in 0 .. n : k = 0 \/ k \in 1 .. n
    OBVIOUS
  <2>6. \A k \in 1 .. n : k \in 0 .. n
    OBVIOUS
  <2>. QED  BY <1>2, <2>3, <2>4, <2>5, <2>6
<1>5. Up(c)[(n + 1) + 1] = Up(d)[n + 1]
  BY <1>2
<1>. QED  BY <1>3, <1>4, <1>5 DEF RootedAt, d

LEMMA LevelIsDepth ==
  ASSUME CatalogTypeOK
  PROVE  \A n \in Nat : \A c \in Exists : c \in Levels(Roots)[n] <=> RootedAt(c, n)
<1>. DEFINE L == Levels(Roots)
            T == {n \in Nat : \A c \in Exists : c \in L[n] <=> RootedAt(c, n)}
<1>1. /\ \A n \in Nat : L[n] \in SUBSET Exists
      /\ L[0] = Roots
      /\ \A n \in Nat : L[n + 1] = UNION {Children(c) : c \in L[n]}
  BY ForestHangs, LevelsStep
<1>. HIDE DEF L
<1>2. 0 \in T
  <2>1. \A c \in Exists : RootedAt(c, 0) <=> c \in Roots
    BY RootedStep
  <2>. QED  BY <1>1, <2>1
<1>3. ASSUME NEW n \in T PROVE n + 1 \in T
  <2>. SUFFICES ASSUME NEW c \in Exists
                PROVE  c \in L[n + 1] <=> RootedAt(c, n + 1)
    OBVIOUS
  <2>1. RootedAt(c, n + 1) <=> parent[c] \in Exists /\ RootedAt(parent[c], n)
    BY RootedStep
  <2>2. c \in L[n + 1] <=> parent[c] \in L[n]
    BY <1>1 DEF Children
  <2>3. parent[c] \in Exists => (parent[c] \in L[n] <=> RootedAt(parent[c], n))
    BY <1>3
  <2>4. parent[c] \in L[n] => parent[c] \in Exists
    BY <1>1
  <2>. QED  BY <2>1, <2>2, <2>3, <2>4
<1>4. T \in SUBSET Nat
  OBVIOUS
<1>. HIDE DEF T
<1>5. T = Nat
  BY <1>2, <1>3, <1>4, AllNumbers
<1>. QED  BY <1>5 DEF T, L

\* findTree nests every category at its depth, and leaves out those above
\* which there is a cycle: in every state that any calls lead to.
THEOREM ForestIsTheRootedPart == Spec => []ForestIsRooted
<1>1. CatalogTypeOK => ForestIsRooted
  <2>. SUFFICES ASSUME CatalogTypeOK PROVE ForestIsRooted
    OBVIOUS
  <2>1. \A n \in DOMAIN Nested : n \in Nat /\ Nested[n] = Levels(Roots)[n]
    BY DEF Nested
  <2>. QED  BY <2>1, LevelIsDepth DEF ForestIsRooted, RootedAt
<1>. QED  BY <1>1, CatalogTypes, PTL
-----------------------------------------------------------------------------
(* ListingComplete.                                                        *)

Alone(p) == \A q \in Products \ {p} : createdAt[q] # createdAt[p]

\* A product has a date as soon as it is there.
ListedHaveDates == \A p \in Products : p \in Listed <=> createdAt[p] > 0

\* Between two pages: what comes before the cursor in the listing was
\* delivered, and nothing that comes after it.
Delivered ==
    /\ walk.throughout \subseteq Matching(walk.filter, filed, active)
    /\ walk.cursor # Absent => walk.cursor \in Listed
    /\ \A p \in Products \ Listed : walk.got[p] = 0
    /\ \A p \in Products :
          /\ walk.cursor = Absent => walk.got[p] = 0
          /\ (Alone(p) /\ walk.cursor # Absent) =>
                /\ walk.got[p] <= 1
                /\ walk.got[p] = 1 => createdAt[p] >= createdAt[walk.cursor]
                /\ (/\ p \in walk.throughout /\ ~walk.lost
                    /\ createdAt[p] >= createdAt[walk.cursor]) => walk.got[p] = 1

ListingInv == /\ ListedHaveDates
              /\ walk.phase = "paging" => Delivered
              /\ walk.phase = "done" => ListingComplete

LEMMA ListingInit == Init => ListingInv
  BY DEF Init, ListingInv, ListedHaveDates, Listed, NoWalk

LEMMA ListingImplied == CatalogTypeOK /\ ListingInv => ListingComplete
<1>. SUFFICES ASSUME CatalogTypeOK, ListingInv, walk.phase = "paging"
              PROVE  ListingComplete
  BY DEF CatalogTypeOK, Walk, NoWalk, ListingInv, ListingComplete
<1>. SUFFICES ASSUME NEW p \in Products, Alone(p)
              PROVE  walk.got[p] <= 1
  BY DEF ListingComplete, Alone
<1>. QED  BY DEF ListingInv, Delivered

\* A write leaves the dates of the products that are there, and the walk but
\* for its ghost.
LEMMA ListingWrite ==
  ASSUME CatalogTypeOK, ListingInv, Watched, Listed \subseteq Listed', ListedHaveDates',
         \A p \in Listed : createdAt'[p] = createdAt[p]
  PROVE  ListingInv'
<1>1. CASE walk.phase # "paging"
  <2>1. walk' = NoWalk
    BY <1>1 DEF Watched
  <2>. QED  BY <2>1 DEF ListingInv, NoWalk
<1>2. CASE walk.phase = "paging"
  <2>. DEFINE M == Matching(walk.filter, filed', active')
  <2>1. walk' = [walk EXCEPT !.throughout = @ \cap M]
    BY <1>2 DEF Watched
  <2>2. walk \in Walk /\ walk.filter \in Filters
    BY <1>2 DEF CatalogTypeOK, Walk, NoWalk
  <2>. HIDE DEF M
  <2>3. /\ walk'.throughout = walk.throughout \cap M
        /\ walk'.cursor = walk.cursor /\ walk'.got = walk.got
        /\ walk'.filter = walk.filter /\ walk'.lost = walk.lost
        /\ walk'.phase = "paging"
    BY <1>2, <2>1, <2>2 DEF Walk
  <2>4. Delivered
    BY <1>2 DEF ListingInv
  <2>5. walk.throughout \subseteq Listed
    BY <2>2, <2>4, ProductsMatch DEF Delivered
  <2>6. walk'.throughout \subseteq Matching(walk'.filter, filed', active')
    BY <2>3 DEF M
  <2>7. \A p \in Listed : Alone(p)' => Alone(p)
    <3>. SUFFICES ASSUME NEW p \in Listed, Alone(p)', NEW q \in Products \ {p}
                  PROVE  createdAt[q] # createdAt[p]
      BY DEF Alone
    <3>1. createdAt'[q] # createdAt'[p] /\ createdAt'[p] = createdAt[p] /\ createdAt[p] > 0
      BY DEF Alone, ListingInv, ListedHaveDates, Listed
    <3>2. CASE q \in Listed
      BY <3>1, <3>2
    <3>3. CASE q \notin Listed
      BY <3>1, <3>3 DEF ListingInv, ListedHaveDates
    <3>. QED  BY <3>2, <3>3
  <2>8. \A p \in Products \ Listed : walk.got[p] = 0
    BY <2>4 DEF Delivered
  <2>9. ASSUME NEW p \in Products
        PROVE  /\ walk.cursor = Absent => walk.got[p] = 0
               /\ (Alone(p)' /\ walk.cursor # Absent) =>
                     /\ walk.got[p] <= 1
                     /\ walk.got[p] = 1 => createdAt'[p] >= createdAt'[walk.cursor]
                     /\ (/\ p \in walk.throughout \cap M /\ ~walk.lost
                         /\ createdAt'[p] >= createdAt'[walk.cursor]) => walk.got[p] = 1
    <3>1. CASE p \notin Listed
      BY <2>5, <2>8, <3>1
    <3>2. CASE p \in Listed
      <4>1. Alone(p)' => Alone(p)
        BY <2>7, <3>2
      <4>2. createdAt'[p] = createdAt[p]
        BY <3>2
      <4>3. walk.cursor # Absent => createdAt'[walk.cursor] = createdAt[walk.cursor]
        BY <2>4 DEF Delivered
      <4>. QED  BY <2>4, <4>1, <4>2, <4>3 DEF Delivered
    <3>. QED  BY <3>1, <3>2
  <2>10. Delivered'
    BY <2>3, <2>4, <2>6, <2>8, <2>9 DEF Delivered
  <2>. QED  BY <2>3, <2>10 DEF ListingInv
<1>. QED  BY <1>1, <1>2

LEMMA ListingStart ==
  ASSUME CatalogTypeOK, ListingInv, NEW f \in Filters, StartWalk(f)
  PROVE  ListingInv'
<1>1. /\ walk'.phase = "paging" /\ walk'.filter = f /\ walk'.cursor = Absent
      /\ walk'.got = [p \in Products |-> 0]
      /\ walk'.throughout = Matching(f, filed, active)
      /\ filed' = filed /\ active' = active /\ createdAt' = createdAt
  BY DEF StartWalk, productVars
<1>2. Delivered'
  BY <1>1 DEF Delivered
<1>3. ListedHaveDates'
  BY <1>1 DEF ListingInv, ListedHaveDates, Listed
<1>. QED  BY <1>1, <1>2, <1>3 DEF ListingInv
\* One page: the products at the positions after from, Limit of them at most.
LEMMA ListingPage ==
  ASSUME CatalogTypeOK, ListingInv, NextPage
  PROVE  ListingInv'
<1>. DEFINE found == Matching(walk.filter, filed, active)
            page(o) == buildCursorPage(Fetched(o))
<1>1. walk.phase = "paging" /\ walk \in Walk /\ Delivered
  BY DEF NextPage, CatalogTypeOK, NoWalk, ListingInv
<1>2. PICK order \in Orders(found) :
         walk' = [walk EXCEPT
                    !.phase = IF page(order).hasMore THEN "paging" ELSE "done",
                    !.cursor = page(order).nextCursor,
                    !.got = [p \in Products |->
                                IF Contains(page(order).data, p) /\ @[p] < 2
                                THEN @[p] + 1 ELSE @[p]],
                    !.lost = @ \/ walk.cursor \notin found \cup {Absent}]
  BY DEF NextPage
<1>3. filed' = filed /\ active' = active /\ createdAt' = createdAt
  BY DEF NextPage, productVars
<1>4. found \in SUBSET Products /\ found \subseteq Listed
  BY <1>1, ProductsMatch DEF Matching, Walk
<1>. DEFINE N == Len(order)
            at(p, i) == i \in 1 .. N /\ order[i] = p
<1>5. PICK from \in 0 .. N :
         /\ StartsAfter(order, from)
         /\ page(order).hasMore = (N > from + Limit)
         /\ page(order).nextCursor = IF N > from + Limit THEN order[from + Limit]
                                     ELSE Absent
         /\ \A p : Contains(page(order).data, p) <=>
                   \E i \in 1 .. N : /\ from < i /\ i <= from + Limit
                                     /\ order[i] = p
  <2>. HIDE DEF found
  <2>. QED  BY <1>4, PageIs
<1>6. /\ order \in [1 .. N -> found] /\ N \in Nat
      /\ \A i, j \in 1 .. N : order[i] = order[j] => i = j
      /\ \A p \in found : \E i \in 1 .. N : order[i] = p
      /\ \A i, j \in 1 .. N : i < j => createdAt[order[i]] >= createdAt[order[j]]
  <2>. HIDE DEF found
  <2>. QED  BY <1>4, OrderIs, LenProperties, SMTT(30)
<1>7. Limit \in Nat \ {0}
  BY LimitIsPositive
<1>. DEFINE new(p) == \E i \in 1 .. N : from < i /\ i <= from + Limit /\ order[i] = p
            more == N > from + Limit
            last == order[from + Limit]
<1>8. /\ walk'.phase = (IF more THEN "paging" ELSE "done")
      /\ walk'.cursor = (IF more THEN last ELSE Absent)
      /\ \A p \in Products : walk'.got[p] = IF new(p) /\ walk.got[p] < 2
                                           THEN walk.got[p] + 1 ELSE walk.got[p]
      /\ walk'.throughout = walk.throughout /\ walk'.filter = walk.filter
      /\ walk'.lost = (walk.lost \/ walk.cursor \notin found \cup {Absent})
  <2>. HIDE DEF found, page
  <2>1. /\ walk'.phase = (IF page(order).hasMore THEN "paging" ELSE "done")
        /\ walk'.cursor = page(order).nextCursor
        /\ walk'.got = [p \in Products |-> IF Contains(page(order).data, p) /\ walk.got[p] < 2
                                           THEN walk.got[p] + 1 ELSE walk.got[p]]
        /\ walk'.throughout = walk.throughout /\ walk'.filter = walk.filter
        /\ walk'.lost = (walk.lost \/ walk.cursor \notin found \cup {Absent})
    BY <1>1, <1>2 DEF Walk
  <2>. QED  BY <1>5, <2>1
<1>9. /\ walk.throughout \subseteq found
      /\ \A p \in Products \ Listed : walk.got[p] = 0
      /\ \A p \in Products : walk.got[p] \in 0 .. 2 /\ createdAt[p] \in Nat
  <2>1. walk.got \in [Products -> 0 .. 2] /\ createdAt \in [Products -> 0 .. MaxTime]
    BY <1>1 DEF CatalogTypeOK, Walk
  <2>. QED  BY <1>1, <2>1 DEF Delivered
<1>. HIDE DEF found, page, N
\* A product delivered before does not come again.
<1>10. ASSUME NEW p \in Products, Alone(p), NEW i \in 1 .. N, order[i] = p, from < i
       PROVE  walk.got[p] = 0
  <2>1. CASE walk.cursor = Absent
    BY <1>1, <2>1 DEF Delivered
  <2>2. CASE walk.cursor # Absent /\ from > 0 /\ order[from] = walk.cursor
    <3>1. from \in 1 .. N /\ walk.cursor # p
      BY <1>5, <1>6, <1>10, <2>2
    <3>2. createdAt[walk.cursor] >= createdAt[p]
      BY <1>6, <1>10, <2>2, <3>1
    <3>3. walk.cursor \in Products /\ createdAt[walk.cursor] # createdAt[p]
      BY <1>4, <1>6, <1>10, <2>2, <3>1 DEF Alone
    <3>4. ~ (createdAt[p] >= createdAt[walk.cursor])
      BY <1>9, <3>2, <3>3
    <3>5. walk.got[p] <= 1 /\ (walk.got[p] = 1 => createdAt[p] >= createdAt[walk.cursor])
      BY <1>1, <1>10, <2>2 DEF Delivered
    <3>. QED  BY <1>9, <3>4, <3>5
  <2>3. CASE from = N
    BY <1>6, <1>10, <2>3
  <2>. QED  BY <1>5, <2>1, <2>2, <2>3 DEF StartsAfter, N
\* A product before the page was delivered, unless the cursor was lost.
<1>11. ASSUME NEW p \in Products, Alone(p), NEW i \in 1 .. N, order[i] = p, i <= from,
              p \in walk.throughout, ~walk.lost, walk.cursor \in found \cup {Absent}
       PROVE  walk.got[p] = 1
  <2>1. walk.cursor # Absent
    BY <1>5, <1>11 DEF StartsAfter
  <2>2. from > 0 /\ order[from] = walk.cursor /\ from \in 1 .. N
    BY <1>5, <1>6, <1>11, <2>1 DEF StartsAfter
  <2>3. createdAt[p] >= createdAt[walk.cursor]
    <3>1. CASE i = from
      BY <1>9, <1>11, <2>2, <3>1
    <3>2. CASE i < from
      BY <1>6, <1>11, <2>2, <3>2
    <3>. QED  BY <1>6, <1>11, <3>1, <3>2
  <2>. QED  BY <1>1, <1>11, <2>1, <2>3 DEF Delivered
<1>12. ASSUME NEW p \in Products, Alone(p)
       PROVE  walk'.got[p] <= 1 /\ (new(p) => walk'.got[p] = 1)
                               /\ (~ new(p) => walk'.got[p] = walk.got[p])
  <2>1. CASE new(p)
    <3>1. walk.got[p] = 0
      BY <1>10, <1>12, <2>1
    <3>. QED  BY <1>8, <2>1, <3>1
  <2>2. CASE ~ new(p)
    <3>1. walk'.got[p] = walk.got[p]
      BY <1>8, <2>2
    <3>2. walk.got[p] <= 1
      BY <1>1, <1>12 DEF Delivered
    <3>. HIDE DEF new
    <3>. QED  BY <2>2, <3>1, <3>2
  <2>. HIDE DEF new
  <2>. QED  BY <2>1, <2>2
\* Up to the end of the page all is delivered.
<1>13. ASSUME NEW p \in Products, Alone(p), NEW i \in 1 .. N, order[i] = p,
              i <= from + Limit, p \in walk'.throughout, ~walk'.lost
       PROVE  walk'.got[p] = 1
  <2>1. CASE from < i
    <3>1. new(p)
      BY <1>13, <2>1
    <3>. HIDE DEF new
    <3>. QED  BY <1>12, <1>13, <3>1
  <2>2. CASE i <= from
    <3>1. walk.got[p] = 1
      BY <1>8, <1>11, <1>13, <2>2
    <3>2. ~ new(p)
      BY <1>5, <1>6, <1>13, <2>2
    <3>. HIDE DEF new
    <3>. QED  BY <1>12, <1>13, <3>1, <3>2
  <2>. QED  BY <1>5, <1>6, <2>1, <2>2
<1>14. ListedHaveDates'
  BY <1>3 DEF ListingInv, ListedHaveDates, Listed
<1>15. CASE more
  <2>1. /\ from + Limit \in 1 .. N /\ from < from + Limit
        /\ walk'.cursor = last /\ walk'.phase = "paging"
    BY <1>5, <1>6, <1>7, <1>8, <1>15
  <2>2. last \in found /\ last \in Products /\ last \in Listed /\ last # Absent
    BY <1>4, <1>6, <2>1, NoRowIsNull
  <2>3. ASSUME NEW p \in Products \ Listed
        PROVE  walk'.got[p] = 0
    <3>1. ~ new(p)
      BY <1>4, <1>6, <2>3
    <3>. HIDE DEF new
    <3>. QED  BY <1>8, <1>9, <2>3, <3>1
  <2>4. ASSUME NEW p \in Products, Alone(p), walk'.got[p] = 1
        PROVE  createdAt[p] >= createdAt[last]
    <3>1. CASE new(p)
      <4>1. PICK i \in 1 .. N : from < i /\ i <= from + Limit /\ order[i] = p
        BY <3>1
      <4>2. CASE i = from + Limit
        BY <1>9, <2>4, <4>1, <4>2
      <4>3. CASE i < from + Limit
        BY <1>6, <2>1, <4>1, <4>3
      <4>. QED  BY <1>6, <2>1, <4>1, <4>2, <4>3
    <3>2. CASE ~ new(p)
      <4>1. walk.got[p] = 1
        <5>. HIDE DEF new
        <5>. QED  BY <1>12, <2>4, <3>2
      <4>2. walk.cursor # Absent /\ createdAt[p] >= createdAt[walk.cursor]
        BY <1>1, <2>4, <4>1 DEF Delivered
      <4>3. from \in 1 .. N /\ order[from] = walk.cursor
        BY <1>5, <1>6, <1>7, <1>15, <4>2 DEF StartsAfter, N
      <4>4. createdAt[walk.cursor] >= createdAt[last]
        BY <1>6, <2>1, <4>3
      <4>5. walk.cursor \in Products
        BY <1>4, <1>6, <4>3
      <4>. QED  BY <1>9, <2>2, <2>4, <4>2, <4>4, <4>5
    <3>. HIDE DEF new
    <3>. QED  BY <3>1, <3>2
  <2>5. ASSUME NEW p \in Products, Alone(p), p \in walk'.throughout, ~walk'.lost,
               createdAt[p] >= createdAt[last]
        PROVE  walk'.got[p] = 1
    <3>1. PICK i \in 1 .. N : order[i] = p
      BY <1>6, <1>8, <1>9, <2>5
    <3>2. i <= from + Limit
      <4>. SUFFICES ASSUME from + Limit < i PROVE FALSE
        BY <2>1, <3>1
      <4>1. createdAt[last] >= createdAt[p]
        BY <1>6, <2>1, <3>1
      <4>2. last # p
        BY <1>6, <2>1, <3>1
      <4>3. createdAt[last] # createdAt[p]
        BY <2>2, <2>5, <4>2 DEF Alone
      <4>. QED  BY <1>9, <2>2, <2>5, <4>1, <4>3
    <3>. QED  BY <1>13, <2>5, <3>1, <3>2
  <2>6. \A p \in Products : Alone(p)' <=> Alone(p)
    BY <1>3 DEF Alone
  <2>7. walk'.throughout \subseteq Matching(walk'.filter, filed', active')
    BY <1>3, <1>8, <1>9 DEF found
  <2>8. Listed' = Listed
    BY <1>3 DEF Listed
  <2>9. Delivered'
    <3>. HIDE DEF new, last
    <3>. QED  BY <1>3, <1>12, <2>1, <2>2, <2>3, <2>4, <2>5, <2>6, <2>7, <2>8 DEF Delivered
  <2>. QED  BY <1>14, <2>1, <2>9 DEF ListingInv
<1>16. CASE ~ more
  <2>1. walk'.phase = "done"
    BY <1>8, <1>16
  <2>2. ASSUME NEW p \in Products, Alone(p), p \in walk'.throughout, ~walk'.lost
        PROVE  walk'.got[p] = 1
    <3>1. PICK i \in 1 .. N : order[i] = p
      BY <1>6, <1>8, <1>9, <2>2
    <3>2. i <= from + Limit
      BY <1>5, <1>6, <1>7, <1>16, <3>1
    <3>. QED  BY <1>13, <2>2, <3>1, <3>2
  <2>3. \A p \in Products : (\A q \in Products \ {p} : createdAt'[q] # createdAt'[p])
                               => Alone(p)
    BY <1>3 DEF Alone
  <2>4. ListingComplete'
    <3>. HIDE DEF new
    <3>. QED  BY <1>12, <2>1, <2>2, <2>3 DEF ListingComplete
  <2>. QED  BY <1>14, <2>1, <2>4 DEF ListingInv
<1>. QED  BY <1>15, <1>16

LEMMA ListingStep == CatalogTypeOK /\ ListingInv /\ [Next]_vars => ListingInv'
<1>. SUFFICES ASSUME CatalogTypeOK, ListingInv, [Next]_vars PROVE ListingInv'
  OBVIOUS
<1>1. CASE UNCHANGED vars
  BY <1>1 DEF vars, ListingInv, ListedHaveDates, Listed, Delivered, Alone, Matching,
              ListingComplete
<1>2. /\ filed \in [Products -> Categories \cup {NoCategory, Absent}]
      /\ createdAt \in [Products -> 0 .. MaxTime] /\ ListedHaveDates
  BY DEF CatalogTypeOK, ListingInv
<1>3. ASSUME Watched, \A p \in Products : filed'[p] = Absent <=> filed[p] = Absent,
             createdAt' = createdAt
      PROVE  ListingInv'
  BY <1>2, <1>3, ListingWrite DEF Listed, ListedHaveDates
<1>4. ASSUME NEW c \in Categories, CategoryStep(c)
      PROVE  ListingInv'
  <2>1. ASSUME NEW under \in Exists \cup {NoCategory},
               CreateCategory(c, under) \/ UpdateCategory(c, under)
        PROVE  ListingInv'
    BY <1>3, <2>1 DEF CreateCategory, UpdateCategory, productVars
  <2>2. ASSUME RemoveCategory(c)
        PROVE  ListingInv'
    BY <1>2, <1>3, <2>2, NoRowIsNull DEF RemoveCategory
  <2>. QED  BY <1>4, <2>1, <2>2 DEF CategoryStep
<1>5. ASSUME NEW p \in Products, ProductStep(p)
      PROVE  ListingInv'
  <2>1. ASSUME NEW c \in Exists \cup {NoCategory}, NEW t \in 1 .. MaxTime,
               CreateProduct(p, c, t)
        PROVE  ListingInv'
    <3>1. /\ Watched /\ filed[p] = Absent /\ c # Absent
          /\ filed' = [filed EXCEPT ![p] = c]
          /\ createdAt' = [createdAt EXCEPT ![p] = t]
      BY <2>1, NoRowIsNull DEF CreateProduct, Exists
    <3>2. Listed' = Listed \cup {p} /\ p \notin Listed
      BY <1>2, <3>1 DEF Listed
    <3>3. ListedHaveDates'
      BY <1>2, <3>1, <3>2 DEF ListedHaveDates
    <3>4. \A q \in Listed : createdAt'[q] = createdAt[q]
      BY <1>2, <3>1, <3>2 DEF Listed
    <3>. QED  BY <3>1, <3>2, <3>3, <3>4, ListingWrite
  <2>2. ASSUME NEW c \in Exists \cup {NoCategory}, UpdateProduct(p, c)
        PROVE  ListingInv'
    BY <1>2, <1>3, <2>2, NoRowIsNull DEF UpdateProduct, Exists, Listed
  <2>3. ASSUME RemoveProduct(p)
        PROVE  ListingInv'
    BY <1>3, <2>3 DEF RemoveProduct
  <2>. QED  BY <1>5, <2>1, <2>2, <2>3 DEF ProductStep
<1>. QED  BY <1>1, <1>4, <1>5, ListingStart, ListingPage DEF Next

\* A client that pages by cursor is delivered every product that matches from
\* its first page to its last exactly once, and none twice, whatever is written
\* between its pages: a product that shares its createdAt with no other, and as
\* long as the last product of each page still matches at the next.
THEOREM EveryProductOnce == Spec => []ListingComplete
  BY ListingInit, ListingStep, ListingImplied, CatalogTypes, PTL DEF Spec
=============================================================================
