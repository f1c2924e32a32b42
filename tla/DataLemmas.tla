----------------------------- MODULE DataLemmas -----------------------------
(***************************************************************************)
(* Lemmas about the data of the models: induction, functions defined by    *)
(* recursion, and sums over finite sets (SumFunctionOnSet of the community *)
(* module Functions), which is how the modules of this project write the   *)
(* aggregates that the code asks of its database.                          *)
(*                                                                         *)
(* An induction is stated about the set of the numbers, or of the subsets, *)
(* for which the claim holds, and rests on the least counterexample that   *)
(* a well-founded order has.                                               *)
(***************************************************************************)
EXTENDS Integers, FiniteSets, Functions, FiniteSetTheorems, TLAPS

\* A set of numbers has a least one.
LEMMA LeastNumber ==
  ASSUME NEW T \in SUBSET Nat, T # {}
  PROVE  \E m \in T : \A n \in T : ~(n < m)
<1>. DEFINE Below == {ss \in Nat \X Nat : ss[1] < ss[2]}
<1>1. OpToRel(<, Nat) = Below
  BY DEF OpToRel
<1>2. IsWellFoundedOn(Below, Nat)
  BY <1>1, NatLessThanWellFounded
<1>3. PICK m \in T : \A n \in T : <<n, m>> \notin Below
  <2>. HIDE DEF Below
  <2>. QED  BY <1>2, WFMin
<1>. QED  BY <1>3

\* Induction: a set of numbers that has 0 and every successor has them all.
LEMMA AllNumbers ==
  ASSUME NEW T \in SUBSET Nat, 0 \in T, \A n \in T : n + 1 \in T
  PROVE  T = Nat
<1>. SUFFICES ASSUME T # Nat PROVE FALSE
  OBVIOUS
<1>1. PICK m \in Nat \ T : \A n \in Nat \ T : ~(n < m)
  <2>1. Nat \ T \in SUBSET Nat /\ Nat \ T # {}
    OBVIOUS
  <2>. QED  BY <2>1, LeastNumber
<1>2. m # 0
  OBVIOUS
<1>3. m - 1 \in Nat /\ m - 1 < m
  BY <1>2
<1>4. m - 1 \in T
  BY <1>1, <1>3
<1>. QED  BY <1>3, <1>4

\* Induction over the subsets of a finite set: what holds of a set as soon as it
\* holds of its proper subsets holds of all.
LEMMA AllSubsets ==
  ASSUME NEW S, IsFiniteSet(S), NEW T \in SUBSET (SUBSET S),
         \A u \in SUBSET S : (\A v \in SUBSET u : v # u => v \in T) => u \in T
  PROVE  T = SUBSET S
<1>. SUFFICES ASSUME T # SUBSET S PROVE FALSE
  OBVIOUS
<1>. DEFINE Missing == (SUBSET S) \ T
<1>1. Missing # {}
  OBVIOUS
<1>2. IsWellFoundedOn(StrictSubsetOrdering(S), SUBSET S)
  BY FS_StrictSubsetOrderingWellFounded, FS_FiniteSubsetsOfFinite
<1>3. Missing \subseteq SUBSET S
  OBVIOUS
<1>4. PICK u \in Missing : \A v \in Missing : <<v, u>> \notin StrictSubsetOrdering(S)
  <2>. HIDE DEF Missing
  <2>. QED  BY <1>1, <1>2, <1>3, WFMin
<1>5. ASSUME NEW v \in SUBSET u, v # u
      PROVE  v \in T
  <2>1. v \in SUBSET S
    OBVIOUS
  <2>2. <<v, u>> \in StrictSubsetOrdering(S)
    BY <1>5, <2>1 DEF StrictSubsetOrdering
  <2>. QED  BY <1>4, <2>1, <2>2
<1>. QED  BY <1>5

-----------------------------------------------------------------------------
(* The sequence a, K[a], K[K[a]], ... exists.                              *)

\* g is its beginning, up to the n-th.
Iterates(K, a, n, g) == /\ DOMAIN g = 0 .. n
                        /\ g[0] = a
                        /\ \A i \in 1 .. n : g[i] = K[g[i - 1]]

LEMMA BeginningExists ==
  ASSUME NEW K, NEW a
  PROVE  \A n \in Nat : \E g : Iterates(K, a, n, g)
<1>. DEFINE T == {n \in Nat : \E g : Iterates(K, a, n, g)}
<1>1. 0 \in T
  <2>1. Iterates(K, a, 0, [i \in 0 .. 0 |-> a])
    BY DEF Iterates
  <2>. QED  BY <2>1
<1>2. ASSUME NEW n \in T
      PROVE  n + 1 \in T
  <2>1. PICK g : Iterates(K, a, n, g)
    OBVIOUS
  <2>. DEFINE h == [i \in 0 .. (n + 1) |-> IF i = n + 1 THEN K[g[n]] ELSE g[i]]
  <2>2. Iterates(K, a, n + 1, h)
    BY <2>1 DEF Iterates
  <2>. HIDE DEF h
  <2>. QED  BY <2>2
<1>3. T = Nat
  <2>. HIDE DEF T
  <2>1. T \in SUBSET Nat
    BY DEF T
  <2>. QED  BY <1>1, <1>2, <2>1, AllNumbers
<1>. QED  BY <1>3

LEMMA BeginningsAgree ==
  ASSUME NEW K, NEW a, NEW m \in Nat, NEW n \in Nat, NEW g, NEW h,
         Iterates(K, a, m, g), Iterates(K, a, n, h)
  PROVE  \A i \in Nat : i <= m /\ i <= n => g[i] = h[i]
<1>. DEFINE T == {i \in Nat : i <= m /\ i <= n => g[i] = h[i]}
<1>1. 0 \in T
  BY DEF Iterates
<1>2. ASSUME NEW i \in T
      PROVE  i + 1 \in T
  <2>. SUFFICES ASSUME i + 1 <= m, i + 1 <= n PROVE g[i + 1] = h[i + 1]
    OBVIOUS
  <2>1. g[i] = h[i]
    OBVIOUS
  <2>2. i + 1 \in 1 .. m /\ i + 1 \in 1 .. n /\ (i + 1) - 1 = i
    OBVIOUS
  <2>3. g[i + 1] = K[g[(i + 1) - 1]] /\ h[i + 1] = K[h[(i + 1) - 1]]
    BY <2>2 DEF Iterates
  <2>. QED  BY <2>1, <2>2, <2>3
<1>3. T = Nat
  <2>. HIDE DEF T
  <2>1. T \in SUBSET Nat
    BY DEF T
  <2>. QED  BY <1>1, <1>2, <2>1, AllNumbers
<1>. QED  BY <1>3

LEMMA IterationExists ==
  ASSUME NEW D, NEW a \in D, NEW K \in [D -> D]
  PROVE  \E g \in [Nat -> D] : g[0] = a /\ \A n \in Nat : g[n + 1] = K[g[n]]
<1>. DEFINE part(n) == CHOOSE h : Iterates(K, a, n, h)
            g == [n \in Nat |-> part(n)[n]]
<1>1. \A n \in Nat : Iterates(K, a, n, part(n))
  BY Zenon, BeginningExists
<1>. HIDE DEF part
<1>2. g[0] = a
  BY <1>1 DEF Iterates
<1>3. ASSUME NEW n \in Nat PROVE g[n + 1] = K[g[n]]
  <2>1. Iterates(K, a, n, part(n)) /\ Iterates(K, a, n + 1, part(n + 1))
    BY <1>1
  <2>2. n <= n /\ n <= n + 1 /\ n + 1 \in Nat /\ n + 1 \in 1 .. (n + 1)
        /\ (n + 1) - 1 = n
    OBVIOUS
  <2>3. part(n)[n] = part(n + 1)[n]
    BY <2>1, <2>2, BeginningsAgree
  <2>4. part(n + 1)[n + 1] = K[part(n + 1)[n]]
    BY <2>1, <2>2 DEF Iterates
  <2>. QED  BY <2>2, <2>3, <2>4
<1>. DEFINE T == {n \in Nat : g[n] \in D}
<1>4. T = Nat
  <2>1. T \in SUBSET Nat
    BY DEF T
  <2>2. 0 \in T
    BY <1>2
  <2>3. ASSUME NEW n \in T PROVE n + 1 \in T
    BY <1>3
  <2>. HIDE DEF T
  <2>. QED  BY <2>1, <2>2, <2>3, AllNumbers
<1>5. g \in [Nat -> D]
  BY <1>4
<1>. HIDE DEF g
<1>. QED  BY <1>2, <1>3, <1>5

-----------------------------------------------------------------------------
(* The recursive function behind a sum exists.                             *)

AnyOf(s) == CHOOSE x \in s : TRUE

\* g sums f over the sets of D, an element at a time.
Unrolls(f, D, g) ==
    g = [s \in D |-> IF s = {} THEN 0 ELSE f[AnyOf(s)] + g[s \ {AnyOf(s)}]]

LEMMA AnyIsElement == ASSUME NEW s, s # {} PROVE AnyOf(s) \in s
  BY DEF AnyOf

UpToSize(S, n) == {s \in SUBSET S : Cardinality(s) <= n}

LEMMA SmallerWithout ==
  ASSUME NEW S, IsFiniteSet(S), NEW n \in Nat, NEW s \in UpToSize(S, n + 1), s # {}
  PROVE  s \ {AnyOf(s)} \in UpToSize(S, n)
<1>1. IsFiniteSet(s) /\ Cardinality(s) \in Nat /\ Cardinality(s) <= n + 1
  BY FS_Subset, FS_CardinalityType DEF UpToSize
<1>2. Cardinality(s \ {AnyOf(s)}) = Cardinality(s) - 1
  BY <1>1, AnyIsElement, FS_RemoveElement
<1>. QED  BY <1>1, <1>2 DEF UpToSize

LEMMA UnrollingExists ==
  ASSUME NEW f, NEW S, IsFiniteSet(S)
  PROVE  \E g : Unrolls(f, SUBSET S, g)
<1>. DEFINE T == {n \in Nat : \E g : Unrolls(f, UpToSize(S, n), g)}
<1>1. 0 \in T
  <2>1. UpToSize(S, 0) = {{}}
    <3>1. ASSUME NEW s \in SUBSET S
          PROVE  Cardinality(s) <= 0 <=> s = {}
      BY FS_Subset, FS_CardinalityType, FS_EmptySet
    <3>. QED  BY <3>1 DEF UpToSize
  <2>2. Unrolls(f, {{}}, [s \in {{}} |-> 0])
    BY DEF Unrolls
  <2>. QED  BY <2>1, <2>2
<1>2. ASSUME NEW n \in T
      PROVE  n + 1 \in T
  <2>1. n \in Nat /\ n + 1 \in Nat
    OBVIOUS
  <2>2. PICK g : Unrolls(f, UpToSize(S, n), g)
    OBVIOUS
  <2>. DEFINE h == [s \in UpToSize(S, n + 1) |->
                      IF s = {} THEN 0 ELSE f[AnyOf(s)] + g[s \ {AnyOf(s)}]]
  <2>3. ASSUME NEW s \in UpToSize(S, n)
        PROVE  s \in UpToSize(S, n + 1) /\ h[s] = g[s]
    <3>1. s \in UpToSize(S, n + 1)
      BY <2>1, FS_Subset, FS_CardinalityType DEF UpToSize
    <3>2. g[s] = IF s = {} THEN 0 ELSE f[AnyOf(s)] + g[s \ {AnyOf(s)}]
      BY <2>2 DEF Unrolls
    <3>. QED  BY <3>1, <3>2
  <2>4. ASSUME NEW s \in UpToSize(S, n + 1), s # {}
        PROVE  h[s] = f[AnyOf(s)] + h[s \ {AnyOf(s)}]
    <3>1. s \ {AnyOf(s)} \in UpToSize(S, n)
      BY <2>1, <2>4, SmallerWithout
    <3>2. h[s \ {AnyOf(s)}] = g[s \ {AnyOf(s)}]
      BY <2>3, <3>1
    <3>3. h[s] = f[AnyOf(s)] + g[s \ {AnyOf(s)}]
      BY <2>4
    <3>. QED  BY <3>2, <3>3
  <2>5. h = [s \in UpToSize(S, n + 1) |->
               IF s = {} THEN 0 ELSE f[AnyOf(s)] + h[s \ {AnyOf(s)}]]
    <3>1. ASSUME NEW s \in UpToSize(S, n + 1)
          PROVE  h[s] = IF s = {} THEN 0 ELSE f[AnyOf(s)] + h[s \ {AnyOf(s)}]
      <4>1. CASE s = {}
        BY <4>1
      <4>2. CASE s # {}
        BY <2>4, <4>2
      <4>. QED  BY <4>1, <4>2
    <3>2. h = [s \in UpToSize(S, n + 1) |-> h[s]]
      OBVIOUS
    <3>. HIDE DEF h
    <3>. QED  BY <3>1, <3>2
  <2>6. Unrolls(f, UpToSize(S, n + 1), h)
    <3>. HIDE DEF h
    <3>. QED  BY <2>5 DEF Unrolls
  <2>. HIDE DEF h
  <2>. QED  BY <2>1, <2>6
<1>3. T = Nat
  <2>. HIDE DEF T
  <2>1. T \in SUBSET Nat
    BY DEF T
  <2>. QED  BY <1>1, <1>2, <2>1, AllNumbers
<1>4. Cardinality(S) \in Nat /\ UpToSize(S, Cardinality(S)) = SUBSET S
  BY FS_CardinalityType, FS_Subset DEF UpToSize
<1>5. Cardinality(S) \in T
  <2>. HIDE DEF T
  <2>. QED  BY <1>3, <1>4
<1>6. \E g : Unrolls(f, UpToSize(S, Cardinality(S)), g)
  BY <1>5
<1>. QED  BY <1>4, <1>6

\* Over a subset, the sums are the same whatever finite set they were unrolled for.
LEMMA UnrollingsAgree ==
  ASSUME NEW f, NEW S, IsFiniteSet(S), NEW R, NEW g, NEW h, S \subseteq R,
         Unrolls(f, SUBSET S, g), Unrolls(f, SUBSET R, h)
  PROVE  g[S] = h[S]
<1>. DEFINE T == {u \in SUBSET S : g[u] = h[u]}
<1>1. ASSUME NEW u \in SUBSET S, \A v \in SUBSET u : v # u => v \in T
      PROVE  u \in T
  <2>0. u \in SUBSET R
    OBVIOUS
  <2>1. g[u] = IF u = {} THEN 0 ELSE f[AnyOf(u)] + g[u \ {AnyOf(u)}]
    BY DEF Unrolls
  <2>2. h[u] = IF u = {} THEN 0 ELSE f[AnyOf(u)] + h[u \ {AnyOf(u)}]
    BY <2>0 DEF Unrolls
  <2>3. CASE u = {}
    BY <2>1, <2>2, <2>3
  <2>4. CASE u # {}
    <3>1. u \ {AnyOf(u)} \in SUBSET u /\ u \ {AnyOf(u)} # u
      BY <2>4, AnyIsElement
    <3>2. u \ {AnyOf(u)} \in T
      BY <1>1, <3>1
    <3>. QED  BY <2>1, <2>2, <2>4, <3>2
  <2>. QED  BY <2>3, <2>4
<1>2. T = SUBSET S
  <2>. HIDE DEF T
  <2>1. T \in SUBSET (SUBSET S)
    BY DEF T
  <2>. QED  BY <1>1, <2>1, AllSubsets
<1>. QED  BY <1>2

-----------------------------------------------------------------------------
(* What a sum is.                                                          *)

LEMMA SumUnrolled ==
  ASSUME NEW f, NEW S, IsFiniteSet(S)
  PROVE  \E g : Unrolls(f, SUBSET S, g) /\ SumFunctionOnSet(f, S) = g[S]
<1>. DEFINE g == CHOOSE h : Unrolls(f, SUBSET S, h)
<1>1. Unrolls(f, SUBSET S, g)
  BY Zenon, UnrollingExists
<1>2. SumFunctionOnSet(f, S) = g[S]
  BY Zenon DEF SumFunctionOnSet, FoldFunctionOnSet, MapThenFoldSet, Unrolls, AnyOf
<1>. QED  BY Zenon, <1>1, <1>2

LEMMA SumRecursion ==
  ASSUME NEW f, NEW S, IsFiniteSet(S)
  PROVE  SumFunctionOnSet(f, S) =
           IF S = {} THEN 0
           ELSE f[AnyOf(S)] + SumFunctionOnSet(f, S \ {AnyOf(S)})
<1>. DEFINE R == S \ {AnyOf(S)}
<1>1. PICK g : Unrolls(f, SUBSET S, g) /\ SumFunctionOnSet(f, S) = g[S]
  BY SumUnrolled
<1>2. IsFiniteSet(R) /\ R \subseteq S
  BY FS_RemoveElement
<1>3. PICK h : Unrolls(f, SUBSET R, h) /\ SumFunctionOnSet(f, R) = h[R]
  <2>. HIDE DEF R
  <2>. QED  BY <1>2, SumUnrolled
<1>4. h[R] = g[R]
  <2>1. IsFiniteSet(R) /\ R \subseteq S /\ Unrolls(f, SUBSET R, h) /\ Unrolls(f, SUBSET S, g)
    BY <1>1, <1>2, <1>3
  <2>. HIDE DEF R
  <2>. QED  BY <2>1, UnrollingsAgree
<1>5. g[S] = IF S = {} THEN 0 ELSE f[AnyOf(S)] + g[R]
  BY <1>1 DEF Unrolls
<1>. QED  BY <1>1, <1>3, <1>4, <1>5

LEMMA SumEmpty == \A f : SumFunctionOnSet(f, {}) = 0
  BY SumRecursion, FS_EmptySet

\* A sum of integers, one element split off: whichever it is.
LEMMA SumSplit ==
  ASSUME NEW S, IsFiniteSet(S), NEW f, \A x \in S : f[x] \in Int
  PROVE  /\ SumFunctionOnSet(f, S) \in Int
         /\ \A x \in S : SumFunctionOnSet(f, S) = f[x] + SumFunctionOnSet(f, S \ {x})
<1>. DEFINE Sum(u) == SumFunctionOnSet(f, u)
            Good(u) == Sum(u) \in Int /\ \A x \in u : Sum(u) = f[x] + Sum(u \ {x})
            T == {u \in SUBSET S : Good(u)}
<1>1. ASSUME NEW u \in SUBSET S, \A v \in SUBSET u : v # u => v \in T
      PROVE  u \in T
  <2>1. IsFiniteSet(u)
    BY FS_Subset
  <2>2. CASE u = {}
    BY <2>2, SumEmpty
  <2>3. CASE u # {}
    <3>. DEFINE c == AnyOf(u)
    <3>1. c \in u /\ Sum(u) = f[c] + Sum(u \ {c})
      <4>1. Sum(u) = IF u = {} THEN 0 ELSE f[c] + Sum(u \ {c})
        BY <2>1, SumRecursion
      <4>. QED  BY <2>3, <4>1, AnyIsElement
    <3>. HIDE DEF c
    <3>2. ASSUME NEW x \in u
          PROVE  u \ {x} \in T /\ Good(u \ {x}) /\ f[x] \in Int
      <4>1. u \ {x} \in SUBSET u /\ u \ {x} # u
        OBVIOUS
      <4>. QED  BY <1>1, <4>1
    <3>3. Sum(u) \in Int
      BY <3>1, <3>2
    <3>4. ASSUME NEW x \in u
          PROVE  Sum(u) = f[x] + Sum(u \ {x})
      <4>1. CASE x = c
        BY <3>1, <4>1
      <4>2. CASE x # c
        <5>. DEFINE w == (u \ {c}) \ {x}
        <5>1. w = (u \ {x}) \ {c} /\ x \in u \ {c} /\ c \in u \ {x}
          BY <3>1, <4>2
        <5>2. Sum(u \ {c}) = f[x] + Sum(w)
          BY <3>1, <3>2, <5>1
        <5>3. Sum(u \ {x}) = f[c] + Sum(w)
          BY <3>2, <5>1
        <5>4. Sum(w) \in Int /\ f[c] \in Int /\ f[x] \in Int
          <6>1. w \in SUBSET u /\ w # u
            BY <5>1
          <6>. QED  BY <1>1, <3>1, <3>2, <6>1
        <5>. HIDE DEF w, Sum
        <5>. QED  BY <3>1, <5>2, <5>3, <5>4
      <4>. QED  BY <4>1, <4>2
    <3>. QED  BY <3>3, <3>4
  <2>. QED  BY <2>2, <2>3
<1>2. T = SUBSET S
  <2>. HIDE DEF T
  <2>1. T \in SUBSET (SUBSET S)
    BY DEF T
  <2>. QED  BY <1>1, <2>1, AllSubsets
<1>. QED  BY <1>2

LEMMA SumInt ==
  ASSUME NEW S, IsFiniteSet(S), NEW f, \A x \in S : f[x] \in Int
  PROVE  SumFunctionOnSet(f, S) \in Int
  BY SumSplit

LEMMA SumWithout ==
  ASSUME NEW S, IsFiniteSet(S), NEW f, \A x \in S : f[x] \in Int, NEW x \in S
  PROVE  /\ SumFunctionOnSet(f, S \ {x}) \in Int
         /\ SumFunctionOnSet(f, S) = f[x] + SumFunctionOnSet(f, S \ {x})
<1>1. IsFiniteSet(S \ {x})
  BY FS_RemoveElement
<1>. QED  BY <1>1, SumSplit, SumInt

LEMMA SumWith ==
  ASSUME NEW S, IsFiniteSet(S), NEW x, x \notin S, NEW f,
         \A y \in S \cup {x} : f[y] \in Int
  PROVE  /\ IsFiniteSet(S \cup {x})
         /\ SumFunctionOnSet(f, S) \in Int
         /\ SumFunctionOnSet(f, S \cup {x}) = SumFunctionOnSet(f, S) + f[x]
<1>1. IsFiniteSet(S \cup {x})
  BY FS_AddElement
<1>2. (S \cup {x}) \ {x} = S
  OBVIOUS
<1>3. SumFunctionOnSet(f, S) \in Int
  BY SumInt
<1>4. SumFunctionOnSet(f, S \cup {x}) = f[x] + SumFunctionOnSet(f, (S \cup {x}) \ {x})
  <2>. DEFINE R == S \cup {x}
  <2>1. x \in R /\ IsFiniteSet(R) /\ \A y \in R : f[y] \in Int
    BY <1>1
  <2>. HIDE DEF R
  <2>2. SumFunctionOnSet(f, R) = f[x] + SumFunctionOnSet(f, R \ {x})
    BY <2>1, SumSplit
  <2>. QED  BY <2>2 DEF R
<1>5. SumFunctionOnSet(f, (S \cup {x}) \ {x}) = SumFunctionOnSet(f, S)
  BY Zenon, <1>2
<1>6. f[x] \in Int
  OBVIOUS
<1>. QED  BY <1>1, <1>3, <1>4, <1>5, <1>6

LEMMA SumSingleton ==
  ASSUME NEW x, NEW f, f[x] \in Int
  PROVE  SumFunctionOnSet(f, {x}) = f[x]
<1>1. x \in {x} /\ IsFiniteSet({x}) /\ \A y \in {x} : f[y] \in Int
  BY FS_Singleton
<1>2. SumFunctionOnSet(f, {x}) = f[x] + SumFunctionOnSet(f, {x} \ {x})
  <2>. DEFINE R == {x}
  <2>. HIDE DEF R
  <2>1. x \in R /\ IsFiniteSet(R) /\ \A y \in R : f[y] \in Int
    BY <1>1 DEF R
  <2>2. SumFunctionOnSet(f, R) = f[x] + SumFunctionOnSet(f, R \ {x})
    BY <2>1, SumSplit
  <2>. QED  BY <2>2 DEF R
<1>3. {x} \ {x} = {}
  OBVIOUS
<1>4. SumFunctionOnSet(f, {x} \ {x}) = 0
  BY Zenon, <1>3, SumEmpty
<1>. QED  BY <1>2, <1>4

-----------------------------------------------------------------------------
(* Sums compared.                                                          *)

LEMMA SumSame ==
  ASSUME NEW S, IsFiniteSet(S), NEW f, NEW g, \A x \in S : f[x] = g[x]
  PROVE  SumFunctionOnSet(f, S) = SumFunctionOnSet(g, S)
<1>. DEFINE T == {u \in SUBSET S : SumFunctionOnSet(f, u) = SumFunctionOnSet(g, u)}
<1>1. ASSUME NEW u \in SUBSET S, \A v \in SUBSET u : v # u => v \in T
      PROVE  u \in T
  <2>. DEFINE c == AnyOf(u)
              w == u \ {c}
  <2>1. IsFiniteSet(u)
    BY FS_Subset
  <2>2. SumFunctionOnSet(f, u) = IF u = {} THEN 0 ELSE f[c] + SumFunctionOnSet(f, w)
    BY <2>1, SumRecursion
  <2>3. SumFunctionOnSet(g, u) = IF u = {} THEN 0 ELSE g[c] + SumFunctionOnSet(g, w)
    BY <2>1, SumRecursion
  <2>4. CASE u = {}
    BY <2>2, <2>3, <2>4
  <2>5. CASE u # {}
    <3>1. c \in u
      BY <2>5, AnyIsElement
    <3>2. w \in T
      BY <1>1, <3>1
    <3>. HIDE DEF c
    <3>3. SumFunctionOnSet(f, w) = SumFunctionOnSet(g, w) /\ f[c] = g[c]
      BY <3>1, <3>2
    <3>. QED  BY <2>2, <2>3, <2>5, <3>3
  <2>. QED  BY <2>4, <2>5
<1>2. T = SUBSET S
  <2>. HIDE DEF T
  <2>1. T \in SUBSET (SUBSET S)
    BY DEF T
  <2>. QED  BY <1>1, <2>1, AllSubsets
<1>. QED  BY <1>2

LEMMA SumAdd ==
  ASSUME NEW S, IsFiniteSet(S), NEW f, NEW g, NEW h,
         \A x \in S : f[x] \in Int /\ g[x] \in Int /\ h[x] = f[x] + g[x]
  PROVE  SumFunctionOnSet(h, S) = SumFunctionOnSet(f, S) + SumFunctionOnSet(g, S)
<1>. DEFINE T == {u \in SUBSET S : SumFunctionOnSet(h, u) =
                     SumFunctionOnSet(f, u) + SumFunctionOnSet(g, u)}
<1>1. ASSUME NEW u \in SUBSET S, \A v \in SUBSET u : v # u => v \in T
      PROVE  u \in T
  <2>1. IsFiniteSet(u)
    BY FS_Subset
  <2>2. CASE u = {}
    BY <2>2, SumEmpty
  <2>3. CASE u # {}
    <3>1. PICK c : c \in u
      BY <2>3
    <3>. DEFINE w == u \ {c}
    <3>2. w \in T
      <4>1. w \in SUBSET u /\ w # u
        BY <3>1
      <4>. QED  BY <1>1, <4>1
    <3>3. f[c] \in Int /\ g[c] \in Int /\ h[c] = f[c] + g[c]
      BY <3>1
    <3>4. /\ SumFunctionOnSet(f, u) = f[c] + SumFunctionOnSet(f, w)
          /\ SumFunctionOnSet(f, w) \in Int
      <4>1. \A x \in u : f[x] \in Int
        OBVIOUS
      <4>. QED  BY <2>1, <3>1, <4>1, SumWithout
    <3>5. /\ SumFunctionOnSet(g, u) = g[c] + SumFunctionOnSet(g, w)
          /\ SumFunctionOnSet(g, w) \in Int
      <4>1. \A x \in u : g[x] \in Int
        OBVIOUS
      <4>. QED  BY <2>1, <3>1, <4>1, SumWithout
    <3>6. SumFunctionOnSet(h, u) = h[c] + SumFunctionOnSet(h, w)
      <4>1. \A x \in u : h[x] \in Int
        OBVIOUS
      <4>. QED  BY <2>1, <3>1, <4>1, SumWithout
    <3>7. SumFunctionOnSet(h, w) = SumFunctionOnSet(f, w) + SumFunctionOnSet(g, w)
      BY <3>2
    <3>. HIDE DEF w
    <3>. QED  BY <3>3, <3>4, <3>5, <3>6, <3>7
  <2>. QED  BY <2>2, <2>3
<1>2. T = SUBSET S
  <2>. HIDE DEF T
  <2>1. T \in SUBSET (SUBSET S)
    BY DEF T
  <2>. QED  BY <1>1, <2>1, AllSubsets
<1>. QED  BY <1>2

\* A sum of numbers from 0 on is one, and 0 only if they all are.
LEMMA SumNat ==
  ASSUME NEW S, IsFiniteSet(S), NEW f, \A x \in S : f[x] \in Nat
  PROVE  /\ SumFunctionOnSet(f, S) \in Nat
         /\ \A x \in S : f[x] <= SumFunctionOnSet(f, S)
<1>. DEFINE Sum(u) == SumFunctionOnSet(f, u)
            T == {u \in SUBSET S : Sum(u) \in Nat}
<1>0. \A u \in SUBSET S : \A x \in u : /\ Sum(u) = f[x] + Sum(u \ {x})
                                      /\ f[x] \in Nat
  <2>. SUFFICES ASSUME NEW u \in SUBSET S, NEW x \in u
                PROVE  Sum(u) = f[x] + Sum(u \ {x}) /\ f[x] \in Nat
    OBVIOUS
  <2>1. IsFiniteSet(u) /\ \A y \in u : f[y] \in Int
    BY FS_Subset
  <2>. QED  BY <2>1, SumWithout
<1>1. ASSUME NEW u \in SUBSET S, \A v \in SUBSET u : v # u => v \in T
      PROVE  u \in T
  <2>1. CASE u = {}
    BY <2>1, SumEmpty
  <2>2. CASE u # {}
    <3>1. PICK x : x \in u
      BY <2>2
    <3>2. u \ {x} \in T
      <4>1. u \ {x} \in SUBSET u /\ u \ {x} # u
        BY <3>1
      <4>. QED  BY <1>1, <4>1
    <3>3. Sum(u) = f[x] + Sum(u \ {x}) /\ f[x] \in Nat /\ Sum(u \ {x}) \in Nat
      BY <1>0, <3>1, <3>2
    <3>. HIDE DEF Sum
    <3>. QED  BY <3>3
  <2>. QED  BY <2>1, <2>2
<1>2. T = SUBSET S
  <2>. HIDE DEF T
  <2>1. T \in SUBSET (SUBSET S)
    BY DEF T
  <2>. QED  BY <1>1, <2>1, AllSubsets
<1>3. \A u \in SUBSET S : Sum(u) \in Nat
  BY <1>2
<1>4. ASSUME NEW x \in S PROVE f[x] <= Sum(S)
  <2>1. Sum(S) = f[x] + Sum(S \ {x}) /\ f[x] \in Nat /\ Sum(S \ {x}) \in Nat
    BY <1>0, <1>3
  <2>. HIDE DEF Sum
  <2>. QED  BY <2>1
<1>. QED  BY <1>3, <1>4

LEMMA SumZero ==
  ASSUME NEW S, IsFiniteSet(S), NEW f, \A x \in S : f[x] = 0
  PROVE  SumFunctionOnSet(f, S) = 0
<1>. DEFINE T == {u \in SUBSET S : SumFunctionOnSet(f, u) = 0}
<1>1. ASSUME NEW u \in SUBSET S, \A v \in SUBSET u : v # u => v \in T
      PROVE  u \in T
  <2>1. IsFiniteSet(u) /\ \A y \in u : f[y] \in Int
    BY FS_Subset
  <2>2. CASE u = {}
    BY <2>2, SumEmpty
  <2>3. CASE u # {}
    <3>1. PICK x : x \in u
      BY <2>3
    <3>2. u \ {x} \in SUBSET u /\ u \ {x} # u
      BY <3>1
    <3>3. SumFunctionOnSet(f, u \ {x}) = 0
      BY <1>1, <3>2
    <3>. QED  BY <2>1, <3>1, <3>3, SumWithout
  <2>. QED  BY <2>2, <2>3
<1>2. T = SUBSET S
  <2>. HIDE DEF T
  <2>1. T \in SUBSET (SUBSET S)
    BY DEF T
  <2>. QED  BY <1>1, <2>1, AllSubsets
<1>. QED  BY <1>2

LEMMA SumUnion ==
  ASSUME NEW R, IsFiniteSet(R), NEW S, IsFiniteSet(S), R \cap S = {},
         NEW f, \A x \in R \cup S : f[x] \in Int
  PROVE  /\ IsFiniteSet(R \cup S)
         /\ SumFunctionOnSet(f, R \cup S)
              = SumFunctionOnSet(f, R) + SumFunctionOnSet(f, S)
<1>. DEFINE Sum(u) == SumFunctionOnSet(f, u)
            T == {u \in SUBSET S : Sum(R \cup u) = Sum(R) + Sum(u)}
<1>0. Sum(R) \in Int
  BY SumInt
<1>1. ASSUME NEW u \in SUBSET S, \A v \in SUBSET u : v # u => v \in T
      PROVE  u \in T
  <2>1. IsFiniteSet(u) /\ IsFiniteSet(R \cup u)
    BY FS_Subset, FS_Union
  <2>2. CASE u = {}
    <3>1. R \cup {} = R
      OBVIOUS
    <3>2. Sum(R \cup {}) = Sum(R)
      BY Zenon, <3>1
    <3>. QED  BY <1>0, <2>2, <3>2, SumEmpty
  <2>3. CASE u # {}
    <3>1. PICK x : x \in u
      BY <2>3
    <3>2. u \ {x} \in T
      <4>1. u \ {x} \in SUBSET u /\ u \ {x} # u
        BY <3>1
      <4>. QED  BY <1>1, <4>1
    <3>3. Sum(u) = f[x] + Sum(u \ {x}) /\ Sum(u \ {x}) \in Int /\ f[x] \in Int
      <4>1. \A y \in u : f[y] \in Int
        OBVIOUS
      <4>. QED  BY <2>1, <3>1, <4>1, SumWithout
    <3>4. Sum(R \cup u) = f[x] + Sum((R \cup u) \ {x})
      <4>. DEFINE ru == R \cup u
      <4>1. x \in ru /\ \A y \in ru : f[y] \in Int
        BY <3>1
      <4>2. IsFiniteSet(ru)
        BY <2>1
      <4>. HIDE DEF ru
      <4>3. Sum(ru) = f[x] + Sum(ru \ {x})
        BY <4>1, <4>2, SumWithout
      <4>. QED  BY <4>3 DEF ru
    <3>5. (R \cup u) \ {x} = R \cup (u \ {x})
      BY <3>1
    <3>6. Sum((R \cup u) \ {x}) = Sum(R \cup (u \ {x}))
      BY Zenon, <3>5
    <3>7. Sum(R \cup (u \ {x})) = Sum(R) + Sum(u \ {x})
      BY <3>2
    <3>. HIDE DEF Sum
    <3>8. Sum(R \cup u) = Sum(R) + Sum(u)
      BY <1>0, <3>3, <3>4, <3>6, <3>7
    <3>. QED  BY <3>8 DEF Sum
  <2>. QED  BY <2>2, <2>3
<1>2. T = SUBSET S
  <2>. HIDE DEF T
  <2>1. T \in SUBSET (SUBSET S)
    BY DEF T
  <2>. QED  BY <1>1, <2>1, AllSubsets
<1>. QED  BY <1>2, FS_Union

\* A sum whose terms grow, and one of them strictly, grows.
LEMMA SumGrows ==
  ASSUME NEW S, IsFiniteSet(S), NEW f, NEW g,
         \A x \in S : f[x] \in Int /\ g[x] \in Int /\ f[x] <= g[x]
  PROVE  /\ SumFunctionOnSet(f, S) <= SumFunctionOnSet(g, S)
         /\ (\E x \in S : f[x] < g[x])
              => SumFunctionOnSet(f, S) < SumFunctionOnSet(g, S)
<1>. DEFINE d == [x \in S |-> g[x] - f[x]]
<1>1. \A x \in S : d[x] \in Nat
  OBVIOUS
<1>2. \A x \in S : f[x] \in Int /\ d[x] \in Int /\ g[x] = f[x] + d[x]
  OBVIOUS
<1>3. \A x \in S : f[x] < g[x] => d[x] > 0
  OBVIOUS
<1>. HIDE DEF d
<1>4. SumFunctionOnSet(g, S) = SumFunctionOnSet(f, S) + SumFunctionOnSet(d, S)
  BY <1>2, SumAdd
<1>5. /\ SumFunctionOnSet(d, S) \in Nat
      /\ \A x \in S : d[x] <= SumFunctionOnSet(d, S)
  BY <1>1, SumNat
<1>6. SumFunctionOnSet(f, S) \in Int
  BY <1>2, SumInt
<1>. QED  BY <1>1, <1>3, <1>4, <1>5, <1>6

\* A common factor.
LEMMA SumScale ==
  ASSUME NEW S, IsFiniteSet(S), NEW c \in Int, NEW f, NEW g,
         \A x \in S : f[x] \in Int /\ g[x] = c * f[x]
  PROVE  SumFunctionOnSet(g, S) = c * SumFunctionOnSet(f, S)
<1>. DEFINE T == {u \in SUBSET S : SumFunctionOnSet(g, u) = c * SumFunctionOnSet(f, u)}
<1>1. ASSUME NEW u \in SUBSET S, \A v \in SUBSET u : v # u => v \in T
      PROVE  u \in T
  <2>1. IsFiniteSet(u) /\ (\A x \in u : f[x] \in Int) /\ (\A x \in u : g[x] \in Int)
    BY FS_Subset
  <2>2. CASE u = {}
    <3>1. SumFunctionOnSet(g, u) = 0 /\ SumFunctionOnSet(f, u) = 0
      BY <2>2, SumEmpty
    <3>. QED  BY <3>1
  <2>3. CASE u # {}
    <3>1. PICK x : x \in u
      BY <2>3
    <3>2. u \ {x} \in T
      BY <1>1, <3>1
    <3>3. SumFunctionOnSet(f, u) = f[x] + SumFunctionOnSet(f, u \ {x})
          /\ SumFunctionOnSet(f, u \ {x}) \in Int
      BY <2>1, <3>1, SumWithout
    <3>4. SumFunctionOnSet(g, u) = g[x] + SumFunctionOnSet(g, u \ {x})
      BY <2>1, <3>1, SumWithout
    <3>5. SumFunctionOnSet(g, u) = c * f[x] + c * SumFunctionOnSet(f, u \ {x})
      BY <3>1, <3>2, <3>4
    <3>6. \A a, b \in Int : c * a + c * b = c * (a + b)
      OBVIOUS
    <3>7. f[x] \in Int
      BY <3>1
    <3>. QED  BY <3>3, <3>5, <3>6, <3>7
  <2>. QED  BY <2>2, <2>3
<1>. HIDE DEF T
<1>2. T \in SUBSET (SUBSET S)
  BY DEF T
<1>3. T = SUBSET S
  BY <1>1, <1>2, AllSubsets
<1>4. S \in T
  BY <1>3
<1>. QED  BY <1>4 DEF T

\* The same terms under other names.
LEMMA SumReindex ==
  ASSUME NEW S, IsFiniteSet(S), NEW R, NEW h \in [S -> R],
         \A x, y \in S : h[x] = h[y] => x = y,
         \A r \in R : \E x \in S : h[x] = r,
         NEW f, NEW g, \A x \in S : f[h[x]] \in Int /\ g[x] = f[h[x]]
  PROVE  IsFiniteSet(R) /\ SumFunctionOnSet(f, R) = SumFunctionOnSet(g, S)
<1>. DEFINE Image(u) == {h[x] : x \in u}
            T == {u \in SUBSET S : /\ IsFiniteSet(Image(u))
                                  /\ SumFunctionOnSet(f, Image(u)) = SumFunctionOnSet(g, u)}
<1>1. ASSUME NEW u \in SUBSET S, \A v \in SUBSET u : v # u => v \in T
      PROVE  u \in T
  <2>1. IsFiniteSet(u) /\ (\A x \in u : g[x] \in Int)
    BY FS_Subset
  <2>2. CASE u = {}
    <3>1. Image(u) = {}
      BY <2>2
    <3>. HIDE DEF Image
    <3>. QED  BY <2>2, <3>1, SumEmpty, FS_EmptySet
  <2>3. CASE u # {}
    <3>1. PICK x : x \in u
      BY <2>3
    <3>. DEFINE v == u \ {x}
                a == h[x]
                J == Image(v)
    <3>2. v \in T /\ v \in SUBSET S
      BY <1>1, <3>1
    <3>3. Image(u) = J \cup {a} /\ a \notin J /\ \A y \in J \cup {a} : f[y] \in Int
      BY <3>1
    <3>4. IsFiniteSet(J) /\ SumFunctionOnSet(f, J) = SumFunctionOnSet(g, v)
      BY <3>2
    <3>5. SumFunctionOnSet(g, u) = g[x] + SumFunctionOnSet(g, v)
          /\ SumFunctionOnSet(g, v) \in Int
      BY <2>1, <3>1, SumWithout
    <3>6. f[a] = g[x] /\ g[x] \in Int
      BY <3>1
    <3>. HIDE DEF J, a, v
    <3>7. IsFiniteSet(J \cup {a})
          /\ SumFunctionOnSet(f, J \cup {a}) = SumFunctionOnSet(f, J) + f[a]
      BY <3>3, <3>4, SumWith
    <3>8. SumFunctionOnSet(f, J \cup {a}) = SumFunctionOnSet(g, u)
      BY <3>4, <3>5, <3>6, <3>7
    <3>. HIDE DEF Image
    <3>9. IsFiniteSet(Image(u)) /\ SumFunctionOnSet(f, Image(u)) = SumFunctionOnSet(g, u)
      BY Zenon, <3>3, <3>7, <3>8
    <3>. QED  BY <3>9
  <2>. QED  BY <2>2, <2>3
<1>. HIDE DEF T
<1>2. T \in SUBSET (SUBSET S)
  BY DEF T
<1>3. T = SUBSET S
  BY <1>1, <1>2, AllSubsets
<1>4. S \in T
  BY <1>3
<1>5. Image(S) = R
  OBVIOUS
<1>. HIDE DEF Image
<1>. QED  BY <1>4, <1>5 DEF T

\* A sum taken class by class.
ByClass(f, S, key, K, g) ==
    /\ \A x \in S : key[x] \in K
    /\ \A k \in K : g[k] = SumFunctionOnSet(f, {x \in S : key[x] = k})

LEMMA SumPartition ==
  ASSUME NEW S, IsFiniteSet(S), NEW K, IsFiniteSet(K), NEW key,
         NEW f, \A x \in S : f[x] \in Int, NEW g, ByClass(f, S, key, K, g)
  PROVE  SumFunctionOnSet(f, S) = SumFunctionOnSet(g, K)
<1>. DEFINE Of(u) == {x \in S : key[x] \in u}
            Class(k) == {x \in S : key[x] = k}
            T == {u \in SUBSET K : SumFunctionOnSet(f, Of(u)) = SumFunctionOnSet(g, u)}
<1>0. \A R \in SUBSET S : IsFiniteSet(R) /\ SumFunctionOnSet(f, R) \in Int
  <2>. SUFFICES ASSUME NEW R \in SUBSET S
                PROVE  IsFiniteSet(R) /\ SumFunctionOnSet(f, R) \in Int
    OBVIOUS
  <2>1. IsFiniteSet(R) /\ \A x \in R : f[x] \in Int
    BY FS_Subset
  <2>. QED  BY <2>1, SumInt
<1>00. \A k \in K : g[k] \in Int /\ g[k] = SumFunctionOnSet(f, Class(k))
  BY <1>0 DEF ByClass
<1>1. ASSUME NEW u \in SUBSET K, \A v \in SUBSET u : v # u => v \in T
      PROVE  u \in T
  <2>1. IsFiniteSet(u) /\ (\A x \in u : g[x] \in Int)
    BY <1>00, FS_Subset
  <2>2. CASE u = {}
    <3>1. Of(u) = {}
      BY <2>2
    <3>. HIDE DEF Of
    <3>. QED  BY <2>2, <3>1, SumEmpty
  <2>3. CASE u # {}
    <3>1. PICK k : k \in u
      BY <2>3
    <3>. DEFINE v == u \ {k}
                A == Of(v)
                B == Class(k)
    <3>2. v \in T
      BY <1>1, <3>1
    <3>3. Of(u) = A \cup B /\ A \cap B = {} /\ \A x \in A \cup B : f[x] \in Int
      BY <3>1
    <3>4. IsFiniteSet(A) /\ IsFiniteSet(B)
      BY <1>0
    <3>5. SumFunctionOnSet(g, u) = g[k] + SumFunctionOnSet(g, v)
          /\ SumFunctionOnSet(g, v) \in Int
      BY <2>1, <3>1, SumWithout
    <3>6. g[k] = SumFunctionOnSet(f, B) /\ g[k] \in Int
      BY <1>00, <3>1
    <3>7. SumFunctionOnSet(f, A) = SumFunctionOnSet(g, v)
      BY <3>2
    <3>. HIDE DEF A, B, v
    <3>8. SumFunctionOnSet(f, A \cup B) = SumFunctionOnSet(f, A) + SumFunctionOnSet(f, B)
      BY <3>3, <3>4, SumUnion
    <3>9. SumFunctionOnSet(f, A \cup B) = SumFunctionOnSet(g, u)
      BY <3>5, <3>6, <3>7, <3>8
    <3>. HIDE DEF Of
    <3>10. SumFunctionOnSet(f, Of(u)) = SumFunctionOnSet(g, u)
      BY Zenon, <3>3, <3>9
    <3>. QED  BY <3>10
  <2>. QED  BY <2>2, <2>3
<1>. HIDE DEF T
<1>2. T \in SUBSET (SUBSET K)
  BY DEF T
<1>3. T = SUBSET K
  BY <1>1, <1>2, AllSubsets
<1>4. K \in T
  BY <1>3
<1>5. Of(K) = S
  BY DEF ByClass
<1>6. SumFunctionOnSet(f, Of(K)) = SumFunctionOnSet(g, K)
  BY <1>4 DEF T
<1>. HIDE DEF Of
<1>. QED  BY Zenon, <1>5, <1>6

\* A table adds up to the same by rows and by columns.
ByRow(g, R, S, rows) ==
    \A r \in R : rows[r] = SumFunctionOnSet([s \in S |-> g[<<r, s>>]], S)
ByColumn(g, R, S, cols) ==
    \A s \in S : cols[s] = SumFunctionOnSet([r \in R |-> g[<<r, s>>]], R)

LEMMA SumSwap ==
  ASSUME NEW R, IsFiniteSet(R), NEW S, IsFiniteSet(S), NEW g,
         \A r \in R, s \in S : g[<<r, s>>] \in Int,
         NEW rows, ByRow(g, R, S, rows), NEW cols, ByColumn(g, R, S, cols)
  PROVE  SumFunctionOnSet(rows, R) = SumFunctionOnSet(cols, S)
<1>. DEFINE Row(r) == [s \in S |-> g[<<r, s>>]]
            Col(s) == [r \in R |-> g[<<r, s>>]]
            part(u) == [s \in S |-> SumFunctionOnSet(Col(s), u)]
            T == {u \in SUBSET R :
                    SumFunctionOnSet(rows, u) = SumFunctionOnSet(part(u), S)}
<1>0. \A r \in R, s \in S : /\ Row(r)[s] \in Int /\ Col(s)[r] = Row(r)[s]
                           /\ rows[r] = SumFunctionOnSet(Row(r), S)
                           /\ cols[s] = SumFunctionOnSet(Col(s), R)
  BY DEF ByRow, ByColumn
<1>00. \A r \in R : rows[r] = SumFunctionOnSet(Row(r), S) /\ rows[r] \in Int
  <2>. SUFFICES ASSUME NEW r \in R
                PROVE  rows[r] = SumFunctionOnSet(Row(r), S) /\ rows[r] \in Int
    OBVIOUS
  <2>. DEFINE f == Row(r)
  <2>1. rows[r] = SumFunctionOnSet(f, S) /\ \A s \in S : f[s] \in Int
    BY DEF ByRow
  <2>. HIDE DEF f
  <2>2. SumFunctionOnSet(f, S) \in Int
    BY <2>1, SumInt
  <2>. QED  BY <2>1, <2>2 DEF f
<1>1. ASSUME NEW u \in SUBSET R, \A v \in SUBSET u : v # u => v \in T
      PROVE  u \in T
  <2>1. IsFiniteSet(u)
    BY FS_Subset
  <2>2. CASE u = {}
    <3>. DEFINE z == part(u)
    <3>1. \A s \in S : z[s] = 0
      BY <2>2, SumEmpty
    <3>. HIDE DEF z
    <3>2. SumFunctionOnSet(z, S) = 0
      BY <3>1, SumZero
    <3>3. SumFunctionOnSet(rows, u) = 0
      BY <2>2, SumEmpty
    <3>. QED  BY <3>2, <3>3 DEF z
  <2>3. CASE u # {}
    <3>1. PICK r : r \in u
      BY <2>3
    <3>. DEFINE v == u \ {r}
                f == Row(r)
                p == part(v)
                q == part(u)
    <3>2. v \in T /\ r \in R
      BY <1>1, <3>1
    <3>3. SumFunctionOnSet(rows, u) = rows[r] + SumFunctionOnSet(rows, v)
      <4>1. \A x \in u : rows[x] \in Int
        BY <1>00
      <4>. HIDE DEF v
      <4>. QED  BY <2>1, <3>1, <4>1, SumWithout DEF v
    <3>4. ASSUME NEW s \in S
          PROVE  f[s] \in Int /\ p[s] \in Int /\ q[s] = f[s] + p[s]
      <4>. DEFINE c == Col(s)
      <4>1. \A x \in u : c[x] \in Int
        OBVIOUS
      <4>2. c[r] = f[s] /\ f[s] \in Int
        BY <3>2
      <4>3. p[s] = SumFunctionOnSet(c, v) /\ q[s] = SumFunctionOnSet(c, u)
        OBVIOUS
      <4>. HIDE DEF c, p, q, f
      <4>4. SumFunctionOnSet(c, u \ {r}) \in Int
            /\ SumFunctionOnSet(c, u) = c[r] + SumFunctionOnSet(c, u \ {r})
        BY <2>1, <3>1, <4>1, SumWithout
      <4>. QED  BY <4>2, <4>3, <4>4
    <3>5. SumFunctionOnSet(rows, v) = SumFunctionOnSet(p, S) /\ rows[r] = SumFunctionOnSet(f, S)
      BY <1>00, <3>2
    <3>. HIDE DEF f, p, q
    <3>6. SumFunctionOnSet(q, S) = SumFunctionOnSet(f, S) + SumFunctionOnSet(p, S)
      BY <3>4, SumAdd
    <3>7. SumFunctionOnSet(rows, u) = SumFunctionOnSet(q, S)
      BY <3>3, <3>5, <3>6
    <3>. QED  BY <3>7 DEF q
  <2>. QED  BY <2>2, <2>3
<1>. HIDE DEF T
<1>2. T \in SUBSET (SUBSET R)
  BY DEF T
<1>3. T = SUBSET R
  BY <1>1, <1>2, AllSubsets
<1>4. R \in T
  BY <1>3
<1>. DEFINE z == part(R)
<1>5. SumFunctionOnSet(rows, R) = SumFunctionOnSet(z, S) /\ \A s \in S : z[s] = cols[s]
  BY <1>4 DEF T, ByColumn
<1>. HIDE DEF z
<1>6. SumFunctionOnSet(z, S) = SumFunctionOnSet(cols, S)
  BY <1>5, SumSame
<1>. QED  BY <1>5, <1>6

\* The recursion over the numbers whose step also depends on the number.
IsStep(step, Values) == \A n \in Nat : \A x \in Values : step[n][x] \in Values
IsRecursion(g, Values, first, step) ==
    /\ g \in [Nat -> Values] /\ g[0] = first
    /\ \A n \in Nat : g[n + 1] = step[n][g[n]]

LEMMA RecursionExists ==
  ASSUME NEW Values, NEW first \in Values, NEW step, IsStep(step, Values)
  PROVE  \E g : IsRecursion(g, Values, first, step)
<1>. DEFINE E == Nat \X Values
            b == <<0, first>>
            M == [e \in E |-> <<e[1] + 1, step[e[1]][e[2]]>>]
<1>1. b \in E /\ M \in [E -> E]
  BY DEF IsStep
<1>. HIDE DEF E, b, M
<1>2. PICK h \in [Nat -> E] : h[0] = b /\ \A n \in Nat : h[n + 1] = M[h[n]]
  BY <1>1, IterationExists
<1>. DEFINE g == [n \in Nat |-> h[n][2]]
            T == {n \in Nat : h[n][1] = n}
<1>3. \A n \in Nat : h[n] \in Nat \X Values
  BY DEF E
<1>4. \A n \in Nat : h[n + 1] = <<h[n][1] + 1, step[h[n][1]][h[n][2]]>>
  BY <1>2 DEF M, E
<1>5. T = Nat
  <2>1. 0 \in T
    BY <1>2 DEF b
  <2>2. \A n \in T : n + 1 \in T
    BY <1>4
  <2>3. T \in SUBSET Nat
    OBVIOUS
  <2>. HIDE DEF T
  <2>. QED  BY <2>1, <2>2, <2>3, AllNumbers
<1>6. \A n \in Nat : h[n] = <<n, g[n]>>
  BY <1>3, <1>5
<1>7. g \in [Nat -> Values] /\ g[0] = first
  BY <1>2, <1>3 DEF b
<1>8. ASSUME NEW n \in Nat PROVE g[n + 1] = step[n][g[n]]
  <2>1. h[n + 1] = <<h[n][1] + 1, step[h[n][1]][h[n][2]]>> /\ h[n] = <<n, g[n]>>
    BY <1>4, <1>6
  <2>2. h[n + 1][2] = step[h[n][1]][h[n][2]]
    BY <2>1
  <2>3. g[n + 1] = h[n + 1][2]
    OBVIOUS
  <2>. HIDE DEF g
  <2>. QED  BY <2>1, <2>2, <2>3
<1>. QED  BY <1>7, <1>8 DEF IsRecursion

\* A sum needs only the terms that are not 0.
LEMMA SumSupport ==
  ASSUME NEW S, IsFiniteSet(S), NEW R \in SUBSET S, NEW f, \A x \in S : f[x] \in Int,
         \A x \in S : x \notin R => f[x] = 0
  PROVE  SumFunctionOnSet(f, S) = SumFunctionOnSet(f, R)
<1>. DEFINE Q == S \ R
<1>1. /\ IsFiniteSet(R) /\ IsFiniteSet(Q) /\ R \cap Q = {} /\ R \cup Q = S
      /\ (\A x \in R \cup Q : f[x] \in Int) /\ \A x \in Q : f[x] = 0
  BY FS_Subset
<1>. HIDE DEF Q
<1>2. SumFunctionOnSet(f, R \cup Q) = SumFunctionOnSet(f, R) + SumFunctionOnSet(f, Q)
  BY <1>1, SumUnion
<1>3. SumFunctionOnSet(f, Q) = 0
  BY <1>1, SumZero
<1>4. SumFunctionOnSet(f, R) \in Int
  BY <1>1, SumInt
<1>5. SumFunctionOnSet(f, R \cup Q) = SumFunctionOnSet(f, R)
  BY <1>2, <1>3, <1>4
<1>. QED  BY Zenon, <1>1, <1>5

\* Equal terms add up to their number.
LEMMA SumConstant ==
  ASSUME NEW S, IsFiniteSet(S), NEW c \in Int, NEW f, \A x \in S : f[x] = c
  PROVE  SumFunctionOnSet(f, S) = c * Cardinality(S)
<1>. DEFINE T == {u \in SUBSET S : SumFunctionOnSet(f, u) = c * Cardinality(u)}
<1>1. ASSUME NEW u \in SUBSET S, \A v \in SUBSET u : v # u => v \in T
      PROVE  u \in T
  <2>1. IsFiniteSet(u) /\ \A y \in u : f[y] \in Int
    BY FS_Subset
  <2>2. CASE u = {}
    <3>1. SumFunctionOnSet(f, u) = 0 /\ Cardinality(u) = 0
      BY <2>2, SumEmpty, FS_EmptySet
    <3>2. SumFunctionOnSet(f, u) = c * Cardinality(u)
      BY <3>1
    <3>. QED  BY <3>2
  <2>3. CASE u # {}
    <3>1. PICK x : x \in u
      BY <2>3
    <3>. DEFINE v == u \ {x}
                n == Cardinality(v)
    <3>2. v \in SUBSET u /\ v # u
      BY <3>1
    <3>3. SumFunctionOnSet(f, v) = c * n
      BY <1>1, <3>2
    <3>4. SumFunctionOnSet(f, u) = f[x] + SumFunctionOnSet(f, v)
      BY <2>1, <3>1, SumWithout
    <3>5. n \in Nat /\ Cardinality(u) = n + 1
      <4>1. n = Cardinality(u) - 1 /\ IsFiniteSet(v)
        BY <2>1, <3>1, FS_RemoveElement
      <4>2. Cardinality(u) \in Nat
        BY <2>1, FS_CardinalityType
      <4>3. n \in Nat
        <5>. HIDE DEF v
        <5>. QED  BY <4>1, FS_CardinalityType
      <4>. HIDE DEF n
      <4>. QED  BY <4>1, <4>2, <4>3
    <3>6. f[x] = c
      BY <3>1
    <3>. HIDE DEF v, n
    <3>7. c + c * n = c * (n + 1)
      <4>1. \A a, b \in Int : a + a * b = a * (b + 1)
        OBVIOUS
      <4>. QED  BY <3>5, <4>1
    <3>8. SumFunctionOnSet(f, u) = c * Cardinality(u)
      BY <3>3, <3>4, <3>5, <3>6, <3>7
    <3>. QED  BY <3>8
  <2>. QED  BY <2>2, <2>3
<1>2. T = SUBSET S
  <2>. HIDE DEF T
  <2>1. T \in SUBSET (SUBSET S)
    BY DEF T
  <2>. QED  BY <1>1, <2>1, AllSubsets
<1>. QED  BY <1>2

-----------------------------------------------------------------------------
(* Numbered amounts, one after the other: where each begins and ends.      *)

AreAmounts(f, n) == n \in Nat /\ \A i \in 1 .. n : f[i] \in Nat
Upto(f, k) == SumFunctionOnSet(f, 1 .. k)

LEMMA UptoNext ==
  ASSUME NEW f, NEW n, AreAmounts(f, n)
  PROVE  /\ Upto(f, 0) = 0
         /\ \A k \in 0 .. n : Upto(f, k) \in Nat
         /\ \A i \in 1 .. n : Upto(f, i) = Upto(f, i - 1) + f[i]
<1>0. n \in Nat /\ \A i \in 1 .. n : f[i] \in Nat
  BY DEF AreAmounts
<1>1. Upto(f, 0) = 0
  <2>1. 1 .. 0 = {}
    OBVIOUS
  <2>2. SumFunctionOnSet(f, 1 .. 0) = SumFunctionOnSet(f, {})
    BY Zenon, <2>1
  <2>. QED  BY <2>2, SumEmpty DEF Upto
<1>2. ASSUME NEW k \in 0 .. n PROVE Upto(f, k) \in Nat
  <2>. DEFINE S == 1 .. k
  <2>1. IsFiniteSet(S) /\ \A x \in S : f[x] \in Nat
    BY <1>0, FS_Interval, SMTT(30)
  <2>. HIDE DEF S
  <2>2. SumFunctionOnSet(f, S) \in Nat
    BY <2>1, SumNat
  <2>. QED  BY <2>2 DEF Upto, S
<1>3. ASSUME NEW i \in 1 .. n PROVE Upto(f, i) = Upto(f, i - 1) + f[i]
  <2>. DEFINE S == 1 .. (i - 1)
  <2>1. IsFiniteSet(S) /\ i \notin S /\ \A x \in S \cup {i} : f[x] \in Int
    BY <1>0, FS_Interval
  <2>2. S \cup {i} = 1 .. i
    OBVIOUS
  <2>. HIDE DEF S
  <2>3. SumFunctionOnSet(f, S \cup {i}) = SumFunctionOnSet(f, S) + f[i]
    BY <2>1, SumWith
  <2>4. SumFunctionOnSet(f, S \cup {i}) = Upto(f, i)
    BY Zenon, <2>2 DEF Upto
  <2>. QED  BY <2>3, <2>4 DEF Upto, S
<1>. QED  BY <1>1, <1>2, <1>3

LEMMA UptoGrows ==
  ASSUME NEW f, NEW n, AreAmounts(f, n)
  PROVE  \A j, k \in 0 .. n : j <= k => Upto(f, j) <= Upto(f, k)
<1>0. n \in Nat
  BY DEF AreAmounts
<1>. SUFFICES ASSUME NEW j \in 0 .. n
              PROVE  \A k \in 0 .. n : j <= k => Upto(f, j) <= Upto(f, k)
  OBVIOUS
<1>. DEFINE T == {d \in Nat : j + d <= n => Upto(f, j) <= Upto(f, j + d)}
<1>1. 0 \in T
  <2>1. Upto(f, j) \in Nat /\ j + 0 = j
    BY UptoNext
  <2>. QED  BY <2>1
<1>2. ASSUME NEW d \in T PROVE d + 1 \in T
  <2>. SUFFICES ASSUME j + (d + 1) <= n PROVE Upto(f, j) <= Upto(f, j + (d + 1))
    OBVIOUS
  <2>1. j + (d + 1) \in 1 .. n /\ (j + (d + 1)) - 1 = j + d /\ j + d \in 0 .. n
        /\ j + d <= n
    BY <1>0
  <2>2. Upto(f, j + (d + 1)) = Upto(f, j + d) + f[j + (d + 1)]
        /\ f[j + (d + 1)] \in Nat
    <3>1. \A i \in 1 .. n : Upto(f, i) = Upto(f, i - 1) + f[i] /\ f[i] \in Nat
      BY UptoNext DEF AreAmounts
    <3>. QED  BY <2>1, <3>1
  <2>3. Upto(f, j) \in Nat /\ Upto(f, j + d) \in Nat
    BY <2>1, UptoNext
  <2>4. Upto(f, j) <= Upto(f, j + d)
    BY <2>1
  <2>. QED  BY <2>2, <2>3, <2>4
<1>3. T = Nat
  <2>1. T \in SUBSET Nat
    OBVIOUS
  <2>. HIDE DEF T
  <2>. QED  BY <1>1, <1>2, <2>1, AllNumbers
<1>4. ASSUME NEW k \in 0 .. n, j <= k PROVE Upto(f, j) <= Upto(f, k)
  <2>1. k - j \in Nat /\ j + (k - j) = k /\ k <= n
    BY <1>0, <1>4
  <2>2. k - j \in T
    <3>. HIDE DEF T
    <3>. QED  BY <1>3, <2>1
  <2>3. Upto(f, j) <= Upto(f, j + (k - j))
    BY <2>1, <2>2
  <2>. QED  BY <2>1, <2>3
<1>. QED  BY <1>4

\* Every unit is of one amount.
LEMMA UnitHasOwner ==
  ASSUME NEW f, NEW n, AreAmounts(f, n), NEW y \in 1 .. Upto(f, n)
  PROVE  \E i \in 1 .. n : Upto(f, i - 1) < y /\ y <= Upto(f, i)
<1>0. n \in Nat /\ Upto(f, 0) = 0 /\ (\A k \in 0 .. n : Upto(f, k) \in Nat) /\ n \in 0 .. n
  <2>1. n \in Nat /\ n \in 0 .. n
    BY DEF AreAmounts
  <2>. QED  BY <2>1, UptoNext
<1>. DEFINE T == {k \in 0 .. n : y <= Upto(f, k)}
<1>1. T \in SUBSET Nat /\ T # {}
  BY <1>0
<1>2. PICK i \in T : \A k \in T : ~(k < i)
  <2>. HIDE DEF T
  <2>. QED  BY <1>1, LeastNumber
<1>3. i # 0
  BY <1>0
<1>4. i \in 1 .. n /\ i - 1 \in 0 .. n /\ i - 1 < i
  BY <1>0, <1>3
<1>5. ~(y <= Upto(f, i - 1))
  BY <1>2, <1>4
<1>6. Upto(f, i - 1) \in Nat /\ Upto(f, n) \in Nat
  BY <1>0, <1>4
<1>. QED  BY <1>0, <1>4, <1>5, <1>6

\* What the i-th amount has beyond the first units of all.
Beyond(f, cut, i) ==
    IF cut <= Upto(f, i - 1) THEN f[i]
    ELSE IF cut <= Upto(f, i) THEN Upto(f, i) - cut
    ELSE 0

\* Units beyond a cut, priced by the amount they are of, are worth what each
\* amount has beyond the cut at its price.
PricedBy(u, f, n, cut, c) ==
    \A x \in 1 .. (Upto(f, n) - cut), i \in 1 .. n :
        Upto(f, i - 1) < cut + x /\ cut + x <= Upto(f, i) => u[x] = c[i]

LEMMA BeyondIs ==
  ASSUME NEW f, NEW n, AreAmounts(f, n), NEW cut \in Nat, NEW i \in 1 .. n
  PROVE  /\ Beyond(f, cut, i) \in Nat /\ Beyond(f, cut, i) <= f[i]
         /\ Upto(f, i) = Upto(f, i - 1) + f[i] /\ f[i] \in Nat
         /\ Upto(f, i) \in Nat /\ Upto(f, i - 1) \in Nat
<1>1. n \in Nat /\ f[i] \in Nat
  BY DEF AreAmounts
<1>2. i \in 0 .. n /\ i - 1 \in 0 .. n
  BY <1>1
<1>3. Upto(f, i) = Upto(f, i - 1) + f[i] /\ Upto(f, i) \in Nat /\ Upto(f, i - 1) \in Nat
  BY <1>2, UptoNext
<1>. QED  BY <1>1, <1>3 DEF Beyond

Owns(f, i, y) == Upto(f, i - 1) < y /\ y <= Upto(f, i)

LEMMA OneOwner ==
  ASSUME NEW f, NEW n, AreAmounts(f, n), NEW y \in Nat, NEW i \in 1 .. n, NEW j \in 1 .. n,
         Owns(f, i, y), Owns(f, j, y)
  PROVE  i = j
<1>0. n \in Nat
  BY DEF AreAmounts
<1>1. ASSUME NEW a \in 1 .. n, NEW b \in 1 .. n, Owns(f, a, y), Owns(f, b, y), a < b
      PROVE  FALSE
  <2>1. a \in 0 .. n /\ b - 1 \in 0 .. n /\ a <= b - 1
    BY <1>0, <1>1
  <2>2. Upto(f, a) <= Upto(f, b - 1) /\ Upto(f, a) \in Nat /\ Upto(f, b - 1) \in Nat
    BY <2>1, UptoGrows, UptoNext
  <2>. QED  BY <1>1, <2>2 DEF Owns
<1>2. ~(i < j) /\ ~(j < i)
  BY <1>1
<1>. QED  BY <1>0, <1>2

LEMMA OwnedUnits ==
  ASSUME NEW f, NEW n, AreAmounts(f, n), NEW cut \in Nat, cut <= Upto(f, n), NEW i \in 1 .. n
  PROVE  LET mine == {x \in 1 .. (Upto(f, n) - cut) : Owns(f, i, cut + x)}
         IN  IsFiniteSet(mine) /\ Cardinality(mine) = Beyond(f, cut, i)
<1>. DEFINE a == Upto(f, i - 1)
            b == Upto(f, i)
            z == Upto(f, n)
            mine == {x \in 1 .. (z - cut) : a < cut + x /\ cut + x <= b}
<1>1. a \in Nat /\ b \in Nat /\ z \in Nat /\ b = a + f[i] /\ f[i] \in Nat
  <2>1. n \in Nat
    BY DEF AreAmounts
  <2>2. n \in 0 .. n
    BY <2>1
  <2>3. z \in Nat
    BY <2>2, UptoNext
  <2>. QED  BY <2>3, BeyondIs
<1>2. b <= z
  <2>1. n \in Nat
    BY DEF AreAmounts
  <2>2. n \in 0 .. n /\ i \in 0 .. n /\ i <= n
    BY <2>1
  <2>. QED  BY <2>2, UptoGrows
<1>3. Beyond(f, cut, i) = IF cut <= a THEN f[i] ELSE IF cut <= b THEN b - cut ELSE 0
  BY DEF Beyond
<1>4. mine = {x \in 1 .. (z - cut) : Owns(f, i, cut + x)}
  BY DEF Owns
<1>. HIDE DEF a, b, z
<1>5. CASE cut <= a
  <2>1. mine = (a - cut + 1) .. (b - cut)
    BY <1>1, <1>2, <1>5
  <2>2. a - cut + 1 \in Int /\ b - cut \in Int
        /\ (IF a - cut + 1 > b - cut THEN 0 ELSE (b - cut) - (a - cut + 1) + 1) = f[i]
    BY <1>1
  <2>3. IsFiniteSet((a - cut + 1) .. (b - cut))
        /\ Cardinality((a - cut + 1) .. (b - cut)) = f[i]
    BY <2>2, FS_Interval
  <2>. QED  BY Zenon, <1>3, <1>4, <1>5, <2>1, <2>3 DEF z
<1>6. CASE ~(cut <= a) /\ cut <= b
  <2>1. mine = 1 .. (b - cut)
    BY <1>1, <1>2, <1>6
  <2>2. 1 \in Int /\ b - cut \in Int
        /\ (IF 1 > b - cut THEN 0 ELSE (b - cut) - 1 + 1) = b - cut
    BY <1>1, <1>6
  <2>3. IsFiniteSet(1 .. (b - cut)) /\ Cardinality(1 .. (b - cut)) = b - cut
    BY <2>2, FS_Interval
  <2>. QED  BY Zenon, <1>3, <1>4, <1>6, <2>1, <2>3 DEF z
<1>7. CASE ~(cut <= a) /\ ~(cut <= b)
  <2>1. mine = {}
    BY <1>1, <1>7
  <2>2. IsFiniteSet({}) /\ Cardinality({}) = 0
    BY FS_EmptySet
  <2>. QED  BY Zenon, <1>3, <1>4, <1>7, <2>1, <2>2 DEF z
<1>. QED  BY <1>5, <1>6, <1>7

LEMMA SumBeyond ==
  ASSUME NEW f, NEW n, AreAmounts(f, n), NEW cut \in Nat, cut <= Upto(f, n),
         NEW c, AreAmounts(c, n), NEW u, AreAmounts(u, Upto(f, n) - cut),
         PricedBy(u, f, n, cut, c), NEW g, \A i \in 1 .. n : g[i] = c[i] * Beyond(f, cut, i)
  PROVE  Upto(u, Upto(f, n) - cut) = Upto(g, n)
<1>. DEFINE L == Upto(f, n) - cut
            S == 1 .. L
            K == 1 .. n
            key == [x \in S |-> CHOOSE i \in K : Owns(f, i, cut + x)]
<1>1. n \in Nat /\ L \in Nat /\ (\A x \in S : u[x] \in Int) /\ \A i \in K : c[i] \in Int
  BY DEF AreAmounts
<1>2. IsFiniteSet(S) /\ IsFiniteSet(K)
  BY <1>1, FS_Interval
<1>3. \A x \in S : key[x] \in K /\ Owns(f, key[x], cut + x) /\ cut + x \in Nat
  <2>. SUFFICES ASSUME NEW x \in S
                PROVE  key[x] \in K /\ Owns(f, key[x], cut + x) /\ cut + x \in Nat
    OBVIOUS
  <2>1. cut + x \in Nat /\ cut + x \in 1 .. Upto(f, n)
    <3>1. Upto(f, n) \in Nat
      <4>1. n \in 0 .. n
        BY <1>1
      <4>. QED  BY <4>1, UptoNext
    <3>. QED  BY <1>1, <3>1
  <2>2. \E i \in K : Owns(f, i, cut + x)
    BY <2>1, UnitHasOwner DEF Owns
  <2>3. key[x] = CHOOSE i \in K : Owns(f, i, cut + x)
    OBVIOUS
  <2>. HIDE DEF key
  <2>. QED  BY <2>1, <2>2, <2>3
<1>. HIDE DEF key
<1>4. ByClass(u, S, key, K, g)
  <2>. SUFFICES ASSUME NEW i \in K
                PROVE  g[i] = SumFunctionOnSet(u, {x \in S : key[x] = i})
    BY <1>3 DEF ByClass
  <2>. DEFINE mine == {x \in S : Owns(f, i, cut + x)}
  <2>1. {x \in S : key[x] = i} = mine
    BY <1>3, OneOwner
  <2>2. IsFiniteSet(mine) /\ Cardinality(mine) = Beyond(f, cut, i)
    BY OwnedUnits
  <2>3. \A x \in mine : u[x] = c[i]
    BY DEF PricedBy, Owns
  <2>. HIDE DEF mine
  <2>4. SumFunctionOnSet(u, mine) = c[i] * Cardinality(mine)
    BY <1>1, <2>2, <2>3, SumConstant
  <2>. QED  BY <2>1, <2>2, <2>4
<1>. HIDE DEF S, K
<1>5. SumFunctionOnSet(u, S) = SumFunctionOnSet(g, K)
  BY <1>1, <1>2, <1>4, SumPartition
<1>. QED  BY <1>5 DEF Upto, S, K, L

\* What the amounts have beyond a cut, taken together.
LEMMA UptoBeyond ==
  ASSUME NEW f, NEW n, AreAmounts(f, n), NEW cut \in Nat,
         NEW g, \A i \in 1 .. n : g[i] = Beyond(f, cut, i)
  PROVE  /\ AreAmounts(g, n)
         /\ \A k \in 0 .. n : Upto(g, k) = IF Upto(f, k) <= cut THEN 0 ELSE Upto(f, k) - cut
<1>1. AreAmounts(g, n)
  <2>1. n \in Nat
    BY DEF AreAmounts
  <2>2. \A i \in 1 .. n : Beyond(f, cut, i) \in Nat
    BY BeyondIs
  <2>. QED  BY <2>1, <2>2 DEF AreAmounts
<1>0. n \in Nat
  BY DEF AreAmounts
<1>. DEFINE Rest(k) == IF Upto(f, k) <= cut THEN 0 ELSE Upto(f, k) - cut
            T == {k \in Nat : k <= n => Upto(g, k) = Rest(k)}
<1>2. 0 \in T
  <2>1. Upto(f, 0) = 0 /\ Upto(g, 0) = 0
    BY <1>1, UptoNext
  <2>. QED  BY <2>1
<1>3. ASSUME NEW k \in T PROVE k + 1 \in T
  <2>. SUFFICES ASSUME k + 1 <= n PROVE Upto(g, k + 1) = Rest(k + 1)
    OBVIOUS
  <2>. DEFINE i == k + 1
  <2>1. i \in 1 .. n /\ i - 1 = k /\ k <= n
    BY <1>0
  <2>2. /\ Upto(f, i) = Upto(f, i - 1) + f[i] /\ f[i] \in Nat
        /\ Upto(f, i) \in Nat /\ Upto(f, i - 1) \in Nat
    BY <2>1, BeyondIs
  <2>3. Upto(g, i) = Upto(g, i - 1) + g[i]
    BY <1>1, <2>1, UptoNext
  <2>4. g[i] = IF cut <= Upto(f, i - 1) THEN f[i]
               ELSE IF cut <= Upto(f, i) THEN Upto(f, i) - cut ELSE 0
    BY <2>1 DEF Beyond
  <2>5. Upto(g, i - 1) = IF Upto(f, i - 1) <= cut THEN 0 ELSE Upto(f, i - 1) - cut
    BY <2>1
  <2>. HIDE DEF i
  <2>6. Upto(g, i) = IF Upto(f, i) <= cut THEN 0 ELSE Upto(f, i) - cut
    BY <2>2, <2>3, <2>4, <2>5
  <2>. QED  BY <2>6 DEF i
<1>4. T = Nat
  <2>1. T \in SUBSET Nat
    OBVIOUS
  <2>. HIDE DEF T
  <2>. QED  BY <1>2, <1>3, <2>1, AllNumbers
<1>5. ASSUME NEW k \in 0 .. n PROVE Upto(g, k) = Rest(k)
  <2>1. k \in Nat /\ k <= n
    BY <1>0
  <2>2. k \in T
    <3>. HIDE DEF T
    <3>. QED  BY <1>4, <2>1
  <2>. QED  BY <2>1, <2>2
<1>. QED  BY <1>1, <1>5
=============================================================================
