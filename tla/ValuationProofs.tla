--------------------------- MODULE ValuationProofs ---------------------------
(***************************************************************************)
(* What holds of valuations, reports and summaries, for any number of      *)
(* variants and warehouses and ledgers of any length.                      *)
(*                                                                         *)
(* The two methods are functions of the movements of one pair: what is     *)
(* shown of them holds of every sequence of movements, and the system only *)
(* has to keep the ledger one (ValuationInv).  A report and a summary keep *)
(* what they have read: Undisturbed ties it to the ledger as long as       *)
(* nothing is written.  Instants number the rows (Timed), so the two rows  *)
(* of a transfer find each other by theirs (Matched), and a set of rows    *)
(* that has both of every transfer or neither is Closed: its transfers     *)
(* cancel.  For FIFO every unit gets its place in the order of arrival;    *)
(* both the layers and the queue keep the units beyond the number that     *)
(* left.                                                                   *)
(***************************************************************************)
EXTENDS Valuation, DataLemmas, SequenceTheorems, TLAPS

-----------------------------------------------------------------------------
(* Rounding.                                                               *)

LEMMA TimesGrows ==
  \A a, b, c \in Int : a <= b /\ 0 <= c => c * a <= c * b
  OBVIOUS

\* A division rounded half up is off by half a unit at most.
LEMMA RoundDivIs ==
  ASSUME NEW n \in Int, NEW d \in Nat \ {0}
  PROVE  /\ RoundDiv(n, d) \in Int
         /\ 2 * (d * RoundDiv(n, d)) <= 2 * n + d
         /\ 2 * n + d < 2 * (d * RoundDiv(n, d)) + 2 * d
<1>. DEFINE r == RoundDiv(n, d)
            m == 2 * n + d
            k == 2 * d
<1>1. m \in Int /\ k \in Nat \ {0} /\ r = m \div k
  BY DEF RoundDiv
<1>2. m \div k \in Int /\ k * (m \div k) <= m /\ m < k * (m \div k) + k
  <2>. HIDE DEF m, k, r
  <2>. QED  BY <1>1
<1>3. k * r = 2 * (d * r)
  <2>1. r \in Int
    BY <1>1, <1>2
  <2>2. \A x \in Int : (2 * d) * x = 2 * (d * x)
    OBVIOUS
  <2>. HIDE DEF r
  <2>. QED  BY <2>1, <2>2
<1>. HIDE DEF r
<1>. QED  BY <1>1, <1>2, <1>3 DEF r

LEMMA RoundDivNat ==
  ASSUME NEW n \in Nat, NEW d \in Nat \ {0}
  PROVE  RoundDiv(n, d) \in Nat
<1>. DEFINE r == RoundDiv(n, d)
<1>1. r \in Int /\ 2 * n + d < 2 * (d * r) + 2 * d
  BY RoundDivIs
<1>2. ASSUME r < 0 PROVE FALSE
  <2>1. r <= 0 - 1 /\ r \in Int /\ d \in Int /\ 0 <= d
    BY <1>1, <1>2
  <2>. HIDE DEF r
  <2>2. d * r <= d * (0 - 1)
    BY <2>1, TimesGrows
  <2>3. d * r \in Int /\ d * (0 - 1) = 0 - d
    BY <2>1
  <2>. QED  BY <1>1, <2>2, <2>3
<1>. HIDE DEF r
<1>. QED  BY <1>1, <1>2 DEF r

-----------------------------------------------------------------------------
(* Layers.                                                                 *)

IsLayers(f) ==
    /\ DOMAIN f \subseteq Nat \ {0} /\ IsFiniteSet(DOMAIN f)
    /\ \A i \in DOMAIN f : f[i].qty \in Nat /\ f[i].cost \in Nat

LEMMA MovementsFinite ==
  ASSUME NEW movs \in Seq(Movement)
  PROVE  /\ Len(movs) \in Nat /\ DOMAIN movs = 1 .. Len(movs)
         /\ IsFiniteSet(DOMAIN movs) /\ DOMAIN movs \subseteq Nat \ {0}
         /\ \A i \in DOMAIN movs : movs[i] \in Movement /\ movs[i].qty \in Int
<1>1. Len(movs) \in Nat /\ DOMAIN movs = 1 .. Len(movs) /\ movs \in [1 .. Len(movs) -> Movement]
  BY LenProperties
<1>2. IsFiniteSet(DOMAIN movs)
  <2>1. 1 \in Int /\ Len(movs) \in Int
    BY <1>1
  <2>. QED  BY <1>1, <2>1, FS_Interval
<1>. QED  BY <1>1, <1>2 DEF Movement

LEMMA LayersAre ==
  ASSUME NEW movs \in Seq(Movement)
  PROVE  /\ IsLayers(Layers(movs))
         /\ DOMAIN Layers(movs) = {i \in DOMAIN movs : IsPriced(movs[i])}
         /\ \A i \in DOMAIN Layers(movs) :
               /\ Layers(movs)[i] = movs[i] /\ movs[i] \in Movement
               /\ movs[i].qty \in Nat \ {0} /\ movs[i].cost \in Nat
<1>. DEFINE In == {i \in DOMAIN movs : IsPriced(movs[i])}
<1>1. Layers(movs) = [i \in In |-> movs[i]]
  BY DEF Layers, RestrictValues, Restrict
<1>2. IsFiniteSet(In) /\ In \subseteq Nat \ {0}
  BY MovementsFinite, FS_Subset
<1>3. \A i \in In : movs[i] \in Movement /\ movs[i].qty \in Nat \ {0} /\ movs[i].cost \in Nat
  <2>. SUFFICES ASSUME NEW i \in In
                PROVE  movs[i] \in Movement /\ movs[i].qty \in Nat \ {0}
                       /\ movs[i].cost \in Nat
    OBVIOUS
  <2>. DEFINE m == movs[i]
  <2>1. m \in Movement /\ m.qty > 0 /\ m.cost # Unpriced
    BY MovementsFinite DEF IsPriced
  <2>. HIDE DEF m
  <2>2. m.qty \in Int /\ m.cost \in Costs
    BY <2>1 DEF Movement
  <2>3. m.qty \in Nat \ {0}
    BY <2>1, <2>2
  <2>4. m.cost \in Nat
    BY <2>2, CostsAreNat
  <2>. QED  BY <2>1, <2>3, <2>4 DEF m
<1>. HIDE DEF In
<1>. QED  BY <1>1, <1>2, <1>3 DEF IsLayers, In

\* Remaining is defined by its recursion.
LEMMA RemainingIs ==
  ASSUME NEW layers, IsLayers(layers), NEW n \in Nat
  PROVE  /\ \A k \in Nat : Remaining(layers, n)[k] \in Nat
         /\ Remaining(layers, n)[0] = n
         /\ \A k \in Nat : Remaining(layers, n)[k + 1] =
               IF k + 1 \notin DOMAIN layers THEN Remaining(layers, n)[k]
               ELSE Remaining(layers, n)[k]
                      - Smaller(layers[k + 1].qty, Remaining(layers, n)[k])
<1>. DEFINE after(k, x) == IF k \notin DOMAIN layers THEN x
                           ELSE x - Smaller(layers[k].qty, x)
            step == [k \in Nat |-> [x \in Nat |-> after(k + 1, x)]]
            Def(h) == h = [k \in Nat |->
                             IF k = 0 THEN n
                             ELSE IF k \notin DOMAIN layers THEN h[k - 1]
                             ELSE h[k - 1] - Smaller(layers[k].qty, h[k - 1])]
            g == CHOOSE h : Def(h)
<1>1. \A k \in Nat, x \in Nat : after(k, x) \in Nat
  <2>. SUFFICES ASSUME NEW k \in Nat, NEW x \in Nat PROVE after(k, x) \in Nat
    OBVIOUS
  <2>1. k \in DOMAIN layers => layers[k].qty \in Nat
    BY DEF IsLayers
  <2>. QED  BY <2>1 DEF Smaller
<1>. HIDE DEF after
<1>2. \A k \in Nat, x \in Nat : step[k][x] \in Nat /\ step[k][x] = after(k + 1, x)
  BY <1>1
<1>. HIDE DEF step
<1>3. PICK h \in [Nat -> Nat] : h[0] = n /\ \A k \in Nat : h[k + 1] = step[k][h[k]]
  <2>1. IsStep(step, Nat)
    BY <1>2 DEF IsStep
  <2>2. \E h : IsRecursion(h, Nat, n, step)
    BY <2>1, RecursionExists
  <2>. QED  BY <2>2 DEF IsRecursion
<1>4. Def(h)
  <2>1. ASSUME NEW k \in Nat, k # 0
        PROVE  h[k] = after(k, h[k - 1])
    <3>1. k - 1 \in Nat /\ (k - 1) + 1 = k
      BY <2>1
    <3>2. h[k] = step[k - 1][h[k - 1]]
      BY <1>3, <3>1
    <3>3. h[k - 1] \in Nat
      BY <3>1
    <3>. QED  BY <1>2, <3>1, <3>2, <3>3
  <2>. QED  BY <1>3, <2>1 DEF after
<1>5. Def(g)
  <2>. HIDE DEF Def
  <2>. QED  BY Zenon, <1>4
<1>6. Remaining(layers, n) = g
  BY Zenon DEF Remaining
<1>. HIDE DEF g
<1>7. g[0] = n
  BY <1>5
<1>8. ASSUME NEW k \in Nat
      PROVE  g[k + 1] = after(k + 1, g[k])
  <2>1. k + 1 \in Nat /\ k + 1 # 0 /\ (k + 1) - 1 = k
    OBVIOUS
  <2>. QED  BY <1>5, <2>1 DEF after
<1>9. \A k \in Nat : g[k] \in Nat
  <2>. DEFINE T == {k \in Nat : g[k] \in Nat}
  <2>1. 0 \in T
    BY <1>7
  <2>2. ASSUME NEW k \in T PROVE k + 1 \in T
    <3>1. k + 1 \in Nat /\ k \in Nat /\ g[k] \in Nat
      OBVIOUS
    <3>2. after(k + 1, g[k]) \in Nat
      BY <1>1, <3>1
    <3>. QED  BY <1>8, <3>1, <3>2
  <2>3. T \in SUBSET Nat
    OBVIOUS
  <2>. HIDE DEF T
  <2>4. T = Nat
    BY <2>1, <2>2, <2>3, AllNumbers
  <2>. QED  BY <2>4 DEF T
<1>. QED  BY <1>6, <1>7, <1>8, <1>9 DEF after

\* A layer gives no more than it has.
LEMMA TakeOldestIs ==
  ASSUME NEW layers, IsLayers(layers), NEW n \in Nat
  PROVE  /\ DOMAIN TakeOldest(layers, n) = DOMAIN layers
         /\ \A k \in DOMAIN layers :
               /\ TakeOldest(layers, n)[k] =
                     Smaller(layers[k].qty, Remaining(layers, n)[k - 1])
               /\ TakeOldest(layers, n)[k] \in Nat
               /\ TakeOldest(layers, n)[k] <= layers[k].qty
<1>1. ASSUME NEW k \in DOMAIN layers
      PROVE  k - 1 \in Nat /\ layers[k].qty \in Nat
  BY DEF IsLayers
<1>2. \A k \in DOMAIN layers : Remaining(layers, n)[k - 1] \in Nat
  BY <1>1, RemainingIs
<1>. QED  BY <1>1, <1>2 DEF TakeOldest, Smaller
\* The two sums over layers.
QtyOf(f) == [i \in DOMAIN f |-> f[i].qty]
CostsOf(f) == [i \in DOMAIN f |-> f[i].cost * f[i].qty]

LEMMA SumsAre ==
  ASSUME NEW f
  PROVE  /\ Qty(f) = SumFunctionOnSet(QtyOf(f), DOMAIN f)
         /\ CostOf(f) = SumFunctionOnSet(CostsOf(f), DOMAIN f)
  BY DEF Qty, CostOf, SumFunction, QtyOf, CostsOf

LEMMA QtyIsInt ==
  ASSUME NEW movs \in Seq(Movement)
  PROVE  Qty(movs) \in Int
<1>. DEFINE D == DOMAIN movs
            f == QtyOf(movs)
<1>1. IsFiniteSet(D) /\ \A i \in D : f[i] \in Int
  BY MovementsFinite DEF QtyOf
<1>. HIDE DEF D, f
<1>2. SumFunctionOnSet(f, D) \in Int
  BY <1>1, SumInt
<1>. QED  BY <1>2, SumsAre DEF D, f

LEMMA LayerSums ==
  ASSUME NEW f, IsLayers(f)
  PROVE  /\ Qty(f) \in Nat /\ CostOf(f) \in Nat
         /\ \A i \in DOMAIN f : f[i].qty <= Qty(f)
<1>. DEFINE D == DOMAIN f
            q == QtyOf(f)
            c == CostsOf(f)
<1>1. IsFiniteSet(D) /\ \A i \in D : q[i] \in Nat /\ q[i] = f[i].qty
  BY DEF IsLayers, QtyOf
<1>2. \A i \in D : c[i] \in Nat
  <2>1. \A a, b \in Nat : a * b \in Nat
    OBVIOUS
  <2>2. \A i \in D : f[i].cost \in Nat /\ f[i].qty \in Nat /\ c[i] = f[i].cost * f[i].qty
    BY DEF IsLayers, CostsOf
  <2>. QED  BY <2>1, <2>2
<1>. HIDE DEF D, q, c
<1>3. SumFunctionOnSet(q, D) \in Nat /\ \A i \in D : q[i] <= SumFunctionOnSet(q, D)
  BY <1>1, SumNat
<1>4. SumFunctionOnSet(c, D) \in Nat
  BY <1>1, <1>2, SumNat
<1>. QED  BY <1>1, <1>3, <1>4, SumsAre DEF D, q, c

LEMMA AverageIs ==
  ASSUME NEW movs \in Seq(Movement), DOMAIN Layers(movs) # {}
  PROVE  LET Q == Qty(Layers(movs))
             C == CostOf(Layers(movs))
             A == AverageCost(movs)
         IN  /\ Q \in Nat \ {0} /\ C \in Nat /\ A \in Nat
             /\ 2 * (Q * A) <= 2 * C + Q /\ 2 * C + Q < 2 * (Q * A) + 2 * Q
<1>. DEFINE in == Layers(movs)
            Q == Qty(in)
            C == CostOf(in)
<1>1. PICK i : i \in DOMAIN in
  OBVIOUS
<1>2. Q \in Nat /\ C \in Nat /\ in[i].qty <= Q /\ in[i].qty \in Nat \ {0}
  BY <1>1, LayersAre, LayerSums
<1>3. Q \in Nat \ {0} /\ C \in Int
  <2>. HIDE DEF Q, C, in
  <2>. QED  BY <1>2
<1>4. AverageCost(movs) = RoundDiv(C, Q)
  BY DEF AverageCost
<1>. HIDE DEF Q, C, in
<1>5. RoundDiv(C, Q) \in Nat /\ 2 * (Q * RoundDiv(C, Q)) <= 2 * C + Q
      /\ 2 * C + Q < 2 * (Q * RoundDiv(C, Q)) + 2 * Q
  BY <1>2, <1>3, RoundDivIs, RoundDivNat
<1>. QED  BY <1>2, <1>3, <1>4, <1>5 DEF Q, C, in

LEMMA AverageIsNat ==
  ASSUME NEW movs \in Seq(Movement)
  PROVE  AverageCost(movs) \in Nat
<1>1. CASE DOMAIN Layers(movs) = {}
  BY <1>1 DEF AverageCost
<1>2. CASE DOMAIN Layers(movs) # {}
  BY <1>2, AverageIs
<1>. QED  BY <1>1, <1>2

\* Layers that all cost at most, or at least, a cost.
LEMMA CostCompared ==
  ASSUME NEW f, IsLayers(f), NEW k \in Int
  PROVE  /\ (\A i \in DOMAIN f : f[i].cost <= k) => CostOf(f) <= k * Qty(f)
         /\ (\A i \in DOMAIN f : k <= f[i].cost) => k * Qty(f) <= CostOf(f)
<1>. DEFINE D == DOMAIN f
            q == QtyOf(f)
            c == CostsOf(f)
            g == [i \in D |-> k * f[i].qty]
<1>1. IsFiniteSet(D) /\ \A i \in D : f[i].cost \in Nat /\ f[i].qty \in Nat
  BY DEF IsLayers
<1>2. \A i \in D : q[i] = f[i].qty /\ c[i] = f[i].cost * f[i].qty /\ g[i] = k * f[i].qty
  BY DEF QtyOf, CostsOf
<1>3. \A a, b \in Int : a * b \in Int
  OBVIOUS
<1>4. \A i \in D : q[i] \in Int /\ c[i] \in Int /\ g[i] \in Int /\ g[i] = k * q[i]
  BY <1>1, <1>2, <1>3
<1>5. ASSUME NEW i \in D, f[i].cost <= k
      PROVE  c[i] <= g[i]
  <2>1. \A a, b, x \in Int : a <= b /\ 0 <= x => a * x <= b * x
    OBVIOUS
  <2>. QED  BY <1>1, <1>2, <1>5, <2>1
<1>6. ASSUME NEW i \in D, k <= f[i].cost
      PROVE  g[i] <= c[i]
  <2>1. \A a, b, x \in Int : a <= b /\ 0 <= x => a * x <= b * x
    OBVIOUS
  <2>. QED  BY <1>1, <1>2, <1>6, <2>1
<1>. HIDE DEF D, q, c, g
<1>7. SumFunctionOnSet(g, D) = k * SumFunctionOnSet(q, D)
  BY <1>1, <1>4, SumScale
<1>8. ASSUME \A i \in D : f[i].cost <= k
      PROVE  SumFunctionOnSet(c, D) <= SumFunctionOnSet(g, D)
  <2>1. \A i \in D : c[i] \in Int /\ g[i] \in Int /\ c[i] <= g[i]
    BY <1>4, <1>5, <1>8
  <2>. QED  BY <1>1, <2>1, SumGrows
<1>9. ASSUME \A i \in D : k <= f[i].cost
      PROVE  SumFunctionOnSet(g, D) <= SumFunctionOnSet(c, D)
  <2>1. \A i \in D : c[i] \in Int /\ g[i] \in Int /\ g[i] <= c[i]
    BY <1>4, <1>6, <1>9
  <2>. QED  BY <1>1, <2>1, SumGrows
<1>10. CostOf(f) = SumFunctionOnSet(c, D) /\ Qty(f) = SumFunctionOnSet(q, D)
  BY SumsAre DEF c, q, D
<1>. QED  BY <1>7, <1>8, <1>9, <1>10 DEF D

LEMMA AverageBetween ==
  ASSUME NEW movs \in Seq(Movement), DOMAIN Layers(movs) # {}
  PROVE  \E i, j \in DOMAIN Layers(movs) :
            /\ Layers(movs)[i].cost <= AverageCost(movs)
            /\ AverageCost(movs) <= Layers(movs)[j].cost
<1>. DEFINE in == Layers(movs)
            Q == Qty(in)
            C == CostOf(in)
            A == AverageCost(movs)
<1>1. /\ Q \in Nat \ {0} /\ C \in Nat /\ A \in Nat
      /\ 2 * (Q * A) <= 2 * C + Q /\ 2 * C + Q < 2 * (Q * A) + 2 * Q
  BY AverageIs
<1>2. IsLayers(in) /\ \A i \in DOMAIN in : in[i].cost \in Nat
  BY LayersAre DEF IsLayers
<1>. HIDE DEF in, A, Q, C
<1>3. \A x, y \in Int : (x - 1) * y = y * x - y /\ (x + 1) * y = y * x + y /\ y * x \in Int
  OBVIOUS
<1>4. \E i \in DOMAIN in : in[i].cost <= A
  <2>. SUFFICES ASSUME \A i \in DOMAIN in : ~ (in[i].cost <= A) PROVE FALSE
    OBVIOUS
  <2>1. \A i \in DOMAIN in : A + 1 <= in[i].cost
    BY <1>1, <1>2
  <2>2. A + 1 \in Int
    BY <1>1
  <2>3. (A + 1) * Q <= C
    BY <1>2, <2>1, <2>2, CostCompared DEF Q, C
  <2>4. Q * A + Q <= C
    BY <1>1, <1>3, <2>3
  <2>. QED  BY <1>1, <1>3, <2>4
<1>5. \E i \in DOMAIN in : A <= in[i].cost
  <2>. SUFFICES ASSUME \A i \in DOMAIN in : ~ (A <= in[i].cost) PROVE FALSE
    OBVIOUS
  <2>1. \A i \in DOMAIN in : in[i].cost <= A - 1
    BY <1>1, <1>2
  <2>2. A - 1 \in Int
    BY <1>1
  <2>3. C <= (A - 1) * Q
    BY <1>2, <2>1, <2>2, CostCompared DEF Q, C
  <2>4. C <= Q * A - Q
    BY <1>1, <1>3, <2>3
  <2>. QED  BY <1>1, <1>3, <2>4
<1>. QED  BY <1>4, <1>5 DEF in, A
LEMMA NoLayers ==
  ASSUME NEW f, DOMAIN f = {}
  PROVE  Qty(f) = 0 /\ CostOf(f) = 0
  BY SumsAre, SumEmpty

\* The two roundings, put together.
LEMMA TwoRoundings ==
  ASSUME NEW Q \in Nat, NEW H \in Nat, NEW C \in Int, NEW A \in Int, NEW V \in Int,
         2 * (Q * A) <= 2 * C + Q, 2 * C + Q <= 2 * (Q * A) + 2 * Q,
         2 * (100 * V) <= 2 * (A * H) + 100, 2 * (A * H) + 100 < 2 * (100 * V) + 2 * 100
  PROVE  200 * Q * V - 2 * H * C \in (0 - Q * (100 + H)) .. (Q * (100 + H))
<1>. DEFINE x == 200 * V - 2 * (A * H)
            y == 2 * (Q * A) - 2 * C
<1>1. \A a, b \in Int : a * b \in Int
  OBVIOUS
<1>2. A * H \in Int /\ Q * A \in Int
  BY <1>1
<1>3. x \in Int /\ -100 <= x /\ x <= 100 /\ y \in Int /\ 0 - Q <= y /\ y <= Q
  BY <1>2
<1>4. 200 * Q * V - 2 * H * C = Q * x + H * y
  <2>1. Q * x = 200 * (Q * V) - 2 * (Q * (A * H))
    <3>1. \A a, b, c \in Int : a * (200 * b - 2 * c) = 200 * (a * b) - 2 * (a * c)
      OBVIOUS
    <3>. QED  BY <1>2, <3>1
  <2>2. H * y = 2 * (H * (Q * A)) - 2 * (H * C)
    <3>1. \A a, b, c \in Int : a * (2 * b - 2 * c) = 2 * (a * b) - 2 * (a * c)
      OBVIOUS
    <3>. QED  BY <1>2, <3>1
  <2>3. Q * (A * H) = H * (Q * A)
    OBVIOUS
  <2>4. 200 * Q * V = 200 * (Q * V) /\ 2 * H * C = 2 * (H * C)
    OBVIOUS
  <2>5. Q * V \in Int /\ Q * (A * H) \in Int /\ H * C \in Int
    BY <1>1, <1>2
  <2>. HIDE DEF x, y
  <2>. QED  BY <2>1, <2>2, <2>3, <2>4, <2>5
<1>. HIDE DEF x, y
<1>5. Q * x <= Q * 100 /\ Q * (0 - 100) <= Q * x
  BY <1>3, TimesGrows
<1>6. H * y <= H * Q /\ H * (0 - Q) <= H * y
  <2>1. 0 - Q \in Int /\ Q \in Int /\ 0 <= H /\ H \in Int
    OBVIOUS
  <2>. QED  BY <1>3, <2>1, TimesGrows
<1>7. Q * (100 + H) = Q * 100 + H * Q /\ H * (0 - Q) = 0 - H * Q /\ Q * (0 - 100) = 0 - Q * 100
  OBVIOUS
<1>8. Q * x \in Int /\ H * y \in Int /\ H * Q \in Int
  BY <1>1, <1>3
<1>. QED  BY <1>4, <1>5, <1>6, <1>7, <1>8

LEMMA RoundingInBounds ==
  ASSUME NEW movs \in Seq(Movement), Qty(movs) > 0
  PROVE  LET Q == Qty(Layers(movs))
             H == Qty(movs)
         IN  200 * Q * Value(movs, Average) - 2 * H * CostOf(Layers(movs))
               \in (0 - Q * (100 + H)) .. (Q * (100 + H))
<1>. DEFINE Q == Qty(Layers(movs))
            H == Qty(movs)
            C == CostOf(Layers(movs))
            A == AverageCost(movs)
            V == Value(movs, Average)
<1>1. H \in Nat
  BY QtyIsInt
<1>2. V = RoundDiv(A * H, 100)
  BY <1>1, MethodsAreTwo DEF Value, CentsOf
<1>3. A \in Nat /\ A * H \in Int
  <2>1. A \in Nat
    BY AverageIsNat
  <2>. HIDE DEF A, H
  <2>. QED  BY <1>1, <2>1
<1>4. /\ Q \in Nat /\ C \in Nat
      /\ 2 * (Q * A) <= 2 * C + Q /\ 2 * C + Q <= 2 * (Q * A) + 2 * Q
  <2>1. CASE DOMAIN Layers(movs) = {}
    <3>1. Q = 0 /\ C = 0
      BY <2>1, NoLayers
    <3>. HIDE DEF Q, C, A
    <3>. QED  BY <1>3, <3>1
  <2>2. CASE DOMAIN Layers(movs) # {}
    <3>1. /\ Q \in Nat \ {0} /\ C \in Nat /\ A \in Nat
          /\ 2 * (Q * A) <= 2 * C + Q /\ 2 * C + Q < 2 * (Q * A) + 2 * Q
      BY <2>2, AverageIs
    <3>. HIDE DEF Q, C, A
    <3>2. Q * A \in Int
      BY <3>1
    <3>. QED  BY <3>1, <3>2
  <2>. QED  BY <2>1, <2>2
<1>. HIDE DEF Q, H, C, A, V
<1>5. /\ V \in Int /\ 2 * (100 * V) <= 2 * (A * H) + 100
      /\ 2 * (A * H) + 100 < 2 * (100 * V) + 2 * 100
  <2>. DEFINE n == A * H
              d == 100
  <2>1. n \in Int /\ d \in Nat \ {0} /\ V = RoundDiv(n, d)
    BY <1>2, <1>3
  <2>. HIDE DEF n, d
  <2>2. /\ V \in Int /\ 2 * (d * V) <= 2 * n + d /\ 2 * n + d < 2 * (d * V) + 2 * d
    BY <2>1, RoundDivIs
  <2>. QED  BY <2>2 DEF n, d
<1>6. 200 * Q * V - 2 * H * C \in (0 - Q * (100 + H)) .. (Q * (100 + H))
  <2>1. A \in Int /\ C \in Int
    BY <1>3, <1>4
  <2>. QED  BY <1>1, <1>4, <1>5, <2>1, TwoRoundings
<1>. QED  BY <1>6 DEF Q, H, C, V

-----------------------------------------------------------------------------
(* Values are amounts.                                                     *)

LEMMA OutboundIsNat ==
  ASSUME NEW movs \in Seq(Movement)
  PROVE  Outbound(movs) \in Nat
<1>. DEFINE out == RestrictValues(movs, LAMBDA m : m.qty < 0)
            D == {i \in DOMAIN movs : movs[i].qty < 0}
            q == QtyOf(out)
            neg == [i \in D |-> 0 - movs[i].qty]
<1>1. DOMAIN out = D /\ \A i \in D : out[i] = movs[i]
  BY DEF RestrictValues, Restrict
<1>2. IsFiniteSet(D) /\ \A i \in D : movs[i].qty \in Int
  BY MovementsFinite, FS_Subset
<1>3. \A i \in D : neg[i] \in Nat /\ q[i] = (0 - 1) * neg[i]
  BY <1>1, <1>2 DEF QtyOf
<1>4. Qty(out) = SumFunctionOnSet(q, D)
  BY <1>1, SumsAre
<1>5. Outbound(movs) = 0 - Qty(out)
  BY DEF Outbound
<1>. HIDE DEF D, q, neg, out
<1>6. SumFunctionOnSet(neg, D) \in Nat
  BY <1>2, <1>3, SumNat
<1>7. SumFunctionOnSet(q, D) = (0 - 1) * SumFunctionOnSet(neg, D)
  <2>. DEFINE c == 0 - 1
  <2>1. c \in Int /\ \A i \in D : neg[i] \in Int /\ q[i] = c * neg[i]
    BY <1>3
  <2>. HIDE DEF c
  <2>2. SumFunctionOnSet(q, D) = c * SumFunctionOnSet(neg, D)
    BY <1>2, <2>1, SumScale
  <2>. QED  BY <2>2 DEF c
<1>. QED  BY <1>4, <1>5, <1>6, <1>7

\* Layers with other quantities.
WithQty(layers, q) == [i \in DOMAIN layers |-> [layers[i] EXCEPT !.qty = q[i]]]

LEMMA WithQtyIs ==
  ASSUME NEW movs \in Seq(Movement), NEW layers, DOMAIN layers = DOMAIN Layers(movs),
         \A i \in DOMAIN layers : layers[i] \in Movement /\ layers[i].cost = movs[i].cost,
         NEW q, \A i \in DOMAIN layers : q[i] \in Nat
  PROVE  /\ IsLayers(WithQty(layers, q)) /\ DOMAIN WithQty(layers, q) = DOMAIN layers
         /\ \A i \in DOMAIN layers :
               /\ WithQty(layers, q)[i] \in Movement
               /\ WithQty(layers, q)[i].qty = q[i]
               /\ WithQty(layers, q)[i].cost = movs[i].cost
<1>. DEFINE w == WithQty(layers, q)
<1>1. DOMAIN w = DOMAIN layers
  BY DEF WithQty
<1>2. DOMAIN layers \subseteq Nat \ {0} /\ IsFiniteSet(DOMAIN layers)
      /\ \A i \in DOMAIN layers : movs[i].cost \in Nat
  BY LayersAre DEF IsLayers
<1>3. ASSUME NEW i \in DOMAIN layers
      PROVE  w[i] \in Movement /\ w[i].qty = q[i] /\ w[i].cost = movs[i].cost
  <2>. DEFINE l == layers[i]
              n == q[i]
  <2>1. l \in Movement /\ n \in Nat /\ l.cost = movs[i].cost
    OBVIOUS
  <2>2. w[i] = [l EXCEPT !.qty = n]
    BY DEF WithQty
  <2>. HIDE DEF l, n, w
  <2>3. l = [type |-> l.type, qty |-> l.qty, cost |-> l.cost, at |-> l.at]
        /\ l.type \in Types /\ l.cost \in Costs \cup {Unpriced} /\ l.at \in Nat
    BY <2>1 DEF Movement
  <2>4. w[i] = [type |-> l.type, qty |-> n, cost |-> l.cost, at |-> l.at]
    BY <2>2, <2>3
  <2>5. w[i] \in Movement
    BY <2>1, <2>3, <2>4 DEF Movement
  <2>6. w[i].qty = n
    BY <2>4
  <2>7. w[i].cost = l.cost
    BY <2>4
  <2>8. w[i].cost = movs[i].cost
    BY <2>1, <2>7
  <2>9. w[i].qty = q[i]
    BY <2>6 DEF n
  <2>. QED  BY <2>5, <2>8, <2>9
<1>. HIDE DEF w
<1>4. IsLayers(w)
  BY <1>1, <1>2, <1>3 DEF IsLayers
<1>. QED  BY <1>1, <1>3, <1>4 DEF w

LEMMA SurvivingIs ==
  ASSUME NEW movs \in Seq(Movement)
  PROVE  /\ IsLayers(Surviving(movs)) /\ DOMAIN Surviving(movs) = DOMAIN Layers(movs)
         /\ \A i \in DOMAIN Layers(movs) :
               /\ Surviving(movs)[i] \in Movement
               /\ Surviving(movs)[i].qty =
                     movs[i].qty - TakeOldest(Layers(movs), Outbound(movs))[i]
               /\ Surviving(movs)[i].cost = movs[i].cost
<1>. DEFINE layers == Layers(movs)
            gone == TakeOldest(layers, Outbound(movs))
            q == [i \in DOMAIN layers |-> layers[i].qty - gone[i]]
<1>1. /\ IsLayers(layers)
      /\ \A i \in DOMAIN layers : layers[i] = movs[i] /\ layers[i] \in Movement
                                 /\ layers[i].qty \in Nat
  BY LayersAre
<1>2. \A i \in DOMAIN layers : gone[i] \in Nat /\ gone[i] <= layers[i].qty
  BY <1>1, OutboundIsNat, TakeOldestIs
<1>3. \A i \in DOMAIN layers : q[i] \in Nat /\ q[i] = movs[i].qty - gone[i]
  <2>. HIDE DEF gone, layers
  <2>. QED  BY <1>1, <1>2
<1>4. Surviving(movs) = WithQty(layers, q)
  BY DEF Surviving, WithQty
<1>. HIDE DEF q, gone
<1>5. /\ IsLayers(WithQty(layers, q)) /\ DOMAIN WithQty(layers, q) = DOMAIN layers
      /\ \A i \in DOMAIN layers :
               /\ WithQty(layers, q)[i] \in Movement
               /\ WithQty(layers, q)[i].qty = q[i]
               /\ WithQty(layers, q)[i].cost = movs[i].cost
  <2>1. DOMAIN layers = DOMAIN Layers(movs)
    OBVIOUS
  <2>. HIDE DEF layers
  <2>2. /\ \A i \in DOMAIN layers : layers[i] \in Movement /\ layers[i].cost = movs[i].cost
        /\ \A i \in DOMAIN layers : q[i] \in Nat
    BY <1>1, <1>3
  <2>. QED  BY <2>1, <2>2, WithQtyIs
<1>. QED  BY <1>3, <1>4, <1>5 DEF gone

\* The layers, with what the units on hand take of each.
Used(movs, onHand) ==
    WithQty(Surviving(movs), TakeOldest(Surviving(movs), IF onHand > 0 THEN onHand ELSE 0))

LEMMA FifoValueIs ==
  ASSUME NEW movs \in Seq(Movement), NEW n \in Int
  PROVE  /\ FifoValue(movs, n) = CentsOf(CostOf(Used(movs, n)))
         /\ IsLayers(Used(movs, n)) /\ DOMAIN Used(movs, n) = DOMAIN Layers(movs)
         /\ \A i \in DOMAIN Layers(movs) :
               /\ Used(movs, n)[i].cost = movs[i].cost
               /\ Used(movs, n)[i].qty =
                     TakeOldest(Surviving(movs), IF n > 0 THEN n ELSE 0)[i]
<1>. DEFINE layers == Surviving(movs)
            used == TakeOldest(layers, IF n > 0 THEN n ELSE 0)
<1>1. /\ IsLayers(layers) /\ DOMAIN layers = DOMAIN Layers(movs)
      /\ \A i \in DOMAIN layers : layers[i] \in Movement /\ layers[i].cost = movs[i].cost
  BY SurvivingIs
<1>2. \A i \in DOMAIN layers : used[i] \in Nat
  <2>1. (IF n > 0 THEN n ELSE 0) \in Nat
    OBVIOUS
  <2>. QED  BY <1>1, <2>1, TakeOldestIs
<1>3. FifoValue(movs, n) = CentsOf(CostOf(WithQty(layers, used)))
  BY DEF FifoValue, WithQty
<1>4. Used(movs, n) = WithQty(layers, used)
  BY DEF Used
<1>. HIDE DEF layers, used
<1>5. /\ IsLayers(WithQty(layers, used)) /\ DOMAIN WithQty(layers, used) = DOMAIN layers
      /\ \A i \in DOMAIN layers : /\ WithQty(layers, used)[i].cost = movs[i].cost
                                 /\ WithQty(layers, used)[i].qty = used[i]
  BY <1>1, <1>2, WithQtyIs
<1>. QED  BY <1>1, <1>3, <1>4, <1>5 DEF used, layers

LEMMA CentsAreNat == \A n \in Nat : CentsOf(n) \in Nat
  BY RoundDivNat DEF CentsOf

LEMMA ValueIsNat ==
  ASSUME NEW movs \in Seq(Movement), NEW method
  PROVE  Value(movs, method) \in Nat
<1>1. Qty(movs) \in Int
  BY QtyIsInt
<1>2. FifoValue(movs, Qty(movs)) \in Nat
  <2>1. FifoValue(movs, Qty(movs)) = CentsOf(CostOf(Used(movs, Qty(movs))))
        /\ IsLayers(Used(movs, Qty(movs)))
    BY <1>1, FifoValueIs
  <2>2. CostOf(Used(movs, Qty(movs))) \in Nat
    BY <2>1, LayerSums
  <2>. QED  BY <2>1, <2>2, CentsAreNat
<1>3. Qty(movs) > 0 => CentsOf(AverageCost(movs) * Qty(movs)) \in Nat
  <2>1. AverageCost(movs) \in Nat
    BY AverageIsNat
  <2>2. \A a, b \in Int : a \in Nat /\ b > 0 => a * b \in Nat
    OBVIOUS
  <2>. QED  BY <1>1, <2>1, <2>2, CentsAreNat, SMTT(30)
<1>. QED  BY <1>1, <1>2, <1>3 DEF Value

-----------------------------------------------------------------------------
(* Types.  What a report holds while it is built, beside what the type     *)
(* invariant says: a pair has a row or is still to do, never both.         *)

InLedger == ledger \in [Pairs -> Seq(Movement)]

Asked(r) == r.query \in ReportQueries

Valuing(r) ==
    /\ r = [phase |-> "valuing", query |-> r.query, rows |-> r.rows, todo |-> r.todo]
    /\ Asked(r)
    /\ r.todo \in SUBSET Pairs

OneRowEach(r) ==
    /\ r.rows \subseteq ReportRow
    /\ \A s, t \in r.rows : s.of = t.of => s = t

InReport ==
    /\ report.phase \in {"none", "valuing", "done", "summing", "summary"}
    /\ report.phase \in {"valuing", "done"} => OneRowEach(report) /\ Asked(report)
    /\ report.phase = "valuing" =>
          Valuing(report) /\ \A s \in report.rows : s.of \notin report.todo

ValuationInv == InLedger /\ disturbed \in BOOLEAN /\ InReport

\* The pairs, and those of a scope, are finitely many.
LEMMA PairsFinite ==
  IsFiniteSet(Pairs) /\ \A P \in SUBSET Pairs : IsFiniteSet(P)
<1>1. IsFiniteSet(Pairs)
  BY TablesAreFinite, FS_Product DEF Pairs
<1>. QED  BY <1>1, FS_Subset

\* A sum of integers with one of them changed.
LEMMA SumChanged ==
  ASSUME NEW S, IsFiniteSet(S), NEW p \in S, NEW d \in Int, NEW f, NEW g,
         \A x \in S : f[x] \in Int /\ g[x] = f[x] + (IF x = p THEN d ELSE 0)
  PROVE  /\ SumFunctionOnSet(f, S) \in Int
         /\ SumFunctionOnSet(g, S) = SumFunctionOnSet(f, S) + d
<1>1. IsFiniteSet(S \ {p}) /\ \A x \in S : g[x] \in Int
  BY FS_RemoveElement
<1>2. SumFunctionOnSet(f, S) = f[p] + SumFunctionOnSet(f, S \ {p})
      /\ SumFunctionOnSet(f, S \ {p}) \in Int
  BY SumWithout
<1>3. SumFunctionOnSet(g, S) = g[p] + SumFunctionOnSet(g, S \ {p})
  BY <1>1, SumWithout
<1>4. SumFunctionOnSet(f, S \ {p}) = SumFunctionOnSet(g, S \ {p})
  <2>. DEFINE R == S \ {p}
  <2>1. \A x \in R : f[x] = g[x]
    OBVIOUS
  <2>. HIDE DEF R
  <2>2. SumFunctionOnSet(f, R) = SumFunctionOnSet(g, R)
    BY <1>1, <2>1, SumSame DEF R
  <2>. QED  BY <2>2 DEF R
<1>5. f[p] \in Int /\ g[p] = f[p] + d
  OBVIOUS
<1>. QED  BY <1>2, <1>3, <1>4, <1>5

RowOn(l, type, qty, cost) ==
    [type |-> type, qty |-> qty, cost |-> cost, at |-> NumRows(l) + 1]

\* A posted row is the last of its pair, and one more.
LEMMA PostIs ==
  ASSUME NEW l \in [Pairs -> Seq(Movement)], NEW p \in Pairs,
         NEW type \in Types, NEW qty \in Int, NEW cost \in Costs \cup {Unpriced}
  PROVE  /\ NumRows(l) \in Nat /\ RowOn(l, type, qty, cost) \in Movement
         /\ Post(l, p, type, qty, cost) \in [Pairs -> Seq(Movement)]
         /\ \A x \in Pairs : Post(l, p, type, qty, cost)[x] =
               IF x = p THEN Append(l[x], RowOn(l, type, qty, cost)) ELSE l[x]
         /\ NumRows(Post(l, p, type, qty, cost)) = NumRows(l) + 1
<1>. DEFINE m == RowOn(l, type, qty, cost)
            new == Post(l, p, type, qty, cost)
            f == [x \in Pairs |-> Len(l[x])]
            g == [x \in Pairs |-> Len(new[x])]
<1>1. IsFiniteSet(Pairs) /\ NumRows(l) = SumFunctionOnSet(f, Pairs)
      /\ NumRows(new) = SumFunctionOnSet(g, Pairs)
  BY PairsFinite DEF NumRows, SumFunction
<1>2. \A x \in Pairs : f[x] \in Nat /\ f[x] \in Int
  <2>. SUFFICES ASSUME NEW x \in Pairs PROVE f[x] \in Nat
    OBVIOUS
  <2>1. Len(l[x]) \in Nat
    BY LenProperties
  <2>. QED  BY <2>1
<1>3. NumRows(l) \in Nat
  <2>. HIDE DEF f
  <2>1. SumFunctionOnSet(f, Pairs) \in Nat
    BY <1>1, <1>2, SumNat
  <2>. QED  BY <1>1, <2>1
<1>4. m \in Movement
  BY <1>3 DEF Movement, RowOn
<1>5. new = [l EXCEPT ![p] = Append(@, m)]
  BY DEF Post, RowOn
<1>. HIDE DEF m
<1>6. Append(l[p], m) \in Seq(Movement) /\ Len(Append(l[p], m)) = Len(l[p]) + 1
  BY <1>4, AppendProperties
<1>7. /\ new \in [Pairs -> Seq(Movement)]
      /\ \A x \in Pairs : new[x] = IF x = p THEN Append(l[x], m) ELSE l[x]
  BY <1>5, <1>6
<1>. HIDE DEF new
<1>8. \A x \in Pairs : g[x] = f[x] + (IF x = p THEN 1 ELSE 0)
  <2>. SUFFICES ASSUME NEW x \in Pairs PROVE g[x] = f[x] + (IF x = p THEN 1 ELSE 0)
    OBVIOUS
  <2>1. CASE x = p
    BY <1>6, <1>7, <2>1
  <2>2. CASE x # p
    <3>1. g[x] = f[x]
      BY <1>7, <2>2
    <3>. HIDE DEF f, g
    <3>. QED  BY <1>2, <2>2, <3>1
  <2>. QED  BY <2>1, <2>2
<1>. HIDE DEF f, g
<1>9. SumFunctionOnSet(g, Pairs) = SumFunctionOnSet(f, Pairs) + 1
  BY <1>1, <1>2, <1>8, SumChanged
<1>. QED  BY <1>1, <1>3, <1>4, <1>7, <1>9 DEF m, new

\* What a write does beside the ledger.
Written ==
    /\ report.phase \notin {"done", "summary"}
    /\ disturbed' = (report.phase # "none")
    /\ UNCHANGED report

\* The steps of the system, the writes of the ledger taken together.
LEMMA StepKinds ==
  ASSUME [Next]_vars
  PROVE  \/ Written
         \/ \E p \in Pairs : ValuePair(p)
         \/ \E query \in ReportQueries : StartReport(query)
         \/ \E query \in SummaryQueries : StartSummary(query)
         \/ FinishReport
         \/ \E first \in {"byType", "movements"} : FinishSummary(first)
         \/ Deliver
         \/ UNCHANGED vars
  BY DEF Next, Receive, Dispatch, Adjust, Transfer, Write, Written, Answered

LEMMA QueryIs ==
  ASSUME NEW query \in ReportQueries
  PROVE  /\ query.methods \in [Variants -> Methods]
         /\ Scoped(query) \in SUBSET Pairs
<1>1. \A m \in Methods : [v \in Variants |-> m] \in [Variants -> Methods]
  OBVIOUS
<1>2. query.scope \in OneOrAll(Warehouses)
      /\ query.methods \in {MethodOf} \cup {[v \in Variants |-> m] : m \in Methods}
  BY ReportsAreAsked
<1>3. query.scope \subseteq Warehouses
  BY <1>2 DEF OneOrAll
<1>. QED  BY <1>1, <1>2, <1>3, MethodsAreTwo DEF Scoped, Pairs

LEMMA LedgerInit == Init => InLedger
  BY EmptySeq DEF Init, InLedger

LEMMA LedgerStep ==
  ASSUME InLedger, [Next]_vars
  PROVE  InLedger'
<1>0. Unpriced \in Costs \cup {Unpriced} /\ Types = {"RECEIVE", "DISPATCH",
        "ADJUSTMENT", "TRANSFER_OUT", "TRANSFER_IN"}
  BY DEF Types
<1>1. ASSUME NEW p \in Pairs, NEW q \in Quantities, NEW c \in Costs \cup {Unpriced},
             Receive(p, q, c)
      PROVE  InLedger'
  <2>1. ledger' = Post(ledger, p, "RECEIVE", q, c) /\ q \in Int
    BY <1>1, AmountsAreNonZero DEF Receive, Write
  <2>. QED  BY <1>0, <2>1, PostIs DEF InLedger
<1>2. ASSUME NEW p \in Pairs, NEW q \in Quantities, Dispatch(p, q)
      PROVE  InLedger'
  <2>1. ledger' = Post(ledger, p, "DISPATCH", 0 - q, Unpriced) /\ 0 - q \in Int
    BY <1>2, AmountsAreNonZero DEF Dispatch, Write
  <2>. QED  BY <1>0, <2>1, PostIs DEF InLedger
<1>3. ASSUME NEW p \in Pairs, NEW d \in Deltas, Adjust(p, d)
      PROVE  InLedger'
  <2>1. ledger' = Post(ledger, p, "ADJUSTMENT", d, Unpriced) /\ d \in Int
    BY <1>3, AmountsAreNonZero DEF Adjust, Write
  <2>. QED  BY <1>0, <2>1, PostIs DEF InLedger
<1>4. ASSUME NEW p \in Pairs, NEW w \in Warehouses, NEW q \in Quantities,
             Transfer(p, w, q)
      PROVE  InLedger'
  <2>. DEFINE out == Post(ledger, p, "TRANSFER_OUT", 0 - q, Unpriced)
  <2>1. ledger' = Post(out, <<p[1], w>>, "TRANSFER_IN", q, Unpriced)
        /\ q \in Int /\ 0 - q \in Int
    BY <1>4, AmountsAreNonZero DEF Transfer, Write
  <2>2. <<p[1], w>> \in Pairs
    BY DEF Pairs
  <2>3. out \in [Pairs -> Seq(Movement)]
    BY <1>0, <2>1, PostIs DEF InLedger
  <2>. HIDE DEF out
  <2>. QED  BY <1>0, <2>1, <2>2, <2>3, PostIs DEF InLedger
<1>5. CASE UNCHANGED ledger
  BY <1>5 DEF InLedger
<1>. QED
  BY <1>1, <1>2, <1>3, <1>4, <1>5
  DEF Next, ValuePair, StartReport, StartSummary, FinishReport, FinishSummary, Deliver, vars

LEMMA InitInv == Init => ValuationInv
<1>. SUFFICES ASSUME Init PROVE ValuationInv
  OBVIOUS
<1>1. report.phase = "none" /\ disturbed = FALSE
  BY DEF Init, NoReport
<1>2. InReport
  BY <1>1 DEF InReport
<1>. QED  BY <1>1, <1>2, LedgerInit DEF ValuationInv

LEMMA StepInv ==
  ASSUME ValuationInv, [Next]_vars
  PROVE  ValuationInv'
<1>1. InLedger'
  BY LedgerStep DEF ValuationInv
<1>2. CASE Written
  BY <1>1, <1>2 DEF Written, ValuationInv, InReport, NoReport, OneRowEach, Asked, Valuing
<1>3. ASSUME NEW p \in Pairs, ValuePair(p)
      PROVE  ValuationInv'
  <2>. DEFINE row == RowOf(p)
  <2>1. /\ report.phase = "valuing" /\ p \in report.todo /\ Valuing(report)
        /\ OneRowEach(report) /\ Asked(report)
        /\ \A s \in report.rows : s.of \notin report.todo
    BY <1>3 DEF ValuePair, ValuationInv, InReport
  <2>2. report' = [phase |-> "valuing", query |-> report.query,
                   rows |-> RowsWith(p), todo |-> report.todo \ {p}]
        /\ disturbed' = disturbed
    BY <1>3, <2>1 DEF ValuePair, Valuing
  <2>3. RowsWith(p) \in SUBSET (report.rows \cup {row})
        /\ (row \in RowsWith(p) => row.qty > 0 \/ row \in report.rows)
    BY DEF RowsWith
  <2>4. row.of = p /\ row.qty \in Int /\ row.value \in Nat
        /\ row = [of |-> row.of, qty |-> row.qty, value |-> row.value]
    BY QtyIsInt, ValueIsNat DEF RowOf, ValuationInv, InLedger
  <2>5. row.qty > 0 => row \in ReportRow
    BY <2>4 DEF ReportRow
  <2>. HIDE DEF row
  <2>6. RowsWith(p) \subseteq ReportRow
    BY <2>1, <2>3, <2>5 DEF OneRowEach
  <2>7. \A s, t \in RowsWith(p) : s.of = t.of => s = t
    BY <2>1, <2>3, <2>4 DEF OneRowEach
  <2>8. \A s \in RowsWith(p) : s.of \notin report.todo \ {p}
    BY <2>1, <2>3, <2>4
  <2>. QED
    BY <1>1, <2>1, <2>2, <2>6, <2>7, <2>8
    DEF ValuationInv, InReport, OneRowEach, Asked, Valuing
<1>4. ASSUME NEW query \in ReportQueries, StartReport(query)
      PROVE  ValuationInv'
  <2>. DEFINE todo == {p \in Scoped(query) : Qty(ledger[p]) > 0}
  <2>1. todo \in SUBSET Pairs
    BY QueryIs
  <2>2. report' = [phase |-> "valuing", query |-> query, rows |-> {}, todo |-> todo]
        /\ disturbed' = FALSE
    BY <1>4 DEF StartReport
  <2>. HIDE DEF todo
  <2>. QED
    BY <1>1, <2>1, <2>2 DEF ValuationInv, InReport, OneRowEach, Asked, Valuing
<1>5. ASSUME NEW query \in SummaryQueries, StartSummary(query)
      PROVE  ValuationInv'
  BY <1>1, <1>5 DEF StartSummary, ValuationInv, InReport
<1>6. CASE FinishReport
  <2>1. /\ report'.phase = "done" /\ report'.query = report.query
        /\ report'.rows = report.rows
        /\ disturbed' = disturbed /\ report.phase = "valuing"
    BY <1>6 DEF FinishReport
  <2>. QED  BY <1>1, <2>1 DEF ValuationInv, InReport, OneRowEach, Asked
<1>7. ASSUME NEW first \in {"byType", "movements"}, FinishSummary(first)
      PROVE  ValuationInv'
  <2>1. report'.phase = "summary" /\ disturbed' = disturbed
    BY <1>7 DEF FinishSummary
  <2>. QED  BY <1>1, <2>1 DEF ValuationInv, InReport
<1>8. CASE Deliver
  BY <1>1, <1>8 DEF Deliver, NoReport, ValuationInv, InReport
<1>9. CASE UNCHANGED vars
  BY <1>1, <1>9 DEF vars, ValuationInv, InReport, OneRowEach, Asked, Valuing
<1>. QED  BY <1>2, <1>3, <1>4, <1>5, <1>6, <1>7, <1>8, <1>9, StepKinds

LEMMA AlwaysInv == Spec => []ValuationInv
<1>1. ValuationInv /\ [Next]_vars => ValuationInv'
  BY StepInv
<1>. QED  BY <1>1, InitInv, PTL DEF Spec

\* The rows of a report are of pairs of a variant and a warehouse with stock,
\* at most one row each, whatever movements stockValuationReport meets between
\* the grouping and the query of a pair.
THEOREM ValuationTypes == Spec => []ValuationTypeOK
<1>1. ValuationInv => ValuationTypeOK
  BY DEF ValuationInv, InLedger, InReport, OneRowEach, ValuationTypeOK
<1>. QED  BY <1>1, AlwaysInv, PTL

\* weightedAverageCost stays between the least and the greatest unit cost paid,
\* through the rounding and whatever was received without a cost.
THEOREM AverageIsACost == Spec => []AverageWithinCosts
<1>1. ValuationInv => AverageWithinCosts
  <2>. SUFFICES ASSUME InLedger, NEW p \in Pairs, DOMAIN Layers(ledger[p]) # {}
                PROVE  \E i, j \in DOMAIN Layers(ledger[p]) :
                          /\ Layers(ledger[p])[i].cost <= AverageCost(ledger[p])
                          /\ AverageCost(ledger[p]) <= Layers(ledger[p])[j].cost
    BY DEF ValuationInv, AverageWithinCosts
  <2>1. ledger[p] \in Seq(Movement)
    BY DEF InLedger
  <2>. QED  BY <2>1, AverageBetween
<1>. QED  BY <1>1, AlwaysInv, PTL

\* computeVariantValuation by weighted average rounds twice; the two roundings
\* stay within half a cent and 1/20000 of a unit of money per unit on hand.
THEOREM RoundingStaysBounded == Spec => []RoundingBounded
<1>1. ValuationInv => RoundingBounded
  <2>. SUFFICES ASSUME InLedger, NEW p \in Pairs, Qty(ledger[p]) > 0
                PROVE  LET Q == Qty(Layers(ledger[p]))
                           H == Qty(ledger[p])
                       IN  200 * Q * Value(ledger[p], Average)
                             - 2 * H * CostOf(Layers(ledger[p]))
                             \in (0 - Q * (100 + H)) .. (Q * (100 + H))
    BY DEF ValuationInv, RoundingBounded
  <2>1. ledger[p] \in Seq(Movement)
    BY DEF InLedger
  <2>. QED  BY <2>1, RoundingInBounds
<1>. QED  BY <1>1, AlwaysInv, PTL

-----------------------------------------------------------------------------
(* A report that nothing was written under.  While it is built its rows    *)
(* are those of the stocked pairs of its scope that are not to do any more.*)

RowBy(p, methods) ==
    [of |-> p, qty |-> Qty(ledger[p]), value |-> Value(ledger[p], methods[p[1]])]
ReportRows(P, methods) == {RowBy(p, methods) : p \in P}
Stocked(query) == {p \in Scoped(query) : Qty(ledger[p]) > 0}
WarehouseOf == [p \in Pairs |-> p[2]]
CategoryKey == [p \in Pairs |-> CategoryOf[p[1]]]

Undisturbed ==
    ~disturbed =>
        /\ report.phase = "valuing" =>
              /\ report.todo \subseteq Stocked(report.query)
              /\ report.rows = ReportRows(Stocked(report.query) \ report.todo, report.query.methods)
        /\ report.phase = "done" =>
              /\ report.rows = ReportRows(Stocked(report.query), report.query.methods)
              /\ report.grandTotal = Total(report.rows)
              /\ report.byWarehouse = Subtotals(report.rows, WarehouseOf)
              /\ report.byCategory = Subtotals(report.rows, CategoryKey)

LEMMA UndisturbedInit == Init => Undisturbed
<1>. SUFFICES ASSUME Init PROVE Undisturbed
  OBVIOUS
<1>1. report.phase = "none"
  BY DEF Init, NoReport
<1>. QED  BY <1>1 DEF Undisturbed

LEMMA UndisturbedStep ==
  ASSUME ValuationInv, Undisturbed, [Next]_vars
  PROVE  Undisturbed'
<1>1. CASE Written
  BY <1>1 DEF Written, Undisturbed
<1>2. ASSUME NEW p \in Pairs, ValuePair(p), ~disturbed
      PROVE  Undisturbed'
  <2>. DEFINE S == Stocked(report.query)
              row == RowBy(p, report.query.methods)
  <2>1. /\ report.phase = "valuing" /\ p \in report.todo /\ Valuing(report)
        /\ report.todo \subseteq S
        /\ report.rows = ReportRows(S \ report.todo, report.query.methods)
    BY <1>2 DEF ValuePair, ValuationInv, InReport, Undisturbed
  <2>2. report' = [phase |-> "valuing", query |-> report.query,
                   rows |-> RowsWith(p), todo |-> report.todo \ {p}]
        /\ UNCHANGED ledger
    BY <1>2, <2>1 DEF ValuePair, Valuing
  <2>3. row = RowOf(p) /\ row.qty > 0
    BY <2>1 DEF RowBy, RowOf, Stocked
  <2>4. RowsWith(p) = report.rows \cup {row}
    <3>. HIDE DEF row
    <3>. QED  BY <2>3 DEF RowsWith
  <2>5. S \ (report.todo \ {p}) = (S \ report.todo) \cup {p}
    BY <2>1
  <2>6. RowsWith(p) = ReportRows(S \ (report.todo \ {p}), report.query.methods)
    <3>1. ReportRows((S \ report.todo) \cup {p}, report.query.methods)
            = ReportRows(S \ report.todo, report.query.methods) \cup {row}
      <4>. HIDE DEF S
      <4>. QED  BY DEF ReportRows
    <3>. HIDE DEF row
    <3>. QED  BY <2>1, <2>4, <2>5, <3>1
  <2>7. Stocked(report.query)' = S /\ report'.query = report.query
        /\ report'.todo = report.todo \ {p}
        /\ report'.rows = RowsWith(p) /\ report'.phase = "valuing"
    BY <2>2 DEF Stocked
  <2>8. \A P, m : ReportRows(P, m)' = ReportRows(P, m)
    BY <2>2 DEF ReportRows, RowBy
  <2>. QED  BY <2>1, <2>6, <2>7, <2>8 DEF Undisturbed
<1>3. ASSUME NEW query \in ReportQueries, StartReport(query)
      PROVE  Undisturbed'
  <2>1. /\ report'.phase = "valuing" /\ report'.query = query /\ report'.rows = {}
        /\ report'.todo = Stocked(query) /\ ledger' = ledger
    BY <1>3 DEF StartReport, Stocked
  <2>2. Stocked(report.query)' = report'.todo
    BY <2>1 DEF Stocked
  <2>3. \A m : ReportRows({}, m)' = {}
    BY DEF ReportRows
  <2>. QED  BY <2>1, <2>2, <2>3 DEF Undisturbed
<1>4. CASE FinishReport /\ ~disturbed
  <2>. DEFINE S == Stocked(report.query)
  <2>1. /\ report.phase = "valuing" /\ report.todo = {} /\ S \ {} = S
        /\ report.rows = ReportRows(S \ report.todo, report.query.methods)
    BY <1>4 DEF FinishReport, Undisturbed
  <2>2. report' = [phase |-> "done", query |-> report.query,
                   rows |-> report.rows, grandTotal |-> Total(report.rows),
                   byWarehouse |-> Subtotals(report.rows, WarehouseOf),
                   byCategory |-> Subtotals(report.rows, CategoryKey)]
        /\ UNCHANGED ledger
    BY <1>4 DEF FinishReport, WarehouseOf, CategoryKey
  <2>3. /\ report'.phase = "done" /\ report'.query = report.query
        /\ report'.rows = report.rows
        /\ report'.grandTotal = Total(report.rows)
        /\ report'.byWarehouse = Subtotals(report.rows, WarehouseOf)
        /\ report'.byCategory = Subtotals(report.rows, CategoryKey)
    BY <2>2
  <2>4. Stocked(report.query)' = S /\ \A P, m : ReportRows(P, m)' = ReportRows(P, m)
    BY <2>2, <2>3 DEF Stocked, ReportRows, RowBy
  <2>5. report'.rows = ReportRows(S, report.query.methods)
    BY <2>1, <2>3
  <2>. QED  BY <2>3, <2>4, <2>5 DEF Undisturbed, WarehouseOf, CategoryKey
<1>5. ASSUME report'.phase \in {"summing", "summary", "none"}
      PROVE  Undisturbed'
  BY <1>5 DEF Undisturbed
<1>6. /\ \A query \in SummaryQueries : StartSummary(query) => report'.phase = "summing"
      /\ \A first \in {"byType", "movements"} :
            FinishSummary(first) => report'.phase = "summary"
      /\ Deliver => report'.phase = "none"
  BY DEF StartSummary, FinishSummary, Deliver, NoReport
<1>7. CASE UNCHANGED vars
  <2>1. Stocked(report.query)' = Stocked(report.query)
        /\ (\A P, m : ReportRows(P, m)' = ReportRows(P, m))
        /\ report' = report /\ disturbed' = disturbed
    BY <1>7 DEF vars, Stocked, ReportRows, RowBy
  <2>. QED  BY <2>1 DEF Undisturbed
<1>8. ASSUME disturbed, disturbed' = disturbed
      PROVE  Undisturbed'
  BY <1>8 DEF Undisturbed
<1>. QED
  BY <1>1, <1>2, <1>3, <1>4, <1>5, <1>6, <1>7, <1>8, StepKinds
  DEF ValuePair, FinishReport

\* The totals of a set of pairs, all stocked.
StockOf(P, methods) ==
    [qty |-> SumFunction([p \in P |-> Qty(ledger[p])]),
     value |-> SumFunction([p \in P |-> Value(ledger[p], methods[p[1]])])]

LEMMA TotalIsStock ==
  ASSUME InLedger, NEW P \in SUBSET Pairs, NEW methods
  PROVE  Total(ReportRows(P, methods)) = StockOf(P, methods)
<1>. DEFINE R == ReportRows(P, methods)
            h == [p \in P |-> RowBy(p, methods)]
            q == [r \in R |-> r.qty]
            v == [r \in R |-> r.value]
            qs == [p \in P |-> Qty(ledger[p])]
            vs == [p \in P |-> Value(ledger[p], methods[p[1]])]
<1>1. IsFiniteSet(P)
  BY PairsFinite
<1>2. h \in [P -> R] /\ \A r \in R : \E p \in P : h[p] = r
  BY DEF ReportRows
<1>3. \A p \in P : /\ h[p].of = p /\ h[p].qty = qs[p] /\ h[p].value = vs[p]
                   /\ h[p] \in R
  BY DEF RowBy, ReportRows
<1>4. \A p \in P : qs[p] \in Int /\ vs[p] \in Int
  <2>1. \A p \in P : ledger[p] \in Seq(Movement)
    BY DEF InLedger
  <2>. QED  BY <2>1, QtyIsInt, ValueIsNat
<1>5. \A p \in P : /\ q[h[p]] \in Int /\ qs[p] = q[h[p]]
                   /\ v[h[p]] \in Int /\ vs[p] = v[h[p]]
  <2>. HIDE DEF h, R, qs, vs
  <2>. QED  BY <1>3, <1>4
<1>6. \A p, s \in P : h[p] = h[s] => p = s
  <2>. HIDE DEF h
  <2>. QED  BY <1>3
<1>7. SumFunction(q) = SumFunctionOnSet(q, R) /\ SumFunction(v) = SumFunctionOnSet(v, R)
      /\ SumFunction(qs) = SumFunctionOnSet(qs, P)
      /\ SumFunction(vs) = SumFunctionOnSet(vs, P)
  BY DEF SumFunction
<1>8. Total(R) = [qty |-> SumFunction(q), value |-> SumFunction(v)]
      /\ StockOf(P, methods) = [qty |-> SumFunction(qs), value |-> SumFunction(vs)]
  BY DEF Total, StockOf
<1>. HIDE DEF R, h, q, v, qs, vs
<1>9. SumFunctionOnSet(q, R) = SumFunctionOnSet(qs, P)
  BY <1>1, <1>2, <1>5, <1>6, SumReindex
<1>10. SumFunctionOnSet(v, R) = SumFunctionOnSet(vs, P)
  BY <1>1, <1>2, <1>5, <1>6, SumReindex
<1>. QED  BY <1>7, <1>8, <1>9, <1>10 DEF R

\* Rows grouped by a key of their pair are the rows of the pairs with that key.
LEMMA SubtotalIsStock ==
  ASSUME InLedger, NEW P \in SUBSET Pairs, NEW methods, NEW keyOf,
         NEW k \in DOMAIN Subtotals(ReportRows(P, methods), keyOf)
  PROVE  Subtotals(ReportRows(P, methods), keyOf)[k] = StockOf({p \in P : keyOf[p] = k}, methods)
<1>. DEFINE R == ReportRows(P, methods)
            Of == {p \in P : keyOf[p] = k}
<1>1. Subtotals(R, keyOf)[k] = Total({r \in R : keyOf[r.of] = k})
  BY DEF Subtotals
<1>2. {r \in R : keyOf[r.of] = k} = ReportRows(Of, methods)
  BY DEF ReportRows, RowBy
<1>3. Of \in SUBSET Pairs
  OBVIOUS
<1>. HIDE DEF Of
<1>4. Total(ReportRows(Of, methods)) = StockOf(Of, methods)
  BY <1>3, TotalIsStock
<1>. QED  BY <1>1, <1>2, <1>4 DEF Of

\* stockValuationReport: when no movement was written while it was built, its
\* grand total and the subtotals of groupRows, by warehouse and by category, are
\* the stock and the values of the pairs in its scope: a snapshot of the ledger.
THEOREM ReportIsASnapshot == Spec => []ReportIsLedgerAtRest
<1>1. ValuationInv /\ Undisturbed => ReportIsLedgerAtRest
  <2>. SUFFICES ASSUME InLedger, Asked(report), Undisturbed, report.phase = "done", ~disturbed
                PROVE  ReportIsLedgerAtRest
    BY DEF ReportIsLedgerAtRest, ValuationInv, InReport
  <2>. DEFINE S == Stocked(report.query)
              m == report.query.methods
              scoped == Scoped(report.query)
              stock(P) == StockOf({p \in P : Qty(ledger[p]) > 0}, m)
  <2>1. /\ report.grandTotal = Total(ReportRows(S, m))
        /\ report.byWarehouse = Subtotals(ReportRows(S, m), WarehouseOf)
        /\ report.byCategory = Subtotals(ReportRows(S, m), CategoryKey)
    BY DEF Undisturbed
  <2>2. S \in SUBSET Pairs /\ scoped \in SUBSET Pairs
    BY QueryIs DEF Stocked, Asked
  <2>3. {p \in scoped : Qty(ledger[p]) > 0} = S
    BY DEF Stocked
  <2>4. report.grandTotal = stock(scoped)
    BY <2>1, <2>2, <2>3, TotalIsStock
  <2>5. ASSUME NEW w \in DOMAIN report.byWarehouse
        PROVE  report.byWarehouse[w] = stock(scoped \cap (Variants \X {w}))
    <3>1. {p \in scoped \cap (Variants \X {w}) : Qty(ledger[p]) > 0}
            = {p \in S : WarehouseOf[p] = w}
      BY <2>2 DEF Stocked, WarehouseOf, Pairs
    <3>. QED  BY <2>1, <2>2, <2>5, <3>1, SubtotalIsStock
  <2>6. ASSUME NEW c \in DOMAIN report.byCategory
        PROVE  report.byCategory[c] = stock({p \in scoped : CategoryOf[p[1]] = c})
    <3>1. {p \in {p \in scoped : CategoryOf[p[1]] = c} : Qty(ledger[p]) > 0}
            = {p \in S : CategoryKey[p] = c}
      BY <2>2 DEF Stocked, CategoryKey
    <3>. QED  BY <2>1, <2>2, <2>6, <3>1, SubtotalIsStock
  <2>. HIDE DEF S
  <2>. QED  BY <2>4, <2>5, <2>6 DEF ReportIsLedgerAtRest, StockOf
<1>2. ValuationInv /\ Undisturbed /\ [Next]_vars => Undisturbed'
  BY UndisturbedStep
<1>. QED  BY <1>1, <1>2, UndisturbedInit, AlwaysInv, PTL DEF Spec

-----------------------------------------------------------------------------
(* The movement summary.  A row is known by its pair and its place, and    *)
(* keeps both: what changes is that there are more.  The two rows of a     *)
(* transfer follow each other in time (Matched), so a set of rows that has *)
(* both of every transfer or neither (Closed) has transfers that cancel.   *)

At(l, x) == l[x[1]][x[2]]
Places(l) == UNION {{p} \X DOMAIN l[p] : p \in Pairs}

\* x and y are the two rows of one transfer.
Partners(l, x, y) ==
    /\ x \in Places(l) /\ At(l, x).type = "TRANSFER_OUT"
    /\ y \in Places(l) /\ At(l, y).type = "TRANSFER_IN"
    /\ At(l, y).at = At(l, x).at + 1

\* No two rows have the same instant, and none is later than the last.
Timed(l) ==
    /\ \A x \in Places(l) : At(l, x).at <= NumRows(l)
    /\ \A x, y \in Places(l) : At(l, x).at = At(l, y).at => x = y

Matched(l) ==
    /\ \A x \in Places(l) :
          At(l, x).type = "TRANSFER_OUT" => \E y \in Places(l) : Partners(l, x, y)
    /\ \A y \in Places(l) :
          At(l, y).type = "TRANSFER_IN" => \E x \in Places(l) : Partners(l, x, y)
    /\ \A x, y \in Places(l) : Partners(l, x, y) =>
          x[1][1] = y[1][1] /\ At(l, x).qty + At(l, y).qty = 0

Closed(l, R) == \A x, y \in Places(l) : Partners(l, x, y) => (x \in R <=> y \in R)

\* What is there stays, and no transfer is half there.
Grows(l, new) ==
    /\ Places(l) \subseteq Places(new)
    /\ \A x \in Places(l) : At(new, x) = At(l, x)
    /\ Closed(new, Places(l))

LEMMA PlacesAre ==
  ASSUME NEW l \in [Pairs -> Seq(Movement)]
  PROVE  /\ \A x : x \in Places(l) <=> x \in Pairs \X Nat /\ x[2] \in DOMAIN l[x[1]]
         /\ \A x \in Places(l) : x[1] \in Pairs /\ x[2] \in DOMAIN l[x[1]]
                                 /\ x = <<x[1], x[2]>> /\ At(l, x) \in Movement
         /\ IsFiniteSet(Places(l))
<1>1. \A p \in Pairs : /\ DOMAIN l[p] \subseteq Nat /\ IsFiniteSet(DOMAIN l[p])
                       /\ \A i \in DOMAIN l[p] : l[p][i] \in Movement
  <2>. SUFFICES ASSUME NEW p \in Pairs
                PROVE  /\ DOMAIN l[p] \subseteq Nat /\ IsFiniteSet(DOMAIN l[p])
                       /\ \A i \in DOMAIN l[p] : l[p][i] \in Movement
    OBVIOUS
  <2>1. l[p] \in Seq(Movement)
    OBVIOUS
  <2>. QED  BY <2>1, MovementsFinite
<1>2. \A x : x \in Places(l) <=> x \in Pairs \X Nat /\ x[2] \in DOMAIN l[x[1]]
  BY <1>1 DEF Places
<1>3. \A x \in Places(l) : x[1] \in Pairs /\ x[2] \in DOMAIN l[x[1]] /\ x = <<x[1], x[2]>>
  BY <1>2
<1>4. IsFiniteSet(Places(l))
  <2>. DEFINE f == [p \in Pairs |-> Len(l[p])]
              n == NumRows(l)
  <2>1. \A p \in Pairs : f[p] \in Nat /\ DOMAIN l[p] = 1 .. f[p]
    <3>. SUFFICES ASSUME NEW p \in Pairs PROVE Len(l[p]) \in Nat /\ DOMAIN l[p] = 1 .. Len(l[p])
      OBVIOUS
    <3>1. l[p] \in Seq(Movement)
      OBVIOUS
    <3>. QED  BY <3>1, MovementsFinite
  <2>2. IsFiniteSet(Pairs) /\ n = SumFunctionOnSet(f, Pairs)
    BY PairsFinite DEF NumRows, SumFunction
  <2>. HIDE DEF f, n
  <2>3. n \in Nat /\ \A p \in Pairs : f[p] <= n
    BY <2>1, <2>2, SumNat
  <2>4. \A p \in Pairs : DOMAIN l[p] \subseteq 1 .. n
    BY <2>1, <2>3
  <2>5. Places(l) \in SUBSET (Pairs \X (1 .. n))
    BY <1>3, <2>4
  <2>6. IsFiniteSet(1 .. n)
    <3>1. 1 \in Int /\ n \in Int
      BY <2>3
    <3>. QED  BY <3>1, FS_Interval
  <2>7. IsFiniteSet(Pairs \X (1 .. n))
    BY <2>2, <2>6, FS_Product
  <2>. QED  BY <2>5, <2>7, FS_Subset
<1>. QED  BY <1>1, <1>2, <1>3, <1>4 DEF At

\* One row more.
LEMMA PlacesPosted ==
  ASSUME NEW l \in [Pairs -> Seq(Movement)], NEW p \in Pairs,
         NEW type \in Types, NEW qty \in Int, NEW cost \in Costs \cup {Unpriced}
  PROVE  LET new == Post(l, p, type, qty, cost)
             z == <<p, Len(l[p]) + 1>>
         IN  /\ Places(new) = Places(l) \cup {z} /\ z \notin Places(l)
             /\ \A x \in Places(l) : At(new, x) = At(l, x)
             /\ At(new, z) = RowOn(l, type, qty, cost)
<1>. DEFINE m == RowOn(l, type, qty, cost)
            n == Len(l[p])
            new == Post(l, p, type, qty, cost)
            z == <<p, Len(l[p]) + 1>>
<1>1. /\ new \in [Pairs -> Seq(Movement)] /\ m \in Movement
      /\ \A x \in Pairs : new[x] = IF x = p THEN Append(l[x], m) ELSE l[x]
  BY PostIs
<1>. HIDE DEF m, new
<1>2. l[p] \in Seq(Movement) /\ n \in Nat /\ DOMAIN l[p] = 1 .. n
  <2>1. l[p] \in Seq(Movement)
    OBVIOUS
  <2>. QED  BY <2>1, MovementsFinite
<1>3. /\ new[p] \in Seq(Movement) /\ Len(new[p]) = n + 1 /\ new[p][n + 1] = m
      /\ \A i \in 1 .. n : new[p][i] = l[p][i]
  <2>. DEFINE s == l[p]
  <2>1. s \in Seq(Movement) /\ new[p] = Append(s, m)
    BY <1>1, <1>2
  <2>. HIDE DEF s
  <2>2. /\ Append(s, m) \in Seq(Movement) /\ Len(Append(s, m)) = Len(s) + 1
        /\ Append(s, m)[Len(s) + 1] = m
        /\ \A i \in 1 .. Len(s) : Append(s, m)[i] = s[i]
    BY <1>1, <2>1, AppendProperties
  <2>. QED  BY <2>1, <2>2 DEF s
<1>4. DOMAIN new[p] = 1 .. (n + 1)
  BY <1>3, MovementsFinite
<1>. HIDE DEF n
<1>5. DOMAIN new[p] = DOMAIN l[p] \cup {n + 1} /\ n + 1 \notin DOMAIN l[p] /\ n + 1 \in Nat
  BY <1>2, <1>4
<1>6. \A x : x \in Places(l) <=> x \in Pairs \X Nat /\ x[2] \in DOMAIN l[x[1]]
  BY PlacesAre
<1>7. \A x : x \in Places(new) <=> x \in Pairs \X Nat /\ x[2] \in DOMAIN new[x[1]]
  BY <1>1, PlacesAre
<1>8. \A x \in Pairs : x # p => new[x] = l[x]
  BY <1>1
<1>9. z = <<p, n + 1>>
  BY DEF n
<1>. HIDE DEF z
<1>10. Places(new) = Places(l) \cup {z}
  <2>1. ASSUME NEW x \in Places(new) PROVE x \in Places(l) \cup {z}
    BY <1>5, <1>6, <1>7, <1>8, <1>9
  <2>2. ASSUME NEW x \in Places(l) PROVE x \in Places(new)
    BY <1>5, <1>6, <1>7, <1>8
  <2>3. z \in Places(new)
    BY <1>5, <1>7, <1>9
  <2>. QED  BY <2>1, <2>2, <2>3
<1>11. z \notin Places(l)
  BY <1>5, <1>6, <1>9
<1>12. ASSUME NEW x \in Places(l) PROVE At(new, x) = At(l, x)
  <2>1. x[1] \in Pairs /\ x[2] \in DOMAIN l[x[1]]
    BY <1>6
  <2>2. CASE x[1] = p
    BY <1>2, <1>3, <2>1, <2>2 DEF At
  <2>3. CASE x[1] # p
    BY <1>8, <2>1, <2>3 DEF At
  <2>. QED  BY <2>2, <2>3
<1>13. At(new, z) = m
  BY <1>3, <1>9 DEF At
<1>. QED  BY <1>10, <1>11, <1>12, <1>13 DEF m, new, z

LEMMA TimedPosted ==
  ASSUME NEW l \in [Pairs -> Seq(Movement)], Timed(l), NEW p \in Pairs,
         NEW type \in Types, NEW qty \in Int, NEW cost \in Costs \cup {Unpriced}
  PROVE  Timed(Post(l, p, type, qty, cost))
<1>. DEFINE new == Post(l, p, type, qty, cost)
            z == <<p, Len(l[p]) + 1>>
            n == NumRows(l)
<1>1. n \in Nat /\ NumRows(new) = n + 1
  BY PostIs
<1>2. /\ Places(new) = Places(l) \cup {z} /\ z \notin Places(l)
      /\ \A x \in Places(l) : At(new, x) = At(l, x)
      /\ At(new, z) = RowOn(l, type, qty, cost)
  BY PlacesPosted
<1>3. At(new, z).at = n + 1
  BY <1>2 DEF RowOn
<1>4. \A x \in Places(l) : At(l, x).at \in Nat /\ At(l, x).at <= n
  BY PlacesAre DEF Movement, Timed
<1>. HIDE DEF new, z, n
<1>5. ASSUME NEW x \in Places(new) PROVE At(new, x).at <= n + 1
  BY <1>1, <1>2, <1>3, <1>4
<1>6. ASSUME NEW x \in Places(new), NEW y \in Places(new), At(new, x).at = At(new, y).at
      PROVE  x = y
  BY <1>1, <1>2, <1>3, <1>4, <1>6 DEF Timed
<1>. QED  BY <1>1, <1>5, <1>6 DEF Timed, new

\* A row that is no transfer, and the two rows of one.
LEMMA OtherKept ==
  ASSUME NEW l \in [Pairs -> Seq(Movement)], Timed(l), Matched(l), NEW p \in Pairs,
         NEW type \in Types, type # "TRANSFER_OUT", type # "TRANSFER_IN",
         NEW qty \in Int, NEW cost \in Costs \cup {Unpriced}
  PROVE  LET new == Post(l, p, type, qty, cost)
         IN  Timed(new) /\ Matched(new) /\ Grows(l, new)
<1>. DEFINE new == Post(l, p, type, qty, cost)
            z == <<p, Len(l[p]) + 1>>
<1>1. /\ Places(new) = Places(l) \cup {z} /\ z \notin Places(l)
      /\ \A x \in Places(l) : At(new, x) = At(l, x)
      /\ At(new, z) = RowOn(l, type, qty, cost)
  BY PlacesPosted
<1>2. Timed(new)
  BY TimedPosted
<1>3. At(new, z).type = type
  BY <1>1 DEF RowOn
<1>. HIDE DEF new, z
<1>4. \A x, y : Partners(new, x, y) <=> Partners(l, x, y)
  BY <1>1, <1>3 DEF Partners
<1>5. Matched(new)
  <2>1. ASSUME NEW x \in Places(new), At(new, x).type = "TRANSFER_OUT"
        PROVE  \E y \in Places(new) : Partners(new, x, y)
    BY <1>1, <1>3, <1>4, <2>1 DEF Matched
  <2>2. ASSUME NEW y \in Places(new), At(new, y).type = "TRANSFER_IN"
        PROVE  \E x \in Places(new) : Partners(new, x, y)
    BY <1>1, <1>3, <1>4, <2>2 DEF Matched
  <2>3. ASSUME NEW x \in Places(new), NEW y \in Places(new), Partners(new, x, y)
        PROVE  x[1][1] = y[1][1] /\ At(new, x).qty + At(new, y).qty = 0
    <3>1. Partners(l, x, y) /\ x \in Places(l) /\ y \in Places(l)
      BY <1>4, <2>3 DEF Partners
    <3>2. At(new, x) = At(l, x) /\ At(new, y) = At(l, y)
      BY <1>1, <3>1
    <3>. QED  BY <3>1, <3>2 DEF Matched
  <2>. QED  BY <2>1, <2>2, <2>3 DEF Matched
<1>6. Grows(l, new)
  BY <1>1, <1>4 DEF Grows, Closed, Partners
<1>. QED  BY <1>2, <1>5, <1>6 DEF new

LEMMA TransferKept ==
  ASSUME NEW l \in [Pairs -> Seq(Movement)], Timed(l), Matched(l),
         NEW p \in Pairs, NEW r \in Pairs, p[1] = r[1], NEW q \in Int
  PROVE  LET new == Post(Post(l, p, "TRANSFER_OUT", 0 - q, Unpriced),
                         r, "TRANSFER_IN", q, Unpriced)
         IN  Timed(new) /\ Matched(new) /\ Grows(l, new)
<1>. DEFINE back == 0 - q
            out == Post(l, p, "TRANSFER_OUT", back, Unpriced)
            new == Post(out, r, "TRANSFER_IN", q, Unpriced)
            x0 == <<p, Len(l[p]) + 1>>
            y0 == <<r, Len(out[r]) + 1>>
            n == NumRows(l)
<1>1. /\ "TRANSFER_OUT" \in Types /\ "TRANSFER_IN" \in Types
      /\ Unpriced \in Costs \cup {Unpriced} /\ back \in Int /\ back + q = 0
  BY DEF Types
<1>. HIDE DEF back
<1>2. out \in [Pairs -> Seq(Movement)] /\ NumRows(out) = n + 1 /\ n \in Nat
  BY <1>1, PostIs, SMTT(30)
<1>3. /\ Places(out) = Places(l) \cup {x0} /\ x0 \notin Places(l)
      /\ \A x \in Places(l) : At(out, x) = At(l, x)
      /\ At(out, x0) = RowOn(l, "TRANSFER_OUT", back, Unpriced)
  <2>1. \A type \in Types, qty \in Int, cost \in Costs \cup {Unpriced} :
           LET o == Post(l, p, type, qty, cost)
           IN  /\ Places(o) = Places(l) \cup {x0} /\ x0 \notin Places(l)
               /\ \A x \in Places(l) : At(o, x) = At(l, x)
               /\ At(o, x0) = RowOn(l, type, qty, cost)
    BY PlacesPosted
  <2>. HIDE DEF x0
  <2>. QED  BY Zenon, <1>1, <2>1
<1>4. Timed(out)
  BY <1>1, TimedPosted
<1>5. At(out, x0).type = "TRANSFER_OUT" /\ At(out, x0).at = n + 1 /\ At(out, x0).qty = back
  BY <1>3 DEF RowOn
<1>. HIDE DEF out
<1>6. /\ Places(new) = Places(out) \cup {y0} /\ y0 \notin Places(out)
      /\ \A x \in Places(out) : At(new, x) = At(out, x)
      /\ At(new, y0) = RowOn(out, "TRANSFER_IN", q, Unpriced)
  <2>1. \A type \in Types, qty \in Int, cost \in Costs \cup {Unpriced} :
           LET o == Post(out, r, type, qty, cost)
           IN  /\ Places(o) = Places(out) \cup {y0} /\ y0 \notin Places(out)
               /\ \A x \in Places(out) : At(o, x) = At(out, x)
               /\ At(o, y0) = RowOn(out, type, qty, cost)
    BY <1>2, PlacesPosted
  <2>. HIDE DEF y0
  <2>. QED  BY Zenon, <1>1, <2>1
<1>7. Timed(new)
  BY <1>1, <1>2, <1>4, TimedPosted
<1>8. At(new, y0).type = "TRANSFER_IN" /\ At(new, y0).at = n + 2 /\ At(new, y0).qty = q
  BY <1>2, <1>6 DEF RowOn
<1>9. \A x \in Places(l) : At(l, x).at \in Nat /\ At(l, x).at <= n
  BY PlacesAre DEF Movement, Timed
<1>10. x0[1][1] = y0[1][1]
  OBVIOUS
<1>. HIDE DEF new, x0, y0, n
<1>11. /\ Places(new) = Places(l) \cup {x0, y0} /\ x0 \notin Places(l) /\ y0 \notin Places(l)
       /\ x0 # y0 /\ \A x \in Places(l) : At(new, x) = At(l, x)
       /\ At(new, x0) = At(out, x0)
  BY <1>3, <1>6
<1>12. Partners(new, x0, y0)
  BY <1>2, <1>5, <1>8, <1>11 DEF Partners
<1>13. \A x, y : Partners(new, x, y) <=> Partners(l, x, y) \/ (x = x0 /\ y = y0)
  <2>1. ASSUME NEW x, NEW y, Partners(l, x, y) PROVE Partners(new, x, y)
    BY <1>11, <2>1 DEF Partners
  <2>2. ASSUME NEW x, NEW y, Partners(new, x, y)
        PROVE  Partners(l, x, y) \/ (x = x0 /\ y = y0)
    <3>1. x \in Places(l) \cup {x0} /\ y \in Places(l) \cup {y0}
      BY <1>5, <1>8, <1>11, <2>2 DEF Partners
    <3>2. CASE x \in Places(l) /\ y \in Places(l)
      BY <1>11, <2>2, <3>2 DEF Partners
    <3>3. CASE x \in Places(l) /\ y = y0
      BY <1>2, <1>8, <1>9, <1>11, <2>2, <3>3 DEF Partners
    <3>4. CASE x = x0 /\ y \in Places(l)
      BY <1>2, <1>5, <1>9, <1>11, <2>2, <3>4 DEF Partners
    <3>. QED  BY <3>1, <3>2, <3>3, <3>4
  <2>. QED  BY <1>12, <2>1, <2>2
<1>14. Matched(new)
  <2>1. ASSUME NEW x \in Places(new), At(new, x).type = "TRANSFER_OUT"
        PROVE  \E y \in Places(new) : Partners(new, x, y)
    BY <1>8, <1>11, <1>13, <2>1 DEF Matched
  <2>2. ASSUME NEW y \in Places(new), At(new, y).type = "TRANSFER_IN"
        PROVE  \E x \in Places(new) : Partners(new, x, y)
    BY <1>5, <1>11, <1>13, <2>2 DEF Matched
  <2>3. ASSUME NEW x \in Places(new), NEW y \in Places(new), Partners(new, x, y)
        PROVE  x[1][1] = y[1][1] /\ At(new, x).qty + At(new, y).qty = 0
    <3>1. CASE Partners(l, x, y)
      <4>1. x \in Places(l) /\ y \in Places(l)
        BY <3>1 DEF Partners
      <4>2. At(new, x) = At(l, x) /\ At(new, y) = At(l, y)
        BY <1>11, <4>1
      <4>. QED  BY <3>1, <4>1, <4>2 DEF Matched
    <3>2. CASE x = x0 /\ y = y0
      BY <1>1, <1>5, <1>8, <1>10, <1>11, <3>2
    <3>. QED  BY <1>13, <2>3, <3>1, <3>2
  <2>. QED  BY <2>1, <2>2, <2>3 DEF Matched
<1>15. Grows(l, new)
  BY <1>11, <1>13 DEF Grows, Closed, Partners
<1>. QED  BY <1>7, <1>14, <1>15 DEF new, out, back

Ordered == Timed(ledger) /\ Matched(ledger)

LEMMA OrderedInit == Init => Ordered
<1>. SUFFICES ASSUME Init PROVE Ordered
  OBVIOUS
<1>1. \A x : x \notin Places(ledger)
  BY DEF Init, Places
<1>. QED  BY <1>1 DEF Ordered, Timed, Matched

LEMMA OrderedStep ==
  ASSUME InLedger, Ordered, [Next]_vars
  PROVE  Ordered' /\ Grows(ledger, ledger')
<1>0. Unpriced \in Costs \cup {Unpriced}
      /\ \A t \in {"RECEIVE", "DISPATCH", "ADJUSTMENT"} :
            t \in Types /\ t # "TRANSFER_OUT" /\ t # "TRANSFER_IN"
  BY DEF Types
<1>. DEFINE Kept(new) == Timed(new) /\ Matched(new) /\ Grows(ledger, new)
<1>1. ASSUME NEW p \in Pairs, NEW q \in Quantities, NEW c \in Costs \cup {Unpriced},
             Receive(p, q, c)
      PROVE  Kept(ledger')
  <2>1. ledger' = Post(ledger, p, "RECEIVE", q, c) /\ q \in Int
    BY <1>1, AmountsAreNonZero DEF Receive, Write
  <2>. QED  BY <1>0, <2>1, OtherKept DEF InLedger, Ordered
<1>2. ASSUME NEW p \in Pairs, NEW q \in Quantities, Dispatch(p, q)
      PROVE  Kept(ledger')
  <2>1. ledger' = Post(ledger, p, "DISPATCH", 0 - q, Unpriced) /\ 0 - q \in Int
    BY <1>2, AmountsAreNonZero DEF Dispatch, Write
  <2>. QED  BY <1>0, <2>1, OtherKept DEF InLedger, Ordered
<1>3. ASSUME NEW p \in Pairs, NEW d \in Deltas, Adjust(p, d)
      PROVE  Kept(ledger')
  <2>1. ledger' = Post(ledger, p, "ADJUSTMENT", d, Unpriced) /\ d \in Int
    BY <1>3, AmountsAreNonZero DEF Adjust, Write
  <2>. QED  BY <1>0, <2>1, OtherKept DEF InLedger, Ordered
<1>4. ASSUME NEW p \in Pairs, NEW w \in Warehouses, NEW q \in Quantities,
             Transfer(p, w, q)
      PROVE  Kept(ledger')
  <2>1. ledger' = Post(Post(ledger, p, "TRANSFER_OUT", 0 - q, Unpriced),
                       <<p[1], w>>, "TRANSFER_IN", q, Unpriced)
        /\ q \in Int
    BY <1>4, AmountsAreNonZero DEF Transfer, Write
  <2>2. <<p[1], w>> \in Pairs /\ p[1] = <<p[1], w>>[1]
    BY DEF Pairs
  <2>. QED  BY <2>1, <2>2, TransferKept DEF InLedger, Ordered
<1>5. CASE UNCHANGED ledger
  <2>1. Closed(ledger, Places(ledger))
    BY DEF Closed
  <2>. QED  BY <1>5, <2>1 DEF Ordered, Grows
<1>6. Kept(ledger') \/ UNCHANGED ledger
  BY <1>1, <1>2, <1>3, <1>4
  DEF Next, ValuePair, StartReport, StartSummary, FinishReport, FinishSummary, Deliver, vars
<1>. QED  BY <1>5, <1>6 DEF Ordered

\* The rows of the table in the words of the model.
LEMMA RowsAre ==
  ASSUME InLedger
  PROVE  /\ Rows = Places(ledger) /\ IsFiniteSet(Rows)
         /\ \A x : RowAt(x) = At(ledger, x)
         /\ \A x \in Rows : /\ RowAt(x) \in Movement /\ RowAt(x).qty \in Int
                            /\ RowAt(x).type \in Types /\ RowAt(x).at \in Nat
<1>1. Rows = Places(ledger) /\ \A x : RowAt(x) = At(ledger, x)
  BY DEF Rows, Places, RowAt, At
<1>2. IsFiniteSet(Places(ledger)) /\ \A x \in Places(ledger) : At(ledger, x) \in Movement
  BY PlacesAre DEF InLedger
<1>. QED  BY <1>1, <1>2 DEF Movement

LEMMA UnitsAre ==
  ASSUME InLedger, NEW R \in SUBSET Rows
  PROVE  /\ IsFiniteSet(R) /\ Cardinality(R) \in Nat
         /\ Units(R) = SumFunctionOnSet([x \in R |-> RowAt(x).qty], R) /\ Units(R) \in Int
<1>. DEFINE f == [x \in R |-> RowAt(x).qty]
<1>1. IsFiniteSet(R) /\ \A x \in R : f[x] \in Int
  BY RowsAre, FS_Subset
<1>2. Units(R) = SumFunctionOnSet(f, R)
  BY DEF Units, SumFunction
<1>. HIDE DEF f
<1>3. SumFunctionOnSet(f, R) \in Int
  BY <1>1, SumInt
<1>. QED  BY <1>1, <1>2, <1>3, FS_CardinalityType DEF f

\* In a closed set of rows the transfers cancel, in units and in number.
LEMMA TransfersCancel ==
  ASSUME InLedger, Ordered, NEW R \in SUBSET Rows, Closed(ledger, R)
  PROVE  /\ ByType(R)["TRANSFER_OUT"].qty + ByType(R)["TRANSFER_IN"].qty = 0
         /\ ByType(R)["TRANSFER_OUT"].count = ByType(R)["TRANSFER_IN"].count
<1>. DEFINE O == OfType(R, "TRANSFER_OUT")
            I == OfType(R, "TRANSFER_IN")
            h == [x \in O |-> CHOOSE y \in I : Partners(ledger, x, y)]
            fo == [x \in O |-> RowAt(x).qty]
            fi == [y \in I |-> RowAt(y).qty]
            go == [x \in O |-> fi[h[x]]]
            one == [x \in O |-> 1]
            ones == [y \in I |-> 1]
<1>1. /\ Rows = Places(ledger) /\ \A x : RowAt(x) = At(ledger, x)
      /\ \A x \in Rows : RowAt(x).qty \in Int /\ RowAt(x).at \in Nat
  BY RowsAre
<1>2. O \in SUBSET Rows /\ I \in SUBSET Rows /\ O \subseteq R /\ I \subseteq R
  BY DEF OfType
<1>3. \A x \in O : \E y \in I : Partners(ledger, x, y)
  BY <1>1 DEF Ordered, Matched, Closed, OfType, Partners
<1>4. \A y \in I : \E x \in O : Partners(ledger, x, y)
  BY <1>1 DEF Ordered, Matched, Closed, OfType, Partners
<1>5. \A x \in O : h[x] \in I /\ Partners(ledger, x, h[x])
  <2>. HIDE DEF O, I
  <2>. QED  BY <1>3
<1>6. \A x \in O, y \in I : Partners(ledger, x, y) => h[x] = y
  <2>. HIDE DEF O, I, h
  <2>. QED  BY <1>1, <1>2, <1>5 DEF Partners, Ordered, Timed
<1>7. \A x, z \in O : h[x] = h[z] => x = z
  <2>. SUFFICES ASSUME NEW x \in O, NEW z \in O, h[x] = h[z] PROVE x = z
    OBVIOUS
  <2>1. Partners(ledger, x, h[x]) /\ Partners(ledger, z, h[x])
    BY Zenon, <1>5
  <2>2. At(ledger, x).at \in Nat /\ At(ledger, z).at \in Nat
        /\ x \in Places(ledger) /\ z \in Places(ledger)
    BY <1>1, <1>2
  <2>. HIDE DEF O, I, h
  <2>3. At(ledger, x).at + 1 = At(ledger, z).at + 1
    BY <2>1 DEF Partners
  <2>. QED  BY <2>2, <2>3 DEF Ordered, Timed
<1>8. \A x \in O : fi[h[x]] \in Int /\ go[x] = fi[h[x]] /\ go[x] = (0 - 1) * fo[x]
                   /\ fo[x] \in Int
  <2>. SUFFICES ASSUME NEW x \in O
                PROVE  fi[h[x]] \in Int /\ go[x] = fi[h[x]] /\ go[x] = (0 - 1) * fo[x]
                       /\ fo[x] \in Int
    OBVIOUS
  <2>1. h[x] \in I /\ Partners(ledger, x, h[x])
    BY Zenon, <1>5
  <2>2. go[x] = fi[h[x]] /\ fo[x] = RowAt(x).qty
    OBVIOUS
  <2>. HIDE DEF h, O, go, fo
  <2>3. fi[h[x]] = RowAt(h[x]).qty
    BY <2>1
  <2>. HIDE DEF fi, I
  <2>4. At(ledger, x).qty + At(ledger, h[x]).qty = 0
    BY <2>1 DEF Partners, Ordered, Matched
  <2>5. RowAt(x).qty \in Int /\ RowAt(h[x]).qty \in Int
    BY <1>1, <1>2, <2>1
  <2>. QED  BY <1>1, <2>2, <2>3, <2>4, <2>5
<1>9. h \in [O -> I] /\ \A y \in I : \E x \in O : h[x] = y
  <2>1. h \in [O -> I]
    <3>. HIDE DEF O, I
    <3>. QED  BY <1>5
  <2>. QED  BY <1>4, <1>6, <2>1
<1>10. IsFiniteSet(O) /\ IsFiniteSet(I) /\ Cardinality(O) \in Nat /\ Cardinality(I) \in Nat
       /\ Units(O) = SumFunctionOnSet(fo, O) /\ Units(O) \in Int
       /\ Units(I) = SumFunctionOnSet(fi, I)
  BY <1>2, UnitsAre
<1>11. \A x \in O : ones[h[x]] \in Int /\ one[x] = ones[h[x]] /\ one[x] = 1
  BY <1>5
<1>12. \A y \in I : ones[y] = 1
  OBVIOUS
<1>13. ByType(R)["TRANSFER_OUT"] = [qty |-> Units(O), count |-> Cardinality(O)]
       /\ ByType(R)["TRANSFER_IN"] = [qty |-> Units(I), count |-> Cardinality(I)]
  BY DEF ByType, Types
<1>. HIDE DEF O, I, h, fo, fi, go, one, ones
<1>14. SumFunctionOnSet(fi, I) = SumFunctionOnSet(go, O)
  BY <1>7, <1>8, <1>9, <1>10, SumReindex
<1>15. SumFunctionOnSet(go, O) = (0 - 1) * SumFunctionOnSet(fo, O)
  <2>1. 0 - 1 \in Int
    OBVIOUS
  <2>. QED  BY <1>8, <1>10, <2>1, SumScale
<1>16. SumFunctionOnSet(ones, I) = SumFunctionOnSet(one, O)
  BY <1>7, <1>9, <1>10, <1>11, SumReindex
<1>17. SumFunctionOnSet(one, O) = 1 * Cardinality(O)
       /\ SumFunctionOnSet(ones, I) = 1 * Cardinality(I)
  <2>1. 1 \in Int
    OBVIOUS
  <2>. QED  BY <1>10, <1>11, <1>12, <2>1, SumConstant
<1>. QED  BY <1>10, <1>13, <1>14, <1>15, <1>16, <1>17

\* A filter that keeps transfers whole lists a closed set.
LEMMA WholeIsClosed ==
  ASSUME InLedger, Ordered, NEW query, KeepsTransfersWhole(query)
  PROVE  Closed(ledger, Listed(query))
<1>. SUFFICES ASSUME NEW x \in Places(ledger), NEW y \in Places(ledger),
                     Partners(ledger, x, y)
              PROVE  x \in Listed(query) <=> y \in Listed(query)
  BY DEF Closed
<1>1. /\ Rows = Places(ledger) /\ RowAt(x) = At(ledger, x) /\ RowAt(y) = At(ledger, y)
      /\ RowAt(x).type \in Types /\ RowAt(y).type \in Types
  BY RowsAre
<1>2. x[1] \in Pairs /\ y[1] \in Pairs
  BY PlacesAre DEF InLedger
<1>3. x[1][1] = y[1][1]
  BY DEF Ordered, Matched
<1>4. x[1] \in query.variants \X Warehouses <=> y[1] \in query.variants \X Warehouses
  BY <1>2, <1>3 DEF Pairs
<1>5. InWindow(query, RowAt(x).at) <=> InWindow(query, RowAt(y).at)
  BY <1>1 DEF KeepsTransfersWhole, OfType, Partners
<1>. QED  BY <1>1, <1>4, <1>5 DEF Listed, Wanted, KeepsTransfersWhole

\* More rows, no fewer of any type.
LEMMA CountsGrow ==
  ASSUME InLedger, NEW S \in SUBSET Rows, NEW R \in SUBSET S, NEW t \in Types
  PROVE  ByType(R)[t].count <= ByType(S)[t].count
<1>1. OfType(S, t) \in SUBSET Rows /\ OfType(R, t) \in SUBSET OfType(S, t)
  BY DEF OfType
<1>2. IsFiniteSet(OfType(S, t))
  BY <1>1, UnitsAre
<1>3. Cardinality(OfType(R, t)) <= Cardinality(OfType(S, t))
  BY <1>1, <1>2, FS_Subset
<1>4. ByType(R)[t].count = Cardinality(OfType(R, t))
      /\ ByType(S)[t].count = Cardinality(OfType(S, t))
  BY DEF ByType
<1>. QED  BY <1>3, <1>4

LEMMA TypesFinite == IsFiniteSet(Types)
<1>1. IsFiniteSet({"RECEIVE"})
  BY FS_Singleton
<1>2. IsFiniteSet({"RECEIVE"} \cup {"DISPATCH"})
  BY <1>1, FS_AddElement
<1>3. IsFiniteSet({"RECEIVE"} \cup {"DISPATCH"} \cup {"ADJUSTMENT"})
  BY <1>2, FS_AddElement
<1>4. IsFiniteSet({"RECEIVE"} \cup {"DISPATCH"} \cup {"ADJUSTMENT"} \cup {"TRANSFER_OUT"})
  BY <1>3, FS_AddElement
<1>5. IsFiniteSet({"RECEIVE"} \cup {"DISPATCH"} \cup {"ADJUSTMENT"} \cup {"TRANSFER_OUT"}
                    \cup {"TRANSFER_IN"})
  BY <1>4, FS_AddElement
<1>6. Types = {"RECEIVE"} \cup {"DISPATCH"} \cup {"ADJUSTMENT"} \cup {"TRANSFER_OUT"}
                \cup {"TRANSFER_IN"}
  BY DEF Types
<1>. QED  BY <1>5, <1>6

\* The lines of a summary total to the rows they group.
LEMMA TotalsAreOfRows ==
  ASSUME InLedger, NEW R \in SUBSET Rows
  PROVE  /\ SumFunction([t \in Types |-> ByType(R)[t].qty]) = Units(R)
         /\ SumFunction([t \in Types |-> ByType(R)[t].count]) = Cardinality(R)
<1>. DEFINE f == [x \in R |-> RowAt(x).qty]
            one == [x \in R |-> 1]
            key == [x \in R |-> RowAt(x).type]
            g == [t \in Types |-> ByType(R)[t].qty]
            c == [t \in Types |-> ByType(R)[t].count]
<1>1. /\ IsFiniteSet(R) /\ IsFiniteSet(Types) /\ Cardinality(R) \in Nat
      /\ Units(R) = SumFunctionOnSet(f, R)
  BY UnitsAre, TypesFinite
<1>2. \A x \in R : f[x] \in Int /\ one[x] \in Int /\ one[x] = 1 /\ key[x] \in Types
  BY RowsAre
<1>3. ASSUME NEW t \in Types
      PROVE  /\ g[t] = SumFunctionOnSet(f, {x \in R : key[x] = t})
             /\ c[t] = SumFunctionOnSet(one, {x \in R : key[x] = t})
  <2>. DEFINE S == OfType(R, t)
              fs == [x \in S |-> RowAt(x).qty]
  <2>1. {x \in R : key[x] = t} = S
    BY DEF OfType
  <2>2. S \in SUBSET Rows /\ S \subseteq R
    BY DEF OfType
  <2>3. IsFiniteSet(S) /\ Cardinality(S) \in Nat /\ Units(S) = SumFunctionOnSet(fs, S)
    BY <2>2, UnitsAre
  <2>4. \A x \in S : fs[x] = f[x] /\ one[x] = 1
    BY <2>2
  <2>5. g[t] = Units(S) /\ c[t] = Cardinality(S)
    BY DEF ByType
  <2>. HIDE DEF S, fs, f, one, key, g, c
  <2>6. SumFunctionOnSet(fs, S) = SumFunctionOnSet(f, S)
    BY <2>3, <2>4, SumSame
  <2>7. SumFunctionOnSet(one, S) = Cardinality(S)
    <3>1. 1 \in Int
      OBVIOUS
    <3>2. SumFunctionOnSet(one, S) = 1 * Cardinality(S)
      BY <2>3, <2>4, <3>1, SumConstant
    <3>. QED  BY <2>3, <3>2
  <2>8. g[t] = SumFunctionOnSet(f, S) /\ c[t] = SumFunctionOnSet(one, S)
    BY <2>3, <2>5, <2>6, <2>7
  <2>. QED  BY <2>1, <2>8, Zenon
<1>4. SumFunction(g) = SumFunctionOnSet(g, Types) /\ SumFunction(c) = SumFunctionOnSet(c, Types)
  BY DEF SumFunction
<1>. HIDE DEF f, one, key, g, c
<1>5. ByClass(f, R, key, Types, g) /\ ByClass(one, R, key, Types, c)
  BY <1>2, <1>3 DEF ByClass
<1>6. SumFunctionOnSet(f, R) = SumFunctionOnSet(g, Types)
  BY <1>1, <1>2, <1>5, SumPartition
<1>7. SumFunctionOnSet(one, R) = SumFunctionOnSet(c, Types)
  BY <1>1, <1>2, <1>5, SumPartition
<1>8. SumFunctionOnSet(one, R) = 1 * Cardinality(R)
  <2>1. 1 \in Int
    OBVIOUS
  <2>. QED  BY <1>1, <1>2, <2>1, SumConstant
<1>. QED  BY <1>1, <1>4, <1>6, <1>7, <1>8 DEF g, c

\* All rows of the pairs asked for are their stock.
LEMMA RowsAreStock ==
  ASSUME InLedger, NEW query \in SummaryQueries,
         query.types = Types, query.from = 0, query.to = Open
  PROVE  Units(Listed(query))
           = SumFunction([p \in query.variants \X query.scope |-> Qty(ledger[p])])
<1>. DEFINE R == Listed(query)
            P == query.variants \X query.scope
            f == [x \in R |-> RowAt(x).qty]
            key == [x \in R |-> x[1]]
            g == [p \in P |-> Qty(ledger[p])]
<1>1. P \in SUBSET Pairs
  <2>1. query.scope \in OneOrAll(Warehouses) /\ query.variants \in OneOrAll(Variants)
    BY SummariesAreAsked
  <2>. QED  BY <2>1 DEF OneOrAll, Pairs
<1>2. /\ Rows = Places(ledger)
      /\ \A x \in Rows : RowAt(x).type \in Types /\ RowAt(x).at \in Nat
  BY RowsAre
<1>3. R = {x \in Rows : x[1] \in P}
  <2>1. \A x \in Rows : InWindow(query, RowAt(x).at)
    BY <1>2 DEF InWindow
  <2>. QED  BY <1>2, <2>1 DEF Listed, Wanted
<1>4. R \in SUBSET Rows
  BY DEF Listed
<1>5. /\ IsFiniteSet(R) /\ IsFiniteSet(P) /\ Units(R) = SumFunctionOnSet(f, R)
      /\ \A x \in R : f[x] \in Int
  BY <1>1, <1>4, UnitsAre, PairsFinite, RowsAre
<1>6. ASSUME NEW p \in P
      PROVE  g[p] = SumFunctionOnSet(f, {x \in R : key[x] = p})
  <2>. DEFINE movs == ledger[p]
              D == DOMAIN movs
              S == {x \in R : key[x] = p}
              h == [i \in D |-> <<p, i>>]
              q == QtyOf(movs)
  <2>1. p \in Pairs /\ movs \in Seq(Movement)
    BY <1>1 DEF InLedger
  <2>2. IsFiniteSet(D) /\ D \subseteq Nat
    BY <2>1, MovementsFinite
  <2>3. \A x : x \in Places(ledger) <=> x \in Pairs \X Nat /\ x[2] \in DOMAIN ledger[x[1]]
    BY PlacesAre DEF InLedger
  <2>4. \A i \in D : <<p, i>> \in S
    BY <1>2, <1>3, <2>1, <2>2, <2>3
  <2>5. \A x \in S : x[2] \in D /\ x = <<p, x[2]>>
    BY <1>2, <1>3, <2>3
  <2>6. /\ h \in [D -> S] /\ \A i, j \in D : h[i] = h[j] => i = j
        /\ \A x \in S : \E i \in D : h[i] = x
    BY <2>4, <2>5
  <2>7. \A i \in D : f[h[i]] \in Int /\ q[i] = f[h[i]]
    <3>. SUFFICES ASSUME NEW i \in D PROVE f[h[i]] \in Int /\ q[i] = f[h[i]]
      OBVIOUS
    <3>1. h[i] = <<p, i>> /\ h[i] \in R
      BY <2>4
    <3>2. f[h[i]] = RowAt(<<p, i>>).qty
      BY <3>1
    <3>3. q[i] = movs[i].qty
      BY DEF QtyOf
    <3>. QED  BY <1>5, <3>1, <3>2, <3>3 DEF RowAt
  <2>8. g[p] = SumFunctionOnSet(q, D)
    BY SumsAre
  <2>. HIDE DEF D, S, h, q, f, g
  <2>9. SumFunctionOnSet(f, S) = SumFunctionOnSet(q, D)
    <3>1. IsFiniteSet(D)
      BY <2>2
    <3>2. h \in [D -> S]
      BY <2>6
    <3>3. \A i, j \in D : h[i] = h[j] => i = j
      BY <2>6
    <3>4. \A x \in S : \E i \in D : h[i] = x
      BY <2>6
    <3>5. \A i \in D : f[h[i]] \in Int /\ q[i] = f[h[i]]
      BY <2>7
    <3>. HIDE DEF movs, key
    <3>. QED  BY <3>1, <3>2, <3>3, <3>4, <3>5, SumReindex, SMTT(30)
  <2>. QED  BY <2>8, <2>9 DEF S
<1>7. SumFunction(g) = SumFunctionOnSet(g, P)
  BY DEF SumFunction
<1>8. \A x \in R : key[x] \in P
  BY <1>3
<1>. HIDE DEF R, P, f, key, g
<1>9. ByClass(f, R, key, P, g)
  BY <1>6, <1>8 DEF ByClass
<1>10. SumFunctionOnSet(f, R) = SumFunctionOnSet(g, P)
  BY <1>5, <1>9, SumPartition
<1>. QED  BY <1>5, <1>7, <1>10 DEF R, P, g

\* What the answer given first was about: rows that are still listed, both of
\* every transfer or neither, and all that are if nothing was written.
Summing ==
    report.phase = "summing" =>
        /\ report.query \in SummaryQueries
        /\ report.seen \subseteq Listed(report.query)
        /\ KeepsTransfersWhole(report.query) => Closed(ledger, report.seen)
        /\ ~disturbed => report.seen = Listed(report.query)

SummaryInv == Ordered /\ Summing /\ SummaryAddsUp

LEMMA WrittenSumming ==
  ASSUME InLedger, InLedger', Ordered, Summing, Grows(ledger, ledger'), Written
  PROVE  Summing'
<1>. SUFFICES ASSUME report.phase = "summing" PROVE Summing'
  BY DEF Summing, Written
<1>. DEFINE query == report.query
            seen == report.seen
<1>1. /\ report' = report /\ disturbed' = TRUE /\ query \in SummaryQueries
      /\ seen \subseteq Listed(query)
      /\ KeepsTransfersWhole(query) => Closed(ledger, seen)
  BY DEF Summing, Written
<1>2. /\ Rows = Places(ledger) /\ Rows' = Places(ledger')
      /\ \A x : RowAt(x) = At(ledger, x) /\ RowAt(x)' = At(ledger', x)
  BY DEF Rows, Places, RowAt, At
<1>3. Rows \subseteq Rows' /\ \A x \in Rows : RowAt(x)' = RowAt(x)
  BY <1>2 DEF Grows
<1>. HIDE DEF query, seen
<1>4. Listed(query) \subseteq {x \in Rows' : /\ x[1] \in query.variants \X query.scope
                                            /\ RowAt(x)'.type \in query.types
                                            /\ InWindow(query, RowAt(x)'.at)}
  BY <1>3 DEF Listed, Wanted
<1>5. seen \subseteq Listed(report.query)'
  BY <1>1, <1>4 DEF Listed, Wanted, query
<1>6. ASSUME KeepsTransfersWhole(report.query)' PROVE Closed(ledger', seen)
  <2>1. KeepsTransfersWhole(query)
    BY <1>1, <1>3, <1>6 DEF KeepsTransfersWhole, OfType, query
  <2>2. seen \subseteq Places(ledger)
    BY <1>1, <1>2 DEF Listed
  <2>3. SUFFICES ASSUME NEW x \in Places(ledger'), NEW y \in Places(ledger'),
                        Partners(ledger', x, y)
                 PROVE  x \in seen <=> y \in seen
    BY DEF Closed
  <2>4. x \in Places(ledger) <=> y \in Places(ledger)
    BY <2>3 DEF Grows, Closed
  <2>5. CASE x \in Places(ledger) /\ y \in Places(ledger)
    <3>1. Partners(ledger, x, y)
      BY <2>3, <2>5 DEF Grows, Partners
    <3>. QED  BY <1>1, <2>1, <2>5, <3>1 DEF Closed
  <2>. QED  BY <2>2, <2>4, <2>5
<1>. QED  BY <1>1, <1>5, <1>6 DEF Summing, query, seen

\* The summary that is given, from the rows its two queries found.
LEMMA SummaryGiven ==
  ASSUME InLedger, Ordered, Summing, NEW first \in {"byType", "movements"},
         FinishSummary(first)
  PROVE  SummaryAddsUp'
<1>. DEFINE query == report.query
            late == Listed(query)
            seen == report.seen
            grouped == IF first = "byType" THEN seen ELSE late
            listed == IF first = "byType" THEN late ELSE seen
            lines == ByType(grouped)
<1>1. /\ report'.query = query /\ report'.byType = lines /\ report'.movements = listed
      /\ report'.totals = [qty |-> SumFunction([t \in Types |-> lines[t].qty]),
                           count |-> SumFunction([t \in Types |-> lines[t].count])]
      /\ UNCHANGED <<ledger, disturbed>>
  BY DEF FinishSummary
<1>2. /\ query \in SummaryQueries /\ seen \subseteq late
      /\ KeepsTransfersWhole(query) => Closed(ledger, seen)
      /\ ~disturbed => seen = late
  BY DEF FinishSummary, Summing
<1>3. late \in SUBSET Rows /\ grouped \in SUBSET Rows /\ listed \in SUBSET Rows
  BY <1>2 DEF Listed
<1>4. KeepsTransfersWhole(query) => Closed(ledger, grouped) /\ Closed(ledger, listed)
  BY <1>2, WholeIsClosed
<1>5. \/ grouped \in SUBSET listed
      \/ listed \in SUBSET grouped
  BY <1>2
<1>6. ~disturbed => grouped = late /\ listed = late
  BY <1>2
<1>7. /\ \A R : ByType(R)' = ByType(R) /\ Units(R)' = Units(R)
      /\ KeepsTransfersWhole(query)' <=> KeepsTransfersWhole(query)
  <2>1. /\ Rows' = Rows
        /\ \A x : RowAt(x)' = RowAt(x)
    BY <1>1 DEF Rows, RowAt
  <2>2. \A R : Units(R)' = Units(R)
    BY <2>1 DEF Units
  <2>3. \A R : ByType(R)' = ByType(R)
    BY <1>1 DEF ByType, Units, OfType, RowAt
  <2>4. KeepsTransfersWhole(query)' <=> KeepsTransfersWhole(query)
    BY <1>1 DEF KeepsTransfersWhole, OfType, RowAt, Rows
  <2>. QED  BY <2>2, <2>3, <2>4
<1>. HIDE DEF late, seen, grouped, listed, query
<1>8. KeepsTransfersWhole(query) =>
         \A R \in {grouped, listed} :
            /\ ByType(R)["TRANSFER_OUT"].qty + ByType(R)["TRANSFER_IN"].qty = 0
            /\ ByType(R)["TRANSFER_OUT"].count = ByType(R)["TRANSFER_IN"].count
  BY <1>3, <1>4, TransfersCancel
<1>9. \/ \A t \in Types : ByType(grouped)[t].count <= ByType(listed)[t].count
      \/ \A t \in Types : ByType(listed)[t].count <= ByType(grouped)[t].count
  BY <1>3, <1>5, CountsGrow
<1>10. report'.totals = [qty |-> Units(grouped), count |-> Cardinality(grouped)]
  BY <1>1, <1>3, TotalsAreOfRows
<1>11. ASSUME ~disturbed, query.types = Types, query.from = 0, query.to = Open
       PROVE  Units(grouped)
                = SumFunction([p \in query.variants \X query.scope |-> Qty(ledger[p])])
  BY <1>2, <1>6, <1>11, RowsAreStock DEF late
<1>12. report'.totals.qty = Units(grouped)
  BY <1>10
<1>. HIDE DEF lines
<1>13. lines = ByType(grouped)
  BY DEF lines
<1>14. ASSUME KeepsTransfersWhole(query)
       PROVE  \A l \in {report'.byType, ByType(report'.movements)} :
                 /\ l["TRANSFER_OUT"].qty + l["TRANSFER_IN"].qty = 0
                 /\ l["TRANSFER_OUT"].count = l["TRANSFER_IN"].count
  BY <1>1, <1>8, <1>13, <1>14
<1>15. \/ \A t \in Types : report'.byType[t].count <= ByType(report'.movements)[t].count
       \/ \A t \in Types : ByType(report'.movements)[t].count <= report'.byType[t].count
  BY <1>1, <1>9, <1>13
<1>16. ASSUME ~disturbed
       PROVE  /\ report'.totals = [qty |-> Units(report'.movements),
                                   count |-> Cardinality(report'.movements)]
              /\ (query.types = Types /\ query.from = 0 /\ query.to = Open) =>
                    report'.totals.qty = SumFunction(
                        [p \in query.variants \X query.scope |-> Qty(ledger[p])])
  BY <1>1, <1>6, <1>10, <1>11, <1>12, <1>16
<1>17. /\ ByType(report.movements)' = ByType(report'.movements)
       /\ Units(report.movements)' = Units(report'.movements)
       /\ KeepsTransfersWhole(report.query)' <=> KeepsTransfersWhole(query)
  BY <1>1, <1>7 DEF ByType, Units, OfType, RowAt, KeepsTransfersWhole, Rows
<1>. QED  BY <1>1, <1>14, <1>15, <1>16, <1>17 DEF SummaryAddsUp

LEMMA SummaryStep ==
  ASSUME ValuationInv, SummaryInv, [Next]_vars
  PROVE  SummaryInv'
<1>1. Ordered' /\ Grows(ledger, ledger') /\ InLedger /\ InLedger'
  BY OrderedStep, LedgerStep DEF ValuationInv, SummaryInv
<1>2. CASE Written
  <2>1. Summing'
    BY <1>1, <1>2, WrittenSumming DEF SummaryInv
  <2>2. SummaryAddsUp'
    BY <1>2 DEF Written, SummaryAddsUp
  <2>. QED  BY <1>1, <2>1, <2>2 DEF SummaryInv
<1>3. ASSUME NEW query \in SummaryQueries, StartSummary(query)
      PROVE  SummaryInv'
  <2>1. /\ report'.phase = "summing" /\ report'.query = query
        /\ report'.seen = Listed(query) /\ ledger' = ledger
    BY <1>3 DEF StartSummary
  <2>2. /\ Listed(report.query)' = Listed(query)
        /\ KeepsTransfersWhole(report.query)' <=> KeepsTransfersWhole(query)
    BY <2>1 DEF Listed, Wanted, KeepsTransfersWhole, OfType, Rows, RowAt
  <2>3. KeepsTransfersWhole(query) => Closed(ledger, Listed(query))
    BY <1>1, WholeIsClosed DEF SummaryInv
  <2>4. Summing'
    BY <2>1, <2>2, <2>3 DEF Summing
  <2>5. SummaryAddsUp'
    BY <2>1 DEF SummaryAddsUp
  <2>. QED  BY <1>1, <2>4, <2>5 DEF SummaryInv
<1>4. ASSUME NEW first \in {"byType", "movements"}, FinishSummary(first)
      PROVE  SummaryInv'
  <2>1. SummaryAddsUp'
    BY <1>1, <1>4, SummaryGiven DEF SummaryInv
  <2>2. report'.phase = "summary"
    BY <1>4 DEF FinishSummary
  <2>. QED  BY <1>1, <2>1, <2>2 DEF SummaryInv, Summing
<1>5. ASSUME report'.phase \in {"none", "valuing", "done"}
      PROVE  SummaryInv'
  BY <1>1, <1>5 DEF SummaryInv, Summing, SummaryAddsUp
<1>6. ASSUME NEW p \in Pairs, ValuePair(p)
      PROVE  report'.phase = "valuing"
  <2>1. report.phase = "valuing" /\ report' = [report EXCEPT !.todo = @ \ {p}, !.rows = RowsWith(p)]
    BY <1>6 DEF ValuePair
  <2>. QED  BY <2>1
<1>7. ASSUME NEW query \in ReportQueries, StartReport(query)
      PROVE  report'.phase = "valuing"
  BY <1>7 DEF StartReport
<1>8. FinishReport => report'.phase = "done"
  BY DEF FinishReport
<1>9. Deliver => report'.phase = "none"
  BY DEF Deliver, NoReport
<1>10. CASE UNCHANGED vars
  <2>0. ledger' = ledger /\ report' = report /\ disturbed' = disturbed
    BY <1>10 DEF vars
  <2>1. Summing'
    BY <1>10 DEF vars, SummaryInv, Summing, Listed, Wanted, KeepsTransfersWhole, OfType,
                Rows, RowAt, Closed
  <2>2. SummaryAddsUp'
    <3>1. SummaryAddsUp
      BY DEF SummaryInv
    <3>2. /\ ByType(report.movements)' = ByType(report.movements)
          /\ Units(report.movements)' = Units(report.movements)
          /\ KeepsTransfersWhole(report.query)' <=> KeepsTransfersWhole(report.query)
      BY <2>0 DEF KeepsTransfersWhole, OfType, Rows, RowAt, ByType, Units
    <3>. QED  BY <2>0, <3>1, <3>2 DEF SummaryAddsUp
  <2>. QED  BY <1>1, <2>1, <2>2 DEF SummaryInv
<1>. QED  BY <1>2, <1>3, <1>4, <1>5, <1>6, <1>7, <1>8, <1>9, <1>10, StepKinds

\* movementSummary: where the filter does not part them, neither answer shows one
\* row of a transfer without the other, whatever is written between the two
\* queries and whichever of them is answered first; one of the answers has all
\* rows of the other; and when nothing was written the totals are those of the
\* rows listed, and without a filter by type or date the stock asked for.
THEOREM SummaryIsConsistent == Spec => []SummaryAddsUp
<1>1. Init => SummaryInv
  <2>. SUFFICES ASSUME Init PROVE SummaryInv
    OBVIOUS
  <2>1. report.phase = "none"
    BY DEF Init, NoReport
  <2>. QED  BY <2>1, OrderedInit DEF SummaryInv, Summing, SummaryAddsUp
<1>2. ValuationInv /\ SummaryInv /\ [Next]_vars => SummaryInv'
  BY SummaryStep
<1>3. SummaryInv => SummaryAddsUp
  BY DEF SummaryInv
<1>. QED  BY <1>1, <1>2, <1>3, AlwaysInv, PTL DEF Spec

-----------------------------------------------------------------------------
(* FIFO.  Every unit that came in has a place in the order of arrival.     *)
(* fifoValuation and the queue keep the units whose place is beyond the    *)
(* number that left: among those that came at a cost, and among all.       *)

InOf(movs) == [i \in DOMAIN movs |-> IF movs[i].qty > 0 THEN movs[i].qty ELSE 0]
OutOf(movs) == [i \in DOMAIN movs |-> IF movs[i].qty < 0 THEN 0 - movs[i].qty ELSE 0]
PricedOf(movs) == [i \in DOMAIN movs |-> IF IsPriced(movs[i]) THEN movs[i].qty ELSE 0]
UnitCosts(movs) ==
    [i \in DOMAIN movs |-> IF movs[i].cost = Unpriced THEN 0 ELSE movs[i].cost]

LEMMA AmountsAre ==
  ASSUME NEW movs \in Seq(Movement)
  PROVE  /\ AreAmounts(InOf(movs), Len(movs)) /\ AreAmounts(OutOf(movs), Len(movs))
         /\ AreAmounts(PricedOf(movs), Len(movs)) /\ AreAmounts(UnitCosts(movs), Len(movs))
         /\ \A i \in 1 .. Len(movs) :
               /\ PricedOf(movs)[i] <= InOf(movs)[i]
               /\ InOf(movs)[i] = movs[i].qty + OutOf(movs)[i]
<1>. DEFINE n == Len(movs)
<1>1. n \in Nat /\ DOMAIN movs = 1 .. n /\ \A i \in 1 .. n : movs[i] \in Movement
                                                          /\ movs[i].qty \in Int
  BY MovementsFinite
<1>. HIDE DEF n
<1>2. ASSUME NEW i \in 1 .. n
      PROVE  /\ InOf(movs)[i] \in Nat /\ OutOf(movs)[i] \in Nat /\ PricedOf(movs)[i] \in Nat
             /\ PricedOf(movs)[i] <= InOf(movs)[i]
             /\ InOf(movs)[i] = movs[i].qty + OutOf(movs)[i]
  <2>1. movs[i].qty \in Int
    BY <1>1
  <2>2. /\ InOf(movs)[i] = IF movs[i].qty > 0 THEN movs[i].qty ELSE 0
        /\ OutOf(movs)[i] = IF movs[i].qty < 0 THEN 0 - movs[i].qty ELSE 0
        /\ PricedOf(movs)[i] = IF IsPriced(movs[i]) THEN movs[i].qty ELSE 0
    BY <1>1 DEF InOf, OutOf, PricedOf
  <2>3. IsPriced(movs[i]) => movs[i].qty > 0
    BY DEF IsPriced
  <2>. QED  BY <2>1, <2>2, <2>3
<1>3. ASSUME NEW i \in 1 .. n PROVE UnitCosts(movs)[i] \in Nat
  <2>1. movs[i].cost \in Costs \cup {Unpriced}
    BY <1>1 DEF Movement
  <2>2. UnitCosts(movs)[i] = IF movs[i].cost = Unpriced THEN 0 ELSE movs[i].cost
    BY <1>1 DEF UnitCosts
  <2>3. movs[i].cost = Unpriced \/ movs[i].cost \in Nat
    BY <2>1, CostsAreNat
  <2>. QED  BY <2>2, <2>3
<1>. QED  BY <1>1, <1>2, <1>3 DEF AreAmounts, n

\* The stock is what came in less what left.
LEMMA QtyIsDifference ==
  ASSUME NEW movs \in Seq(Movement)
  PROVE  /\ Qty(movs) = Upto(InOf(movs), Len(movs)) - Upto(OutOf(movs), Len(movs))
         /\ Upto(InOf(movs), Len(movs)) \in Nat /\ Upto(OutOf(movs), Len(movs)) \in Nat
<1>. DEFINE n == Len(movs)
            S == 1 .. n
            in == InOf(movs)
            out == OutOf(movs)
            q == QtyOf(movs)
<1>1. n \in Nat /\ DOMAIN movs = S /\ IsFiniteSet(S) /\ \A i \in S : movs[i].qty \in Int
  BY MovementsFinite
<1>2. AreAmounts(in, n) /\ AreAmounts(out, n) /\ \A i \in S : in[i] = movs[i].qty + out[i]
  BY AmountsAre
<1>. HIDE DEF in, out
<1>3. \A i \in S : /\ q[i] \in Int /\ out[i] \in Int /\ in[i] = q[i] + out[i]
  BY <1>1, <1>2 DEF QtyOf, AreAmounts
<1>4. Upto(in, n) \in Nat /\ Upto(out, n) \in Nat
  <2>1. n \in 0 .. n
    BY <1>1
  <2>. QED  BY <1>2, <2>1, UptoNext
<1>5. Qty(movs) = SumFunctionOnSet(q, S)
  <2>1. Qty(movs) = SumFunctionOnSet(q, DOMAIN movs)
    BY SumsAre
  <2>. QED  BY Zenon, <1>1, <2>1
<1>. HIDE DEF S, q
<1>6. SumFunctionOnSet(in, S) = SumFunctionOnSet(q, S) + SumFunctionOnSet(out, S)
  BY <1>1, <1>3, SumAdd
<1>7. SumFunctionOnSet(q, S) \in Int
  BY <1>1, <1>3, SumInt
<1>8. Upto(in, n) = SumFunctionOnSet(in, S) /\ Upto(out, n) = SumFunctionOnSet(out, S)
  BY DEF Upto, S
<1>. HIDE DEF n
<1>9. Qty(movs) = Upto(in, n) - Upto(out, n)
  BY <1>4, <1>5, <1>6, <1>7, <1>8
<1>. QED  BY <1>4, <1>9 DEF n, in, out

LEMMA OutboundIs ==
  ASSUME NEW movs \in Seq(Movement)
  PROVE  Outbound(movs) = Upto(OutOf(movs), Len(movs))
<1>. DEFINE n == Len(movs)
            S == 1 .. n
            out == RestrictValues(movs, LAMBDA m : m.qty < 0)
            D == {i \in DOMAIN movs : movs[i].qty < 0}
            q == QtyOf(out)
            neg == OutOf(movs)
<1>1. DOMAIN out = D /\ \A i \in D : out[i] = movs[i]
  BY DEF RestrictValues, Restrict
<1>2. n \in Nat /\ DOMAIN movs = S /\ IsFiniteSet(S) /\ \A i \in S : movs[i].qty \in Int
  BY MovementsFinite
<1>3. D \in SUBSET S /\ IsFiniteSet(D)
  BY <1>2, FS_Subset
<1>4. Qty(out) = SumFunctionOnSet(q, D)
  BY <1>1, SumsAre
<1>5. Outbound(movs) = 0 - Qty(out)
  BY DEF Outbound
<1>6. \A i \in S : neg[i] = IF i \in D THEN 0 - movs[i].qty ELSE 0
  BY <1>2 DEF OutOf
<1>7. \A i \in D : q[i] = movs[i].qty
  <2>. HIDE DEF out, D
  <2>. QED  BY <1>1 DEF QtyOf
<1>. HIDE DEF S, D, q, neg, out
<1>8. \A i \in S : neg[i] \in Int
  BY <1>2, <1>6
<1>9. SumFunctionOnSet(neg, S) = SumFunctionOnSet(neg, D)
  BY <1>2, <1>3, <1>6, <1>8, SumSupport
<1>10. SumFunctionOnSet(q, D) = (0 - 1) * SumFunctionOnSet(neg, D)
  <2>. DEFINE c == 0 - 1
  <2>1. c \in Int /\ \A i \in D : neg[i] \in Int /\ q[i] = c * neg[i]
    BY <1>2, <1>3, <1>6, <1>7
  <2>. HIDE DEF c
  <2>2. SumFunctionOnSet(q, D) = c * SumFunctionOnSet(neg, D)
    BY <1>3, <2>1, SumScale
  <2>. QED  BY <2>2 DEF c
<1>11. SumFunctionOnSet(neg, D) \in Int
  <2>1. \A i \in D : neg[i] \in Int
    BY <1>3, <1>8
  <2>. QED  BY <1>3, <2>1, SumInt
<1>12. Upto(neg, n) = SumFunctionOnSet(neg, S)
  BY DEF Upto, S
<1>13. Outbound(movs) = Upto(neg, n)
  BY <1>4, <1>5, <1>9, <1>10, <1>11, <1>12
<1>. QED  BY <1>13 DEF neg, n

\* Taking from the oldest on leaves nothing, or what the layers so far lack.
LEMMA RemainingIsRest ==
  ASSUME NEW layers, IsLayers(layers), NEW n \in Nat, DOMAIN layers \subseteq 1 .. n,
         NEW f, \A i \in 1 .. n : f[i] = IF i \in DOMAIN layers THEN layers[i].qty ELSE 0,
         NEW m \in Nat
  PROVE  /\ AreAmounts(f, n)
         /\ \A k \in 0 .. n : Remaining(layers, m)[k] =
               IF Upto(f, k) <= m THEN m - Upto(f, k) ELSE 0
<1>1. AreAmounts(f, n)
  BY DEF IsLayers, AreAmounts
<1>. DEFINE rem == Remaining(layers, m)
            Rest(k) == IF Upto(f, k) <= m THEN m - Upto(f, k) ELSE 0
            T == {k \in Nat : k <= n => rem[k] = Rest(k)}
<1>2. /\ rem[0] = m
      /\ \A k \in Nat : rem[k + 1] = IF k + 1 \notin DOMAIN layers THEN rem[k]
                                     ELSE rem[k] - Smaller(layers[k + 1].qty, rem[k])
  BY RemainingIs
<1>. HIDE DEF rem
<1>3. 0 \in T
  <2>1. Upto(f, 0) = 0
    BY <1>1, UptoNext
  <2>. QED  BY <1>2, <2>1
<1>4. ASSUME NEW k \in T PROVE k + 1 \in T
  <2>. SUFFICES ASSUME k + 1 <= n PROVE rem[k + 1] = Rest(k + 1)
    OBVIOUS
  <2>. DEFINE i == k + 1
  <2>1. i \in 1 .. n /\ i - 1 = k /\ k <= n /\ k \in Nat
    OBVIOUS
  <2>2. /\ Upto(f, i) = Upto(f, k) + f[i] /\ f[i] \in Nat
        /\ Upto(f, i) \in Nat /\ Upto(f, k) \in Nat
    <3>1. /\ Upto(f, i) = Upto(f, i - 1) + f[i] /\ f[i] \in Nat
          /\ Upto(f, i) \in Nat /\ Upto(f, i - 1) \in Nat
      BY <1>1, <2>1, BeyondIs
    <3>. QED  BY <2>1, <3>1
  <2>3. rem[k] = Rest(k) /\ rem[i] = IF i \notin DOMAIN layers THEN rem[k]
                                     ELSE rem[k] - Smaller(layers[i].qty, rem[k])
    BY <1>2, <2>1
  <2>4. f[i] = IF i \in DOMAIN layers THEN layers[i].qty ELSE 0
    BY <2>1
  <2>. HIDE DEF i
  <2>5. CASE i \in DOMAIN layers
    <3>1. f[i] = layers[i].qty /\ rem[i] = rem[k] - Smaller(layers[i].qty, rem[k])
      BY <2>3, <2>4, <2>5
    <3>2. rem[i] = Rest(i)
      BY <2>2, <2>3, <3>1 DEF Smaller
    <3>. QED  BY <3>2 DEF i
  <2>6. CASE i \notin DOMAIN layers
    <3>1. f[i] = 0 /\ rem[i] = rem[k]
      BY <2>3, <2>4, <2>6
    <3>2. rem[i] = Rest(i)
      BY <2>2, <2>3, <3>1
    <3>. QED  BY <3>2 DEF i
  <2>. QED  BY <2>5, <2>6
<1>5. T = Nat
  <2>1. T \in SUBSET Nat
    OBVIOUS
  <2>. HIDE DEF T
  <2>. QED  BY <1>3, <1>4, <2>1, AllNumbers
<1>6. ASSUME NEW k \in 0 .. n PROVE rem[k] = Rest(k)
  <2>1. k \in Nat /\ k <= n
    OBVIOUS
  <2>2. k \in T
    <3>. HIDE DEF T
    <3>. QED  BY <1>5, <2>1
  <2>. QED  BY <2>1, <2>2
<1>. QED  BY <1>1, <1>6 DEF rem

LEMMA PricedAre ==
  ASSUME NEW movs \in Seq(Movement)
  PROVE  /\ Len(movs) \in Nat /\ DOMAIN Layers(movs) \subseteq 1 .. Len(movs)
         /\ \A i \in 1 .. Len(movs) :
               PricedOf(movs)[i] = IF i \in DOMAIN Layers(movs) THEN Layers(movs)[i].qty ELSE 0
<1>. DEFINE n == Len(movs)
            layers == Layers(movs)
<1>1. n \in Nat /\ DOMAIN movs = 1 .. n
  BY MovementsFinite
<1>2. DOMAIN layers = {i \in DOMAIN movs : IsPriced(movs[i])}
      /\ \A i \in DOMAIN layers : layers[i] = movs[i]
  BY LayersAre
<1>. HIDE DEF n, layers
<1>3. \A i \in 1 .. n : PricedOf(movs)[i] = IF IsPriced(movs[i]) THEN movs[i].qty ELSE 0
  BY <1>1 DEF PricedOf
<1>. QED  BY <1>1, <1>2, <1>3 DEF n, layers

\* A layer keeps the units beyond the number that left.
LEMMA SurvivingUnits ==
  ASSUME NEW movs \in Seq(Movement), NEW i \in DOMAIN Layers(movs)
  PROVE  Surviving(movs)[i].qty = Beyond(PricedOf(movs), Outbound(movs), i)
<1>. DEFINE n == Len(movs)
            layers == Layers(movs)
            f == PricedOf(movs)
            out == Outbound(movs)
            rem == Remaining(layers, out)[i - 1]
<1>1. /\ n \in Nat /\ DOMAIN layers \subseteq 1 .. n /\ IsLayers(layers) /\ out \in Nat
      /\ \A j \in 1 .. n : f[j] = IF j \in DOMAIN layers THEN layers[j].qty ELSE 0
  BY PricedAre, LayersAre, OutboundIsNat
<1>2. layers[i].qty = movs[i].qty /\ movs[i].qty \in Nat
  BY LayersAre
<1>3. i \in 1 .. n /\ f[i] = movs[i].qty /\ i - 1 \in 0 .. n
  <2>. HIDE DEF layers, n, f
  <2>1. i \in DOMAIN layers
    BY DEF layers
  <2>. QED  BY <1>1, <1>2, <2>1
<1>4. TakeOldest(layers, out)[i] = Smaller(layers[i].qty, rem)
  BY <1>1, TakeOldestIs
<1>5. Surviving(movs)[i].qty = movs[i].qty - TakeOldest(layers, out)[i]
  BY SurvivingIs
<1>. HIDE DEF n, layers, f, out
<1>6. AreAmounts(f, n) /\ rem = IF Upto(f, i - 1) <= out THEN out - Upto(f, i - 1) ELSE 0
  BY <1>1, <1>3, RemainingIsRest
<1>7. /\ Upto(f, i) = Upto(f, i - 1) + f[i] /\ Upto(f, i - 1) \in Nat
  BY <1>1, <1>3, <1>6, BeyondIs
<1>. HIDE DEF rem
<1>8. movs[i].qty - Smaller(movs[i].qty, rem) =
        IF out <= Upto(f, i - 1) THEN f[i]
        ELSE IF out <= Upto(f, i) THEN Upto(f, i) - out ELSE 0
  BY <1>1, <1>2, <1>3, <1>6, <1>7 DEF Smaller
<1>. QED  BY <1>2, <1>4, <1>5, <1>8 DEF Beyond, f, out

LEMMA NothingBeyond ==
  ASSUME NEW movs \in Seq(Movement), NEW i \in 1 .. Len(movs), i \notin DOMAIN Layers(movs),
         NEW cut \in Nat
  PROVE  Beyond(PricedOf(movs), cut, i) = 0
<1>1. PricedOf(movs)[i] = 0 /\ AreAmounts(PricedOf(movs), Len(movs))
  BY PricedAre, AmountsAre
<1>2. Beyond(PricedOf(movs), cut, i) \in Nat
      /\ Beyond(PricedOf(movs), cut, i) <= PricedOf(movs)[i]
  BY <1>1, BeyondIs
<1>. QED  BY <1>1, <1>2

LEMMA PricedUpto ==
  ASSUME NEW movs \in Seq(Movement), NEW i \in 0 .. Len(movs)
  PROVE  Upto(PricedOf(movs), i) <= Upto(InOf(movs), i)
<1>. DEFINE S == 1 .. i
            f == PricedOf(movs)
            g == InOf(movs)
<1>1. Len(movs) \in Nat
  BY MovementsFinite
<1>2. IsFiniteSet(S) /\ S \subseteq 1 .. Len(movs)
  BY <1>1, FS_Interval
<1>3. \A j \in 1 .. Len(movs) : f[j] \in Nat /\ g[j] \in Nat /\ f[j] <= g[j]
  BY AmountsAre DEF AreAmounts
<1>. HIDE DEF S, f, g
<1>4. \A j \in S : f[j] \in Int /\ g[j] \in Int /\ f[j] <= g[j]
  BY <1>2, <1>3
<1>5. SumFunctionOnSet(f, S) <= SumFunctionOnSet(g, S)
  BY <1>2, <1>4, SumGrows
<1>. QED  BY <1>5 DEF Upto, S, f, g

\* The units on hand are never fewer than those the layers keep: all are used.
LEMMA UsedUnits ==
  ASSUME NEW movs \in Seq(Movement), Qty(movs) > 0, NEW i \in DOMAIN Layers(movs)
  PROVE  Used(movs, Qty(movs))[i].qty = Beyond(PricedOf(movs), Outbound(movs), i)
<1>. DEFINE n == Len(movs)
            D == DOMAIN Layers(movs)
            layers == Surviving(movs)
            f == PricedOf(movs)
            out == Outbound(movs)
            H == Qty(movs)
            g == [j \in 1 .. n |-> Beyond(f, out, j)]
<1>1. n \in Nat /\ D \subseteq 1 .. n /\ out \in Nat /\ H \in Int /\ H > 0 /\ AreAmounts(f, n)
  BY PricedAre, OutboundIsNat, QtyIsInt, AmountsAre
<1>2. IsLayers(layers) /\ DOMAIN layers = D
  BY SurvivingIs
<1>3. \A j \in 1 .. n : g[j] = IF j \in DOMAIN layers THEN layers[j].qty ELSE 0
  <2>1. \A j \in D : layers[j].qty = Beyond(f, out, j)
    BY SurvivingUnits
  <2>2. \A j \in 1 .. n : j \notin D => Beyond(f, out, j) = 0
    BY <1>1, NothingBeyond
  <2>. HIDE DEF D, layers, f, out, n
  <2>. QED  BY <1>2, <2>1, <2>2
<1>4. H = Upto(InOf(movs), n) - out /\ Upto(InOf(movs), n) \in Nat
  BY QtyIsDifference, OutboundIs
<1>5. Upto(f, n) <= Upto(InOf(movs), n)
  <2>1. n \in 0 .. n
    BY <1>1
  <2>. QED  BY <2>1, PricedUpto
<1>6. Used(movs, H)[i].qty = TakeOldest(layers, H)[i]
  <2>1. Used(movs, H)[i].qty = TakeOldest(layers, IF H > 0 THEN H ELSE 0)[i]
    BY <1>1, FifoValueIs
  <2>2. (IF H > 0 THEN H ELSE 0) = H
    BY <1>1
  <2>. QED  BY Zenon, <2>1, <2>2
<1>7. i \in D
  OBVIOUS
<1>. HIDE DEF n, D, layers, f, out, H, g
<1>8. i \in 1 .. n /\ i - 1 \in 0 .. n /\ i \in 0 .. n /\ n \in 0 .. n /\ i <= n /\ H \in Nat
  BY <1>1, <1>7
<1>9. \A j \in 1 .. n : g[j] = Beyond(f, out, j)
  BY DEF g
<1>10. /\ AreAmounts(g, n)
       /\ \A k \in 0 .. n : Upto(g, k) = IF Upto(f, k) <= out THEN 0 ELSE Upto(f, k) - out
  BY <1>1, <1>9, UptoBeyond
<1>11. \A k \in 0 .. n : Remaining(layers, H)[k] =
                           IF Upto(g, k) <= H THEN H - Upto(g, k) ELSE 0
  BY <1>1, <1>2, <1>3, <1>8, RemainingIsRest
<1>12. TakeOldest(layers, H)[i] = Smaller(layers[i].qty, Remaining(layers, H)[i - 1])
  BY <1>2, <1>7, <1>8, TakeOldestIs
<1>13. layers[i].qty = g[i]
  BY <1>2, <1>3, <1>7, <1>8
<1>14. /\ Upto(g, i) = Upto(g, i - 1) + g[i] /\ g[i] \in Nat
       /\ Upto(g, i) \in Nat /\ Upto(g, i - 1) \in Nat
  BY <1>8, <1>10, <1>1, BeyondIs
<1>15. Upto(g, i) <= H
  <2>1. Upto(f, i) <= Upto(f, n) /\ Upto(f, i) \in Nat /\ Upto(f, n) \in Nat
    BY <1>1, <1>8, UptoGrows, UptoNext
  <2>2. Upto(g, i) = IF Upto(f, i) <= out THEN 0 ELSE Upto(f, i) - out
    BY <1>8, <1>10
  <2>. QED  BY <1>1, <1>4, <1>5, <1>8, <2>1, <2>2
<1>16. Remaining(layers, H)[i - 1] = H - Upto(g, i - 1)
  BY <1>8, <1>11, <1>14, <1>15
<1>17. TakeOldest(layers, H)[i] = g[i]
  BY <1>8, <1>12, <1>13, <1>14, <1>15, <1>16 DEF Smaller
<1>. QED  BY <1>6, <1>8, <1>9, <1>17 DEF f, out, H

\* What fifoValuation adds up before it rounds.
LEMMA FifoCost ==
  ASSUME NEW movs \in Seq(Movement), Qty(movs) > 0,
         NEW h, \A i \in 1 .. Len(movs) :
                   h[i] = UnitCosts(movs)[i] * Beyond(PricedOf(movs), Outbound(movs), i)
  PROVE  Value(movs, FIFO) = CentsOf(Upto(h, Len(movs)))
<1>. DEFINE n == Len(movs)
            S == 1 .. n
            D == DOMAIN Layers(movs)
            used == Used(movs, Qty(movs))
            c == CostsOf(used)
            B(i) == Beyond(PricedOf(movs), Outbound(movs), i)
<1>1. n \in Nat /\ D \in SUBSET S /\ DOMAIN movs = S /\ Outbound(movs) \in Nat
      /\ Qty(movs) \in Int /\ AreAmounts(PricedOf(movs), n)
  BY PricedAre, MovementsFinite, OutboundIsNat, QtyIsInt, AmountsAre
<1>2. IsFiniteSet(S) /\ IsFiniteSet(D)
  <2>1. IsFiniteSet(S)
    BY <1>1, FS_Interval
  <2>2. D \in SUBSET S
    BY <1>1
  <2>. HIDE DEF S, D
  <2>. QED  BY <2>1, <2>2, FS_Subset
<1>3. Value(movs, FIFO) = CentsOf(CostOf(used))
  <2>1. Value(movs, FIFO) = FifoValue(movs, Qty(movs))
    BY <1>1 DEF Value
  <2>2. FifoValue(movs, Qty(movs)) = CentsOf(CostOf(used))
    BY <1>1, FifoValueIs
  <2>. QED  BY <2>1, <2>2
<1>4. DOMAIN used = D /\ \A i \in D : used[i].cost = movs[i].cost
  BY <1>1, FifoValueIs
<1>5. CostOf(used) = SumFunctionOnSet(c, D)
  <2>1. CostOf(used) = SumFunctionOnSet(c, DOMAIN used)
    BY SumsAre
  <2>. QED  BY Zenon, <1>4, <2>1
<1>6. \A i \in D : used[i].qty = B(i)
  BY UsedUnits
<1>7. \A i \in D : UnitCosts(movs)[i] = movs[i].cost
  <2>1. \A i \in D : movs[i].cost \in Nat /\ IsPriced(movs[i])
    BY LayersAre
  <2>2. \A i \in D : movs[i].cost # Unpriced
    BY <2>1 DEF IsPriced
  <2>. HIDE DEF D
  <2>. QED  BY <1>1, <2>2 DEF UnitCosts
<1>8. \A i \in S : i \notin D => B(i) = 0
  BY <1>1, NothingBeyond
<1>9. \A i \in S : B(i) \in Nat /\ UnitCosts(movs)[i] \in Nat
  <2>1. \A i \in S : B(i) \in Nat
    BY <1>1, BeyondIs
  <2>2. \A i \in S : UnitCosts(movs)[i] \in Nat
    BY AmountsAre DEF AreAmounts
  <2>. QED  BY <2>1, <2>2
<1>10. \A i \in S : h[i] = UnitCosts(movs)[i] * B(i)
  OBVIOUS
<1>. HIDE DEF n, S, D, used, c, B
<1>11. \A i \in S : h[i] \in Int
  <2>1. \A a, b \in Int : a * b \in Int
    OBVIOUS
  <2>. QED  BY <1>9, <1>10, <2>1
<1>12. \A i \in S : i \notin D => h[i] = 0
  <2>1. \A a \in Int : a * 0 = 0
    OBVIOUS
  <2>. QED  BY <1>8, <1>9, <1>10, <2>1
<1>13. \A i \in D : c[i] = h[i]
  <2>1. \A i \in D : c[i] = used[i].cost * used[i].qty
    BY <1>4 DEF c, CostsOf
  <2>. QED  BY <1>1, <1>4, <1>6, <1>7, <1>10, <2>1
<1>14. SumFunctionOnSet(c, D) = SumFunctionOnSet(h, D)
  BY <1>2, <1>13, SumSame
<1>15. SumFunctionOnSet(h, S) = SumFunctionOnSet(h, D)
  BY <1>1, <1>2, <1>11, <1>12, SumSupport
<1>. QED  BY <1>3, <1>5, <1>14, <1>15 DEF Upto, S, n

\* The queue, movement by movement.
Queues == [owed : Nat, units : Seq(Nat)]
Played(q, m) == IF m.qty > 0 THEN Arrive(q, m) ELSE Leave(q, 0 - m.qty)

LEMMA ArriveIs ==
  ASSUME NEW q \in Queues, NEW m \in Movement, m.qty > 0
  PROVE  LET paid == Smaller(q.owed, m.qty)
             cost == IF m.cost = Unpriced THEN 0 ELSE m.cost
             a == Arrive(q, m)
         IN  /\ a \in Queues /\ a.owed = q.owed - paid
             /\ Len(a.units) = Len(q.units) + (m.qty - paid)
             /\ \A x \in 1 .. Len(q.units) : a.units[x] = q.units[x]
             /\ \A x \in 1 .. Len(a.units) : x > Len(q.units) => a.units[x] = cost
<1>. DEFINE paid == Smaller(q.owed, m.qty)
            cost == IF m.cost = Unpriced THEN 0 ELSE m.cost
            k == m.qty - paid
            new == [i \in 1 .. k |-> cost]
            a == Arrive(q, m)
<1>1. q.owed \in Nat /\ q.units \in Seq(Nat) /\ m.qty \in Int /\ m.cost \in Costs \cup {Unpriced}
  BY DEF Queues, Movement
<1>2. cost \in Nat
  <2>1. m.cost = Unpriced \/ m.cost \in Nat
    BY <1>1, CostsAreNat
  <2>. QED  BY <2>1
<1>3. k \in Nat /\ q.owed - paid \in Nat
  BY <1>1 DEF Smaller
<1>4. a = [owed |-> q.owed - paid, units |-> q.units \o new]
  BY DEF Arrive
<1>. HIDE DEF paid, cost, k, a
<1>5. new \in Seq(Nat) /\ Len(new) = k /\ \A i \in 1 .. k : new[i] = cost
  BY <1>2, <1>3
<1>. HIDE DEF new
<1>6. Len(q.units) \in Nat
  BY <1>1, LenProperties
<1>7. /\ q.units \o new \in Seq(Nat) /\ Len(q.units \o new) = Len(q.units) + k
      /\ \A i \in 1 .. Len(q.units) + k : (q.units \o new)[i] =
            IF i <= Len(q.units) THEN q.units[i] ELSE new[i - Len(q.units)]
  <2>1. q.units \in Seq(Nat) /\ new \in Seq(Nat)
    BY <1>1, <1>5
  <2>2. /\ q.units \o new \in Seq(Nat) /\ Len(q.units \o new) = Len(q.units) + Len(new)
        /\ \A i \in 1 .. Len(q.units) + Len(new) : (q.units \o new)[i] =
              IF i <= Len(q.units) THEN q.units[i] ELSE new[i - Len(q.units)]
    BY <2>1, ConcatProperties, Zenon
  <2>. QED  BY <1>5, <2>2
<1>8. a \in Queues
  BY <1>3, <1>4, <1>7 DEF Queues
<1>9. a.owed = q.owed - paid /\ a.units = q.units \o new
  BY <1>4
<1>10. \A x \in 1 .. Len(q.units) : a.units[x] = q.units[x]
  BY <1>3, <1>6, <1>7, <1>9
<1>11. ASSUME NEW x \in 1 .. Len(a.units), x > Len(q.units)
       PROVE  a.units[x] = cost
  <2>1. x \in 1 .. Len(q.units) + k /\ x - Len(q.units) \in 1 .. k /\ ~(x <= Len(q.units))
    BY <1>3, <1>6, <1>7, <1>9, <1>11
  <2>2. a.units[x] = new[x - Len(q.units)]
    BY <1>7, <1>9, <2>1
  <2>. QED  BY <1>5, <2>1, <2>2
<1>. QED  BY <1>7, <1>8, <1>9, <1>10, <1>11 DEF a, paid, cost, k

LEMMA LeaveIs ==
  ASSUME NEW q \in Queues, NEW n \in Nat
  PROVE  LET out == Smaller(Len(q.units), n)
             a == Leave(q, n)
         IN  /\ a \in Queues /\ a.owed = q.owed + n - out
             /\ Len(a.units) = Len(q.units) - out
             /\ \A x \in 1 .. Len(a.units) : a.units[x] = q.units[out + x]
<1>. DEFINE L == Len(q.units)
            out == Smaller(L, n)
            a == Leave(q, n)
            rest == SubSeq(q.units, out + 1, L)
<1>1. q.owed \in Nat /\ q.units \in Seq(Nat)
  BY DEF Queues
<1>2. L \in Nat /\ q.units \in [1 .. L -> Nat]
  BY <1>1, LenProperties
<1>. HIDE DEF L
<1>3. out \in Nat /\ out <= L /\ out <= n
  BY <1>2 DEF Smaller
<1>4. a = [owed |-> q.owed + n - out, units |-> rest]
  BY DEF Leave, L
<1>. HIDE DEF out, a
<1>5. /\ rest \in Seq(Nat) /\ Len(rest) = L - out
      /\ \A x \in 1 .. L - out : rest[x] = q.units[out + x]
  <2>. DEFINE b == out + 1
              s == q.units
  <2>1. b \in Int /\ L \in Int /\ \A i \in b .. L : s[i] \in Nat
    BY <1>2, <1>3
  <2>2. rest = SubSeq(s, b, L)
    OBVIOUS
  <2>3. (IF b <= L THEN L - b + 1 ELSE 0) = L - out /\ L - b + 1 = L - out
        /\ \A x \in 1 .. L - out : b + x - 1 = out + x
    BY <1>2, <1>3
  <2>. HIDE DEF b, s, rest
  <2>4. /\ SubSeq(s, b, L) \in Seq(Nat)
        /\ Len(SubSeq(s, b, L)) = IF b <= L THEN L - b + 1 ELSE 0
        /\ \A i \in 1 .. L - b + 1 : SubSeq(s, b, L)[i] = s[b + i - 1]
    BY <2>1, SubSeqProperties
  <2>5. \A x \in 1 .. L - out : rest[x] = s[out + x]
    BY <2>2, <2>3, <2>4
  <2>. QED  BY <2>2, <2>3, <2>4, <2>5 DEF s
<1>. HIDE DEF rest
<1>6. q.owed + n - out \in Nat
  BY <1>1, <1>3
<1>7. a \in Queues
  BY <1>4, <1>5, <1>6 DEF Queues
<1>8. a.owed = q.owed + n - out /\ a.units = rest
  BY <1>4
<1>. QED  BY <1>5, <1>7, <1>8 DEF a, out, L

LEMMA PlayedTyped ==
  ASSUME NEW q \in Queues, NEW m \in Movement
  PROVE  Played(q, m) \in Queues
<1>1. m.qty \in Int
  BY DEF Movement
<1>2. CASE m.qty > 0
  <2>1. Arrive(q, m) \in Queues
    BY <1>2, ArriveIs
  <2>. QED  BY <1>2, <2>1 DEF Played
<1>3. CASE ~(m.qty > 0)
  <2>1. 0 - m.qty \in Nat
    BY <1>1, <1>3
  <2>2. Leave(q, 0 - m.qty) \in Queues
    BY <2>1, LeaveIs
  <2>. QED  BY <1>3, <2>2 DEF Played
<1>. QED  BY <1>2, <1>3

\* Replay is defined by its recursion.
LEMMA ReplayIs ==
  ASSUME NEW movs \in Seq(Movement)
  PROVE  /\ Replay(movs)[0] = [owed |-> 0, units |-> <<>>]
         /\ \A k \in 1 .. Len(movs) : Replay(movs)[k] = Played(Replay(movs)[k - 1], movs[k])
         /\ \A k \in 0 .. Len(movs) : Replay(movs)[k] \in Queues
<1>. DEFINE n == Len(movs)
            first == [owed |-> 0, units |-> <<>>]
            after(k, q) == IF k \in 1 .. n THEN Played(q, movs[k]) ELSE q
            step == [k \in Nat |-> [q \in Queues |-> after(k + 1, q)]]
            Def(h) == h = [k \in 0 .. n |->
                             IF k = 0 THEN [owed |-> 0, units |-> <<>>]
                             ELSE IF movs[k].qty > 0 THEN Arrive(h[k - 1], movs[k])
                             ELSE Leave(h[k - 1], 0 - movs[k].qty)]
            g == CHOOSE h : Def(h)
<1>1. n \in Nat /\ \A k \in 1 .. n : movs[k] \in Movement
  BY MovementsFinite
<1>. HIDE DEF n
<1>2. first \in Queues
  BY EmptySeq DEF Queues
<1>3. \A k \in Nat, q \in Queues : after(k, q) \in Queues
  BY <1>1, PlayedTyped
<1>. HIDE DEF after, first
<1>4. \A k \in Nat, q \in Queues : step[k][q] \in Queues /\ step[k][q] = after(k + 1, q)
  BY <1>3
<1>. HIDE DEF step
<1>5. PICK r \in [Nat -> Queues] : r[0] = first /\ \A k \in Nat : r[k + 1] = step[k][r[k]]
  <2>1. IsStep(step, Queues)
    BY <1>4 DEF IsStep
  <2>2. \E h : IsRecursion(h, Queues, first, step)
    BY <1>2, <2>1, RecursionExists
  <2>. QED  BY <2>2 DEF IsRecursion
<1>. DEFINE h == [k \in 0 .. n |-> r[k]]
<1>6. ASSUME NEW k \in 1 .. n
      PROVE  r[k] = Played(r[k - 1], movs[k])
  <2>1. k - 1 \in Nat /\ (k - 1) + 1 = k
    BY <1>1
  <2>2. r[k] = step[k - 1][r[k - 1]]
    BY <1>5, <2>1
  <2>3. r[k - 1] \in Queues
    BY <2>1
  <2>4. r[k] = after(k, r[k - 1])
    BY <1>4, <2>1, <2>2, <2>3
  <2>. QED  BY <2>4 DEF after
<1>7. Def(h)
  <2>1. ASSUME NEW k \in 0 .. n
        PROVE  h[k] = IF k = 0 THEN [owed |-> 0, units |-> <<>>]
                      ELSE IF movs[k].qty > 0 THEN Arrive(h[k - 1], movs[k])
                      ELSE Leave(h[k - 1], 0 - movs[k].qty)
    <3>1. CASE k = 0
      BY <1>5, <3>1 DEF first
    <3>2. CASE k # 0
      <4>1. k \in 1 .. n /\ k - 1 \in 0 .. n
        BY <1>1, <3>2
      <4>2. h[k] = r[k] /\ h[k - 1] = r[k - 1]
        BY <4>1
      <4>3. h[k] = Played(h[k - 1], movs[k])
        BY <1>6, <4>1, <4>2
      <4>. HIDE DEF h
      <4>. QED  BY <3>2, <4>3 DEF Played
    <3>. QED  BY <3>1, <3>2
  <2>. QED  BY <2>1
<1>8. Def(g)
  <2>. HIDE DEF Def
  <2>. QED  BY Zenon, <1>7
<1>9. Replay(movs) = g
  BY Zenon DEF Replay, n
<1>. HIDE DEF g, h
<1>10. g[0] = [owed |-> 0, units |-> <<>>]
  BY <1>1, <1>8
<1>11. ASSUME NEW k \in 1 .. n PROVE g[k] = Played(g[k - 1], movs[k])
  <2>1. k \in 0 .. n /\ k # 0
    BY <1>1
  <2>. QED  BY <1>8, <2>1 DEF Played
<1>12. \A k \in 0 .. n : g[k] \in Queues
  <2>. DEFINE T == {k \in Nat : k <= n => g[k] \in Queues}
  <2>1. 0 \in T
    BY <1>2, <1>10 DEF first
  <2>2. ASSUME NEW k \in T PROVE k + 1 \in T
    <3>. SUFFICES ASSUME k + 1 <= n PROVE g[k + 1] \in Queues
      OBVIOUS
    <3>1. k + 1 \in 1 .. n /\ (k + 1) - 1 = k /\ g[k] \in Queues
      BY <1>1
    <3>2. g[k + 1] = Played(g[k], movs[k + 1]) /\ movs[k + 1] \in Movement
      BY <1>1, <1>11, <3>1
    <3>. QED  BY <3>1, <3>2, PlayedTyped
  <2>3. T \in SUBSET Nat
    OBVIOUS
  <2>. HIDE DEF T
  <2>4. T = Nat
    BY <2>1, <2>2, <2>3, AllNumbers
  <2>. QED  BY <2>4 DEF T
<1>. QED  BY <1>9, <1>10, <1>11, <1>12 DEF n

\* The queue after k movements: what came in less what left, each unit at the
\* cost of the movement it came with.
QueueIs(movs, k, q) ==
    /\ q \in Queues
    /\ Len(q.units) - q.owed = Upto(InOf(movs), k) - Upto(OutOf(movs), k)
    /\ q.owed = 0 \/ Len(q.units) = 0
    /\ \A x \in 1 .. Len(q.units), i \in 1 .. k :
          Owns(InOf(movs), i, Upto(OutOf(movs), k) + x) => q.units[x] = UnitCosts(movs)[i]

\* What a movement adds to what came in and left.
LEMMA AmountsNext ==
  ASSUME NEW movs \in Seq(Movement), NEW j \in 1 .. Len(movs)
  PROVE  /\ j \in Nat /\ j - 1 \in Nat /\ movs[j] \in Movement /\ movs[j].qty \in Int
         /\ Upto(InOf(movs), j - 1) \in Nat /\ Upto(OutOf(movs), j - 1) \in Nat
         /\ Upto(InOf(movs), j) = Upto(InOf(movs), j - 1)
                                    + (IF movs[j].qty > 0 THEN movs[j].qty ELSE 0)
         /\ Upto(OutOf(movs), j) = Upto(OutOf(movs), j - 1)
                                     + (IF movs[j].qty < 0 THEN 0 - movs[j].qty ELSE 0)
<1>. DEFINE n == Len(movs)
<1>1. n \in Nat /\ DOMAIN movs = 1 .. n /\ movs[j] \in Movement /\ movs[j].qty \in Int
  BY MovementsFinite
<1>2. AreAmounts(InOf(movs), n) /\ AreAmounts(OutOf(movs), n)
  BY AmountsAre
<1>3. InOf(movs)[j] = (IF movs[j].qty > 0 THEN movs[j].qty ELSE 0)
      /\ OutOf(movs)[j] = (IF movs[j].qty < 0 THEN 0 - movs[j].qty ELSE 0)
  BY <1>1 DEF InOf, OutOf
<1>. HIDE DEF n
<1>4. j \in 1 .. n
  BY DEF n
<1>5. /\ Upto(InOf(movs), j - 1) \in Nat
      /\ Upto(InOf(movs), j) = Upto(InOf(movs), j - 1) + InOf(movs)[j]
  BY <1>2, <1>4, BeyondIs
<1>6. /\ Upto(OutOf(movs), j - 1) \in Nat
      /\ Upto(OutOf(movs), j) = Upto(OutOf(movs), j - 1) + OutOf(movs)[j]
  BY <1>2, <1>4, BeyondIs
<1>. QED  BY <1>1, <1>3, <1>4, <1>5, <1>6

\* Where a unit lies among the amounts, one amount later.
LEMMA OwnersNext ==
  ASSUME NEW movs \in Seq(Movement), NEW j \in 1 .. Len(movs), NEW y \in Nat, NEW i \in 1 .. j,
         Owns(InOf(movs), i, y)
  PROVE  /\ y <= Upto(InOf(movs), j - 1) => i \in 1 .. (j - 1)
         /\ y > Upto(InOf(movs), j - 1) => i = j
<1>. DEFINE f == InOf(movs)
            n == Len(movs)
<1>1. AreAmounts(f, n) /\ n \in Nat /\ j \in 1 .. n
  BY AmountsAre, MovementsFinite
<1>. HIDE DEF f, n
<1>2. Owns(f, i, y)
  BY DEF f
<1>3. CASE i = j
  BY <1>1, <1>2, <1>3, BeyondIs DEF Owns, f
<1>4. CASE i # j
  <2>1. i \in 0 .. n /\ j - 1 \in 0 .. n /\ i <= j - 1 /\ i \in 1 .. (j - 1)
    BY <1>1, <1>4
  <2>2. Upto(f, i) <= Upto(f, j - 1) /\ Upto(f, i) \in Nat /\ Upto(f, j - 1) \in Nat
    BY <1>1, <2>1, UptoGrows, UptoNext
  <2>. QED  BY <1>2, <2>1, <2>2 DEF Owns, f
<1>. QED  BY <1>3, <1>4

LEMMA QueueArrives ==
  ASSUME NEW movs \in Seq(Movement), NEW j \in 1 .. Len(movs), movs[j].qty > 0,
         NEW q, QueueIs(movs, j - 1, q)
  PROVE  QueueIs(movs, j, Arrive(q, movs[j]))
<1>. DEFINE m == movs[j]
            d == m.qty
            paid == Smaller(q.owed, d)
            cost == IF m.cost = Unpriced THEN 0 ELSE m.cost
            a == Arrive(q, m)
            in == Upto(InOf(movs), j - 1)
            out == Upto(OutOf(movs), j - 1)
            L == Len(q.units)
            M == Len(a.units)
<1>1. /\ m \in Movement /\ d \in Int /\ d > 0 /\ in \in Nat /\ out \in Nat
      /\ Upto(InOf(movs), j) = in + d /\ Upto(OutOf(movs), j) = out
      /\ j \in Nat
  <2>1. /\ m \in Movement /\ d \in Int /\ in \in Nat /\ out \in Nat /\ j \in Nat
        /\ Upto(InOf(movs), j) = in + (IF d > 0 THEN d ELSE 0)
        /\ Upto(OutOf(movs), j) = out + (IF d < 0 THEN 0 - d ELSE 0)
    BY AmountsNext
  <2>2. d > 0
    OBVIOUS
  <2>. HIDE DEF d, in, out, m
  <2>3. (IF d > 0 THEN d ELSE 0) = d /\ (IF d < 0 THEN 0 - d ELSE 0) = 0 /\ out + 0 = out
    BY <2>1, <2>2
  <2>. QED  BY <2>1, <2>2, <2>3
<1>2. /\ q \in Queues /\ L - q.owed = in - out /\ (q.owed = 0 \/ L = 0)
      /\ \A x \in 1 .. L, i \in 1 .. (j - 1) :
            Owns(InOf(movs), i, out + x) => q.units[x] = UnitCosts(movs)[i]
  BY DEF QueueIs
<1>3. L \in Nat /\ q.owed \in Nat
  BY <1>2, LenProperties DEF Queues
<1>4. /\ a \in Queues /\ a.owed = q.owed - paid /\ M = L + (d - paid)
      /\ \A x \in 1 .. L : a.units[x] = q.units[x]
      /\ \A x \in 1 .. M : x > L => a.units[x] = cost
  <2>1. d > 0
    OBVIOUS
  <2>. QED  BY <1>1, <1>2, <2>1, ArriveIs
<1>5. UnitCosts(movs)[j] = cost
  <2>1. DOMAIN movs = 1 .. Len(movs)
    BY MovementsFinite
  <2>. QED  BY <2>1 DEF UnitCosts
<1>. HIDE DEF m, d, cost, a, in, out, L, M
<1>6. paid \in Nat /\ paid <= d /\ paid <= q.owed /\ (paid = d \/ paid = q.owed)
  BY <1>1, <1>3 DEF Smaller
<1>. HIDE DEF paid
<1>7. M - a.owed = (in + d) - out /\ M \in Nat
  <2>. DEFINE o == q.owed
              ao == a.owed
  <2>1. M = L + (d - paid) /\ ao = o - paid
    BY <1>4
  <2>2. L - o = in - out /\ L \in Nat /\ o \in Nat /\ in \in Nat /\ out \in Nat /\ d \in Nat
    BY <1>1, <1>2, <1>3
  <2>. HIDE DEF o, ao
  <2>3. M - ao = (in + d) - out /\ M \in Nat
    BY <1>6, <2>1, <2>2
  <2>. QED  BY <2>3 DEF ao
<1>8. a.owed = 0 \/ M = 0
  BY <1>1, <1>2, <1>3, <1>4, <1>6
<1>9. ASSUME NEW x \in 1 .. M, NEW i \in 1 .. j, Owns(InOf(movs), i, out + x)
      PROVE  a.units[x] = UnitCosts(movs)[i]
  <2>0. out + x \in Nat /\ x \in Nat
    BY <1>1, <1>7
  <2>1. (out + x <= in => i \in 1 .. (j - 1)) /\ (out + x > in => i = j)
    BY <1>9, <2>0, OwnersNext DEF in
  <2>2. CASE x <= L
    <3>1. x \in 1 .. L /\ out + x <= in
      BY <1>1, <1>2, <1>3, <2>0, <2>2
    <3>. QED  BY <1>2, <1>4, <1>9, <2>1, <3>1
  <2>3. CASE x > L
    <3>1. out + x > in
      BY <1>1, <1>2, <1>3, <1>4, <1>6, <1>7, <2>0, <2>3
    <3>. QED  BY <1>4, <1>5, <2>1, <2>3, <3>1
  <2>. QED  BY <1>3, <2>0, <2>2, <2>3
<1>10. QueueIs(movs, j, a)
  <2>1. Len(a.units) - a.owed = Upto(InOf(movs), j) - Upto(OutOf(movs), j)
    BY <1>1, <1>7 DEF M
  <2>. QED  BY <1>1, <1>4, <1>8, <1>9, <2>1 DEF QueueIs, M
<1>. QED  BY <1>10 DEF a, m

LEMMA QueueLeaves ==
  ASSUME NEW movs \in Seq(Movement), NEW j \in 1 .. Len(movs), ~(movs[j].qty > 0),
         NEW q, QueueIs(movs, j - 1, q)
  PROVE  QueueIs(movs, j, Leave(q, 0 - movs[j].qty))
<1>. DEFINE d == 0 - movs[j].qty
            a == Leave(q, d)
            in == Upto(InOf(movs), j - 1)
            out == Upto(OutOf(movs), j - 1)
            L == Len(q.units)
            M == Len(a.units)
            gone == Smaller(L, d)
<1>1. /\ d \in Nat /\ in \in Nat /\ out \in Nat /\ j \in Nat
      /\ Upto(InOf(movs), j) = in /\ Upto(OutOf(movs), j) = out + d
  <2>1. /\ movs[j].qty \in Int /\ in \in Nat /\ out \in Nat /\ j \in Nat
        /\ Upto(InOf(movs), j) = in + (IF movs[j].qty > 0 THEN movs[j].qty ELSE 0)
        /\ Upto(OutOf(movs), j) = out + (IF movs[j].qty < 0 THEN 0 - movs[j].qty ELSE 0)
    BY AmountsNext
  <2>. HIDE DEF in, out
  <2>2. d \in Nat /\ (IF movs[j].qty > 0 THEN movs[j].qty ELSE 0) = 0 /\ in + 0 = in
        /\ (IF movs[j].qty < 0 THEN 0 - movs[j].qty ELSE 0) = d
    BY <2>1
  <2>. HIDE DEF d
  <2>. QED  BY <2>1, <2>2
<1>2. /\ q \in Queues /\ L - q.owed = in - out /\ (q.owed = 0 \/ L = 0)
      /\ \A x \in 1 .. L, i \in 1 .. (j - 1) :
            Owns(InOf(movs), i, out + x) => q.units[x] = UnitCosts(movs)[i]
  BY DEF QueueIs
<1>3. L \in Nat /\ q.owed \in Nat
  BY <1>2, LenProperties DEF Queues
<1>. HIDE DEF d
<1>4. /\ a \in Queues /\ a.owed = q.owed + d - gone /\ M = L - gone
      /\ \A x \in 1 .. M : a.units[x] = q.units[gone + x]
  BY <1>1, <1>2, LeaveIs
<1>. HIDE DEF a, in, out, L, M
<1>5. gone \in Nat /\ gone <= d /\ gone <= L /\ (gone = d \/ gone = L)
  BY <1>1, <1>3 DEF Smaller
<1>. HIDE DEF gone
<1>6. M - a.owed = in - (out + d) /\ M \in Nat
  <2>. DEFINE o == q.owed
              ao == a.owed
  <2>1. M = L - gone /\ ao = o + d - gone
    BY <1>4
  <2>2. L - o = in - out /\ L \in Nat /\ o \in Nat /\ in \in Nat /\ out \in Nat /\ d \in Nat
    BY <1>1, <1>2, <1>3
  <2>. HIDE DEF o, ao
  <2>3. M - ao = in - (out + d) /\ M \in Nat
    BY <1>5, <2>1, <2>2
  <2>. QED  BY <2>3 DEF ao
<1>7. a.owed = 0 \/ M = 0
  BY <1>1, <1>2, <1>3, <1>4, <1>5
<1>8. ASSUME NEW x \in 1 .. M, NEW i \in 1 .. j, Owns(InOf(movs), i, (out + d) + x)
      PROVE  a.units[x] = UnitCosts(movs)[i]
  <2>1. gone = d /\ gone + x \in 1 .. L /\ (out + d) + x = out + (gone + x)
        /\ out + (gone + x) \in Nat /\ out + (gone + x) <= in
    BY <1>1, <1>2, <1>3, <1>4, <1>5, <1>6
  <2>2. Owns(InOf(movs), i, out + (gone + x))
    BY <1>8, <2>1
  <2>3. i \in 1 .. (j - 1)
    BY <2>1, <2>2, OwnersNext DEF in
  <2>4. q.units[gone + x] = UnitCosts(movs)[i]
    BY <1>2, <2>1, <2>2, <2>3
  <2>. QED  BY <1>4, <2>4
<1>9. QueueIs(movs, j, a)
  <2>1. Len(a.units) - a.owed = Upto(InOf(movs), j) - Upto(OutOf(movs), j)
    BY <1>1, <1>6 DEF M
  <2>. QED  BY <1>1, <1>4, <1>7, <1>8, <2>1 DEF QueueIs, M
<1>. QED  BY <1>9 DEF a, d

LEMMA QueuesAre ==
  ASSUME NEW movs \in Seq(Movement)
  PROVE  \A k \in 0 .. Len(movs) : QueueIs(movs, k, Replay(movs)[k])
<1>. DEFINE n == Len(movs)
            T == {k \in Nat : k <= n => QueueIs(movs, k, Replay(movs)[k])}
<1>1. n \in Nat
  BY MovementsFinite
<1>2. /\ Replay(movs)[0] = [owed |-> 0, units |-> <<>>]
      /\ \A k \in 1 .. n : Replay(movs)[k] = Played(Replay(movs)[k - 1], movs[k])
  BY ReplayIs
<1>. HIDE DEF n
<1>3. 0 \in T
  <2>. DEFINE q == [owed |-> 0, units |-> <<>>]
  <2>1. q \in Queues /\ q.owed = 0 /\ Len(q.units) = 0
    BY EmptySeq DEF Queues
  <2>2. Upto(InOf(movs), 0) = 0 /\ Upto(OutOf(movs), 0) = 0
    BY AmountsAre, UptoNext
  <2>. HIDE DEF q
  <2>3. QueueIs(movs, 0, q)
    BY <2>1, <2>2 DEF QueueIs
  <2>. QED  BY <1>2, <2>3 DEF q
<1>4. ASSUME NEW k \in T PROVE k + 1 \in T
  <2>. SUFFICES ASSUME k + 1 <= n PROVE QueueIs(movs, k + 1, Replay(movs)[k + 1])
    OBVIOUS
  <2>. DEFINE j == k + 1
              q == Replay(movs)[k]
  <2>1. j \in 1 .. n /\ j - 1 = k /\ k <= n
    BY <1>1
  <2>2. QueueIs(movs, k, q)
    BY <2>1
  <2>3. Replay(movs)[j] = Played(Replay(movs)[j - 1], movs[j])
    BY <1>2, <2>1
  <2>. HIDE DEF j, q
  <2>4. j \in 1 .. Len(movs) /\ QueueIs(movs, j - 1, q)
    BY <2>1, <2>2 DEF n
  <2>5. CASE movs[j].qty > 0
    <3>1. QueueIs(movs, j, Arrive(q, movs[j]))
      BY <2>4, <2>5, QueueArrives
    <3>. QED  BY <2>1, <2>3, <2>5, <3>1 DEF Played, j, q
  <2>6. CASE ~(movs[j].qty > 0)
    <3>1. QueueIs(movs, j, Leave(q, 0 - movs[j].qty))
      BY <2>4, <2>6, QueueLeaves
    <3>. QED  BY <2>1, <2>3, <2>6, <3>1 DEF Played, j, q
  <2>. QED  BY <2>5, <2>6
<1>5. T = Nat
  <2>1. T \in SUBSET Nat
    OBVIOUS
  <2>. HIDE DEF T
  <2>. QED  BY <1>3, <1>4, <2>1, AllNumbers
<1>6. ASSUME NEW k \in 0 .. n PROVE QueueIs(movs, k, Replay(movs)[k])
  <2>1. k \in Nat /\ k <= n
    BY <1>1
  <2>2. k \in T
    <3>. HIDE DEF T
    <3>. QED  BY <1>5, <2>1
  <2>. QED  BY <2>1, <2>2
<1>. QED  BY <1>6 DEF n

\* Rounding to cents keeps the order.
LEMMA CentsGrow ==
  ASSUME NEW a \in Nat, NEW b \in Nat, a <= b
  PROVE  CentsOf(a) <= CentsOf(b) /\ CentsOf(a) \in Nat /\ CentsOf(b) \in Nat
<1>. DEFINE r == RoundDiv(a, 100)
            s == RoundDiv(b, 100)
<1>1. /\ r \in Int /\ 2 * (100 * r) <= 2 * a + 100
      /\ s \in Int /\ 2 * b + 100 < 2 * (100 * s) + 2 * 100
  BY RoundDivIs
<1>. HIDE DEF r, s
<1>2. r <= s
  BY <1>1
<1>. QED  BY <1>2, CentsAreNat DEF CentsOf, r, s

LEMMA BeyondGrows ==
  ASSUME NEW f, NEW g, NEW n, AreAmounts(f, n), AreAmounts(g, n), NEW cut \in Nat, NEW i \in 1 .. n,
         f[i] <= g[i], Upto(f, i - 1) <= Upto(g, i - 1)
  PROVE  Beyond(f, cut, i) <= Beyond(g, cut, i)
<1>1. /\ Upto(f, i) = Upto(f, i - 1) + f[i] /\ f[i] \in Nat
      /\ Upto(f, i) \in Nat /\ Upto(f, i - 1) \in Nat
  BY BeyondIs
<1>2. /\ Upto(g, i) = Upto(g, i - 1) + g[i] /\ g[i] \in Nat
      /\ Upto(g, i) \in Nat /\ Upto(g, i - 1) \in Nat
  BY BeyondIs
<1>. QED  BY <1>1, <1>2 DEF Beyond

AllPriced(movs) == \A i \in DOMAIN movs : movs[i].qty > 0 => IsPriced(movs[i])

\* Beyond what left, the layers have no more than the queue, and as much when
\* everything came at a cost.
LEMMA PricedBeyond ==
  ASSUME NEW movs \in Seq(Movement), NEW i \in 1 .. Len(movs), NEW cut \in Nat
  PROVE  /\ Beyond(PricedOf(movs), cut, i) <= Beyond(InOf(movs), cut, i)
         /\ AllPriced(movs) => Beyond(PricedOf(movs), cut, i) = Beyond(InOf(movs), cut, i)
<1>. DEFINE n == Len(movs)
            f == PricedOf(movs)
            g == InOf(movs)
<1>1. n \in Nat /\ DOMAIN movs = 1 .. n /\ i - 1 \in 0 .. n /\ i \in 1 .. n
  BY MovementsFinite
<1>2. AreAmounts(f, n) /\ AreAmounts(g, n) /\ f[i] <= g[i]
  BY AmountsAre
<1>3. Upto(f, i - 1) <= Upto(g, i - 1)
  BY <1>1, PricedUpto
<1>4. ASSUME AllPriced(movs) PROVE Beyond(f, cut, i) = Beyond(g, cut, i)
  <2>1. \A j \in 1 .. n : f[j] = g[j]
    BY <1>1, <1>4 DEF AllPriced, PricedOf, InOf, IsPriced
  <2>. HIDE DEF f, g
  <2>2. ASSUME NEW k \in 0 .. n PROVE Upto(f, k) = Upto(g, k)
    <3>. DEFINE S == 1 .. k
    <3>1. IsFiniteSet(S) /\ \A x \in S : f[x] = g[x]
      BY <1>1, <2>1, FS_Interval
    <3>. HIDE DEF S
    <3>2. SumFunctionOnSet(f, S) = SumFunctionOnSet(g, S)
      BY <3>1, SumSame
    <3>. QED  BY <3>2 DEF Upto, S
  <2>3. i \in 0 .. n
    BY <1>1
  <2>4. Upto(f, i) = Upto(g, i) /\ Upto(f, i - 1) = Upto(g, i - 1) /\ f[i] = g[i]
    BY <1>1, <2>1, <2>2, <2>3
  <2>. QED  BY Zenon, <2>4 DEF Beyond
<1>. HIDE DEF n, f, g
<1>5. Beyond(f, cut, i) <= Beyond(g, cut, i)
  BY <1>1, <1>2, <1>3, BeyondGrows
<1>. QED  BY <1>4, <1>5 DEF f, g

\* The units left in the queue are worth what each movement has in it.
LEMMA ReplayCost ==
  ASSUME NEW movs \in Seq(Movement), Qty(movs) > 0,
         NEW g, \A i \in 1 .. Len(movs) :
                   g[i] = UnitCosts(movs)[i] * Beyond(InOf(movs), Outbound(movs), i)
  PROVE  SumFunction(Replay(movs)[Len(movs)].units) = Upto(g, Len(movs))
<1>. DEFINE n == Len(movs)
            u == Replay(movs)[n].units
            owed == Replay(movs)[n].owed
            f == InOf(movs)
            cut == Outbound(movs)
            c == UnitCosts(movs)
            L == Upto(f, n) - cut
<1>1. n \in Nat /\ n \in 0 .. n
  BY MovementsFinite
<1>2. /\ Qty(movs) = L /\ Upto(f, n) \in Nat /\ cut \in Nat /\ cut = Upto(OutOf(movs), n)
  BY QtyIsDifference, OutboundIs
<1>3. QueueIs(movs, n, Replay(movs)[n])
  BY <1>1, QueuesAre
<1>4. /\ owed \in Nat /\ u \in Seq(Nat) /\ Len(u) - owed = L /\ (owed = 0 \/ Len(u) = 0)
      /\ \A x \in 1 .. Len(u), i \in 1 .. n : Owns(f, i, cut + x) => u[x] = c[i]
  BY <1>2, <1>3 DEF QueueIs, Queues
<1>5. Len(u) \in Nat /\ DOMAIN u = 1 .. Len(u) /\ \A x \in 1 .. Len(u) : u[x] \in Nat
  BY <1>4, LenProperties
<1>6. L > 0
  BY <1>2
<1>7. AreAmounts(f, n) /\ AreAmounts(c, n) /\ \A i \in 1 .. n : g[i] = c[i] * Beyond(f, cut, i)
  BY AmountsAre
<1>8. SumFunction(u) = SumFunctionOnSet(u, DOMAIN u)
  BY DEF SumFunction
<1>. HIDE DEF n, u, owed, f, cut, c
<1>9. L \in Nat /\ Len(u) = L /\ cut <= Upto(f, n)
  BY <1>2, <1>4, <1>5, <1>6
<1>10. AreAmounts(u, L)
  BY <1>5, <1>9 DEF AreAmounts
<1>11. PricedBy(u, f, n, cut, c)
  BY <1>4, <1>9 DEF PricedBy, Owns
<1>12. Upto(u, L) = Upto(g, n)
  BY <1>2, <1>7, <1>9, <1>10, <1>11, SumBeyond
<1>13. SumFunction(u) = SumFunctionOnSet(u, 1 .. L)
  BY Zenon, <1>5, <1>8, <1>9
<1>. QED  BY <1>12, <1>13 DEF Upto, n, u

LEMMA UnitsAreNat ==
  ASSUME NEW movs \in Seq(Movement)
  PROVE  /\ SumFunction(Replay(movs)[Len(movs)].units) \in Nat
         /\ Qty(movs) <= 0 /\ AllPriced(movs)
              => SumFunction(Replay(movs)[Len(movs)].units) = 0
<1>. DEFINE n == Len(movs)
            u == Replay(movs)[n].units
            owed == Replay(movs)[n].owed
            D == DOMAIN u
<1>1. n \in 0 .. n
  BY MovementsFinite
<1>2. QueueIs(movs, n, Replay(movs)[n])
  BY <1>1, QueuesAre
<1>3. /\ owed \in Nat /\ u \in Seq(Nat) /\ (owed = 0 \/ Len(u) = 0)
      /\ Len(u) - owed = Upto(InOf(movs), n) - Upto(OutOf(movs), n)
  BY <1>2 DEF QueueIs, Queues
<1>4. Len(u) - owed = Qty(movs) /\ Qty(movs) \in Int
  BY <1>3, QtyIsDifference
<1>5. Len(u) \in Nat /\ D = 1 .. Len(u) /\ \A x \in 1 .. Len(u) : u[x] \in Nat
  BY <1>3, LenProperties
<1>6. SumFunction(u) = SumFunctionOnSet(u, D)
  BY DEF SumFunction
<1>. HIDE DEF u, owed, D
<1>7. IsFiniteSet(D)
  BY <1>5, FS_Interval
<1>8. SumFunction(u) \in Nat
  BY <1>5, <1>6, <1>7, SumNat
<1>9. ASSUME Qty(movs) <= 0 PROVE SumFunction(u) = 0
  <2>1. Len(u) = 0
    BY <1>3, <1>4, <1>5, <1>9
  <2>2. D = {}
    BY <1>5, <2>1
  <2>. QED  BY <1>6, <2>2, SumEmpty
<1>. QED  BY <1>8, <1>9 DEF u, n

LEMMA FifoMatches ==
  ASSUME NEW movs \in Seq(Movement)
  PROVE  LET fifo == Value(movs, FIFO)
             replay == CentsOf(SumFunction(Replay(movs)[Len(movs)].units))
         IN  fifo <= replay /\ (AllPriced(movs) => fifo = replay)
<1>. DEFINE fifo == Value(movs, FIFO)
            worth == SumFunction(Replay(movs)[Len(movs)].units)
            n == Len(movs)
            S == 1 .. n
<1>1. worth \in Nat /\ (Qty(movs) <= 0 /\ AllPriced(movs) => worth = 0) /\ Qty(movs) \in Int
  BY UnitsAreNat, QtyIsInt
<1>2. CASE Qty(movs) <= 0
  <2>1. fifo = 0
    BY <1>2 DEF Value
  <2>2. CentsOf(worth) \in Nat
    BY <1>1, CentsAreNat
  <2>3. CentsOf(0) = 0
    BY DEF CentsOf, RoundDiv
  <2>. HIDE DEF fifo, worth
  <2>4. fifo <= CentsOf(worth) /\ (AllPriced(movs) => fifo = CentsOf(worth))
    BY <1>1, <1>2, <2>1, <2>2, <2>3
  <2>. QED  BY <2>4 DEF fifo, worth
<1>3. CASE Qty(movs) > 0
  <2>. DEFINE c == UnitCosts(movs)
              lo(i) == Beyond(PricedOf(movs), Outbound(movs), i)
              hi(i) == Beyond(InOf(movs), Outbound(movs), i)
              h == [i \in S |-> c[i] * lo(i)]
              g == [i \in S |-> c[i] * hi(i)]
  <2>1. n \in Nat /\ Outbound(movs) \in Nat
    BY MovementsFinite, OutboundIsNat
  <2>2. fifo = CentsOf(Upto(h, n))
    <3>1. \A i \in 1 .. Len(movs) :
             h[i] = UnitCosts(movs)[i] * Beyond(PricedOf(movs), Outbound(movs), i)
      OBVIOUS
    <3>. HIDE DEF h
    <3>. QED  BY <1>3, <3>1, FifoCost
  <2>3. worth = Upto(g, n)
    <3>1. \A i \in 1 .. Len(movs) :
             g[i] = UnitCosts(movs)[i] * Beyond(InOf(movs), Outbound(movs), i)
      OBVIOUS
    <3>. HIDE DEF g
    <3>. QED  BY <1>3, <3>1, ReplayCost
  <2>4. \A i \in S : /\ c[i] \in Nat /\ lo(i) \in Nat /\ hi(i) \in Nat /\ lo(i) <= hi(i)
                     /\ AllPriced(movs) => lo(i) = hi(i)
    <3>1. \A i \in S : c[i] \in Nat
      BY AmountsAre DEF AreAmounts
    <3>2. \A i \in S : lo(i) \in Nat /\ hi(i) \in Nat
      BY <2>1, AmountsAre, BeyondIs
    <3>3. \A i \in S : lo(i) <= hi(i) /\ (AllPriced(movs) => lo(i) = hi(i))
      BY <2>1, PricedBeyond
    <3>. QED  BY <3>1, <3>2, <3>3
  <2>5. \A i \in S : h[i] = c[i] * lo(i) /\ g[i] = c[i] * hi(i)
    OBVIOUS
  <2>6. IsFiniteSet(S)
    BY <2>1, FS_Interval
  <2>7. Upto(h, n) = SumFunctionOnSet(h, S) /\ Upto(g, n) = SumFunctionOnSet(g, S)
    BY DEF Upto
  <2>. HIDE DEF c, lo, hi, h, g, S, fifo, worth
  <2>8. \A i \in S : h[i] \in Int /\ g[i] \in Int /\ h[i] <= g[i] /\ h[i] \in Nat
    <3>1. \A a, b \in Nat : a * b \in Nat
      OBVIOUS
    <3>. QED  BY <2>4, <2>5, <3>1, TimesGrows
  <2>9. SumFunctionOnSet(h, S) <= SumFunctionOnSet(g, S)
    BY <2>6, <2>8, SumGrows
  <2>10. SumFunctionOnSet(h, S) \in Nat
    BY <2>6, <2>8, SumNat
  <2>11. fifo <= CentsOf(worth)
    BY <1>1, <2>2, <2>3, <2>7, <2>9, <2>10, CentsGrow
  <2>12. ASSUME AllPriced(movs) PROVE fifo = CentsOf(worth)
    <3>1. \A i \in S : h[i] = g[i]
      BY <2>4, <2>5, <2>12
    <3>2. SumFunctionOnSet(h, S) = SumFunctionOnSet(g, S)
      BY <2>6, <3>1, SumSame
    <3>. QED  BY <2>2, <2>3, <2>7, <3>2
  <2>. QED  BY <2>11, <2>12 DEF fifo, worth
<1>. QED  BY <1>1, <1>2, <1>3

\* fifoValuation adds up all that left before it looks at a layer.  On a ledger
\* whose units all came at a cost it values the stock as playing the ledger
\* movement by movement through a queue of units does, dips below zero included;
\* and it never values the stock higher.
THEOREM FifoIsTheQueue == Spec => []FifoIsReplay
<1>1. ValuationInv => FifoIsReplay
  <2>. SUFFICES ASSUME InLedger, NEW p \in Pairs
                PROVE  LET fifo == Value(ledger[p], FIFO)
                           replay == CentsOf(SumFunction(Replay(ledger[p])[Len(ledger[p])].units))
                       IN  fifo <= replay /\ (AllPriced(ledger[p]) => fifo = replay)
    BY DEF ValuationInv, FifoIsReplay, AllPriced
  <2>1. ledger[p] \in Seq(Movement)
    BY DEF InLedger
  <2>. QED  BY <2>1, FifoMatches
<1>. QED  BY <1>1, AlwaysInv, PTL
=============================================================================
