----------------------------- MODULE Valuation -----------------------------
(***************************************************************************)
(* Stock valuation (src/modules/reports/valuation.service.ts): the two     *)
(* pure methods over the ledger of one variant in one warehouse, and the   *)
(* report that values every pair with stock, one query after the other,    *)
(* while movements are written.  Beside it the movement summary of         *)
(* reports.service.ts, which asks for totals by type and for the rows they *)
(* are of, by one filter, in two queries at once.                          *)
(*                                                                         *)
(* Money is an integer: unit costs in 1/10000 (Decimal(14,4)), values in   *)
(* cents, and a division rounds half up like Decimal.toDecimalPlaces.      *)
(* createdAt is a logical instant: the n-th row of the table has instant n,*)
(* so the two rows of a transfer have instants that follow each other.     *)
(***************************************************************************)
EXTENDS Integers, Sequences, FiniteSets, Functions

CONSTANTS
    Variants, Warehouses,
    FIFO, Average,  \* ValuationMethod: FIFO and WEIGHTED_AVERAGE
    MethodOf,       \* Product.valuationMethod of each variant
    CategoryOf,     \* the category of each variant's product
    Quantities,     \* quantities of receipts, dispatches and transfers
    Costs,          \* unit costs of priced receipts
    Unpriced,       \* unitCost null
    Deltas,         \* signed quantities of adjustments
    ReportQueries,  \* what valuation reports are asked for
    SummaryQueries, \* what movement summaries are asked for
    Open,           \* no last day
    MaxMovements    \* bound: rows of the ledger, one more after a transfer

Methods == {FIFO, Average}

\* A table has finitely many rows.
ASSUME TablesAreFinite == IsFiniteSet(Variants) /\ IsFiniteSet(Warehouses)
ASSUME MethodsAreTwo == FIFO # Average /\ MethodOf \in [Variants -> Methods]
ASSUME CostsAreNat == Costs \subseteq Nat /\ Unpriced \notin Costs
ASSUME AmountsAreNonZero == Quantities \subseteq Nat \ {0} /\ Deltas \subseteq Int \ {0}

Pairs == Variants \X Warehouses
Types == {"RECEIVE", "DISPATCH", "ADJUSTMENT", "TRANSFER_OUT", "TRANSFER_IN"}
Categories == {CategoryOf[v] : v \in Variants}

\* report-query.dto.ts.  A filter that is not given lets everything through: all
\* warehouses, categories, variants or types, from instant 0 and with no end.
OneOrAll(S) == {S} \cup {{x} : x \in S}
ASSUME ReportsAreAsked ==
    ReportQueries \subseteq
        [scope : OneOrAll(Warehouses), categories : OneOrAll(Categories),
         methods : {MethodOf} \cup {[v \in Variants |-> m] : m \in Methods}]
ASSUME SummariesAreAsked ==
    /\ Open \notin Nat
    /\ SummaryQueries \subseteq
          [scope : OneOrAll(Warehouses), variants : OneOrAll(Variants),
           types : OneOrAll(Types), from : Nat, to : Nat \cup {Open}]

VARIABLES
    ledger,     \* the movements of each pair, by createdAt
    report,     \* the report being built, or one that was just finished
    disturbed   \* ghost: the ledger changed since the report began

vars == <<ledger, report, disturbed>>

Movement == [type : Types, qty : Int, cost : Costs \cup {Unpriced}, at : Nat]

-----------------------------------------------------------------------------
(* The two methods.                                                        *)

RoundDiv(n, d) == (2 * n + d) \div (2 * d)
CentsOf(n) == RoundDiv(n, 100)
Smaller(m, n) == IF m < n THEN m ELSE n
Qty(movs) == SumFunction([i \in DOMAIN movs |-> movs[i].qty])
CostOf(movs) == SumFunction([i \in DOMAIN movs |-> movs[i].cost * movs[i].qty])

IsPriced(m) == m.qty > 0 /\ m.cost # Unpriced
\* The cost layers, each at its place among the movements.
Layers(movs) == RestrictValues(movs, IsPriced)

\* mutant: units received without a cost share the cost of the others
AverageOverAll(movs) ==
    LET in == RestrictValues(movs, LAMBDA m : m.qty > 0)
    IN  IF DOMAIN Layers(movs) = {} THEN 0 ELSE RoundDiv(CostOf(Layers(movs)), Qty(in))

\* mutant: the average rounded like money, to two places
AverageInCents(movs) ==
    LET in == Layers(movs)
    IN  IF DOMAIN in = {} THEN 0 ELSE 100 * RoundDiv(CostOf(in), 100 * Qty(in))

\* weightedAverageCost: over everything ever received at a cost.
AverageCost(movs) ==
    LET in == Layers(movs)
    IN  IF DOMAIN in = {} THEN 0 ELSE RoundDiv(CostOf(in), Qty(in))

\* What remains of n units to take when the layers up to place k have given.
Remaining(layers, n) ==
    LET left[k \in Nat] ==
            IF k = 0 THEN n
            ELSE IF k \notin DOMAIN layers THEN left[k - 1]
            ELSE left[k - 1] - Smaller(layers[k].qty, left[k - 1])
    IN  left

\* What each layer gives when n units are taken from the oldest on.
TakeOldest(layers, n) ==
    [k \in DOMAIN layers |-> Smaller(layers[k].qty, Remaining(layers, n)[k - 1])]

Outbound(movs) == 0 - Qty(RestrictValues(movs, LAMBDA m : m.qty < 0))

\* mutant: the units on hand are the oldest bought, outbound consumes no layer
SurvivingAll(movs) == Layers(movs)

\* The cost layers that outbound units have left.
Surviving(movs) ==
    LET layers == Layers(movs)
        gone == TakeOldest(layers, Outbound(movs))
    IN  [i \in DOMAIN layers |-> [layers[i] EXCEPT !.qty = @ - gone[i]]]

\* fifoValuation: the units on hand against the oldest surviving layers.
FifoValue(movs, onHand) ==
    LET layers == Surviving(movs)
        used == TakeOldest(layers, IF onHand > 0 THEN onHand ELSE 0)
    IN  CentsOf(CostOf([i \in DOMAIN layers |-> [layers[i] EXCEPT !.qty = used[i]]]))

\* computeVariantValuation
Value(movs, method) ==
    LET onHand == Qty(movs)
    IN  IF onHand <= 0 THEN 0
        ELSE IF method = FIFO THEN FifoValue(movs, onHand)
        ELSE CentsOf(AverageCost(movs) * onHand)

-----------------------------------------------------------------------------
(* The ledger.  Only receipts carry a cost.                                *)

NoReport == [phase |-> "none"]

Init ==
    /\ ledger = [p \in Pairs |-> <<>>]
    /\ report = NoReport
    /\ disturbed = FALSE

NumRows(l) == SumFunction([p \in Pairs |-> Len(l[p])])
Bounded == NumRows(ledger) < MaxMovements

Post(l, p, type, qty, cost) ==
    [l EXCEPT ![p] = Append(@, [type |-> type, qty |-> qty, cost |-> cost,
                                at |-> NumRows(l) + 1])]

Write(newLedger) ==
    /\ ledger' = newLedger
    /\ disturbed' = (report.phase # "none")
    /\ UNCHANGED report

Receive(p, q, c) == Write(Post(ledger, p, "RECEIVE", q, c))

Dispatch(p, q) ==
    /\ Qty(ledger[p]) >= q
    /\ Write(Post(ledger, p, "DISPATCH", 0 - q, Unpriced))

\* A correction may take a pair below zero.
Adjust(p, d) == Write(Post(ledger, p, "ADJUSTMENT", d, Unpriced))

Transfer(p, w, q) ==
    /\ w # p[2]
    /\ Qty(ledger[p]) >= q
    /\ LET out == Post(ledger, p, "TRANSFER_OUT", 0 - q, Unpriced)
       IN  Write(Post(out, <<p[1], w>>, "TRANSFER_IN", q, Unpriced))

-----------------------------------------------------------------------------
(* stockValuationReport: the pairs with stock, then a query per pair.      *)

Scoped(query) ==
    {p \in Variants \X query.scope : CategoryOf[p[1]] \in query.categories}

\* For warehouses and categories, by one method or by each product's.
StartReport(query) ==
    /\ report.phase = "none"
    /\ report' = [phase |-> "valuing", query |-> query, rows |-> {},
                  todo |-> {p \in Scoped(query) : Qty(ledger[p]) > 0}]
    /\ disturbed' = FALSE
    /\ UNCHANGED ledger

\* mutant: one method for all products
RowByOneMethod(p) ==
    [of |-> p, qty |-> Qty(ledger[p]), value |-> Value(ledger[p], FIFO)]

RowOf(p) ==
    [of |-> p, qty |-> Qty(ledger[p]),
     value |-> Value(ledger[p], report.query.methods[p[1]])]

\* mutant: the stock seen by the grouping taken for granted
RowsWithEmpty(p) == report.rows \cup {RowOf(p)}

\* A pair emptied since the grouping has no row.
RowsWith(p) == report.rows \cup {r \in {RowOf(p)} : r.qty > 0}

ValuePair(p) ==
    /\ report.phase = "valuing"
    /\ p \in report.todo
    /\ report' = [report EXCEPT !.todo = @ \ {p}, !.rows = RowsWith(p)]
    /\ UNCHANGED <<ledger, disturbed>>

Total(rows) ==
    [qty |-> SumFunction([r \in rows |-> r.qty]),
     value |-> SumFunction([r \in rows |-> r.value])]

\* groupRows: subtotals by warehouse or category
Subtotals(rows, keyOf) ==
    [k \in {keyOf[r.of] : r \in rows} |-> Total({r \in rows : keyOf[r.of] = k})]

FinishReport ==
    /\ report.phase = "valuing"
    /\ report.todo = {}
    /\ report' = [phase |-> "done", query |-> report.query,
                  rows |-> report.rows, grandTotal |-> Total(report.rows),
                  byWarehouse |-> Subtotals(report.rows, [p \in Pairs |-> p[2]]),
                  byCategory |-> Subtotals(report.rows, [p \in Pairs |-> CategoryOf[p[1]]])]
    /\ UNCHANGED <<ledger, disturbed>>

-----------------------------------------------------------------------------
(* movementSummary: two queries by one filter, started together and seen   *)
(* in either order.                                                        *)

InWindow(query, at) == at >= query.from /\ (query.to # Open => at <= query.to)

\* The rows of the table, each known by its pair and its place there.  No row is
\* ever changed.
Rows == UNION {{p} \X DOMAIN ledger[p] : p \in Pairs}
RowAt(x) == ledger[x[1]][x[2]]

\* where: warehouseId, variantId, type, createdAt gte and lte
Wanted(query, x) ==
    /\ x[1] \in query.variants \X query.scope
    /\ RowAt(x).type \in query.types
    /\ InWindow(query, RowAt(x).at)

Listed(query) == {x \in Rows : Wanted(query, x)}
OfType(R, t) == {x \in R : RowAt(x).type = t}
Units(R) == SumFunction([x \in R |-> RowAt(x).qty])

\* mutant: units moved, whichever way
ByTypeUnsigned(R) ==
    [t \in Types |->
        [qty |-> Units({x \in OfType(R, t) : RowAt(x).qty > 0})
                 - Units({x \in OfType(R, t) : RowAt(x).qty < 0}),
         count |-> Cardinality(OfType(R, t))]]

\* groupBy type: sum and count of rows; the answer leaves out types with none.
ByType(R) ==
    [t \in Types |-> [qty |-> Units(OfType(R, t)), count |-> Cardinality(OfType(R, t))]]

\* What either query finds now; one of them is answered now.
StartSummary(query) ==
    /\ report.phase = "none"
    /\ report' = [phase |-> "summing", query |-> query, seen |-> Listed(query)]
    /\ disturbed' = FALSE
    /\ UNCHANGED ledger

\* The other query is answered, and first tells which one that was not.
FinishSummary(first) ==
    /\ report.phase = "summing"
    /\ LET late == Listed(report.query)
           lines == ByType(IF first = "byType" THEN report.seen ELSE late)
       IN  report' = [phase |-> "summary", query |-> report.query,
                      byType |-> lines,
                      totals |-> [qty |-> SumFunction([t \in Types |-> lines[t].qty]),
                                  count |-> SumFunction([t \in Types |-> lines[t].count])],
                      movements |-> IF first = "byType" THEN late ELSE report.seen]
    /\ UNCHANGED <<ledger, disturbed>>

-----------------------------------------------------------------------------
\* The answer is complete, and what is written from now on is not in it.
Answered == report.phase \in {"done", "summary"}

Deliver ==
    /\ Answered
    /\ report' = NoReport
    /\ disturbed' = FALSE
    /\ UNCHANGED ledger

Next ==
    \/ Bounded /\ ~Answered /\ \E p \in Pairs :
          \/ \E q \in Quantities, c \in Costs \cup {Unpriced} : Receive(p, q, c)
          \/ \E q \in Quantities : Dispatch(p, q)
          \/ \E d \in Deltas : Adjust(p, d)
          \/ \E w \in Warehouses, q \in Quantities : Transfer(p, w, q)
    \/ \E p \in Pairs : ValuePair(p)
    \/ \E query \in ReportQueries : StartReport(query)
    \/ \E query \in SummaryQueries : StartSummary(query)
    \/ FinishReport
    \/ \E first \in {"byType", "movements"} : FinishSummary(first)
    \/ Deliver

Spec == Init /\ [][Next]_vars

-----------------------------------------------------------------------------
(* Properties.                                                             *)

ReportRow == [of : Pairs, qty : Nat \ {0}, value : Nat]

\* Rows of a report are of pairs with stock, one each, whatever is written
\* between the grouping and the query of the pair.
ValuationTypeOK ==
    /\ \A p \in Pairs : ledger[p] \in Seq(Movement)
    /\ disturbed \in BOOLEAN
    /\ report.phase \in {"none", "valuing", "done", "summing", "summary"}
    /\ report.phase \in {"valuing", "done"} =>
          /\ report.rows \subseteq ReportRow
          /\ \A r, s \in report.rows : r.of = s.of => r = s

\* The reference for FIFO: a queue with the cost of every single unit.  Units
\* that leave an empty queue are owed, and taken from what arrives next.
Arrive(q, m) ==
    LET paid == Smaller(q.owed, m.qty)
        cost == IF m.cost = Unpriced THEN 0 ELSE m.cost
    IN  [owed |-> q.owed - paid,
         units |-> q.units \o [i \in 1..(m.qty - paid) |-> cost]]

Leave(q, n) ==
    LET out == Smaller(Len(q.units), n)
    IN  [owed |-> q.owed + n - out,
         units |-> SubSeq(q.units, out + 1, Len(q.units))]

\* The queue after each movement.
Replay(movs) ==
    LET queue[k \in 0 .. Len(movs)] ==
            IF k = 0 THEN [owed |-> 0, units |-> <<>>]
            ELSE IF movs[k].qty > 0 THEN Arrive(queue[k - 1], movs[k])
            ELSE Leave(queue[k - 1], 0 - movs[k].qty)
    IN  queue

\* README "Stock valuation": outbound consumes the oldest layers and the stock on
\* hand is valued against the rest.  fifoValuation sums all outbound first; on a
\* ledger whose units all came at a cost that equals playing it movement by
\* movement, dips below zero included, and otherwise it never values the stock
\* higher.
FifoIsReplay ==
    \A p \in Pairs :
        LET fifo == Value(ledger[p], FIFO)
            replay == CentsOf(SumFunction(Replay(ledger[p])[Len(ledger[p])].units))
            allPriced == \A i \in DOMAIN ledger[p] :
                            ledger[p][i].qty > 0 => IsPriced(ledger[p][i])
        IN  fifo <= replay /\ (allPriced => fifo = replay)

\* Rounding and unpriced receipts never take an average outside the costs paid.
AverageWithinCosts ==
    \A p \in Pairs :
        LET in == Layers(ledger[p])
            average == AverageCost(ledger[p])
        IN  DOMAIN in # {} => \E i, j \in DOMAIN in :
                            in[i].cost <= average /\ average <= in[j].cost

\* A weighted average is rounded twice, the average to 1/10000 and the value to a
\* cent: together they cost at most half a cent and 1/20000 per unit on hand.
RoundingBounded ==
    \A p \in Pairs :
        LET in == Layers(ledger[p])
            onHand == Qty(ledger[p])
            off == 200 * Qty(in) * Value(ledger[p], Average)
                     - 2 * onHand * CostOf(in)
            most == Qty(in) * (100 + onHand)
        IN  onHand > 0 => off \in (0 - most)..most

\* When nothing was written while it was built, a report is a snapshot: total
\* and subtotals are the stock and the values of the pairs in its scope.
ReportIsLedgerAtRest ==
    (report.phase = "done" /\ ~disturbed) =>
        LET stock(P) ==
                LET in == {p \in P : Qty(ledger[p]) > 0}
                IN  [qty |-> SumFunction([p \in in |-> Qty(ledger[p])]),
                     value |-> SumFunction([p \in in |->
                                  Value(ledger[p], report.query.methods[p[1]])])]
            scoped == Scoped(report.query)
        IN  /\ report.grandTotal = stock(scoped)
            /\ \A w \in DOMAIN report.byWarehouse :
                  report.byWarehouse[w] = stock(scoped \cap (Variants \X {w}))
            /\ \A c \in DOMAIN report.byCategory :
                  report.byCategory[c] = stock({p \in scoped : CategoryOf[p[1]] = c})

\* A filter by type, warehouse or date may show one row of a transfer and not
\* the other: the dates only when they fall between the two.
KeepsTransfersWhole(query) ==
    /\ query.scope = Warehouses /\ query.types = Types
    /\ \A x \in OfType(Rows, "TRANSFER_OUT") :
          InWindow(query, RowAt(x).at) <=> InWindow(query, RowAt(x).at + 1)

\* movementSummary asks for the totals by type and for the rows in two queries,
\* and rows may be written between them.
\*   - The two rows of a transfer are written in one transaction: where the filter
\*     does not part them, neither answer has one without the other.
\*   - Rows written in between are in one answer only: never does each of the two
\*     miss rows of the other.
\*   - When nothing is written the totals are those of the rows listed, and without
\*     a filter by type or date they are the stock of the pairs asked for.
SummaryAddsUp ==
    report.phase = "summary" =>
        LET query == report.query
            listed == ByType(report.movements)
        IN  /\ KeepsTransfersWhole(query) =>
                  \A lines \in {report.byType, listed} :
                      /\ lines["TRANSFER_OUT"].qty + lines["TRANSFER_IN"].qty = 0
                      /\ lines["TRANSFER_OUT"].count = lines["TRANSFER_IN"].count
            /\ \/ \A t \in Types : report.byType[t].count <= listed[t].count
               \/ \A t \in Types : listed[t].count <= report.byType[t].count
            /\ ~disturbed =>
                  /\ report.totals = [qty |-> Units(report.movements),
                                      count |-> Cardinality(report.movements)]
                  /\ (query.types = Types /\ query.from = 0 /\ query.to = Open) =>
                        report.totals.qty = SumFunction(
                            [p \in query.variants \X query.scope |-> Qty(ledger[p])])
=============================================================================
