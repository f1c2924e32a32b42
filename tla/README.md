# A TLA+ model of the inventory API

This directory holds a formal model of the inventory backend in `src/`: NestJS
services over PostgreSQL (through Prisma), a BullMQ worker over Redis, and a
Socket.IO gateway. TLC checks the models on small instances; TLAPS proves for
instances of any size what those runs check, liveness excepted.

The service is a set of request handlers over one database. Its hard part is not
any one handler, each of which is a screenful of code with unit tests, but two
handlers at once: which reads happen outside a transaction, which transactions
are serializable, and which writes go by id to a row that has changed since it
was read. That is what is modelled.

## 1. Inventory

| component | state it keeps | operations | talks to |
| --- | --- | --- | --- |
| **Stock gateway** `modules/stock` | the ledger `StockMovement` (signed quantities; stock is their sum), `Reservation`, `Batch.quantityRemaining` and `expiryDate` | receive, dispatch (plain or FEFO), transfer, adjust, reserve, release, fulfil; stock levels, movement history | reads `StockTake` rows as a lock; purchase orders and stock takes write through `recordMovementRaw` |
| **Stock takes** `modules/stock-takes` | `StockTake`, `StockTakeItem` | create, recordCounts, complete, cancel | locks a warehouse of the gateway; posts ADJUSTMENT movements |
| **Purchase orders** `modules/purchase-orders` | `PurchaseOrder`, `POItem` | create, update, submit, receive, close, cancel | posts RECEIVE movements |
| **Alerts, queue, worker** `modules/alerts`, `queue`, `worker.ts` | `Alert`; repeatable jobs in Redis; connected sockets | low-stock scan, expiry scan (cron and on demand), acknowledge, resolve, push | reads stock levels and batches |
| **Reports** `modules/reports` | none | valuation by weighted average or FIFO, movement summary; reorder and expiry reports, xlsx | reads the ledger, a query per pair |
| **Suppliers** `modules/suppliers` | `Supplier` | create, update, soft delete, delivery record | reads purchase orders |
| **Catalogue** `modules/products` | the parent graph of `Category`, `Product`, variants | categories: create, update, remove, forest; products: create, update, soft delete, paged list; variants | helpers for pages and SKUs |
| Batches, warehouses | their rows (batches: none of their own) | three queries; single-row writes | reads what the gateway writes; referenced by all |
| Helpers, HTTP shell, configuration, clients | none | SKUs, PO numbers, cursor pages, error and response envelopes | |

What makes the ones in bold correct, and what makes that hard:

- **Stock gateway.** No interleaving sells a unit twice; a batch is never drawn
  below zero; a reservation becomes one dispatch and stops holding units once.
  *Hard:* dispatch, transfer and reserve are `Serializable`, all else is READ COMMITTED
  and invisible to that check; release and fulfil write by id after a status check.
- **Stock takes.** Counts are taken against a frozen picture; completing a take
  posts its differences, once, all or none; one open take per warehouse. *Hard:*
  all four handlers read outside the transaction in which they write, and the lock
  is only as good as the requests that look at it.
- **Purchase orders.** The status follows a lifecycle and ended orders stay ended;
  what an order says it received is in stock; the total is the total of its lines.
  *Hard:* the same read-then-write, with absolute writes of counters.
- **Alerts.** One ACTIVE alert per subject; alerts are resolved when, and only
  when, stock recovers; every alert is pushed. *Hard:* scans run in no transaction,
  in two processes, and may fail half way.
- **Reports.** FIFO is what selling the oldest units first would leave; averages and
  rounding stay in bounds; the totals add up; a transfer shows whole or not at all,
  unless a filter parts its rows. *Hard:* receipts without a cost, stock that dips
  below zero, and reports that read query after query while the ledger grows.
- **Suppliers.** The delivery record counts the orders that were really received,
  and the late ones as late. *Hard:* it is read off a column that every completing
  delivery overwrites and every way of ending an order leaves alone.
- **Catalogue.** A deletion hides nothing but the row deleted; paging through
  products shows each once. *Hard:* any parent but the category itself is accepted;
  a list changes while a client pages through it, and pages start from a row.

`PROJECT.json` lists every hazard at its line with the properties aimed at it.

## 2. Modules

```
StockPromise (abstract)                     OrderLifecycle (abstract)
     ▲ refinement                                  ▲ refinement
StockService ────── StockTakes              PurchaseOrders ─── SupplierPerformance
     │                   │                         │                    │
StockServiceProofs ─ StockTakesProofs       PurchaseOrderProofs ─ SupplierProofs

Alerts ─── AlertProofs     Catalog ─── CatalogProofs     Valuation ─── ValuationProofs

DataLemmas ─── StockServiceProofs, PurchaseOrderProofs, CatalogProofs, ValuationProofs
```

A line is an `EXTENDS`. `MC<Module>` holds model-checking definitions (symmetry sets,
sample queries) and nothing else. Operators commented `mutant` are defective variants
of the definition below them; the specification never uses them. They document which
mistake each property would catch.

### StockService

The gateway. `physical[p]` is the sum of the movements of a (variant, warehouse)
pair `p`, which is all the gateway ever reads of them (`physicalStock`). Reservations
are rows, `rsv`, and `reservedStock(p)` adds up the ACTIVE ones at every read, as the
code's `aggregate` does; no sum of them is kept. `remaining` and `expiry` are columns
of a `Batch`; `takes` are stock-take rows, only read here. `txn[c]` is what request `c`
has read.

| code | actions |
| --- | --- |
| `receive` | `BeginReceive` (lock check), `CommitReceive` (batch upsert, movement, increment) |
| `dispatch`, `dispatchFefo` | `BeginDispatch`, `BeginDispatchFefo`, `CommitDispatch` |
| `transfer`, `reserve` | `BeginTransfer`/`CommitTransfer`, `BeginReserve`/`CommitReserve` |
| `releaseReservation` | `BeginClosing`, `CommitRelease` |
| `fulfillReservation` | `BeginClosing` (status), `FulfillCheckLock` (stock-take lock), `CommitFulfill` |
| `adjust`, PO receipt line | `Adjust`, `ReceivePurchase` (one step: nothing they read decides) |
| failure of any request | `Abort` |

*Isolation.* A serializable transaction decides on the snapshot of its Begin step.
PostgreSQL's serializable snapshot isolation fails one of two concurrent
transactions that each read what the other writes; the reads are the sums of the
source pair, the writes are rows of the source and, for a transfer, of the
destination. So `CommitSerializable` marks every open transaction in such a
conflict `doomed`: it can only `Abort`. PostgreSQL may abort more than that
(granularity of predicate locks, three-transaction structures), which `Abort`, free
to happen at any time, covers. Handlers at READ COMMITTED take no part in it.
A FEFO dispatch also updates `Batch` rows, and fails when a receipt updated one of
them after its snapshot (`TouchLot`). No failed transaction is retried.

*Quantities* are small positive integers (the DTOs require `@IsInt @IsPositive`).
`MaxStock` caps what requests may build up and `MaxUnchecked` what corrections may
remove. `unchecked[p]` is a ghost: the units that left `p` with no availability
check, by a negative adjustment, a negative stock-take difference or a fulfilment
of a reservation that was no longer ACTIVE. An open transaction remembers what its
source had lost so when it looked (`lostBefore`, a ghost too).

### StockPromise

The abstract specification of the gateway. A request looks at the stock once and is
let in only if what it asks for is available then (`Look`, the check of
`dto.quantity > available`). Later it commits, at one instant, or fails (`Fail`).
`Commit` is the promise: the units that leave a pair (`Take`, `Shift`) or are put aside
(`Hold`) are available at the commit too, whatever else has committed since the look,
except that what the pair has lost with no check *since this request looked*
(`seen[c].lost`) may be missing. That exception is what the code does: corrections and
late fulfilments run at READ COMMITTED and fail nobody. What was lost earlier is in
the sum the request looked at, and gives no slack. `Close` ends a reservation, once;
`Put` and `Lose` are unchecked arrivals and losses.

StockService implements it (`ImplementsPromise`) with `physical`, `Claims`, the
reservation rows up to the way they ended, and `Seen`, the open transactions that are
not doomed. A Begin step is a `Look`, dooming another transaction is its failure.

### StockTakes

The four handlers of `stock-takes.service.ts` composed with every action of
StockService. `job[a]` is what a handler has read. `CreateCheck`, `CreateSnapshot`
and `CreateCommit` are the check for an open take, the `groupBy` and the commit
that makes the row, and so the lock, visible; `CountCheck`/`CountCommit` are
`recordCounts`; `BeginClose` is the common read of `complete` and `cancel`. A
handler commits with what it has read, whatever the row has become. The ghost
`undisturbed[t]` says that nothing the lock does not stop has touched the
warehouse of take `t`: see `FrozenUnlessDisturbed` below.

### OrderLifecycle, PurchaseOrders

OrderLifecycle is the abstract specification: a status that moves along the
lifecycle and goods that arrive only when they may, each operation atomic.
PurchaseOrders has the handlers, split into the read and check outside the
transaction (`...Check`) and the write. `update` has a third step, `EditFind`:
its `deleteMany` finds the rows that are there when the statement starts. Deleted
rows keep their `owner`, so that movements posted for a line that has gone can
still be counted. `total[o]` is the set of lines the amount sums: an amount is
right when the set is. `posted` is the stock side of a receipt.

### SupplierPerformance

`getPerformance` of `suppliers.service.ts` over the orders of PurchaseOrders, which
here carry their dates. Each action is an action of PurchaseOrders with what the
handler does to the dates: `CreateDated` and `EditLines`/`EditDate` set the expected
delivery, `ReceiveDated` stamps `receivedAt` when a delivery leaves the order fully
received (`Stamp`), again at a later surplus delivery; `Undated` is all the rest.
`DayPasses` is the clock, and the ghost `arrival` the day goods last came.

### Alerts

Each query of a scan is a step: the levels or batches (`Start...Scan`), per finding
the dedupe look-up (`Dedupe`) and the insert with its push (`Insert`), then for
low stock the query for stale alerts (`FindStale`) and their update (`ResolveStale`).
A process runs one scan at a time (the worker's concurrency is 1); the API runs
scans on demand beside it, and the ghost `overlapped` remembers that two have run at
once. Stock is the environment: `flagged` is what a scan would
find. `Fail` ends a scan anywhere and leaves the rows it wrote.

### Valuation

The two methods as functions of the ledger of a pair, one operator per step of the
code: `Layers` (the filter; a layer keeps the position of its movement), `Remaining`
(the loop that takes units from the oldest layer on, first for outbound and then for
the stock on hand), `TakeOldest` (what each layer gives), `Surviving`, `FifoValue`,
`AverageCost`, `Value`. The reference for FIFO, `Replay`, is a queue with the cost of
every single unit, played movement by movement (`Arrive`, `Leave`). Money is
in integers, unit costs in 1/10000 and values in cents, and `RoundDiv` rounds as
`Decimal.toDecimalPlaces` does. Movements are rows here, in the order of `createdAt`.
The report is `StartReport` (the `groupBy`), `ValuePair` (one `findMany` per pair)
and `FinishReport` (subtotals and total), between which the ledger may grow; `Deliver`
hands the finished answer to its client. A report may be asked for one warehouse, one
category and one method for all products (`Scoped`, `report.query`). A dispatch and a
transfer ask for physical stock only: reservations would refuse more.

`movementSummary` filters by warehouse, variant, type and a range of dates (`Wanted`,
`InWindow`) and awaits two queries by this one filter together: the totals by type and
the rows. They see two snapshots, in either order: one is answered in `StartSummary`,
the other in `FinishSummary(first)`, with writes between them. `createdAt` is a logical
instant, `at`: the n-th row of the table has instant n, so the two rows of a transfer,
which are two inserts of one transaction, have instants that follow each other and a
date can fall between them.

### Catalog

The category tree is `parent[c]`, products are filed by `filed[p]`. A handler reads
whether the rows it names exist before it writes; the write fails anyway when one has
gone (foreign key, missing row), so check and write are one action. `RemoveCategory`
has the effect of the schema's relations, which set children and products to null.
`Nested` is what `findTree` nests, level by level below the roots. `walk` is a client
that pages through `ProductsService.findAll`: `NextPage` is one request with the
cursor of the last, in any order that `createdAt` leaves open (`Orders`), cut by
`buildCursorPage`. Ghosts of the walk: `throughout`, the products that have matched
since it began (each write updates it, in `Watched`), and `lost`, that a cursor no
longer matched when the next page was asked for. Only the product listing is
modelled; movements and purchase orders have listings of their own, not modelled here.

## 3. What the runs check

### Passing runs

| run | instance | what it shows |
| --- | --- | --- |
| `stock_concurrency` | 2 requests, 2 warehouses, 2 reservations, quantity 1, 580 000 states | `ImplementsPromise`: a guarded request commits only units available at its commit, but for those its pair has lost unchecked since it looked, and a reservation stops holding units once. `OversellBounded`: in every interleaving a pair is short by at most its unchecked units. `InFlightCovered`: a plan stays covered while transfers and reservations commit around it. `DispatchedIffClosed`: DISPATCH rows and statuses agree through every race of releases and fulfilments |
| `stock_batches` | 2 requests, 2 lots, 2 expiry dates, quantities 1–2, 110 000 states | `BatchNeverOverdrawn`: a FEFO plan made on a snapshot never overdraws a lot. `InFlightCovered`: a transaction that can still commit is covered by the stock there is |
| `takes_sequential` | 1 stock-take handler and 1 stock request, interleaved; 2 takes, 1 reservation | `FrozenUnlessDisturbed`: a take freezes its warehouse unless something slips past the lock; one open take per warehouse, adjustments equal differences, a canceled take posts none, closed reservations stay closed, and `CountsBecomeStock`: a take that stayed undisturbed leaves what was counted |
| `takes_racing` | 2 handlers, 2 warehouses, 2 takes, 1 request | what survives the races of handlers: `NothingPostedWhileOpen`, `ClosedTakeStaysClosed` |
| `orders_sequential` | 1 handler, 2 orders, 4 lines, 2 days, 690 000 states | with calls one at a time: receipts equal stock, the completeness check is right, totals match, only drafts are edited, PurchaseOrders implements OrderLifecycle (`KeepsPromise`, so ended orders stay ended), and the supplier's delivery record is that of the goods (`PerformanceAccurate`) |
| `orders_racing` | 2 handlers, 1 order, 3 lines | under races an order never claims goods stock does not have and never loses all its lines |
| `alerts_scans` | worker and API, 2 pairs, 1 batch, fairness, 340 000 states | until two scans overlap, one ACTIVE alert per subject, and alerts auto-resolved only after recovery; the list of ACTIVE alerts settles on the live state, whatever scans overlapped before |
| `catalog` | 3 categories, 3 products, 4 rows at a time, pages of 1, 110 000 states | `ForestIsRooted`: the forest has exactly the categories above which there is no cycle. `HiddenOnlyByCycle`: nothing else hides one. `ListingComplete`: a client that pages while products come, move and go gets each once |
| `valuation` | 2 variants (one per method and category), 2 warehouses, 3 movements, 2 kinds of reports, 4 kinds of summaries, 850 000 states | `FifoIsReplay`: the layers agree with a queue of single units played movement by movement; `AverageWithinCosts`, `RoundingBounded`; `ReportIsLedgerAtRest`: an undisturbed report adds up to the ledger, and no report has a pair without stock; `SummaryAddsUp`: neither answer of a movement summary shows half a transfer unless its filter parts the rows, one answer has all rows of the other, and undisturbed they agree |

### Where code and documentation disagree

Each of these runs checks one statement of the README or of a comment, and TLC
finds an execution of the code that breaks it.

| run | statement | what happens |
| --- | --- | --- |
| `reservation_fulfilled_once` | a reservation becomes one DISPATCH | two fulfilments both read ACTIVE and both post |
| `take_completed_twice` | complete posts each difference | two completes post it twice; a late count is not posted |
| `order_completeness` | the completeness check is accurate | one line of two units, two receipts of one unit each: both read that nothing has come, both write 1, and the order stays PARTIALLY_RECEIVED with two units in stock |

The sequential runs say where the boundary is. Every property of
`takes_sequential` and `orders_sequential` holds when calls of an endpoint do not
overlap; give the instance a second handler of the kind (`Clients`, `Auditors`,
`Clerks`) and TLC breaks it, but for the type invariants and
`FrozenUnlessDisturbed`. `~overlapped` draws the same line in `alerts_scans`. So,
with two requests at once, the code can also

- overwrite FULFILLED with RELEASED, and the reverse (`ClosedIsFinal`);
- cancel a take whose completion has posted its adjustments
  (`CanceledPostsNothing`), and open two takes for one warehouse
  (`OneOpenTakePerWarehouse`);
- save a count between the read and the write of a completion, which is then on
  record and not in stock (`CountsBecomeStock`);
- leave an order with the lines of two updates and the total of one
  (`TotalMatchesLines`), replace the lines of an order submitted since
  (`OnlyDraftsEdited`), and take an order out of CLOSED or CANCELED
  (`KeepsPromise`);
- raise one alert twice (`OneActivePerSubject`), and resolve the alert of a pair
  that is still short (`ResolvedAfterRecovery`).

More differences need no race and no model checker:

- Adjustments and purchase receipts do not look at the stock-take lock, although
  "`StockService` rejects any movement for that warehouse"; they are among the
  exceptions `FrozenUnlessDisturbed` names.
- `receive` accepts a DRAFT order, which the lifecycle diagram does not; OrderLifecycle
  therefore has `MayReceive` as a parameter, and `KeepsPromise` gives it DRAFT too.
- The worker has no websocket server, so the alerts of scheduled scans are stored
  and not pushed.
- Receiving a batch again overwrites its expiry date; the comment in `upsertBatch`
  says "Keep the earliest known expiry".
- "Inbound movements form cost layers", but a TRANSFER_IN carries no cost and forms
  none: stock loses its value by moving to another warehouse. `FifoIsReplay` says
  in which direction a valuation can be wrong.
- `findTree` promises "the full category forest", but two updates may put A below B
  and B below A, and then neither, nor what hangs below them, is in it.
- A cursor is an id. The page after a product that was refiled or deactivated since
  is empty, and the list looks finished; rows of one `createdAt` have no order, so
  two pages may repeat one and skip another. `ListingComplete` excludes exactly these.
- A surplus delivery after an order was complete stamps `receivedAt` anew, so an order
  that was on time counts as late.
- A generated variant SKU takes three letters of each attribute (`PRD-00001-RED-L`, where
  the comment in `sku.util.ts` has `RD`), so two variants may collide.

### Bounds

Two requests are enough for every race of a read-then-write pair; the conflict
rule of serializable transactions is pairwise, and the proofs of section 5 remove
the bound for the properties that rest on it. Quantity 1 over `MaxStock = 3` lets two
requests each fit alone and not together, which is when overselling could happen, and
leaves room for two reservations; requests of different sizes are in `stock_batches`.
The order of `order_completeness` is two units, so that two receipts of one unit each
complete it. `takes_racing` works with quantity 1, no corrections and no reservations to
leave room for two handlers, two takes and two warehouses; corrections and
fulfilments beside a take are in `takes_sequential`. Four lines per instance of
`orders_sequential` are two orders' worth, or one order with its lines replaced
once; three lines in `orders_racing` allow one order to be created and edited twice.
`MaxPosted = 3` lets a line be short, full and over-delivered. An order is expected on
day 1 or at no date; days 1 and 2 make it on time or late.

In `alerts_scans` at most 8 of the 10 rows are ever used, so `MaxAlerts` does not hold
a scan back: no liveness property passes or fails because of it; `MaxTurns` bounds
changes of stock, user actions and failures, which must be finite anyway for the list
to settle.

In `catalog`, three categories make a cycle of two or three, and one that hangs below
a cycle; three products and pages of one are up to three pages, with a row to add, move
or remove before, at or after the cursor, and three instants of `createdAt` order them
in every way. `MaxRows = 4` only excludes large catalogues with a full list: the tree
and the list meet in the category a product is filed in.

Three rows in the ledger of `valuation` (four after a transfer) are two layers with
outbound before, between or after them; the methods are functions of the rows of one
pair, and longer ledgers repeat these cases. The two costs, 0.3333 and 1.0001, and
quantities 1 and 2 make every division of an average inexact. Reports are asked for
everything, and for one warehouse and one category by FIFO. Summaries are asked for
everything, for all rows up to instant 2 (which can fall between the rows of a
transfer), for one type, and for one warehouse and variant from instant 2 on: each
filter of the code on its own or with others. That `KeepsTransfersWhole` needs each of
its conditions TLC confirms: without any one of them `SummaryAddsUp` is violated.

Symmetry is used for ids that the models only compare for equality, with safety and
action properties and with refinements without fairness, and in no run that checks
liveness.

### Deadlock

Checked, except in runs where the system really may stop: every order ended or
created with no line ids left (PurchaseOrders), every reservation and take closed
with stock at its bound (the violation runs of StockService and StockTakes).

### Fairness

Only `alerts_scans` needs it (`FairSpec`). A scan that runs goes on (`WF` of
`Proceed`): it awaits its queries one after the other. The worker starts scans of
either kind for ever (`SF` of the two starts): `registerRepeatableJobs` gives each
a cron pattern, the queue hands out jobs in order, and a scan in progress only
delays the next. The API's scans have no fairness: nobody has to ask for one.

## 4. Abstractions

- A request the code refuses is a stuttering step; its error is not modelled.
- Rows that are only referenced (variants, warehouses, suppliers, users) are ids.
  Their existence and `isActive` checks only add refusals.
- Unit costs are left out of all modules but Valuation, timestamps of all but
  SupplierPerformance and Catalog, notes and performers of all; lots with equal expiry dates may be drawn in either order (the
  code goes by `createdAt`).
- Movements are kept as sums, not rows, except in Valuation, the one reader of rows.
  Rows of one `createdAt`, which the code reads in any order, have one order there,
  and rows become visible in the order of their instants: a transaction that stamps
  its rows early and commits late is not told apart from one that runs at its commit.
- The category of a product does not change while a report is built.
- The report's names, its sorting and its label `MIXED` are left out.
- An alert is pushed when its row is written; the push is output, and whether the
  process has a socket server to send it is not modelled.
- Integers are unbounded: a PostgreSQL `Int` overflows at 2^31 units of one lot.

## 5. Proofs

TLAPS checks eight modules: every invariant, action property and refinement that a
passing run checks is a theorem, for every value of the constants; only liveness is
not. No constant is bounded; the assumptions are those the modules state: quantities
are positive, deltas are non-zero integers, null values are not values, `Never` sorts
last, and in Catalog and Valuation the tables are finite (`TablesAreFinite`), because
a forest nested without end or a total over infinitely many pairs means nothing.
Theorems about handlers that do not overlap have that as their hypothesis,
`OneRequest` or `OneAtATime`: at most one handler of the kind, on any number of rows
and, for stock takes, beside any number of stock requests. The violation runs and the
list in section 3 show that the hypothesis is needed.

**DataLemmas.** What the other proofs need of data. TLAPS has no library theorem for
the sums of the community module Functions, and its induction theorems take an
operator, which the provers here cannot instantiate. So an induction is stated about
the set of the numbers (`AllNumbers`), or of the subsets of a finite set
(`AllSubsets`), for which a claim holds, and rests on the least counterexample of a
well-founded order. From these: a function defined by recursion satisfies its
recursion (`IterationExists`, `RecursionExists`); a sum over a finite set can be
split at any element (`SumSplit`), hence taken over unions, classes and tables in
either order (`SumUnion`, `SumPartition`, `SumSwap`), under other names
(`SumReindex`), and compared (`SumGrows`). *Numbered amounts* are quantities one after
the other: each unit is of exactly one of them (`UnitHasOwner`, `OneOwner`), and
`SumBeyond` prices the units beyond the first so many.

**StockServiceProofs.** `OversellBounded` is not inductive: a dispatch subtracts
what it checked on an older snapshot. The strengthening is

    Safe == OversellBounded /\ BatchNeverOverdrawn /\ InFlightCovered

where `InFlightCovered` says that a serializable transaction which can still commit
is still covered by the stock there is now, but for what its source has lost unchecked
since it looked (`LostSince`). The step argument has two lemmas. A step that takes no *headroom*
(available plus unchecked units) from any pair keeps `Safe` (`HarmlessStep`): begins,
receipts, releases, fulfilments, corrections and aborts are all of this kind, a
fulfilment because it takes as much from what is reserved as from `physical`, or else
is counted as unchecked. A serializable commit does take headroom from its source, but
dooms every other transaction with that source (`GuardedCommitStep`). What is reserved
is a sum over rows, so each write of a reservation is shown to change the sum by its
row and by no other (`MoreReserved`, `LessReserved`), and the rows of a pair to stay
finitely many (`FinitelyActive`). `TypeOK` needs `ClosingRowsExist`, because a
fulfilment writes to the row it read. Theorems: `TypeCorrect`, `NoOverselling`,
`NoOverdrawnBatch`, `StillCovered`.

*The refinement.* Every step of the gateway is a step of StockPromise or a
stutter. A begin that passes its check is a `Look` (`LookPromise`). At the commit of a
guarded request `StillCommittable` gives the guard of the abstract step: the request is
not doomed, so `InFlightCovered` says that the stock there is now, not only the stock
it saw, covers it but for what was lost since it looked, and the requests its commit
dooms are the ones that fail (`SomeFail`). An unchecked loss adds to `lost` of every
request that has looked at the pair, and of no other (`LoseStep`). A release or a
fulfilment of a reservation that is ACTIVE is `Close`; of one that is not, it changes
no claim (`ClosedClaims`) and is a stutter or a `Lose`. Theorems: `KeepsStockPromise`,
and `DispatchedWhenClosed`, that a DISPATCH is written with the status. With one request
at a time the reservation that a request has read ACTIVE still is (`StillActive`),
hence `DispatchedOnce` and `EndedForGood`, of the gateway without stock takes, which
do not write reservations.

**StockTakesProofs.** Composes: every step of the gateway keeps what
StockServiceProofs shows of it, and the commits of stock takes are harmless steps,
a completion because its negative differences count as unchecked. New is the lock:
`FrozenUnlessDisturbed` needs `NobodyPast`, that no request is past the lock check
of a warehouse with an undisturbed take. The lock check keeps new requests out
(`BeginKeepsPicture`), and one that was out cannot change the warehouse
(`CommitKeepsPicture`). Theorems: `SystemTypeCorrect`, `NoOversellingWithTakes`,
`FrozenCounts`, `NothingPostedEarly`, and the action property `ClosedForGood`.

*One handler.* With one stock-take handler at a time, what it has read is still
so when it writes (`Current`), because the gateway writes neither takes nor items. It
therefore closes an open take, into which nothing was posted yet
(`NothingPostedWhileOpen`), and posts the differences there are, which are actual minus
expected (`ItemsAgree`); and expected is what an undisturbed warehouse holds
(`FrozenUnlessDisturbed`). Theorems: `OneOpenTake`, `DifferencesPosted`,
`NothingPostedByCanceled`, and the action property `CountsStay`.

**PurchaseOrderProofs.** `NeverOverstated` needs to know what a receipt in flight
has seen (`SeenWasPosted`: at most what was posted by then, and postings only grow).
`NeverWithoutLines` needs `OnlyLinesDeleted`: an update deletes rows that were lines
when it looked, so not the ones it adds. Theorems: `OrdersTypeCorrect`,
`NoOverstatement`, `AlwaysLines`.

*One handler.* With one handler at a time, what it has read is still so when it
writes (`Fresh`): beside it only `create` runs, which makes an order of its own. Stock
is only on lines of orders past SUBMITTED (`Untouched`), so that an update, of a DRAFT,
deletes no line with stock, and orders that do not exist have no lines (`Uncreated`).
Theorems: `ReceiptsArePosted`, `CompletenessIsAccurate`, `TotalIsOfLines`, and the
action property `EditsAreOfDrafts`.

*The refinement.* Every step is then a step of OrderLifecycle or a stutter. The goods
of an order are a sum over its rows, deleted ones included, of which there are finitely
many (`RowsFinite`): new rows are empty (`NewRowsAreEmpty`), and a receipt raises the
sum of its own order and of no other (`ReceivePromise`). Theorem: `KeepsLifecycle`.

**SupplierProofs.** Adds the dates: `receivedAt` is set exactly on orders that rest or
ended with all their goods (`StampedWhenFull`; goods never go, so such an order stays
so), and is the day goods last came (`StampIsArrival`). Theorem: `RecordIsOfGoods`.

**AlertProofs.** Deduplication and auto-resolution rest on what holds while no two scans
have overlapped (`AlertInv`). At most one scan is under way (`Alone`), so no other scan inserts between
its look-up and its insert; users only take alerts out of ACTIVE (`StatusWritten`). A
scan raises alerts of what it found only (`RaisesFound`), so the ACTIVE alerts of pairs
it did not find are older than its first query, or of pairs that were not short then:
all have recovered (`Careful`), because an alert whose pair is not short has
(`UnflaggedRecovered`). Theorems: `AlertsTypeCorrect`, `AlertsDeduped`, and the action
property `OnlyRecoveredResolved`.

**CatalogProofs.** The forest is the least set that has the roots and the children of
its members (`ForestIsLeast`): each level adds a category or none of the later ones
does, so as many levels as there are categories reach everything (`HangingClosed`).
That makes it enough, to show that an operation hides nothing, to show that what was
in the forest is closed afterwards: a deletion makes roots of the children
(`RemoveHidesOne`), and a move hides what is below the moved category, or nothing
(`UpdateHidesBelow`). A category is at level n exactly if its walk up leaves the
categories after n steps (`LevelIsDepth`). A page is what comes after the cursor in
the listing, in whatever order ties have (`PageIs`); the invariant of the walk,
`ListingInv`, says that what comes before the cursor has been delivered, once, and
nothing after it. Writes keep it, because a listed product keeps its `createdAt` and
a new one is not among those that match throughout (`ListingWrite`). Theorems: `CatalogTypes`,
`ForestIsTheRootedPart`, `EveryProductOnce`, and the action property `OnlyCyclesHide`.

**ValuationProofs.** The methods are functions of one ledger, so their properties hold
of every sequence of movements, and the system only has to keep the ledger one
(`ValuationInv`, which also says that a pair has a row in a report or is still to do).

- *Average.* A weighted mean lies between the extremes (`AverageBetween`) and
  rounding half up moves it by half a unit at most (`RoundDivIs`), so not past a cost,
  which is an integer. The two errors add up (`TwoRoundings`). Theorems:
  `AverageIsACost`, `RoundingStaysBounded`.
- *FIFO.* Number the units in the order of arrival. The layers keep the units whose
  place is beyond the number that ever left, counted among the units with a cost
  (`SurvivingUnits`); the queue keeps those beyond it among all units (`QueueIs`, an
  invariant of the replay, with units owed while the pair is below zero). Among fewer
  units fewer lie beyond (`PricedBeyond`), hence the one inequality, and
  equality when every unit has a cost. The second loop of `fifoValuation`, over the
  units on hand, uses up all that the layers kept (`UsedUnits`). Theorem: `FifoIsTheQueue`.
- *Report.* While nothing is written the rows are those of the stocked pairs that are
  not to do any more (`Undisturbed`); groups are sums by class (`SubtotalIsStock`).
  Theorems: `ValuationTypes`, `ReportIsASnapshot`.
- *Summary.* Instants number the rows, so no two rows have one and the rows of a
  transfer are each other's neighbours, of one variant, with opposite quantities
  (`Timed`, `Matched`). A set of rows that has both of every transfer or neither is
  `Closed`, and its transfers cancel (`TransfersCancel`); a filter that
  `KeepsTransfersWhole` lists a closed set (`WholeIsClosed`). Rows are never changed and
  come in whole transfers (`Grows`), so the answer given first stays closed while the
  ledger grows, and stays part of what the other will list (`Summing`): hence the
  counts of one are at most those of the other (`CountsGrow`). The totals are a sum by
  class of the rows listed (`TotalsAreOfRows`), and all rows of a pair are its stock
  (`RowsAreStock`). Theorem: `SummaryIsConsistent`.

**Only model-checked:** the two liveness properties of `alerts_scans`,
`ListReflectsLiveState` and `ExpiringBatchAlerted`. They need fairness, and so
`ENABLED`, which this version of TLAPS does not reason about. That the mutants are
caught, and that the runs expected to fail do, is TLC's to show as well.

## 6. Not modelled, and what comes next

Left to do:

1. The greedy loop of `suggestFefoBatches` against `FefoPlans`, its set of plans.
2. An abstract specification of stock takes (a picture, counts, one posting) with its
   refinement for handlers that do not overlap.

Left out, and why:

- *Stock levels.* `getStockLevel` reads its two sums on two snapshots, so a fulfilment
  in between shows units as available. It is plain from the two awaits, and no handler
  that writes decides on it.
- *Reorder and expiry reports, spreadsheets.* Sort and format rows that other modules
  read; the expiry arithmetic is a difference of dates.
- *Variants and SKUs.* One insert; uniqueness is left to the database's constraint.
- *Suppliers' and warehouses' own rows.* Single-row writes with no invariant across rows.
- *Batches.* Three queries of what the gateway writes.
- *HTTP shell, configuration, clients, seed data.* No state of the business; the seed
  runs once on an empty database.
