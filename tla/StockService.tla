---------------------------- MODULE StockService ----------------------------
(***************************************************************************)
(* The stock gateway, src/modules/stock/stock.service.ts.                  *)
(*                                                                         *)
(* Stock is a ledger of signed movements, of which the service only reads  *)
(* sums, so the state keeps the sum: physical[p] is SUM(quantity) of the   *)
(* movements of a (variant, warehouse) pair p.  Reservations are rows, and *)
(* what is reserved is aggregated over the ACTIVE ones at every read.      *)
(*                                                                         *)
(* Several API requests run at once.  A handler that reads first and       *)
(* writes later is two actions, Begin... and Commit..., and what it read   *)
(* stays in txn[c].  A request the code refuses changes nothing and is a   *)
(* stuttering step.                                                        *)
(*                                                                         *)
(* Isolation.  dispatch, transfer and reserve ask for Serializable: they   *)
(* decide on the snapshot of their Begin step, and PostgreSQL makes one of *)
(* two such transactions that each read what the other writes fail (here   *)
(* the one that has not committed yet is marked doomed and can only        *)
(* Abort).  Everything else runs at PostgreSQL's default, READ COMMITTED,  *)
(* is invisible to that check, and writes on what it read before.  No      *)
(* failed transaction is retried anywhere.                                 *)
(***************************************************************************)
EXTENDS Integers, FiniteSets, Functions

CONSTANTS
    Variants, Warehouses,
    BatchNos, NoBatch,     \* batch numbers; NoBatch: a receipt without one
    Reservations,          \* ids of reservation rows
    Takes,                 \* ids of stock-take rows
    Clients,               \* request handlers in flight
    Quantities, Deltas,    \* quantities and adjustment deltas of requests
    ExpiryDates, Never,    \* days; Never: no expiry known, sorts last
    MaxStock,              \* bound: stock a request may build up, per pair or lot
    MaxUnchecked           \* bound: units one pair may lose unchecked by adjust

\* stock.dto.ts: quantities are @IsInt @IsPositive, a delta is a non-zero @IsInt.
ASSUME QuantitiesArePositive == Quantities \subseteq Nat \ {0}
ASSUME DeltasAreNonZero == Deltas \subseteq Int \ {0}
ASSUME NeverIsLast == /\ ExpiryDates \subseteq Nat
                      /\ Never \in Nat
                      /\ \A e \in ExpiryDates : e < Never
ASSUME NoBatchIsNotABatch == NoBatch \notin BatchNos
ASSUME BoundsAreNat == MaxStock \in Nat /\ MaxUnchecked \in Nat

VARIABLES
    physical,     \* [Stock -> Int]: SUM(StockMovement.quantity)
    rsv,          \* reservation rows
    dispatches,   \* DISPATCH movements written for each reservation
    remaining,    \* Batch.quantityRemaining of each lot
    expiry,       \* Batch.expiryDate of each lot
    takes,        \* stock-take rows, read by the lock check
    txn,          \* what each open request has read and is about to write
    unchecked     \* ghost: units taken from a pair with no availability check

ledgerVars == <<physical, unchecked>>
batchVars  == <<remaining, expiry>>
rsvVars    == <<rsv, dispatches>>
vars == <<physical, rsv, dispatches, remaining, expiry, takes, txn, unchecked>>

Stock == Variants \X Warehouses
Lots  == Stock \X BatchNos

-----------------------------------------------------------------------------
(* Rows and transactions.                                                  *)

NoReservation == [status |-> "NONE"]
ReservationRow == [status : {"ACTIVE", "FULFILLED", "RELEASED"},
                   of : Stock, qty : Quantities]

NoTake == [status |-> "NONE"]
TakeRow == [status : {"IN_PROGRESS", "COMPLETED", "CANCELED"},
            wh : Warehouses]

\* The operations that run as Serializable transactions.
GuardedOps == {"dispatch", "transfer", "reserve"}

Idle == [op |-> "idle"]
ReceiptTxn == [op : {"receive"}, dst : Stock, qty : Quantities,
               batch : BatchNos \cup {NoBatch}, expiry : ExpiryDates \cup {Never}]
\* plan[b]: units a FEFO dispatch takes from lot <<src, b>>; 0 for the others.
\* lostBefore (ghost): what src had lost unchecked when the request looked at it.
GuardedTxn == [op : GuardedOps, src : Stock, dst : Stock, qty : Quantities,
               plan : [BatchNos -> Nat], lostBefore : Nat, doomed : BOOLEAN]
\* A closing request has read its reservation ACTIVE; "fulfillUnlocked" has
\* also passed the stock-take check.
ClosingOps == {"release", "fulfill", "fulfillUnlocked"}
ClosingTxn == [op : ClosingOps, rsv : Reservations]

TypeOK ==
    /\ physical \in [Stock -> Int]
    /\ rsv \in [Reservations -> ReservationRow \cup {NoReservation}]
    /\ dispatches \in [Reservations -> Nat]
    /\ remaining \in [Lots -> Int]
    /\ expiry \in [Lots -> ExpiryDates \cup {Never}]
    /\ takes \in [Takes -> TakeRow \cup {NoTake}]
    /\ txn \in [Clients -> ReceiptTxn \cup GuardedTxn \cup ClosingTxn \cup {Idle}]
    /\ unchecked \in [Stock -> Nat]

Init ==
    /\ physical = [p \in Stock |-> 0]
    /\ rsv = [r \in Reservations |-> NoReservation]
    /\ dispatches = [r \in Reservations |-> 0]
    /\ remaining = [l \in Lots |-> 0]
    /\ expiry = [l \in Lots |-> Never]
    /\ takes = [t \in Takes |-> NoTake]
    /\ txn = [c \in Clients |-> Idle]
    /\ unchecked = [p \in Stock |-> 0]

-----------------------------------------------------------------------------
(* Aggregations, guards and the conflict rule.                             *)

ActiveOf(p) == {r \in Reservations : rsv[r].status = "ACTIVE" /\ rsv[r].of = p}
reservedStock(p) == SumFunction([r \in ActiveOf(p) |-> rsv[r].qty])
Available(p) == physical[p] - reservedStock(p)

\* assertNotLockedByStockTake rejects when this holds.
Locked(w) == \E t \in Takes : /\ takes[t].status = "IN_PROGRESS"
                              /\ takes[t].wh = w

\* A serializable transaction decides on the sums of its source; it writes
\* movements or reservations of its source and, for a transfer, destination.
Touched(t) == {t.src, t.dst}
SameOpConflict(t, u) == t.op = u.op /\ t.src = u.src   \* mutant
Conflict(t, u) == t.src \in Touched(u) /\ u.src \in Touched(t)

CommitReadCommitted(c) == [txn EXCEPT ![c] = Idle]   \* mutant

\* Client c commits a serializable transaction: the concurrent ones that
\* conflict with it can no longer commit.
CommitSerializable(c) ==
    [k \in Clients |->
        IF k = c THEN Idle
        ELSE IF txn[k].op \in GuardedOps /\ Conflict(txn[c], txn[k])
             THEN [txn[k] EXCEPT !.doomed = TRUE]
             ELSE txn[k]]

\* recordMovementRaw without a batch: one row, which only moves the sum.
Move(p, signedQty) == [physical EXCEPT ![p] = @ + signedQty]

-----------------------------------------------------------------------------
(* receive: lock check, then batch upsert, movement and increment.         *)

BeginReceive(c, p, q, b, e) ==
    /\ txn[c] = Idle
    /\ ~Locked(p[2])
    /\ txn' = [txn EXCEPT ![c] = [op |-> "receive", dst |-> p, qty |-> q,
                                  batch |-> b, expiry |-> e]]
    /\ UNCHANGED <<ledgerVars, rsvVars, batchVars, takes>>

\* The batch row is updated, so a FEFO dispatch that planned to draw on it
\* fails with "could not serialize access due to concurrent update".
TouchLot(c, p, b) ==
    [k \in Clients |->
        IF k = c THEN Idle
        ELSE IF /\ txn[k].op \in GuardedOps
                /\ txn[k].src = p
                /\ txn[k].plan[b] > 0
             THEN [txn[k] EXCEPT !.doomed = TRUE]
             ELSE txn[k]]

\* An update without expiryDate leaves the column alone (Prisma: undefined).
CommitReceive(c) ==
    LET t == txn[c]
        lot == <<t.dst, t.batch>>
    IN  /\ t.op = "receive"
        /\ physical[t.dst] + t.qty <= MaxStock
        /\ physical' = Move(t.dst, t.qty)
        /\ IF t.batch = NoBatch
           THEN /\ txn' = [txn EXCEPT ![c] = Idle]
                /\ UNCHANGED batchVars
           ELSE /\ remaining[lot] + t.qty <= MaxStock
                /\ remaining' = [remaining EXCEPT ![lot] = @ + t.qty]
                /\ expiry' = [expiry EXCEPT
                                ![lot] = IF t.expiry = Never THEN @ ELSE t.expiry]
                /\ txn' = TouchLot(c, t.dst, t.batch)
        /\ UNCHANGED <<unchecked, rsvVars, takes>>

-----------------------------------------------------------------------------
(* dispatch, transfer and reserve: the guard on the snapshot, then the     *)
(* write, which survives only if no conflicting transaction committed.     *)

NoPlan == [b \in BatchNos |-> 0]

Planless(op, p, to, q) == [op |-> op, src |-> p, dst |-> to, qty |-> q,
                           plan |-> NoPlan, lostBefore |-> unchecked[p],
                           doomed |-> FALSE]

BeginGuarded(c, t) ==
    /\ txn[c] = Idle
    /\ t.qty <= Available(t.src)
    /\ txn' = [txn EXCEPT ![c] = t]
    /\ UNCHANGED <<ledgerVars, rsvVars, batchVars, takes>>

BeginDispatch(c, p, q) ==
    /\ ~Locked(p[2])
    /\ BeginGuarded(c, Planless("dispatch", p, p, q))

\* mutant: takes without Math.min(batch.quantityRemaining, remaining)
UncappedPlans(p, q) == {plan \in [BatchNos -> 0 .. q] : SumFunction(plan) = q}

\* suggestFefoBatches: q units drawn from lots that hold stock, none from a lot
\* while one that expires before it still has some (equal expiries go by
\* createdAt, which is not modelled: either order).
FefoPlans(p, q) ==
    {plan \in [BatchNos -> 0 .. q] :
        /\ \A b \in BatchNos : plan[b] > 0 => plan[b] <= remaining[<<p, b>>]
        /\ SumFunction(plan) = q
        /\ \A a, b \in BatchNos :
              (plan[b] > 0 /\ expiry[<<p, a>>] < expiry[<<p, b>>]
                           /\ remaining[<<p, a>>] > 0)
              => plan[a] = remaining[<<p, a>>]}

\* An empty set of plans is the "not enough batched stock" rejection.
BeginDispatchFefo(c, p, q) ==
    /\ ~Locked(p[2])
    /\ \E plan \in FefoPlans(p, q) :
          BeginGuarded(c, [Planless("dispatch", p, p, q) EXCEPT !.plan = plan])

BeginTransfer(c, p, to, q) ==
    /\ p # to
    /\ ~Locked(p[2])
    /\ ~Locked(to[2])
    /\ BeginGuarded(c, Planless("transfer", p, to, q))

\* reserve does not look at stock takes.
BeginReserve(c, p, q) == BeginGuarded(c, Planless("reserve", p, p, q))

CommitDispatch(c) ==
    LET t == txn[c]
    IN  /\ t.op = "dispatch"
        /\ ~t.doomed
        /\ physical' = Move(t.src, -t.qty)
        /\ remaining' = [l \in Lots |-> IF l[1] = t.src
                                        THEN remaining[l] - t.plan[l[2]]
                                        ELSE remaining[l]]
        /\ txn' = CommitSerializable(c)
        /\ UNCHANGED <<unchecked, rsvVars, expiry, takes>>

CommitTransfer(c) ==
    LET t == txn[c]
    IN  /\ t.op = "transfer"
        /\ ~t.doomed
        /\ physical[t.dst] + t.qty <= MaxStock
        /\ physical' = [physical EXCEPT ![t.src] = @ - t.qty,
                                        ![t.dst] = @ + t.qty]
        /\ txn' = CommitSerializable(c)
        /\ UNCHANGED <<unchecked, rsvVars, batchVars, takes>>

CommitReserve(c) ==
    LET t == txn[c]
    IN  /\ t.op = "reserve"
        /\ ~t.doomed
        /\ \E r \in Reservations :
              /\ rsv[r] = NoReservation
              /\ rsv' = [rsv EXCEPT ![r] = [status |-> "ACTIVE",
                                            of |-> t.src, qty |-> t.qty]]
        /\ txn' = CommitSerializable(c)
        /\ UNCHANGED <<physical, unchecked, dispatches, batchVars, takes>>

-----------------------------------------------------------------------------
(* releaseReservation and fulfillReservation: status read, then written    *)
(* by id whatever it has become since.                                     *)

\* mutant: the status check dropped
BeginClosingAnyRow(c, op, r) ==
    /\ txn[c] = Idle
    /\ rsv[r] # NoReservation
    /\ txn' = [txn EXCEPT ![c] = [op |-> op, rsv |-> r]]
    /\ UNCHANGED <<ledgerVars, rsvVars, batchVars, takes>>

BeginClosing(c, op, r) ==
    /\ txn[c] = Idle
    /\ rsv[r].status = "ACTIVE"
    /\ txn' = [txn EXCEPT ![c] = [op |-> op, rsv |-> r]]
    /\ UNCHANGED <<ledgerVars, rsvVars, batchVars, takes>>

\* mutant: a status that is not one of a reservation
ReleaseAsCanceled(c) ==
    LET r == txn[c].rsv
    IN  /\ txn[c].op = "release"
        /\ rsv' = [rsv EXCEPT ![r].status = "CANCELED"]
        /\ txn' = [txn EXCEPT ![c] = Idle]
        /\ UNCHANGED <<physical, unchecked, dispatches, batchVars, takes>>

CommitRelease(c) ==
    LET r == txn[c].rsv
    IN  /\ txn[c].op = "release"
        /\ rsv' = [rsv EXCEPT ![r].status = "RELEASED"]
        /\ txn' = [txn EXCEPT ![c] = Idle]
        /\ UNCHANGED <<physical, unchecked, dispatches, batchVars, takes>>

\* mutant: fulfilment without assertNotLockedByStockTake
FulfillPastLock(c) ==
    /\ txn[c].op = "fulfill"
    /\ txn' = [txn EXCEPT ![c].op = "fulfillUnlocked"]
    /\ UNCHANGED <<ledgerVars, rsvVars, batchVars, takes>>

\* mutant: the status flips in its own transaction, before the movement
FlipThenDispatch(c) ==
    /\ txn[c].op = "fulfill"
    /\ ~Locked(rsv[txn[c].rsv].of[2])
    /\ rsv' = [rsv EXCEPT ![txn[c].rsv].status = "FULFILLED"]
    /\ txn' = [txn EXCEPT ![c].op = "fulfillUnlocked"]
    /\ UNCHANGED <<physical, unchecked, dispatches, batchVars, takes>>

FulfillCheckLock(c) ==
    /\ txn[c].op = "fulfill"
    /\ ~Locked(rsv[txn[c].rsv].of[2])
    /\ txn' = [txn EXCEPT ![c].op = "fulfillUnlocked"]
    /\ UNCHANGED <<ledgerVars, rsvVars, batchVars, takes>>

CommitFulfill(c) ==
    LET r == txn[c].rsv
        p == rsv[r].of
    IN  /\ txn[c].op = "fulfillUnlocked"
        /\ rsv' = [rsv EXCEPT ![r].status = "FULFILLED"]
        /\ physical' = Move(p, -rsv[r].qty)
        /\ dispatches' = [dispatches EXCEPT ![r] = @ + 1]
        /\ unchecked' = IF rsv[r].status = "ACTIVE" THEN unchecked
                        ELSE [unchecked EXCEPT ![p] = @ + rsv[r].qty]
        /\ txn' = [txn EXCEPT ![c] = Idle]
        /\ UNCHANGED <<batchVars, takes>>

-----------------------------------------------------------------------------
(* Movements written with neither the lock check nor the available check.  *)

\* Ghost bookkeeping of a movement that may remove units unchecked.
CountUnchecked(p, d) ==
    IF d < 0 THEN [unchecked EXCEPT ![p] = @ - d] ELSE unchecked

Adjust(p, d) ==
    /\ physical[p] + d <= MaxStock
    /\ d < 0 => unchecked[p] - d <= MaxUnchecked
    /\ physical' = Move(p, d)
    /\ unchecked' = CountUnchecked(p, d)
    /\ UNCHANGED <<rsvVars, batchVars, takes, txn>>

\* One line of a purchase-order receipt, as purchase-orders.service.ts posts it.
ReceivePurchase(p, q) ==
    /\ physical[p] + q <= MaxStock
    /\ physical' = Move(p, q)
    /\ UNCHANGED <<unchecked, rsvVars, batchVars, takes, txn>>

\* A request that fails after its reads: serialization failure, interactive
\* transaction timeout, lost connection or a crash of the API process.
Abort(c) ==
    /\ txn[c] # Idle
    /\ txn' = [txn EXCEPT ![c] = Idle]
    /\ UNCHANGED <<ledgerVars, rsvVars, batchVars, takes>>

-----------------------------------------------------------------------------
BeginStep(c) ==
    \/ \E p \in Stock, q \in Quantities :
          \/ \E b \in BatchNos, e \in ExpiryDates \cup {Never} :
                BeginReceive(c, p, q, b, e)
          \/ BeginReceive(c, p, q, NoBatch, Never)
          \/ BeginDispatch(c, p, q)
          \/ BeginDispatchFefo(c, p, q)
          \/ \E w \in Warehouses : BeginTransfer(c, p, <<p[1], w>>, q)
          \/ BeginReserve(c, p, q)
    \/ \E r \in Reservations, op \in {"release", "fulfill"} :
          BeginClosing(c, op, r)

CommitStep(c) ==
    \/ CommitReceive(c)
    \/ CommitDispatch(c)
    \/ CommitTransfer(c)
    \/ CommitReserve(c)
    \/ CommitRelease(c)
    \/ FulfillCheckLock(c)
    \/ CommitFulfill(c)

Correction ==
    \E p \in Stock : \/ \E d \in Deltas : Adjust(p, d)
                     \/ \E q \in Quantities : ReceivePurchase(p, q)

Next == \/ \E c \in Clients : BeginStep(c) \/ CommitStep(c) \/ Abort(c)
        \/ Correction

Spec == Init /\ [][Next]_vars

-----------------------------------------------------------------------------
(* Properties.                                                             *)

\* The overselling guard (stock.service.ts:46, "may never go negative on a
\* dispatch or reservation"): whatever the interleaving, a pair
\* is oversold by no more than the units that left it with no availability
\* check, by a negative correction or a fulfilment of a closed reservation.
OversellBounded == \A p \in Stock : Available(p) + unchecked[p] >= 0

\* A lot is only drawn on by FEFO dispatches, which plan on a snapshot:
\* quantityRemaining never goes below zero, however receipts and dispatches
\* interleave.
BatchNeverOverdrawn == \A l \in Lots : remaining[l] >= 0

\* What a pair has lost unchecked since request c looked at it.
LostSince(c) == unchecked[txn[c].src] - txn[c].lostBefore

\* Why the guard works: the units that a serializable transaction saw available
\* stay so until it commits or is doomed, whatever else commits, but for those
\* that left its source with no check since it looked.
InFlightCovered ==
    \A c \in Clients :
        (txn[c].op \in GuardedOps /\ ~txn[c].doomed) =>
        /\ txn[c].qty <= Available(txn[c].src) + LostSince(c)
        /\ \A b \in BatchNos : txn[c].plan[b] <= remaining[<<txn[c].src, b>>]

\* Reservation rows are never deleted: a closing request in flight still names
\* an existing row when it writes its status by id.
ClosingRowsExist ==
    \A c \in Clients : txn[c].op \in ClosingOps
                       => rsv[txn[c].rsv] # NoReservation

\* A fulfilment flips the status and writes its DISPATCH in one transaction: an
\* ACTIVE reservation has no DISPATCH movement yet, a FULFILLED one has some.
DispatchedIffClosed ==
    \A r \in Reservations :
        /\ rsv[r].status \in {"NONE", "ACTIVE"} => dispatches[r] = 0
        /\ rsv[r].status = "FULFILLED" => dispatches[r] > 0

\* README "Reservation lifecycle": a reservation becomes one DISPATCH movement.
FulfilledOnce == \A r \in Reservations : dispatches[r] <= 1

\* README "Reservation lifecycle": FULFILLED and RELEASED are final.
ClosedIsFinal ==
    [][\A r \in Reservations :
          rsv[r].status \in {"FULFILLED", "RELEASED"}
          => rsv'[r].status = rsv[r].status]_vars

\* A reservation that is no longer ACTIVE holds nothing, however it ended.
Claims == [r \in Reservations |-> IF rsv[r].status \in {"NONE", "ACTIVE"}
                                  THEN rsv[r] ELSE [status |-> "CLOSED"]]

\* Units that one movement may bring or take without a check.
Amounts == Quantities \cup {IF d < 0 THEN -d ELSE d : d \in Deltas}

\* What the promise knows of a request: nothing once it can no longer commit.
Seen == [c \in Clients |->
            IF txn[c].op \in GuardedOps /\ ~txn[c].doomed
            THEN [status |-> "OPEN", of |-> txn[c].src, qty |-> txn[c].qty,
                  lost |-> LostSince(c)]
            ELSE [status |-> "NONE"]]

\* src/README.md:82 "Serializable transactions to prevent overselling under
\* concurrency": whatever requests overlap, abort or write late, the stock changes
\* as if each of them had run alone at its commit, on the stock there is then and
\* what left the pair with no check since it looked.
Promise == INSTANCE StockPromise WITH
    Pairs <- Stock, Requests <- Clients,
    onHand <- physical, claim <- Claims, seen <- Seen
ImplementsPromise == Promise!Spec
=============================================================================
