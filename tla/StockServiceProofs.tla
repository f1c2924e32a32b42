------------------------- MODULE StockServiceProofs -------------------------
(***************************************************************************)
(* Proofs about StockService: its type invariant, and that no interleaving *)
(* of requests oversells a pair or overdraws a lot.                        *)
(***************************************************************************)
EXTENDS StockService, DataLemmas, TLAPS

TxnRecord == ReceiptTxn \cup GuardedTxn \cup ClosingTxn \cup {Idle}

-----------------------------------------------------------------------------
(* The kinds of open transaction are told apart by op.                     *)

LEMMA TxnByOp ==
  ASSUME NEW t \in TxnRecord
  PROVE  /\ t.op = "receive" => t \in ReceiptTxn
         /\ t.op \in GuardedOps => t \in GuardedTxn
         /\ t.op \in ClosingOps => t \in ClosingTxn
  BY DEF TxnRecord, ReceiptTxn, GuardedTxn, ClosingTxn, Idle, GuardedOps,
         ClosingOps

LEMMA QuantityIsPositive ==
  ASSUME NEW q \in Quantities
  PROVE  q \in Int /\ q > 0
  BY QuantitiesArePositive

LEMMA ReceiptFields ==
  ASSUME NEW t \in ReceiptTxn
  PROVE  /\ t.dst \in Stock /\ t.qty \in Int /\ t.qty > 0
         /\ t.batch \in BatchNos \cup {NoBatch}
         /\ t.expiry \in ExpiryDates \cup {Never}
<1>1. t.qty \in Quantities
  BY DEF ReceiptTxn
<1>. QED  BY <1>1, QuantityIsPositive DEF ReceiptTxn

LEMMA GuardedFields ==
  ASSUME NEW t \in GuardedTxn
  PROVE  /\ t.src \in Stock /\ t.dst \in Stock
         /\ t.qty \in Quantities /\ t.qty \in Int /\ t.qty > 0
         /\ t.plan \in [BatchNos -> Nat]
         /\ t.lostBefore \in Nat
<1>1. t.qty \in Quantities
  BY DEF GuardedTxn
<1>. QED  BY <1>1, QuantityIsPositive DEF GuardedTxn

\* Marking a serializable transaction doomed leaves it one.
LEMMA DoomedType ==
  ASSUME NEW t \in GuardedTxn
  PROVE  [t EXCEPT !.doomed = TRUE] \in GuardedTxn
  BY DEF GuardedTxn

LEMMA CommitSerializableType ==
  ASSUME txn \in [Clients -> TxnRecord], NEW c \in Clients
  PROVE  CommitSerializable(c) \in [Clients -> TxnRecord]
<1>1. Idle \in TxnRecord
  BY DEF TxnRecord
<1>2. ASSUME NEW k \in Clients, txn[k].op \in GuardedOps
      PROVE  [txn[k] EXCEPT !.doomed = TRUE] \in TxnRecord
  BY <1>2, TxnByOp, DoomedType DEF TxnRecord
<1>. QED  BY <1>1, <1>2 DEF CommitSerializable

LEMMA TouchLotType ==
  ASSUME txn \in [Clients -> TxnRecord], NEW c \in Clients, NEW p, NEW b
  PROVE  TouchLot(c, p, b) \in [Clients -> TxnRecord]
<1>1. Idle \in TxnRecord
  BY DEF TxnRecord
<1>2. ASSUME NEW k \in Clients, txn[k].op \in GuardedOps
      PROVE  [txn[k] EXCEPT !.doomed = TRUE] \in TxnRecord
  BY <1>2, TxnByOp, DoomedType DEF TxnRecord
<1>. QED  BY <1>1, <1>2 DEF TouchLot

LEMMA PlanlessType ==
  ASSUME TypeOK, NEW op \in GuardedOps, NEW p \in Stock, NEW to \in Stock,
         NEW q \in Quantities
  PROVE  Planless(op, p, to, q) \in GuardedTxn
<1>1. unchecked[p] \in Nat
  BY DEF TypeOK
<1>. QED  BY <1>1 DEF Planless, NoPlan, GuardedTxn

\* A FEFO plan never takes more from a lot than the lot holds, provided no lot
\* is overdrawn to begin with.
LEMMA FefoPlanFits ==
  ASSUME NEW p \in Stock, NEW q \in Quantities, NEW plan \in FefoPlans(p, q),
         remaining \in [Lots -> Int], BatchNeverOverdrawn
  PROVE  /\ plan \in [BatchNos -> Nat]
         /\ \A b \in BatchNos : plan[b] <= remaining[<<p, b>>]
  BY QuantitiesArePositive DEF FefoPlans, BatchNeverOverdrawn, Lots

\* The four serializable operations begin alike: with a well-formed transaction
\* that passes the availability guard, notes what its source has lost so far and
\* plans no more than the lots hold.
GuardedBegin(c) ==
  \E t \in GuardedTxn :
     /\ BeginGuarded(c, t)
     /\ t.lostBefore = unchecked[t.src]
     /\ ~t.doomed
     /\ BatchNeverOverdrawn
        => \A b \in BatchNos : t.plan[b] <= remaining[<<t.src, b>>]

LEMMA SerializableBegins ==
  ASSUME TypeOK, NEW c \in Clients, NEW p \in Stock, NEW q \in Quantities,
         \/ BeginDispatch(c, p, q)
         \/ BeginDispatchFefo(c, p, q)
         \/ \E w \in Warehouses : BeginTransfer(c, p, <<p[1], w>>, q)
         \/ BeginReserve(c, p, q)
  PROVE  GuardedBegin(c)
<1>1. ASSUME NEW op \in GuardedOps, NEW to \in Stock,
             BeginGuarded(c, Planless(op, p, to, q))
      PROVE  GuardedBegin(c)
  <2>. DEFINE t == Planless(op, p, to, q)
  <2>1. t \in GuardedTxn
    BY PlanlessType
  <2>2. /\ t.src = p /\ t.lostBefore = unchecked[p] /\ ~t.doomed
        /\ \A b \in BatchNos : t.plan[b] = 0
    BY DEF Planless, NoPlan
  <2>3. BatchNeverOverdrawn
        => \A b \in BatchNos : t.plan[b] <= remaining[<<t.src, b>>]
    BY <2>2 DEF BatchNeverOverdrawn, Lots, TypeOK
  <2>. QED  BY <1>1, <2>1, <2>2, <2>3 DEF GuardedBegin
<1>2. CASE BeginDispatch(c, p, q) \/ BeginReserve(c, p, q)
  BY <1>1, <1>2 DEF BeginDispatch, BeginReserve, GuardedOps
<1>3. CASE \E w \in Warehouses : BeginTransfer(c, p, <<p[1], w>>, q)
  <2>1. PICK w \in Warehouses : BeginTransfer(c, p, <<p[1], w>>, q)
    BY <1>3
  <2>2. <<p[1], w>> \in Stock
    BY DEF Stock
  <2>. QED  BY <1>1, <2>1, <2>2 DEF BeginTransfer, GuardedOps
<1>4. CASE BeginDispatchFefo(c, p, q)
  <2>1. PICK plan \in FefoPlans(p, q) :
          BeginGuarded(c, [Planless("dispatch", p, p, q) EXCEPT !.plan = plan])
    BY <1>4 DEF BeginDispatchFefo
  <2>. DEFINE t == [Planless("dispatch", p, p, q) EXCEPT !.plan = plan]
  <2>2. plan \in [BatchNos -> Nat]
    BY QuantitiesArePositive DEF FefoPlans
  <2>3. /\ t \in GuardedTxn /\ t.src = p /\ t.plan = plan
        /\ t.lostBefore = unchecked[p] /\ ~t.doomed
    <3>1. Planless("dispatch", p, p, q) \in GuardedTxn
      BY PlanlessType DEF GuardedOps
    <3>2. t \in GuardedTxn
      BY <2>2, <3>1 DEF GuardedTxn
    <3>. QED  BY <3>2 DEF Planless
  <2>4. BatchNeverOverdrawn
        => \A b \in BatchNos : t.plan[b] <= remaining[<<t.src, b>>]
    BY <2>3, FefoPlanFits DEF TypeOK
  <2>. QED  BY <2>1, <2>3, <2>4 DEF GuardedBegin
<1>. QED  BY <1>2, <1>3, <1>4

\* A request that begins writes nothing.
LEMMA BeginsRead ==
  ASSUME NEW c \in Clients, BeginStep(c)
  PROVE  UNCHANGED <<ledgerVars, rsvVars, batchVars, takes>>
<1>1. \A t : BeginGuarded(c, t) => UNCHANGED <<ledgerVars, rsvVars, batchVars, takes>>
  BY DEF BeginGuarded
<1>2. ASSUME NEW p \in Stock, NEW q \in Quantities,
             \/ BeginDispatch(c, p, q)
             \/ BeginDispatchFefo(c, p, q)
             \/ \E w \in Warehouses : BeginTransfer(c, p, <<p[1], w>>, q)
             \/ BeginReserve(c, p, q)
      PROVE  UNCHANGED <<ledgerVars, rsvVars, batchVars, takes>>
  BY <1>1, <1>2, Zenon DEF BeginDispatch, BeginDispatchFefo, BeginTransfer, BeginReserve
<1>3. \A p, q, b, e : BeginReceive(c, p, q, b, e)
                       => UNCHANGED <<ledgerVars, rsvVars, batchVars, takes>>
  BY DEF BeginReceive
<1>4. \A op, r : BeginClosing(c, op, r)
                   => UNCHANGED <<ledgerVars, rsvVars, batchVars, takes>>
  BY DEF BeginClosing
<1>. QED  BY <1>2, <1>3, <1>4 DEF BeginStep

-----------------------------------------------------------------------------
(* Type correctness.                                                       *)

LEMMA TypeInit == Init => TypeOK
  BY DEF Init, TypeOK, Idle, NoReservation, NoTake

LEMMA BeginGuardedType ==
  ASSUME TypeOK, NEW c \in Clients, NEW t \in GuardedTxn, BeginGuarded(c, t)
  PROVE  TypeOK'
  BY DEF TypeOK, BeginGuarded, ledgerVars, rsvVars, batchVars

\* A closing request names an existing row.
LEMMA ClosingRow ==
  ASSUME TypeOK, ClosingRowsExist, NEW c \in Clients, txn[c].op \in ClosingOps
  PROVE  /\ txn[c] \in ClosingTxn
         /\ txn[c].rsv \in Reservations
         /\ rsv[txn[c].rsv] \in ReservationRow
         /\ rsv[txn[c].rsv].of \in Stock
         /\ rsv[txn[c].rsv].qty \in Int /\ rsv[txn[c].rsv].qty > 0
<1>1. txn[c] \in ClosingTxn
  BY TxnByOp DEF TypeOK, TxnRecord
<1>2. txn[c].rsv \in Reservations
  BY <1>1 DEF ClosingTxn
<1>3. rsv[txn[c].rsv] \in ReservationRow
  BY <1>2 DEF TypeOK, ClosingRowsExist
<1>4. rsv[txn[c].rsv].of \in Stock /\ rsv[txn[c].rsv].qty \in Quantities
  BY <1>3 DEF ReservationRow
<1>. QED  BY <1>1, <1>2, <1>3, <1>4, QuantityIsPositive

\* Writing a status into an existing row.
LEMMA StatusWrite ==
  ASSUME TypeOK, NEW r \in Reservations, rsv[r] \in ReservationRow,
         NEW s \in {"FULFILLED", "RELEASED"}
  PROVE  /\ [rsv EXCEPT ![r].status = s]
              \in [Reservations -> ReservationRow \cup {NoReservation}]
         /\ \A i \in Reservations : rsv[i] # NoReservation
              => [rsv EXCEPT ![r].status = s][i] # NoReservation
<1>1. [rsv[r] EXCEPT !.status = s] \in ReservationRow
  BY DEF ReservationRow
<1>2. ReservationRow \cap {NoReservation} = {}
  BY DEF ReservationRow, NoReservation
<1>3. [rsv EXCEPT ![r].status = s] = [rsv EXCEPT ![r] = [rsv[r] EXCEPT !.status = s]]
  OBVIOUS
<1>. QED  BY <1>1, <1>2, <1>3 DEF TypeOK

LEMMA TypeStep == TypeOK /\ ClosingRowsExist /\ [Next]_vars => TypeOK'
<1> SUFFICES ASSUME TypeOK, ClosingRowsExist, [Next]_vars
             PROVE  TypeOK'
  OBVIOUS
<1>0. txn \in [Clients -> TxnRecord]
  BY DEF TypeOK, TxnRecord
<1>1. ASSUME NEW c \in Clients, NEW p \in Stock, NEW q \in Quantities,
             NEW b \in BatchNos \cup {NoBatch},
             NEW e \in ExpiryDates \cup {Never}, BeginReceive(c, p, q, b, e)
      PROVE  TypeOK'
  BY <1>1 DEF TypeOK, BeginReceive, ReceiptTxn, ledgerVars, rsvVars, batchVars
<1>2. ASSUME NEW c \in Clients, GuardedBegin(c)
      PROVE  TypeOK'
  BY <1>2, BeginGuardedType DEF GuardedBegin
<1>5. ASSUME NEW c \in Clients, NEW r \in Reservations,
             NEW op \in {"release", "fulfill"}, BeginClosing(c, op, r)
      PROVE  TypeOK'
  BY <1>5 DEF TypeOK, BeginClosing, ClosingTxn, ClosingOps, ledgerVars, rsvVars, batchVars
<1>6. ASSUME NEW c \in Clients, CommitReceive(c)
      PROVE  TypeOK'
  <2>1. txn[c] \in ReceiptTxn
    BY <1>0, <1>6, TxnByOp DEF CommitReceive
  <2>2. /\ txn[c].dst \in Stock /\ txn[c].qty \in Int
        /\ txn[c].batch \in BatchNos \cup {NoBatch}
        /\ txn[c].expiry \in ExpiryDates \cup {Never}
    BY <2>1, ReceiptFields
  <2>3. txn' \in [Clients -> TxnRecord]
    BY <1>0, <1>6, TouchLotType DEF CommitReceive, TxnRecord
  <2>4. physical' \in [Stock -> Int]
    BY <1>6, <2>2 DEF CommitReceive, Move, TypeOK
  <2>5. remaining' \in [Lots -> Int]
    BY <1>6, <2>2 DEF CommitReceive, TypeOK, batchVars
  <2>6. expiry' \in [Lots -> ExpiryDates \cup {Never}]
    BY <1>6, <2>2 DEF CommitReceive, TypeOK, batchVars
  <2>. QED  BY <1>6, <2>3, <2>4, <2>5, <2>6
            DEF CommitReceive, TypeOK, TxnRecord, rsvVars
<1>7. ASSUME NEW c \in Clients, CommitDispatch(c)
      PROVE  TypeOK'
  <2>1. txn[c] \in GuardedTxn
    BY <1>0, <1>7, TxnByOp DEF CommitDispatch, GuardedOps
  <2>2. txn[c].src \in Stock /\ txn[c].qty \in Int /\ txn[c].plan \in [BatchNos -> Nat]
    BY <2>1, GuardedFields
  <2>3. physical' \in [Stock -> Int]
    BY <1>7, <2>2 DEF CommitDispatch, Move, TypeOK
  <2>4. remaining' \in [Lots -> Int]
    BY <1>7, <2>2 DEF CommitDispatch, TypeOK, Lots
  <2>. QED  BY <1>0, <1>7, <2>3, <2>4, CommitSerializableType
            DEF CommitDispatch, TypeOK, TxnRecord, rsvVars
<1>8. ASSUME NEW c \in Clients, CommitTransfer(c)
      PROVE  TypeOK'
  <2>1. txn[c] \in GuardedTxn
    BY <1>0, <1>8, TxnByOp DEF CommitTransfer, GuardedOps
  <2>2. txn[c].src \in Stock /\ txn[c].dst \in Stock /\ txn[c].qty \in Int
    BY <2>1, GuardedFields
  <2>3. physical' \in [Stock -> Int]
    BY <1>8, <2>2 DEF CommitTransfer, TypeOK
  <2>. QED  BY <1>0, <1>8, <2>3, CommitSerializableType
            DEF CommitTransfer, TypeOK, TxnRecord, rsvVars, batchVars
<1>9. ASSUME NEW c \in Clients, CommitReserve(c)
      PROVE  TypeOK'
  <2>1. txn[c] \in GuardedTxn
    BY <1>0, <1>9, TxnByOp DEF CommitReserve, GuardedOps
  <2>2. txn[c].src \in Stock /\ txn[c].qty \in Quantities /\ txn[c].qty \in Int
    BY <2>1, GuardedFields
  <2>4. rsv' \in [Reservations -> ReservationRow \cup {NoReservation}]
    BY <1>9, <2>2 DEF CommitReserve, TypeOK, ReservationRow
  <2>. QED  BY <1>0, <1>9, <2>4, CommitSerializableType
            DEF CommitReserve, TypeOK, TxnRecord, batchVars
<1>10. ASSUME NEW c \in Clients, CommitRelease(c)
       PROVE  TypeOK'
  <2>1. txn[c].op \in ClosingOps
    BY <1>10 DEF CommitRelease, ClosingOps
  <2>2. /\ rsv' \in [Reservations -> ReservationRow \cup {NoReservation}]
        /\ \A i \in Reservations : rsv[i] # NoReservation
                                   => rsv'[i] # NoReservation
    BY <1>10, <2>1, ClosingRow, StatusWrite DEF CommitRelease
  <2>. QED  BY <1>10, <2>2 DEF CommitRelease, TypeOK, batchVars
<1>11. ASSUME NEW c \in Clients, FulfillCheckLock(c)
       PROVE  TypeOK'
  <2>1. txn[c].op \in ClosingOps
    BY <1>11 DEF FulfillCheckLock, ClosingOps
  <2>2. txn[c] \in ClosingTxn
    BY <2>1, ClosingRow
  <2>3. [txn[c] EXCEPT !.op = "fulfillUnlocked"] \in ClosingTxn
    BY <2>2 DEF ClosingTxn, ClosingOps
  <2>4. txn' = [txn EXCEPT ![c] = [txn[c] EXCEPT !.op = "fulfillUnlocked"]]
    BY <1>11 DEF FulfillCheckLock
  <2>5. [txn[c] EXCEPT !.op = "fulfillUnlocked"].rsv = txn[c].rsv
    BY <2>2 DEF ClosingTxn
  <2>. QED  BY <1>11, <2>1, <2>3, <2>4, <2>5
            DEF FulfillCheckLock, TypeOK, ledgerVars, rsvVars, batchVars
<1>12. ASSUME NEW c \in Clients, CommitFulfill(c)
       PROVE  TypeOK'
  <2>1. txn[c].op \in ClosingOps
    BY <1>12 DEF CommitFulfill, ClosingOps
  <2>2. /\ rsv' \in [Reservations -> ReservationRow \cup {NoReservation}]
        /\ \A i \in Reservations : rsv[i] # NoReservation
                                   => rsv'[i] # NoReservation
    BY <1>12, <2>1, ClosingRow, StatusWrite DEF CommitFulfill
  <2>4. physical' \in [Stock -> Int]
    BY <1>12, <2>1, ClosingRow DEF CommitFulfill, Move, TypeOK
  <2>5. unchecked' \in [Stock -> Nat]
    BY <1>12, <2>1, ClosingRow DEF CommitFulfill, TypeOK
  <2>6. dispatches' \in [Reservations -> Nat]
    BY <1>12, <2>1, ClosingRow DEF CommitFulfill, TypeOK
  <2>. QED  BY <1>12, <2>2, <2>4, <2>5, <2>6
            DEF CommitFulfill, TypeOK, batchVars
<1>13. ASSUME NEW p \in Stock, NEW d \in Deltas, Adjust(p, d)
       PROVE  TypeOK'
  <2>1. d \in Int
    BY DeltasAreNonZero
  <2>2. physical' \in [Stock -> Int] /\ unchecked' \in [Stock -> Nat]
    BY <1>13, <2>1 DEF Adjust, Move, CountUnchecked, TypeOK
  <2>. QED  BY <1>13, <2>2 DEF Adjust, TypeOK, rsvVars, batchVars
<1>14. ASSUME NEW p \in Stock, NEW q \in Quantities, ReceivePurchase(p, q)
       PROVE  TypeOK'
  <2>1. physical' \in [Stock -> Int]
    BY <1>14, QuantityIsPositive DEF ReceivePurchase, Move, TypeOK
  <2>. QED  BY <1>14, <2>1 DEF ReceivePurchase, TypeOK, rsvVars, batchVars
<1>15. ASSUME NEW c \in Clients, Abort(c)
       PROVE  TypeOK'
  BY <1>15 DEF Abort, TypeOK, ledgerVars, rsvVars, batchVars
<1>16. CASE UNCHANGED vars
  BY <1>16 DEF vars, TypeOK
<1>. QED
  BY <1>1, <1>2, <1>5, <1>6, <1>7, <1>8, <1>9, <1>10, <1>11, <1>12, <1>13,
     <1>14, <1>15, <1>16, SerializableBegins
     DEF Next, BeginStep, CommitStep, Correction

-----------------------------------------------------------------------------
(* Rows named by closing requests.                                         *)

\* Dooming other transactions changes neither their kind nor, for a closing
\* request, the row it names.
LEMMA CommitKeepsClosings ==
  ASSUME txn \in [Clients -> TxnRecord], NEW c \in Clients, NEW k \in Clients,
         NEW p, NEW b
  PROVE  /\ CommitSerializable(c)[k].op \in ClosingOps
            => CommitSerializable(c)[k] = txn[k]
         /\ TouchLot(c, p, b)[k].op \in ClosingOps
            => TouchLot(c, p, b)[k] = txn[k]
<1>1. Idle.op \notin ClosingOps
  BY DEF Idle, ClosingOps
<1>2. ASSUME txn[k].op \in GuardedOps
      PROVE  [txn[k] EXCEPT !.doomed = TRUE].op \notin ClosingOps
  BY <1>2, TxnByOp DEF GuardedTxn, GuardedOps, ClosingOps
<1>. QED  BY <1>1, <1>2 DEF CommitSerializable, TouchLot

LEMMA RowsStep == TypeOK /\ ClosingRowsExist /\ [Next]_vars => ClosingRowsExist'
<1> SUFFICES ASSUME TypeOK, ClosingRowsExist, [Next]_vars,
                    NEW k \in Clients, txn'[k].op \in ClosingOps
             PROVE  rsv'[txn'[k].rsv] # NoReservation
  BY DEF ClosingRowsExist
<1>0. txn \in [Clients -> TxnRecord]
  BY DEF TypeOK, TxnRecord
<1>. DEFINE Kept == txn'[k] = txn[k] /\ rsv' = rsv
<1>1. ASSUME Kept PROVE rsv'[txn'[k].rsv] # NoReservation
  BY <1>1 DEF ClosingRowsExist
<1>2. ASSUME NEW c \in Clients, NEW p \in Stock, NEW q \in Quantities,
             NEW b \in BatchNos \cup {NoBatch},
             NEW e \in ExpiryDates \cup {Never}, BeginReceive(c, p, q, b, e)
      PROVE  Kept
  BY <1>2 DEF BeginReceive, ClosingOps, rsvVars, TypeOK
<1>3. ASSUME NEW c \in Clients, GuardedBegin(c)
      PROVE  Kept
  BY <1>3 DEF GuardedBegin, BeginGuarded, ClosingOps, rsvVars, TypeOK,
              GuardedTxn, GuardedOps
<1>4. ASSUME NEW c \in Clients, NEW r \in Reservations,
             NEW op \in {"release", "fulfill"}, BeginClosing(c, op, r)
      PROVE  rsv'[txn'[k].rsv] # NoReservation
  <2>1. CASE k = c
    BY <1>4, <2>1 DEF BeginClosing, rsvVars, TypeOK, NoReservation
  <2>2. CASE k # c
    BY <1>1, <1>4, <2>2 DEF BeginClosing, rsvVars, TypeOK
  <2>. QED  BY <2>1, <2>2
<1>5. ASSUME NEW c \in Clients, CommitReceive(c)
      PROVE  Kept
  <2>1. txn'[k] = txn[k]
    BY <1>0, <1>5, CommitKeepsClosings DEF CommitReceive, ClosingOps, Idle
  <2>. QED  BY <1>5, <2>1 DEF CommitReceive, rsvVars
<1>6. ASSUME NEW c \in Clients, CommitDispatch(c) \/ CommitTransfer(c)
      PROVE  Kept
  <2>1. txn' = CommitSerializable(c) /\ rsv' = rsv
    BY <1>6 DEF CommitDispatch, CommitTransfer, rsvVars
  <2>. QED  BY <1>0, <2>1, CommitKeepsClosings
<1>7. ASSUME NEW c \in Clients, CommitReserve(c)
      PROVE  rsv'[txn'[k].rsv] # NoReservation
  <2>0. txn' = CommitSerializable(c)
    BY <1>7 DEF CommitReserve
  <2>1. txn'[k] = txn[k]
    BY <1>0, <2>0, CommitKeepsClosings
  <2>2. txn[k].rsv \in Reservations /\ rsv[txn[k].rsv] # NoReservation
    BY <2>1, ClosingRow DEF ClosingRowsExist
  <2>3. PICK r \in Reservations :
          /\ rsv[r] = NoReservation
          /\ rsv' = [rsv EXCEPT ![r] = [status |-> "ACTIVE",
                            of |-> txn[c].src, qty |-> txn[c].qty]]
    BY <1>7 DEF CommitReserve
  <2>. QED  BY <2>1, <2>2, <2>3 DEF TypeOK
<1>8. ASSUME NEW c \in Clients, CommitRelease(c) \/ CommitFulfill(c)
      PROVE  rsv'[txn'[k].rsv] # NoReservation
  <2>1. txn'[k] = txn[k]
    BY <1>8 DEF CommitRelease, CommitFulfill, ClosingOps, Idle, TypeOK
  <2>2. txn[k].rsv \in Reservations /\ rsv[txn[k].rsv] # NoReservation
    BY <2>1, ClosingRow DEF ClosingRowsExist
  <2>3. txn[c].op \in ClosingOps
    BY <1>8 DEF CommitRelease, CommitFulfill, ClosingOps
  <2>4. PICK s \in {"FULFILLED", "RELEASED"} :
          rsv' = [rsv EXCEPT ![txn[c].rsv].status = s]
    BY <1>8 DEF CommitRelease, CommitFulfill
  <2>. QED  BY <2>1, <2>2, <2>3, <2>4, ClosingRow, StatusWrite
<1>9. ASSUME NEW c \in Clients, FulfillCheckLock(c)
      PROVE  rsv'[txn'[k].rsv] # NoReservation
  <2>1. txn[c].op \in ClosingOps
    BY <1>9 DEF FulfillCheckLock, ClosingOps
  <2>2. txn[c] \in ClosingTxn
    BY <2>1, ClosingRow
  <2>3. CASE k = c
    <3>1. txn'[k] = [txn[c] EXCEPT !.op = "fulfillUnlocked"]
      BY <1>9, <2>3 DEF FulfillCheckLock, TypeOK
    <3>2. txn'[k].rsv = txn[c].rsv
      BY <2>2, <3>1 DEF ClosingTxn
    <3>. QED  BY <1>9, <2>1, <3>2 DEF FulfillCheckLock, rsvVars, ClosingRowsExist
  <2>4. CASE k # c
    BY <1>1, <1>9, <2>4 DEF FulfillCheckLock, rsvVars, TypeOK
  <2>. QED  BY <2>3, <2>4
<1>10. ASSUME NEW c \in Clients, Abort(c)
       PROVE  Kept
  BY <1>10 DEF Abort, ClosingOps, Idle, rsvVars, TypeOK
<1>11. ASSUME Correction PROVE Kept
  BY <1>11 DEF Correction, Adjust, ReceivePurchase, rsvVars
<1>12. CASE UNCHANGED vars
  BY <1>1, <1>12 DEF vars
<1>. QED
  BY <1>1, <1>2, <1>3, <1>4, <1>5, <1>6, <1>7, <1>8, <1>9, <1>10, <1>11, <1>12,
     SerializableBegins DEF Next, BeginStep, CommitStep

\* Every reachable state is well typed: no race leaves a row with an unknown
\* status, a ghost counter negative or a transaction half formed.
THEOREM TypeCorrect == Spec => []TypeOK
<1>1. Init => TypeOK /\ ClosingRowsExist
  BY TypeInit DEF Init, ClosingRowsExist, Idle, ClosingOps
<1>. QED  BY <1>1, TypeStep, RowsStep, PTL DEF Spec

-----------------------------------------------------------------------------
(* What is reserved.  Only a reserve and the first closing of an ACTIVE    *)
(* row change it.                                                          *)

\* The rows of p that hold units, and the units, in any table of rows.
RowTable == [Reservations -> ReservationRow \cup {NoReservation}]
ActiveRows(rows, p) ==
    {r \in Reservations : rows[r].status = "ACTIVE" /\ rows[r].of = p}
HeldBy(rows, p) == SumFunction([r \in ActiveRows(rows, p) |-> rows[r].qty])

LEMMA ActiveRowType ==
  ASSUME NEW rows \in RowTable, NEW p, NEW r \in ActiveRows(rows, p)
  PROVE  /\ r \in Reservations /\ rows[r] \in ReservationRow
         /\ rows[r].of = p /\ rows[r].qty \in Int
<1>1. r \in Reservations /\ rows[r].status = "ACTIVE" /\ rows[r].of = p
  BY DEF ActiveRows
<1>2. rows[r] \in ReservationRow
  BY <1>1 DEF RowTable, NoReservation
<1>3. rows[r].qty \in Quantities
  BY <1>2 DEF ReservationRow
<1>. QED  BY <1>1, <1>2, <1>3, QuantityIsPositive

LEMMA HeldByInt ==
  ASSUME NEW rows \in RowTable, NEW p, IsFiniteSet(ActiveRows(rows, p))
  PROVE  HeldBy(rows, p) \in Int
<1>. DEFINE A == ActiveRows(rows, p)
            f == [r \in A |-> rows[r].qty]
<1>1. \A r \in A : f[r] \in Int
  BY ActiveRowType
<1>. HIDE DEF A
<1>2. SumFunctionOnSet(f, A) \in Int
  <2>. HIDE DEF f
  <2>. QED  BY <1>1, SumInt DEF A
<1>3. SumFunction(f) = SumFunctionOnSet(f, A)
  BY DEF SumFunction
<1>. QED  BY <1>2, <1>3 DEF HeldBy, A

\* Tables that hold the same rows ACTIVE for p hold as many units of it.
LEMMA HeldBySame ==
  ASSUME NEW one, NEW other, NEW p, ActiveRows(one, p) = ActiveRows(other, p),
         \A r \in ActiveRows(one, p) : one[r].qty = other[r].qty
  PROVE  HeldBy(one, p) = HeldBy(other, p)
<1>1. [r \in ActiveRows(one, p) |-> one[r].qty]
        = [r \in ActiveRows(other, p) |-> other[r].qty]
  OBVIOUS
<1>. QED  BY <1>1 DEF HeldBy

\* One more ACTIVE row of p adds its units, and touches no other pair.
LEMMA HeldByMore ==
  ASSUME NEW rows \in RowTable, NEW r \in Reservations, rows[r] = NoReservation,
         NEW p \in Stock, NEW q \in Quantities, NEW x \in Stock,
         IsFiniteSet(ActiveRows(rows, x)),
         NEW next, next[r].status = "ACTIVE", next[r].of = p, next[r].qty = q,
         \A i \in Reservations \ {r} : next[i] = rows[i]
  PROVE  /\ IsFiniteSet(ActiveRows(next, x))
         /\ HeldBy(next, x) = HeldBy(rows, x) + IF x = p THEN q ELSE 0
<1>. DEFINE A == ActiveRows(rows, x)
            B == ActiveRows(next, x)
            f == [i \in A |-> rows[i].qty]
            g == [i \in B |-> next[i].qty]
<1>0. rows[r].status = "NONE"
  BY DEF NoReservation
<1>1. /\ r \notin A
      /\ B = IF x = p THEN A \cup {r} ELSE A
      /\ \A i \in A : next[i] = rows[i]
  BY <1>0 DEF ActiveRows
<1>2. HeldBy(rows, x) \in Int
  BY HeldByInt
<1>3. CASE x = p
  <2>1. \A i \in A : g[i] = f[i] /\ f[i] \in Int
    BY <1>1, <1>3, ActiveRowType
  <2>2. B = A \cup {r} /\ g[r] = q /\ q \in Int
    BY <1>0, <1>1, <1>3, QuantityIsPositive
  <2>3. SumFunction(f) = SumFunctionOnSet(f, A) /\ SumFunction(g) = SumFunctionOnSet(g, B)
    BY DEF SumFunction
  <2>4. HeldBy(rows, x) = SumFunctionOnSet(f, A) /\ HeldBy(next, x) = SumFunctionOnSet(g, B)
    BY <2>3 DEF HeldBy
  <2>5. IsFiniteSet(A) /\ r \notin A
    BY <1>1
  <2>. HIDE DEF f, g, A, B
  <2>6. \A i \in A \cup {r} : g[i] \in Int
    BY <2>1, <2>2
  <2>7. /\ IsFiniteSet(A \cup {r})
        /\ SumFunctionOnSet(g, A \cup {r}) = SumFunctionOnSet(g, A) + g[r]
    BY <2>5, <2>6, SumWith
  <2>8. SumFunctionOnSet(f, A) = SumFunctionOnSet(g, A)
    BY <2>1, <2>5, SumSame
  <2>9. HeldBy(next, x) = HeldBy(rows, x) + q
    BY <2>2, <2>4, <2>7, <2>8
  <2>. QED  BY <1>3, <2>2, <2>7, <2>9 DEF B
<1>4. CASE x # p
  <2>1. A = B /\ HeldBy(rows, x) = HeldBy(next, x)
    BY <1>1, <1>4, HeldBySame
  <2>. QED  BY <1>2, <1>4, <2>1
<1>. QED  BY <1>3, <1>4

\* A status written into a row ends what it held, if it held any.
LEMMA HeldByLess ==
  ASSUME NEW rows \in RowTable, NEW r \in Reservations, rows[r] \in ReservationRow,
         NEW x \in Stock, IsFiniteSet(ActiveRows(rows, x)),
         NEW next, next[r].status # "ACTIVE",
         \A i \in Reservations \ {r} : next[i] = rows[i]
  PROVE  /\ IsFiniteSet(ActiveRows(next, x))
         /\ HeldBy(next, x)
              = HeldBy(rows, x) - IF rows[r].status = "ACTIVE" /\ rows[r].of = x
                                  THEN rows[r].qty ELSE 0
<1>. DEFINE A == ActiveRows(rows, x)
            B == ActiveRows(next, x)
            f == [i \in A |-> rows[i].qty]
            g == [i \in B |-> next[i].qty]
<1>1. /\ B = A \ {r}
      /\ \A i \in B : next[i] = rows[i]
      /\ r \in A <=> rows[r].status = "ACTIVE" /\ rows[r].of = x
  BY DEF ActiveRows
<1>2. HeldBy(rows, x) \in Int
  BY HeldByInt
<1>3. CASE r \in A
  <2>1. \A i \in A : f[i] \in Int
    BY ActiveRowType
  <2>2. f[r] = rows[r].qty /\ \A i \in B : g[i] = f[i]
    BY <1>1, <1>3
  <2>3. SumFunction(f) = SumFunctionOnSet(f, A) /\ SumFunction(g) = SumFunctionOnSet(g, B)
    BY DEF SumFunction
  <2>4. HeldBy(rows, x) = SumFunctionOnSet(f, A) /\ HeldBy(next, x) = SumFunctionOnSet(g, B)
    BY <2>3 DEF HeldBy
  <2>. HIDE DEF f, g, A, B
  <2>5. IsFiniteSet(A) /\ IsFiniteSet(A \ {r})
    BY FS_RemoveElement DEF A
  <2>6. /\ SumFunctionOnSet(f, A \ {r}) \in Int
        /\ SumFunctionOnSet(f, A) = f[r] + SumFunctionOnSet(f, A \ {r})
    BY <1>3, <2>1, <2>5, SumWithout
  <2>7. SumFunctionOnSet(g, B) = SumFunctionOnSet(f, B)
    BY <1>1, <2>2, <2>5, SumSame
  <2>8. HeldBy(next, x) = HeldBy(rows, x) - rows[r].qty
    BY <1>1, <1>3, <2>1, <2>2, <2>4, <2>6, <2>7
  <2>. QED  BY <1>1, <1>3, <2>5, <2>8 DEF A, B
<1>4. CASE r \notin A
  <2>1. A = B /\ HeldBy(rows, x) = HeldBy(next, x)
    BY <1>1, <1>4, HeldBySame
  <2>2. ~(rows[r].status = "ACTIVE" /\ rows[r].of = x)
    BY <1>1, <1>4
  <2>3. HeldBy(next, x) = HeldBy(rows, x) - 0
    BY <1>2, <2>1
  <2>. QED  BY <2>1, <2>2, <2>3
<1>. QED  BY <1>3, <1>4

-----------------------------------------------------------------------------
(* The same of the reservations of a state.                                *)

\* Only finitely many reservations are ACTIVE: none is made by two steps at once.
FinitelyActive == \A p \in Stock : IsFiniteSet(ActiveOf(p))

Typed == TypeOK /\ ClosingRowsExist /\ FinitelyActive

LEMMA HeldByRows ==
  /\ \A p : ActiveOf(p) = ActiveRows(rsv, p) /\ reservedStock(p) = HeldBy(rsv, p)
  /\ \A p : ActiveOf(p)' = ActiveRows(rsv', p) /\ reservedStock(p)' = HeldBy(rsv', p)
  BY DEF ActiveOf, ActiveRows, reservedStock, HeldBy

LEMMA AvailableInt ==
  ASSUME TypeOK, FinitelyActive, NEW p \in Stock
  PROVE  reservedStock(p) \in Int /\ Available(p) \in Int
<1>1. rsv \in RowTable /\ IsFiniteSet(ActiveRows(rsv, p))
  BY HeldByRows DEF TypeOK, RowTable, FinitelyActive
<1>2. reservedStock(p) \in Int
  BY <1>1, HeldByInt, HeldByRows
<1>. QED  BY <1>2 DEF Available, TypeOK

\* The three ways a step deals with the reservations.
KeepsRsv == rsv' = rsv
Holds(r, p, q) ==
    /\ rsv[r] = NoReservation
    /\ rsv' = [rsv EXCEPT ![r] = [status |-> "ACTIVE", of |-> p, qty |-> q]]
LetsGo(r, s) ==
    /\ rsv[r] \in ReservationRow
    /\ rsv' = [rsv EXCEPT ![r] = [rsv[r] EXCEPT !.status = s]]

LEMMA KeptReserved ==
  ASSUME KeepsRsv, NEW p
  PROVE  reservedStock(p)' = reservedStock(p) /\ ActiveOf(p)' = ActiveOf(p)
  BY HeldByRows DEF KeepsRsv

LEMMA MoreReserved ==
  ASSUME TypeOK, FinitelyActive, NEW r \in Reservations, NEW p \in Stock,
         NEW q \in Quantities, Holds(r, p, q), NEW x \in Stock
  PROVE  /\ IsFiniteSet(ActiveOf(x)')
         /\ reservedStock(x)' = reservedStock(x) + IF x = p THEN q ELSE 0
<1>1. rsv \in RowTable /\ IsFiniteSet(ActiveRows(rsv, x))
  BY HeldByRows DEF TypeOK, RowTable, FinitelyActive
<1>2. /\ rsv[r] = NoReservation
      /\ rsv'[r].status = "ACTIVE" /\ rsv'[r].of = p /\ rsv'[r].qty = q
      /\ \A i \in Reservations \ {r} : rsv'[i] = rsv[i]
  BY DEF Holds, TypeOK
<1>3. /\ IsFiniteSet(ActiveRows(rsv', x))
      /\ HeldBy(rsv', x) = HeldBy(rsv, x) + IF x = p THEN q ELSE 0
  BY <1>1, <1>2, HeldByMore
<1>. QED  BY <1>3, HeldByRows

LEMMA LessReserved ==
  ASSUME TypeOK, FinitelyActive, NEW r \in Reservations, NEW s, s # "ACTIVE",
         LetsGo(r, s), NEW x \in Stock
  PROVE  /\ IsFiniteSet(ActiveOf(x)')
         /\ reservedStock(x)' = reservedStock(x)
              - IF rsv[r].status = "ACTIVE" /\ rsv[r].of = x THEN rsv[r].qty ELSE 0
<1>1. rsv \in RowTable /\ IsFiniteSet(ActiveRows(rsv, x))
  BY HeldByRows DEF TypeOK, RowTable, FinitelyActive
<1>2. /\ rsv[r] \in ReservationRow
      /\ rsv'[r].status # "ACTIVE"
      /\ \A i \in Reservations \ {r} : rsv'[i] = rsv[i]
  BY DEF LetsGo, TypeOK, ReservationRow
<1>3. /\ IsFiniteSet(ActiveRows(rsv', x))
      /\ HeldBy(rsv', x) = HeldBy(rsv, x)
           - IF rsv[r].status = "ACTIVE" /\ rsv[r].of = x THEN rsv[r].qty ELSE 0
  BY <1>1, <1>2, HeldByLess
<1>. QED  BY <1>3, HeldByRows

\* Requests that only read, check, give up or do nothing.
LEMMA ReadingIsQuiet ==
  ASSUME NEW c \in Clients, BeginStep(c) \/ FulfillCheckLock(c) \/ Abort(c)
  PROVE  UNCHANGED <<physical, rsv, dispatches, unchecked>>
<1>. USE DEF ledgerVars, rsvVars
<1>1. CASE BeginStep(c)
  BY <1>1, BeginsRead
<1>2. CASE FulfillCheckLock(c) \/ Abort(c)
  BY <1>2 DEF FulfillCheckLock, Abort
<1>. QED  BY <1>1, <1>2

LEMMA ReserveHolds ==
  ASSUME TypeOK, NEW c \in Clients, CommitReserve(c)
  PROVE  /\ txn[c].src \in Stock /\ txn[c].qty \in Quantities
         /\ \E r \in Reservations : Holds(r, txn[c].src, txn[c].qty)
<1>1. txn[c] \in GuardedTxn
  BY TxnByOp DEF TypeOK, TxnRecord, CommitReserve, GuardedOps
<1>. QED  BY <1>1, GuardedFields DEF CommitReserve, Holds

LEMMA ClosingLetsGo ==
  ASSUME TypeOK, ClosingRowsExist, NEW c \in Clients,
         CommitRelease(c) \/ CommitFulfill(c)
  PROVE  /\ txn[c].rsv \in Reservations
         /\ \E s \in {"FULFILLED", "RELEASED"} : LetsGo(txn[c].rsv, s)
<1>1. txn[c].op \in ClosingOps
  BY DEF CommitRelease, CommitFulfill, ClosingOps
<1>2. txn[c].rsv \in Reservations /\ rsv[txn[c].rsv] \in ReservationRow
  BY <1>1, ClosingRow
<1>. QED  BY <1>2 DEF CommitRelease, CommitFulfill, LetsGo

LEMMA ReservedWrites ==
  ASSUME TypeOK, ClosingRowsExist, [Next]_vars
  PROVE  \/ KeepsRsv
         \/ \E r \in Reservations, p \in Stock, q \in Quantities : Holds(r, p, q)
         \/ \E r \in Reservations, s \in {"FULFILLED", "RELEASED"} : LetsGo(r, s)
<1>1. ASSUME NEW c \in Clients,
             \/ BeginStep(c) \/ FulfillCheckLock(c) \/ Abort(c)
             \/ CommitReceive(c) \/ CommitDispatch(c) \/ CommitTransfer(c)
      PROVE  KeepsRsv
  <2>1. CASE BeginStep(c) \/ FulfillCheckLock(c) \/ Abort(c)
    BY <2>1, ReadingIsQuiet DEF KeepsRsv
  <2>2. CASE CommitReceive(c) \/ CommitDispatch(c) \/ CommitTransfer(c)
    BY <2>2 DEF CommitReceive, CommitDispatch, CommitTransfer, rsvVars, KeepsRsv
  <2>. QED  BY <1>1, <2>1, <2>2
<1>2. ASSUME Correction \/ UNCHANGED vars
      PROVE  KeepsRsv
  BY <1>2 DEF Correction, Adjust, ReceivePurchase, vars, rsvVars, KeepsRsv
<1>. QED
  BY <1>1, <1>2, ReserveHolds, ClosingLetsGo DEF Next, CommitStep

LEMMA FiniteStep == Typed /\ [Next]_vars => FinitelyActive'
<1>. SUFFICES ASSUME Typed, [Next]_vars, NEW x \in Stock
              PROVE  IsFiniteSet(ActiveOf(x)')
  BY DEF FinitelyActive
<1>0. TypeOK /\ ClosingRowsExist /\ FinitelyActive
  BY DEF Typed
<1>1. CASE KeepsRsv
  BY <1>0, <1>1, KeptReserved DEF FinitelyActive
<1>2. ASSUME NEW r \in Reservations, NEW p \in Stock, NEW q \in Quantities,
             Holds(r, p, q)
      PROVE  IsFiniteSet(ActiveOf(x)')
  BY <1>0, <1>2, MoreReserved
<1>3. ASSUME NEW r \in Reservations, NEW s \in {"FULFILLED", "RELEASED"}, LetsGo(r, s)
      PROVE  IsFiniteSet(ActiveOf(x)')
  BY <1>0, <1>3, LessReserved
<1>. QED  BY <1>0, <1>1, <1>2, <1>3, ReservedWrites

LEMMA TypedInit == Init => Typed
<1>. SUFFICES ASSUME Init PROVE Typed
  OBVIOUS
<1>1. \A p \in Stock : ActiveOf(p) = {}
  BY DEF Init, ActiveOf, NoReservation
<1>2. ClosingRowsExist
  BY DEF Init, ClosingRowsExist, Idle, ClosingOps
<1>. QED  BY <1>1, <1>2, TypeInit, FS_EmptySet DEF Typed, FinitelyActive

LEMMA TypedStep == Typed /\ [Next]_vars => Typed'
  BY TypeStep, RowsStep, FiniteStep DEF Typed

-----------------------------------------------------------------------------
(* No overselling.  OversellBounded is not inductive: it must be known that *)
(* the stock each open serializable transaction saw is still there, unless *)
(* the transaction has been doomed.                                        *)

Safe == OversellBounded /\ BatchNeverOverdrawn /\ InFlightCovered

Headroom(p) == Available(p) + unchecked[p]

LEMMA HeadroomInt ==
  ASSUME Typed, Typed', NEW p \in Stock
  PROVE  Headroom(p) \in Int /\ Headroom(p)' \in Int
<1>1. Available(p) \in Int /\ unchecked[p] \in Nat /\ unchecked'[p] \in Nat
  BY AvailableInt DEF Typed, TypeOK
<1>2. rsv' \in RowTable /\ IsFiniteSet(ActiveRows(rsv', p))
  BY HeldByRows DEF Typed, TypeOK, RowTable, FinitelyActive
<1>3. reservedStock(p)' \in Int /\ physical'[p] \in Int
  BY <1>2, HeldByInt, HeldByRows DEF Typed, TypeOK
<1>. QED  BY <1>1, <1>3 DEF Headroom, Available

LEMMA InFlightType ==
  ASSUME TypeOK, NEW k \in Clients, txn[k].op \in GuardedOps
  PROVE  txn[k] \in GuardedTxn
  BY TxnByOp DEF TypeOK, TxnRecord

\* In terms of headroom: what a request wants, and what was lost before it
\* looked, is there.
LEMMA CoveredNow ==
  ASSUME Typed, InFlightCovered, NEW k \in Clients, txn[k].op \in GuardedOps,
         ~txn[k].doomed
  PROVE  /\ txn[k].src \in Stock /\ txn[k].dst \in Stock
         /\ txn[k].qty \in Int /\ txn[k].qty > 0
         /\ txn[k].lostBefore \in Nat /\ txn[k].plan \in [BatchNos -> Nat]
         /\ txn[k].qty + txn[k].lostBefore <= Headroom(txn[k].src)
         /\ \A b \in BatchNos : txn[k].plan[b] <= remaining[<<txn[k].src, b>>]
<1>. DEFINE t == txn[k]
<1>1. /\ t.src \in Stock /\ t.dst \in Stock /\ t.qty \in Int /\ t.qty > 0
      /\ t.lostBefore \in Nat /\ t.plan \in [BatchNos -> Nat]
  BY InFlightType, GuardedFields DEF Typed
<1>2. t.qty <= Available(t.src) + (unchecked[t.src] - t.lostBefore)
  BY DEF InFlightCovered, LostSince
<1>3. Available(t.src) \in Int /\ unchecked[t.src] \in Int
  BY <1>1, AvailableInt DEF Typed, TypeOK
<1>4. t.qty + t.lostBefore <= Headroom(t.src)
  BY <1>1, <1>2, <1>3 DEF Headroom
<1>. QED  BY <1>1, <1>4 DEF InFlightCovered

\* After the step, transaction t is covered by the stock and lots of its source.
HeadroomNext(p) == physical'[p] - HeldBy(rsv', p) + unchecked'[p]

LEMMA HeadroomIsNext == \A p : Headroom(p)' = HeadroomNext(p)
  BY HeldByRows DEF Headroom, Available, HeadroomNext

CoveredNext(t) ==
  /\ t.qty + t.lostBefore <= HeadroomNext(t.src)
  /\ \A b \in BatchNos : t.plan[b] <= remaining'[<<t.src, b>>]

LEMMA CoverNext ==
  ASSUME Typed, Typed',
         \A k \in Clients : txn'[k].op \in GuardedOps /\ ~txn'[k].doomed
                            => CoveredNext(txn'[k])
  PROVE  InFlightCovered'
<1>. SUFFICES ASSUME NEW k \in Clients, txn'[k].op \in GuardedOps,
                     ~txn'[k].doomed
              PROVE  /\ txn'[k].qty <= Available(txn[k].src)'
                                       + (unchecked'[txn'[k].src] - txn'[k].lostBefore)
                     /\ \A b \in BatchNos : txn'[k].plan[b]
                                            <= remaining'[<<txn'[k].src, b>>]
  BY DEF InFlightCovered, LostSince
<1>. DEFINE t == txn'[k]
<1>1. t \in GuardedTxn
  BY TxnByOp DEF Typed, TypeOK, TxnRecord
<1>2. t.src \in Stock /\ t.qty \in Int /\ t.lostBefore \in Nat
  BY <1>1, GuardedFields
<1>3. rsv' \in RowTable /\ IsFiniteSet(ActiveRows(rsv', t.src))
  BY <1>2, HeldByRows DEF Typed, TypeOK, RowTable, FinitelyActive
<1>4. HeldBy(rsv', t.src) \in Int /\ physical'[t.src] \in Int /\ unchecked'[t.src] \in Int
  BY <1>2, <1>3, HeldByInt DEF Typed, TypeOK
<1>5. t.qty + t.lostBefore
        <= physical'[t.src] - HeldBy(rsv', t.src) + unchecked'[t.src]
  BY DEF CoveredNext, HeadroomNext
<1>6. Available(txn[k].src)' = physical'[t.src] - HeldBy(rsv', t.src)
  BY DEF Available, reservedStock, HeldBy, ActiveOf, ActiveRows
<1>. QED  BY <1>2, <1>4, <1>5, <1>6 DEF CoveredNext

\* A commit of a receipt leaves a serializable transaction as it was or doomed.
LEMMA DoomedOrKept ==
  ASSUME TypeOK, NEW c \in Clients, NEW p, NEW b, NEW k \in Clients,
         \/ /\ txn' = TouchLot(c, p, b)
         \/ /\ txn' = [txn EXCEPT ![c] = Idle],
         txn'[k].op \in GuardedOps, ~txn'[k].doomed
  PROVE  txn'[k] = txn[k]
<1>1. Idle.op \notin GuardedOps
  BY DEF Idle, GuardedOps
<1>2. ASSUME txn[k].op \in GuardedOps
      PROVE  [txn[k] EXCEPT !.doomed = TRUE].doomed
  BY <1>2, InFlightType DEF GuardedTxn
<1>. QED  BY <1>1, <1>2 DEF TouchLot, TypeOK

\* A step that takes no headroom from any pair and nothing from any lot, and
\* starts no serializable transaction, is harmless.
LEMMA HarmlessStep ==
  ASSUME Typed, Typed', Safe,
         \A p \in Stock : Headroom(p)' >= Headroom(p),
         \A l \in Lots : remaining'[l] >= remaining[l],
         \A k \in Clients : txn'[k].op \in GuardedOps /\ ~txn'[k].doomed
                            => txn'[k] = txn[k]
  PROVE  Safe'
<1>0. /\ remaining \in [Lots -> Int] /\ remaining' \in [Lots -> Int]
  BY DEF Typed, TypeOK
<1>1. OversellBounded'
  <2> SUFFICES ASSUME NEW p \in Stock PROVE Headroom(p)' >= 0
    BY DEF OversellBounded, Headroom
  <2>1. Headroom(p) >= 0
    BY DEF Safe, OversellBounded, Headroom
  <2>. QED  BY <2>1, HeadroomInt
<1>2. BatchNeverOverdrawn'
  BY <1>0 DEF Safe, BatchNeverOverdrawn
<1>3. InFlightCovered'
  <2> SUFFICES ASSUME NEW k \in Clients, txn'[k].op \in GuardedOps,
                      ~txn'[k].doomed
               PROVE  CoveredNext(txn'[k])
    BY CoverNext
  <2>. DEFINE t == txn[k]
  <2>1. txn'[k] = t /\ t.op \in GuardedOps /\ ~t.doomed
    OBVIOUS
  <2>2. /\ t.src \in Stock /\ t.qty \in Int /\ t.lostBefore \in Nat
        /\ t.plan \in [BatchNos -> Nat]
        /\ t.qty + t.lostBefore <= Headroom(t.src)
        /\ \A b \in BatchNos : t.plan[b] <= remaining[<<t.src, b>>]
    BY <2>1, CoveredNow DEF Safe
  <2>. HIDE DEF t
  <2>3. ASSUME NEW p \in Stock, t.qty + t.lostBefore <= Headroom(p)
        PROVE  t.qty + t.lostBefore <= HeadroomNext(p)
    BY <2>2, <2>3, HeadroomInt, HeadroomIsNext
  <2>4. ASSUME NEW p \in Stock, NEW b \in BatchNos, t.plan[b] <= remaining[<<p, b>>]
        PROVE  t.plan[b] <= remaining'[<<p, b>>]
    <3>1. <<p, b>> \in Lots
      BY DEF Lots
    <3>. QED  BY <1>0, <2>2, <2>4, <3>1
  <2>5. CoveredNext(t)
    BY <2>2, <2>3, <2>4 DEF CoveredNext
  <2>. QED  BY <2>1, <2>5
<1>. QED  BY <1>1, <1>2, <1>3 DEF Safe

\* A serializable transaction that commits takes at most its quantity from its
\* source and its plan from the source's lots; every other transaction with the
\* same source is doomed by the commit, so the rest is still covered.
LEMMA GuardedCommitStep ==
  ASSUME Typed, Typed', Safe, NEW c \in Clients,
         txn[c].op \in GuardedOps, ~txn[c].doomed,
         txn' = CommitSerializable(c),
         \A p \in Stock : Headroom(p)' >= IF p = txn[c].src
                                         THEN Headroom(p) - txn[c].qty
                                         ELSE Headroom(p),
         \A l \in Lots : remaining'[l] >= IF l[1] = txn[c].src
                                         THEN remaining[l] - txn[c].plan[l[2]]
                                         ELSE remaining[l]
  PROVE  Safe'
<1>. DEFINE s == txn[c].src
<1>0. /\ s \in Stock /\ txn[c].qty \in Int /\ txn[c].plan \in [BatchNos -> Nat]
      /\ txn[c].lostBefore \in Nat
      /\ txn[c].qty + txn[c].lostBefore <= Headroom(s)
      /\ \A b \in BatchNos : txn[c].plan[b] <= remaining[<<s, b>>]
  BY CoveredNow DEF Safe
<1>1. OversellBounded'
  <2> SUFFICES ASSUME NEW p \in Stock PROVE Headroom(p)' >= 0
    BY DEF OversellBounded, Headroom
  <2>1. Headroom(p) >= 0
    BY DEF Safe, OversellBounded, Headroom
  <2>2. Headroom(p) \in Int /\ Headroom(p)' \in Int
    BY HeadroomInt
  <2>3. CASE p = s
    <3>1. Headroom(p)' >= Headroom(p) - txn[c].qty
      BY <2>3
    <3>2. txn[c].qty + txn[c].lostBefore <= Headroom(p)
      BY <1>0, <2>3
    <3>. QED  BY <1>0, <2>2, <3>1, <3>2
  <2>4. CASE p # s
    BY <2>1, <2>2, <2>4
  <2>. QED  BY <2>3, <2>4
<1>2. BatchNeverOverdrawn'
  <2> SUFFICES ASSUME NEW p \in Stock, NEW b \in BatchNos
               PROVE  remaining'[<<p, b>>] >= 0
    BY DEF BatchNeverOverdrawn, Lots
  <2>1. <<p, b>> \in Lots /\ <<p, b>>[1] = p /\ <<p, b>>[2] = b
    BY DEF Lots
  <2>2. remaining[<<p, b>>] >= 0
    BY <2>1 DEF Safe, BatchNeverOverdrawn
  <2>3. remaining[<<p, b>>] \in Int /\ remaining'[<<p, b>>] \in Int
    BY <2>1 DEF Typed, TypeOK
  <2>4. txn[c].plan[b] \in Nat
    BY <1>0
  <2>. QED  BY <1>0, <2>1, <2>2, <2>3, <2>4
<1>3. InFlightCovered'
  <2> SUFFICES ASSUME NEW k \in Clients, txn'[k].op \in GuardedOps,
                      ~txn'[k].doomed
               PROVE  CoveredNext(txn'[k])
    BY CoverNext
  <2>. DEFINE t == txn[k]
  <2>1. k # c
    BY DEF CommitSerializable, Typed, TypeOK, Idle, GuardedOps
  <2>2. t.op \in GuardedOps /\ ~Conflict(txn[c], t) /\ txn'[k] = t
    <3>1. CASE t.op \in GuardedOps /\ Conflict(txn[c], t)
      <4>1. t \in GuardedTxn
        BY <3>1, InFlightType DEF Typed
      <4>2. txn'[k] = [t EXCEPT !.doomed = TRUE]
        BY <2>1, <3>1 DEF CommitSerializable
      <4>3. txn'[k].doomed
        BY <4>1, <4>2 DEF GuardedTxn
      <4>. QED  BY <4>3
    <3>2. CASE ~(t.op \in GuardedOps /\ Conflict(txn[c], t))
      BY <2>1, <3>2 DEF CommitSerializable
    <3>. QED  BY <3>1, <3>2
  <2>3. t.src # s
    BY <2>2 DEF Conflict, Touched
  <2>4. /\ t.src \in Stock /\ t.qty \in Int /\ t.lostBefore \in Nat
        /\ t.plan \in [BatchNos -> Nat]
        /\ t.qty + t.lostBefore <= Headroom(t.src)
        /\ \A b \in BatchNos : t.plan[b] <= remaining[<<t.src, b>>]
    BY <2>2, CoveredNow DEF Safe
  <2>. HIDE DEF t, s
  <2>6. ASSUME NEW p \in Stock, p # s, t.qty + t.lostBefore <= Headroom(p)
        PROVE  t.qty + t.lostBefore <= HeadroomNext(p)
    <3>1. Headroom(p)' >= Headroom(p)
      BY <2>6 DEF s
    <3>. QED  BY <2>4, <2>6, <3>1, HeadroomInt, HeadroomIsNext
  <2>7. ASSUME NEW p \in Stock, p # s, NEW b \in BatchNos,
               t.plan[b] <= remaining[<<p, b>>]
        PROVE  t.plan[b] <= remaining'[<<p, b>>]
    <3>1. <<p, b>> \in Lots /\ <<p, b>>[1] = p
      BY DEF Lots
    <3>2. remaining'[<<p, b>>] >= remaining[<<p, b>>]
      BY <2>7, <3>1 DEF s
    <3>3. t.plan[b] \in Int
      BY <2>4
    <3>. QED  BY <2>7, <3>1, <3>2, <3>3 DEF Typed, TypeOK
  <2>8. CoveredNext(t)
    BY <2>3, <2>4, <2>6, <2>7 DEF CoveredNext
  <2>. QED  BY <2>2, <2>8
<1>. QED  BY <1>1, <1>2, <1>3 DEF Safe

\* A serializable transaction starts covered: that is its guard.
LEMMA GuardedBeginStep ==
  ASSUME Typed, Typed', Safe, NEW c \in Clients, GuardedBegin(c)
  PROVE  Safe'
<1>1. PICK t \in GuardedTxn :
        /\ BeginGuarded(c, t)
        /\ t.lostBefore = unchecked[t.src]
        /\ \A b \in BatchNos : t.plan[b] <= remaining[<<t.src, b>>]
  BY DEF GuardedBegin, Safe
<1>2. /\ UNCHANGED <<physical, unchecked, remaining>> /\ KeepsRsv
      /\ txn' = [txn EXCEPT ![c] = t]
      /\ t.qty <= Available(t.src)
  BY <1>1 DEF BeginGuarded, ledgerVars, batchVars, rsvVars, KeepsRsv
<1>3. \A p : Headroom(p)' = Headroom(p)
  BY <1>2, KeptReserved DEF Headroom, Available
<1>4. t.qty + t.lostBefore <= Headroom(t.src)
  <2>1. /\ t.src \in Stock /\ t.qty \in Int
    BY GuardedFields
  <2>2. Available(t.src) \in Int /\ unchecked[t.src] \in Int
    BY <2>1, AvailableInt DEF Typed, TypeOK
  <2>. QED  BY <1>1, <1>2, <2>1, <2>2 DEF Headroom
<1>5. InFlightCovered'
  <2> SUFFICES ASSUME NEW k \in Clients, txn'[k].op \in GuardedOps,
                      ~txn'[k].doomed
               PROVE  CoveredNext(txn'[k])
    BY CoverNext
  <2>0. PICK u : u = txn'[k]
    OBVIOUS
  <2>1. /\ u.qty + u.lostBefore <= Headroom(u.src)
        /\ \A b \in BatchNos : u.plan[b] <= remaining[<<u.src, b>>]
    <3>1. CASE k = c
      BY <1>1, <1>2, <1>4, <2>0, <3>1 DEF Typed, TypeOK
    <3>2. CASE k # c
      <4>1. u = txn[k]
        BY <1>2, <2>0, <3>2 DEF Typed, TypeOK
      <4>. QED  BY <2>0, <4>1, CoveredNow DEF Safe
    <3>. QED  BY <3>1, <3>2
  <2>2. HeadroomNext(u.src) = Headroom(u.src)
    BY <1>3, HeadroomIsNext
  <2>3. CoveredNext(u)
    BY <1>2, <2>1, <2>2 DEF CoveredNext
  <2>. QED  BY <2>0, <2>3
<1>6. OversellBounded'
  BY <1>3 DEF Safe, OversellBounded, Headroom
<1>7. BatchNeverOverdrawn'
  BY <1>2 DEF Safe, BatchNeverOverdrawn
<1>. QED  BY <1>5, <1>6, <1>7 DEF Safe

LEMMA SafeStep == Typed /\ Typed' /\ Safe /\ [Next]_vars => Safe'
<1> SUFFICES ASSUME Typed, Typed', Safe, [Next]_vars
             PROVE  Safe'
  OBVIOUS
<1>0. txn \in [Clients -> TxnRecord] /\ TypeOK /\ ClosingRowsExist /\ FinitelyActive
  BY DEF Typed, TypeOK, TxnRecord
<1>a. \A p \in Stock : /\ physical[p] \in Int /\ unchecked[p] \in Int
                       /\ reservedStock(p) \in Int
  BY <1>0, AvailableInt DEF TypeOK
<1>b. KeepsRsv => \A p \in Stock : reservedStock(p)' = reservedStock(p)
  BY KeptReserved
<1>. USE <1>0, <1>a, <1>b DEF Headroom, Available, KeepsRsv
<1>1. ASSUME NEW c \in Clients, NEW p \in Stock, NEW q \in Quantities,
             NEW b \in BatchNos \cup {NoBatch},
             NEW e \in ExpiryDates \cup {Never}, BeginReceive(c, p, q, b, e)
      PROVE  Safe'
  BY <1>1, HarmlessStep
     DEF BeginReceive, ledgerVars, rsvVars, batchVars, GuardedOps, TypeOK
<1>2. ASSUME NEW c \in Clients, NEW r \in Reservations,
             NEW op \in {"release", "fulfill"}, BeginClosing(c, op, r)
      PROVE  Safe'
  BY <1>2, HarmlessStep
     DEF BeginClosing, ledgerVars, rsvVars, batchVars, GuardedOps, TypeOK
<1>3. ASSUME NEW c \in Clients, CommitReceive(c)
      PROVE  Safe'
  <2>1. txn[c] \in ReceiptTxn
    BY <1>0, <1>3, TxnByOp DEF CommitReceive
  <2>2. txn[c].dst \in Stock /\ txn[c].qty \in Int /\ txn[c].qty > 0
    BY <2>1, ReceiptFields
  <2>3. \A p \in Stock : Headroom(p)' >= Headroom(p)
    BY <1>3, <2>2 DEF CommitReceive, Move, rsvVars, TypeOK
  <2>4. \A l \in Lots : remaining'[l] >= remaining[l]
    BY <1>3, <2>2 DEF CommitReceive, TypeOK, batchVars
  <2>5. \A k \in Clients : txn'[k].op \in GuardedOps /\ ~txn'[k].doomed
                           => txn'[k] = txn[k]
    BY <1>0, <1>3, DoomedOrKept DEF CommitReceive
  <2>. QED  BY <2>3, <2>4, <2>5, HarmlessStep
<1>4. ASSUME NEW c \in Clients, CommitDispatch(c)
      PROVE  Safe'
  <2>1. txn[c].op \in GuardedOps /\ ~txn[c].doomed /\ txn' = CommitSerializable(c)
    BY <1>4 DEF CommitDispatch, GuardedOps
  <2>2. txn[c].src \in Stock /\ txn[c].qty \in Int /\ txn[c].plan \in [BatchNos -> Nat]
    BY <2>1, InFlightType, GuardedFields
  <2>3. \A p \in Stock : Headroom(p)' >= IF p = txn[c].src
                                         THEN Headroom(p) - txn[c].qty
                                         ELSE Headroom(p)
    BY <1>4, <2>2 DEF CommitDispatch, Move, rsvVars, TypeOK
  <2>4. \A l \in Lots : remaining'[l] >= IF l[1] = txn[c].src
                                         THEN remaining[l] - txn[c].plan[l[2]]
                                         ELSE remaining[l]
    BY <1>4, <2>2 DEF CommitDispatch, TypeOK, Lots
  <2>. QED  BY <2>1, <2>3, <2>4, GuardedCommitStep
<1>5. ASSUME NEW c \in Clients, CommitTransfer(c)
      PROVE  Safe'
  <2>1. txn[c].op \in GuardedOps /\ ~txn[c].doomed /\ txn' = CommitSerializable(c)
    BY <1>5 DEF CommitTransfer, GuardedOps
  <2>2. /\ txn[c].src \in Stock /\ txn[c].dst \in Stock
        /\ txn[c].qty \in Int /\ txn[c].qty > 0
        /\ txn[c].plan \in [BatchNos -> Nat]
    BY <2>1, InFlightType, GuardedFields
  <2>3. \A p \in Stock : Headroom(p)' >= IF p = txn[c].src
                                         THEN Headroom(p) - txn[c].qty
                                         ELSE Headroom(p)
    BY <1>5, <2>2 DEF CommitTransfer, rsvVars, TypeOK
  <2>4. \A l \in Lots : remaining'[l] >= IF l[1] = txn[c].src
                                         THEN remaining[l] - txn[c].plan[l[2]]
                                         ELSE remaining[l]
    BY <1>5, <2>2 DEF CommitTransfer, TypeOK, Lots, batchVars
  <2>. QED  BY <2>1, <2>3, <2>4, GuardedCommitStep
<1>6. ASSUME NEW c \in Clients, CommitReserve(c)
      PROVE  Safe'
  <2>1. txn[c].op \in GuardedOps /\ ~txn[c].doomed /\ txn' = CommitSerializable(c)
    BY <1>6 DEF CommitReserve, GuardedOps
  <2>2. txn[c].src \in Stock /\ txn[c].qty \in Int /\ txn[c].plan \in [BatchNos -> Nat]
    BY <2>1, InFlightType, GuardedFields
  <2>3. \A p \in Stock : Headroom(p)' >= IF p = txn[c].src
                                         THEN Headroom(p) - txn[c].qty
                                         ELSE Headroom(p)
    <3>1. PICK r \in Reservations : Holds(r, txn[c].src, txn[c].qty)
      BY <1>6, ReserveHolds
    <3>2. \A p \in Stock : reservedStock(p)'
              = reservedStock(p) + IF p = txn[c].src THEN txn[c].qty ELSE 0
      BY <1>6, <2>2, <3>1, ReserveHolds, MoreReserved
    <3>. QED  BY <1>6, <2>2, <3>2 DEF CommitReserve
  <2>4. \A l \in Lots : remaining'[l] >= IF l[1] = txn[c].src
                                         THEN remaining[l] - txn[c].plan[l[2]]
                                         ELSE remaining[l]
    BY <1>6, <2>2 DEF CommitReserve, TypeOK, Lots, batchVars
  <2>. QED  BY <2>1, <2>3, <2>4, GuardedCommitStep
<1>7. ASSUME NEW c \in Clients, CommitRelease(c)
      PROVE  Safe'
  <2>1. txn[c].op \in ClosingOps
    BY <1>7 DEF CommitRelease, ClosingOps
  <2>2. \A p \in Stock : Headroom(p)' >= Headroom(p)
    <3>. DEFINE r == txn[c].rsv
    <3>1. r \in Reservations /\ rsv[r].qty \in Int /\ rsv[r].qty > 0
      BY <2>1, ClosingRow
    <3>2. PICK s \in {"FULFILLED", "RELEASED"} : LetsGo(r, s)
      BY <1>7, ClosingLetsGo
    <3>3. \A p \in Stock : reservedStock(p)' = reservedStock(p)
              - IF rsv[r].status = "ACTIVE" /\ rsv[r].of = p THEN rsv[r].qty ELSE 0
      BY <3>1, <3>2, LessReserved
    <3>. QED  BY <1>7, <3>1, <3>3 DEF CommitRelease
  <2>. QED  BY <1>7, <2>2, HarmlessStep
            DEF CommitRelease, batchVars, GuardedOps, Idle, TypeOK
<1>8. ASSUME NEW c \in Clients, FulfillCheckLock(c)
      PROVE  Safe'
  <2>1. txn[c].op \in ClosingOps
    BY <1>8 DEF FulfillCheckLock, ClosingOps
  <2>2. txn' = [txn EXCEPT ![c] = [txn[c] EXCEPT !.op = "fulfillUnlocked"]]
    BY <1>8 DEF FulfillCheckLock
  <2>3. [txn[c] EXCEPT !.op = "fulfillUnlocked"].op = "fulfillUnlocked"
    BY <2>1, ClosingRow DEF ClosingTxn
  <2>. QED  BY <1>8, <2>2, <2>3, HarmlessStep
            DEF FulfillCheckLock, ledgerVars, rsvVars, batchVars, GuardedOps, TypeOK
<1>9. ASSUME NEW c \in Clients, CommitFulfill(c)
      PROVE  Safe'
  <2>1. txn[c].op \in ClosingOps
    BY <1>9 DEF CommitFulfill, ClosingOps
  <2>2. \A p \in Stock : Headroom(p)' >= Headroom(p)
    <3>. DEFINE r == txn[c].rsv
    <3>1. /\ r \in Reservations /\ rsv[r].of \in Stock
          /\ rsv[r].qty \in Int /\ rsv[r].qty > 0
      BY <2>1, ClosingRow
    <3>2. PICK s \in {"FULFILLED", "RELEASED"} : LetsGo(r, s)
      BY <1>9, ClosingLetsGo
    <3>3. \A p \in Stock : reservedStock(p)' = reservedStock(p)
              - IF rsv[r].status = "ACTIVE" /\ rsv[r].of = p THEN rsv[r].qty ELSE 0
      BY <3>1, <3>2, LessReserved
    <3>. QED  BY <1>9, <3>1, <3>3 DEF CommitFulfill, Move, TypeOK
  <2>3. remaining' = remaining /\ txn' = [txn EXCEPT ![c] = Idle]
    BY <1>9 DEF CommitFulfill, batchVars
  <2>4. \A k \in Clients : txn'[k].op \in GuardedOps => txn'[k] = txn[k]
    BY <2>3 DEF GuardedOps, Idle, TypeOK
  <2>. QED  BY <2>2, <2>3, <2>4, HarmlessStep DEF TypeOK
<1>10. ASSUME NEW p \in Stock, NEW d \in Deltas, Adjust(p, d)
       PROVE  Safe'
  <2>1. d \in Int
    BY DeltasAreNonZero
  <2>2. \A i \in Stock : Headroom(i)' >= Headroom(i)
    BY <1>10, <2>1 DEF Adjust, Move, CountUnchecked, rsvVars, TypeOK
  <2>. QED  BY <1>10, <2>2, HarmlessStep DEF Adjust, batchVars, TypeOK
<1>11. ASSUME NEW p \in Stock, NEW q \in Quantities, ReceivePurchase(p, q)
       PROVE  Safe'
  <2>1. \A i \in Stock : Headroom(i)' >= Headroom(i)
    BY <1>11, QuantityIsPositive DEF ReceivePurchase, Move, rsvVars, TypeOK
  <2>. QED  BY <1>11, <2>1, HarmlessStep DEF ReceivePurchase, batchVars, TypeOK
<1>12. ASSUME NEW c \in Clients, Abort(c)
       PROVE  Safe'
  BY <1>12, HarmlessStep DEF Abort, ledgerVars, rsvVars, batchVars, GuardedOps, Idle, TypeOK
<1>13. CASE UNCHANGED vars
  BY <1>13, HarmlessStep DEF vars, TypeOK
<1>. QED
  BY <1>1, <1>2, <1>3, <1>4, <1>5, <1>6, <1>7, <1>8, <1>9, <1>10, <1>11, <1>12,
     <1>13, SerializableBegins, GuardedBeginStep
     DEF Next, BeginStep, CommitStep, Correction

LEMMA SafeInit == Init => Safe
<1>. SUFFICES ASSUME Init PROVE Safe
  OBVIOUS
<1>1. \A p \in Stock : ActiveRows(rsv, p) = {} /\ reservedStock(p) = 0
  <2>. SUFFICES ASSUME NEW p \in Stock
                PROVE  ActiveRows(rsv, p) = {} /\ reservedStock(p) = 0
    OBVIOUS
  <2>1. ActiveOf(p) = {}
    BY DEF Init, ActiveOf, NoReservation
  <2>. DEFINE f == [r \in ActiveOf(p) |-> rsv[r].qty]
  <2>2. SumFunction(f) = SumFunctionOnSet(f, ActiveOf(p))
    BY DEF SumFunction
  <2>. QED  BY <2>1, <2>2, SumEmpty, HeldByRows DEF reservedStock
<1>. QED  BY <1>1 DEF Init, Safe, OversellBounded, Available, BatchNeverOverdrawn,
                      InFlightCovered, Idle, GuardedOps

LEMMA AllSafe == Spec => [](Typed /\ Safe)
<1>. QED  BY TypedInit, SafeInit, TypedStep, SafeStep, PTL DEF Spec

\* The overselling guard: in every interleaving of any number of requests, a
\* pair is short by no more than what left it without an availability check.
THEOREM NoOverselling == Spec => []OversellBounded
<1>1. Safe => OversellBounded
  BY DEF Safe
<1>. QED  BY <1>1, AllSafe, PTL

\* A serializable transaction that can still commit is covered by the stock and
\* the lots there are, whatever has committed since its snapshot.
THEOREM StillCovered == Spec => []InFlightCovered
<1>1. Safe => InFlightCovered
  BY DEF Safe
<1>. QED  BY <1>1, AllSafe, PTL

\* FEFO dispatches never take a lot below zero.
THEOREM NoOverdrawnBatch == Spec => []BatchNeverOverdrawn
<1>1. Safe => BatchNeverOverdrawn
  BY DEF Safe
<1>. QED  BY <1>1, AllSafe, PTL
-----------------------------------------------------------------------------
(***************************************************************************)
(* StockService implements StockPromise.  The step that matters is the     *)
(* commit of a serializable transaction: its guard was evaluated on an     *)
(* older snapshot, and InFlightCovered says that it still holds, but for   *)
(* what was lost since.                                                    *)
(***************************************************************************)

Inv == Typed /\ Safe

LEMMA AllInv == Spec => []Inv
<1>. QED  BY AllSafe, PTL DEF Inv

\* Both modules take their sums from the community module.
LEMMA SameSum == \A f : Promise!SumFunction(f) = SumFunction(f)
  BY Zenon DEF Promise!SumFunction, Promise!SumFunctionOnSet,
               Promise!FoldFunctionOnSet, Promise!MapThenFoldSet,
               SumFunction, SumFunctionOnSet, FoldFunctionOnSet, MapThenFoldSet

\* The promise's sum over its claims is the gateway's over its rows.
LEMMA SameAvailable == \A p : Promise!Available(p) = Available(p)
<1>. SUFFICES ASSUME NEW p PROVE Promise!Available(p) = Available(p)
  OBVIOUS
<1>1. /\ Promise!HeldOn(p) = ActiveRows(Claims, p)
      /\ Promise!Available(p) = physical[p] - HeldBy(Claims, p)
  <2>1. Promise!HeldOn(p) = ActiveRows(Claims, p)
    BY DEF Promise!HeldOn, ActiveRows
  <2>2. Promise!Available(p)
          = physical[p] - SumFunction([r \in Promise!HeldOn(p) |-> Claims[r].qty])
    BY SameSum DEF Promise!Available
  <2>. QED  BY <2>1, <2>2 DEF HeldBy
<1>2. \A r \in Reservations : /\ Claims[r].status = "ACTIVE" <=> rsv[r].status = "ACTIVE"
                              /\ rsv[r].status = "ACTIVE" => Claims[r] = rsv[r]
  BY DEF Claims
<1>3. /\ ActiveRows(Claims, p) = ActiveRows(rsv, p)
      /\ \A r \in ActiveRows(Claims, p) : Claims[r].qty = rsv[r].qty
  BY <1>2 DEF ActiveRows
<1>4. HeldBy(Claims, p) = HeldBy(rsv, p)
  BY <1>3, HeldBySame
<1>. QED  BY <1>1, <1>4, HeldByRows DEF Available

LEMMA PromiseInit == Init => Promise!Init
  BY DEF Init, Promise!Init, Claims, Seen, NoReservation, Idle, GuardedOps,
         Promise!NotMade, Promise!NotOpen

-----------------------------------------------------------------------------
(* What a step does to the open requests.                                  *)

MayStillCommit(t) == t.op \in GuardedOps /\ ~t.doomed

LEMMA SeenIs ==
  ASSUME NEW k \in Clients
  PROVE  /\ MayStillCommit(txn[k])
              => Seen[k] = [status |-> "OPEN", of |-> txn[k].src,
                            qty |-> txn[k].qty, lost |-> LostSince(k)]
         /\ ~MayStillCommit(txn[k]) => Seen[k] = Promise!NotOpen
         /\ ~MayStillCommit(txn'[k]) => Seen'[k] = Promise!NotOpen
         /\ (txn'[k] = txn[k] /\ unchecked' = unchecked) => Seen'[k] = Seen[k]
         /\ Seen'[k] = Promise!NotOpen \/ MayStillCommit(txn'[k])
  BY DEF Seen, MayStillCommit, LostSince, Promise!NotOpen

LEMMA SeenSame ==
  ASSUME UNCHANGED unchecked,
         \A k \in Clients : \/ txn'[k] = txn[k]
                            \/ ~MayStillCommit(txn[k]) /\ ~MayStillCommit(txn'[k])
  PROVE  Seen' = Seen
<1>1. \A k \in Clients : Seen'[k] = Seen[k]
  BY SeenIs
<1>2. Seen = [k \in Clients |-> Seen[k]] /\ Seen' = [k \in Clients |-> Seen'[k]]
  BY DEF Seen
<1>. QED  BY <1>1, <1>2

\* A step that starts no request, and lets nothing leave unchecked, at most makes
\* some requests fail.
LEMMA SomeFail ==
  ASSUME UNCHANGED unchecked,
         \A k \in Clients : MayStillCommit(txn'[k]) => txn'[k] = txn[k]
  PROVE  LET F == {k \in Clients : ~MayStillCommit(txn'[k])}
         IN  F \in SUBSET Clients /\ Seen' = Promise!Without(F)
<1>. DEFINE F == {k \in Clients : ~MayStillCommit(txn'[k])}
<1>1. \A k \in Clients : Seen'[k] = IF k \in F THEN Promise!NotOpen ELSE Seen[k]
  BY SeenIs
<1>2. Seen' = [k \in Clients |-> Seen'[k]]
  BY DEF Seen
<1>. QED  BY <1>1, <1>2 DEF Promise!Without

LEMMA KeptIfMayCommit ==
  ASSUME Inv, NEW c \in Clients,
         \/ txn' = CommitSerializable(c)
         \/ \E p, b : txn' = TouchLot(c, p, b)
         \/ txn' = [txn EXCEPT ![c] = Idle]
  PROVE  /\ ~MayStillCommit(txn'[c])
         /\ \A k \in Clients : MayStillCommit(txn'[k]) => txn'[k] = txn[k]
<1>0. TypeOK
  BY DEF Inv, Typed
<1>1. ~MayStillCommit(Idle)
  BY DEF MayStillCommit, Idle, GuardedOps
<1>2. ASSUME NEW k \in Clients, txn[k].op \in GuardedOps
      PROVE  ~MayStillCommit([txn[k] EXCEPT !.doomed = TRUE])
  BY <1>0, <1>2, InFlightType DEF GuardedTxn, MayStillCommit
<1>3. CASE txn' = CommitSerializable(c)
  BY <1>1, <1>2, <1>3 DEF CommitSerializable
<1>4. CASE \E p, b : txn' = TouchLot(c, p, b)
  BY <1>1, <1>2, <1>4 DEF TouchLot
<1>5. CASE txn' = [txn EXCEPT ![c] = Idle]
  BY <1>0, <1>1, <1>5 DEF TypeOK
<1>. QED  BY <1>3, <1>4, <1>5

-----------------------------------------------------------------------------
(* Requests that look, give up or do nothing.                              *)

LEMMA ClaimsSame == ASSUME KeepsRsv PROVE Claims' = Claims
  BY DEF KeepsRsv, Claims

LEMMA LookPromise ==
  ASSUME Inv, NEW c \in Clients, GuardedBegin(c)
  PROVE  Promise!Next
<1>0. TypeOK /\ Typed
  BY DEF Inv, Typed
<1>1. PICK t \in GuardedTxn : /\ BeginGuarded(c, t)
                              /\ t.lostBefore = unchecked[t.src]
                              /\ ~t.doomed
  BY DEF GuardedBegin
<1>2. /\ UNCHANGED <<physical, unchecked>> /\ KeepsRsv
      /\ txn' = [txn EXCEPT ![c] = t]
      /\ t.qty <= Available(t.src)
  BY <1>1 DEF BeginGuarded, ledgerVars, rsvVars, KeepsRsv
<1>3. /\ t.src \in Stock /\ t.qty \in Quantities /\ t.op \in GuardedOps
      /\ unchecked[t.src] \in Nat
  BY <1>0, GuardedFields DEF GuardedTxn, TypeOK
<1>4. /\ txn'[c] = t
      /\ \A k \in Clients \ {c} : txn'[k] = txn[k]
  BY <1>0, <1>2 DEF TypeOK
<1>5. Seen'[c] = Promise!Open(t.src, t.qty)
  <2>1. Seen'[c] = [status |-> "OPEN", of |-> t.src, qty |-> t.qty,
                    lost |-> unchecked'[t.src] - t.lostBefore]
    BY <1>1, <1>3, <1>4 DEF Seen, LostSince
  <2>2. unchecked'[t.src] - t.lostBefore = 0
    BY <1>1, <1>2, <1>3
  <2>. QED  BY <2>1, <2>2 DEF Promise!Open
<1>6. \A k \in Clients \ {c} : Seen'[k] = Seen[k]
  BY <1>2, <1>4, SeenIs
<1>7. Seen' = [Seen EXCEPT ![c] = Promise!Open(t.src, t.qty)]
  <2>1. /\ Seen = [k \in Clients |-> Seen[k]] /\ Seen' = [k \in Clients |-> Seen'[k]]
    BY DEF Seen
  <2>. QED  BY <1>5, <1>6, <2>1
<1>8. Promise!Look(c, t.src, t.qty)
  BY <1>2, <1>7, SameAvailable, ClaimsSame DEF Promise!Look
<1>. QED  BY <1>3, <1>8 DEF Promise!Next

LEMMA FailPromise ==
  ASSUME Inv, NEW c \in Clients, Abort(c)
  PROVE  Promise!Next
<1>0. TypeOK
  BY DEF Inv, Typed
<1>1. /\ UNCHANGED <<physical, unchecked>> /\ KeepsRsv
      /\ txn' = [txn EXCEPT ![c] = Idle]
  BY DEF Abort, ledgerVars, rsvVars, KeepsRsv
<1>2. ~MayStillCommit(txn'[c]) /\ \A k \in Clients \ {c} : txn'[k] = txn[k]
  BY <1>0, <1>1 DEF TypeOK, MayStillCommit, Idle, GuardedOps
<1>3. Seen'[c] = Promise!NotOpen /\ \A k \in Clients \ {c} : Seen'[k] = Seen[k]
  BY <1>1, <1>2, SeenIs
<1>4. Seen' = Promise!Without({c})
  <2>1. Seen' = [k \in Clients |-> Seen'[k]]
    BY DEF Seen
  <2>. QED  BY <1>3, <2>1 DEF Promise!Without
<1>5. Promise!Fail(c)
  BY <1>1, <1>4, ClaimsSame DEF Promise!Fail
<1>. QED  BY <1>5 DEF Promise!Next

\* A request that is none of the three serializable ones says nothing yet.
LEMMA OtherBegins ==
  ASSUME Inv, NEW c \in Clients,
         \/ \E p, q, b, e : BeginReceive(c, p, q, b, e)
         \/ \E op \in {"release", "fulfill"}, r \in Reservations : BeginClosing(c, op, r)
         \/ FulfillCheckLock(c)
  PROVE  UNCHANGED Promise!promiseVars
<1>0. TypeOK /\ ClosingRowsExist
  BY DEF Inv, Typed
<1>1. UNCHANGED <<physical, unchecked>> /\ KeepsRsv
  BY DEF BeginReceive, BeginClosing, FulfillCheckLock, ledgerVars, rsvVars, KeepsRsv
<1>2. \A k \in Clients \ {c} : txn'[k] = txn[k]
  BY <1>0 DEF BeginReceive, BeginClosing, FulfillCheckLock, TypeOK
<1>3. ~MayStillCommit(txn[c]) /\ ~MayStillCommit(txn'[c])
  <2>1. CASE \E p, q, b, e : BeginReceive(c, p, q, b, e)
    BY <1>0, <2>1 DEF BeginReceive, TypeOK, MayStillCommit, Idle, GuardedOps
  <2>2. CASE \E op \in {"release", "fulfill"}, r \in Reservations : BeginClosing(c, op, r)
    BY <1>0, <2>2 DEF BeginClosing, TypeOK, MayStillCommit, Idle, GuardedOps
  <2>3. CASE FulfillCheckLock(c)
    <3>1. txn[c].op = "fulfill" /\ txn[c] \in ClosingTxn
      BY <1>0, <2>3, ClosingRow DEF FulfillCheckLock, ClosingOps
    <3>2. txn'[c].op = "fulfillUnlocked"
      BY <1>0, <2>3, <3>1 DEF FulfillCheckLock, TypeOK, ClosingTxn
    <3>. QED  BY <3>1, <3>2 DEF MayStillCommit, GuardedOps
  <2>. QED  BY <2>1, <2>2, <2>3
<1>4. Seen' = Seen
  BY <1>1, <1>2, <1>3, SeenSame
<1>. QED  BY <1>1, <1>4, ClaimsSame DEF Promise!promiseVars

-----------------------------------------------------------------------------
(* Steps that bring or take units with no availability check.              *)

LEMMA QuantitiesAreAmounts == Quantities \subseteq Amounts
  BY DEF Amounts

LEMMA PutStep ==
  ASSUME Inv, NEW p \in Stock, NEW n \in Amounts,
         physical' = Move(p, n), UNCHANGED unchecked, KeepsRsv,
         \A k \in Clients : MayStillCommit(txn'[k]) => txn'[k] = txn[k]
  PROVE  Promise!Next
<1>1. Promise!OthersMayFail
  BY SomeFail DEF Promise!OthersMayFail
<1>2. Promise!Put(p, n)
  BY <1>1, ClaimsSame DEF Move, Promise!Put
<1>. QED  BY <1>2 DEF Promise!Next

LEMMA ReceivePromise ==
  ASSUME Inv, NEW c \in Clients, CommitReceive(c)
  PROVE  Promise!Next
<1>. DEFINE t == txn[c]
<1>1. t \in ReceiptTxn
  BY TxnByOp DEF Inv, Typed, TypeOK, TxnRecord, CommitReceive
<1>2. t.dst \in Stock /\ t.qty \in Amounts
  BY <1>1, QuantitiesAreAmounts DEF ReceiptTxn
<1>3. physical' = Move(t.dst, t.qty) /\ UNCHANGED unchecked /\ KeepsRsv
  BY DEF CommitReceive, rsvVars, KeepsRsv
<1>4. \A k \in Clients : MayStillCommit(txn'[k]) => txn'[k] = txn[k]
  BY KeptIfMayCommit DEF CommitReceive
<1>. QED  BY <1>2, <1>3, <1>4, PutStep

\* Units leave a pair unchecked: every request that has looked at it has lost them.
LEMMA LoseStep ==
  ASSUME Inv, NEW p \in Stock, NEW n \in Amounts, n \in Int,
         physical' = [physical EXCEPT ![p] = @ - n],
         unchecked' = [unchecked EXCEPT ![p] = @ + n],
         Claims' = Claims,
         \A k \in Clients : \/ txn'[k] = txn[k]
                            \/ ~MayStillCommit(txn[k]) /\ ~MayStillCommit(txn'[k])
  PROVE  Promise!Next
<1>0. TypeOK
  BY DEF Inv, Typed
<1>. DEFINE Lost(k) == IF Seen[k].status = "OPEN" /\ Seen[k].of = p
                       THEN [Seen[k] EXCEPT !.lost = @ + n] ELSE Seen[k]
<1>1. ASSUME NEW k \in Clients PROVE Seen'[k] = Lost(k)
  <2>1. CASE MayStillCommit(txn[k])
    <3>1. txn'[k] = txn[k]
      BY <2>1
    <3>2. txn[k].src \in Stock /\ txn[k].lostBefore \in Nat
      BY <1>0, <2>1, InFlightType, GuardedFields DEF MayStillCommit
    <3>3. Seen'[k] = [status |-> "OPEN", of |-> txn[k].src, qty |-> txn[k].qty,
                      lost |-> unchecked'[txn[k].src] - txn[k].lostBefore]
      BY <2>1, <3>1 DEF Seen, MayStillCommit, LostSince
    <3>4. Seen[k] = [status |-> "OPEN", of |-> txn[k].src, qty |-> txn[k].qty,
                     lost |-> unchecked[txn[k].src] - txn[k].lostBefore]
      BY <2>1, SeenIs DEF LostSince
    <3>5. CASE txn[k].src = p
      <4>1. unchecked'[p] - txn[k].lostBefore = (unchecked[p] - txn[k].lostBefore) + n
        BY <1>0, <3>2 DEF TypeOK
      <4>. QED  BY <3>3, <3>4, <3>5, <4>1
    <3>6. CASE txn[k].src # p
      <4>1. unchecked'[txn[k].src] = unchecked[txn[k].src]
        BY <1>0, <3>2, <3>6 DEF TypeOK
      <4>. QED  BY <3>3, <3>4, <3>6, <4>1
    <3>. QED  BY <3>5, <3>6
  <2>2. CASE ~MayStillCommit(txn[k])
    <3>1. Seen[k] = Promise!NotOpen /\ Seen'[k] = Promise!NotOpen
      BY <2>2, SeenIs
    <3>. QED  BY <3>1 DEF Promise!NotOpen
  <2>. QED  BY <2>1, <2>2
<1>2. Seen' = [k \in Clients |-> Lost(k)]
  <2>1. Seen' = [k \in Clients |-> Seen'[k]]
    BY DEF Seen
  <2>. HIDE DEF Lost
  <2>. QED  BY <1>1, <2>1
<1>3. Promise!Lose(p, n)
  BY <1>2 DEF Promise!Lose
<1>. QED  BY <1>3 DEF Promise!Next

LEMMA AdjustPromise ==
  ASSUME Inv, NEW p \in Stock, NEW d \in Deltas, Adjust(p, d)
  PROVE  Promise!Next
<1>0. /\ d \in Int
      /\ physical' = Move(p, d)
      /\ unchecked' = CountUnchecked(p, d)
      /\ KeepsRsv /\ txn' = txn
      /\ physical[p] \in Int
  BY DeltasAreNonZero DEF Adjust, rsvVars, KeepsRsv, Inv, Typed, TypeOK
<1>1. CASE d < 0
  <2>1. PICK n : n = -d
    OBVIOUS
  <2>2. n \in Amounts /\ n \in Int
    BY <1>0, <1>1, <2>1 DEF Amounts
  <2>3. physical' = [physical EXCEPT ![p] = @ - n]
    <3>1. physical[p] + d = physical[p] - n
      BY <1>0, <2>1
    <3>. QED  BY <1>0, <3>1 DEF Move
  <2>4. unchecked' = [unchecked EXCEPT ![p] = @ + n]
    <3>1. unchecked[p] - d = unchecked[p] + n
      BY <1>0, <2>1 DEF Inv, Typed, TypeOK
    <3>. QED  BY <1>0, <1>1, <3>1 DEF CountUnchecked
  <2>. QED  BY <1>0, <2>2, <2>3, <2>4, ClaimsSame, LoseStep
<1>2. CASE ~(d < 0)
  <2>1. d \in Amounts
    BY <1>2 DEF Amounts
  <2>. QED  BY <1>0, <1>2, <2>1, PutStep DEF CountUnchecked
<1>. QED  BY <1>1, <1>2

-----------------------------------------------------------------------------
(* Commits of serializable transactions.                                   *)

\* The guard of the request holds at its commit, and others may fail of it.
LEMMA StillCommittable ==
  ASSUME Inv, NEW c \in Clients, txn[c].op \in GuardedOps, ~txn[c].doomed,
         UNCHANGED unchecked, txn' = CommitSerializable(c)
  PROVE  /\ txn[c].src \in Stock /\ txn[c].dst \in Stock
         /\ txn[c].qty \in Quantities /\ txn[c].qty \in Int
         /\ Seen[c].of = txn[c].src /\ Seen[c].qty = txn[c].qty
         /\ Promise!Commit(c)
<1>. DEFINE t == txn[c]
            F == {k \in Clients : ~MayStillCommit(txn'[k])}
<1>1. t.src \in Stock /\ t.dst \in Stock /\ t.qty \in Quantities /\ t.qty \in Int
  BY InFlightType, GuardedFields DEF Inv, Typed
<1>2. Seen[c] = [status |-> "OPEN", of |-> t.src, qty |-> t.qty, lost |-> LostSince(c)]
  BY SeenIs DEF MayStillCommit
<1>3. t.qty <= Available(t.src) + LostSince(c)
  BY DEF Inv, Safe, InFlightCovered
<1>4. c \in F /\ F \in SUBSET Clients /\ Seen' = Promise!Without(F)
  BY KeptIfMayCommit, SomeFail
<1>5. Promise!Commit(c)
  <2>1. Seen[c].status = "OPEN" /\ Seen[c].qty = t.qty /\ Seen[c].of = t.src
        /\ Seen[c].lost = LostSince(c)
    BY <1>2
  <2>2. Seen[c].qty <= Promise!Available(Seen[c].of) + Seen[c].lost
    BY <1>3, <2>1, SameAvailable
  <2>. HIDE DEF F
  <2>. QED  BY <1>4, <2>1, <2>2 DEF Promise!Commit
<1>. QED  BY <1>1, <1>2, <1>5

LEMMA DispatchPromise ==
  ASSUME Inv, NEW c \in Clients, CommitDispatch(c)
  PROVE  Promise!Next
<1>. DEFINE t == txn[c]
<1>1. /\ t.op \in GuardedOps /\ ~t.doomed /\ KeepsRsv
      /\ UNCHANGED unchecked /\ txn' = CommitSerializable(c)
  BY DEF CommitDispatch, GuardedOps, rsvVars, KeepsRsv
<1>2. /\ t.src \in Stock /\ t.qty \in Int
      /\ Seen[c].of = t.src /\ Seen[c].qty = t.qty /\ Promise!Commit(c)
  BY <1>1, StillCommittable
<1>3. physical' = [physical EXCEPT ![t.src] = @ - t.qty]
  <2>1. physical[t.src] + -t.qty = physical[t.src] - t.qty
    BY <1>2 DEF Inv, Typed, TypeOK
  <2>. QED  BY <2>1 DEF CommitDispatch, Move
<1>4. Promise!Take(c)
  BY <1>1, <1>2, <1>3, ClaimsSame DEF Promise!Take
<1>. QED  BY <1>4 DEF Promise!Next

LEMMA TransferPromise ==
  ASSUME Inv, NEW c \in Clients, CommitTransfer(c)
  PROVE  Promise!Next
<1>. DEFINE t == txn[c]
<1>1. /\ t.op \in GuardedOps /\ ~t.doomed /\ KeepsRsv
      /\ UNCHANGED unchecked /\ txn' = CommitSerializable(c)
  BY DEF CommitTransfer, GuardedOps, rsvVars, KeepsRsv
<1>2. /\ t.src \in Stock /\ t.dst \in Stock
      /\ Seen[c].of = t.src /\ Seen[c].qty = t.qty /\ Promise!Commit(c)
  BY <1>1, StillCommittable
<1>3. Promise!Shift(c, t.dst)
  BY <1>1, <1>2, ClaimsSame DEF CommitTransfer, Promise!Shift
<1>. QED  BY <1>2, <1>3 DEF Promise!Next

LEMMA ReservePromise ==
  ASSUME Inv, NEW c \in Clients, CommitReserve(c)
  PROVE  Promise!Next
<1>. DEFINE t == txn[c]
<1>1. /\ t.op \in GuardedOps /\ ~t.doomed
      /\ UNCHANGED <<physical, unchecked>> /\ txn' = CommitSerializable(c)
  BY DEF CommitReserve, GuardedOps
<1>2. Seen[c].of = t.src /\ Seen[c].qty = t.qty /\ Promise!Commit(c)
  BY <1>1, StillCommittable
<1>3. PICK r \in Reservations :
        /\ rsv[r] = NoReservation
        /\ rsv' = [rsv EXCEPT ![r] = Promise!Held(t.src, t.qty)]
  BY DEF CommitReserve, Promise!Held
<1>4. Claims[r] = Promise!NotMade
  BY <1>3 DEF Claims, NoReservation, Promise!NotMade
<1>5. Claims' = [Claims EXCEPT ![r] = Promise!Held(t.src, t.qty)]
  BY <1>3 DEF Claims, Promise!Held, Inv, Typed, TypeOK
<1>6. Promise!Hold(c, r)
  BY <1>1, <1>2, <1>4, <1>5 DEF Promise!Hold
<1>. QED  BY <1>6 DEF Promise!Next

-----------------------------------------------------------------------------
(* Releases and fulfilments: the first to commit closes the reservation.   *)

LEMMA ClosedClaims ==
  ASSUME Inv, NEW r \in Reservations, rsv[r] \in ReservationRow,
         NEW s \in {"FULFILLED", "RELEASED"},
         rsv' = [rsv EXCEPT ![r].status = s]
  PROVE  /\ Claims' = [Claims EXCEPT ![r] = Promise!Closed]
         /\ rsv[r].status # "ACTIVE" => Claims' = Claims
         /\ rsv[r].status = "ACTIVE" => Claims[r] = rsv[r]
<1>1. rsv'[r].status = s /\ \A i \in Reservations \ {r} : rsv'[i] = rsv[i]
  BY DEF Inv, Typed, TypeOK, ReservationRow
<1>2. Claims'[r] = Promise!Closed
  BY <1>1 DEF Claims, Promise!Closed
<1>3. \A i \in Reservations \ {r} : Claims'[i] = Claims[i]
  BY <1>1 DEF Claims
<1>4. Claims' = [Claims EXCEPT ![r] = Promise!Closed]
  <2>1. /\ Claims = [i \in Reservations |-> Claims[i]]
        /\ Claims' = [i \in Reservations |-> Claims'[i]]
    BY DEF Claims
  <2>. QED  BY <1>2, <1>3, <2>1
<1>5. rsv[r].status # "ACTIVE" => Claims[r] = Promise!Closed
  BY DEF Claims, Promise!Closed, ReservationRow
<1>6. rsv[r].status = "ACTIVE" => Claims[r] = rsv[r]
  BY DEF Claims
<1>. QED  BY <1>4, <1>5, <1>6 DEF Claims

\* The request that closes was never open in the sense of the promise.
LEMMA ClosingUnseen ==
  ASSUME Inv, NEW c \in Clients, CommitRelease(c) \/ CommitFulfill(c)
  PROVE  \A k \in Clients : \/ txn'[k] = txn[k]
                            \/ ~MayStillCommit(txn[k]) /\ ~MayStillCommit(txn'[k])
  BY DEF Inv, Typed, TypeOK, CommitRelease, CommitFulfill, MayStillCommit, Idle,
         GuardedOps

LEMMA ReleasePromise ==
  ASSUME Inv, NEW c \in Clients, CommitRelease(c)
  PROVE  [Promise!Next]_(Promise!promiseVars)
<1>. DEFINE r == txn[c].rsv
<1>1. r \in Reservations /\ rsv[r] \in ReservationRow
  BY ClosingRow DEF Inv, Typed, CommitRelease, ClosingOps
<1>2. /\ Claims' = [Claims EXCEPT ![r] = Promise!Closed]
      /\ rsv[r].status # "ACTIVE" => Claims' = Claims
      /\ rsv[r].status = "ACTIVE" => Claims[r] = rsv[r]
  BY <1>1, ClosedClaims DEF CommitRelease
<1>3. UNCHANGED <<physical, unchecked>>
  BY DEF CommitRelease
<1>4. Seen' = Seen
  BY <1>3, ClosingUnseen, SeenSame
<1>5. CASE rsv[r].status = "ACTIVE"
  <2>1. Promise!Close(r)
    BY <1>2, <1>3, <1>4, <1>5 DEF Promise!Close
  <2>. QED  BY <1>1, <2>1 DEF Promise!Next
<1>6. CASE rsv[r].status # "ACTIVE"
  BY <1>2, <1>3, <1>4, <1>6 DEF Promise!promiseVars
<1>. QED  BY <1>5, <1>6

LEMMA FulfillPromise ==
  ASSUME Inv, NEW c \in Clients, CommitFulfill(c)
  PROVE  Promise!Next
<1>. DEFINE r == txn[c].rsv
            p == rsv[r].of
            q == rsv[r].qty
<1>1. r \in Reservations /\ rsv[r] \in ReservationRow /\ p \in Stock /\ q \in Int
  BY ClosingRow DEF Inv, Typed, CommitFulfill, ClosingOps
<1>2. q \in Amounts
  BY <1>1, QuantitiesAreAmounts DEF ReservationRow
<1>3. /\ Claims' = [Claims EXCEPT ![r] = Promise!Closed]
      /\ rsv[r].status # "ACTIVE" => Claims' = Claims
      /\ rsv[r].status = "ACTIVE" => Claims[r] = rsv[r]
  BY <1>1, ClosedClaims DEF CommitFulfill
<1>4. physical' = [physical EXCEPT ![p] = @ - q]
  <2>1. physical[p] + -q = physical[p] - q
    BY <1>1 DEF Inv, Typed, TypeOK
  <2>. QED  BY <2>1 DEF CommitFulfill, Move
<1>5. \A k \in Clients : \/ txn'[k] = txn[k]
                         \/ ~MayStillCommit(txn[k]) /\ ~MayStillCommit(txn'[k])
  BY ClosingUnseen
<1>6. CASE rsv[r].status = "ACTIVE"
  <2>1. UNCHANGED unchecked
    BY <1>6 DEF CommitFulfill
  <2>2. Seen' = Seen
    BY <1>5, <2>1, SeenSame
  <2>3. Promise!Close(r)
    BY <1>3, <1>4, <1>6, <2>2 DEF Promise!Close
  <2>. QED  BY <1>1, <2>3 DEF Promise!Next
<1>7. CASE rsv[r].status # "ACTIVE"
  <2>1. unchecked' = [unchecked EXCEPT ![p] = @ + q]
    BY <1>7 DEF CommitFulfill
  <2>2. Claims' = Claims
    BY <1>3, <1>7
  <2>. QED  BY <1>1, <1>2, <1>4, <1>5, <2>1, <2>2, LoseStep
<1>. QED  BY <1>6, <1>7

-----------------------------------------------------------------------------
LEMMA PromiseStep == Inv /\ [Next]_vars => [Promise!Next]_(Promise!promiseVars)
<1> SUFFICES ASSUME Inv, [Next]_vars
             PROVE  [Promise!Next]_(Promise!promiseVars)
  OBVIOUS
<1>0. TypeOK
  BY DEF Inv, Typed
<1>1. ASSUME NEW c \in Clients, BeginStep(c)
      PROVE  [Promise!Next]_(Promise!promiseVars)
  BY <1>0, <1>1, SerializableBegins, LookPromise, OtherBegins DEF BeginStep
<1>2. CASE UNCHANGED vars
  BY <1>2 DEF vars, Promise!promiseVars, Claims, Seen, LostSince
<1>3. ASSUME NEW p \in Stock, NEW q \in Quantities, ReceivePurchase(p, q)
      PROVE  Promise!Next
  <2>1. physical' = Move(p, q) /\ UNCHANGED <<unchecked, txn>> /\ KeepsRsv
    BY <1>3 DEF ReceivePurchase, rsvVars, KeepsRsv
  <2>. QED  BY <2>1, PutStep, QuantitiesAreAmounts
<1>. QED
  BY <1>1, <1>2, <1>3, OtherBegins, FailPromise, ReceivePromise, DispatchPromise,
     TransferPromise, ReservePromise, ReleasePromise, FulfillPromise, AdjustPromise
     DEF Next, CommitStep, Correction

\* However requests overlap, fail or write late, a guarded one takes, moves or puts
\* aside only units available when it commits, but for those its pair has lost
\* unchecked since it looked; a reservation stops holding its units exactly once.
THEOREM KeepsStockPromise == Spec => ImplementsPromise
<1>. QED  BY AllInv, PromiseInit, PromiseStep, PTL
          DEF Spec, ImplementsPromise, Promise!Spec

-----------------------------------------------------------------------------
(* A DISPATCH is written with the status, never before it or without it.   *)

\* The two ways a step writes reservations: reserve makes one, a release or a
\* fulfilment ends the one it has read.
Makes(r) ==
    /\ rsv[r] = NoReservation
    /\ rsv'[r].status = "ACTIVE"
    /\ \A i \in Reservations \ {r} : rsv'[i] = rsv[i]
    /\ dispatches' = dispatches

Ends(r, s) ==
    /\ rsv'[r].status = s
    /\ \A i \in Reservations \ {r} : rsv'[i] = rsv[i]
    /\ dispatches' = IF s = "FULFILLED" THEN [dispatches EXCEPT ![r] = @ + 1]
                     ELSE dispatches

ReservationWrite ==
    \/ UNCHANGED rsvVars
    \/ \E r \in Reservations : Makes(r)
    \/ \E c \in Clients, s \in {"FULFILLED", "RELEASED"} :
          /\ txn[c].op \in ClosingOps
          /\ txn[c].rsv \in Reservations
          /\ Ends(txn[c].rsv, s)

LEMMA ReservationWrites == Inv /\ [Next]_vars => ReservationWrite
<1> SUFFICES ASSUME Inv, [Next]_vars PROVE ReservationWrite
  OBVIOUS
<1>1. ASSUME NEW c \in Clients, BeginStep(c) \/ FulfillCheckLock(c) \/ Abort(c)
      PROVE  UNCHANGED rsvVars
  <2>1. CASE BeginStep(c)
    BY <2>1, BeginsRead
  <2>2. CASE FulfillCheckLock(c) \/ Abort(c)
    BY <2>2 DEF FulfillCheckLock, Abort
  <2>. QED  BY <1>1, <2>1, <2>2
<1>2. ASSUME NEW c \in Clients,
             CommitReceive(c) \/ CommitDispatch(c) \/ CommitTransfer(c)
      PROVE  UNCHANGED rsvVars
  BY <1>2 DEF CommitReceive, CommitDispatch, CommitTransfer
<1>3. ASSUME Correction \/ UNCHANGED vars PROVE UNCHANGED rsvVars
  BY <1>3 DEF Correction, Adjust, ReceivePurchase, vars, rsvVars
<1>4. ASSUME NEW c \in Clients, CommitReserve(c)
      PROVE  \E r \in Reservations : Makes(r)
  <2>1. PICK r \in Reservations :
          /\ rsv[r] = NoReservation
          /\ rsv' = [rsv EXCEPT ![r] = [status |-> "ACTIVE",
                            of |-> txn[c].src, qty |-> txn[c].qty]]
    BY <1>4 DEF CommitReserve
  <2>2. dispatches' = dispatches
    BY <1>4 DEF CommitReserve
  <2>3. rsv'[r].status = "ACTIVE" /\ \A i \in Reservations \ {r} : rsv'[i] = rsv[i]
    BY <2>1 DEF Inv, Typed, TypeOK
  <2>. QED  BY <2>1, <2>2, <2>3 DEF Makes
<1>5. ASSUME NEW c \in Clients, CommitRelease(c) \/ CommitFulfill(c)
      PROVE  ReservationWrite
  <2>. DEFINE r == txn[c].rsv
  <2>1. txn[c].op \in ClosingOps
    BY <1>5 DEF CommitRelease, CommitFulfill, ClosingOps
  <2>2. r \in Reservations /\ rsv[r] \in ReservationRow
    BY <2>1, ClosingRow DEF Inv, Typed
  <2>3. PICK s \in {"FULFILLED", "RELEASED"} :
          /\ rsv' = [rsv EXCEPT ![r] = [rsv[r] EXCEPT !.status = s]]
          /\ dispatches' = IF s = "FULFILLED"
                           THEN [dispatches EXCEPT ![r] = @ + 1] ELSE dispatches
    BY <1>5 DEF CommitRelease, CommitFulfill
  <2>4. [rsv[r] EXCEPT !.status = s].status = s
    BY <2>2 DEF ReservationRow
  <2>5. rsv'[r].status = s /\ \A i \in Reservations \ {r} : rsv'[i] = rsv[i]
    BY <2>2, <2>3, <2>4 DEF Inv, Typed, TypeOK
  <2>. QED  BY <2>1, <2>2, <2>3, <2>5 DEF Ends, ReservationWrite
<1>. QED
  BY <1>1, <1>2, <1>3, <1>4, <1>5 DEF Next, CommitStep, ReservationWrite

LEMMA DispatchedInit == Init => DispatchedIffClosed
  BY DEF Init, DispatchedIffClosed, NoReservation

LEMMA DispatchedStep ==
  Inv /\ DispatchedIffClosed /\ [Next]_vars => DispatchedIffClosed'
<1> SUFFICES ASSUME Inv, DispatchedIffClosed, [Next]_vars
             PROVE  DispatchedIffClosed'
  OBVIOUS
<1>1. CASE UNCHANGED rsvVars
  BY <1>1 DEF rsvVars, DispatchedIffClosed
<1>2. ASSUME NEW r \in Reservations, Makes(r) PROVE DispatchedIffClosed'
  <2>1. dispatches[r] = 0
    BY <1>2 DEF Makes, DispatchedIffClosed, NoReservation
  <2>. QED  BY <1>2, <2>1 DEF Makes, DispatchedIffClosed
<1>3. ASSUME NEW r \in Reservations, NEW s \in {"FULFILLED", "RELEASED"}, Ends(r, s)
      PROVE  DispatchedIffClosed'
  <2>1. dispatches \in [Reservations -> Nat]
    BY DEF Inv, Typed, TypeOK
  <2>2. /\ s = "FULFILLED" => dispatches'[r] > 0
        /\ \A i \in Reservations \ {r} : dispatches'[i] = dispatches[i]
    BY <1>3, <2>1 DEF Ends
  <2>. QED  BY <1>3, <2>2 DEF Ends, DispatchedIffClosed
<1>. QED  BY <1>1, <1>2, <1>3, ReservationWrites DEF ReservationWrite

\* Fulfilment is atomic, for any number of requests: no ACTIVE reservation has
\* units dispatched for it already, and no FULFILLED one has none.
THEOREM DispatchedWhenClosed == Spec => []DispatchedIffClosed
<1>. QED  BY AllInv, DispatchedInit, DispatchedStep, PTL DEF Spec

-----------------------------------------------------------------------------
(* With one request at a time the lifecycle of reservations is kept.       *)

OneRequest == \A a, b \in Clients : a = b

\* The reservation a request has read ACTIVE still is.
StillActive ==
    \A c \in Clients : txn[c].op \in ClosingOps
                       => rsv[txn[c].rsv].status = "ACTIVE"

LEMMA ActiveStep ==
  ASSUME OneRequest
  PROVE  Inv /\ StillActive /\ [Next]_vars => StillActive'
<1> SUFFICES ASSUME Inv, StillActive, [Next]_vars,
                    NEW k \in Clients, txn'[k].op \in ClosingOps
             PROVE  rsv'[txn'[k].rsv].status = "ACTIVE"
  BY DEF StillActive
<1>0. TypeOK /\ ClosingRowsExist /\ txn \in [Clients -> TxnRecord]
  BY DEF Inv, Typed, TypeOK, TxnRecord
<1>. DEFINE Kept == txn'[k] = txn[k] /\ rsv' = rsv
<1>1. ASSUME Kept PROVE rsv'[txn'[k].rsv].status = "ACTIVE"
  BY <1>1 DEF StillActive
<1>2. \A c \in Clients : c = k
  BY DEF OneRequest
<1>3. ASSUME NEW c \in Clients, NEW p \in Stock, NEW q \in Quantities,
             NEW b \in BatchNos \cup {NoBatch},
             NEW e \in ExpiryDates \cup {Never}, BeginReceive(c, p, q, b, e)
      PROVE  FALSE
  BY <1>0, <1>2, <1>3 DEF BeginReceive, ClosingOps
<1>4. ASSUME NEW c \in Clients, GuardedBegin(c)
      PROVE  FALSE
  BY <1>0, <1>2, <1>4 DEF GuardedBegin, BeginGuarded, ClosingOps, GuardedTxn,
     GuardedOps
<1>5. ASSUME NEW c \in Clients, NEW r \in Reservations,
             NEW op \in {"release", "fulfill"}, BeginClosing(c, op, r)
      PROVE  rsv'[txn'[k].rsv].status = "ACTIVE"
  BY <1>0, <1>2, <1>5 DEF BeginClosing, rsvVars
<1>6. ASSUME NEW c \in Clients,
             \/ CommitReceive(c) \/ CommitDispatch(c) \/ CommitTransfer(c)
             \/ CommitReserve(c)
      PROVE  FALSE
  <2>1. txn'[k] = txn[k]
    BY <1>0, <1>6, CommitKeepsClosings
       DEF CommitReceive, CommitDispatch, CommitTransfer, CommitReserve,
           ClosingOps, Idle
  <2>. QED  BY <1>2, <1>6, <2>1 DEF CommitReceive, CommitDispatch, CommitTransfer,
                CommitReserve, ClosingOps
<1>7. ASSUME NEW c \in Clients, CommitRelease(c) \/ CommitFulfill(c) \/ Abort(c)
      PROVE  FALSE
  BY <1>0, <1>2, <1>7 DEF CommitRelease, CommitFulfill, Abort, ClosingOps, Idle
<1>8. ASSUME NEW c \in Clients, FulfillCheckLock(c)
      PROVE  rsv'[txn'[k].rsv].status = "ACTIVE"
  <2>1. c = k /\ txn[c].op \in ClosingOps
    BY <1>2, <1>8 DEF FulfillCheckLock, ClosingOps
  <2>2. txn[c] \in ClosingTxn
    BY <1>0, <2>1, ClosingRow
  <2>3. txn'[k] = [txn[c] EXCEPT !.op = "fulfillUnlocked"]
    BY <1>0, <1>8, <2>1 DEF FulfillCheckLock
  <2>4. txn'[k].rsv = txn[c].rsv
    BY <2>2, <2>3 DEF ClosingTxn
  <2>. QED  BY <1>8, <2>1, <2>4 DEF FulfillCheckLock, rsvVars, StillActive
<1>9. ASSUME Correction \/ UNCHANGED vars PROVE Kept
  BY <1>9 DEF Correction, Adjust, ReceivePurchase, vars, rsvVars
<1>. QED
  BY <1>0, <1>1, <1>3, <1>4, <1>5, <1>6, <1>7, <1>8, <1>9, SerializableBegins
     DEF Next, BeginStep, CommitStep

Lifecycle == StillActive /\ DispatchedIffClosed /\ FulfilledOnce

LEMMA LifecycleInit == Init => Lifecycle
<1>1. Init => StillActive /\ FulfilledOnce
  BY DEF Init, StillActive, FulfilledOnce, Idle, ClosingOps
<1>. QED  BY <1>1, DispatchedInit DEF Lifecycle

LEMMA LifecycleStep ==
  ASSUME OneRequest
  PROVE  Inv /\ Lifecycle /\ [Next]_vars =>
         /\ Lifecycle'
         /\ \A r \in Reservations : rsv[r].status \in {"FULFILLED", "RELEASED"}
                                    => rsv'[r].status = rsv[r].status
<1>. DEFINE Final == \A r \in Reservations :
                        rsv[r].status \in {"FULFILLED", "RELEASED"}
                        => rsv'[r].status = rsv[r].status
<1> SUFFICES ASSUME Inv, Lifecycle, [Next]_vars PROVE Lifecycle' /\ Final
  OBVIOUS
<1>1. StillActive' /\ DispatchedIffClosed'
  BY ActiveStep, DispatchedStep DEF Lifecycle
<1>2. CASE UNCHANGED rsvVars
  BY <1>1, <1>2 DEF rsvVars, Lifecycle, FulfilledOnce
<1>3. ASSUME NEW r \in Reservations, Makes(r) PROVE FulfilledOnce' /\ Final
  BY <1>3 DEF Makes, Lifecycle, FulfilledOnce, NoReservation
<1>4. ASSUME NEW c \in Clients, NEW s \in {"FULFILLED", "RELEASED"},
             txn[c].op \in ClosingOps, txn[c].rsv \in Reservations,
             Ends(txn[c].rsv, s)
      PROVE  FulfilledOnce' /\ Final
  <2>. DEFINE r == txn[c].rsv
  <2>1. rsv[r].status = "ACTIVE" /\ dispatches[r] = 0
    BY <1>4 DEF Lifecycle, StillActive, DispatchedIffClosed
  <2>2. dispatches \in [Reservations -> Nat]
    BY DEF Inv, Typed, TypeOK
  <2>3. \A i \in Reservations : dispatches'[i] = dispatches[i]
                                \/ (i = r /\ dispatches'[i] = 1)
    BY <1>4, <2>1, <2>2 DEF Ends
  <2>4. FulfilledOnce'
    BY <2>3 DEF Lifecycle, FulfilledOnce
  <2>5. Final
    BY <1>4, <2>1 DEF Ends
  <2>. QED  BY <2>4, <2>5
<1>. QED
  BY <1>1, <1>2, <1>3, <1>4, ReservationWrites DEF ReservationWrite, Lifecycle

LEMMA AllLifecycle == ASSUME OneRequest PROVE Spec => [](Inv /\ Lifecycle)
<1>1. Inv /\ Lifecycle /\ [Next]_vars => Lifecycle'
  BY LifecycleStep
<1>. QED  BY AllInv, LifecycleInit, <1>1, PTL DEF Spec

\* With one request at a time a reservation becomes at most one DISPATCH: the
\* two of reservation_fulfilled_once take two requests.
THEOREM DispatchedOnce == ASSUME OneRequest PROVE Spec => []FulfilledOnce
<1>1. Inv /\ Lifecycle => FulfilledOnce
  BY DEF Lifecycle
<1>. QED  BY <1>1, AllLifecycle, PTL

\* With one request at a time FULFILLED and RELEASED are final.
THEOREM EndedForGood == ASSUME OneRequest PROVE Spec => ClosedIsFinal
<1>1. Inv /\ Lifecycle /\ [Next]_vars =>
        [\A r \in Reservations : rsv[r].status \in {"FULFILLED", "RELEASED"}
                                 => rsv'[r].status = rsv[r].status]_vars
  BY LifecycleStep
<1>. QED  BY <1>1, AllLifecycle, PTL DEF Spec, ClosedIsFinal
=============================================================================
