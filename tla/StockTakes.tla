----------------------------- MODULE StockTakes -----------------------------
(***************************************************************************)
(* Stock takes (src/modules/stock-takes/stock-takes.service.ts) running    *)
(* beside the requests of StockService, which they lock out of a warehouse *)
(* while one is IN_PROGRESS.                                               *)
(*                                                                         *)
(* Every handler here reads the take outside any transaction and later     *)
(* writes by id whatever the row has become: an Auditor's job is what its  *)
(* handler has read.  The writes run at READ COMMITTED.                    *)
(***************************************************************************)
EXTENDS StockService

CONSTANTS
    Auditors,       \* request handlers on the stock-take endpoints
    Counts,         \* quantities a stock taker may count
    NotCounted      \* actualQuantity and difference still null

ASSUME CountsAreNat == Counts \subseteq Nat
ASSUME NotCountedIsNull == NotCounted \notin Int

VARIABLES
    expected,     \* StockTakeItem.expectedQuantity (0 for an absent item)
    actual,       \* StockTakeItem.actualQuantity
    difference,   \* StockTakeItem.difference
    posted,       \* SUM of the STOCK_TAKE adjustments of each take
    job,          \* what each auditor's handler has read
    undisturbed   \* ghost: no change has slipped past the lock of the take

itemVars   == <<expected, actual, difference>>
auditVars  == <<expected, actual, difference, posted, job, undisturbed>>
systemVars == <<vars, auditVars>>

Diffs == [Variants -> Int \cup {NotCounted}]
\* RecordCountsDto: a quantity for some variants, not for the others.
CountLists == [Variants -> Counts \cup {NotCounted}]
Resting == [op |-> "resting"]
CreateJob  == [op : {"create"}, wh : Warehouses]
OpenJob    == [op : {"open"}, wh : Warehouses, sums : [Variants -> Int]]
CountJob   == [op : {"count"}, take : Takes, counts : CountLists, diffs : Diffs]
CloseJob   == [op : {"complete", "cancel"}, take : Takes, diffs : Diffs]

AuditTypeOK ==
    /\ TypeOK
    /\ expected \in [Takes -> [Variants -> Int]]
    /\ actual \in [Takes -> CountLists]
    /\ difference \in [Takes -> Diffs]
    /\ posted \in [Takes -> [Variants -> Int]]
    /\ job \in [Auditors -> CreateJob \cup OpenJob \cup CountJob \cup CloseJob
                            \cup {Resting}]
    /\ undisturbed \in [Takes -> BOOLEAN]

SystemInit ==
    /\ Init
    /\ expected = [t \in Takes |-> [v \in Variants |-> 0]]
    /\ actual = [t \in Takes |-> [v \in Variants |-> NotCounted]]
    /\ difference = [t \in Takes |-> [v \in Variants |-> NotCounted]]
    /\ posted = [t \in Takes |-> [v \in Variants |-> 0]]
    /\ job = [a \in Auditors |-> Resting]
    /\ undisturbed = [t \in Takes |-> FALSE]

-----------------------------------------------------------------------------
\* Request k has passed the lock check of warehouse w and not committed yet.
PastLockCheck(k, w) ==
    LET t == txn[k]
    IN  \/ t.op = "receive" /\ t.dst[2] = w
        \/ t.op \in {"dispatch", "transfer"} /\ w \in {t.src[2], t.dst[2]}
        \/ t.op = "fulfillUnlocked" /\ rsv[t.rsv].of[2] = w

InProgress(t) == takes[t].status = "IN_PROGRESS"

\* The takes that stay undisturbed when stock of warehouse w changes.
DisturbedAt(w) == [t \in Takes |-> undisturbed[t] /\ takes[t].wh # w]

-----------------------------------------------------------------------------
(* create: a check outside the transaction, then the row, the sums of the  *)
(* warehouse (one statement, so one snapshot) and the items.               *)

\* mutant: no check for an open take
CreateUnchecked(a, w) ==
    /\ job[a] = Resting
    /\ job' = [job EXCEPT ![a] = [op |-> "create", wh |-> w]]
    /\ UNCHANGED <<vars, itemVars, posted, undisturbed>>

CreateCheck(a, w) ==
    /\ job[a] = Resting
    /\ ~Locked(w)
    /\ job' = [job EXCEPT ![a] = [op |-> "create", wh |-> w]]
    /\ UNCHANGED <<vars, itemVars, posted, undisturbed>>

CreateSnapshot(a) ==
    /\ job[a].op = "create"
    /\ job' = [job EXCEPT ![a] =
                 [op |-> "open", wh |-> job[a].wh,
                  sums |-> [v \in Variants |-> physical[<<v, job[a].wh>>]]]]
    /\ UNCHANGED <<vars, itemVars, posted, undisturbed>>

\* The row becomes visible, and locks the warehouse, only now.
CreateCommit(a) ==
    LET w == job[a].wh
        sums == job[a].sums
    IN  /\ job[a].op = "open"
        /\ \E t \in Takes :
              /\ takes[t] = NoTake
              /\ takes' = [takes EXCEPT ![t] = [status |-> "IN_PROGRESS", wh |-> w]]
              /\ expected' = [expected EXCEPT ![t] = sums]
              /\ undisturbed' = [undisturbed EXCEPT ![t] =
                    /\ \A v \in Variants : physical[<<v, w>>] = sums[v]
                    /\ \A c \in Clients : ~PastLockCheck(c, w)]
        /\ job' = [job EXCEPT ![a] = Resting]
        /\ UNCHANGED <<ledgerVars, rsvVars, batchVars, txn, actual, difference,
                       posted>>

-----------------------------------------------------------------------------
(* recordCounts: difference = actual - expected, upserted by variant.      *)

\* mutant: the sign of the difference swapped
ExpectedMinusActual(t, counts) ==
    [v \in Variants |-> IF counts[v] = NotCounted THEN NotCounted
                        ELSE expected[t][v] - counts[v]]

CountDiffs(t, counts) ==
    [v \in Variants |-> IF counts[v] = NotCounted THEN NotCounted
                        ELSE counts[v] - expected[t][v]]

\* An upsert leaves the items of other variants as they are.
Upsert(old, new) ==
    [v \in Variants |-> IF new[v] = NotCounted THEN old[v] ELSE new[v]]

CountCheck(a, t, counts) ==
    /\ job[a] = Resting
    /\ InProgress(t)
    /\ \E v \in Variants : counts[v] # NotCounted
    /\ job' = [job EXCEPT ![a] = [op |-> "count", take |-> t, counts |-> counts,
                                  diffs |-> CountDiffs(t, counts)]]
    /\ UNCHANGED <<vars, itemVars, posted, undisturbed>>

\* mutant: the take's row written back as it was read
CountReopens(a) ==
    LET t == job[a].take
    IN  /\ job[a].op = "count"
        /\ takes' = [takes EXCEPT ![t].status = "IN_PROGRESS"]
        /\ job' = [job EXCEPT ![a] = Resting]
        /\ UNCHANGED <<ledgerVars, rsvVars, batchVars, txn, itemVars, posted,
                       undisturbed>>

CountCommit(a) ==
    LET t == job[a].take
    IN  /\ job[a].op = "count"
        /\ actual' = [actual EXCEPT ![t] = Upsert(actual[t], job[a].counts)]
        /\ difference' = [difference EXCEPT ![t] = Upsert(difference[t], job[a].diffs)]
        /\ job' = [job EXCEPT ![a] = Resting]
        /\ UNCHANGED <<vars, expected, posted, undisturbed>>

-----------------------------------------------------------------------------
(* complete and cancel: status and items read, then written by id.         *)

\* mutant: the status check dropped
BeginCloseAnyStatus(a, op, t) ==
    /\ job[a] = Resting
    /\ takes[t] # NoTake
    /\ job' = [job EXCEPT ![a] = [op |-> op, take |-> t, diffs |-> difference[t]]]
    /\ UNCHANGED <<vars, itemVars, posted, undisturbed>>

BeginClose(a, op, t) ==
    /\ job[a] = Resting
    /\ InProgress(t)
    /\ job' = [job EXCEPT ![a] = [op |-> op, take |-> t, diffs |-> difference[t]]]
    /\ UNCHANGED <<vars, itemVars, posted, undisturbed>>

Correcting(diffs, v) == IF diffs[v] = NotCounted THEN 0 ELSE diffs[v]

\* mutant: a status that a stock take does not have
SetOrderStatus(t, s) ==
    [takes EXCEPT ![t].status = IF s = "CANCELED" THEN "CLOSED" ELSE s]

SetStatus(t, s) == [takes EXCEPT ![t].status = s]

\* mutant: the adjustments land and the status is left for a later write
PostWithoutStatus(a) ==
    LET t == job[a].take
        d(p) == IF p[2] = takes[t].wh THEN Correcting(job[a].diffs, p[1]) ELSE 0
    IN  /\ job[a].op = "complete"
        /\ posted' = [posted EXCEPT ![t] =
              [v \in Variants |-> posted[t][v] + Correcting(job[a].diffs, v)]]
        /\ physical' = [p \in Stock |-> physical[p] + d(p)]
        /\ unchecked' = [p \in Stock |-> IF d(p) < 0 THEN unchecked[p] - d(p)
                                         ELSE unchecked[p]]
        /\ job' = [job EXCEPT ![a] = Resting]
        /\ UNCHANGED <<rsvVars, batchVars, txn, takes, itemVars,
                       undisturbed>>

\* One transaction: status COMPLETED, then an ADJUSTMENT per counted item with
\* a non-zero difference, from the items as they were read.
CompleteCommit(a) ==
    LET t == job[a].take
        w == takes[t].wh
        d(p) == IF p[2] = w THEN Correcting(job[a].diffs, p[1]) ELSE 0
    IN  /\ job[a].op = "complete"
        /\ takes' = SetStatus(t, "COMPLETED")
        /\ posted' = [posted EXCEPT ![t] =
              [v \in Variants |-> posted[t][v] + Correcting(job[a].diffs, v)]]
        /\ physical' = [p \in Stock |-> physical[p] + d(p)]
        /\ unchecked' = [p \in Stock |-> IF d(p) < 0 THEN unchecked[p] - d(p)
                                         ELSE unchecked[p]]
        /\ undisturbed' = DisturbedAt(w)
        /\ job' = [job EXCEPT ![a] = Resting]
        /\ UNCHANGED <<rsvVars, batchVars, txn, itemVars>>

CancelCommit(a) ==
    LET t == job[a].take
    IN  /\ job[a].op = "cancel"
        /\ takes' = SetStatus(t, "CANCELED")
        /\ undisturbed' = [undisturbed EXCEPT ![t] = FALSE]
        /\ job' = [job EXCEPT ![a] = Resting]
        /\ UNCHANGED <<ledgerVars, rsvVars, batchVars, txn, itemVars, posted>>

\* A handler that fails between its read and its write.
Forget(a) ==
    /\ job[a] # Resting
    /\ job' = [job EXCEPT ![a] = Resting]
    /\ UNCHANGED <<vars, itemVars, posted, undisturbed>>

-----------------------------------------------------------------------------
StockStep ==
    \/ /\ \E c \in Clients : BeginStep(c) \/ CommitStep(c) \/ Abort(c)
       /\ UNCHANGED auditVars
    \/ \E p \in Stock :
          /\ \/ \E d \in Deltas : Adjust(p, d)
             \/ \E q \in Quantities : ReceivePurchase(p, q)
          /\ undisturbed' = DisturbedAt(p[2])
          /\ UNCHANGED <<itemVars, posted, job>>

AuditStep(a) ==
    \/ \E w \in Warehouses : CreateCheck(a, w)
    \/ CreateSnapshot(a)
    \/ CreateCommit(a)
    \/ \E t \in Takes :
          \/ \E counts \in CountLists : CountCheck(a, t, counts)
          \/ \E op \in {"complete", "cancel"} : BeginClose(a, op, t)
    \/ CountCommit(a)
    \/ CompleteCommit(a)
    \/ CancelCommit(a)
    \/ Forget(a)

SystemNext == StockStep \/ \E a \in Auditors : AuditStep(a)

SystemSpec == SystemInit /\ [][SystemNext]_systemVars

-----------------------------------------------------------------------------
(* Properties.                                                             *)

\* README "Stock-take workflow": counts are taken against a frozen picture.  What
\* the lock does give: what a take expects is what its warehouse holds until it
\* is closed, unless a request was past the lock check, or a movement came
\* between snapshot and commit, when the take was opened, or a manual
\* adjustment, a purchase receipt or another take changed the warehouse since.
FrozenUnlessDisturbed ==
    \A t \in Takes : (InProgress(t) /\ undisturbed[t]) =>
        \A v \in Variants : physical[<<v, takes[t].wh>>] = expected[t][v]

\* The purpose of a take: completing one whose picture stayed frozen leaves the
\* warehouse holding what was counted.
CountsBecomeStock ==
    [][\A t \in Takes :
          (InProgress(t) /\ undisturbed[t] /\ takes'[t].status = "COMPLETED") =>
          \A v \in Variants : actual[t][v] # NotCounted =>
              physical'[<<v, takes[t].wh>>] = actual[t][v]
      ]_systemVars

\* complete is one transaction: no adjustment of a take is in the ledger while
\* the take still locks the warehouse.
NothingPostedWhileOpen ==
    \A t \in Takes : takes[t] = NoTake \/ InProgress(t) =>
        \A v \in Variants : posted[t][v] = 0

\* The adjustments of a completed take are the differences of its items.
PostedIsDifference ==
    \A t \in Takes : takes[t].status = "COMPLETED" =>
        \A v \in Variants : posted[t][v] = Correcting(difference[t], v)

\* stock-takes.service.ts:204: a canceled take posts no adjustments.
CanceledPostsNothing ==
    \A t \in Takes : takes[t].status = "CANCELED" =>
        \A v \in Variants : posted[t][v] = 0

\* stock-takes.service.ts:29: only one take may be IN_PROGRESS per warehouse.
OneOpenTakePerWarehouse ==
    \A t, u \in Takes : (InProgress(t) /\ InProgress(u)
                         /\ takes[t].wh = takes[u].wh) => t = u

\* A completed or canceled take never locks its warehouse again.
ClosedTakeStaysClosed ==
    [][\A t \in Takes : (takes[t] # NoTake /\ ~InProgress(t))
                          => takes'[t].status # "IN_PROGRESS"]_systemVars
=============================================================================
