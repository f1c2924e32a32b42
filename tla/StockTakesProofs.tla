-------------------------- MODULE StockTakesProofs --------------------------
(***************************************************************************)
(* What holds of stock takes running beside the stock gateway, for any     *)
(* number of requests, stock-take handlers, takes, warehouses and variants *)
(*                                                                         *)
(* Every step of StockService keeps what StockServiceProofs shows of it,   *)
(* because it is a step of that module.  What is new are the four kinds of *)
(* step of a stock-take handler: Quiet ones, that touch neither stock nor  *)
(* takes, and the commits of create, complete and cancel.                  *)
(***************************************************************************)
EXTENDS StockTakes, StockServiceProofs

JobRecord == CreateJob \cup OpenJob \cup CountJob \cup CloseJob \cup {Resting}
TakeOps == {"count", "complete", "cancel"}

\* Rows of takes are never deleted: a handler in flight names one that exists.
JobTakesExist ==
    \A a \in Auditors : job[a].op \in TakeOps => takes[job[a].take] # NoTake

\* While a take is undisturbed no request is past its lock check.
NobodyPast ==
    \A t \in Takes : InProgress(t) /\ undisturbed[t] =>
        \A c \in Clients : ~PastLockCheck(c, takes[t].wh)

\* The two halves of the invariant: what the stock gateway keeps, and takes.
StockInv == Typed /\ Safe
TakeInv == /\ AuditTypeOK
           /\ JobTakesExist
           /\ FrozenUnlessDisturbed
           /\ NobodyPast
           /\ NothingPostedWhileOpen
SystemInv == StockInv /\ TakeInv

-----------------------------------------------------------------------------
(* Rows and jobs, field by field.                                          *)

\* The job of a handler is told apart by its op.
LEMMA JobByOp ==
  ASSUME NEW j \in JobRecord
  PROVE  /\ j.op = "create" => j \in CreateJob
         /\ j.op = "open" => j \in OpenJob
         /\ j.op = "count" => j \in CountJob
         /\ j.op \in {"complete", "cancel"} => j \in CloseJob
  BY DEF JobRecord, CreateJob, OpenJob, CountJob, CloseJob, Resting

\* A take that a handler names is a row.
LEMMA TakeRowOfJob ==
  ASSUME AuditTypeOK, JobTakesExist, NEW a \in Auditors, job[a].op \in TakeOps
  PROVE  /\ job[a].take \in Takes
         /\ takes[job[a].take] \in TakeRow
         /\ takes[job[a].take].wh \in Warehouses
         /\ job[a].diffs \in Diffs
<1>1. job[a] \in CountJob \cup CloseJob
  BY JobByOp DEF AuditTypeOK, JobRecord, TakeOps
<1>2. job[a].take \in Takes /\ job[a].diffs \in Diffs
  BY <1>1 DEF CountJob, CloseJob
<1>3. takes[job[a].take] \in TakeRow
  BY <1>2 DEF AuditTypeOK, TypeOK, JobTakesExist
<1>. QED  BY <1>2, <1>3 DEF TakeRow

\* An open take is a row.
LEMMA OpenTakeRow ==
  ASSUME TypeOK, NEW t \in Takes, InProgress(t)
  PROVE  takes[t] \in TakeRow /\ takes[t].wh \in Warehouses
<1>1. takes[t] \in TakeRow
  BY DEF TypeOK, InProgress, NoTake
<1>. QED  BY <1>1 DEF TakeRow

\* Writing the status of a row leaves a row, of the same warehouse.
LEMMA StatusOfTake ==
  ASSUME takes \in [Takes -> TakeRow \cup {NoTake}], NEW t \in Takes,
         takes[t] \in TakeRow, NEW s \in {"COMPLETED", "CANCELED"},
         takes' = SetStatus(t, s)
  PROVE  /\ takes' \in [Takes -> TakeRow \cup {NoTake}]
         /\ takes'[t] # NoTake /\ takes'[t].status = s
         /\ \A u \in Takes \ {t} : takes'[u] = takes[u]
<1>1. [takes[t] EXCEPT !.status = s] \in TakeRow
  BY DEF TakeRow
<1>2. takes' = [takes EXCEPT ![t] = [takes[t] EXCEPT !.status = s]]
  BY DEF SetStatus
<1>3. \A r \in TakeRow : r # NoTake
  BY DEF TakeRow, NoTake
<1>4. [takes[t] EXCEPT !.status = s].status = s
  BY DEF TakeRow
<1>. QED  BY <1>1, <1>2, <1>3, <1>4

\* What an item adds to stock is an integer.
LEMMA CorrectingType ==
  ASSUME NEW diffs \in Diffs, NEW v \in Variants
  PROVE  Correcting(diffs, v) \in Int
  BY DEF Correcting, Diffs

\* So is the difference of a counted item.
LEMMA DiffsType ==
  ASSUME expected \in [Takes -> [Variants -> Int]], NEW t \in Takes,
         NEW counts \in CountLists
  PROVE  CountDiffs(t, counts) \in Diffs
<1>1. ASSUME NEW v \in Variants
      PROVE  (IF counts[v] = NotCounted THEN NotCounted
                 ELSE counts[v] - expected[t][v]) \in Int \cup {NotCounted}
  <2>1. expected[t][v] \in Int /\ counts[v] \in Counts \cup {NotCounted}
    BY DEF CountLists
  <2>2. ASSUME counts[v] # NotCounted PROVE counts[v] \in Int
    <3>1. counts[v] \in Nat
      BY <2>1, <2>2, CountsAreNat, Zenon
    <3>. QED  BY <3>1
  <2>3. ASSUME NEW m \in Int, NEW n \in Int PROVE m - n \in Int
    OBVIOUS
  <2>4. ASSUME counts[v] # NotCounted
        PROVE  counts[v] - expected[t][v] \in Int
    BY <2>1, <2>2, <2>3, <2>4
  <2>. QED  BY <2>4, Zenon
<1>. QED  BY <1>1 DEF CountDiffs, Diffs

\* An upsert of a column of counts, or of differences, leaves one.
LEMMA UpsertType ==
  ASSUME NEW S, NEW old \in [Variants -> S], NEW new \in [Variants -> S]
  PROVE  Upsert(old, new) \in [Variants -> S]
  BY DEF Upsert

-----------------------------------------------------------------------------
(* The steps of a handler that touch neither stock nor takes.              *)

Quiet(a) ==
  /\ UNCHANGED <<vars, expected, posted, undisturbed>>
  /\ actual' \in [Takes -> CountLists]
  /\ difference' \in [Takes -> Diffs]
  /\ \E j \in JobRecord : /\ job' = [job EXCEPT ![a] = j]
                          /\ j.op \in TakeOps => takes[j.take] # NoTake

\* All but the commits of create, complete and cancel are quiet.
LEMMA QuietSteps ==
  ASSUME TakeInv, NEW a \in Auditors, AuditStep(a)
  PROVE  Quiet(a) \/ CreateCommit(a) \/ CompleteCommit(a) \/ CancelCommit(a)
<1>. USE DEF TakeInv
<1>0. /\ expected \in [Takes -> [Variants -> Int]]
      /\ actual \in [Takes -> CountLists]
      /\ difference \in [Takes -> Diffs]
  BY DEF AuditTypeOK
<1>1. ASSUME NEW w \in Warehouses, CreateCheck(a, w) PROVE Quiet(a)
  <2>. DEFINE j == [op |-> "create", wh |-> w]
  <2>1. j \in JobRecord /\ j.op \notin TakeOps
    BY DEF JobRecord, CreateJob, TakeOps
  <2>. QED  BY <1>0, <1>1, <2>1 DEF CreateCheck, Quiet, itemVars
<1>2. ASSUME CreateSnapshot(a) PROVE Quiet(a)
  <2>. DEFINE j == [op |-> "open", wh |-> job[a].wh,
                    sums |-> [v \in Variants |-> physical[<<v, job[a].wh>>]]]
  <2>1. job[a] \in CreateJob
    BY <1>2, JobByOp DEF CreateSnapshot, AuditTypeOK, JobRecord
  <2>2. \A v \in Variants : physical[<<v, job[a].wh>>] \in Int
    BY <2>1 DEF CreateJob, AuditTypeOK, TypeOK, Stock
  <2>3. j \in JobRecord /\ j.op \notin TakeOps
    BY <2>1, <2>2 DEF JobRecord, OpenJob, CreateJob, TakeOps
  <2>. QED  BY <1>0, <1>2, <2>3 DEF CreateSnapshot, Quiet, itemVars
<1>3. ASSUME NEW t \in Takes, NEW counts \in CountLists,
             CountCheck(a, t, counts)
      PROVE  Quiet(a)
  <2>. DEFINE j == [op |-> "count", take |-> t, counts |-> counts,
                    diffs |-> CountDiffs(t, counts)]
  <2>2. CountDiffs(t, counts) \in Diffs
    BY <1>0, DiffsType
  <2>3. j \in JobRecord
    BY <2>2 DEF JobRecord, CountJob
  <2>4. takes[j.take] # NoTake
    BY <1>3 DEF CountCheck, InProgress, NoTake
  <2>. QED  BY <1>0, <1>3, <2>3, <2>4 DEF CountCheck, Quiet, itemVars
<1>4. ASSUME NEW t \in Takes, NEW op \in {"complete", "cancel"},
             BeginClose(a, op, t)
      PROVE  Quiet(a)
  <2>. DEFINE j == [op |-> op, take |-> t, diffs |-> difference[t]]
  <2>1. j \in JobRecord
    BY <1>0 DEF JobRecord, CloseJob
  <2>2. takes[j.take] # NoTake
    BY <1>4 DEF BeginClose, InProgress, NoTake
  <2>. QED  BY <1>0, <1>4, <2>1, <2>2 DEF BeginClose, Quiet, itemVars
<1>5. ASSUME CountCommit(a) PROVE Quiet(a)
  <2>1. job[a].take \in Takes /\ job[a].diffs \in Diffs
    BY <1>5, TakeRowOfJob DEF CountCommit, TakeOps
  <2>2. job[a].counts \in CountLists
    BY <1>5, JobByOp DEF CountCommit, CountJob, AuditTypeOK, JobRecord
  <2>3. /\ Upsert(actual[job[a].take], job[a].counts) \in CountLists
        /\ Upsert(difference[job[a].take], job[a].diffs) \in Diffs
    BY <1>0, <2>1, <2>2, UpsertType DEF CountLists, Diffs
  <2>4. actual' \in [Takes -> CountLists] /\ difference' \in [Takes -> Diffs]
    BY <1>0, <1>5, <2>3 DEF CountCommit
  <2>5. Resting \in JobRecord /\ Resting.op \notin TakeOps
    BY DEF JobRecord, Resting, TakeOps
  <2>. QED  BY <1>5, <2>4, <2>5 DEF CountCommit, Quiet
<1>6. ASSUME Forget(a) PROVE Quiet(a)
  <2>1. Resting \in JobRecord /\ Resting.op \notin TakeOps
    BY DEF JobRecord, Resting, TakeOps
  <2>. QED  BY <1>0, <1>6, <2>1 DEF Forget, Quiet, itemVars
<1>. QED  BY <1>1, <1>2, <1>3, <1>4, <1>5, <1>6 DEF AuditStep

\* What a handler of stock takes does to the take rows is nothing to the gateway.
LEMMA StockKept ==
  ASSUME StockInv, takes' \in [Takes -> TakeRow \cup {NoTake}],
         UNCHANGED <<physical, rsv, dispatches, remaining, expiry, txn, unchecked>>
  PROVE  StockInv'
<1>1. /\ \A p : Available(p)' = Available(p)
      /\ \A p : ActiveOf(p)' = ActiveOf(p)
  BY KeptReserved DEF KeepsRsv, Available
<1>2. Typed'
  BY <1>1 DEF StockInv, Typed, TypeOK, ClosingRowsExist, FinitelyActive
<1>3. OversellBounded' /\ BatchNeverOverdrawn'
  BY <1>1 DEF StockInv, Safe, OversellBounded, BatchNeverOverdrawn
<1>4. InFlightCovered'
  <2>. SUFFICES ASSUME NEW c \in Clients, txn[c].op \in GuardedOps, ~txn[c].doomed
                PROVE  /\ txn[c].qty <= Available(txn[c].src)' + LostSince(c)'
                       /\ \A b \in BatchNos :
                            txn[c].plan[b] <= remaining[<<txn[c].src, b>>]
    BY DEF InFlightCovered
  <2>1. LostSince(c)' = LostSince(c)
    BY DEF LostSince
  <2>2. Available(txn[c].src)' = Available(txn[c].src)
    BY KeptReserved DEF Available, reservedStock, ActiveOf
  <2>. QED  BY <2>1, <2>2 DEF StockInv, Safe, InFlightCovered
<1>. QED  BY <1>2, <1>3, <1>4 DEF StockInv, Safe

\* A quiet step preserves the invariant.
LEMMA QuietStep ==
  ASSUME SystemInv, NEW a \in Auditors, Quiet(a)
  PROVE  SystemInv'
<1>0. AuditTypeOK /\ TypeOK
  BY DEF SystemInv, StockInv, TakeInv, Typed
<1>1. PICK j \in JobRecord : /\ job' = [job EXCEPT ![a] = j]
                             /\ j.op \in TakeOps => takes[j.take] # NoTake
  BY DEF Quiet
<1>2. /\ UNCHANGED <<physical, rsv, dispatches, remaining, expiry,
                     takes, txn, unchecked, expected, posted, undisturbed>>
      /\ actual' \in [Takes -> CountLists] /\ difference' \in [Takes -> Diffs]
  BY DEF Quiet, vars
<1>3. StockInv'
  BY <1>0, <1>2, StockKept DEF SystemInv, TypeOK
<1>4. AuditTypeOK'
  BY <1>0, <1>1, <1>2, <1>3 DEF AuditTypeOK, JobRecord, StockInv, Typed
<1>5. JobTakesExist'
  BY <1>0, <1>1, <1>2 DEF SystemInv, TakeInv, JobTakesExist, AuditTypeOK
<1>6. (FrozenUnlessDisturbed /\ NobodyPast /\ NothingPostedWhileOpen)'
  BY <1>2 DEF SystemInv, TakeInv, FrozenUnlessDisturbed, NobodyPast,
     NothingPostedWhileOpen, InProgress, PastLockCheck
<1>. QED  BY <1>3, <1>4, <1>5, <1>6 DEF SystemInv, TakeInv

-----------------------------------------------------------------------------
(* The commits of create, complete and cancel.                             *)

\* A handler that is done leaves the other handlers' takes where they are.
LEMMA JobDone ==
  ASSUME AuditTypeOK, JobTakesExist, NEW a \in Auditors,
         job' = [job EXCEPT ![a] = Resting],
         \A t \in Takes : takes[t] # NoTake => takes'[t] # NoTake
  PROVE  /\ job' \in [Auditors -> JobRecord]
         /\ JobTakesExist'
<1>1. job \in [Auditors -> JobRecord] /\ Resting \in JobRecord
  BY DEF AuditTypeOK, JobRecord
<1>2. ASSUME NEW b \in Auditors, job'[b].op \in TakeOps
      PROVE  takes'[job'[b].take] # NoTake
  <2>1. b # a /\ job'[b] = job[b]
    BY <1>1, <1>2 DEF Resting, TakeOps
  <2>2. job[b].take \in Takes /\ takes[job[b].take] # NoTake
    BY <1>2, <2>1, TakeRowOfJob DEF JobTakesExist
  <2>. QED  BY <2>1, <2>2
<1>. QED  BY <1>1, <1>2 DEF JobTakesExist

\* Request k is past the lock check of warehouse w after the step.
PastNext(k, w) ==
  LET t == txn'[k]
  IN  \/ t.op = "receive" /\ t.dst[2] = w
      \/ t.op \in {"dispatch", "transfer"} /\ w \in {t.src[2], t.dst[2]}
      \/ t.op = "fulfillUnlocked" /\ rsv'[t.rsv].of[2] = w

\* A step that changes neither the requests in flight nor the reservations
\* changes nobody's standing at a lock.
LEMMA SameStanding ==
  ASSUME txn' = txn, rsv' = rsv, NEW c, NEW w
  PROVE  PastNext(c, w) <=> PastLockCheck(c, w)
  BY DEF PastLockCheck, PastNext

\* The two facts about undisturbed takes, after the step.
LEMMA UndisturbedNext ==
  ASSUME \A u \in Takes : takes'[u].status = "IN_PROGRESS" /\ undisturbed'[u] =>
           /\ \A v \in Variants : physical'[<<v, takes'[u].wh>>] = expected'[u][v]
           /\ \A c \in Clients : ~PastNext(c, takes'[u].wh)
  PROVE  FrozenUnlessDisturbed' /\ NobodyPast'
  BY DEF FrozenUnlessDisturbed, NobodyPast, InProgress, PastLockCheck, PastNext

LEMMA CreateStep ==
  ASSUME SystemInv, NEW a \in Auditors, CreateCommit(a)
  PROVE  SystemInv'
<1>. USE DEF SystemInv, StockInv, TakeInv
<1>0. AuditTypeOK /\ TypeOK
  BY DEF Typed
<1>1. job[a] \in OpenJob
  BY <1>0, JobByOp DEF CreateCommit, AuditTypeOK, JobRecord
<1>. DEFINE w == job[a].wh
            sums == job[a].sums
<1>2. w \in Warehouses /\ sums \in [Variants -> Int]
  BY <1>1 DEF OpenJob
<1>3. PICK t \in Takes :
        /\ takes[t] = NoTake
        /\ takes' = [takes EXCEPT ![t] = [status |-> "IN_PROGRESS", wh |-> w]]
        /\ expected' = [expected EXCEPT ![t] = sums]
        /\ undisturbed' = [undisturbed EXCEPT ![t] =
              /\ \A v \in Variants : physical[<<v, w>>] = sums[v]
              /\ \A c \in Clients : ~PastLockCheck(c, w)]
  BY DEF CreateCommit
<1>4. /\ UNCHANGED <<physical, unchecked, rsv, dispatches, remaining,
                     expiry, txn, actual, difference, posted>>
      /\ job' = [job EXCEPT ![a] = Resting]
  BY DEF CreateCommit, ledgerVars, rsvVars, batchVars
<1>5. [status |-> "IN_PROGRESS", wh |-> w] \in TakeRow
  BY <1>2 DEF TakeRow
<1>. HIDE DEF w, sums
<1>6. /\ takes' \in [Takes -> TakeRow \cup {NoTake}]
      /\ takes'[t].wh = w
      /\ \A u \in Takes \ {t} : takes'[u] = takes[u]
      /\ \A u \in Takes : takes[u] # NoTake => takes'[u] # NoTake
  BY <1>0, <1>3, <1>5 DEF TypeOK
<1>7. TypeOK' /\ StockInv'
  BY <1>0, <1>4, <1>6, StockKept DEF TypeOK
<1>9. JobTakesExist' /\ job' \in [Auditors -> JobRecord]
  BY <1>0, <1>4, <1>6, JobDone
<1>10. /\ expected' \in [Takes -> [Variants -> Int]]
       /\ undisturbed' \in [Takes -> BOOLEAN]
  BY <1>0, <1>2, <1>3 DEF AuditTypeOK
<1>11. AuditTypeOK'
  BY <1>0, <1>4, <1>7, <1>9, <1>10 DEF AuditTypeOK, JobRecord
<1>12. ASSUME NEW u \in Takes, takes'[u].status = "IN_PROGRESS", undisturbed'[u]
       PROVE  /\ \A v \in Variants : physical'[<<v, takes'[u].wh>>] = expected'[u][v]
              /\ \A c \in Clients : ~PastNext(c, takes'[u].wh)
  <2>1. CASE u = t
    <3>1. /\ \A v \in Variants : physical[<<v, w>>] = sums[v]
          /\ \A c \in Clients : ~PastLockCheck(c, w)
      BY <1>0, <1>3, <1>12, <2>1 DEF AuditTypeOK
    <3>2. expected'[u] = sums /\ takes'[u].wh = w
      BY <1>0, <1>3, <1>6, <2>1 DEF AuditTypeOK
    <3>. QED  BY <1>4, <3>1, <3>2, SameStanding
  <2>2. CASE u # t
    <3>1. takes'[u] = takes[u] /\ expected'[u] = expected[u] /\ undisturbed[u]
      BY <1>0, <1>3, <1>6, <1>12, <2>2 DEF AuditTypeOK
    <3>2. InProgress(u)
      BY <1>12, <3>1 DEF InProgress
    <3>. QED  BY <1>4, <3>1, <3>2, SameStanding
              DEF FrozenUnlessDisturbed, NobodyPast
  <2>. QED  BY <2>1, <2>2
<1>13. FrozenUnlessDisturbed' /\ NobodyPast'
  BY <1>12, UndisturbedNext
<1>14. NothingPostedWhileOpen'
  BY <1>3, <1>4, <1>6 DEF NothingPostedWhileOpen, InProgress
<1>. QED  BY <1>7, <1>9, <1>11, <1>13, <1>14

\* Complete and cancel alike close a row: what holds of the takes that stay open
\* holds after, if the step keeps the stock of the warehouses it leaves
\* undisturbed.
LEMMA ClosedTake ==
  ASSUME TakeInv, TypeOK, NEW t \in Takes,
         takes'[t].status # "IN_PROGRESS", takes'[t] # NoTake,
         \A u \in Takes \ {t} : /\ takes'[u] = takes[u]
                                /\ posted'[u] = posted[u]
                                /\ undisturbed'[u] => undisturbed[u],
         \A u \in Takes \ {t} : InProgress(u) /\ undisturbed'[u] =>
            \A v \in Variants :
               physical'[<<v, takes[u].wh>>] = physical[<<v, takes[u].wh>>],
         expected' = expected, txn' = txn, rsv' = rsv
  PROVE  FrozenUnlessDisturbed' /\ NobodyPast' /\ NothingPostedWhileOpen'
<1>. USE DEF TakeInv
<1>1. ASSUME NEW u \in Takes, takes'[u].status = "IN_PROGRESS", undisturbed'[u]
      PROVE  /\ \A v \in Variants : physical'[<<v, takes'[u].wh>>] = expected'[u][v]
             /\ \A c \in Clients : ~PastNext(c, takes'[u].wh)
  <2>1. u # t
    BY <1>1
  <2>2. takes'[u] = takes[u] /\ undisturbed[u]
    BY <1>1, <2>1
  <2>3. InProgress(u)
    BY <1>1, <2>2 DEF InProgress
  <2>. QED  BY <1>1, <2>1, <2>2, <2>3, SameStanding
            DEF FrozenUnlessDisturbed, NobodyPast
<1>2. ASSUME NEW u \in Takes,
             takes'[u] = NoTake \/ takes'[u].status = "IN_PROGRESS"
      PROVE  \A v \in Variants : posted'[u][v] = 0
  <2>1. u # t
    BY <1>2
  <2>. QED  BY <1>2, <2>1 DEF NothingPostedWhileOpen, InProgress
<1>3. NothingPostedWhileOpen'
  BY <1>2 DEF NothingPostedWhileOpen, InProgress
<1>. QED  BY <1>1, <1>3, UndisturbedNext

LEMMA CancelStep ==
  ASSUME SystemInv, NEW a \in Auditors, CancelCommit(a)
  PROVE  SystemInv'
<1>. USE DEF SystemInv, StockInv
<1>. DEFINE t == job[a].take
<1>0. AuditTypeOK /\ TypeOK /\ JobTakesExist
  BY DEF TakeInv, Typed
<1>1. t \in Takes /\ takes[t] \in TakeRow
  BY <1>0, TakeRowOfJob DEF CancelCommit, TakeOps
<1>2. /\ UNCHANGED <<physical, unchecked, rsv, dispatches, remaining,
                     expiry, txn, expected, actual, difference, posted>>
      /\ takes' = SetStatus(t, "CANCELED")
      /\ undisturbed' = [undisturbed EXCEPT ![t] = FALSE]
      /\ job' = [job EXCEPT ![a] = Resting]
  BY DEF CancelCommit, ledgerVars, rsvVars, batchVars, itemVars
<1>. HIDE DEF t
<1>3. /\ takes' \in [Takes -> TakeRow \cup {NoTake}]
      /\ takes'[t] # NoTake /\ takes'[t].status = "CANCELED"
      /\ \A u \in Takes \ {t} : takes'[u] = takes[u]
  BY <1>0, <1>1, <1>2, StatusOfTake DEF TypeOK
<1>4. TypeOK' /\ StockInv'
  BY <1>0, <1>2, <1>3, StockKept DEF TypeOK
<1>6. \A u \in Takes : takes[u] # NoTake => takes'[u] # NoTake
  BY <1>3
<1>7. JobTakesExist' /\ job' \in [Auditors -> JobRecord]
  BY <1>0, <1>2, <1>6, JobDone
<1>8. /\ undisturbed' \in [Takes -> BOOLEAN]
      /\ \A u \in Takes \ {t} : undisturbed'[u] = undisturbed[u]
  BY <1>0, <1>2 DEF AuditTypeOK
<1>9. AuditTypeOK'
  BY <1>0, <1>2, <1>4, <1>7, <1>8 DEF AuditTypeOK, JobRecord
<1>10. FrozenUnlessDisturbed' /\ NobodyPast' /\ NothingPostedWhileOpen'
  BY <1>0, <1>1, <1>2, <1>3, <1>8, ClosedTake
<1>. QED  BY <1>4, <1>7, <1>9, <1>10 DEF TakeInv

LEMMA CompleteStep ==
  ASSUME SystemInv, NEW a \in Auditors, CompleteCommit(a)
  PROVE  SystemInv'
<1>. USE DEF SystemInv, StockInv
<1>. DEFINE t == job[a].take
            w == takes[t].wh
            diffs == job[a].diffs
            d(p) == IF p[2] = w THEN Correcting(diffs, p[1]) ELSE 0
<1>0. AuditTypeOK /\ TypeOK /\ JobTakesExist
  BY DEF TakeInv, Typed
<1>1. t \in Takes /\ takes[t] \in TakeRow /\ w \in Warehouses /\ diffs \in Diffs
  BY <1>0, TakeRowOfJob DEF CompleteCommit, TakeOps
<1>2. /\ UNCHANGED <<rsv, dispatches, remaining, expiry, txn, expected,
                     actual, difference>>
      /\ takes' = SetStatus(t, "COMPLETED")
      /\ posted' = [posted EXCEPT ![t] =
            [v \in Variants |-> posted[t][v] + Correcting(diffs, v)]]
      /\ physical' = [p \in Stock |-> physical[p] + d(p)]
      /\ unchecked' = [p \in Stock |-> IF d(p) < 0 THEN unchecked[p] - d(p)
                                       ELSE unchecked[p]]
      /\ undisturbed' = DisturbedAt(w)
      /\ job' = [job EXCEPT ![a] = Resting]
  BY DEF CompleteCommit, rsvVars, batchVars, itemVars
<1>3. ASSUME NEW p \in Stock PROVE d(p) \in Int
  BY <1>1, CorrectingType DEF Stock
<1>. HIDE DEF t, diffs, d
<1>4. /\ takes' \in [Takes -> TakeRow \cup {NoTake}]
      /\ takes'[t] # NoTake /\ takes'[t].status = "COMPLETED"
      /\ \A u \in Takes \ {t} : takes'[u] = takes[u]
  BY <1>0, <1>1, <1>2, StatusOfTake DEF TypeOK
<1>5. physical' \in [Stock -> Int] /\ unchecked' \in [Stock -> Nat]
  BY <1>0, <1>2, <1>3 DEF TypeOK
<1>6. TypeOK'
  BY <1>0, <1>2, <1>4, <1>5 DEF TypeOK
<1>7. ASSUME NEW p \in Stock PROVE Headroom(p)' >= Headroom(p)
  <2>1. /\ physical[p] \in Int /\ reservedStock(p) \in Int /\ unchecked[p] \in Int
        /\ physical'[p] = physical[p] + d(p) /\ reservedStock(p)' = reservedStock(p)
        /\ unchecked'[p] = IF d(p) < 0 THEN unchecked[p] - d(p) ELSE unchecked[p]
    BY <1>0, <1>2, AvailableInt, KeptReserved DEF TypeOK, Typed, KeepsRsv
  <2>. QED  BY <1>3, <2>1 DEF Headroom, Available
<1>8. Typed'
  <2>1. \A p : ActiveOf(p)' = ActiveOf(p)
    BY <1>2, KeptReserved DEF KeepsRsv
  <2>. QED  BY <1>2, <1>6, <2>1 DEF Typed, ClosingRowsExist, FinitelyActive
<1>9. Safe'
  BY <1>0, <1>2, <1>7, <1>8, HarmlessStep DEF TypeOK
<1>10. \A u \in Takes : takes[u] # NoTake => takes'[u] # NoTake
  BY <1>4
<1>11. JobTakesExist' /\ job' \in [Auditors -> JobRecord]
  BY <1>0, <1>2, <1>10, JobDone
<1>12. /\ posted' \in [Takes -> [Variants -> Int]]
       /\ \A u \in Takes \ {t} : posted'[u] = posted[u]
  <2>1. \A v \in Variants : Correcting(diffs, v) \in Int
    BY <1>1, CorrectingType
  <2>. QED  BY <1>0, <1>1, <1>2, <2>1 DEF AuditTypeOK
<1>13. /\ undisturbed' \in [Takes -> BOOLEAN]
       /\ \A u \in Takes : undisturbed'[u] => undisturbed[u] /\ takes[u].wh # w
  BY <1>0, <1>2 DEF AuditTypeOK, DisturbedAt
<1>14. AuditTypeOK'
  BY <1>0, <1>2, <1>6, <1>11, <1>12, <1>13 DEF AuditTypeOK, JobRecord
<1>15. ASSUME NEW u \in Takes \ {t}, InProgress(u), undisturbed'[u],
              NEW v \in Variants
       PROVE  physical'[<<v, takes[u].wh>>] = physical[<<v, takes[u].wh>>]
  <2>. DEFINE p == <<v, takes[u].wh>>
  <2>1. p \in Stock
    BY <1>0, <1>15, OpenTakeRow DEF Stock
  <2>2. d(p) = 0
    BY <1>13, <1>15 DEF d
  <2>3. physical'[p] = physical[p] + 0 /\ physical[p] \in Int
    BY <1>0, <1>2, <2>1, <2>2 DEF TypeOK
  <2>. QED  BY <2>3
<1>16. FrozenUnlessDisturbed' /\ NobodyPast' /\ NothingPostedWhileOpen'
  BY <1>0, <1>1, <1>2, <1>4, <1>12, <1>13, <1>15, ClosedTake
<1>. QED  BY <1>6, <1>8, <1>9, <1>11, <1>14, <1>16 DEF TakeInv

-----------------------------------------------------------------------------
(* The requests of the stock gateway beside an undisturbed take.           *)

\* Request k stays where it is, ends, is doomed, or starts something that does
\* not look at the lock or has not yet.
Standing(k) ==
  \/ txn'[k] = txn[k]
  \/ txn'[k].op \in {"idle", "reserve", "release", "fulfill"}
  \/ txn[k] \in GuardedTxn /\ txn'[k] = [txn[k] EXCEPT !.doomed = TRUE]

\* Reservations keep their pair.
PairsKept == \A r \in Reservations : rsv[r] # NoReservation
                                     => rsv'[r].of = rsv[r].of

LEMMA KeptStanding ==
  ASSUME TypeOK, ClosingRowsExist, PairsKept, NEW k \in Clients, NEW w,
         Standing(k), ~PastLockCheck(k, w)
  PROVE  ~PastNext(k, w)
<1>1. CASE txn'[k] = txn[k]
  <2>1. CASE txn[k].op = "fulfillUnlocked"
    <3>1. txn[k].rsv \in Reservations /\ rsv[txn[k].rsv] # NoReservation
      BY <2>1, ClosingRow DEF ClosingOps, ClosingRowsExist
    <3>. QED  BY <1>1, <2>1, <3>1 DEF PairsKept, PastLockCheck, PastNext
  <2>2. CASE txn[k].op # "fulfillUnlocked"
    BY <1>1, <2>2 DEF PastLockCheck, PastNext
  <2>. QED  BY <2>1, <2>2
<1>2. CASE txn'[k].op \in {"idle", "reserve", "release", "fulfill"}
  BY <1>2 DEF PastNext
<1>3. CASE txn[k] \in GuardedTxn /\ txn'[k] = [txn[k] EXCEPT !.doomed = TRUE]
  <2>1. /\ txn'[k].op = txn[k].op /\ txn'[k].op \in GuardedOps
        /\ txn'[k].src = txn[k].src /\ txn'[k].dst = txn[k].dst
    BY <1>3 DEF GuardedTxn
  <2>. QED  BY <2>1 DEF PastLockCheck, PastNext, GuardedOps
<1>. QED  BY <1>1, <1>2, <1>3 DEF Standing

\* The commits that doom others leave everyone standing.
LEMMA CommitStanding ==
  ASSUME TypeOK, NEW c \in Clients, NEW k \in Clients,
         \/ txn' = CommitSerializable(c)
         \/ \E p, b : txn' = TouchLot(c, p, b)
         \/ txn' = [txn EXCEPT ![c] = Idle]
  PROVE  Standing(k)
<1>1. txn[k].op \in GuardedOps => txn[k] \in GuardedTxn
  BY InFlightType
<1>2. Idle.op = "idle"
  BY DEF Idle
<1>. QED  BY <1>1, <1>2 DEF CommitSerializable, TouchLot, Standing, TypeOK

ClientStep(c) == BeginStep(c) \/ CommitStep(c) \/ Abort(c)

\* Requests neither change a locked warehouse that nobody is past the lock
\* check of, nor pass its check.
KeepsPicture(w) ==
  /\ \A v \in Variants : physical'[<<v, w>>] = physical[<<v, w>>]
  /\ \A k \in Clients : ~PastNext(k, w)

LEMMA BeginKeepsPicture ==
  ASSUME TypeOK, ClosingRowsExist, NEW c \in Clients, BeginStep(c),
         NEW w \in Warehouses, Locked(w),
         \A k \in Clients : ~PastLockCheck(k, w)
  PROVE  KeepsPicture(w)
<1>1. ASSUME physical' = physical, rsv' = rsv, NEW t, ~PastNext(c, w),
             txn' = [txn EXCEPT ![c] = t]
      PROVE  KeepsPicture(w)
  <2>1. PairsKept
    BY <1>1 DEF PairsKept
  <2>2. ASSUME NEW k \in Clients PROVE ~PastNext(k, w)
    <3>1. CASE k # c
      BY <1>1, <2>1, <3>1, KeptStanding DEF Standing, TypeOK
    <3>. QED  BY <1>1, <3>1
  <2>. QED  BY <1>1, <2>2 DEF KeepsPicture
<1>2. ASSUME NEW p \in Stock, NEW q \in Quantities,
             NEW b \in BatchNos \cup {NoBatch},
             NEW e \in ExpiryDates \cup {Never}, BeginReceive(c, p, q, b, e)
      PROVE  KeepsPicture(w)
  <2>. DEFINE t == [op |-> "receive", dst |-> p, qty |-> q, batch |-> b,
                    expiry |-> e]
  <2>1. p[2] # w
    BY <1>2 DEF BeginReceive
  <2>2. /\ physical' = physical /\ rsv' = rsv
        /\ txn' = [txn EXCEPT ![c] = t]
    BY <1>2 DEF BeginReceive, ledgerVars, rsvVars
  <2>3. txn'[c] = t
    BY <2>2 DEF TypeOK
  <2>4. ~PastNext(c, w)
    BY <2>1, <2>3 DEF PastNext
  <2>. QED  BY <1>1, <2>2, <2>4
<1>3. ASSUME NEW t, BeginGuarded(c, t),
             \/ t.op = "reserve"
             \/ t.op \in {"dispatch", "transfer"} /\ t.src[2] # w /\ t.dst[2] # w
      PROVE  KeepsPicture(w)
  <2>1. /\ physical' = physical /\ rsv' = rsv
        /\ txn' = [txn EXCEPT ![c] = t]
    BY <1>3 DEF BeginGuarded, ledgerVars, rsvVars
  <2>2. txn'[c] = t
    BY <2>1 DEF TypeOK
  <2>3. ~PastNext(c, w)
    BY <1>3, <2>2 DEF PastNext
  <2>. QED  BY <1>1, <2>1, <2>3
<1>4. ASSUME NEW p \in Stock, NEW q \in Quantities, BeginDispatch(c, p, q)
      PROVE  KeepsPicture(w)
  <2>1. p[2] # w
    BY <1>4 DEF BeginDispatch
  <2>. QED  BY <1>3, <1>4, <2>1 DEF BeginDispatch, Planless
<1>5. ASSUME NEW p \in Stock, NEW q \in Quantities, BeginDispatchFefo(c, p, q)
      PROVE  KeepsPicture(w)
  <2>1. p[2] # w
    BY <1>5 DEF BeginDispatchFefo
  <2>. QED  BY <1>3, <1>5, <2>1 DEF BeginDispatchFefo, Planless
<1>6. ASSUME NEW p \in Stock, NEW q \in Quantities, NEW to \in Warehouses,
             BeginTransfer(c, p, <<p[1], to>>, q)
      PROVE  KeepsPicture(w)
  <2>1. p[2] # w /\ <<p[1], to>>[2] # w
    BY <1>6 DEF BeginTransfer
  <2>. QED  BY <1>3, <1>6, <2>1 DEF BeginTransfer, Planless
<1>7. ASSUME NEW p \in Stock, NEW q \in Quantities, BeginReserve(c, p, q)
      PROVE  KeepsPicture(w)
  BY <1>3, <1>7 DEF BeginReserve, Planless
<1>8. ASSUME NEW r \in Reservations, NEW op \in {"release", "fulfill"},
             BeginClosing(c, op, r)
      PROVE  KeepsPicture(w)
  <2>1. /\ physical' = physical /\ rsv' = rsv
        /\ txn' = [txn EXCEPT ![c] = [op |-> op, rsv |-> r]]
    BY <1>8 DEF BeginClosing, ledgerVars, rsvVars
  <2>2. txn'[c].op = op
    BY <2>1 DEF TypeOK
  <2>3. ~PastNext(c, w)
    BY <2>2 DEF PastNext
  <2>. QED  BY <1>1, <2>1, <2>3
<1>. QED  BY <1>2, <1>4, <1>5, <1>6, <1>7, <1>8 DEF BeginStep

LEMMA CommitKeepsPicture ==
  ASSUME TypeOK, ClosingRowsExist, NEW c \in Clients,
         CommitStep(c) \/ Abort(c),
         NEW w \in Warehouses, Locked(w),
         \A k \in Clients : ~PastLockCheck(k, w)
  PROVE  KeepsPicture(w)
<1>1. ASSUME PairsKept, \A k \in Clients : Standing(k),
             \A v \in Variants : physical'[<<v, w>>] = physical[<<v, w>>]
      PROVE  KeepsPicture(w)
  BY <1>1, KeptStanding DEF KeepsPicture
<1>2. ASSUME rsv' = rsv PROVE PairsKept
  BY <1>2 DEF PairsKept
<1>3. ASSUME NEW i \in Stock, i[2] # w, NEW n,
             physical' = [physical EXCEPT ![i] = n]
      PROVE  \A v \in Variants : physical'[<<v, w>>] = physical[<<v, w>>]
  <2>1. \A v \in Variants : <<v, w>> \in Stock /\ <<v, w>> # i
    BY <1>3 DEF Stock
  <2>. QED  BY <1>3, <2>1 DEF TypeOK
<1>4. ASSUME CommitReceive(c) PROVE KeepsPicture(w)
  <2>1. txn[c] \in ReceiptTxn
    BY <1>4, TxnByOp DEF CommitReceive, TypeOK, TxnRecord
  <2>2. txn[c].dst \in Stock /\ txn[c].dst[2] # w
    BY <1>4, <2>1, ReceiptFields DEF CommitReceive, PastLockCheck
  <2>3. \A k \in Clients : Standing(k)
    BY <1>4, CommitStanding DEF CommitReceive
  <2>. QED  BY <1>1, <1>2, <1>3, <1>4, <2>2, <2>3 DEF CommitReceive, Move, rsvVars
<1>5. ASSUME CommitDispatch(c) PROVE KeepsPicture(w)
  <2>1. txn[c] \in GuardedTxn
    BY <1>5, InFlightType DEF CommitDispatch, GuardedOps
  <2>2. txn[c].src \in Stock /\ txn[c].src[2] # w
    BY <1>5, <2>1, GuardedFields DEF CommitDispatch, PastLockCheck
  <2>3. \A k \in Clients : Standing(k)
    BY <1>5, CommitStanding DEF CommitDispatch
  <2>. QED  BY <1>1, <1>2, <1>3, <1>5, <2>2, <2>3 DEF CommitDispatch, Move, rsvVars
<1>6. ASSUME CommitTransfer(c) PROVE KeepsPicture(w)
  <2>1. txn[c] \in GuardedTxn
    BY <1>6, InFlightType DEF CommitTransfer, GuardedOps
  <2>2. /\ txn[c].src \in Stock /\ txn[c].src[2] # w
        /\ txn[c].dst \in Stock /\ txn[c].dst[2] # w
    BY <1>6, <2>1, GuardedFields DEF CommitTransfer, PastLockCheck
  <2>3. \A k \in Clients : Standing(k)
    BY <1>6, CommitStanding DEF CommitTransfer
  <2>4. \A v \in Variants : /\ <<v, w>> \in Stock
                            /\ <<v, w>> # txn[c].src /\ <<v, w>> # txn[c].dst
    BY <2>2 DEF Stock
  <2>5. \A v \in Variants : physical'[<<v, w>>] = physical[<<v, w>>]
    BY <1>6, <2>4 DEF CommitTransfer, TypeOK
  <2>. QED  BY <1>1, <1>2, <1>6, <2>3, <2>5 DEF CommitTransfer, rsvVars
<1>7. ASSUME CommitReserve(c) PROVE KeepsPicture(w)
  <2>1. PairsKept
    BY <1>7 DEF CommitReserve, PairsKept, TypeOK
  <2>2. \A k \in Clients : Standing(k)
    BY <1>7, CommitStanding DEF CommitReserve
  <2>. QED  BY <1>1, <1>7, <2>1, <2>2 DEF CommitReserve
<1>8. ASSUME CommitRelease(c) \/ CommitFulfill(c) PROVE KeepsPicture(w)
  <2>. DEFINE r == txn[c].rsv
  <2>1. /\ r \in Reservations /\ rsv[r] \in ReservationRow
        /\ rsv[r].of \in Stock
    BY <1>8, ClosingRow DEF CommitRelease, CommitFulfill, ClosingOps
  <2>2. PICK s \in {"FULFILLED", "RELEASED"} : rsv' = [rsv EXCEPT ![r].status = s]
    BY <1>8 DEF CommitRelease, CommitFulfill
  <2>. HIDE DEF r
  <2>3. [rsv[r] EXCEPT !.status = s].of = rsv[r].of
    BY <2>1 DEF ReservationRow
  <2>4. PairsKept
    BY <2>1, <2>2, <2>3 DEF PairsKept, TypeOK
  <2>5. \A k \in Clients : Standing(k)
    BY <1>8, CommitStanding DEF CommitRelease, CommitFulfill
  <2>6. CASE CommitRelease(c)
    BY <1>1, <2>4, <2>5, <2>6 DEF CommitRelease
  <2>7. CASE CommitFulfill(c)
    <3>1. rsv[r].of[2] # w
      BY <2>7 DEF CommitFulfill, PastLockCheck, r
    <3>2. physical' = [physical EXCEPT ![rsv[r].of] = @ + (-rsv[r].qty)]
      BY <2>7 DEF CommitFulfill, Move, r
    <3>. QED  BY <1>1, <1>3, <2>1, <2>4, <2>5, <3>1, <3>2
  <2>. QED  BY <1>8, <2>6, <2>7
<1>9. ASSUME FulfillCheckLock(c) PROVE KeepsPicture(w)
  <2>1. txn[c] \in ClosingTxn /\ rsv[txn[c].rsv].of[2] # w
    BY <1>9, ClosingRow DEF FulfillCheckLock, ClosingOps
  <2>2. /\ UNCHANGED <<physical, rsv>>
        /\ txn' = [txn EXCEPT ![c] = [txn[c] EXCEPT !.op = "fulfillUnlocked"]]
    BY <1>9 DEF FulfillCheckLock, ledgerVars, rsvVars
  <2>3. /\ txn'[c].op = "fulfillUnlocked" /\ txn'[c].rsv = txn[c].rsv
        /\ \A k \in Clients \ {c} : txn'[k] = txn[k]
    BY <2>1, <2>2 DEF ClosingTxn, TypeOK
  <2>4. ~PastNext(c, w)
    BY <2>1, <2>2, <2>3 DEF PastNext
  <2>5. \A k \in Clients \ {c} : ~PastNext(k, w)
    BY <1>2, <2>2, <2>3, KeptStanding DEF Standing
  <2>. QED  BY <2>2, <2>4, <2>5 DEF KeepsPicture
<1>10. ASSUME Abort(c) PROVE KeepsPicture(w)
  <2>1. \A k \in Clients : Standing(k)
    BY <1>10, CommitStanding DEF Abort
  <2>. QED  BY <1>1, <1>2, <1>10, <2>1 DEF Abort, ledgerVars, rsvVars
<1>. QED  BY <1>4, <1>5, <1>6, <1>7, <1>8, <1>9, <1>10 DEF CommitStep

-----------------------------------------------------------------------------
(* A step of the stock gateway preserves the invariant.                    *)

LEMMA TakesUntouched ==
  ASSUME NEW c \in Clients, ClientStep(c)
  PROVE  takes' = takes
<1>1. CASE BeginStep(c)
  BY <1>1, BeginsRead
<1>2. CASE CommitStep(c) \/ Abort(c)
  BY <1>2 DEF CommitStep, CommitReceive, CommitDispatch, CommitTransfer,
     CommitReserve, CommitRelease, FulfillCheckLock, CommitFulfill, Abort
<1>. QED  BY <1>1, <1>2 DEF ClientStep

LEMMA GatewayStep ==
  ASSUME SystemInv, StockStep
  PROVE  SystemInv'
<1>. USE DEF SystemInv, StockInv
<1>0. AuditTypeOK /\ Typed /\ TypeOK /\ ClosingRowsExist /\ Safe
      /\ FrozenUnlessDisturbed /\ NobodyPast /\ NothingPostedWhileOpen /\ JobTakesExist
  BY DEF TakeInv, Typed
<1>1. Next
  BY DEF StockStep, Next, Correction
<1>2. StockInv'
  BY <1>0, <1>1, TypedStep, SafeStep
<1>3. ASSUME takes' = takes, UNCHANGED <<expected, actual, difference, posted, job>>,
             undisturbed' \in [Takes -> BOOLEAN],
             \A u \in Takes : InProgress(u) /\ undisturbed'[u]
                => /\ undisturbed[u]
                   /\ KeepsPicture(takes[u].wh)
      PROVE  TakeInv'
  <2>1. AuditTypeOK'
    BY <1>0, <1>2, <1>3 DEF AuditTypeOK, Typed
  <2>2. JobTakesExist' /\ NothingPostedWhileOpen'
    BY <1>0, <1>3 DEF JobTakesExist, NothingPostedWhileOpen, InProgress
  <2>3. ASSUME NEW u \in Takes, takes'[u].status = "IN_PROGRESS", undisturbed'[u]
        PROVE  /\ \A v \in Variants :
                    physical'[<<v, takes'[u].wh>>] = expected'[u][v]
               /\ \A c \in Clients : ~PastNext(c, takes'[u].wh)
    <3>1. InProgress(u)
      BY <1>3, <2>3 DEF InProgress
    <3>. QED  BY <1>0, <1>3, <2>3, <3>1 DEF KeepsPicture, FrozenUnlessDisturbed
  <2>. QED  BY <2>1, <2>2, <2>3, UndisturbedNext DEF TakeInv
<1>4. ASSUME NEW c \in Clients, ClientStep(c), UNCHANGED auditVars
      PROVE  TakeInv'
  <2>1. takes' = takes
    BY <1>4, TakesUntouched
  <2>2. ASSUME NEW u \in Takes, InProgress(u), undisturbed'[u]
        PROVE  undisturbed[u] /\ KeepsPicture(takes[u].wh)
    <3>1. undisturbed[u]
      BY <1>4, <2>2 DEF auditVars
    <3>2. takes[u].wh \in Warehouses /\ Locked(takes[u].wh)
      BY <1>0, <2>2, OpenTakeRow DEF Locked, InProgress
    <3>3. \A k \in Clients : ~PastLockCheck(k, takes[u].wh)
      BY <1>0, <2>2, <3>1 DEF NobodyPast
    <3>. QED  BY <1>0, <1>4, <3>1, <3>2, <3>3, BeginKeepsPicture,
              CommitKeepsPicture DEF ClientStep
  <2>. QED  BY <1>0, <1>3, <1>4, <2>1, <2>2 DEF auditVars, AuditTypeOK
<1>5. ASSUME NEW p \in Stock, NEW n, physical' = [physical EXCEPT ![p] = n],
             undisturbed' = DisturbedAt(p[2]),
             UNCHANGED <<txn, rsv, takes, itemVars, posted, job>>
      PROVE  TakeInv'
  <2>1. /\ undisturbed' \in [Takes -> BOOLEAN]
        /\ \A u \in Takes : undisturbed'[u] => undisturbed[u] /\ takes[u].wh # p[2]
    BY <1>0, <1>5 DEF AuditTypeOK, DisturbedAt
  <2>2. ASSUME NEW u \in Takes, InProgress(u), undisturbed'[u]
        PROVE  undisturbed[u] /\ KeepsPicture(takes[u].wh)
    <3>1. undisturbed[u] /\ takes[u].wh # p[2]
      BY <2>1, <2>2
    <3>2. \A v \in Variants :
            <<v, takes[u].wh>> \in Stock /\ <<v, takes[u].wh>> # p
      BY <1>0, <2>2, <3>1, OpenTakeRow DEF Stock
    <3>3. \A k \in Clients : ~PastNext(k, takes[u].wh)
      BY <1>0, <1>5, <2>2, <3>1, SameStanding DEF NobodyPast
    <3>. QED  BY <1>0, <1>5, <3>1, <3>2, <3>3 DEF KeepsPicture, TypeOK
  <2>. QED  BY <1>3, <1>5, <2>1, <2>2 DEF itemVars
<1>6. ASSUME NEW p \in Stock,
             \/ \E d \in Deltas : Adjust(p, d)
             \/ \E q \in Quantities : ReceivePurchase(p, q),
             undisturbed' = DisturbedAt(p[2]), UNCHANGED <<itemVars, posted, job>>
      PROVE  TakeInv'
  BY <1>5, <1>6 DEF Adjust, ReceivePurchase, Move, rsvVars
<1>. QED  BY <1>2, <1>4, <1>6 DEF StockStep, ClientStep

LEMMA SystemStep == SystemInv /\ [SystemNext]_systemVars => SystemInv'
<1> SUFFICES ASSUME SystemInv, [SystemNext]_systemVars PROVE SystemInv'
  OBVIOUS
<1>1. ASSUME NEW a \in Auditors, AuditStep(a) PROVE SystemInv'
  BY <1>1, QuietSteps, QuietStep, CreateStep, CompleteStep, CancelStep
     DEF SystemInv
<1>2. CASE UNCHANGED systemVars
  <2>1. StockInv'
    BY <1>2, StockKept DEF systemVars, vars, SystemInv, StockInv, Typed, TypeOK
  <2>2. AuditTypeOK'
    BY <1>2, <2>1 DEF systemVars, vars, auditVars, SystemInv, StockInv, TakeInv,
       AuditTypeOK, Typed
  <2>3. (JobTakesExist /\ FrozenUnlessDisturbed /\ NobodyPast
         /\ NothingPostedWhileOpen)'
    BY <1>2 DEF systemVars, vars, auditVars, SystemInv, TakeInv, JobTakesExist,
       FrozenUnlessDisturbed, NobodyPast, NothingPostedWhileOpen, InProgress,
       PastLockCheck
  <2>. QED  BY <2>1, <2>2, <2>3 DEF SystemInv, TakeInv
<1>. QED  BY <1>1, <1>2, GatewayStep DEF SystemNext

LEMMA SystemStart == SystemInit => SystemInv
<1> SUFFICES ASSUME SystemInit PROVE SystemInv
  OBVIOUS
<1>1. Typed /\ TypeOK /\ Safe
  BY TypedInit, SafeInit DEF SystemInit, Typed
<1>2. AuditTypeOK
  BY <1>1 DEF SystemInit, AuditTypeOK, CountLists, Diffs
<1>3. JobTakesExist
  BY DEF SystemInit, JobTakesExist, Resting, TakeOps
<1>4. FrozenUnlessDisturbed /\ NobodyPast /\ NothingPostedWhileOpen
  BY DEF SystemInit, Init, NoTake, FrozenUnlessDisturbed, NobodyPast,
     NothingPostedWhileOpen, InProgress
<1>. QED  BY <1>1, <1>2, <1>3, <1>4 DEF SystemInv, StockInv, TakeInv

LEMMA AllSystemInv == SystemSpec => []SystemInv
  BY SystemStart, SystemStep, PTL DEF SystemSpec

-----------------------------------------------------------------------------
\* Every reachable state of the whole system is well typed.
THEOREM SystemTypeCorrect == SystemSpec => []AuditTypeOK
<1>1. SystemInv => AuditTypeOK
  BY DEF SystemInv, TakeInv
<1>. QED  BY <1>1, AllSystemInv, PTL

\* Posting the differences of a take, from however stale a count, oversells a
\* pair by no more than what left it without an availability check.
THEOREM NoOversellingWithTakes == SystemSpec => []OversellBounded
<1>1. SystemInv => OversellBounded
  BY DEF SystemInv, StockInv, Safe
<1>. QED  BY <1>1, AllSystemInv, PTL

\* The stock-take lock: as long as no request was past it when the take was
\* opened and nothing that ignores it touched the warehouse, the picture the
\* take was opened on is still the stock of its warehouse.
THEOREM FrozenCounts == SystemSpec => []FrozenUnlessDisturbed
<1>1. SystemInv => FrozenUnlessDisturbed
  BY DEF SystemInv, TakeInv
<1>. QED  BY <1>1, AllSystemInv, PTL

\* Completion is atomic: an open take has nothing in the ledger.
THEOREM NothingPostedEarly == SystemSpec => []NothingPostedWhileOpen
<1>1. SystemInv => NothingPostedWhileOpen
  BY DEF SystemInv, TakeInv
<1>. QED  BY <1>1, AllSystemInv, PTL

\* No write by id, however late, reopens a take: completed and canceled are
\* final as far as the lock is concerned.
THEOREM ClosedForGood == SystemSpec => ClosedTakeStaysClosed
<1>1. SystemInv /\ [SystemNext]_systemVars =>
        [\A t \in Takes : (takes[t] # NoTake /\ ~InProgress(t))
                          => takes'[t].status # "IN_PROGRESS"]_systemVars
  <2> SUFFICES ASSUME SystemInv, SystemNext, NEW t \in Takes,
                      takes[t] # NoTake, ~InProgress(t)
               PROVE  takes'[t].status # "IN_PROGRESS"
    OBVIOUS
  <2>0. TakeInv /\ AuditTypeOK /\ TypeOK /\ JobTakesExist
    BY DEF SystemInv, TakeInv, StockInv, Typed
  <2>1. ASSUME takes'[t] = takes[t] PROVE takes'[t].status # "IN_PROGRESS"
    BY <2>1 DEF InProgress
  <2>2. CASE StockStep
    <3>1. takes' = takes
      BY <2>2, TakesUntouched DEF StockStep, ClientStep, Adjust, ReceivePurchase
    <3>. QED  BY <2>1, <3>1
  <2>3. ASSUME NEW a \in Auditors, Quiet(a) PROVE takes'[t] = takes[t]
    BY <2>3 DEF Quiet, vars
  <2>4. ASSUME NEW a \in Auditors, CreateCommit(a) PROVE takes'[t] = takes[t]
    BY <2>0, <2>4 DEF CreateCommit, TypeOK
  <2>5. ASSUME NEW a \in Auditors, CompleteCommit(a) \/ CancelCommit(a)
        PROVE  takes'[t].status # "IN_PROGRESS"
    <3>1. /\ job[a].take \in Takes /\ takes[job[a].take] \in TakeRow
          /\ takes \in [Takes -> TakeRow \cup {NoTake}]
      BY <2>0, <2>5, TakeRowOfJob DEF CompleteCommit, CancelCommit, TakeOps, TypeOK
    <3>2. PICK s \in {"COMPLETED", "CANCELED"} : takes' = SetStatus(job[a].take, s)
      BY <2>5 DEF CompleteCommit, CancelCommit
    <3>3. /\ takes'[job[a].take].status = s
          /\ \A u \in Takes \ {job[a].take} : takes'[u] = takes[u]
      BY <3>1, <3>2, StatusOfTake
    <3>. QED  BY <2>1, <3>3
  <2>. QED  BY <2>0, <2>1, <2>2, <2>3, <2>4, <2>5, QuietSteps DEF SystemNext
<1>. QED  BY <1>1, AllSystemInv, PTL DEF SystemSpec, ClosedTakeStaysClosed
-----------------------------------------------------------------------------
(***************************************************************************)
(* What holds of stock takes when their handlers do not overlap, beside    *)
(* any number of requests of the gateway, on any number of takes.          *)
(*                                                                         *)
(* What a handler has read is still so when it writes (Current), because   *)
(* the gateway writes neither takes nor their items.  So a handler closes  *)
(* or counts an open take, into which nothing has been posted yet, and     *)
(* posts the differences there are; those are actual minus expected        *)
(* (ItemsAgree).                                                           *)
(***************************************************************************)

OneAtATime == \A a, b \in Auditors : a = b

-----------------------------------------------------------------------------
(* The inductive invariant, beside SystemInv.                              *)

StillSo(j) ==
    /\ j.op \in TakeOps => InProgress(j.take)
    /\ j.op \in {"complete", "cancel"} => j.diffs = difference[j.take]
    /\ j.op = "count" => j.diffs = CountDiffs(j.take, j.counts)
    /\ j.op \in {"create", "open"} => ~Locked(j.wh)

Current == \A a \in Auditors : StillSo(job[a])

ItemsAgree == \A t \in Takes, v \in Variants :
    /\ actual[t][v] = NotCounted => difference[t][v] = NotCounted
    /\ actual[t][v] # NotCounted =>
          /\ takes[t] # NoTake
          /\ difference[t][v] = actual[t][v] - expected[t][v]

Undivided == /\ Current
             /\ ItemsAgree
             /\ PostedIsDifference
             /\ CanceledPostsNothing
             /\ OneOpenTakePerWarehouse

LEMMA UndividedStart == SystemInit => Undivided
<1> SUFFICES ASSUME SystemInit PROVE Undivided
  OBVIOUS
<1>1. \A t \in Takes : takes[t].status = "NONE"
  BY DEF SystemInit, Init, NoTake
<1>2. Current
  BY DEF SystemInit, Current, StillSo, Resting, TakeOps
<1>3. ItemsAgree
  BY DEF SystemInit, ItemsAgree
<1>4. PostedIsDifference /\ CanceledPostsNothing /\ OneOpenTakePerWarehouse
  BY <1>1 DEF PostedIsDifference, CanceledPostsNothing, OneOpenTakePerWarehouse,
              InProgress
<1>. QED  BY <1>2, <1>3, <1>4 DEF Undivided

\* What is counted is a number.
LEMMA CountIsNat ==
  ASSUME NEW counts \in CountLists, NEW v \in Variants, counts[v] # NotCounted
  PROVE  counts[v] \in Nat
<1>1. counts[v] \in Counts \cup {NotCounted}
  BY DEF CountLists
<1>2. counts[v] \in Counts
  BY <1>1
<1>. QED  BY <1>2, CountsAreNat

LEMMA RowType ==
  ASSUME AuditTypeOK, NEW t \in Takes
  PROVE  actual[t] \in CountLists /\ expected[t] \in [Variants -> Int]
BY DEF AuditTypeOK

LEMMA DifferenceIsNumber ==
  ASSUME NEW m \in Nat, NEW n \in Int
  PROVE  m - n \in Int /\ m - n # NotCounted
<1>1. m - n \in Int
  OBVIOUS
<1>. QED  BY <1>1, NotCountedIsNull

-----------------------------------------------------------------------------
(* Steps that write neither takes nor items.                               *)

LEMMA RowsKept ==
  ASSUME Undivided, UNCHANGED <<takes, itemVars, posted>>, Current'
  PROVE  Undivided'
BY DEF Undivided, itemVars, ItemsAgree, PostedIsDifference, CanceledPostsNothing,
       OneOpenTakePerWarehouse, InProgress, Correcting

LEMMA StillSoKept ==
  ASSUME UNCHANGED <<takes, itemVars>>, NEW j, StillSo(j)
  PROVE  StillSo(j)'
BY DEF StillSo, itemVars, InProgress, CountDiffs, Locked

LEMMA StockKeepsTakes ==
  ASSUME Undivided, StockStep
  PROVE  Undivided' /\ takes' = takes
<1>1. UNCHANGED <<takes, itemVars, posted, job>>
  BY TakesUntouched DEF StockStep, ClientStep, Adjust, ReceivePurchase, auditVars,
                        itemVars
<1>2. Current'
  BY <1>1, StillSoKept DEF Undivided, Current
<1>. QED  BY <1>1, <1>2, RowsKept

\* The one handler's job after its step.
LEMMA CurrentNext ==
  ASSUME OneAtATime, AuditTypeOK, NEW a \in Auditors, NEW j,
         job' = [job EXCEPT ![a] = j], StillSo(j)'
  PROVE  Current'
<1>1. \A b \in Auditors : b = a
  BY DEF OneAtATime
<1>2. job'[a] = j
  BY DEF AuditTypeOK
<1>. QED  BY <1>1, <1>2 DEF Current

LEMMA RestingIsSo == StillSo(Resting) /\ StillSo(Resting)'
  BY DEF StillSo, Resting, TakeOps

LEMMA JobOnlyStep ==
  ASSUME OneAtATime, AuditTypeOK, Undivided, NEW a \in Auditors, NEW j,
         job' = [job EXCEPT ![a] = j], StillSo(j),
         UNCHANGED <<vars, itemVars, posted>>
  PROVE  Undivided' /\ takes' = takes
<1>1. takes' = takes
  BY DEF vars
<1>2. StillSo(j)'
  BY <1>1, StillSoKept
<1>. QED  BY <1>1, <1>2, CurrentNext, RowsKept

\* The reads of all handlers, and their failures.
LEMMA ReadsAreCurrent ==
  ASSUME OneAtATime, AuditTypeOK, Undivided, NEW a \in Auditors,
         \/ \E w \in Warehouses : CreateCheck(a, w)
         \/ CreateSnapshot(a)
         \/ \E t \in Takes :
               \/ \E counts \in CountLists : CountCheck(a, t, counts)
               \/ \E op \in {"complete", "cancel"} : BeginClose(a, op, t)
         \/ Forget(a)
  PROVE  Undivided' /\ takes' = takes
<1>1. ASSUME NEW w \in Warehouses, CreateCheck(a, w)
      PROVE  Undivided' /\ takes' = takes
  <2>1. StillSo([op |-> "create", wh |-> w])
    BY <1>1 DEF CreateCheck, StillSo, TakeOps
  <2>. QED  BY <1>1, <2>1, JobOnlyStep DEF CreateCheck
<1>2. CASE CreateSnapshot(a)
  <2>. DEFINE j == [op |-> "open", wh |-> job[a].wh,
                    sums |-> [v \in Variants |-> physical[<<v, job[a].wh>>]]]
  <2>1. ~Locked(job[a].wh)
    BY <1>2 DEF CreateSnapshot, Undivided, Current, StillSo
  <2>2. StillSo(j)
    BY <2>1 DEF StillSo, TakeOps
  <2>3. job' = [job EXCEPT ![a] = j] /\ UNCHANGED <<vars, itemVars, posted>>
    BY <1>2 DEF CreateSnapshot
  <2>. HIDE DEF j
  <2>. QED  BY <2>2, <2>3, JobOnlyStep
<1>3. ASSUME NEW t \in Takes, NEW counts \in CountLists, CountCheck(a, t, counts)
      PROVE  Undivided' /\ takes' = takes
  <2>. DEFINE j == [op |-> "count", take |-> t, counts |-> counts,
                    diffs |-> CountDiffs(t, counts)]
  <2>1. StillSo(j)
    BY <1>3 DEF CountCheck, StillSo, TakeOps
  <2>2. job' = [job EXCEPT ![a] = j] /\ UNCHANGED <<vars, itemVars, posted>>
    BY <1>3 DEF CountCheck
  <2>. HIDE DEF j
  <2>. QED  BY <2>1, <2>2, JobOnlyStep
<1>4. ASSUME NEW t \in Takes, NEW op \in {"complete", "cancel"},
             BeginClose(a, op, t)
      PROVE  Undivided' /\ takes' = takes
  <2>. DEFINE j == [op |-> op, take |-> t, diffs |-> difference[t]]
  <2>1. StillSo(j)
    BY <1>4 DEF BeginClose, StillSo, TakeOps
  <2>2. job' = [job EXCEPT ![a] = j] /\ UNCHANGED <<vars, itemVars, posted>>
    BY <1>4 DEF BeginClose
  <2>. HIDE DEF j
  <2>. QED  BY <2>1, <2>2, JobOnlyStep
<1>5. CASE Forget(a)
  BY <1>5, RestingIsSo, JobOnlyStep DEF Forget
<1>. QED  BY <1>1, <1>2, <1>3, <1>4, <1>5

-----------------------------------------------------------------------------
(* The commits.                                                            *)

\* create: the warehouse still has no open take.
LEMMA CreateOpensOne ==
  ASSUME OneAtATime, SystemInv, Undivided, NEW a \in Auditors, CreateCommit(a)
  PROVE  /\ Undivided'
         /\ \A t \in Takes : takes'[t].status = "COMPLETED" =>
                             takes[t].status = "COMPLETED"
<1>0. AuditTypeOK /\ TypeOK
  BY DEF SystemInv, TakeInv, StockInv, Typed
<1>. DEFINE w == job[a].wh
<1>1. ~Locked(w)
  BY DEF CreateCommit, Undivided, Current, StillSo
<1>. PICK t \in Takes :
        /\ takes[t] = NoTake
        /\ takes' = [takes EXCEPT ![t] = [status |-> "IN_PROGRESS", wh |-> w]]
        /\ expected' = [expected EXCEPT ![t] = job[a].sums]
  BY DEF CreateCommit
<1>. HIDE DEF w
<1>2. /\ takes'[t] = [status |-> "IN_PROGRESS", wh |-> w]
      /\ \A u \in Takes \ {t} : takes'[u] = takes[u] /\ expected'[u] = expected[u]
  BY <1>0 DEF AuditTypeOK, TypeOK
<1>3. /\ UNCHANGED <<actual, difference, posted>>
      /\ job' = [job EXCEPT ![a] = Resting]
  BY DEF CreateCommit
<1>4. Current'
  BY <1>0, <1>3, RestingIsSo, CurrentNext
<1>5. ItemsAgree'
  <2>. SUFFICES ASSUME NEW u \in Takes, NEW v \in Variants
                PROVE  /\ actual[u][v] = NotCounted => difference[u][v] = NotCounted
                       /\ actual[u][v] # NotCounted =>
                            /\ takes'[u] # NoTake
                            /\ difference[u][v] = actual[u][v] - expected'[u][v]
    BY <1>3 DEF ItemsAgree
  <2>1. actual[t][v] = NotCounted
    BY DEF Undivided, ItemsAgree
  <2>. QED  BY <1>2, <2>1 DEF Undivided, ItemsAgree
<1>6. PostedIsDifference' /\ CanceledPostsNothing'
  BY <1>2, <1>3 DEF Undivided, PostedIsDifference, CanceledPostsNothing, Correcting
<1>7. OneOpenTakePerWarehouse'
  <2>1. \A u \in Takes \ {t} : InProgress(u) => takes[u].wh # w
    BY <1>1 DEF Locked, InProgress
  <2>. QED  BY <1>2, <2>1 DEF Undivided, OneOpenTakePerWarehouse, InProgress
<1>. QED  BY <1>2, <1>4, <1>5, <1>6, <1>7 DEF Undivided

\* recordCounts: into an open take, so into no posted differences; count and
\* difference of an item are written together.
LEMMA CountAgrees ==
  ASSUME OneAtATime, SystemInv, Undivided, NEW a \in Auditors, CountCommit(a)
  PROVE  Undivided' /\ takes' = takes
<1>. DEFINE t == job[a].take
            counts == job[a].counts
            diffs == job[a].diffs
<1>0. AuditTypeOK /\ JobTakesExist
  BY DEF SystemInv, TakeInv
<1>1. /\ job[a].op = "count"
      /\ actual' = [actual EXCEPT ![t] = Upsert(actual[t], counts)]
      /\ difference' = [difference EXCEPT ![t] = Upsert(difference[t], diffs)]
      /\ job' = [job EXCEPT ![a] = Resting]
      /\ UNCHANGED <<takes, expected, posted>>
  BY DEF CountCommit, vars
<1>2. t \in Takes /\ counts \in CountLists
  BY <1>0, <1>1, JobByOp DEF AuditTypeOK, JobRecord, CountJob
<1>3. InProgress(t) /\ diffs = CountDiffs(t, counts)
  BY <1>1 DEF Undivided, Current, StillSo, TakeOps
<1>4. /\ actual'[t] = Upsert(actual[t], counts)
      /\ difference'[t] = Upsert(difference[t], diffs)
      /\ \A u \in Takes \ {t} : /\ actual'[u] = actual[u]
                                /\ difference'[u] = difference[u]
  BY <1>0, <1>1, <1>2 DEF AuditTypeOK
<1>. HIDE DEF t, counts, diffs
<1>5. Current'
  BY <1>0, <1>1, RestingIsSo, CurrentNext
<1>6. ItemsAgree'
  <2>. SUFFICES ASSUME NEW u \in Takes, NEW v \in Variants
                PROVE  /\ actual'[u][v] = NotCounted => difference'[u][v] = NotCounted
                       /\ actual'[u][v] # NotCounted =>
                            /\ takes[u] # NoTake
                            /\ difference'[u][v] = actual'[u][v] - expected[u][v]
    BY <1>1 DEF ItemsAgree
  <2>1. CASE u # t
    BY <1>4, <2>1 DEF Undivided, ItemsAgree
  <2>2. CASE u = t /\ counts[v] = NotCounted
    <3>1. diffs[v] = NotCounted
      BY <1>3, <2>2 DEF CountDiffs
    <3>2. actual'[u][v] = actual[u][v] /\ difference'[u][v] = difference[u][v]
      BY <1>4, <2>2, <3>1 DEF Upsert
    <3>. QED  BY <3>2 DEF Undivided, ItemsAgree
  <2>3. CASE u = t /\ counts[v] # NotCounted
    <3>1. diffs[v] = counts[v] - expected[t][v]
      BY <1>3, <2>3 DEF CountDiffs
    <3>2. diffs[v] # NotCounted
      <4>1. counts[v] \in Nat
        BY <1>2, <2>3, CountIsNat
      <4>2. expected[t] \in [Variants -> Int]
        BY <1>0, <1>2, RowType
      <4>3. expected[t][v] \in Int
        BY <4>2
      <4>. QED  BY <3>1, <4>1, <4>3, DifferenceIsNumber
    <3>3. actual'[u][v] = counts[v] /\ difference'[u][v] = diffs[v]
      BY <1>4, <2>3, <3>2, Zenon DEF Upsert
    <3>4. takes[u] # NoTake
      BY <1>3, <2>3 DEF InProgress, NoTake
    <3>. QED  BY <2>3, <3>1, <3>3, <3>4
  <2>. QED  BY <2>1, <2>2, <2>3
<1>7. PostedIsDifference'
  <2>1. \A u \in Takes : takes[u].status = "COMPLETED" => u # t
    BY <1>3 DEF InProgress
  <2>. QED  BY <1>1, <1>4, <2>1 DEF Undivided, PostedIsDifference, Correcting
<1>8. CanceledPostsNothing' /\ OneOpenTakePerWarehouse'
  BY <1>1 DEF Undivided, CanceledPostsNothing, OneOpenTakePerWarehouse, InProgress
<1>. QED  BY <1>1, <1>5, <1>6, <1>7, <1>8 DEF Undivided

\* complete and cancel: an open take, into which nothing was posted, closes.
LEMMA CloseOnce ==
  ASSUME OneAtATime, SystemInv, Undivided, NEW a \in Auditors,
         NEW s \in {"COMPLETED", "CANCELED"}, NEW t \in Takes,
         job[a].op \in {"complete", "cancel"}, job[a].take = t,
         takes' = SetStatus(t, s),
         \A u \in Takes \ {t} : posted'[u] = posted[u],
         \A v \in Variants : posted'[t][v] = IF s = "COMPLETED"
                               THEN Correcting(job[a].diffs, v) ELSE 0,
         job' = [job EXCEPT ![a] = Resting],
         UNCHANGED itemVars
  PROVE  Undivided'
<1>0. AuditTypeOK /\ TypeOK /\ JobTakesExist
  BY DEF SystemInv, TakeInv, StockInv, Typed
<1>1. takes[t] \in TakeRow /\ job[a].diffs = difference[t] /\ InProgress(t)
  BY <1>0, TakeRowOfJob DEF TakeOps, Undivided, Current, StillSo
<1>2. /\ takes'[t] # NoTake /\ takes'[t].status = s
      /\ \A u \in Takes \ {t} : takes'[u] = takes[u]
  BY <1>0, <1>1, StatusOfTake DEF TypeOK
<1>3. Current'
  BY <1>0, RestingIsSo, CurrentNext
<1>4. UNCHANGED <<expected, actual, difference>>
  BY DEF itemVars
<1>5. ItemsAgree'
  BY <1>1, <1>2, <1>4 DEF Undivided, ItemsAgree
<1>6. PostedIsDifference'
  <2>. SUFFICES ASSUME NEW u \in Takes, takes'[u].status = "COMPLETED",
                       NEW v \in Variants
                PROVE  posted'[u][v] = Correcting(difference[u], v)
    BY <1>4 DEF PostedIsDifference, Correcting
  <2>. QED  BY <1>1, <1>2 DEF Undivided, PostedIsDifference
<1>7. CanceledPostsNothing'
  BY <1>2 DEF Undivided, CanceledPostsNothing
<1>8. OneOpenTakePerWarehouse'
  BY <1>2 DEF Undivided, OneOpenTakePerWarehouse, InProgress
<1>. QED  BY <1>3, <1>5, <1>6, <1>7, <1>8 DEF Undivided

LEMMA CompletePosts ==
  ASSUME OneAtATime, SystemInv, Undivided, NEW a \in Auditors, CompleteCommit(a)
  PROVE  /\ Undivided'
         /\ \A t \in Takes :
               (InProgress(t) /\ undisturbed[t] /\ takes'[t].status = "COMPLETED") =>
               \A v \in Variants : actual[t][v] # NotCounted =>
                   physical'[<<v, takes[t].wh>>] = actual[t][v]
<1>0. AuditTypeOK /\ TypeOK /\ JobTakesExist /\ NothingPostedWhileOpen
      /\ FrozenUnlessDisturbed
  BY DEF SystemInv, TakeInv, StockInv, Typed
<1>1. job[a].op \in {"complete", "cancel"}
  BY DEF CompleteCommit
<1>2. /\ job[a].take \in Takes /\ takes[job[a].take] \in TakeRow
      /\ job[a].diffs \in Diffs
  BY <1>0, <1>1, TakeRowOfJob DEF TakeOps
<1>. PICK t \in Takes : t = job[a].take
  BY <1>2
<1>. DEFINE diffs == job[a].diffs
            w == takes[t].wh
            d(p) == IF p[2] = w THEN Correcting(diffs, p[1]) ELSE 0
<1>3. InProgress(t) /\ diffs = difference[t]
  BY <1>1 DEF Undivided, Current, StillSo, TakeOps
<1>4. /\ takes' = SetStatus(t, "COMPLETED")
      /\ posted' = [posted EXCEPT ![t] =
            [v \in Variants |-> posted[t][v] + Correcting(diffs, v)]]
      /\ physical' = [p \in Stock |-> physical[p] + d(p)]
      /\ job' = [job EXCEPT ![a] = Resting]
      /\ UNCHANGED itemVars
  BY DEF CompleteCommit
<1>5. \A v \in Variants : Correcting(diffs, v) \in Int
  BY <1>2, CorrectingType
<1>6. /\ \A u \in Takes \ {t} : posted'[u] = posted[u]
      /\ \A v \in Variants : posted'[t][v] = posted[t][v] + Correcting(diffs, v)
  BY <1>0, <1>4 DEF AuditTypeOK
<1>7. \A v \in Variants : posted[t][v] = 0
  BY <1>0, <1>3 DEF NothingPostedWhileOpen
<1>8. \A v \in Variants : posted'[t][v] = Correcting(diffs, v)
  BY <1>5, <1>6, <1>7
<1>9. Undivided'
  <2>1. \A v \in Variants : posted'[t][v] =
          IF "COMPLETED" = "COMPLETED" THEN Correcting(job[a].diffs, v) ELSE 0
    BY <1>8
  <2>2. "COMPLETED" \in {"COMPLETED", "CANCELED"}
    OBVIOUS
  <2>3. \A u \in Takes \ {t} : posted'[u] = posted[u]
    BY <1>6
  <2>. QED  BY <1>1, <1>4, <2>1, <2>2, <2>3, CloseOnce, Zenon
<1>10. \A u \in Takes \ {t} : takes'[u] = takes[u]
  BY <1>0, <1>2, <1>4, StatusOfTake DEF TypeOK
<1>11. ASSUME undisturbed[t], NEW v \in Variants, actual[t][v] # NotCounted
       PROVE  physical'[<<v, takes[t].wh>>] = actual[t][v]
  <2>1. <<v, w>> \in Stock
    BY <1>0, <1>3, OpenTakeRow DEF Stock
  <2>2. physical'[<<v, w>>] = physical[<<v, w>>] + Correcting(diffs, v)
    BY <1>4, <2>1
  <2>3. physical[<<v, w>>] = expected[t][v]
    BY <1>0, <1>3, <1>11 DEF FrozenUnlessDisturbed
  <2>4. diffs[v] = actual[t][v] - expected[t][v]
    BY <1>3, <1>11 DEF Undivided, ItemsAgree
  <2>5. actual[t][v] \in Nat /\ expected[t][v] \in Int
    <3>1. actual[t] \in CountLists /\ expected[t] \in [Variants -> Int]
      BY <1>0, RowType
    <3>2. actual[t][v] \in Nat
      BY <1>11, <3>1, CountIsNat
    <3>3. expected[t][v] \in Int
      BY <3>1
    <3>. QED  BY <3>2, <3>3
  <2>6. diffs[v] # NotCounted
    BY <2>4, <2>5, DifferenceIsNumber
  <2>7. Correcting(diffs, v) = actual[t][v] - expected[t][v]
    BY <2>4, <2>6, Zenon DEF Correcting
  <2>. HIDE DEF w
  <2>8. physical'[<<v, w>>] = actual[t][v]
    BY <2>2, <2>3, <2>5, <2>7
  <2>. QED  BY <2>8 DEF w
<1>. QED  BY <1>9, <1>10, <1>11 DEF InProgress

LEMMA CancelPostsNothing ==
  ASSUME OneAtATime, SystemInv, Undivided, NEW a \in Auditors, CancelCommit(a)
  PROVE  /\ Undivided'
         /\ \A t \in Takes : takes'[t].status = "COMPLETED" =>
                             takes[t].status = "COMPLETED"
<1>0. AuditTypeOK /\ TypeOK /\ JobTakesExist /\ NothingPostedWhileOpen
  BY DEF SystemInv, TakeInv, StockInv, Typed
<1>1. job[a].op \in {"complete", "cancel"}
  BY DEF CancelCommit
<1>2. job[a].take \in Takes /\ takes[job[a].take] \in TakeRow
  BY <1>0, <1>1, TakeRowOfJob DEF TakeOps
<1>. PICK t \in Takes : t = job[a].take
  BY <1>2
<1>3. InProgress(t)
  BY <1>1 DEF Undivided, Current, StillSo, TakeOps
<1>4. /\ takes' = SetStatus(t, "CANCELED") /\ posted' = posted
      /\ job' = [job EXCEPT ![a] = Resting]
      /\ UNCHANGED itemVars
  BY DEF CancelCommit
<1>5. \A v \in Variants : posted[t][v] = 0
  BY <1>0, <1>3 DEF NothingPostedWhileOpen
<1>6. Undivided'
  BY <1>1, <1>4, <1>5, CloseOnce
<1>7. /\ takes'[t].status = "CANCELED"
      /\ \A u \in Takes \ {t} : takes'[u] = takes[u]
  BY <1>0, <1>2, <1>4, StatusOfTake DEF TypeOK
<1>. QED  BY <1>6, <1>7

-----------------------------------------------------------------------------
Completing == \A t \in Takes :
    (InProgress(t) /\ undisturbed[t] /\ takes'[t].status = "COMPLETED") =>
    \A v \in Variants : actual[t][v] # NotCounted =>
        physical'[<<v, takes[t].wh>>] = actual[t][v]

LEMMA UndividedStep ==
  ASSUME OneAtATime
  PROVE  SystemInv /\ Undivided /\ [SystemNext]_systemVars =>
         Undivided' /\ [Completing]_systemVars
<1>. SUFFICES ASSUME SystemInv, Undivided, [SystemNext]_systemVars
              PROVE  Undivided' /\ [Completing]_systemVars
  OBVIOUS
<1>0. AuditTypeOK
  BY DEF SystemInv, TakeInv
<1>1. ASSUME takes' = takes \/ \A t \in Takes : takes'[t].status = "COMPLETED" =>
                                                takes[t].status = "COMPLETED"
      PROVE  Completing
  BY <1>1 DEF Completing, InProgress
<1>2. CASE StockStep
  BY <1>1, <1>2, StockKeepsTakes
<1>3. ASSUME NEW a \in Auditors, AuditStep(a) PROVE Undivided' /\ Completing
  <2>1. CASE CreateCommit(a)
    BY <1>1, <2>1, CreateOpensOne
  <2>2. CASE CountCommit(a)
    BY <1>1, <2>2, CountAgrees
  <2>3. CASE CompleteCommit(a)
    BY <2>3, CompletePosts DEF Completing
  <2>4. CASE CancelCommit(a)
    BY <1>1, <2>4, CancelPostsNothing
  <2>. QED  BY <1>0, <1>1, <1>3, <2>1, <2>2, <2>3, <2>4, ReadsAreCurrent DEF AuditStep
<1>4. CASE UNCHANGED systemVars
  <2>1. UNCHANGED <<takes, itemVars, posted, job>>
    BY <1>4 DEF systemVars, vars, auditVars, itemVars
  <2>2. Current'
    BY <2>1, StillSoKept DEF Undivided, Current
  <2>. QED  BY <1>4, <2>1, <2>2, RowsKept
<1>. QED  BY <1>2, <1>3, <1>4 DEF SystemNext

LEMMA AllUndivided ==
  ASSUME OneAtATime
  PROVE  SystemSpec => [](SystemInv /\ Undivided)
<1>1. SystemInv /\ Undivided /\ [SystemNext]_systemVars => (SystemInv /\ Undivided)'
  BY SystemStep, UndividedStep
<1>. QED  BY SystemStart, UndividedStart, <1>1, PTL DEF SystemSpec

\* With one stock-take handler at a time a warehouse has one open take at most.
THEOREM OneOpenTake ==
  ASSUME OneAtATime PROVE SystemSpec => []OneOpenTakePerWarehouse
<1>1. SystemInv /\ Undivided => OneOpenTakePerWarehouse
  BY DEF Undivided
<1>. QED  BY <1>1, AllUndivided, PTL

\* With one stock-take handler at a time the adjustments of a completed take are
\* the differences on record, of every item and once.
THEOREM DifferencesPosted ==
  ASSUME OneAtATime PROVE SystemSpec => []PostedIsDifference
<1>1. SystemInv /\ Undivided => PostedIsDifference
  BY DEF Undivided
<1>. QED  BY <1>1, AllUndivided, PTL

\* With one stock-take handler at a time a canceled take has posted nothing.
THEOREM NothingPostedByCanceled ==
  ASSUME OneAtATime PROVE SystemSpec => []CanceledPostsNothing
<1>1. SystemInv /\ Undivided => CanceledPostsNothing
  BY DEF Undivided
<1>. QED  BY <1>1, AllUndivided, PTL

\* With one stock-take handler at a time completing a take whose picture stayed
\* frozen leaves what was counted, beside any number of stock requests.
THEOREM CountsStay ==
  ASSUME OneAtATime PROVE SystemSpec => CountsBecomeStock
<1>1. SystemInv /\ Undivided /\ [SystemNext]_systemVars =>
        [\A t \in Takes :
          (InProgress(t) /\ undisturbed[t] /\ takes'[t].status = "COMPLETED") =>
          \A v \in Variants : actual[t][v] # NotCounted =>
              physical'[<<v, takes[t].wh>>] = actual[t][v]]_systemVars
  BY UndividedStep DEF Completing
<1>. QED  BY <1>1, AllUndivided, PTL DEF SystemSpec, CountsBecomeStock
=============================================================================
