------------------------ MODULE PurchaseOrderProofs ------------------------
(***************************************************************************)
(* What holds of purchase orders however many handlers overlap, on however *)
(* many orders and lines.                                                  *)
(*                                                                         *)
(* The inductive invariant adds to the type invariant what a handler in    *)
(* flight knows: a receipt has seen at most what was posted for each line, *)
(* because stock posted for a line is never taken back; and an update only *)
(* deletes rows that were lines when it looked, never rows still to be     *)
(* created, so the lines it adds itself survive it.                        *)
(***************************************************************************)
EXTENDS PurchaseOrders, DataLemmas, TLAPS

\* A receipt in flight has read no more of any line than stock got by then.
SeenWasPosted ==
    \A a \in Clerks : job[a].op = "receive" =>
        \A i \in Items : job[a].seen[i] <= posted[i]

\* A deleted row was created; one that an update is about to delete belongs to
\* the order of that update.
OnlyLinesDeleted ==
    /\ \A i \in deleted : owner[i] # NoOrder
    /\ \A a \in Clerks : job[a].op = "replace" =>
           \A i \in job[a].old : owner[i] = job[a].po /\ owner[i] # NoOrder

\* A handler in flight names an order that exists.
OrdersExist == \A a \in Clerks : job[a] # Resting => status[job[a].po] # "NONE"

POInv == /\ POTypeOK
         /\ OrdersExist
         /\ NeverOverstated
         /\ SeenWasPosted
         /\ OnlyLinesDeleted
         /\ NeverWithoutLines

-----------------------------------------------------------------------------
(* What the kinds of jobs are, field by field.                             *)

\* The job of a clerk is told apart by its op.
LEMMA JobFields ==
    ASSUME POTypeOK, NEW a \in Clerks
    PROVE  /\ job[a].op \in Changes => job[a] \in ChangeJob
           /\ job[a].op = "edit" => job[a] \in EditJob
           /\ job[a].op = "replace" => job[a] \in ReplaceJob
           /\ job[a].op = "receive" => job[a] \in ReceiveJob
  BY DEF POTypeOK, ChangeJob, EditJob, ReplaceJob, ReceiveJob, Resting, Changes

\* A change of status writes one of the statuses, on an order.
LEMMA ToStatus ==
    ASSUME NEW op \in Changes
    PROVE  To[op] \in Statuses
  BY DEF Changes, To, Statuses

\* Every job but resting is about an order.
LEMMA JobOnOrder ==
    ASSUME POTypeOK, NEW a \in Clerks
    PROVE  job[a] = Resting \/ job[a].po \in Orders
  BY DEF POTypeOK, ChangeJob, EditJob, ReplaceJob, ReceiveJob

-----------------------------------------------------------------------------
(* Adding lines, the common part of create and update.                     *)

\* The rows that AddLines takes were not lines of any order, and are lines of
\* o afterwards unless they are deleted in the same step.
LEMMA AddedLines ==
    ASSUME POTypeOK, NEW o \in Orders, NEW S \in SUBSET Items,
           NEW q \in [S -> Quantities], AddLines(o, S, q)
    PROVE  /\ owner' \in [Items -> Orders \cup {NoOrder}]
           /\ ordered' \in [Items -> Nat]
           /\ total' \in [Orders -> SUBSET Items]
           /\ \A i \in S : owner[i] = NoOrder /\ owner'[i] = o
           /\ \A i \in Items : owner[i] # NoOrder => owner'[i] = owner[i]
           /\ \E i \in S : TRUE
  <1>1. owner' \in [Items -> Orders \cup {NoOrder}]
    BY DEF POTypeOK, AddLines
  <1>2. ordered' \in [Items -> Nat]
    BY OrderedIsPositive DEF POTypeOK, AddLines
  <1>3. total' \in [Orders -> SUBSET Items]
    BY DEF POTypeOK, AddLines
  <1>4. \A i \in S : owner[i] = NoOrder /\ owner'[i] = o
    BY DEF POTypeOK, AddLines
  <1>5. \A i \in Items : owner[i] # NoOrder => owner'[i] = owner[i]
    BY <1>4 DEF POTypeOK, AddLines
  <1>6. \E i \in S : TRUE
    BY DEF AddLines
  <1>. QED
    BY <1>1, <1>2, <1>3, <1>4, <1>5, <1>6

-----------------------------------------------------------------------------
(* One lemma per operation.                                                *)

\* Initially there is no order and nothing has been posted.
LEMMA POInit == Init => POInv
  BY NoOrderIsNotAnOrder
  DEF Init, POInv, POTypeOK, OrdersExist, NeverOverstated, SeenWasPosted, OnlyLinesDeleted,
      NeverWithoutLines, Resting, Statuses

\* create, in one transaction.
LEMMA CreateStep ==
    ASSUME POInv, NEW o \in Orders, Create(o)
    PROVE  POInv'
  <1>. PICK S \in SUBSET Items : \E q \in [S -> Quantities] : AddLines(o, S, q)
    BY DEF Create
  <1>. PICK q \in [S -> Quantities] : AddLines(o, S, q)
    OBVIOUS
  <1>0. POTypeOK
    BY DEF POInv
  <1>1. /\ status' = [status EXCEPT ![o] = "DRAFT"]
        /\ UNCHANGED <<deleted, received, posted, job>>
    BY DEF Create, receiptVars
  <1>2. POTypeOK'
    BY <1>0, <1>1, AddedLines DEF POTypeOK, Statuses
  <1>3. NeverOverstated' /\ SeenWasPosted'
    BY <1>1 DEF POInv, NeverOverstated, SeenWasPosted
  <1>4. OrdersExist'
    BY <1>0, <1>1, JobOnOrder DEF POInv, OrdersExist, POTypeOK
  <1>5. OnlyLinesDeleted'
    <2>1. \A i \in deleted : i \in Items
      BY <1>0 DEF POTypeOK
    <2>2. \A a \in Clerks : job[a].op = "replace" => job[a].old \subseteq Items
      BY <1>0, JobFields DEF ReplaceJob
    <2>. QED
      BY <1>0, <1>1, <2>1, <2>2, AddedLines, NoOrderIsNotAnOrder
      DEF POInv, OnlyLinesDeleted
  <1>6. NeverWithoutLines'
    <2>. SUFFICES ASSUME NEW u \in Orders, status'[u] # "NONE"
                  PROVE  Lines(u)' # {}
      BY DEF NeverWithoutLines
    <2>1. CASE u = o
      <3>1. PICK i \in S : owner[i] = NoOrder /\ owner'[i] = o
        BY <1>0, AddedLines
      <3>2. i \notin deleted'
        BY <1>1, <3>1 DEF POInv, OnlyLinesDeleted
      <3>. QED
        BY <2>1, <3>1, <3>2 DEF Lines
    <2>2. CASE u # o
      <3>1. status[u] # "NONE"
        BY <1>0, <1>1, <2>2 DEF POTypeOK
      <3>2. PICK i \in Items : owner[i] = u /\ i \notin deleted
        BY <3>1 DEF POInv, NeverWithoutLines, Lines
      <3>3. owner'[i] = u /\ i \notin deleted'
        BY <1>0, <1>1, <3>2, AddedLines, NoOrderIsNotAnOrder
      <3>. QED
        BY <3>3 DEF Lines
    <2>. QED
      BY <2>1, <2>2
  <1>. QED
    BY <1>2, <1>3, <1>4, <1>5, <1>6 DEF POInv

\* A step that only changes the job of clerk a, to a job that knows nothing new.
LEMMA JobStep ==
    ASSUME POInv, NEW a \in Clerks,
           NEW j \in ChangeJob \cup EditJob \cup ReplaceJob \cup ReceiveJob
                     \cup {Resting},
           job' = [job EXCEPT ![a] = j],
           j.op = "receive" => \A i \in Items : j.seen[i] <= posted[i],
           j.op = "replace" => \A i \in j.old : owner[i] = j.po /\ owner[i] # NoOrder,
           j # Resting => status[j.po] # "NONE",
           UNCHANGED <<status, itemVars, receiptVars>>
    PROVE  POInv'
  <1>0. POTypeOK
    BY DEF POInv
  <1>1. UNCHANGED <<status, owner, deleted, ordered, received, total, posted>>
    BY DEF itemVars, receiptVars
  <1>2. POTypeOK'
    BY <1>0, <1>1 DEF POTypeOK
  <1>3. job'[a] = j /\ \A b \in Clerks \ {a} : job'[b] = job[b]
    BY <1>0 DEF POTypeOK
  <1>4. SeenWasPosted'
    BY <1>1, <1>3 DEF POInv, SeenWasPosted
  <1>5. OnlyLinesDeleted'
    BY <1>1, <1>3 DEF POInv, OnlyLinesDeleted
  <1>7. OrdersExist'
    BY <1>1, <1>3 DEF POInv, OrdersExist
  <1>6. NeverOverstated' /\ NeverWithoutLines'
    BY <1>1 DEF POInv, NeverOverstated, NeverWithoutLines, Lines
  <1>. QED
    BY <1>2, <1>4, <1>5, <1>6, <1>7 DEF POInv

\* The reads of submit, close, cancel, update and receive.
LEMMA ReadStep ==
    ASSUME POInv, NEW a \in Clerks, NEW o \in Orders,
           \/ \E op \in Changes : ChangeCheck(a, op, o)
           \/ EditCheck(a, o)
           \/ ReceiveCheck(a, o)
    PROVE  POInv'
  <1>1. CASE \E op \in Changes : ChangeCheck(a, op, o)
    <2>. PICK op \in Changes : ChangeCheck(a, op, o)
      BY <1>1
    <2>. DEFINE j == [op |-> op, po |-> o]
    <2>1. j \in ChangeJob /\ j.op \notin {"receive", "replace"}
      BY DEF ChangeJob, Changes
    <2>3. status[j.po] # "NONE"
      BY DEF ChangeCheck, From, Changes
    <2>2. /\ job' = [job EXCEPT ![a] = j]
          /\ UNCHANGED <<status, itemVars, receiptVars>>
      BY DEF ChangeCheck, Read
    <2>. HIDE DEF j
    <2>. QED
      BY <2>1, <2>2, <2>3, JobStep
  <1>2. CASE EditCheck(a, o)
    <2>. DEFINE j == [op |-> "edit", po |-> o]
    <2>1. j \in EditJob /\ j.op \notin {"receive", "replace"}
      BY DEF EditJob
    <2>3. status[j.po] # "NONE"
      BY <1>2 DEF EditCheck
    <2>2. /\ job' = [job EXCEPT ![a] = j]
          /\ UNCHANGED <<status, itemVars, receiptVars>>
      BY <1>2 DEF EditCheck, Read
    <2>. HIDE DEF j
    <2>. QED
      BY <2>1, <2>2, <2>3, JobStep
  <1>3. CASE ReceiveCheck(a, o)
    <2>. DEFINE j == [op |-> "receive", po |-> o, lines |-> Lines(o),
                      seen |-> [i \in Items |-> IF i \in Lines(o)
                                                THEN received[i] ELSE 0]]
    <2>1. j \in ReceiveJob /\ j.op # "replace"
      BY DEF ReceiveJob, POInv, POTypeOK, Lines
    <2>2. \A i \in Items : j.seen[i] <= posted[i]
      BY DEF POInv, POTypeOK, NeverOverstated
    <2>3. /\ job' = [job EXCEPT ![a] = j]
          /\ UNCHANGED <<status, itemVars, receiptVars>>
      BY <1>3 DEF ReceiveCheck, Read
    <2>4. status[j.po] # "NONE"
      BY <1>3 DEF ReceiveCheck
    <2>. HIDE DEF j
    <2>. QED
      BY <2>1, <2>2, <2>3, <2>4, JobStep
  <1>. QED
    BY <1>1, <1>2, <1>3

\* The delete of an update finds rows that are lines, so were created.
LEMMA EditFindStep ==
    ASSUME POInv, NEW a \in Clerks, EditFind(a)
    PROVE  POInv'
  <1>. DEFINE j == [op |-> "replace", po |-> job[a].po,
                    old |-> Lines(job[a].po)]
  <1>1. job[a].po \in Orders
    BY JobFields DEF POInv, EditFind, EditJob
  <1>2. j \in ReplaceJob /\ j.op # "receive"
    BY <1>1 DEF ReplaceJob, Lines
  <1>3. \A i \in j.old : owner[i] = j.po /\ owner[i] # NoOrder
    BY <1>1, NoOrderIsNotAnOrder DEF Lines
  <1>4. /\ job' = [job EXCEPT ![a] = j]
        /\ UNCHANGED <<status, itemVars, receiptVars>>
    BY DEF EditFind
  <1>5. status[j.po] # "NONE"
    BY DEF EditFind, POInv, OrdersExist, Resting
  <1>. HIDE DEF j
  <1>. QED
    BY <1>2, <1>3, <1>4, <1>5, JobStep

\* A handler that fails leaves only its own job.
LEMMA ForgetStep ==
    ASSUME POInv, NEW a \in Clerks, Forget(a)
    PROVE  POInv'
  <1>1. Resting.op \notin {"receive", "replace"}
    BY DEF Resting
  <1>. QED
    BY <1>1, JobStep DEF Forget, Done

\* The writes of submit, close and cancel: a status of an order that exists.
LEMMA ChangeWriteStep ==
    ASSUME POInv, NEW a \in Clerks, ChangeWrite(a)
    PROVE  POInv'
  <1>0. POTypeOK
    BY DEF POInv
  <1>1. job[a].po \in Orders /\ To[job[a].op] \in Statuses
    BY <1>0, JobFields, ToStatus DEF ChangeWrite, ChangeJob
  <1>8. status[job[a].po] # "NONE"
    BY DEF ChangeWrite, POInv, OrdersExist, Resting, Changes
  <1>2. /\ UNCHANGED <<owner, deleted, ordered, received, total, posted>>
        /\ job' = [job EXCEPT ![a] = Resting]
        /\ status' = [status EXCEPT ![job[a].po] = To[job[a].op]]
    BY DEF ChangeWrite, itemVars, receiptVars, Done
  <1>3. POTypeOK'
    BY <1>0, <1>1, <1>2 DEF POTypeOK
  <1>4. job'[a] = Resting /\ \A b \in Clerks \ {a} : job'[b] = job[b]
    BY <1>0, <1>2 DEF POTypeOK
  <1>5. SeenWasPosted' /\ OnlyLinesDeleted'
    BY <1>2, <1>4 DEF POInv, SeenWasPosted, OnlyLinesDeleted, Resting
  <1>6. NeverOverstated'
    BY <1>2 DEF POInv, NeverOverstated
  <1>7. NeverWithoutLines'
    BY <1>0, <1>1, <1>2, <1>8 DEF POInv, NeverWithoutLines, Lines, POTypeOK
  <1>9. OrdersExist'
    BY <1>0, <1>1, <1>2, <1>4 DEF POInv, OrdersExist, POTypeOK, Statuses
  <1>. QED
    BY <1>3, <1>5, <1>6, <1>7, <1>9 DEF POInv

\* An update that commits: the rows it found go, the rows it adds stay.
LEMMA EditCommitStep ==
    ASSUME POInv, NEW a \in Clerks, EditCommit(a)
    PROVE  POInv'
  <1>. DEFINE o == job[a].po
  <1>0. POTypeOK
    BY DEF POInv
  <1>1. /\ job[a].op = "replace"
        /\ deleted' = deleted \cup job[a].old
        /\ job' = [job EXCEPT ![a] = Resting]
        /\ UNCHANGED <<status, received, posted>>
    BY DEF EditCommit, Done, receiptVars
  <1>2. o \in Orders /\ job[a].old \subseteq Items
    BY <1>0, <1>1, JobFields DEF ReplaceJob
  <1>. PICK S \in SUBSET Items : \E q \in [S -> Quantities] : AddLines(o, S, q)
    BY DEF EditCommit
  <1>. PICK q \in [S -> Quantities] : AddLines(o, S, q)
    OBVIOUS
  <1>3. POTypeOK'
    BY <1>0, <1>1, <1>2, AddedLines DEF POTypeOK
  <1>4. job'[a] = Resting /\ \A b \in Clerks \ {a} : job'[b] = job[b]
    BY <1>0, <1>1 DEF POTypeOK
  <1>5. NeverOverstated'
    BY <1>1 DEF POInv, NeverOverstated
  <1>6. SeenWasPosted'
    BY <1>1, <1>4 DEF POInv, SeenWasPosted, Resting
  <1>7. OrdersExist'
    BY <1>1, <1>4 DEF POInv, OrdersExist
  <1>8. OnlyLinesDeleted'
    <2>1. \A i \in Items : owner[i] # NoOrder => owner'[i] = owner[i]
      BY <1>0, <1>2, AddedLines
    <2>2. \A i \in deleted' : i \in Items /\ owner[i] # NoOrder
      BY <1>0, <1>1, <1>2 DEF POInv, POTypeOK, OnlyLinesDeleted
    <2>3. \A b \in Clerks : job'[b].op = "replace" =>
             \A i \in job'[b].old : /\ i \in Items
                                    /\ owner[i] = job'[b].po
                                    /\ owner[i] # NoOrder
      BY <1>0, <1>4, JobFields DEF POInv, OnlyLinesDeleted, ReplaceJob, Resting
    <2>. QED
      BY <2>1, <2>2, <2>3 DEF OnlyLinesDeleted
  <1>9. NeverWithoutLines'
    <2>. SUFFICES ASSUME NEW u \in Orders, status'[u] # "NONE"
                  PROVE  Lines(u)' # {}
      BY DEF NeverWithoutLines
    <2>1. CASE u = o
      <3>. HIDE DEF o
      <3>3. /\ \A i \in S : owner[i] = NoOrder /\ owner'[i] = o
            /\ \E i \in S : TRUE
        BY <1>0, <1>2, AddedLines
      <3>1. PICK i \in S : owner[i] = NoOrder /\ owner'[i] = o
        BY <3>3
      <3>2. i \notin deleted'
        BY <1>1, <3>1 DEF POInv, OnlyLinesDeleted
      <3>. QED
        BY <2>1, <3>1, <3>2 DEF Lines
    <2>2. CASE u # o
      <3>1. PICK i \in Items : owner[i] = u /\ i \notin deleted
        BY <1>1 DEF POInv, NeverWithoutLines, Lines
      <3>2. owner'[i] = u
        BY <1>0, <1>2, <3>1, AddedLines, NoOrderIsNotAnOrder
      <3>3. i \notin job[a].old
        BY <1>1, <2>2, <3>1 DEF POInv, OnlyLinesDeleted
      <3>. QED
        BY <1>1, <3>1, <3>2, <3>3 DEF Lines
    <2>. QED
      BY <2>1, <2>2
  <1>. QED
    BY <1>3, <1>5, <1>6, <1>7, <1>8, <1>9 DEF POInv

\* A receipt that commits: what it writes as received is what it saw plus what
\* it posts.
LEMMA ReceiveCommitStep ==
    ASSUME POInv, NEW a \in Clerks, NEW S \in SUBSET Items,
           NEW got \in [S -> Quantities], ReceiveCommit(a, got)
    PROVE  POInv'
  <1>. DEFINE j == job[a]
  <1>0. POTypeOK
    BY DEF POInv
  <1>1. /\ j.op = "receive"
        /\ received' = [i \in Items |-> IF i \in S THEN j.seen[i] + got[i]
                                        ELSE received[i]]
        /\ posted' = [i \in Items |-> IF i \in S THEN posted[i] + got[i]
                                      ELSE posted[i]]
        /\ job' = [job EXCEPT ![a] = Resting]
        /\ status' = [status EXCEPT ![j.po] = StatusAfter(j, got)]
        /\ UNCHANGED <<owner, deleted, ordered, total>>
    BY DEF ReceiveCommit, NewReceived, MovementQty, Done, itemVars
  <1>2. j.po \in Orders /\ j.seen \in [Items -> Nat]
    BY <1>0, <1>1, JobFields DEF ReceiveJob
  <1>3. StatusAfter(j, got) \in {"RECEIVED", "PARTIALLY_RECEIVED"}
    BY DEF StatusAfter
  <1>4. \A i \in S : got[i] \in Nat
    BY OrderedIsPositive
  <1>5. POTypeOK'
    BY <1>0, <1>1, <1>2, <1>3, <1>4 DEF POTypeOK, Statuses
  <1>6. job'[a] = Resting /\ \A b \in Clerks \ {a} : job'[b] = job[b]
    BY <1>0, <1>1 DEF POTypeOK
  <1>7. \A i \in Items : posted[i] \in Nat /\ posted'[i] \in Nat
                          /\ posted[i] <= posted'[i]
    BY <1>0, <1>1, <1>4 DEF POTypeOK
  <1>8. NeverOverstated'
    <2>. SUFFICES ASSUME NEW i \in Items PROVE received'[i] <= posted'[i]
      BY DEF NeverOverstated
    <2>1. CASE i \in S
      <3>1. j.seen[i] <= posted[i]
        BY <1>1 DEF POInv, SeenWasPosted
      <3>. QED
        BY <1>0, <1>1, <1>2, <1>4, <2>1, <3>1 DEF POTypeOK
    <2>2. CASE i \notin S
      BY <1>1, <2>2 DEF POInv, NeverOverstated
    <2>. QED
      BY <2>1, <2>2
  <1>9. SeenWasPosted'
    <2>. SUFFICES ASSUME NEW b \in Clerks, job'[b].op = "receive", NEW i \in Items
                  PROVE  job'[b].seen[i] <= posted'[i]
      BY DEF SeenWasPosted
    <2>1. b # a /\ job'[b] = job[b]
      BY <1>6 DEF Resting
    <2>2. job[b].seen[i] <= posted[i] /\ job[b].seen[i] \in Nat
      BY <1>0, <2>1, JobFields DEF POInv, SeenWasPosted, ReceiveJob
    <2>. QED
      BY <1>7, <2>1, <2>2
  <1>10. OnlyLinesDeleted'
    BY <1>1, <1>6 DEF POInv, OnlyLinesDeleted, Resting
  <1>11. status[j.po] # "NONE"
    BY <1>1 DEF POInv, OrdersExist, Resting
  <1>12. NeverWithoutLines'
    BY <1>0, <1>1, <1>2, <1>11 DEF POInv, NeverWithoutLines, Lines, POTypeOK
  <1>13. OrdersExist'
    BY <1>0, <1>1, <1>2, <1>3, <1>6 DEF POInv, OrdersExist, POTypeOK
  <1>. QED
    BY <1>5, <1>8, <1>9, <1>10, <1>12, <1>13 DEF POInv

-----------------------------------------------------------------------------
(* The invariant, and what it says.                                        *)

\* Every step of every handler preserves the invariant.
LEMMA POStep == POInv /\ [Next]_vars => POInv'
  <1>. SUFFICES ASSUME POInv, [Next]_vars PROVE POInv'
    OBVIOUS
  <1>1. ASSUME NEW o \in Orders, Create(o) PROVE POInv'
    BY <1>1, CreateStep
  <1>2. ASSUME NEW a \in Clerks, ClerkStep(a) PROVE POInv'
    <2>1. ASSUME NEW o \in Orders,
                 \/ \E op \in Changes : ChangeCheck(a, op, o)
                 \/ EditCheck(a, o)
                 \/ ReceiveCheck(a, o)
          PROVE  POInv'
      BY <2>1, ReadStep
    <2>2. CASE ChangeWrite(a)
      BY <2>2, ChangeWriteStep
    <2>3. CASE EditFind(a)
      BY <2>3, EditFindStep
    <2>4. CASE EditCommit(a)
      BY <2>4, EditCommitStep
    <2>5. ASSUME NEW S \in SUBSET Items, NEW got \in [S -> Quantities],
                 ReceiveCommit(a, got)
          PROVE  POInv'
      BY <2>5, ReceiveCommitStep
    <2>6. CASE Forget(a)
      BY <2>6, ForgetStep
    <2>. QED
      BY <1>2, <2>1, <2>2, <2>3, <2>4, <2>5, <2>6 DEF ClerkStep
  <1>3. CASE UNCHANGED vars
    BY <1>3 DEF vars, itemVars, receiptVars, POInv, POTypeOK, OrdersExist,
       NeverOverstated, SeenWasPosted, OnlyLinesDeleted,
       NeverWithoutLines, Lines
  <1>. QED
    BY <1>1, <1>2, <1>3 DEF Next

\* Every state of any number of racing handlers is type-correct.
THEOREM OrdersTypeCorrect == Spec => []POTypeOK
  <1>1. POInv => POTypeOK
    BY DEF POInv
  <1>. QED
    BY POInit, POStep, <1>1, PTL DEF Spec

\* However receipts, updates and status changes race, receivedQuantity never
\* exceeds the stock that RECEIVE movements posted for the line.
THEOREM NoOverstatement == Spec => []NeverOverstated
  <1>1. POInv => NeverOverstated
    BY DEF POInv
  <1>. QED
    BY POInit, POStep, <1>1, PTL DEF Spec

\* However updates race, an order that exists has a line: the completeness check
\* of receive never decides on an empty list.
THEOREM AlwaysLines == Spec => []NeverWithoutLines
  <1>1. POInv => NeverWithoutLines
    BY DEF POInv
  <1>. QED
    BY POInit, POStep, <1>1, PTL DEF Spec
-----------------------------------------------------------------------------
(***************************************************************************)
(* What holds of purchase orders when their handlers do not overlap, on    *)
(* however many orders and lines.                                          *)
(*                                                                         *)
(* With one clerk, what a handler has read is still so when it writes      *)
(* (Fresh): only create runs beside it, and that makes an order of its     *)
(* own.  The rest follows from where goods can be: only on lines of orders *)
(* past SUBMITTED (Untouched), so an update deletes no line with stock,    *)
(* and from lines that exist only for orders that do (Uncreated).          *)
(***************************************************************************)

OneAtATime == \A a, b \in Clerks : a = b

-----------------------------------------------------------------------------
(* The inductive invariant, beside POInv.                                  *)

UpToDate(j) ==
    /\ j.op \in Changes => status[j.po] \in From[j.op]
    /\ j.op \in {"edit", "replace"} => status[j.po] = "DRAFT"
    /\ j.op = "replace" => j.old = Lines(j.po)
    /\ j.op = "receive" => /\ status[j.po] \notin {"NONE", "CLOSED", "CANCELED"}
                           /\ j.lines = Lines(j.po)
                           /\ \A i \in j.lines : j.seen[i] = received[i]

Fresh == \A a \in Clerks : UpToDate(job[a])

Untouched == \A i \in Items : posted[i] > 0 =>
                 /\ owner[i] \in Orders
                 /\ status[owner[i]] \notin {"NONE", "DRAFT", "SUBMITTED"}

Uncreated == \A o \in Orders : status[o] = "NONE" => \A i \in Items : owner[i] # o

Sequential == /\ Fresh
              /\ Untouched
              /\ Uncreated
              /\ ReceivedIsPosted
              /\ TotalMatchesLines
              /\ CompletenessAccurate

LEMMA SequentialInit == Init => Sequential
<1> SUFFICES ASSUME Init PROVE Sequential
  OBVIOUS
<1>1. Fresh
  BY DEF Init, Fresh, UpToDate, Resting, Changes
<1>2. Untouched /\ Uncreated /\ ReceivedIsPosted
  BY NoOrderIsNotAnOrder DEF Init, Untouched, Uncreated, ReceivedIsPosted
<1>3. TotalMatchesLines /\ CompletenessAccurate
  BY NoOrderIsNotAnOrder DEF Init, TotalMatchesLines, CompletenessAccurate, Lines
<1>. QED  BY <1>1, <1>2, <1>3 DEF Sequential

-----------------------------------------------------------------------------
(* Adding and replacing lines.                                             *)

\* The lines of every order after rows S are added to order o and rows D of it
\* are deleted.
LEMMA LinesAfter ==
  ASSUME POInv, NEW o \in Orders, NEW S \in SUBSET Items,
         NEW q \in [S -> Quantities], AddLines(o, S, q),
         NEW D \in SUBSET Items, \A i \in D : owner[i] = o,
         deleted' = deleted \cup D
  PROVE  /\ Lines(o)' = (Lines(o) \ D) \cup S
         /\ \A u \in Orders \ {o} : Lines(u)' = Lines(u)
         /\ \A u \in Orders, i \in Items : i \in Lines(u) =>
                i \notin S /\ ordered'[i] = ordered[i]
<1>1. /\ owner' = [i \in Items |-> IF i \in S THEN o ELSE owner[i]]
      /\ ordered' = [i \in Items |-> IF i \in S THEN q[i] ELSE ordered[i]]
      /\ \A i \in S : owner[i] = NoOrder
  BY DEF AddLines
<1>2. \A i \in S : i \notin deleted /\ i \notin D
  BY <1>1, NoOrderIsNotAnOrder DEF POInv, OnlyLinesDeleted
<1>3. \A u \in Orders, i \in Items : i \in Lines(u) => i \notin S
  BY <1>1, NoOrderIsNotAnOrder DEF Lines
<1>4. Lines(o)' = (Lines(o) \ D) \cup S
  BY <1>1, <1>2 DEF Lines
<1>5. ASSUME NEW u \in Orders \ {o} PROVE Lines(u)' = Lines(u)
  BY <1>1, <1>5, NoOrderIsNotAnOrder DEF Lines
<1>. QED  BY <1>1, <1>3, <1>4, <1>5

\* Adding lines S to an order o that is a draft afterwards, in exchange for D,
\* all the lines it had.
LEMMA NewLinesStep ==
  ASSUME POInv, Sequential, NEW o \in Orders, NEW S \in SUBSET Items,
         NEW q \in [S -> Quantities], AddLines(o, S, q),
         status[o] \in {"NONE", "DRAFT"},
         status' = [status EXCEPT ![o] = "DRAFT"],
         deleted' = deleted \cup Lines(o),
         UNCHANGED receiptVars
  PROVE  /\ Untouched' /\ Uncreated' /\ ReceivedIsPosted'
         /\ TotalMatchesLines' /\ CompletenessAccurate'
<1>. DEFINE D == Lines(o)
<1>0. /\ status \in [Orders -> Statuses \cup {"NONE"}]
      /\ total \in [Orders -> SUBSET Items]
      /\ posted \in [Items -> Nat]
  BY DEF POInv, POTypeOK
<1>1. D \in SUBSET Items /\ \A i \in D : owner[i] = o
  BY DEF Lines
<1>2. /\ Lines(o)' = S
      /\ \A u \in Orders \ {o} : Lines(u)' = Lines(u)
      /\ \A u \in Orders, i \in Items : i \in Lines(u) =>
             i \notin S /\ ordered'[i] = ordered[i]
  <2>1. deleted' = deleted \cup D
    OBVIOUS
  <2>2. /\ Lines(o)' = (Lines(o) \ D) \cup S
        /\ \A u \in Orders \ {o} : Lines(u)' = Lines(u)
        /\ \A u \in Orders, i \in Items : i \in Lines(u) =>
               i \notin S /\ ordered'[i] = ordered[i]
    <3>. HIDE DEF D
    <3>. QED  BY <1>1, <2>1, LinesAfter
  <2>. QED  BY <2>2
<1>3. /\ received' = received /\ posted' = posted
      /\ \A i \in S : owner[i] = NoOrder
      /\ owner' = [i \in Items |-> IF i \in S THEN o ELSE owner[i]]
      /\ total' = [total EXCEPT ![o] = S]
  BY DEF receiptVars, AddLines
<1>4. \A u \in Orders \ {o} : status'[u] = status[u]
  BY <1>0
<1>5. status'[o] = "DRAFT"
  BY <1>0
<1>6. Untouched'
  <2>. SUFFICES ASSUME NEW i \in Items, posted'[i] > 0
                PROVE  /\ owner'[i] \in Orders
                       /\ status'[owner'[i]] \notin {"NONE", "DRAFT", "SUBMITTED"}
    BY DEF Untouched
  <2>1. owner[i] \in Orders /\ status[owner[i]] \notin {"NONE", "DRAFT", "SUBMITTED"}
    BY <1>3 DEF Sequential, Untouched
  <2>2. i \notin S /\ owner[i] # o
    BY <1>3, <2>1, NoOrderIsNotAnOrder
  <2>. QED  BY <1>3, <1>4, <2>1, <2>2
<1>7. Uncreated'
  BY <1>3, <1>4, <1>5 DEF Sequential, Uncreated
<1>8. ReceivedIsPosted'
  <2>1. ASSUME NEW i \in D PROVE posted[i] = 0
    BY <1>0, <1>1, <2>1 DEF Sequential, Untouched
  <2>. QED  BY <1>3, <2>1 DEF Sequential, ReceivedIsPosted
<1>9. TotalMatchesLines'
  BY <1>0, <1>2, <1>3 DEF Sequential, TotalMatchesLines
<1>10. CompletenessAccurate'
  <2>. SUFFICES ASSUME NEW u \in Orders,
                       status'[u] \in {"RECEIVED", "PARTIALLY_RECEIVED"}
                PROVE  /\ u # o /\ status[u] = status'[u] /\ Lines(u)' = Lines(u)
                       /\ \A i \in Lines(u) : ordered'[i] = ordered[i]
                                              /\ posted'[i] = posted[i]
    BY DEF Sequential, CompletenessAccurate
  <2>1. u # o
    BY <1>5
  <2>2. \A i \in Lines(u) : i \in Items
    BY DEF Lines
  <2>. QED  BY <1>2, <1>3, <1>4, <2>1, <2>2
<1>. QED  BY <1>6, <1>7, <1>8, <1>9, <1>10

LEMMA CreateOnlyDraft ==
  ASSUME POInv, Sequential, NEW o \in Orders, Create(o)
  PROVE  /\ Sequential'
         /\ \A u \in Orders \ {o} : Lines(u)' = Lines(u)
<1>. PICK S \in SUBSET Items : \E q \in [S -> Quantities] : AddLines(o, S, q)
  BY DEF Create
<1>. PICK q \in [S -> Quantities] : AddLines(o, S, q)
  OBVIOUS
<1>0. POTypeOK
  BY DEF POInv
<1>1. /\ status[o] = "NONE"
      /\ status' = [status EXCEPT ![o] = "DRAFT"]
      /\ UNCHANGED receiptVars /\ deleted' = deleted /\ job' = job
  BY DEF Create
<1>2. Lines(o) = {}
  BY <1>1 DEF Sequential, Uncreated, Lines
<1>3. deleted' = deleted \cup Lines(o)
  BY <1>1, <1>2
<1>4. /\ Untouched' /\ Uncreated' /\ ReceivedIsPosted'
      /\ TotalMatchesLines' /\ CompletenessAccurate'
  BY <1>1, <1>3, NewLinesStep
<1>5. \A u \in Orders \ {o} : Lines(u)' = Lines(u)
  BY <1>2, <1>3, LinesAfter
<1>6. Fresh'
  <2>. SUFFICES ASSUME NEW a \in Clerks PROVE UpToDate(job[a])'
    BY DEF Fresh
  <2>1. CASE job[a] = Resting
    BY <1>1, <2>1 DEF UpToDate, Resting, Changes
  <2>2. CASE job[a] # Resting
    <3>1. job[a].po \in Orders /\ job[a].po # o
      BY <1>0, <1>1, <2>2, JobOnOrder DEF POInv, OrdersExist
    <3>2. status'[job[a].po] = status[job[a].po] /\ Lines(job[a].po)' = Lines(job[a].po)
      BY <1>0, <1>1, <1>5, <3>1 DEF POTypeOK
    <3>3. UpToDate(job[a]) /\ job'[a] = job[a] /\ received' = received
      BY <1>1 DEF Sequential, Fresh, receiptVars
    <3>. QED  BY <3>2, <3>3 DEF UpToDate
  <2>. QED  BY <2>1, <2>2
<1>. QED  BY <1>4, <1>5, <1>6 DEF Sequential

-----------------------------------------------------------------------------
(* Steps of the one clerk.                                                 *)

\* A step that writes the job of the clerk, who then knows what is so.
LEMMA FreshStep ==
  ASSUME OneAtATime, POTypeOK, NEW a \in Clerks, NEW j,
         job' = [job EXCEPT ![a] = j], UpToDate(j)'
  PROVE  Fresh'
<1>1. \A b \in Clerks : b = a
  BY DEF OneAtATime
<1>2. job'[a] = j
  BY DEF POTypeOK
<1>. QED  BY <1>1, <1>2 DEF Fresh

LEMMA RestingIsUpToDate == UpToDate(Resting) /\ UpToDate(Resting)'
  BY DEF UpToDate, Resting, Changes

\* Nothing but the job changes.
LEMMA ReadOnlyStep ==
  ASSUME OneAtATime, POInv, Sequential, NEW a \in Clerks, NEW j,
         job' = [job EXCEPT ![a] = j], UpToDate(j),
         UNCHANGED <<status, itemVars, receiptVars>>
  PROVE  Sequential' /\ \A o \in Orders : Lines(o)' = Lines(o)
<1>1. UNCHANGED <<status, owner, deleted, ordered, received, total, posted>>
  BY DEF itemVars, receiptVars
<1>2. UpToDate(j)'
  BY <1>1 DEF UpToDate, Lines
<1>3. Fresh'
  BY <1>2, FreshStep DEF POInv
<1>4. \A o \in Orders : Lines(o)' = Lines(o)
  BY <1>1 DEF Lines
<1>. QED
  BY <1>1, <1>3, <1>4 DEF Sequential, Untouched, Uncreated, ReceivedIsPosted,
     TotalMatchesLines, CompletenessAccurate

LEMMA ReadsAreQuiet ==
  ASSUME OneAtATime, POInv, Sequential, NEW a \in Clerks,
         \/ \E o \in Orders : \/ \E op \in Changes : ChangeCheck(a, op, o)
                              \/ EditCheck(a, o)
                              \/ ReceiveCheck(a, o)
         \/ EditFind(a)
         \/ Forget(a)
  PROVE  Sequential' /\ \A o \in Orders : Lines(o)' = Lines(o)
<1>1. ASSUME NEW o \in Orders, NEW op \in Changes, ChangeCheck(a, op, o)
      PROVE  Sequential' /\ \A u \in Orders : Lines(u)' = Lines(u)
  <2>1. UpToDate([op |-> op, po |-> o])
    BY <1>1 DEF ChangeCheck, UpToDate, Changes
  <2>. QED  BY <1>1, <2>1, ReadOnlyStep DEF ChangeCheck, Read
<1>2. ASSUME NEW o \in Orders, EditCheck(a, o)
      PROVE  Sequential' /\ \A u \in Orders : Lines(u)' = Lines(u)
  <2>1. UpToDate([op |-> "edit", po |-> o])
    BY <1>2 DEF EditCheck, UpToDate, Changes
  <2>. QED  BY <1>2, <2>1, ReadOnlyStep DEF EditCheck, Read
<1>3. ASSUME NEW o \in Orders, ReceiveCheck(a, o)
      PROVE  Sequential' /\ \A u \in Orders : Lines(u)' = Lines(u)
  <2>. DEFINE j == [op |-> "receive", po |-> o, lines |-> Lines(o),
                    seen |-> [i \in Items |-> IF i \in Lines(o)
                                              THEN received[i] ELSE 0]]
  <2>1. \A i \in Lines(o) : i \in Items
    BY DEF Lines
  <2>2. UpToDate(j)
    BY <1>3, <2>1 DEF ReceiveCheck, UpToDate, Changes
  <2>3. job' = [job EXCEPT ![a] = j] /\ UNCHANGED <<status, itemVars, receiptVars>>
    BY <1>3 DEF ReceiveCheck, Read
  <2>. HIDE DEF j
  <2>. QED  BY <2>2, <2>3, ReadOnlyStep
<1>4. CASE EditFind(a)
  <2>. DEFINE j == [op |-> "replace", po |-> job[a].po, old |-> Lines(job[a].po)]
  <2>1. status[job[a].po] = "DRAFT"
    BY <1>4 DEF EditFind, Sequential, Fresh, UpToDate
  <2>2. UpToDate(j)
    BY <2>1 DEF UpToDate, Changes
  <2>3. job' = [job EXCEPT ![a] = j] /\ UNCHANGED <<status, itemVars, receiptVars>>
    BY <1>4 DEF EditFind
  <2>. HIDE DEF j
  <2>. QED  BY <2>2, <2>3, ReadOnlyStep
<1>5. CASE Forget(a)
  BY <1>5, RestingIsUpToDate, ReadOnlyStep DEF Forget, Done
<1>. QED  BY <1>1, <1>2, <1>3, <1>4, <1>5

\* submit, close, cancel: the status is still the one that was checked, so
\* nothing comes out of a receipt but CLOSED.
LEMMA ChangeWriteQuiet ==
  ASSUME OneAtATime, POInv, Sequential, NEW a \in Clerks, ChangeWrite(a)
  PROVE  Sequential' /\ \A o \in Orders : Lines(o)' = Lines(o)
<1>. DEFINE po == job[a].po
            new == To[job[a].op]
<1>0. POTypeOK
  BY DEF POInv
<1>1. /\ job[a].op \in Changes
      /\ status' = [status EXCEPT ![po] = new]
      /\ job' = [job EXCEPT ![a] = Resting]
      /\ UNCHANGED <<owner, deleted, ordered, received, total, posted>>
  BY DEF ChangeWrite, Done, itemVars, receiptVars
<1>2. po \in Orders /\ status[po] \in From[job[a].op]
  BY <1>0, <1>1, JobFields DEF Sequential, Fresh, UpToDate, ChangeJob
<1>3. /\ new \in {"SUBMITTED", "CLOSED", "CANCELED"}
      /\ status[po] # "NONE"
      /\ status[po] \in {"RECEIVED", "PARTIALLY_RECEIVED"} => new = "CLOSED"
  BY <1>1, <1>2 DEF Changes, From, To
<1>4. /\ status'[po] = new
      /\ \A o \in Orders \ {po} : status'[o] = status[o]
  BY <1>0, <1>1, <1>2 DEF POTypeOK
<1>. HIDE DEF po, new
<1>5. \A o \in Orders : Lines(o)' = Lines(o)
  BY <1>1 DEF Lines
<1>6. Fresh'
  BY <1>0, <1>1, RestingIsUpToDate, FreshStep
<1>7. Untouched'
  <2>. SUFFICES ASSUME NEW i \in Items, posted[i] > 0
                PROVE  /\ owner[i] \in Orders
                       /\ status'[owner[i]] \notin {"NONE", "DRAFT", "SUBMITTED"}
    BY <1>1 DEF Untouched
  <2>1. owner[i] \in Orders /\ status[owner[i]] \notin {"NONE", "DRAFT", "SUBMITTED"}
    BY DEF Sequential, Untouched
  <2>2. CASE owner[i] = po
    <3>1. new # "SUBMITTED"
      BY <1>1, <1>2, <2>1, <2>2 DEF Changes, From, To, new
    <3>. QED  BY <1>3, <1>4, <2>1, <2>2, <3>1
  <2>. QED  BY <1>4, <2>1, <2>2
<1>8. Uncreated'
  BY <1>1, <1>3, <1>4 DEF Sequential, Uncreated
<1>9. ReceivedIsPosted' /\ TotalMatchesLines'
  BY <1>1, <1>5 DEF Sequential, ReceivedIsPosted, TotalMatchesLines
<1>10. CompletenessAccurate'
  BY <1>1, <1>3, <1>4, <1>5 DEF Sequential, CompletenessAccurate
<1>. QED  BY <1>5, <1>6, <1>7, <1>8, <1>9, <1>10 DEF Sequential

\* update: the lines it found are all there are, of an order still in DRAFT.
LEMMA EditCommitQuiet ==
  ASSUME OneAtATime, POInv, Sequential, NEW a \in Clerks, EditCommit(a)
  PROVE  /\ Sequential'
         /\ \A o \in Orders : status[o] # "DRAFT" => Lines(o)' = Lines(o)
<1>. DEFINE o == job[a].po
<1>0. POTypeOK
  BY DEF POInv
<1>1. /\ job[a].op = "replace"
      /\ deleted' = deleted \cup job[a].old
      /\ job' = [job EXCEPT ![a] = Resting]
      /\ UNCHANGED <<status, receiptVars>>
  BY DEF EditCommit, Done
<1>2. o \in Orders /\ status[o] = "DRAFT" /\ job[a].old = Lines(o)
  BY <1>0, <1>1, JobFields DEF Sequential, Fresh, UpToDate, ReplaceJob
<1>. PICK S \in SUBSET Items : \E q \in [S -> Quantities] : AddLines(o, S, q)
  BY DEF EditCommit
<1>. PICK q \in [S -> Quantities] : AddLines(o, S, q)
  OBVIOUS
<1>. HIDE DEF o
<1>3. status' = [status EXCEPT ![o] = "DRAFT"]
  BY <1>0, <1>1, <1>2 DEF POTypeOK
<1>4. /\ Untouched' /\ Uncreated' /\ ReceivedIsPosted'
      /\ TotalMatchesLines' /\ CompletenessAccurate'
  BY <1>1, <1>2, <1>3, NewLinesStep
<1>5. Fresh'
  BY <1>0, <1>1, RestingIsUpToDate, FreshStep
<1>6. \A u \in Orders \ {o} : Lines(u)' = Lines(u)
  <2>1. Lines(o) \in SUBSET Items /\ \A i \in Lines(o) : owner[i] = o
    BY DEF Lines
  <2>. QED  BY <1>1, <1>2, <2>1, LinesAfter
<1>. QED  BY <1>2, <1>4, <1>5, <1>6 DEF Sequential

\* receive: what it read is what is in stock, so its sums are, and its check is
\* over the lines there are.
LEMMA ReceiveCommitQuiet ==
  ASSUME OneAtATime, POInv, Sequential, NEW a \in Clerks, NEW S \in SUBSET Items,
         NEW got \in [S -> Quantities], ReceiveCommit(a, got)
  PROVE  Sequential' /\ \A o \in Orders : Lines(o)' = Lines(o)
<1>. DEFINE j == job[a]
            o == job[a].po
            all == \A i \in Lines(o) : posted'[i] >= ordered[i]
<1>0. POTypeOK
  BY DEF POInv
<1>1. /\ j.op = "receive"
      /\ S # {} /\ S \subseteq j.lines \ deleted
      /\ received' = [i \in Items |-> IF i \in S THEN j.seen[i] + got[i]
                                      ELSE received[i]]
      /\ posted' = [i \in Items |-> IF i \in S THEN posted[i] + got[i]
                                    ELSE posted[i]]
      /\ status' = [status EXCEPT ![o] = StatusAfter(j, got)]
      /\ job' = [job EXCEPT ![a] = Resting]
      /\ UNCHANGED <<owner, deleted, ordered, total>>
  BY DEF ReceiveCommit, NewReceived, MovementQty, Done, itemVars
<1>2. o \in Orders /\ j.lines = Lines(o) /\ j.seen \in [Items -> Nat]
  BY <1>0, <1>1, JobFields DEF Sequential, Fresh, UpToDate, ReceiveJob
<1>3. /\ posted \in [Items -> Nat] /\ ordered \in [Items -> Nat]
      /\ \A i \in S : got[i] \in Nat /\ got[i] > 0
      /\ \A i \in Lines(o) : i \in Items /\ owner[i] = o
  <2>1. ASSUME NEW i \in S PROVE got[i] \in Nat /\ got[i] > 0
    <3>. DEFINE n == got[i]
    <3>1. n \in Quantities
      OBVIOUS
    <3>. HIDE DEF n
    <3>2. n \in Nat /\ n # 0
      BY <3>1, OrderedIsPositive
    <3>3. n > 0
      BY <3>2
    <3>. QED  BY <3>2, <3>3 DEF n
  <2>. QED  BY <1>0, <2>1 DEF POTypeOK, Lines
<1>4. \A i \in Lines(o) : j.seen[i] = posted[i]
  BY <1>1, <1>2, <1>3 DEF Sequential, Fresh, UpToDate, ReceivedIsPosted
<1>5. \A i \in Lines(o) : NewReceived(j, got, i) = posted'[i]
  BY <1>1, <1>3, <1>4 DEF NewReceived
<1>6. StatusAfter(j, got) = IF all THEN "RECEIVED" ELSE "PARTIALLY_RECEIVED"
  BY <1>2, <1>5 DEF StatusAfter
<1>7. /\ status'[o] = IF all THEN "RECEIVED" ELSE "PARTIALLY_RECEIVED"
      /\ \A u \in Orders \ {o} : status'[u] = status[u]
  BY <1>0, <1>1, <1>2, <1>6 DEF POTypeOK
<1>. HIDE DEF j, o, all
<1>8. \A u \in Orders : Lines(u)' = Lines(u)
  BY <1>1 DEF Lines
<1>9. Fresh'
  BY <1>0, <1>1, RestingIsUpToDate, FreshStep
<1>10. Untouched'
  <2>. SUFFICES ASSUME NEW i \in Items, posted'[i] > 0
                PROVE  /\ owner[i] \in Orders
                       /\ status'[owner[i]] \notin {"NONE", "DRAFT", "SUBMITTED"}
    BY <1>1 DEF Untouched
  <2>1. CASE owner[i] = o
    BY <1>2, <1>7, <2>1
  <2>2. CASE owner[i] # o
    <3>1. posted'[i] = posted[i]
      BY <1>1, <1>2, <1>3, <2>2
    <3>. QED  BY <1>7, <2>2, <3>1 DEF Sequential, Untouched
  <2>. QED  BY <2>1, <2>2
<1>11. Uncreated'
  BY <1>1, <1>7 DEF Sequential, Uncreated
<1>12. ReceivedIsPosted'
  BY <1>1, <1>2, <1>3, <1>4 DEF Sequential, ReceivedIsPosted
<1>13. TotalMatchesLines'
  BY <1>1, <1>8 DEF Sequential, TotalMatchesLines
<1>14. CompletenessAccurate'
  <2>. SUFFICES ASSUME NEW u \in Orders
                PROVE  /\ status'[u] = "RECEIVED" =>
                             \A i \in Lines(u) : posted'[i] >= ordered[i]
                       /\ status'[u] = "PARTIALLY_RECEIVED" =>
                             /\ \E i \in Lines(u) : ~(posted'[i] >= ordered[i])
                             /\ \E i \in Lines(u) : posted'[i] > 0
    BY <1>1, <1>8 DEF CompletenessAccurate
  <2>1. CASE u = o
    <3>1. PICK i \in S : i \in Lines(o)
      BY <1>1, <1>2
    <3>2. posted'[i] > 0
      BY <1>1, <1>3, <3>1
    <3>. QED  BY <1>7, <2>1, <3>1, <3>2 DEF all
  <2>2. CASE u # o
    <3>1. \A i \in Lines(u) : posted'[i] = posted[i]
      BY <1>1, <1>2, <1>3, <2>2 DEF Lines
    <3>. QED  BY <1>7, <2>2, <3>1 DEF Sequential, CompletenessAccurate
  <2>. QED  BY <2>1, <2>2
<1>. QED  BY <1>8, <1>9, <1>10, <1>11, <1>12, <1>13, <1>14 DEF Sequential

-----------------------------------------------------------------------------
LEMMA SequentialStep ==
  ASSUME OneAtATime
  PROVE  POInv /\ Sequential /\ [Next]_vars =>
         /\ Sequential'
         /\ \A o \in Orders : status[o] # "DRAFT" /\ status[o] # "NONE"
                              => Lines(o)' = Lines(o)
<1>. SUFFICES ASSUME POInv, Sequential, [Next]_vars
              PROVE  /\ Sequential'
                     /\ \A o \in Orders : status[o] # "DRAFT" /\ status[o] # "NONE"
                                          => Lines(o)' = Lines(o)
  OBVIOUS
<1>1. CASE \E o \in Orders : Create(o)
  BY <1>1, CreateOnlyDraft DEF Create
<1>2. ASSUME NEW a \in Clerks, ClerkStep(a)
      PROVE  /\ Sequential'
             /\ \A o \in Orders : status[o] # "DRAFT" => Lines(o)' = Lines(o)
  BY <1>2, ReadsAreQuiet, ChangeWriteQuiet, EditCommitQuiet, ReceiveCommitQuiet
     DEF ClerkStep
<1>3. CASE UNCHANGED vars
  BY <1>3 DEF vars, itemVars, receiptVars, Lines, Sequential, Fresh, UpToDate,
     Untouched, Uncreated, ReceivedIsPosted, TotalMatchesLines,
     CompletenessAccurate
<1>. QED  BY <1>1, <1>2, <1>3 DEF Next

LEMMA AllSequential ==
  ASSUME OneAtATime
  PROVE  Spec => [](POInv /\ Sequential)
<1>1. POInv /\ Sequential /\ [Next]_vars => (POInv /\ Sequential)'
  BY POStep, SequentialStep
<1>. QED  BY POInit, SequentialInit, <1>1, PTL DEF Spec

\* With one handler at a time the received quantities are the stock posted, and
\* no stock hangs on a deleted line.
THEOREM ReceiptsArePosted ==
  ASSUME OneAtATime PROVE Spec => []ReceivedIsPosted
<1>1. POInv /\ Sequential => ReceivedIsPosted
  BY DEF Sequential
<1>. QED  BY <1>1, AllSequential, PTL

\* With one handler at a time the completeness check of receive is accurate.
THEOREM CompletenessIsAccurate ==
  ASSUME OneAtATime PROVE Spec => []CompletenessAccurate
<1>1. POInv /\ Sequential => CompletenessAccurate
  BY DEF Sequential
<1>. QED  BY <1>1, AllSequential, PTL

\* With one handler at a time totalAmount is the sum over the lines there are.
THEOREM TotalIsOfLines ==
  ASSUME OneAtATime PROVE Spec => []TotalMatchesLines
<1>1. POInv /\ Sequential => TotalMatchesLines
  BY DEF Sequential
<1>. QED  BY <1>1, AllSequential, PTL

\* With one handler at a time only DRAFT orders change their lines.
THEOREM EditsAreOfDrafts ==
  ASSUME OneAtATime PROVE Spec => OnlyDraftsEdited
<1>1. POInv /\ Sequential /\ [Next]_vars =>
        [\A o \in Orders : status[o] # "DRAFT" /\ status[o] # "NONE"
                           => Lines(o)' = Lines(o)]_vars
  BY SequentialStep
<1>. QED  BY <1>1, AllSequential, PTL DEF Spec, OnlyDraftsEdited

-----------------------------------------------------------------------------
(* With one handler at a time the service is the lifecycle of              *)
(* OrderLifecycle: an order that has all its goods stays so, goods arrive  *)
(* on one order at a time, and replacing lines moves none.                 *)

RowsFinite == \A o \in Orders : IsFiniteSet(Rows(o))

LEMMA GoodsOfRows ==
  ASSUME NEW o \in Orders, IsFiniteSet(Rows(o))
  PROVE  Goods[o] = SumFunctionOnSet(posted, Rows(o))
<1>. DEFINE f == [i \in Rows(o) |-> posted[i]]
<1>1. \A i \in Rows(o) : f[i] = posted[i]
  OBVIOUS
<1>2. DOMAIN f = Rows(o)
  OBVIOUS
<1>3. Goods[o] = SumFunction(f)
  BY DEF Goods
<1>. HIDE DEF f
<1>4. SumFunctionOnSet(f, Rows(o)) = SumFunctionOnSet(posted, Rows(o))
  BY <1>1, SumSame
<1>. QED  BY <1>2, <1>3, <1>4 DEF SumFunction

\* The same in the state after a step.
LEMMA GoodsOfRowsNext ==
  ASSUME NEW o \in Orders, IsFiniteSet(Rows(o)')
  PROVE  Goods'[o] = SumFunctionOnSet(posted', Rows(o)')
<1>. DEFINE f == [i \in Rows(o)' |-> posted'[i]]
<1>1. \A i \in Rows(o)' : f[i] = posted'[i]
  OBVIOUS
<1>2. DOMAIN f = Rows(o)'
  OBVIOUS
<1>3. Goods'[o] = SumFunction(f)
  BY DEF Goods
<1>. HIDE DEF f
<1>4. SumFunctionOnSet(f, Rows(o)') = SumFunctionOnSet(posted', Rows(o)')
  BY <1>1, SumSame
<1>. QED  BY <1>2, <1>3, <1>4 DEF SumFunction

LEMMA LifecycleInit == Init => RowsFinite /\ Promise!Init
<1>. SUFFICES ASSUME Init PROVE RowsFinite /\ Promise!Init
  OBVIOUS
<1>1. \A o \in Orders : Rows(o) = {}
  BY NoOrderIsNotAnOrder DEF Init, Rows
<1>2. RowsFinite
  BY <1>1, FS_EmptySet DEF RowsFinite
<1>3. \A o \in Orders : Goods[o] = 0
  BY <1>1, <1>2, GoodsOfRows, SumEmpty DEF RowsFinite
<1>4. Goods = [o \in Orders |-> 0]
  BY <1>3 DEF Goods
<1>. QED  BY <1>2, <1>4 DEF Init, Promise!Init

\* Steps that neither add rows nor post stock.
LEMMA NoGoods ==
  ASSUME RowsFinite, UNCHANGED <<owner, posted>>
  PROVE  RowsFinite' /\ UNCHANGED Goods
  BY DEF RowsFinite, Rows, Goods

\* New rows come without goods.
LEMMA NewRowsAreEmpty ==
  ASSUME POInv, Sequential, RowsFinite, NEW o \in Orders, NEW S \in SUBSET Items,
         NEW q \in [S -> Quantities], AddLines(o, S, q), UNCHANGED posted
  PROVE  RowsFinite' /\ UNCHANGED Goods
<1>1. /\ IsFiniteSet(S)
      /\ \A i \in S : owner[i] = NoOrder
      /\ owner' = [i \in Items |-> IF i \in S THEN o ELSE owner[i]]
  BY DEF AddLines
<1>2. Rows(o)' = Rows(o) \cup S /\ Rows(o) \cap S = {}
  BY <1>1, NoOrderIsNotAnOrder DEF Rows
<1>3. ASSUME NEW u \in Orders \ {o} PROVE Rows(u)' = Rows(u)
  BY <1>1, NoOrderIsNotAnOrder DEF Rows
<1>4. posted \in [Items -> Nat] /\ \A i \in S : posted[i] = 0
  BY <1>1, NoOrderIsNotAnOrder DEF Sequential, Untouched, POInv, POTypeOK
<1>5. IsFiniteSet(Rows(o))
  BY DEF RowsFinite
<1>6. /\ IsFiniteSet(Rows(o) \cup S)
      /\ SumFunctionOnSet(posted, Rows(o) \cup S) = SumFunctionOnSet(posted, Rows(o))
  <2>1. \A i \in Rows(o) \cup S : posted[i] \in Int
    BY <1>4 DEF Rows
  <2>2. SumFunctionOnSet(posted, S) = 0
    BY <1>1, <1>4, SumZero
  <2>3. SumFunctionOnSet(posted, Rows(o)) \in Int
    BY <1>5, <2>1, SumInt
  <2>4. /\ IsFiniteSet(Rows(o) \cup S)
        /\ SumFunctionOnSet(posted, Rows(o) \cup S)
             = SumFunctionOnSet(posted, Rows(o)) + SumFunctionOnSet(posted, S)
    <3>1. IsFiniteSet(S) /\ Rows(o) \cap S = {}
      BY <1>1, <1>2
    <3>. QED  BY <1>5, <2>1, <3>1, SumUnion
  <2>. QED  BY <2>2, <2>3, <2>4
<1>7. RowsFinite'
  BY <1>2, <1>3, <1>6 DEF RowsFinite
<1>8. Goods'[o] = Goods[o]
  <2>1. Goods[o] = SumFunctionOnSet(posted, Rows(o))
    BY <1>5, GoodsOfRows
  <2>2. Goods'[o] = SumFunctionOnSet(posted', Rows(o)')
    BY <1>7, GoodsOfRowsNext DEF RowsFinite
  <2>. QED  BY <1>2, <1>6, <2>1, <2>2
<1>9. ASSUME NEW u \in Orders \ {o} PROVE Goods'[u] = Goods[u]
  BY <1>3, <1>9 DEF Goods
<1>. QED  BY <1>7, <1>8, <1>9 DEF Goods

LEMMA CreatePromise ==
  ASSUME POInv, Sequential, RowsFinite, NEW o \in Orders, Create(o)
  PROVE  RowsFinite' /\ Promise!Next
<1>1. RowsFinite' /\ UNCHANGED Goods
  BY NewRowsAreEmpty DEF Create, receiptVars
<1>. QED  BY <1>1 DEF Create, Promise!Next, Promise!Create, Promise!Advance

LEMMA ChangePromise ==
  ASSUME POInv, Sequential, RowsFinite, NEW a \in Clerks, ChangeWrite(a)
  PROVE  RowsFinite' /\ Promise!Next
<1>. DEFINE o == job[a].po
<1>1. RowsFinite' /\ UNCHANGED Goods
  BY NoGoods DEF ChangeWrite, itemVars, receiptVars
<1>2. job[a].op \in Changes /\ status' = [status EXCEPT ![o] = To[job[a].op]]
  BY DEF ChangeWrite
<1>3. o \in Orders /\ status[o] \in From[job[a].op]
  BY <1>2, JobFields DEF Sequential, Fresh, UpToDate, ChangeJob, POInv
<1>4. \/ status[o] \in {"DRAFT"} /\ To[job[a].op] = "SUBMITTED"
      \/ status[o] \in {"PARTIALLY_RECEIVED", "RECEIVED"} /\ To[job[a].op] = "CLOSED"
      \/ status[o] \in {"DRAFT", "SUBMITTED"} /\ To[job[a].op] = "CANCELED"
  BY <1>2, <1>3 DEF Changes, From, To
<1>. HIDE DEF o
<1>5. Promise!Submit(o) \/ Promise!Close(o) \/ Promise!Cancel(o)
  BY <1>1, <1>2, <1>4 DEF Promise!Submit, Promise!Close, Promise!Cancel, Promise!Advance
<1>. QED  BY <1>1, <1>3, <1>5 DEF Promise!Next

LEMMA EditPromise ==
  ASSUME POInv, Sequential, RowsFinite, NEW a \in Clerks, EditCommit(a)
  PROVE  RowsFinite' /\ UNCHANGED Promise!orderVars
<1>1. job[a].po \in Orders
  BY JobFields DEF EditCommit, POInv, ReplaceJob
<1>2. RowsFinite' /\ UNCHANGED Goods
  BY <1>1, NewRowsAreEmpty DEF EditCommit, receiptVars
<1>. QED  BY <1>2 DEF EditCommit, Promise!orderVars

LEMMA ReceivePromise ==
  ASSUME POInv, Sequential, RowsFinite, NEW a \in Clerks, NEW S \in SUBSET Items,
         NEW got \in [S -> Quantities], ReceiveCommit(a, got)
  PROVE  RowsFinite' /\ Promise!Next
<1>. DEFINE j == job[a]
            o == job[a].po
<1>1. /\ j.op = "receive"
      /\ S # {} /\ S \subseteq j.lines \ deleted
      /\ posted' = [i \in Items |-> IF i \in S THEN posted[i] + got[i] ELSE posted[i]]
      /\ status' = [status EXCEPT ![o] = StatusAfter(j, got)]
      /\ UNCHANGED <<owner, deleted, ordered>>
  BY DEF ReceiveCommit, MovementQty, itemVars
<1>2. /\ o \in Orders /\ j.lines = Lines(o) /\ j.seen \in [Items -> Nat]
      /\ status[o] \notin {"NONE", "CLOSED", "CANCELED"}
      /\ \A i \in Lines(o) : j.seen[i] = received[i]
  BY <1>1, JobFields DEF Sequential, Fresh, UpToDate, ReceiveJob, POInv
<1>3. /\ posted \in [Items -> Nat] /\ ordered \in [Items -> Nat]
      /\ status[o] \in Statuses
      /\ \A i \in Lines(o) : i \in Items /\ i \in Rows(o)
  BY <1>2 DEF POInv, POTypeOK, Lines, Rows
<1>4. ASSUME NEW i \in S PROVE got[i] \in Nat /\ got[i] > 0
  <2>1. got[i] \in Quantities
    OBVIOUS
  <2>2. \A n \in Quantities : n \in Nat /\ n > 0
    BY OrderedIsPositive
  <2>. QED  BY <2>1, <2>2
<1>5. \A u \in Orders : Rows(u)' = Rows(u) /\ IsFiniteSet(Rows(u))
  BY <1>1 DEF Rows, RowsFinite
<1>6. RowsFinite'
  BY <1>5 DEF RowsFinite
<1>. HIDE DEF j, o
<1>7. Goods'[o] > Goods[o]
  <2>1. /\ Goods[o] = SumFunctionOnSet(posted, Rows(o))
        /\ Goods'[o] = SumFunctionOnSet(posted', Rows(o))
    BY <1>2, <1>5, <1>6, GoodsOfRows, GoodsOfRowsNext DEF RowsFinite
  <2>2. \A i \in Rows(o) : /\ posted[i] \in Int /\ posted'[i] \in Int
                            /\ posted[i] <= posted'[i]
    BY <1>1, <1>3, <1>4 DEF Rows
  <2>3. \E i \in Rows(o) : posted[i] < posted'[i]
    <3>1. PICK i \in S : i \in Lines(o)
      BY <1>1, <1>2
    <3>. QED  BY <1>1, <1>3, <1>4, <3>1
  <2>4. SumFunctionOnSet(posted, Rows(o)) < SumFunctionOnSet(posted', Rows(o))
    BY <1>2, <1>5, <2>2, <2>3, SumGrows
  <2>5. /\ SumFunctionOnSet(posted, Rows(o)) \in Int
        /\ SumFunctionOnSet(posted', Rows(o)) \in Int
    BY <1>2, <1>5, <2>2, SumInt
  <2>. QED  BY <2>1, <2>4, <2>5
<1>8. ASSUME NEW u \in Orders \ {o} PROVE Goods'[u] = Goods[u]
  <2>1. \A i \in Rows(u) : posted'[i] = posted[i]
    BY <1>1, <1>2, <1>3 DEF Rows
  <2>. QED  BY <1>5, <2>1, SumSame, GoodsOfRows, GoodsOfRowsNext, <1>6 DEF RowsFinite
<1>9. status[o] = "RECEIVED" => StatusAfter(j, got) = "RECEIVED"
  <2>. SUFFICES ASSUME status[o] = "RECEIVED", NEW i \in Lines(o)
                PROVE  NewReceived(j, got, i) >= ordered[i]
    BY <1>2 DEF StatusAfter
  <2>1. posted[i] >= ordered[i] /\ j.seen[i] = posted[i]
    BY <1>2, <1>3 DEF Sequential, CompletenessAccurate, ReceivedIsPosted
  <2>. QED  BY <1>3, <1>4, <2>1 DEF NewReceived
<1>10. Promise!Receive(o)
  BY <1>1, <1>2, <1>3, <1>7, <1>8, <1>9 DEF Promise!Receive, StatusAfter, Statuses
<1>. QED  BY <1>2, <1>6, <1>10 DEF Promise!Next

LEMMA LifecycleStep ==
  ASSUME OneAtATime
  PROVE  POInv /\ Sequential /\ RowsFinite /\ [Next]_vars =>
         RowsFinite' /\ [Promise!Next]_(Promise!orderVars)
<1>. SUFFICES ASSUME POInv, Sequential, RowsFinite, [Next]_vars
              PROVE  RowsFinite' /\ [Promise!Next]_(Promise!orderVars)
  OBVIOUS
<1>1. ASSUME UNCHANGED <<status, owner, posted>>
      PROVE  RowsFinite' /\ UNCHANGED Promise!orderVars
  BY <1>1, NoGoods DEF Promise!orderVars
<1>2. ASSUME NEW a \in Clerks,
             \/ \E o \in Orders : \/ \E op \in Changes : ChangeCheck(a, op, o)
                                  \/ EditCheck(a, o)
                                  \/ ReceiveCheck(a, o)
             \/ EditFind(a)
             \/ Forget(a)
      PROVE  UNCHANGED <<status, owner, posted>>
  BY <1>2 DEF ChangeCheck, EditCheck, ReceiveCheck, Read, EditFind, Forget, itemVars,
     receiptVars
<1>3. CASE UNCHANGED vars
  BY <1>1, <1>3 DEF vars, itemVars, receiptVars
<1>. QED
  BY <1>1, <1>2, <1>3, CreatePromise, ChangePromise, EditPromise, ReceivePromise
     DEF Next, ClerkStep

\* With one handler at a time every step is one of the lifecycle or none: CLOSED
\* and CANCELED are final, and goods arrive only while an order may receive.
THEOREM KeepsLifecycle == ASSUME OneAtATime PROVE Spec => KeepsPromise
<1>1. POInv /\ Sequential /\ RowsFinite /\ [Next]_vars =>
        RowsFinite' /\ [Promise!Next]_(Promise!orderVars)
  BY LifecycleStep
<1>2. Spec => [](POInv /\ Sequential)
  BY AllSequential
<1>. QED  BY LifecycleInit, <1>1, <1>2, PTL DEF Spec, KeepsPromise, Promise!Spec
=============================================================================
