--------------------------- MODULE PurchaseOrders ---------------------------
(***************************************************************************)
(* Purchase orders, purchase-orders.service.ts.                            *)
(*                                                                         *)
(* Every handler but create reads the order outside any transaction,       *)
(* checks its status, and later writes by id what it computed from that    *)
(* read: job[a] is what the handler of clerk a has read.  The writes run   *)
(* at READ COMMITTED and lock the rows they write, so the commit of a      *)
(* handler is one step.                                                    *)
(***************************************************************************)
EXTENDS Integers, FiniteSets, Functions

CONSTANTS
    Orders, NoOrder,
    Items,          \* ids of POItem rows, never used twice
    Clerks,         \* request handlers on the purchase-order endpoints
    Quantities,     \* ordered and received quantities of requests
    MaxLines,       \* bound: lines of one create or update request
    MaxPosted       \* bound: units received on one line

\* create-po.dto.ts, receive-po.dto.ts: @IsInt @IsPositive.
ASSUME OrderedIsPositive == Quantities \subseteq Nat \ {0}
ASSUME NoOrderIsNotAnOrder == NoOrder \notin Orders

VARIABLES
    status,     \* PurchaseOrder.status, "NONE" before create
    owner,      \* POItem.poId, kept for deleted rows; NoOrder: not created yet
    deleted,    \* POItem rows that an update has deleted
    ordered,    \* POItem.orderedQuantity
    received,   \* POItem.receivedQuantity
    total,      \* the lines whose price PurchaseOrder.totalAmount sums
    posted,     \* SUM(quantity) of the RECEIVE movements posted for each line
    job         \* what each clerk's handler has read

itemVars == <<owner, deleted, ordered, total>>
receiptVars == <<received, posted>>
vars == <<status, itemVars, receiptVars, job>>

Statuses == {"DRAFT", "SUBMITTED", "PARTIALLY_RECEIVED", "RECEIVED", "CLOSED",
             "CANCELED"}

\* The status changes that write nothing else: from, checked; to, written.
Changes == {"submit", "close", "cancel"}
From == [submit |-> {"DRAFT"},
         close  |-> {"RECEIVED", "PARTIALLY_RECEIVED"},
         cancel |-> {"DRAFT", "SUBMITTED"}]
\* mutant: a status the column does not have
ToMisspelled == [submit |-> "SUBMITTED", close |-> "CLOSED",
                 cancel |-> "CANCELLED"]
To == [submit |-> "SUBMITTED", close |-> "CLOSED", cancel |-> "CANCELED"]

Resting == [op |-> "resting"]
ChangeJob  == [op : Changes, po : Orders]
EditJob    == [op : {"edit"}, po : Orders]
ReplaceJob == [op : {"replace"}, po : Orders, old : SUBSET Items]
ReceiveJob == [op : {"receive"}, po : Orders, lines : SUBSET Items,
               seen : [Items -> Nat]]

POTypeOK ==
    /\ status \in [Orders -> Statuses \cup {"NONE"}]
    /\ owner \in [Items -> Orders \cup {NoOrder}]
    /\ deleted \in SUBSET Items
    /\ ordered \in [Items -> Nat]
    /\ received \in [Items -> Nat]
    /\ total \in [Orders -> SUBSET Items]
    /\ posted \in [Items -> Nat]
    /\ job \in [Clerks -> ChangeJob \cup EditJob \cup ReplaceJob \cup ReceiveJob
                          \cup {Resting}]

Init ==
    /\ status = [o \in Orders |-> "NONE"]
    /\ owner = [i \in Items |-> NoOrder]
    /\ deleted = {}
    /\ ordered = [i \in Items |-> 0]
    /\ received = [i \in Items |-> 0]
    /\ total = [o \in Orders |-> {}]
    /\ posted = [i \in Items |-> 0]
    /\ job = [a \in Clerks |-> Resting]

Lines(o) == {i \in Items : owner[i] = o} \ deleted

\* mutant: the new prices are added to the old total
AddToTotal(o, S, q) ==
    /\ S # {}
    /\ IsFiniteSet(S) /\ Cardinality(S) <= MaxLines
    /\ \A i \in S : owner[i] = NoOrder
    /\ owner' = [i \in Items |-> IF i \in S THEN o ELSE owner[i]]
    /\ ordered' = [i \in Items |-> IF i \in S THEN q[i] ELSE ordered[i]]
    /\ total' = [total EXCEPT ![o] = @ \cup S]

\* mutant: update-po.dto.ts without @ArrayMinSize(1)
AddAnyLines(o, S, q) ==
    /\ IsFiniteSet(S) /\ Cardinality(S) <= MaxLines
    /\ \A i \in S : owner[i] = NoOrder
    /\ owner' = [i \in Items |-> IF i \in S THEN o ELSE owner[i]]
    /\ ordered' = [i \in Items |-> IF i \in S THEN q[i] ELSE ordered[i]]
    /\ total' = [total EXCEPT ![o] = S]

\* New rows S for order o, q[i] units of each; computeTotal sums exactly them.
AddLines(o, S, q) ==
    /\ S # {}
    /\ IsFiniteSet(S) /\ Cardinality(S) <= MaxLines
    /\ \A i \in S : owner[i] = NoOrder
    /\ owner' = [i \in Items |-> IF i \in S THEN o ELSE owner[i]]
    /\ ordered' = [i \in Items |-> IF i \in S THEN q[i] ELSE ordered[i]]
    /\ total' = [total EXCEPT ![o] = S]

-----------------------------------------------------------------------------
Create(o) ==
    /\ status[o] = "NONE"
    /\ \E S \in SUBSET Items : \E q \in [S -> Quantities] : AddLines(o, S, q)
    /\ status' = [status EXCEPT ![o] = "DRAFT"]
    /\ UNCHANGED <<deleted, receiptVars, job>>

Read(a, j) ==
    /\ job[a] = Resting
    /\ job' = [job EXCEPT ![a] = j]
    /\ UNCHANGED <<status, itemVars, receiptVars>>

Done(a) == job' = [job EXCEPT ![a] = Resting]

\* submit, close, cancel.
ChangeCheck(a, op, o) ==
    /\ status[o] \in From[op]
    /\ Read(a, [op |-> op, po |-> o])

ChangeWrite(a) ==
    /\ job[a].op \in Changes
    /\ status' = [status EXCEPT ![job[a].po] = To[job[a].op]]
    /\ Done(a)
    /\ UNCHANGED <<itemVars, receiptVars>>

\* update, when it replaces the lines.
EditAny(a, o) == Read(a, [op |-> "edit", po |-> o])   \* mutant: no check
EditCheck(a, o) ==
    /\ status[o] = "DRAFT"
    /\ Read(a, [op |-> "edit", po |-> o])

\* deleteMany finds the rows that are there when its statement starts: if
\* another update holds them it waits, and does not see the rows that one adds.
EditFind(a) ==
    /\ job[a].op = "edit"
    /\ job' = [job EXCEPT ![a] = [op |-> "replace", po |-> job[a].po,
                                  old |-> Lines(job[a].po)]]
    /\ UNCHANGED <<status, itemVars, receiptVars>>

EditCommit(a) ==
    /\ job[a].op = "replace"
    /\ \E S \in SUBSET Items : \E q \in [S -> Quantities] :
          AddLines(job[a].po, S, q)
    /\ deleted' = deleted \cup job[a].old
    /\ Done(a)
    /\ UNCHANGED <<status, receiptVars>>

\* mutant: CANCELED not rejected
ReceiveUnlessClosed(a, o) ==
    /\ status[o] \notin {"NONE", "CLOSED"}
    /\ Read(a, [op |-> "receive", po |-> o, lines |-> Lines(o),
                seen |-> [i \in Items |-> IF i \in Lines(o) THEN received[i]
                                          ELSE 0]])

ReceiveCheck(a, o) ==
    /\ status[o] \notin {"NONE", "CLOSED", "CANCELED"}
    /\ Read(a, [op |-> "receive", po |-> o, lines |-> Lines(o),
                seen |-> [i \in Items |-> IF i \in Lines(o) THEN received[i]
                                          ELSE 0]])

\* got[i] units arrive of each delivered line i.
NewReceived(j, got, i) ==
    IF i \in DOMAIN got THEN j.seen[i] + got[i] ELSE j.seen[i]

\* mutant: the movement posts the running total of the line
TotalPosted(j, got, i) == NewReceived(j, got, i)
\* mutant: no more stock is posted than was still missing
MissingPosted(j, got, i) ==
    IF NewReceived(j, got, i) <= ordered[i] THEN got[i]
    ELSE IF j.seen[i] < ordered[i] THEN ordered[i] - j.seen[i] ELSE 0

\* The quantity of the RECEIVE movement of line i.
MovementQty(j, got, i) == got[i]

\* mutant: the update is not reflected locally before the check
StatusBefore(j, got) ==
    IF \A i \in j.lines : j.seen[i] >= ordered[i] THEN "RECEIVED"
    ELSE "PARTIALLY_RECEIVED"

\* A delivery has at least one unit, so the status that was read, the third
\* outcome of the code, is never written back.
StatusAfter(j, got) ==
    IF \A i \in j.lines : NewReceived(j, got, i) >= ordered[i] THEN "RECEIVED"
    ELSE "PARTIALLY_RECEIVED"

\* receivedQuantity is written absolutely, from the read; the movements add up.
\* A line deleted since then fails its update and with it the transaction.
ReceiveCommit(a, got) ==
    LET j == job[a]
        S == DOMAIN got
    IN  /\ j.op = "receive"
        /\ S # {} /\ S \subseteq j.lines \ deleted
        /\ \A i \in S : posted[i] + got[i] <= MaxPosted
        /\ received' = [i \in Items |-> IF i \in S THEN NewReceived(j, got, i)
                                        ELSE received[i]]
        /\ posted' = [i \in Items |-> IF i \in S
                                      THEN posted[i] + MovementQty(j, got, i)
                                      ELSE posted[i]]
        /\ status' = [status EXCEPT ![j.po] = StatusAfter(j, got)]
        /\ Done(a)
        /\ UNCHANGED itemVars

\* The handler fails after its read (error, rolled-back transaction, crash).
Forget(a) ==
    /\ job[a] # Resting
    /\ Done(a)
    /\ UNCHANGED <<status, itemVars, receiptVars>>

ClerkStep(a) ==
    \/ \E o \in Orders : \/ \E op \in Changes : ChangeCheck(a, op, o)
                         \/ EditCheck(a, o)
                         \/ ReceiveCheck(a, o)
    \/ ChangeWrite(a)
    \/ EditFind(a)
    \/ EditCommit(a)
    \/ \E S \in SUBSET Items : \E got \in [S -> Quantities] :
          ReceiveCommit(a, got)
    \/ Forget(a)

Next == (\E o \in Orders : Create(o)) \/ \E a \in Clerks : ClerkStep(a)

Spec == Init /\ [][Next]_vars

-----------------------------------------------------------------------------
(* Properties.                                                             *)

\* However receipts race, an order never claims more of a line than stock got:
\* receivedQuantity is at most what RECEIVE movements posted for the line.
NeverOverstated == \A i \in Items : received[i] <= posted[i]

\* An order keeps at least one line through every race of updates: with none the
\* completeness check of receive would hold vacuously.
NeverWithoutLines == \A o \in Orders : status[o] # "NONE" => Lines(o) # {}

\* With one handler at a time receivedQuantity is exactly the stock posted, and
\* no stock was ever posted for a line that an update has deleted.
ReceivedIsPosted ==
    \A i \in Items : /\ received[i] = posted[i]
                     /\ i \in deleted => posted[i] = 0

\* purchase-orders.service.ts:228 "so the completeness check below is accurate":
\* RECEIVED says that every line is in stock in full, PARTIALLY_RECEIVED that
\* some goods are in and some are missing.
CompletenessAccurate ==
    \A o \in Orders :
        LET full(i) == posted[i] >= ordered[i]
        IN  /\ status[o] = "RECEIVED" => \A i \in Lines(o) : full(i)
            /\ status[o] = "PARTIALLY_RECEIVED" =>
                  /\ \E i \in Lines(o) : ~full(i)
                  /\ \E i \in Lines(o) : posted[i] > 0

\* purchase-orders.service.ts:125 "Replacing the lines recomputes the total":
\* totalAmount is the sum over the lines the order has.
TotalMatchesLines == \A o \in Orders : total[o] = Lines(o)

\* purchase-orders.service.ts:115 "only DRAFT orders can be edited".
OnlyDraftsEdited ==
    [][\A o \in Orders : status[o] # "DRAFT" /\ status[o] # "NONE"
                         => Lines(o)' = Lines(o)]_vars

\* All stock posted for the order, whatever became of its lines.
Rows(o) == {i \in Items : owner[i] = o}
Goods == [o \in Orders |-> SumFunction([i \in Rows(o) |-> posted[i]])]

\* README "Purchase-order lifecycle": what the service does when its handlers do
\* not overlap is the lifecycle drawn there, with receipts on a draft as well; in
\* particular CLOSED and CANCELED are final.
Promise == INSTANCE OrderLifecycle WITH
    MayReceive <- {"DRAFT", "SUBMITTED", "PARTIALLY_RECEIVED", "RECEIVED"},
    goods <- Goods
KeepsPromise == Promise!Spec
=============================================================================
