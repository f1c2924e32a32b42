------------------------- MODULE SupplierPerformance -------------------------
(***************************************************************************)
(* The delivery record of a supplier, getPerformance of                    *)
(* suppliers.service.ts, over purchase orders that carry dates: when they  *)
(* are expected and when the service stamped them received.  The orders    *)
(* are those of PurchaseOrders, all of one supplier; every step here is a  *)
(* step of that module, with what it does to the dates.                    *)
(***************************************************************************)
EXTENDS PurchaseOrders

CONSTANTS
    Dates,      \* dates an order may be expected by
    MaxDay      \* bound: days that pass

NoDate == 0     \* expectedDelivery or receivedAt null

ASSUME DatesAreDays == MaxDay \in Nat /\ Dates \subseteq 1 .. MaxDay

VARIABLES
    today,
    expected,   \* PurchaseOrder.expectedDelivery
    receivedAt, \* PurchaseOrder.receivedAt
    arrival     \* ghost: the day goods last arrived on the order

dateVars == <<expected, receivedAt, arrival>>
perfVars == <<vars, today, dateVars>>

PerfInit ==
    /\ Init
    /\ today = 1
    /\ expected = [o \in Orders |-> NoDate]
    /\ receivedAt = [o \in Orders |-> NoDate]
    /\ arrival = [o \in Orders |-> NoDate]

-----------------------------------------------------------------------------
CreateDated(o, d) ==
    /\ Create(o)
    /\ expected' = [expected EXCEPT ![o] = d]
    /\ UNCHANGED <<receivedAt, arrival, today>>

\* A request may leave the date out; none can set it back to null.
SetDate(o) == /\ \E d \in Dates \cup {expected[o]} :
                    expected' = [expected EXCEPT ![o] = d]
              /\ UNCHANGED <<receivedAt, arrival, today>>

\* update replaces the lines, the date or both.
EditLines(a) == EditCommit(a) /\ SetDate(job[a].po)

EditDate(a) ==
    /\ job[a].op = "edit"
    /\ Forget(a)
    /\ SetDate(job[a].po)

\* mutant: stamped by the first delivery that completes the order only
StampOnce(o) == IF status'[o] = "RECEIVED" /\ receivedAt[o] = NoDate
                THEN today ELSE receivedAt[o]

\* mutant: stamped by every delivery
StampAlways(o) == today

\* A delivery that leaves the order fully received stamps it, also again; one
\* that does not leaves the column alone (Prisma: undefined).
Stamp(o) == IF status'[o] = "RECEIVED" THEN today ELSE receivedAt[o]

ReceiveDated(a, got) ==
    /\ ReceiveCommit(a, got)
    /\ receivedAt' = [receivedAt EXCEPT ![job[a].po] = Stamp(job[a].po)]
    /\ arrival' = [arrival EXCEPT ![job[a].po] = today]
    /\ UNCHANGED <<expected, today>>

\* Everything else that a handler does leaves the dates alone.
Undated(a) ==
    /\ \/ \E o \in Orders : \/ \E op \in Changes : ChangeCheck(a, op, o)
                            \/ EditCheck(a, o)
                            \/ ReceiveCheck(a, o)
       \/ ChangeWrite(a)
       \/ EditFind(a)
       \/ Forget(a)
    /\ UNCHANGED <<dateVars, today>>

DayPasses ==
    /\ today < MaxDay
    /\ today' = today + 1
    /\ UNCHANGED <<vars, dateVars>>

DatedStep(a) ==
    \/ EditLines(a)
    \/ EditDate(a)
    \/ \E S \in SUBSET Items : \E got \in [S -> Quantities] : ReceiveDated(a, got)
    \/ Undated(a)

PerfNext ==
    \/ \E o \in Orders, d \in Dates \cup {NoDate} : CreateDated(o, d)
    \/ \E a \in Clerks : DatedStep(a)
    \/ DayPasses

PerfSpec == PerfInit /\ [][PerfNext]_perfVars

-----------------------------------------------------------------------------
(* getPerformance.                                                         *)

receivedOrders == {o \in Orders : /\ status[o] \in {"RECEIVED", "CLOSED"}
                                  /\ receivedAt[o] # NoDate}
measurable == {o \in receivedOrders : expected[o] # NoDate}
onTime == {o \in measurable : receivedAt[o] <= expected[o]}

\* The rate is onTimePos / measurablePos, null when that is 0.
Performance == [receivedPos |-> Cardinality(receivedOrders),
                measurablePos |-> Cardinality(measurable),
                onTimePos |-> Cardinality(onTime)]

-----------------------------------------------------------------------------
(* Properties.                                                             *)

\* suppliers.service.ts:187 "orders that have actually been received": when
\* handlers do not overlap, exactly the orders that ended, or rest, with all
\* their lines in stock are measured, not those closed with goods missing; and
\* one is on time when the last of its goods came by the expected day, so goods
\* beyond what was ordered that come late make the order late.
PerformanceAccurate ==
    LET full == {o \in Orders :
                    /\ status[o] \in {"RECEIVED", "CLOSED"}
                    /\ \A i \in Lines(o) : posted[i] >= ordered[i]}
        dated == {o \in full : expected[o] # NoDate}
    IN  Performance = [receivedPos |-> Cardinality(full),
                       measurablePos |-> Cardinality(dated),
                       onTimePos |-> Cardinality({o \in dated :
                                        arrival[o] <= expected[o]})]
=============================================================================
