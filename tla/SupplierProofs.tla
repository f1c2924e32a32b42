--------------------------- MODULE SupplierProofs ---------------------------
(***************************************************************************)
(* The delivery record of a supplier is that of the goods, for any number  *)
(* of orders, lines and days, when handlers do not overlap.                *)
(*                                                                         *)
(* receivedAt is set exactly when an order has all its goods and rests or  *)
(* ended with them (StampedWhenFull): goods never go, so such an order     *)
(* stays complete, and one closed with goods missing was never complete.   *)
(* What is stamped is the day of the last delivery (StampIsArrival).       *)
(***************************************************************************)
EXTENDS SupplierPerformance, PurchaseOrderProofs

Full(o) == /\ status[o] \in {"RECEIVED", "CLOSED"}
           /\ \A i \in Lines(o) : posted[i] >= ordered[i]

StampedWhenFull == \A o \in Orders : receivedAt[o] # NoDate <=> Full(o)

StampIsArrival ==
    \A o \in Orders : receivedAt[o] # NoDate => receivedAt[o] = arrival[o]

DatesTypeOK == /\ today \in Nat \ {0}
               /\ receivedAt \in [Orders -> Nat]
               /\ arrival \in [Orders -> Nat]

PerfInv == POInv /\ Sequential /\ DatesTypeOK /\ StampedWhenFull /\ StampIsArrival

LEMMA PerfStart == PerfInit => PerfInv
<1>. SUFFICES ASSUME PerfInit PROVE PerfInv
  OBVIOUS
<1>1. POInv /\ Sequential
  BY POInit, SequentialInit DEF PerfInit
<1>2. DatesTypeOK /\ StampedWhenFull /\ StampIsArrival
  BY DEF PerfInit, Init, DatesTypeOK, StampedWhenFull, StampIsArrival, Full, NoDate
<1>. QED  BY <1>1, <1>2 DEF PerfInv

-----------------------------------------------------------------------------
(* Orders that the step of a handler completes or leaves complete.         *)

\* A step that writes lines of order o, a draft after it, completes no order.
LEMMA DraftingKeepsFull ==
  ASSUME POInv, NEW o \in Orders, NEW S \in SUBSET Items,
         NEW q \in [S -> Quantities], AddLines(o, S, q),
         NEW D \in SUBSET Items, \A i \in D : owner[i] = o,
         deleted' = deleted \cup D,
         status[o] \in {"NONE", "DRAFT"},
         status' = [status EXCEPT ![o] = "DRAFT"],
         UNCHANGED receiptVars
  PROVE  \A u \in Orders : Full(u)' <=> Full(u)
<1>. SUFFICES ASSUME NEW u \in Orders PROVE Full(u)' <=> Full(u)
  OBVIOUS
<1>1. posted' = posted /\ status \in [Orders -> Statuses \cup {"NONE"}]
  BY DEF receiptVars, POInv, POTypeOK
<1>2. CASE u = o
  BY <1>1, <1>2 DEF Full
<1>3. CASE u # o
  <2>1. Lines(u)' = Lines(u) /\ \A i \in Lines(u) : ordered'[i] = ordered[i]
    <3>1. \A i \in Lines(u) : i \in Items
      BY DEF Lines
    <3>. QED  BY <1>3, <3>1, LinesAfter
  <2>2. status'[u] = status[u]
    BY <1>1, <1>3
  <2>. QED  BY <1>1, <2>1, <2>2 DEF Full
<1>. QED  BY <1>2, <1>3

LEMMA CreateKeepsFull ==
  ASSUME POInv, NEW o \in Orders, Create(o)
  PROVE  \A u \in Orders : Full(u)' <=> Full(u)
<1>. PICK S \in SUBSET Items : \E q \in [S -> Quantities] : AddLines(o, S, q)
  BY DEF Create
<1>. PICK q \in [S -> Quantities] : AddLines(o, S, q)
  OBVIOUS
<1>1. deleted' = deleted \cup {}
  BY DEF Create
<1>2. /\ status[o] \in {"NONE", "DRAFT"}
      /\ status' = [status EXCEPT ![o] = "DRAFT"]
      /\ UNCHANGED receiptVars
  BY DEF Create
<1>3. {} \in SUBSET Items /\ \A i \in {} : owner[i] = o
  OBVIOUS
<1>. QED  BY <1>1, <1>2, <1>3, DraftingKeepsFull

LEMMA EditKeepsFull ==
  ASSUME PerfInv, NEW a \in Clerks, EditCommit(a)
  PROVE  \A u \in Orders : Full(u)' <=> Full(u)
<1>. DEFINE o == job[a].po
<1>0. POTypeOK
  BY DEF PerfInv, POInv
<1>1. /\ job[a].op = "replace"
      /\ deleted' = deleted \cup job[a].old
      /\ UNCHANGED <<status, receiptVars>>
  BY DEF EditCommit
<1>2. o \in Orders /\ status[o] = "DRAFT" /\ job[a].old = Lines(o)
  BY <1>0, <1>1, JobFields DEF PerfInv, Sequential, Fresh, UpToDate, ReplaceJob
<1>. PICK S \in SUBSET Items : \E q \in [S -> Quantities] : AddLines(o, S, q)
  BY DEF EditCommit
<1>. PICK q \in [S -> Quantities] : AddLines(o, S, q)
  OBVIOUS
<1>. HIDE DEF o
<1>3. status' = [status EXCEPT ![o] = "DRAFT"]
  BY <1>0, <1>1, <1>2 DEF POTypeOK
<1>4. Lines(o) \in SUBSET Items /\ \A i \in Lines(o) : owner[i] = o
  BY DEF Lines
<1>. QED  BY <1>1, <1>2, <1>3, <1>4, DraftingKeepsFull DEF PerfInv

\* An order closed short was short before; one closed complete was complete.
LEMMA ChangeKeepsFull ==
  ASSUME PerfInv, NEW a \in Clerks, ChangeWrite(a)
  PROVE  \A u \in Orders : Full(u)' <=> Full(u)
<1>. DEFINE po == job[a].po
            new == To[job[a].op]
<1>0. POTypeOK
  BY DEF PerfInv, POInv
<1>1. /\ job[a].op \in Changes
      /\ status' = [status EXCEPT ![po] = new]
      /\ UNCHANGED <<owner, deleted, ordered, posted>>
  BY DEF ChangeWrite, itemVars, receiptVars
<1>2. po \in Orders /\ status[po] \in From[job[a].op]
  BY <1>0, <1>1, JobFields DEF PerfInv, Sequential, Fresh, UpToDate, ChangeJob
<1>3. \/ status[po] \in {"DRAFT", "SUBMITTED"} /\ new \in {"SUBMITTED", "CANCELED"}
      \/ status[po] \in {"RECEIVED", "PARTIALLY_RECEIVED"} /\ new = "CLOSED"
  BY <1>1, <1>2 DEF Changes, From, To
<1>4. /\ status'[po] = new
      /\ \A u \in Orders \ {po} : status'[u] = status[u]
  BY <1>0, <1>1, <1>2 DEF POTypeOK
<1>. HIDE DEF po, new
<1>5. \A u \in Orders : Lines(u)' = Lines(u)
  BY <1>1 DEF Lines
<1>6. status[po] = "PARTIALLY_RECEIVED" =>
        \E i \in Lines(po) : ~(posted[i] >= ordered[i])
  BY <1>2 DEF PerfInv, Sequential, CompletenessAccurate
<1>. SUFFICES ASSUME NEW u \in Orders PROVE Full(u)' <=> Full(u)
  OBVIOUS
<1>7. CASE u = po
  BY <1>1, <1>3, <1>4, <1>5, <1>6, <1>7 DEF Full
<1>8. CASE u # po
  BY <1>1, <1>4, <1>5, <1>8 DEF Full
<1>. QED  BY <1>7, <1>8

\* A delivery touches one order, and completes it exactly when it says so; an
\* order that was complete stays so.
LEMMA ReceiveFull ==
  ASSUME OneAtATime, PerfInv, NEW a \in Clerks, NEW S \in SUBSET Items,
         NEW got \in [S -> Quantities], ReceiveCommit(a, got),
         NEW o \in Orders, o = job[a].po
  PROVE  /\ status'[o] \in {"RECEIVED", "PARTIALLY_RECEIVED"}
         /\ Full(o)' <=> status'[o] = "RECEIVED"
         /\ Full(o) => Full(o)'
         /\ \A u \in Orders \ {o} : Full(u)' <=> Full(u)
<1>0. POTypeOK /\ POInv /\ Sequential
  BY DEF PerfInv, POInv
<1>1. /\ job[a].op = "receive"
      /\ S \subseteq job[a].lines
      /\ posted' = [i \in Items |-> IF i \in S THEN posted[i] + got[i]
                                    ELSE posted[i]]
      /\ status' = [status EXCEPT ![o] = StatusAfter(job[a], got)]
      /\ UNCHANGED <<owner, deleted, ordered>>
  BY DEF ReceiveCommit, MovementQty, itemVars
<1>2. job[a].lines = Lines(o)
  BY <1>0, <1>1, JobFields DEF Sequential, Fresh, UpToDate, ReceiveJob
<1>3. StatusAfter(job[a], got) \in {"RECEIVED", "PARTIALLY_RECEIVED"}
  BY DEF StatusAfter
<1>4. /\ status'[o] \in {"RECEIVED", "PARTIALLY_RECEIVED"}
      /\ \A u \in Orders \ {o} : status'[u] = status[u]
  BY <1>0, <1>1, <1>2, <1>3 DEF POTypeOK
<1>5. \A u \in Orders : Lines(u)' = Lines(u)
  BY <1>1 DEF Lines
<1>6. CompletenessAccurate'
  BY <1>0, ReceiveCommitQuiet DEF Sequential
<1>7. Full(o)' <=> status'[o] = "RECEIVED"
  <2>1. CASE status'[o] = "RECEIVED"
    BY <1>6, <2>1 DEF Full, CompletenessAccurate
  <2>2. CASE status'[o] = "PARTIALLY_RECEIVED"
    BY <2>2 DEF Full
  <2>. QED  BY <1>4, <2>1, <2>2
<1>8. Full(o) => Full(o)'
  <2>1. \A i \in Lines(o) : /\ posted[i] \in Nat /\ posted'[i] \in Nat
                            /\ ordered[i] \in Nat /\ posted'[i] >= posted[i]
    <3>. SUFFICES ASSUME NEW i \in Items
                  PROVE  /\ posted[i] \in Nat /\ posted'[i] \in Nat
                         /\ ordered[i] \in Nat /\ posted'[i] >= posted[i]
      BY DEF Lines
    <3>1. i \in S => got[i] \in Nat
      BY OrderedIsPositive
    <3>. QED  BY <1>0, <1>1, <3>1 DEF POTypeOK
  <2>2. ASSUME Full(o) PROVE \A i \in Lines(o) : posted'[i] >= ordered[i]
    BY <2>1, <2>2 DEF Full
  <2>3. status'[o] = "PARTIALLY_RECEIVED" =>
          \E i \in Lines(o) : ~(posted'[i] >= ordered[i])
    BY <1>1, <1>2, <1>5, <1>6 DEF CompletenessAccurate
  <2>. QED  BY <1>4, <1>7, <2>2, <2>3
<1>9. ASSUME NEW u \in Orders \ {o} PROVE Full(u)' <=> Full(u)
  <2>1. \A i \in Lines(u) : posted'[i] = posted[i]
    BY <1>1, <1>2 DEF Lines
  <2>. QED  BY <1>1, <1>4, <1>5, <2>1 DEF Full
<1>. QED  BY <1>4, <1>7, <1>8, <1>9

-----------------------------------------------------------------------------
(* The dates.                                                              *)

\* A step that completes no order, leaves none incomplete and stamps none.
LEMMA UnstampedStep ==
  ASSUME PerfInv, \A u \in Orders : Full(u)' <=> Full(u),
         UNCHANGED <<receivedAt, arrival>>, today' \in Nat \ {0}
  PROVE  DatesTypeOK' /\ StampedWhenFull' /\ StampIsArrival'
BY DEF PerfInv, DatesTypeOK, StampedWhenFull, StampIsArrival

\* Only a write of a handler changes what Full reads.
LEMMA QuietKeepsFull ==
  ASSUME UNCHANGED <<status, owner, deleted, ordered, posted>>
  PROVE  \A u \in Orders : Full(u)' <=> Full(u)
BY DEF Full, Lines

LEMMA ReceiveDatedStep ==
  ASSUME OneAtATime, PerfInv, NEW a \in Clerks, NEW S \in SUBSET Items,
         NEW got \in [S -> Quantities], ReceiveDated(a, got)
  PROVE  DatesTypeOK' /\ StampedWhenFull' /\ StampIsArrival'
<1>1. ReceiveCommit(a, got)
  BY DEF ReceiveDated
<1>2. job[a].po \in Orders
  BY <1>1, JobFields DEF PerfInv, POInv, ReceiveCommit, ReceiveJob
<1>. PICK o \in Orders : o = job[a].po
  BY <1>2
<1>3. /\ status'[o] \in {"RECEIVED", "PARTIALLY_RECEIVED"}
      /\ Full(o)' <=> status'[o] = "RECEIVED"
      /\ Full(o) => Full(o)'
      /\ \A u \in Orders \ {o} : Full(u)' <=> Full(u)
  BY <1>1, ReceiveFull
<1>4. /\ receivedAt' = [receivedAt EXCEPT ![o] = Stamp(o)]
      /\ arrival' = [arrival EXCEPT ![o] = today]
      /\ today' = today
  BY DEF ReceiveDated
<1>5. /\ today \in Nat /\ today # 0
      /\ receivedAt \in [Orders -> Nat] /\ arrival \in [Orders -> Nat]
  BY DEF PerfInv, DatesTypeOK
<1>6. Stamp(o) = IF status'[o] = "RECEIVED" THEN today ELSE receivedAt[o]
  BY DEF Stamp
<1>7. /\ receivedAt'[o] = IF status'[o] = "RECEIVED" THEN today ELSE receivedAt[o]
      /\ arrival'[o] = today
      /\ \A u \in Orders \ {o} : /\ receivedAt'[u] = receivedAt[u]
                                 /\ arrival'[u] = arrival[u]
  BY <1>4, <1>5, <1>6
<1>8. ~Full(o)' => receivedAt[o] = NoDate
  BY <1>3 DEF PerfInv, StampedWhenFull
<1>9. DatesTypeOK'
  BY <1>4, <1>5, <1>6 DEF DatesTypeOK
<1>10. StampedWhenFull'
  BY <1>3, <1>5, <1>7, <1>8 DEF PerfInv, StampedWhenFull, NoDate
<1>11. StampIsArrival'
  BY <1>3, <1>7, <1>8 DEF PerfInv, StampIsArrival
<1>. QED  BY <1>9, <1>10, <1>11

LEMMA PerfSteps == PerfNext => [Next]_vars
<1>. SUFFICES ASSUME PerfNext PROVE [Next]_vars
  OBVIOUS
<1>1. ASSUME NEW a \in Clerks, DatedStep(a) PROVE ClerkStep(a)
  BY <1>1 DEF DatedStep, EditLines, EditDate, ReceiveDated, Undated, ClerkStep,
              Forget, Resting
<1>2. ASSUME NEW o \in Orders, NEW d, CreateDated(o, d) PROVE Create(o)
  BY <1>2 DEF CreateDated
<1>3. DayPasses => UNCHANGED vars
  BY DEF DayPasses
<1>. QED  BY <1>1, <1>2, <1>3 DEF PerfNext, Next

LEMMA DatesStep ==
  ASSUME OneAtATime, PerfInv, [PerfNext]_perfVars
  PROVE  DatesTypeOK' /\ StampedWhenFull' /\ StampIsArrival'
<1>0. /\ POInv
      /\ today \in Nat /\ today # 0 /\ today + 1 \in Nat \ {0}
  BY DEF PerfInv, DatesTypeOK
<1>1. ASSUME NEW o \in Orders, NEW d, CreateDated(o, d)
      PROVE  DatesTypeOK' /\ StampedWhenFull' /\ StampIsArrival'
  BY <1>0, <1>1, CreateKeepsFull, UnstampedStep DEF CreateDated
<1>2. ASSUME NEW a \in Clerks, EditLines(a)
      PROVE  DatesTypeOK' /\ StampedWhenFull' /\ StampIsArrival'
  BY <1>0, <1>2, EditKeepsFull, UnstampedStep DEF EditLines, SetDate
<1>3. ASSUME NEW a \in Clerks, EditDate(a)
      PROVE  DatesTypeOK' /\ StampedWhenFull' /\ StampIsArrival'
  BY <1>0, <1>3, QuietKeepsFull, UnstampedStep
     DEF EditDate, SetDate, Forget, itemVars, receiptVars
<1>4. ASSUME NEW a \in Clerks, Undated(a)
      PROVE  DatesTypeOK' /\ StampedWhenFull' /\ StampIsArrival'
  <2>1. UNCHANGED <<receivedAt, arrival, today>>
    BY <1>4 DEF Undated, dateVars
  <2>2. CASE ChangeWrite(a)
    BY <1>0, <2>1, <2>2, ChangeKeepsFull, UnstampedStep
  <2>3. CASE ~ChangeWrite(a)
    <3>1. UNCHANGED <<status, itemVars, receiptVars>>
      BY <1>4, <2>3 DEF Undated, ChangeCheck, EditCheck, ReceiveCheck, Read,
                        EditFind, Forget
    <3>. QED  BY <1>0, <2>1, <3>1, QuietKeepsFull, UnstampedStep
              DEF itemVars, receiptVars
  <2>. QED  BY <2>2, <2>3
<1>5. CASE DayPasses
  BY <1>0, <1>5, QuietKeepsFull, UnstampedStep
     DEF DayPasses, dateVars, vars, itemVars, receiptVars
<1>6. CASE UNCHANGED perfVars
  BY <1>0, <1>6, QuietKeepsFull, UnstampedStep
     DEF perfVars, dateVars, vars, itemVars, receiptVars
<1>. QED  BY <1>1, <1>2, <1>3, <1>4, <1>5, <1>6, ReceiveDatedStep
          DEF PerfNext, DatedStep

LEMMA AllPerfInv ==
  ASSUME OneAtATime
  PROVE  PerfSpec => []PerfInv
<1>1. PerfInv /\ [PerfNext]_perfVars => PerfInv'
  <2>. SUFFICES ASSUME PerfInv, [PerfNext]_perfVars PROVE PerfInv'
    OBVIOUS
  <2>1. [Next]_vars
    BY PerfSteps DEF perfVars
  <2>2. POInv' /\ Sequential'
    BY <2>1, POStep, SequentialStep DEF PerfInv
  <2>. QED  BY <2>2, DatesStep DEF PerfInv
<1>. QED  BY <1>1, PerfStart, PTL DEF PerfSpec

\* With one handler at a time a supplier's record counts exactly the orders that
\* have all their goods, and as on time those whose last goods came in time.
THEOREM RecordIsOfGoods ==
  ASSUME OneAtATime PROVE PerfSpec => []PerformanceAccurate
<1>1. PerfInv => PerformanceAccurate
  <2>. SUFFICES ASSUME PerfInv PROVE PerformanceAccurate
    OBVIOUS
  <2>. DEFINE full == {o \in Orders :
                         /\ status[o] \in {"RECEIVED", "CLOSED"}
                         /\ \A i \in Lines(o) : posted[i] >= ordered[i]}
              dated == {o \in full : expected[o] # NoDate}
  <2>1. receivedOrders = full
    BY DEF receivedOrders, PerfInv, StampedWhenFull, Full
  <2>2. measurable = dated
    BY <2>1 DEF measurable
  <2>3. \A o \in measurable : receivedAt[o] = arrival[o]
    BY DEF measurable, receivedOrders, PerfInv, StampIsArrival
  <2>4. onTime = {o \in dated : arrival[o] <= expected[o]}
    BY <2>2, <2>3 DEF onTime
  <2>. QED  BY <2>1, <2>2, <2>4 DEF Performance, PerformanceAccurate
<1>. QED  BY <1>1, AllPerfInv, PTL
=============================================================================
