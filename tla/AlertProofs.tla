----------------------------- MODULE AlertProofs -----------------------------
(***************************************************************************)
(* Proofs about Alerts, for any number of subjects and scanners: as long   *)
(* as no two scans overlap, whatever fails or changes between the queries  *)
(* of one, alerts are deduped and only recovered pairs are auto-resolved.  *)
(***************************************************************************)
EXTENDS Alerts, TLAPS

ScanRecord == NextScan \cup InsertScan \cup ResolveScan \cup {Idle}

-----------------------------------------------------------------------------
(* The rows and the scans.                                                 *)

LEMMA ScanByStage ==
  ASSUME NEW t \in ScanRecord
  PROVE  /\ t.at = "next" => t \in NextScan
         /\ t.at = "insert" => t \in InsertScan
         /\ t.at = "resolve" => t \in ResolveScan
         /\ t # Idle => t.at \in {"next", "insert", "resolve"}
  BY DEF ScanRecord, NextScan, InsertScan, ResolveScan, Idle

LEMMA RowsOfType ==
  ASSUME AlertsTypeOK
  PROVE  /\ Rows = 1 .. Len(alerts) /\ Len(alerts) \in Nat
         /\ Rows \subseteq AlertIds
         /\ \A a \in Rows : alerts[a] \in AlertRow
  BY BoundsAreNat DEF AlertsTypeOK, Rows, AlertIds

\* A user or a scan writes a status into some rows; nothing else of them changes
\* and none becomes ACTIVE.
LEMMA StatusWritten ==
  ASSUME AlertsTypeOK, NEW S, NEW st \in {"ACKNOWLEDGED", "RESOLVED"},
         alerts' = WithStatus(S, st)
  PROVE  /\ alerts' \in Seq(AlertRow) /\ Len(alerts') = Len(alerts)
         /\ Rows' = Rows
         /\ \A a \in Rows : alerts'[a].of = alerts[a].of
         /\ Active' \subseteq Active
<1>1. /\ Rows = 1 .. Len(alerts) /\ Len(alerts) \in Nat
      /\ \A a \in Rows : alerts[a] \in AlertRow
  BY RowsOfType
<1>2. \A a \in Rows : [alerts[a] EXCEPT !.status = st] \in AlertRow
  BY <1>1 DEF AlertRow
<1>3. \A a \in Rows : /\ [alerts[a] EXCEPT !.status = st].of = alerts[a].of
                      /\ [alerts[a] EXCEPT !.status = st].status = st
  BY <1>1 DEF AlertRow
<1>4. alerts' \in [1 .. Len(alerts) -> AlertRow]
  BY <1>1, <1>2 DEF WithStatus
<1>5. alerts' \in Seq(AlertRow) /\ Len(alerts') = Len(alerts)
  BY <1>1, <1>4
<1>6. Rows' = Rows
  BY <1>1, <1>4 DEF Rows
<1>7. \A a \in Rows : /\ alerts'[a].of = alerts[a].of
                      /\ alerts'[a].status = "ACTIVE"
                         => alerts[a].status = "ACTIVE"
  BY <1>3 DEF WithStatus
<1>. QED  BY <1>5, <1>6, <1>7 DEF Active

LEMMA RowInserted ==
  ASSUME AlertsTypeOK, NEW x \in Subjects,
         alerts' = Append(alerts, [of |-> x, status |-> "ACTIVE"])
  PROVE  LET a == Len(alerts) + 1
         IN  /\ alerts' \in Seq(AlertRow) /\ Len(alerts') = a
             /\ a \notin Rows
             /\ Rows' = Rows \cup {a}
             /\ \A b \in Rows : alerts'[b] = alerts[b]
             /\ alerts'[a] = [of |-> x, status |-> "ACTIVE"]
<1>1. [of |-> x, status |-> "ACTIVE"] \in AlertRow
  BY DEF AlertRow
<1>2. alerts \in Seq(AlertRow)
  BY DEF AlertsTypeOK
<1>. QED  BY <1>1, <1>2 DEF Rows

-----------------------------------------------------------------------------
(* Type correctness.                                                       *)

LEMMA TypeStart == Init => AlertsTypeOK
<1> SUFFICES ASSUME Init PROVE AlertsTypeOK
  OBVIOUS
<1>1. alerts \in Seq(AlertRow) /\ Len(alerts) = 0
  BY DEF Init
<1>2. 0 <= MaxAlerts /\ 0 \in 0 .. MaxTurns
  BY BoundsAreNat
<1>. QED  BY <1>1, <1>2 DEF Init, AlertsTypeOK

LEMMA AlertTypeStep == AlertsTypeOK /\ [Next]_vars => AlertsTypeOK'
<1> SUFFICES ASSUME AlertsTypeOK, [Next]_vars
             PROVE  AlertsTypeOK'
  OBVIOUS
<1>0. /\ scan \in [Scanners -> ScanRecord] /\ Idle \in ScanRecord
      /\ turns \in Nat /\ MaxTurns \in Nat /\ flagged \subseteq Subjects
      /\ recovered \subseteq AlertIds /\ overlapped \in BOOLEAN
  BY BoundsAreNat DEF AlertsTypeOK, ScanRecord
<1>1. ASSUME NEW x \in Subjects, StockChanges(x)
      PROVE  AlertsTypeOK'
  <2>1. recovered' \subseteq AlertIds
    BY <1>0, <1>1, RowsOfType DEF StockChanges
  <2>2. flagged' \subseteq Subjects /\ turns' \in 0 .. MaxTurns
    BY <1>0, <1>1 DEF StockChanges, Turn
  <2>. QED  BY <1>1, <2>1, <2>2 DEF StockChanges, AlertsTypeOK
<1>2. ASSUME NEW a \in Rows, Acknowledge(a) \/ Resolve(a)
      PROVE  AlertsTypeOK'
  <2>1. alerts' \in Seq(AlertRow) /\ Len(alerts') = Len(alerts)
    BY <1>2, StatusWritten DEF Acknowledge, Resolve
  <2>2. turns' \in 0 .. MaxTurns
    BY <1>0, <1>2 DEF Acknowledge, Resolve, Turn
  <2>. QED  BY <1>2, <2>1, <2>2 DEF Acknowledge, Resolve, AlertsTypeOK
<1>3. ASSUME NEW s \in Scanners, NEW kind \in {"low", "expiry"},
             NEW found \in SUBSET Subjects, StartScan(s, kind, found)
      PROVE  AlertsTypeOK'
  <2>1. [at |-> "next", kind |-> kind, found |-> found, todo |-> found] \in NextScan
    BY DEF NextScan
  <2>2. scan' \in [Scanners -> ScanRecord]
    BY <1>0, <1>3, <2>1 DEF StartScan, ScanRecord
  <2>. QED  BY <1>3, <2>2 DEF StartScan, rowVars, AlertsTypeOK, ScanRecord
<1>4. ASSUME NEW s \in Scanners, NEW x \in Subjects, Dedupe(s, x)
      PROVE  AlertsTypeOK'
  <2>1. scan[s] \in NextScan
    BY <1>0, <1>4, ScanByStage DEF Dedupe
  <2>2. /\ [at |-> "next", kind |-> scan[s].kind, found |-> scan[s].found,
            todo |-> scan[s].todo \ {x}] \in NextScan
        /\ [at |-> "insert", kind |-> scan[s].kind, found |-> scan[s].found,
            todo |-> scan[s].todo \ {x}, new |-> x] \in InsertScan
    BY <2>1 DEF NextScan, InsertScan
  <2>3. scan' \in [Scanners -> ScanRecord]
    BY <1>0, <1>4, <2>2 DEF Dedupe, ScanRecord
  <2>. QED  BY <1>4, <2>3 DEF Dedupe, rowVars, AlertsTypeOK, ScanRecord
<1>5. ASSUME NEW s \in Scanners, Insert(s)
      PROVE  AlertsTypeOK'
  <2>1. scan[s] \in InsertScan /\ scan[s].new \in Subjects
    BY <1>0, <1>5, ScanByStage DEF Insert, InsertScan
  <2>2. /\ alerts' \in Seq(AlertRow) /\ Len(alerts') = Len(alerts) + 1
        /\ Len(alerts) + 1 <= MaxAlerts
    BY <1>5, <2>1, RowInserted DEF Insert
  <2>3. [at |-> "next", kind |-> scan[s].kind, found |-> scan[s].found,
         todo |-> scan[s].todo] \in NextScan
    BY <2>1 DEF NextScan, InsertScan
  <2>4. scan' \in [Scanners -> ScanRecord]
    BY <1>0, <1>5, <2>3 DEF Insert, ScanRecord
  <2>5. Len(alerts) + 1 \in AlertIds
    BY <2>2, RowsOfType, BoundsAreNat DEF AlertIds
  <2>6. recovered' \subseteq AlertIds
    BY <1>0, <1>5, <2>5 DEF Insert
  <2>. QED  BY <1>5, <2>2, <2>4, <2>6 DEF Insert, AlertsTypeOK, ScanRecord
<1>6. ASSUME NEW s \in Scanners, FindStale(s)
      PROVE  AlertsTypeOK'
  <2>1. [at |-> "resolve", stale |-> Stale(scan[s].found)] \in ResolveScan
    BY RowsOfType DEF ResolveScan, Stale, Active
  <2>2. scan' \in [Scanners -> ScanRecord]
    BY <1>0, <1>6, <2>1 DEF FindStale, ScanRecord
  <2>. QED  BY <1>6, <2>2 DEF FindStale, rowVars, AlertsTypeOK, ScanRecord
<1>7. ASSUME NEW s \in Scanners, ResolveStale(s)
      PROVE  AlertsTypeOK'
  <2>1. alerts' \in Seq(AlertRow) /\ Len(alerts') = Len(alerts)
    BY <1>7, StatusWritten DEF ResolveStale
  <2>2. scan' \in [Scanners -> ScanRecord]
    BY <1>0, <1>7 DEF ResolveStale
  <2>. QED  BY <1>7, <2>1, <2>2 DEF ResolveStale, AlertsTypeOK, ScanRecord
<1>8. ASSUME NEW s \in Scanners, EndExpiryScan(s) \/ Fail(s)
      PROVE  AlertsTypeOK'
  <2>1. scan' \in [Scanners -> ScanRecord]
    BY <1>0, <1>8 DEF EndExpiryScan, Fail
  <2>2. turns' \in 0 .. MaxTurns
    BY <1>0, <1>8 DEF EndExpiryScan, Fail, Turn, AlertsTypeOK
  <2>. QED  BY <1>8, <2>1, <2>2
            DEF EndExpiryScan, Fail, rowVars, AlertsTypeOK, ScanRecord
<1>9. CASE UNCHANGED vars
  BY <1>9 DEF vars, AlertsTypeOK
<1>10. flagged \cap Pairs \in SUBSET Subjects /\ flagged \cap Batches \in SUBSET Subjects
  BY <1>0
<1>. QED
  BY <1>1, <1>2, <1>3, <1>4, <1>5, <1>6, <1>7, <1>8, <1>9, <1>10
     DEF Next, Proceed, StartLowStockScan, StartExpiryScan

\* The alert rows and what the scans hold stay well typed through every
\* interleaving of scans, users and failures.
THEOREM AlertsTypeCorrect == Spec => []AlertsTypeOK
<1>. QED  BY TypeStart, AlertTypeStep, PTL DEF Spec

-----------------------------------------------------------------------------
(* Dedupe and auto-resolve.  Both need to know what a running scan relies  *)
(* on: that nobody else has raised the alert it is about to insert, and    *)
(* that what it takes for stale recovered after it was raised.             *)

\* As long as no two scans have overlapped, at most one is running.
Alone == ~overlapped =>
    \A s, t \in Scanners : scan[s] # Idle /\ scan[t] # Idle => s = t

\* A scan raises alerts of what it found only.
RaisesFound(t) ==
    /\ t.at \in {"next", "insert"} => t.todo \subseteq t.found
    /\ t.at = "insert" => t.new \in t.found

Careful(t) ==
    /\ t.at = "insert" => ~ActiveFor(t.new)
    /\ t.at \in {"next", "insert"} /\ t.kind = "low"
       => Stale(t.found) \subseteq recovered
    /\ t.at = "resolve" => t.stale \subseteq recovered

UnflaggedRecovered ==
    \A a \in Rows : alerts[a].of \notin flagged => a \in recovered

AlertInv ==
    /\ AlertsTypeOK
    /\ Alone
    /\ UnflaggedRecovered
    /\ \A s \in Scanners : RaisesFound(scan[s])
    /\ ~overlapped => \A s \in Scanners : Careful(scan[s])
    /\ OneActivePerSubject

\* Careful after the step, of a scan t that the step does not change.
CarefulNext(t) ==
    /\ t.at = "insert" => ~\E a \in Active' : alerts'[a].of = t.new
    /\ t.at \in {"next", "insert"} /\ t.kind = "low"
       => \A a \in Active' : alerts'[a].of \in Pairs \ t.found => a \in recovered'
    /\ t.at = "resolve" => t.stale \subseteq recovered'

\* Nothing becomes ACTIVE and no recovery is forgotten.
NothingRaised ==
    /\ Rows' = Rows
    /\ Active' \subseteq Active
    /\ \A a \in Rows : alerts'[a].of = alerts[a].of
    /\ recovered \subseteq recovered'

LEMMA StaysCareful ==
  ASSUME NothingRaised, NEW s \in Scanners, Careful(scan[s])
  PROVE  CarefulNext(scan[s])
<1>1. \A a \in Active' : a \in Active /\ alerts'[a].of = alerts[a].of
  BY DEF NothingRaised, Active
<1>. QED  BY <1>1 DEF NothingRaised, Careful, CarefulNext, ActiveFor, Stale

LEMMA IdleIsCareful == CarefulNext(Idle) /\ RaisesFound(Idle)
  BY DEF CarefulNext, RaisesFound, Idle

\* A step that raises nothing keeps the invariant if the scan it moves, if any,
\* stays careful.
LEMMA NothingRaisedStep ==
  ASSUME AlertInv, AlertsTypeOK', NothingRaised, UnflaggedRecovered',
         overlapped => overlapped', NEW s,
         \A t \in Scanners \ {s} : scan'[t] = scan[t],
         s \in Scanners => /\ RaisesFound(scan'[s])
                           /\ ~overlapped' => CarefulNext(scan'[s]),
         Alone'
  PROVE  AlertInv'
<1>1. \A t \in Scanners : RaisesFound(scan'[t])
  BY DEF AlertInv
<1>2. ~overlapped' => \A t \in Scanners : CarefulNext(scan'[t])
  BY StaysCareful DEF AlertInv
<1>3. \A t \in Scanners : RaisesFound(scan[t])'
  BY <1>1 DEF RaisesFound
<1>4. ~overlapped' => \A t \in Scanners : Careful(scan[t])'
  BY <1>2 DEF Careful, CarefulNext, ActiveFor, Stale
<1>5. OneActivePerSubject'
  <2>1. \A a \in Active' : a \in Active /\ alerts'[a].of = alerts[a].of
    BY DEF NothingRaised, Active
  <2>. QED  BY <2>1 DEF AlertInv, OneActivePerSubject
<1>. QED  BY <1>3, <1>4, <1>5 DEF AlertInv

LEMMA RowsKept ==
  ASSUME AlertInv, UNCHANGED rowVars
  PROVE  NothingRaised /\ (flagged' = flagged => UnflaggedRecovered')
  BY DEF rowVars, NothingRaised, Active, Rows, AlertInv, UnflaggedRecovered

LEMMA InsertKeepsInv ==
  ASSUME AlertInv, AlertsTypeOK', NEW s \in Scanners, Insert(s)
  PROVE  AlertInv'
<1>. DEFINE x == scan[s].new
            n == Len(alerts) + 1
<1>1. /\ scan[s] \in InsertScan /\ x \in Subjects /\ x \in scan[s].found
      /\ scan[s].todo \subseteq scan[s].found
  BY ScanByStage DEF AlertInv, AlertsTypeOK, ScanRecord, Insert, InsertScan,
                     RaisesFound
<1>2. /\ n \notin Rows /\ Rows' = Rows \cup {n}
      /\ \A b \in Rows : alerts'[b] = alerts[b]
      /\ alerts'[n] = [of |-> x, status |-> "ACTIVE"]
  BY <1>1, RowInserted DEF AlertInv, Insert
<1>3. Active' = Active \cup {n}
  BY <1>2 DEF Active
<1>4. /\ scan' = [scan EXCEPT ![s] = [at |-> "next", kind |-> scan[s].kind,
                    found |-> scan[s].found, todo |-> scan[s].todo]]
      /\ recovered' = IF x \in flagged THEN recovered ELSE recovered \cup {n}
      /\ flagged' = flagged /\ overlapped' = overlapped
  BY DEF Insert
<1>5. /\ scan'[s] = [at |-> "next", kind |-> scan[s].kind,
                     found |-> scan[s].found, todo |-> scan[s].todo]
      /\ \A t \in Scanners \ {s} : scan'[t] = scan[t]
      /\ scan[s] # Idle
  BY <1>4 DEF AlertInv, AlertsTypeOK, Insert, Idle
<1>6. UnflaggedRecovered'
  BY <1>2, <1>4 DEF AlertInv, UnflaggedRecovered
<1>7. \A t \in Scanners : RaisesFound(scan[t])'
  BY <1>1, <1>5 DEF AlertInv, RaisesFound
<1>8. Alone'
  BY <1>4, <1>5 DEF AlertInv, Alone
<1>9. ASSUME ~overlapped' PROVE ~ActiveFor(x) /\ OneActivePerSubject'
  <2>1. ~ActiveFor(x) /\ \A a, b \in Active : alerts[a].of = alerts[b].of => a = b
    BY <1>4, <1>9 DEF AlertInv, Careful, Insert, OneActivePerSubject
  <2>2. /\ \A a \in Active : alerts'[a].of = alerts[a].of /\ alerts[a].of # x
        /\ alerts'[n].of = x
    BY <1>2, <2>1 DEF Active, ActiveFor
  <2>. QED  BY <1>3, <2>1, <2>2 DEF OneActivePerSubject
<1>10. ASSUME ~overlapped', NEW t \in Scanners PROVE Careful(scan[t])'
  <2>1. CASE t = s
    <3>1. Careful(scan[s])
      BY <1>4, <1>10 DEF AlertInv
    <3>2. ASSUME scan[s].kind = "low"
          PROVE  \A a \in Active' : alerts'[a].of \in Pairs \ scan[s].found
                                    => a \in recovered'
      <4>1. Stale(scan[s].found) \subseteq recovered
        BY <3>1, <3>2 DEF Careful, Insert
      <4>2. alerts'[n].of \notin Pairs \ scan[s].found
        BY <1>1, <1>2
      <4>. QED  BY <1>2, <1>3, <1>4, <4>1, <4>2 DEF Stale, Active
    <3>. QED  BY <1>5, <2>1, <3>2 DEF Careful, Stale
  <2>2. CASE t # s
    <3>1. scan[t] = Idle
      BY <1>4, <1>5, <1>10, <2>2 DEF AlertInv, Alone
    <3>. QED  BY <1>5, <2>2, <3>1 DEF Careful, Idle
  <2>. QED  BY <2>1, <2>2
<1>11. OneActivePerSubject'
  BY <1>9 DEF OneActivePerSubject
<1>. QED  BY <1>6, <1>7, <1>8, <1>10, <1>11 DEF AlertInv

LEMMA AlertInvStart == Init => AlertInv
<1> SUFFICES ASSUME Init PROVE AlertInv
  OBVIOUS
<1>1. Rows = {}
  BY DEF Init, Rows
<1>. QED  BY <1>1, TypeStart DEF Init, AlertInv, Alone, UnflaggedRecovered,
             RaisesFound, Careful, OneActivePerSubject, Active, Idle

\* Users and stock: no scan moves.
LEMMA OutsideStep ==
  ASSUME AlertInv, AlertsTypeOK', UNCHANGED <<scan, overlapped>>, NothingRaised,
         UnflaggedRecovered'
  PROVE  AlertInv'
<1>1. \A s \in Scanners : /\ RaisesFound(scan'[s])
                          /\ ~overlapped' => CarefulNext(scan'[s])
  BY StaysCareful DEF AlertInv
<1>2. Alone'
  BY DEF AlertInv, Alone
<1>. QED  BY <1>1, <1>2, NothingRaisedStep

\* Scanner s moves on or ends.
LEMMA ScanStep ==
  ASSUME AlertInv, AlertsTypeOK', NEW s \in Scanners, NothingRaised,
         UNCHANGED <<flagged, recovered, overlapped>>,
         \A t \in Scanners \ {s} : scan'[t] = scan[t],
         scan[s] # Idle,
         RaisesFound(scan'[s]), ~overlapped' => CarefulNext(scan'[s])
  PROVE  AlertInv'
<1>1. UnflaggedRecovered'
  BY DEF AlertInv, UnflaggedRecovered, NothingRaised
<1>2. Alone'
  BY DEF AlertInv, Alone
<1>. QED  BY <1>1, <1>2, NothingRaisedStep

LEMMA AlertInvStep == AlertInv /\ [Next]_vars => AlertInv'
<1> SUFFICES ASSUME AlertInv, [Next]_vars
             PROVE  AlertInv'
  OBVIOUS
<1>0. /\ AlertsTypeOK /\ AlertsTypeOK'
      /\ scan \in [Scanners -> ScanRecord]
  BY AlertTypeStep DEF AlertInv, AlertsTypeOK, ScanRecord
<1>1. ASSUME NEW x \in Subjects, StockChanges(x)
      PROVE  AlertInv'
  <2>1. NothingRaised
    BY <1>1 DEF StockChanges, NothingRaised, Rows, Active
  <2>2. UnflaggedRecovered'
    BY <1>1 DEF StockChanges, AlertInv, UnflaggedRecovered, Rows
  <2>. QED  BY <1>0, <1>1, <2>1, <2>2, OutsideStep DEF StockChanges
<1>2. ASSUME NEW a \in Rows, Acknowledge(a) \/ Resolve(a)
      PROVE  AlertInv'
  <2>1. NothingRaised
    BY <1>0, <1>2, StatusWritten DEF Acknowledge, Resolve, NothingRaised
  <2>2. UnflaggedRecovered'
    BY <1>2, <2>1 DEF Acknowledge, Resolve, NothingRaised, AlertInv,
                      UnflaggedRecovered
  <2>. QED  BY <1>0, <1>2, <2>1, <2>2, OutsideStep DEF Acknowledge, Resolve
<1>3. ASSUME NEW s \in Scanners, NEW kind \in {"low", "expiry"},
             NEW found \in SUBSET Subjects, StartScan(s, kind, found),
             kind = "low" => found = flagged \cap Pairs
      PROVE  AlertInv'
  <2>1. NothingRaised /\ UnflaggedRecovered'
    BY <1>3, RowsKept DEF StartScan
  <2>2. /\ scan'[s] = [at |-> "next", kind |-> kind, found |-> found,
                       todo |-> found]
        /\ \A t \in Scanners \ {s} : scan'[t] = scan[t]
    BY <1>0, <1>3 DEF StartScan
  <2>3. ~overlapped' => ~overlapped /\ \A t \in Scanners : scan[t] = Idle
    BY <1>3 DEF StartScan
  <2>4. Alone'
    BY <2>2, <2>3 DEF Alone
  <2>5. RaisesFound(scan'[s])
    BY <2>2 DEF RaisesFound
  <2>6. CarefulNext(scan'[s])
    <3>1. ASSUME kind = "low", NEW a \in Active', alerts'[a].of \in Pairs \ found
          PROVE  a \in recovered'
      <4>1. a \in Rows /\ alerts[a].of \notin flagged
        BY <1>3, <3>1, <2>1 DEF NothingRaised, Active
      <4>. QED  BY <2>1, <4>1 DEF NothingRaised, AlertInv, UnflaggedRecovered
    <3>. QED  BY <2>2, <3>1 DEF CarefulNext
  <2>7. overlapped => overlapped'
    BY <2>3, <1>0 DEF AlertsTypeOK
  <2>. QED  BY <1>0, <2>1, <2>2, <2>4, <2>5, <2>6, <2>7, NothingRaisedStep
<1>4. ASSUME NEW s \in Scanners, NEW x \in Subjects, Dedupe(s, x)
      PROVE  AlertInv'
  <2>1. NothingRaised
    BY <1>4, RowsKept DEF Dedupe
  <2>2. /\ scan[s] \in NextScan /\ scan[s].at = "next" /\ scan[s] # Idle
        /\ x \in scan[s].todo /\ scan[s].todo \subseteq scan[s].found
    BY <1>0, <1>4, ScanByStage DEF Dedupe, Idle, AlertInv, RaisesFound
  <2>3. /\ scan'[s] = IF ActiveFor(x)
            THEN [at |-> "next", kind |-> scan[s].kind, found |-> scan[s].found,
                  todo |-> scan[s].todo \ {x}]
            ELSE [at |-> "insert", kind |-> scan[s].kind, found |-> scan[s].found,
                  todo |-> scan[s].todo \ {x}, new |-> x]
        /\ \A t \in Scanners \ {s} : scan'[t] = scan[t]
    BY <1>0, <1>4 DEF Dedupe
  <2>4. RaisesFound(scan'[s])
    BY <2>2, <2>3 DEF RaisesFound
  <2>5. ASSUME ~overlapped' PROVE CarefulNext(scan'[s])
    <3>1. Careful(scan[s])
      BY <1>4, <2>5 DEF Dedupe, AlertInv
    <3>2. CarefulNext(scan[s])
      BY <2>1, <3>1, StaysCareful
    <3>3. alerts' = alerts /\ Active' = Active
      BY <1>4 DEF Dedupe, rowVars, Active, Rows
    <3>. QED  BY <2>2, <2>3, <3>2, <3>3 DEF CarefulNext, ActiveFor
  <2>. QED  BY <1>0, <1>4, <2>1, <2>2, <2>3, <2>4, <2>5, ScanStep
            DEF Dedupe, rowVars
<1>5. ASSUME NEW s \in Scanners, FindStale(s)
      PROVE  AlertInv'
  <2>1. NothingRaised
    BY <1>5, RowsKept DEF FindStale
  <2>2. /\ scan'[s] = [at |-> "resolve", stale |-> Stale(scan[s].found)]
        /\ \A t \in Scanners \ {s} : scan'[t] = scan[t]
        /\ scan[s] # Idle
    BY <1>0, <1>5 DEF FindStale, Idle
  <2>3. RaisesFound(scan'[s])
    BY <2>2 DEF RaisesFound
  <2>4. ASSUME ~overlapped' PROVE CarefulNext(scan'[s])
    <3>1. Stale(scan[s].found) \subseteq recovered
      BY <1>5, <2>4 DEF FindStale, AlertInv, Careful
    <3>. QED  BY <2>1, <2>2, <3>1 DEF CarefulNext, NothingRaised
  <2>. QED  BY <1>0, <1>5, <2>1, <2>2, <2>3, <2>4, ScanStep
            DEF FindStale, rowVars
<1>6. ASSUME NEW s \in Scanners, ResolveStale(s) \/ EndExpiryScan(s) \/ Fail(s)
      PROVE  AlertInv'
  <2>1. NothingRaised
    <3>1. CASE ResolveStale(s)
      BY <1>0, <3>1, StatusWritten DEF ResolveStale, NothingRaised
    <3>2. CASE EndExpiryScan(s) \/ Fail(s)
      BY <3>2, RowsKept DEF EndExpiryScan, Fail
    <3>. QED  BY <1>6, <3>1, <3>2
  <2>2. /\ scan'[s] = Idle /\ scan[s] # Idle
        /\ \A t \in Scanners \ {s} : scan'[t] = scan[t]
        /\ UNCHANGED <<flagged, recovered, overlapped>>
    BY <1>0, <1>6 DEF ResolveStale, EndExpiryScan, Fail, Idle, rowVars
  <2>. QED  BY <1>0, <2>1, <2>2, IdleIsCareful, ScanStep
<1>7. CASE UNCHANGED vars
  <2>1. NothingRaised /\ UnflaggedRecovered'
    BY <1>7, RowsKept DEF vars, rowVars
  <2>. QED  BY <1>0, <1>7, <2>1, OutsideStep DEF vars
<1>8. /\ flagged \cap Pairs \in SUBSET Subjects
      /\ flagged \cap Batches \in SUBSET Subjects
  BY <1>0 DEF AlertsTypeOK
<1>. QED
  BY <1>0, <1>1, <1>2, <1>3, <1>4, <1>5, <1>6, <1>7, <1>8, InsertKeepsInv
     DEF Next, Proceed, StartLowStockScan, StartExpiryScan

LEMMA AllAlertInv == Spec => []AlertInv
<1>. QED  BY AlertInvStart, AlertInvStep, PTL DEF Spec

\* As long as no two scans overlap a subject has at most one ACTIVE alert: users,
\* stock and failures between the look-up and the insert do not break the dedupe.
THEOREM AlertsDeduped == Spec => []OneActivePerSubject
<1>1. AlertInv => OneActivePerSubject
  BY DEF AlertInv
<1>. QED  BY <1>1, AllAlertInv, PTL

\* As long as no two scans overlap, a scan resolves alerts of pairs that have
\* been above their reorder point since the alert was raised, and no others.
THEOREM OnlyRecoveredResolved == Spec => ResolvedAfterRecovery
<1>1. AlertInv => \A s \in Scanners : ResolveStale(s) /\ ~overlapped
                                      => scan[s].stale \subseteq recovered
  BY DEF AlertInv, Careful, ResolveStale
<1>. QED  BY <1>1, AllAlertInv, PTL DEF ResolvedAfterRecovery
=============================================================================
