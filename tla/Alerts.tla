------------------------------- MODULE Alerts -------------------------------
(***************************************************************************)
(* Alerts: the low-stock and expiry scans of alerts.service.ts, run by the *)
(* BullMQ worker on a cron and by the API on demand, beside users who      *)
(* acknowledge and resolve alerts.                                         *)
(*                                                                         *)
(* A scan runs in no transaction: each query is a step of its own and sees *)
(* what has been committed by then.  Stock itself is the environment here: *)
(* flagged holds what a scan would find, the (variant, warehouse) pairs at *)
(* or below their reorder point and the batches with stock that expire     *)
(* before the cutoff.                                                      *)
(***************************************************************************)
EXTENDS Integers, Sequences

CONSTANTS
    Pairs, Batches,     \* what a LOW_STOCK, an EXPIRING_BATCH alert is about
    Scanners,           \* processes that run scans, one scan at a time each
    Api,                \* those of them in the API process, which scan on demand
    MaxTurns,           \* bound: changes of stock, user actions and failures
    MaxAlerts           \* bound: alert rows

ASSUME SubjectsAreDistinct == Pairs \cap Batches = {}
ASSUME ApiScans == Api \subseteq Scanners
ASSUME BoundsAreNat == MaxTurns \in Nat /\ MaxAlerts \in Nat

VARIABLES
    flagged,    \* the pairs short of stock and the expiring batches, right now
    alerts,     \* alert rows in the order of their creation; none is deleted
    scan,       \* what each running scan has read
    recovered,  \* ghost: alerts whose subject was not flagged at some time since
    overlapped, \* ghost: two scans have run at the same time
    turns       \* bound: how many of MaxTurns are used

rowVars == <<alerts, recovered>>
vars == <<flagged, alerts, scan, recovered, overlapped, turns>>

Subjects == Pairs \cup Batches
AlertIds == 1 .. MaxAlerts
AlertRow == [of : Subjects, status : {"ACTIVE", "ACKNOWLEDGED", "RESOLVED"}]

Idle == [at |-> "idle"]
\* found: the subjects of the first query; todo: those not handled yet.
NextScan    == [at : {"next"}, kind : {"low", "expiry"},
                found : SUBSET Subjects, todo : SUBSET Subjects]
InsertScan  == [at : {"insert"}, kind : {"low", "expiry"},
                found : SUBSET Subjects, todo : SUBSET Subjects, new : Subjects]
ResolveScan == [at : {"resolve"}, stale : SUBSET AlertIds]

AlertsTypeOK ==
    /\ flagged \subseteq Subjects
    /\ alerts \in Seq(AlertRow) /\ Len(alerts) <= MaxAlerts
    /\ scan \in [Scanners -> NextScan \cup InsertScan \cup ResolveScan \cup {Idle}]
    /\ recovered \subseteq AlertIds
    /\ overlapped \in BOOLEAN
    /\ turns \in 0 .. MaxTurns

Init == /\ flagged = {}
        /\ alerts = <<>>
        /\ scan = [s \in Scanners |-> Idle]
        /\ recovered = {}
        /\ overlapped = FALSE
        /\ turns = 0

Rows == DOMAIN alerts
Active == {a \in Rows : alerts[a].status = "ACTIVE"}
ActiveFor(x) == \E a \in Active : alerts[a].of = x

WithStatus(S, st) ==
    [a \in Rows |-> IF a \in S THEN [alerts[a] EXCEPT !.status = st]
                    ELSE alerts[a]]

-----------------------------------------------------------------------------
Turn == turns < MaxTurns /\ turns' = turns + 1

\* Stock moves, a batch empties or its expiry comes near.
StockChanges(x) ==
    /\ Turn
    /\ IF x \in flagged
       THEN /\ flagged' = flagged \ {x}
            /\ recovered' = recovered \cup {a \in Rows : alerts[a].of = x}
       ELSE flagged' = flagged \cup {x} /\ UNCHANGED recovered
    /\ UNCHANGED <<alerts, scan, overlapped>>

\* mutant: a status that an alert does not have
AcknowledgeAsSeen(a) ==
    /\ Turn
    /\ alerts' = WithStatus({a}, "SEEN")
    /\ UNCHANGED <<flagged, scan, recovered, overlapped>>

\* Neither looks at the status the alert has.
Acknowledge(a) ==
    /\ Turn
    /\ alerts' = WithStatus({a}, "ACKNOWLEDGED")
    /\ UNCHANGED <<flagged, scan, recovered, overlapped>>

Resolve(a) ==
    /\ Turn
    /\ alerts' = WithStatus({a}, "RESOLVED")
    /\ UNCHANGED <<flagged, scan, recovered, overlapped>>

-----------------------------------------------------------------------------
(* The scans.  A scan that raises two alerts handles its findings one      *)
(* after the other, in an order the database chooses.                      *)

StartScan(s, kind, found) ==
    /\ scan[s] = Idle
    /\ scan' = [scan EXCEPT ![s] = [at |-> "next", kind |-> kind,
                                    found |-> found, todo |-> found]]
    /\ overlapped' = (overlapped \/ \E other \in Scanners : scan[other] # Idle)
    /\ UNCHANGED <<flagged, rowVars, turns>>

StartLowStockScan(s) == StartScan(s, "low", flagged \cap Pairs)
StartExpiryScan(s)   == StartScan(s, "expiry", flagged \cap Batches)

\* mutant: a subject that ever had an alert is skipped
DedupeForever(s, x) ==
    /\ scan[s].at = "next"
    /\ x \in scan[s].todo
    /\ scan' = [scan EXCEPT ![s] =
          IF \E a \in Rows : alerts[a].of = x
          THEN [at |-> "next", kind |-> @.kind, found |-> @.found,
                todo |-> @.todo \ {x}]
          ELSE [at |-> "insert", kind |-> @.kind, found |-> @.found,
                todo |-> @.todo \ {x}, new |-> x]]
    /\ UNCHANGED <<flagged, rowVars, overlapped, turns>>

\* mutant: no look for an existing alert
DedupeNever(s, x) ==
    /\ scan[s].at = "next"
    /\ x \in scan[s].todo
    /\ scan' = [scan EXCEPT ![s] =
          [at |-> "insert", kind |-> @.kind, found |-> @.found,
           todo |-> @.todo \ {x}, new |-> x]]
    /\ UNCHANGED <<flagged, rowVars, overlapped, turns>>

\* create's findFirst: a subject with an ACTIVE alert is done.
Dedupe(s, x) ==
    /\ scan[s].at = "next"
    /\ x \in scan[s].todo
    /\ scan' = [scan EXCEPT ![s] =
          IF ActiveFor(x)
          THEN [at |-> "next", kind |-> @.kind, found |-> @.found,
                todo |-> @.todo \ {x}]
          ELSE [at |-> "insert", kind |-> @.kind, found |-> @.found,
                todo |-> @.todo \ {x}, new |-> x]]
    /\ UNCHANGED <<flagged, rowVars, overlapped, turns>>

\* The row; the push to the websocket clients, if there is a server, is output.
Insert(s) ==
    LET x == scan[s].new
        a == Len(alerts) + 1
    IN  /\ scan[s].at = "insert"
        /\ a <= MaxAlerts
        /\ alerts' = Append(alerts, [of |-> x, status |-> "ACTIVE"])
        /\ recovered' = IF x \in flagged THEN recovered ELSE recovered \cup {a}
        /\ scan' = [scan EXCEPT ![s] = [at |-> "next", kind |-> @.kind,
                                        found |-> @.found, todo |-> @.todo]]
        /\ UNCHANGED <<flagged, overlapped, turns>>

\* mutant: the type filter forgotten
StaleOfAnyType(found) == {a \in Active : alerts[a].of \notin found}
\* mutant: recovered pairs never looked for
NothingStale(found) == {}

\* ACTIVE LOW_STOCK alerts of pairs that the scan did not find.
Stale(found) == {a \in Active : alerts[a].of \in Pairs \ found}

FindStale(s) ==
    /\ scan[s].at = "next"
    /\ scan[s].kind = "low"
    /\ scan[s].todo = {}
    /\ scan' = [scan EXCEPT ![s] = [at |-> "resolve", stale |-> Stale(@.found)]]
    /\ UNCHANGED <<flagged, rowVars, overlapped, turns>>

\* updateMany by id, whatever their status is by now.
ResolveStale(s) ==
    /\ scan[s].at = "resolve"
    /\ alerts' = WithStatus(scan[s].stale, "RESOLVED")
    /\ scan' = [scan EXCEPT ![s] = Idle]
    /\ UNCHANGED <<flagged, recovered, overlapped, turns>>

EndExpiryScan(s) ==
    /\ scan[s].at = "next"
    /\ scan[s].kind = "expiry"
    /\ scan[s].todo = {}
    /\ scan' = [scan EXCEPT ![s] = Idle]
    /\ UNCHANGED <<flagged, rowVars, overlapped, turns>>

\* A query fails or the process dies: the job is marked failed, the rows stay.
Fail(s) ==
    /\ Turn
    /\ scan[s] # Idle
    /\ scan' = [scan EXCEPT ![s] = Idle]
    /\ UNCHANGED <<flagged, rowVars, overlapped>>

Proceed(s) ==
    \/ \E x \in Subjects : Dedupe(s, x)
    \/ Insert(s)
    \/ FindStale(s)
    \/ ResolveStale(s)
    \/ EndExpiryScan(s)

Next ==
    \/ \E x \in Subjects : StockChanges(x)
    \/ \E a \in Rows : Acknowledge(a) \/ Resolve(a)
    \/ \E s \in Scanners : \/ StartLowStockScan(s)
                           \/ StartExpiryScan(s)
                           \/ Proceed(s)
                           \/ Fail(s)

Spec == Init /\ [][Next]_vars

\* A scan that runs goes on.  The cron adds a job per period and the queue hands
\* out jobs in order, so the worker starts scans of either kind for ever; the
\* API starts one only when it is asked to.
Fairness ==
    /\ \A s \in Scanners : WF_vars(Proceed(s))
    /\ \A s \in Scanners \ Api : /\ SF_vars(StartLowStockScan(s))
                                 /\ SF_vars(StartExpiryScan(s))

FairSpec == Spec /\ Fairness

-----------------------------------------------------------------------------
(* Properties.                                                             *)

\* alerts.service.ts:39 "Deduped": a subject has at most one ACTIVE alert as long
\* as no two scans have run at once, whatever users, stock and failures do
\* between the queries of a scan.
OneActivePerSubject ==
    ~overlapped => \A a, b \in Active : alerts[a].of = alerts[b].of => a = b

\* alerts.service.ts:113 "Pairs that have since recovered": a scan resolves an
\* alert only if its pair was above the reorder point at some time since the
\* alert was raised.  (Two overlapping scans break it: an alert of one is stale
\* for the other, which looked at the stock before the pair ran short.)
ResolvedAfterRecovery ==
    [][\A s \in Scanners : ResolveStale(s) /\ ~overlapped
                           => scan[s].stale \subseteq recovered]_vars

\* alerts.service.ts:114 "so the list reflects live state": when stock, users
\* and failures let it, the ACTIVE LOW_STOCK alerts end up being those of the
\* pairs that are short, through every race of scans on the way.
ListReflectsLiveState ==
    \A p \in Pairs : /\ <>[](p \in flagged) => <>[]ActiveFor(p)
                     /\ <>[](p \notin flagged) => <>[]~ActiveFor(p)

\* A batch that stays within the threshold ends up with an ACTIVE alert, also
\* after a user resolved an earlier one (nothing resolves it automatically).
ExpiringBatchAlerted ==
    \A b \in Batches : <>[](b \in flagged) => <>[]ActiveFor(b)
=============================================================================
