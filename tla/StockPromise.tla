---------------------------- MODULE StockPromise ----------------------------
(***************************************************************************)
(* What stock.service.ts promises its callers.  A request looks at the     *)
(* stock once and is let in if it finds what it asks for.  It changes the  *)
(* stock at one later instant, or fails: units leave a pair, or are put    *)
(* aside, only if they are still available at that instant, but for what   *)
(* left the pair with no check since the request looked.  That is the one  *)
(* thing the code lets through, a negative correction or the fulfilment of *)
(* a reservation that is no longer active: Lose.                           *)
(***************************************************************************)
EXTENDS Integers, Functions

CONSTANTS
    Pairs,          \* (variant, warehouse) pairs
    Reservations,
    Requests,
    Quantities,     \* units of a guarded request
    Amounts         \* units of an unguarded one

VARIABLES
    onHand,         \* units in stock, by pair
    claim,          \* the units each reservation holds
    seen            \* what each open request was let in with

promiseVars == <<onHand, claim, seen>>

NotMade == [status |-> "NONE"]
Closed == [status |-> "CLOSED"]
Held(p, q) == [status |-> "ACTIVE", of |-> p, qty |-> q]

NotOpen == [status |-> "NONE"]
Open(p, q) == [status |-> "OPEN", of |-> p, qty |-> q, lost |-> 0]

Init ==
    /\ onHand = [p \in Pairs |-> 0]
    /\ claim = [r \in Reservations |-> NotMade]
    /\ seen = [c \in Requests |-> NotOpen]

HeldOn(p) == {r \in Reservations : claim[r].status = "ACTIVE" /\ claim[r].of = p}
Available(p) == onHand[p] - SumFunction([r \in HeldOn(p) |-> claim[r].qty])

\* Open requests may fail at any time, alone or because of what another one did.
Without(F) == [c \in Requests |-> IF c \in F THEN NotOpen ELSE seen[c]]
OthersMayFail == \E F \in SUBSET Requests : seen' = Without(F)

Fail(c) ==
    /\ seen' = Without({c})
    /\ UNCHANGED <<onHand, claim>>

Look(c, p, q) ==
    /\ q <= Available(p)
    /\ seen' = [seen EXCEPT ![c] = Open(p, q)]
    /\ UNCHANGED <<onHand, claim>>

\* The request of c changes the stock: it is over, and others may fail of it.
Commit(c) ==
    /\ seen[c].status = "OPEN"
    /\ seen[c].qty <= Available(seen[c].of) + seen[c].lost
    /\ \E F \in SUBSET Requests : c \in F /\ seen' = Without(F)

Take(c) ==
    /\ Commit(c)
    /\ onHand' = [onHand EXCEPT ![seen[c].of] = @ - seen[c].qty]
    /\ UNCHANGED claim

Shift(c, to) ==
    /\ Commit(c)
    /\ onHand' = [onHand EXCEPT ![seen[c].of] = @ - seen[c].qty,
                                ![to] = @ + seen[c].qty]
    /\ UNCHANGED claim

Hold(c, r) ==
    /\ Commit(c)
    /\ claim[r] = NotMade
    /\ claim' = [claim EXCEPT ![r] = Held(seen[c].of, seen[c].qty)]
    /\ UNCHANGED onHand

\* The units of an active reservation stop being held exactly once; they leave
\* the stock or become available.
Close(r) ==
    /\ claim[r].status = "ACTIVE"
    /\ claim' = [claim EXCEPT ![r] = Closed]
    /\ \/ onHand' = onHand
       \/ onHand' = [onHand EXCEPT ![claim[r].of] = @ - claim[r].qty]
    /\ UNCHANGED seen

Put(p, n) ==
    /\ onHand' = [onHand EXCEPT ![p] = @ + n]
    /\ OthersMayFail
    /\ UNCHANGED claim

Lose(p, n) ==
    /\ onHand' = [onHand EXCEPT ![p] = @ - n]
    /\ seen' = [c \in Requests |->
                   IF seen[c].status = "OPEN" /\ seen[c].of = p
                   THEN [seen[c] EXCEPT !.lost = @ + n] ELSE seen[c]]
    /\ UNCHANGED claim

Next ==
    \/ \E p \in Pairs, n \in Amounts : Put(p, n) \/ Lose(p, n)
    \/ \E c \in Requests :
          \/ \E p \in Pairs, q \in Quantities : Look(c, p, q)
          \/ Take(c)
          \/ \E to \in Pairs : Shift(c, to)
          \/ \E r \in Reservations : Hold(c, r)
          \/ Fail(c)
    \/ \E r \in Reservations : Close(r)

Spec == Init /\ [][Next]_promiseVars
=============================================================================
