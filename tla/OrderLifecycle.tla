--------------------------- MODULE OrderLifecycle ---------------------------
(***************************************************************************)
(* What a purchase order promises, seen from outside: its status moves     *)
(* along the lifecycle and goods arrive on it only while it may receive.   *)
(* Every operation is one atomic step.                                     *)
(***************************************************************************)
EXTENDS Integers

CONSTANTS Orders,
          MayReceive    \* the statuses from which goods may be received

VARIABLES status,       \* [Orders -> status, or "NONE" before create]
          goods         \* units received on each order

orderVars == <<status, goods>>

Init == /\ status = [o \in Orders |-> "NONE"]
        /\ goods = [o \in Orders |-> 0]

Advance(o, from, to) ==
    /\ status[o] \in from
    /\ status' = [status EXCEPT ![o] = to]
    /\ UNCHANGED goods

Create(o) == Advance(o, {"NONE"}, "DRAFT")
Submit(o) == Advance(o, {"DRAFT"}, "SUBMITTED")
Cancel(o) == Advance(o, {"DRAFT", "SUBMITTED"}, "CANCELED")
Close(o)  == Advance(o, {"PARTIALLY_RECEIVED", "RECEIVED"}, "CLOSED")

\* A fully received order stays so when more than was ordered arrives.
Receive(o) ==
    /\ status[o] \in MayReceive
    /\ \E s \in {"PARTIALLY_RECEIVED", "RECEIVED"} :
          /\ status[o] = "RECEIVED" => s = "RECEIVED"
          /\ status' = [status EXCEPT ![o] = s]
    /\ goods'[o] > goods[o]
    /\ \A u \in Orders \ {o} : goods'[u] = goods[u]

Next == \E o \in Orders : \/ Create(o) \/ Submit(o) \/ Cancel(o)
                          \/ Receive(o) \/ Close(o)

Spec == Init /\ [][Next]_orderVars
=============================================================================
