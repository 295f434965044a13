--------------------------- MODULE OrderPlacement ---------------------------
(***************************************************************************)
(* What POST /orders promises, with every mechanism left out: a request is *)
(* paid for, then recorded, then announced at most once, and each answer   *)
(* says how far the request has got for good. OrderService implements it.  *)
(***************************************************************************)
CONSTANT Requests

VARIABLES
    paid,       \* requests whose payment went through
    recorded,   \* requests whose order is stored
    announced,  \* requests whose order has been told to the consumers
    outcome     \* what the client was told: "open" until it is told anything

vars == << paid, recorded, announced, outcome >>

Init ==
    /\ paid = {}
    /\ recorded = {}
    /\ announced = {}
    /\ outcome = [r \in Requests |-> "open"]

Conclude(r, result) == outcome' = [outcome EXCEPT ![r] = result]

Pay(r) ==
    /\ outcome[r] = "open" /\ r \notin paid
    /\ paid' = paid \cup {r}
    /\ UNCHANGED << recorded, announced, outcome >>

Refuse(r) ==
    /\ outcome[r] = "open" /\ r \notin paid
    /\ Conclude(r, "refused")
    /\ UNCHANGED << paid, recorded, announced >>

Record(r) ==
    /\ outcome[r] = "open" /\ r \in paid \ recorded
    /\ recorded' = recorded \cup {r}
    /\ UNCHANGED << paid, announced, outcome >>

(* A failed request is never announced, but its order may have been stored. *)
Fail(r) ==
    /\ outcome[r] = "open" /\ r \in paid \ recorded
    /\ recorded' \in {recorded, recorded \cup {r}}
    /\ Conclude(r, "failed")
    /\ UNCHANGED << paid, announced >>

Announce(r) ==
    /\ outcome[r] = "open" /\ r \in recorded \ announced
    /\ announced' = announced \cup {r}
    /\ UNCHANGED << paid, recorded, outcome >>

Confirm(r) ==
    /\ outcome[r] = "open" /\ r \in recorded
    /\ Conclude(r, "confirmed")
    /\ UNCHANGED << paid, recorded, announced >>

Next == \E r \in Requests :
    Pay(r) \/ Refuse(r) \/ Record(r) \/ Fail(r) \/ Announce(r) \/ Confirm(r)

Spec == Init /\ [][Next]_vars
=============================================================================
