------------------------ MODULE AtLeastOnceDelivery ------------------------
(***************************************************************************)
(* What the signed tenant webhooks promise the receiver of a (integration, *)
(* event) pair, without jobs, leases or workers: an event that is owed is  *)
(* sent a bounded number of times, is recorded as delivered only if the    *)
(* receiver accepted it, and is never sent again once it is delivered or   *)
(* given up.  docs/saas-runtime-operations.md: "Le contrat est             *)
(* at-least-once."                                                         *)
(***************************************************************************)
EXTENDS Integers

CONSTANTS Pairs, MaxSends

VARIABLES
    debt,       \* per pair: "none", "owed", "delivered" or "abandoned"
    sends,      \* per pair: requests made
    accepted    \* pairs the receiver accepted at least once

Init ==
    /\ debt = [p \in Pairs |-> "none"]
    /\ sends = [p \in Pairs |-> 0]
    /\ accepted = {}

Owe(S) ==
    /\ \A p \in S : debt[p] = "none"
    /\ debt' = [p \in Pairs |-> IF p \in S THEN "owed" ELSE debt[p]]
    /\ UNCHANGED <<sends, accepted>>

Send(p) ==
    /\ debt[p] = "owed"
    /\ sends[p] < MaxSends
    /\ sends' = [sends EXCEPT ![p] = @ + 1]
    /\ accepted' \in {accepted, accepted \cup {p}}
    /\ UNCHANGED debt

Deliver(p) ==
    /\ debt[p] = "owed"
    /\ p \in accepted
    /\ debt' = [debt EXCEPT ![p] = "delivered"]
    /\ UNCHANGED <<sends, accepted>>

Abandon(S) ==
    /\ \A p \in S : debt[p] = "owed"
    /\ debt' = [p \in Pairs |-> IF p \in S THEN "abandoned" ELSE debt[p]]
    /\ UNCHANGED <<sends, accepted>>

Next ==
    \/ \E S \in SUBSET Pairs : Owe(S) \/ Abandon(S)
    \/ \E p \in Pairs : Send(p) \/ Deliver(p)

Spec == Init /\ [][Next]_<<debt, sends, accepted>>
=============================================================================
