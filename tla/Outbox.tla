-------------------------------- MODULE Outbox --------------------------------
(***************************************************************************)
(* What the push service promises of a delivery, however many calls race    *)
(* over its row: it is posted once, Expo accepts messages for it only while *)
(* it is open, and it is closed once, with one outcome, which only the      *)
(* deletion of the account takes away.                                      *)
(***************************************************************************)
CONSTANT Deliveries

VARIABLES
  stage,    \* "new", "open", or the outcome
  accepted  \* deliveries that Expo has accepted a message for

vars == <<stage, accepted>>

Outcomes == {"delivered", "failed", "cancelled", "deleted"}

Init == stage = [d \in Deliveries |-> "new"] /\ accepted = {}

Post(D) ==
  /\ D # {} /\ \A d \in D : stage[d] = "new"
  /\ stage' = [d \in Deliveries |-> IF d \in D THEN "open" ELSE stage[d]]
  /\ UNCHANGED accepted

\* Expo may accept more than one message for a delivery.
Accept(D) ==
  /\ \A d \in D : stage[d] = "open"
  /\ accepted' = accepted \cup D
  /\ UNCHANGED stage

\* Some deliveries are closed, as delivered only if Expo has accepted them.
Close ==
  /\ stage' \in [Deliveries -> {"new", "open"} \cup Outcomes]
  /\ \A d \in Deliveries :
       \/ stage'[d] = stage[d]
       \/ /\ stage[d] = "open" /\ stage'[d] \in Outcomes
          /\ stage'[d] = "delivered" => d \in accepted
       \/ stage[d] \in Outcomes /\ stage'[d] = "deleted"
  /\ UNCHANGED accepted

Next == Close \/ \E D \in SUBSET Deliveries : Post(D) \/ Accept(D)

Spec == Init /\ [][Next]_vars
===============================================================================
