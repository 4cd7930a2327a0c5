------------------------------- MODULE MCPlaces -------------------------------
(* Requests for a city or for Google's answers, and one request of the home   *)
(* screen.  What the second keeps of the first, a cached answer, may be any:  *)
(* a behaviour is one of the two and the variables of the other rest.         *)
EXTENDS HomeScreen
VARIABLE part

\* Every variant in a city, two of them with a query, and a place without a city.
MCAsked ==
  {[variant |-> v, query |-> FALSE, inCity |-> TRUE, limit |-> n] :
     v \in {"home_city", "home_open_now", "onboarding_past", "home_network",
            "home_friends_liked"}, n \in 1 .. 2}
  \cup {[variant |-> v, query |-> TRUE, inCity |-> TRUE, limit |-> n] :
          v \in {"home_city", "home_open_now"}, n \in 1 .. 2}
  \cup {[variant |-> "home_city", query |-> FALSE, inCity |-> FALSE, limit |-> 2]}

MCInit ==
  /\ part \in {"cache", "nearby"}
  /\ Init /\ N!Init
  /\ part = "cache" => hidden = {} /\ curation = N!NoRows

MCNext ==
  /\ UNCHANGED part
  /\ \/ part = "cache" /\ Next /\ UNCHANGED nearbyVars
     \/ part = "nearby" /\ N!Next /\ UNCHANGED vars

\* A request of the other part never starts, and its steps are not enabled.
MCSpec == MCInit /\ [][MCNext]_<<part, vars, nearbyVars>> /\ Fairness
===============================================================================
