-------------------------------- MODULE MCPlans --------------------------------
(* Calls about one plan and its event, and a list of plans or of messages     *)
(* read page by page.  What the pages need of the plans, their dates, is no   *)
(* state of the calls: a behaviour is one of the two, the other's variables   *)
(* rest.                                                                      *)
EXTENDS PlanScreens, TLC
CONSTANTS o, u1, c1, c2
VARIABLE part

\* The list that rests is the empty one.
MCInit ==
  /\ part \in {"plan", "pages"}
  /\ Init /\ P!Init
  /\ part = "plan" =>
       kind = "friends" /\ row = [i \in Ids |->
                                   [listed |-> FALSE, confirmed |-> {}, proposed |-> {}]]

MCNext ==
  /\ UNCHANGED part
  /\ \/ part = "plan" /\ Next /\ UNCHANGED pageVars
     \/ part = "pages" /\ P!Next /\ UNCHANGED vars

MCSpec == MCInit /\ [][MCNext]_<<part, vars, pageVars>>

Symmetry == Permutations(Calls)

\* Beside the initial settings, private and public: both policies for a private
\* plan, and for a plan of followers the policy that leaves proposing to all.
MCPatches ==
  {[visibility |-> "private", ownerOnly |-> TRUE, locked |-> TRUE],
   [visibility |-> "public_followers", ownerOnly |-> FALSE, locked |-> TRUE]}
================================================================================
