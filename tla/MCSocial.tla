------------------------------- MODULE MCSocial -------------------------------
(* The social graph, the edits of one guide and its places.  They share no   *)
(* state but that the guide exists: a behaviour is one of the three, and the *)
(* others' variables rest.                                                   *)
EXTENDS SocialContent, TLC
CONSTANTS c1, c2, g1, g2, p1, p2, p3
VARIABLE part

MCInit ==
  /\ part \in {"graph", "guide", "places"}
  /\ Init /\ G!Init
  /\ part # "graph" => ~follows /\ guide = "private"

\* Bound: reads and visits change nothing that the other sees, so one of the two
\* is under way at a time; each overlaps with follows, unfollows and changes.
OneWatches ==
  \A b, c \in Calls : call'[b].during # {} /\ call'[c].during # {} => b = c

MCNext ==
  /\ UNCHANGED part
  /\ \/ part = "graph" /\ Next /\ OneWatches /\ UNCHANGED guideVars
     \/ part = "guide" /\ G!EditNext /\ UNCHANGED vars
     \/ part = "places" /\ G!PlaceNext /\ UNCHANGED vars
MCSpec == MCInit /\ [][MCNext]_<<part, vars, guideVars>>

\* Beside the initial public settings: every visibility, for activity and for guides.
MCPatches ==
  {[activity |-> "followers", diary |-> "private"], [activity |-> "private", diary |-> "followers"]}

Symmetry == Permutations({p1, p2, p3})
===============================================================================
