----------------------------- MODULE MCGoogleImport -----------------------------
(* Two items, each with a place of its own.  A behaviour lets two jobs of the *)
(* import overlap, or runs one at a time and lets it be struck by a fault, or *)
(* runs one at a time and lets the owner save or unsave a place by hand.      *)
(* While jobs overlap, nobody else resolves a place, the account stays, and   *)
(* so do the URLs of an archive once it is complete.                         *)
EXTENDS GoogleImport, TLC

CONSTANTS k1, k2, p1, p2
VARIABLE trouble

TwoPlaces == (k1 :> p1) @@ (k2 :> p2)

Busy == {j \in Jobs : job[j].pc # "free"}

MCInit == Init /\ trouble \in {"overlap", "fault", "hand"}

MCNext ==
  /\ Next
  /\ UNCHANGED trouble
  /\ trouble = "overlap" \/ \A i, j \in Busy' : i = j
  /\ trouble = "fault" \/ UNCHANGED faults
  /\ trouble = "hand" \/ UNCHANGED byHand
  /\ trouble = "overlap" => /\ UNCHANGED user
                            /\ imp.urls => imp'.urls
                            /\ UNCHANGED places \/ job' # job

MCSpec == MCInit /\ [][MCNext]_<<vars, trouble>>

\* Jobs are alike, and so are the two items with their places.
Symmetry ==
  Permutations(Jobs) \cup
    {(k1 :> k2) @@ (k2 :> k1) @@ (p1 :> p2) @@ (p2 :> p1)}

\* No action reads the status, and no property of the run does.
View == <<user, imp.state, imp.archive, imp.urls, item, places, req, job,
          faults, saves, byHand, kept, covered, trouble>>
=============================================================================
