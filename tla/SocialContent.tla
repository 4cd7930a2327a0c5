---------------------------- MODULE SocialContent ----------------------------
(***************************************************************************)
(* The relationships of SocialGraph and one guide of Guides.  They share no *)
(* state but that the guide exists.                                         *)
(***************************************************************************)
EXTENDS SocialGraph

CONSTANTS Places, Requests, NoPlace, MaxEdits, MaxMoves
VARIABLES diary, position, req, edits, overlapped, inOrder, moved

G == INSTANCE Guides WITH guide <- diary, call <- req, Calls <- Requests

guideVars == <<diary, position, req, edits, overlapped, inOrder, moved>>

\* What Guides promises: followers are told of publications only (updateDiary), ...
PublicationIsNews == G!PublicationIsNews

\* ... and places stay in the order in which they were added (addPlaceToDiary).
AppendedInOrder == G!AppendedInOrder
===============================================================================
