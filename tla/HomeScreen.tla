------------------------------ MODULE HomeScreen ------------------------------
(***************************************************************************)
(* The lookups of PlacesCache and one request of NearbyPlaces.  The two     *)
(* share no state: the answers that Google gives the request, cached or     *)
(* not, are any.                                                            *)
(***************************************************************************)
EXTENDS PlacesCache

CONSTANTS Places, Asked, MaxPicks, MaxCurated, MaxChanges
VARIABLES hidden, curation, admin, home, changes

N == INSTANCE NearbyPlaces WITH req <- home

nearbyVars == <<hidden, curation, admin, home, changes>>

\* What NearbyPlaces promises of an answer: hidden places stay out of it
\* (getHiddenGooglePlaceIds), ...
HiddenStaysHidden == N!HiddenStaysHidden

\* ... no place is in it twice (prependAdminCuratedPlaces), ...
NothingTwice == N!NothingTwice

\* ... and promoted places lead it (prependAdminCuratedPlaces).
PromotedComesFirst == N!PromotedComesFirst
===============================================================================
