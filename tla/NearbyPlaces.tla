---------------------------- MODULE NearbyPlaces ----------------------------
(***************************************************************************)
(* The carousels of the home screen: nearby of                              *)
(* places/places-nearby.service.ts with its pool                            *)
(* (places-nearby-pool.service.ts, places-nearby.helpers.ts), its ranking   *)
(* (lib/nearby-ranking.ts) and the curations and hidden places that admins  *)
(* edit meanwhile (admin/admin.service.ts,                                  *)
(* infrastructure/repositories/place-curation.repository.ts).               *)
(*                                                                          *)
(* One request is followed from its start to its answer; every round of     *)
(* queries is a step, the queries of one Promise.all being one round.       *)
(* Scores are real numbers with a jitter that depends on the hour: the      *)
(* order they give is any order, and what lies in the neighbourhood, what   *)
(* friends liked and what is open now is any set.  Coordinates are known.   *)
(***************************************************************************)
EXTENDS Naturals, Sequences, FiniteSets, SequencesExt

CONSTANTS
  Places,     \* numbers; of two equal curations the lower number comes first
  Asked,      \* what requests ask for: variant, query, limit, and inCity
  MaxPicks,   \* MAX_FORCED_CITY_PICKS
  MaxCurated, \* MAX_CURATED_SLOTS_IN_TOP
  MaxChanges  \* bound: writes of admins during the request

VARIABLES
  hidden,     \* places with hiddenFromApp
  curation,   \* the row of each place for its city, as its strongest flag
  admin,      \* the second write of an admin's request, still to come
  req,        \* the request
  changes     \* admin writes so far

vars == <<hidden, curation, admin, req, changes>>
world == <<hidden, curation, admin, changes>>

\* none: no row; off: inactive or expired; plain: a row without a flag.
Curations == {"none", "off", "plain", "badge", "boost", "pick"}
Promoting == {"badge", "boost", "pick"}

\* Variants are home_city, which stands for home_nearby and for none as well,
\* home_open_now, onboarding_past, home_network and home_friends_liked.
HomeMix == {"home_city", "home_open_now", "onboarding_past"}

\* Mutant of ActiveRows: the place's own flag is not asked for.
ActiveRowsAnyPlace(hid, cur) == [p \in Places |-> IF cur[p] = "off" THEN "none" ELSE cur[p]]

\* activeCurationWhere: the curations of the city, of places that are not hidden.
ActiveRows(hid, cur) ==
  [p \in Places |-> IF p \in hid \/ cur[p] = "off" THEN "none" ELSE cur[p]]
NoRows == [p \in Places |-> "none"]

CuratedIn(rows)  == {p \in Places : rows[p] # "none"}
PromotedIn(rows) == {p \in Places : rows[p] \in Promoting}
With(rows, kind) == {p \in Places : rows[p] = kind}

Idle == [pc |-> "idle", variant |-> "home_city", query |-> FALSE, inCity |-> TRUE, limit |-> 0,
         pool |-> {}, hid |-> {}, candidates |-> {}, visible |-> {}, rows |-> NoRows,
         shown |-> <<>>, hiddenAll |-> {}, promotedAll |-> {}, promotedAny |-> {}]

Init ==
  /\ hidden \in {{}} \cup {{p} : p \in Places}
  /\ curation \in [Places -> Curations \ {"off"}]
  /\ admin = <<>>
  /\ req = Idle
  /\ changes = 0

(***************************************************************************)
(* Admins.  The history of the request keeps what was hidden, or promoted   *)
(* and visible, at every moment of it.                                      *)
(***************************************************************************)
Edit(hid, cur) ==
  /\ changes < MaxChanges
  /\ changes' = changes + 1
  /\ hidden' = hid /\ curation' = cur
  /\ req' = [req EXCEPT !.hiddenAll = req.hiddenAll \cap hid,
                        !.promotedAll = req.promotedAll \cap PromotedIn(ActiveRows(hid, cur)),
                        !.promotedAny = req.promotedAny \cup PromotedIn(ActiveRows(hid, cur))]

SetPlaceVisibility(p, hide) ==
  /\ p \in hidden <=> ~hide
  /\ Edit(IF hide THEN hidden \cup {p} ELSE hidden \ {p}, curation)
  /\ UNCHANGED admin

\* createCuration: one row for each place and city.
CreateCuration(p, kind) ==
  /\ curation[p] = "none" /\ kind \in Curations \ {"none", "off"}
  /\ Edit(hidden, [curation EXCEPT ![p] = kind])
  /\ UNCHANGED admin

\* update of flags or expiry; what expires or is deactivated may come back.
UpdateCuration(p, kind) ==
  /\ curation[p] \notin {"none", kind} /\ kind \in Curations \ {"none"}
  /\ Edit(hidden, [curation EXCEPT ![p] = kind])
  /\ UNCHANGED admin

\* createCuration, updateCuration with hiddenFromApp: the place is hidden first,
\* then the row is created without flags, or deactivated.
HideFirst(p, kind) ==
  /\ admin = <<>>
  /\ kind = "plain" \/ (kind = "off" /\ curation[p] # "none")
  /\ Edit(hidden \cup {p}, curation)
  /\ admin' = <<p, kind>>

\* A row that is there already, or is gone, makes the second write throw; the
\* place stays hidden.
WriteCuration ==
  /\ admin # <<>>
  /\ LET p == admin[1] IN
     curation' = IF (curation[p] = "none") = (admin[2] = "plain")
                   THEN [curation EXCEPT ![p] = admin[2]] ELSE curation
  /\ admin' = <<>>
  /\ req' = [req EXCEPT !.promotedAll = req.promotedAll \cap
                                        PromotedIn(ActiveRows(hidden, curation'))]
  /\ UNCHANGED <<hidden, changes>>

DeleteCuration(p) ==
  /\ curation[p] # "none"
  /\ Edit(hidden, [curation EXCEPT ![p] = "none"])
  /\ UNCHANGED admin

(***************************************************************************)
(* The request.                                                             *)
(***************************************************************************)
\* inCity: resolveCurationCityId found the city.  When Google fails it falls
\* back on the stored city, on the profile's or on the nearest one.
Nearby(variant, query, inCity, limit) ==
  /\ req.pc = "idle"
  /\ req' = [Idle EXCEPT !.pc = "pool", !.variant = variant, !.query = query,
                         !.inCity = inCity, !.limit = limit, !.hiddenAll = hidden,
                         !.promotedAll = PromotedIn(ActiveRows(hidden, curation)),
                         !.promotedAny = PromotedIn(ActiveRows(hidden, curation))]
  /\ UNCHANGED world

Finalize(S) == req' = [req EXCEPT !.pc = "hidden", !.pool = S]

\* The answer of fetchNearbyGooglePool, or of searchText for a query, fresh or
\* from the cache, where it lies as it came: places hidden before or since included.
PoolFromGoogle(S) ==
  /\ req.pc = "pool"
  /\ Finalize(S)
  /\ UNCHANGED world

\* Google failed or is switched off: listNearbyPlaces, which leaves hidden
\* places out.
PoolFromStore(S) ==
  /\ req.pc = "pool"
  /\ S \cap hidden = {}
  /\ Finalize(S)
  /\ UNCHANGED world

\* getHiddenGooglePlaceIds
ReadHidden ==
  /\ req.pc = "hidden"
  /\ req' = [req EXCEPT !.hid = hidden, !.candidates = req.pool \ hidden, !.pool = {},
                        !.pc = IF req.query THEN "curations" ELSE "stored"]
  /\ UNCHANGED world

Rows == IF req.inCity THEN ActiveRows(hidden, curation) ELSE NoRows

\* buildNearbyCandidatePool: places with positive visits and places of liked
\* categories, which are not hidden by now, and promoted ones.
ReadStored(S) ==
  /\ req.pc = "stored"
  /\ S \cap hidden = {}
  /\ req' = [req EXCEPT !.candidates = req.candidates \cup S \cup PromotedIn(Rows),
                        !.pc = "curations"]
  /\ UNCHANGED world

\* mergeCityCurationsIntoNearbyCandidates between the two filters
MergeCityCurations(k, rows) ==
  (IF k.query THEN k.candidates ELSE k.candidates \cup PromotedIn(rows)) \ k.hid

Answer(shown) == req' = [req EXCEPT !.pc = "done", !.shown = shown, !.candidates = {},
                                    !.visible = {}, !.rows = NoRows, !.hid = {}]

\* getCurationSignalsForCity
ReadCurations ==
  LET visible == MergeCityCurations(req, Rows) IN
  /\ req.pc = "curations"
  /\ IF visible = {} THEN Answer(<<>>)
     ELSE req' = [req EXCEPT !.pc = "rank", !.visible = visible, !.rows = Rows]
  /\ UNCHANGED world

(***************************************************************************)
(* rankNearbyPlaceResults                                                   *)
(***************************************************************************)
InOrder(S) == CHOOSE q \in SetToSeqs(S) : \A i, j \in DOMAIN q : i < j => q[i] < q[j]
Take(s, n) == SubSeq(s, 1, IF n < Len(s) THEN n ELSE Len(s))

\* What s has at the positions I, in its order.
Keep(s, I) == [n \in 1 .. Cardinality(I) |-> s[InOrder(I)[n]]]
Without(s, S) == Keep(s, {i \in DOMAIN s : s[i] \notin S})

\* The work list: the places of the variant (what is open, what friends liked)
\* that the viewer's radar does not exclude.  hydrateMissingOpenNow asks Google
\* for what is open; failures are not open.
WorkOf(k) ==
  SUBSET (IF k.variant = "home_friends_liked" THEN k.candidates \cap k.visible ELSE k.visible)

\* Low quality is dropped from the home mix, curated places are not, and
\* nothing is from the answer to a query.
QualifiedOf(k, work) ==
  IF k.variant \in HomeMix /\ ~k.query
    THEN {S \in SUBSET work : work \cap CuratedIn(k.rows) \subseteq S}
    ELSE {work}

\* buildPinnedCurationPlaces: city picks, then boosted places of the work list.
Pinned(k, work, picks) ==
  Take(InOrder(picks) \o InOrder((work \cap With(k.rows, "boost")) \ picks), MaxPicks)

\* applyCityPickSlots
WithPicks(ordered, pinned, limit) ==
  Take(pinned \o Without(ordered, ToSet(pinned)), limit)

\* applyCuratedSlotCap: unboosted curated places beyond the cap are left out.
SlotCap(ordered, rows) ==
  LET capped(i) == /\ ordered[i] \in CuratedIn(rows) \ With(rows, "boost")
                   /\ Cardinality({j \in 1 .. i - 1 : ordered[j] \in CuratedIn(rows)})
                        >= MaxCurated
  IN  Keep(ordered, {i \in DOMAIN ordered : ~capped(i)})

Ranked(k, work, ordered, picks) ==
  IF k.variant = "home_city" \/ k.variant = "home_open_now"
    THEN SlotCap(WithPicks(ordered, Pinned(k, work, picks), k.limit), k.rows)
  ELSE IF k.variant = "onboarding_past" THEN SlotCap(ordered, k.rows)
  ELSE ordered

\* Mutant of PrependAdmin: promoted places stay in the rest as well.
PrependAgain(rows, ranked, limit) ==
  LET forced == Take(InOrder(With(rows, "pick")) \o InOrder(With(rows, "boost"))
                       \o InOrder(With(rows, "badge")), limit)
  IN  Take(forced \o ranked, limit)

\* Mutant of PrependAdmin: curated places fill what the ranking leaves.
AppendAdmin(rows, ranked, limit) ==
  Take(ranked \o Without(InOrder(PromotedIn(rows)), ToSet(ranked)), limit)

\* prependAdminCuratedPlaces
PrependAdmin(rows, ranked, limit) ==
  LET forced == Take(InOrder(With(rows, "pick")) \o InOrder(With(rows, "boost"))
                       \o InOrder(With(rows, "badge")), limit)
  IN  Take(forced \o Without(ranked, ToSet(forced)), limit)

Prepends(k) == ~k.query /\ k.variant \notin {"home_friends_liked", "onboarding_past"}

Assemble(k, ranked) == IF Prepends(k) THEN PrependAdmin(k.rows, ranked, k.limit) ELSE ranked

\* The signals are read (listCityPickPlacesForCity among them), the places are
\* ranked and presented.
Rank(order, work, good) ==
  LET ordered == Take(Keep(order, {i \in DOMAIN order : order[i] \in good}), req.limit)
      picks   == With(Rows, "pick") \ req.hid
  IN
  /\ req.pc = "rank"
  /\ work \in WorkOf(req) /\ good \in QualifiedOf(req, work)
  /\ IF work = {} THEN Answer(<<>>)
     ELSE Answer(Assemble(req, IF req.query \/ good = {} THEN ordered
                               ELSE Ranked(req, good, ordered, picks)))
  /\ UNCHANGED world

Next ==
  \/ \E p \in Places : \/ \E hide \in BOOLEAN : SetPlaceVisibility(p, hide)
                       \/ \E kind \in Curations : CreateCuration(p, kind) \/ UpdateCuration(p, kind)
                       \/ \E kind \in {"plain", "off"} : HideFirst(p, kind)
                       \/ DeleteCuration(p)
  \/ WriteCuration
  \/ \E a \in Asked : Nearby(a.variant, a.query, a.inCity, a.limit)
  \/ ReadHidden \/ ReadCurations
  \/ \E S \in SUBSET Places : PoolFromGoogle(S) \/ PoolFromStore(S) \/ ReadStored(S)
  \/ \E order \in SetToSeqs(Places), work, good \in SUBSET Places : Rank(order, work, good)

Spec == Init /\ [][Next]_vars

(***************************************************************************)
(* Properties.                                                              *)
(***************************************************************************)
\* A place that is hidden from the first query of a request to the last is
\* not in its answer, whether it comes from Google, from the cached answer,
\* from the stored places or from a curation (getHiddenGooglePlaceIds,
\* activeCurationWhere).
HiddenStaysHidden == ToSet(req.shown) \cap req.hiddenAll = {}

\* An answer has no more places than were asked for and none of them twice,
\* though a curated place may come from Google, from the store, from the
\* city's curations, be pinned by the ranking and be put in front at last.
NothingTwice == Len(req.shown) <= req.limit /\ IsInjective(req.shown)

\* An answer that puts curated places first leaves out one that stays
\* promoted and visible throughout only when it is full of such places, or
\* empty (prependAdminCuratedPlaces, and the cap of the ranking before it).
PromotedComesFirst ==
  req.pc = "done" /\ Prepends(req) /\ req.inCity /\ req.shown # <<>> =>
    \/ req.promotedAll \subseteq ToSet(req.shown)
    \/ ToSet(req.shown) \subseteq req.promotedAny
=============================================================================
