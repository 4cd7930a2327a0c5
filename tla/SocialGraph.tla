------------------------------ MODULE SocialGraph ------------------------------
(***************************************************************************)
(* Follows, privacy settings and what they let a user see: following and    *)
(* unfollowing, the feeds, profiles' visits and guides, a place's social    *)
(* context, and the news of a visit                                         *)
(* (infrastructure/repositories/social/*, social/social-users.service.ts,   *)
(* social/social-diaries.service.ts, visits/visits.service.ts).             *)
(*                                                                          *)
(* Each call is a chain of queries.  Whether the viewer follows the author, *)
(* the author's settings and the author's content are read by different     *)
(* queries in most of them, and all three change meanwhile.  A place's      *)
(* context answers twice: with the visits of the author, and with the names *)
(* of the author's guides the place is in, which no setting guards.         *)
(***************************************************************************)
EXTENDS Naturals, Sequences, FiniteSets

CONSTANTS
  Viewer, Author,  \* two users
  Calls,           \* slots for concurrent requests
  Readers,         \* those of them the viewer reads with; the author visits with the others
  Patches,         \* the settings updateSocialSettings is asked to set
  MaxChanges       \* bound: changes of settings and of the guide

ASSUME ConstantsAssumption ==
  Viewer # Author /\ Readers \subseteq Calls /\ MaxChanges \in Nat

VARIABLES
  follows,   \* the userFollow row from Viewer to Author exists
  settings,  \* the Author's userSettings row
  guide,     \* the visibility of the Author's guide
  call,      \* the requests
  created,   \* history: follow rows created so far
  told,      \* history: "follow" notifications published so far
  changes    \* settings and visibilities changed so far

vars == <<follows, settings, guide, call, created, told, changes>>
content == <<follows, settings, guide>>
counts == <<created, told, changes>>

ContentVisibility == {"public", "followers", "private"}
GuideVisibility == {"public", "unlisted", "private"}
SettingsType == [activity : ContentVisibility, diary : ContentVisibility]

ASSUME PatchesAssumption == Patches \subseteq SettingsType

\* What the rules of visibility depend on, at one moment.
Moment == [follows : BOOLEAN, settings : SettingsType, guide : GuideVisibility]
Now == [follows |-> follows, settings |-> settings, guide |-> guide]

\* What is read, and what each query of the call reads, in order.
Sources == {"userVisits", "network", "nearby", "now", "city", "context",
            "getDiary", "userDiaries", "searchDiaries"}
Activity == {"userVisits", "network", "nearby", "now", "city", "context"}

\* The Promise.all of getPlaceSocialContext: whom the viewer follows, the visits
\* with their authors' settings, and the guides the place is in.
InAnyOrder ==
  {<<{"follows"}, {"settings"}, {"content"}>>, <<{"follows"}, {"content"}, {"settings"}>>,
   <<{"settings"}, {"follows"}, {"content"}>>, <<{"settings"}, {"content"}, {"follows"}>>,
   <<{"content"}, {"follows"}, {"settings"}>>, <<{"content"}, {"settings"}, {"follows"}>>}

QueriesOf(source) ==
  CASE source = "userVisits"    -> {<<{"settings"}, {"follows"}, {"content"}>>}
    [] source = "network"       -> {<<{"follows"}, {"settings", "content"}>>}
    [] source = "nearby"        -> {<<{"follows"}, {"settings", "content"}>>}
    [] source = "now"           -> {<<{"follows"}, {"settings", "content"}>>}
    [] source = "city"          -> {<<{"settings", "content"}>>}
    [] source = "context"       -> InAnyOrder
    [] source = "getDiary"      -> {<<{"content"}, {"settings"}, {"follows"}>>}
    [] source = "userDiaries"   -> {<<{"settings"}, {"follows"}, {"content"}>>}
    [] source = "searchDiaries" -> {<<{"follows", "settings", "content"}>>}

NoMoment == [follows |-> FALSE,
             settings |-> [activity |-> "private", diary |-> "private"],
             guide |-> "private"]

IdleCall == [pc |-> "idle", user |-> Viewer, source |-> "none", queries |-> <<>>,
             read |-> NoMoment, shown |-> FALSE, listed |-> FALSE, existed |-> FALSE,
             to |-> {}, during |-> {}]

CallType ==
  [pc      : {"idle", "find", "create", "follow", "unfollow", "read", "answered",
              "failed", "visit", "followers", "publish", "told"},
   user    : {Viewer, Author},
   source  : Sources \cup {"none"},
   queries : Seq(SUBSET {"follows", "settings", "content"}),
   read    : Moment,
   shown   : BOOLEAN,  \* the author's visits, or the guide
   listed  : BOOLEAN,  \* a place's context names the guide
   existed : BOOLEAN,
   to      : SUBSET {Viewer},
   during  : SUBSET Moment]  \* history: the moments of the call

TypeOK ==
  /\ follows \in BOOLEAN /\ settings \in SettingsType
  /\ guide \in GuideVisibility
  /\ call \in [Calls -> CallType]
  /\ created \in Nat /\ told \in Nat
  /\ changes \in 0..MaxChanges

Init ==
  /\ follows \in BOOLEAN
  /\ settings = [activity |-> "public", diary |-> "public"]  \* DEFAULT_SOCIAL_SETTINGS
  /\ guide \in GuideVisibility
  /\ call = [c \in Calls |-> IdleCall]
  /\ created = 0 /\ told = 0 /\ changes = 0

(***************************************************************************)
(* The rules.                                                               *)
(***************************************************************************)
\* Mutant of CanViewContent: followers-only content is shown to anybody.
CanViewAnyway(visibility, following) == visibility # "private"

\* canViewContent, buildPermissions, isVisitVisibleToViewer
CanViewContent(visibility, following) ==
  \/ visibility = "public"
  \/ visibility = "followers" /\ following

\* canViewDiary: the guide's own visibility; unlisted ones by their link only.
CanViewDiary(visibility, allowUnlisted) ==
  visibility = "public" \/ (allowUnlisted /\ visibility = "unlisted")

\* buildDiaryOwnerVisibilityWhere, the where of searchPublicDiaries and
\* listHomeEditorGuides
SearchFinds(m) ==
  /\ m.guide = "public"
  /\ \/ m.settings.diary = "public"
     \/ m.follows /\ m.settings.diary = "followers"

\* What each call shows of the author, from what it has read.
UserVisitsShow(m)    == CanViewContent(m.settings.activity, m.follows)
NetworkFeedShows(m)  == m.follows /\ m.settings.activity \in {"public", "followers"}
NearbyFeedShows(m)   == CanViewContent(m.settings.activity, m.follows)
NowFeedShows(m)      == CanViewContent(m.settings.activity, m.follows)
CityFeedShows(m)     == m.settings.activity = "public"
PlaceContextShows(m) == CanViewContent(m.settings.activity, m.follows)
DiaryShows(m)        == /\ CanViewDiary(m.guide, TRUE)
                        /\ CanViewContent(m.settings.diary, m.follows)
UserDiariesShow(m)   == /\ CanViewContent(m.settings.diary, m.follows)
                        /\ CanViewDiary(m.guide, FALSE)

\* diaryAppearances, guideAppearances: the id and the name of every public guide;
\* the owner's settings are not read.
AppearancesShow(m)   == m.guide = "public"

Shows(source, m) ==
  CASE source = "userVisits"    -> UserVisitsShow(m)
    [] source = "network"       -> NetworkFeedShows(m)
    [] source = "nearby"        -> NearbyFeedShows(m)
    [] source = "now"           -> NowFeedShows(m)
    [] source = "city"          -> CityFeedShows(m)
    [] source = "context"       -> PlaceContextShows(m)
    [] source = "getDiary"      -> DiaryShows(m)
    [] source = "userDiaries"   -> UserDiariesShow(m)
    [] source = "searchDiaries" -> SearchFinds(m)

(***************************************************************************)
(* Helpers.                                                                 *)
(***************************************************************************)
Go(c, new) == [call EXCEPT ![c] = new]
Begin(pc) == [IdleCall EXCEPT !.pc = pc]
BeginAt(pc, m) == [IdleCall EXCEPT !.pc = pc, !.during = {m}]

\* A call witnesses from the moment it begins to read until it has its answer.
Rests(k) == k.during = {} \/ k.pc \in {"answered", "told"}

Witness(calls, m) ==
  [c \in Calls |-> IF Rests(calls[c]) THEN calls[c]
                   ELSE [calls[c] EXCEPT !.during = calls[c].during \cup {m}]]

(***************************************************************************)
(* followUser, unfollowUser: ensureUserSettings changes nothing, every user *)
(* has a settings row from sign-up.                                         *)
(***************************************************************************)
FollowUser(c) ==
  /\ call[c].pc = "idle"
  /\ call' = Go(c, Begin("find"))
  /\ UNCHANGED <<content, counts>>

FindFollow(c) ==
  /\ call[c].pc = "find"
  /\ call' = Go(c, [call[c] EXCEPT !.existed = follows,
                                   !.pc = IF follows THEN "follow" ELSE "create"])
  /\ UNCHANGED <<content, counts>>

\* Mutant of CreateFollow: the row is upserted, created is what was found.
UpsertFollow(c) ==
  /\ call[c].pc = "create"
  /\ follows' = TRUE
  /\ created' = created + (IF follows THEN 0 ELSE 1)
  /\ call' = Witness(Go(c, [call[c] EXCEPT !.pc = "follow"]), [Now EXCEPT !.follows = TRUE])
  /\ UNCHANGED <<settings, guide, told, changes>>

\* The pair is unique: a second create throws P2002 and the call fails.
CreateFollow(c) ==
  /\ call[c].pc = "create"
  /\ IF follows
     THEN /\ call' = Go(c, [call[c] EXCEPT !.pc = "failed"])
          /\ UNCHANGED <<follows, created>>
     ELSE /\ follows' = TRUE
          /\ created' = created + 1
          /\ call' = Witness(Go(c, [call[c] EXCEPT !.pc = "follow"]),
                             [Now EXCEPT !.follows = TRUE])
  /\ UNCHANGED <<settings, guide, told, changes>>

\* The relationship is read once more for the answer; the news goes out when
\* this call created the row.
AnswerFollow(c) ==
  /\ call[c].pc = "follow"
  /\ call' = Go(c, [call[c] EXCEPT !.pc = "answered"])
  /\ told' = told + (IF call[c].existed THEN 0 ELSE 1)
  /\ UNCHANGED <<content, created, changes>>

UnfollowUser(c) ==
  /\ call[c].pc = "idle" /\ changes < MaxChanges
  /\ follows' = FALSE
  /\ changes' = changes + 1
  /\ call' = Witness(Go(c, Begin("unfollow")), [Now EXCEPT !.follows = FALSE])
  /\ UNCHANGED <<settings, guide, created, told>>

AnswerUnfollow(c) ==
  /\ call[c].pc = "unfollow"
  /\ call' = Go(c, [call[c] EXCEPT !.pc = "answered"])
  /\ UNCHANGED <<content, counts>>

(***************************************************************************)
(* The author changes the settings, or the guide (Guides).                  *)
(***************************************************************************)
UpdateSocialSettings(s) ==
  /\ changes < MaxChanges /\ s # settings
  /\ settings' = s
  /\ changes' = changes + 1
  /\ call' = Witness(call, [Now EXCEPT !.settings = s])
  /\ UNCHANGED <<follows, guide, created, told>>

GuideChanges(v) ==
  /\ changes < MaxChanges /\ v # guide
  /\ guide' = v
  /\ changes' = changes + 1
  /\ call' = Witness(call, [Now EXCEPT !.guide = v])
  /\ UNCHANGED <<follows, settings, created, told>>

(***************************************************************************)
(* The viewer reads: getUserVisits, listFeed in its modes,                  *)
(* getPlaceSocialContext, getDiary, listUserDiaries, searchPublicDiaries.   *)
(***************************************************************************)
Look(c, source, queries) ==
  /\ c \in Readers /\ call[c].pc = "idle"
  /\ call' = Go(c, [BeginAt("read", Now) EXCEPT !.source = source, !.queries = queries])
  /\ UNCHANGED <<content, counts>>

Query(m, what) ==
  [follows  |-> IF "follows" \in what THEN follows ELSE m.follows,
   settings |-> IF "settings" \in what THEN settings ELSE m.settings,
   guide    |-> IF "content" \in what THEN guide ELSE m.guide]

ReadNext(c) ==
  LET k == call[c] IN
  /\ k.pc = "read" /\ k.queries # <<>>
  /\ call' = Go(c, [k EXCEPT !.read = Query(k.read, Head(k.queries)),
                             !.queries = Tail(k.queries)])
  /\ UNCHANGED <<content, counts>>

Show(c) ==
  LET k == call[c] IN
  /\ k.pc = "read" /\ k.queries = <<>>
  /\ call' = Go(c, [k EXCEPT !.pc = "answered", !.read = NoMoment,
                             !.shown = Shows(k.source, k.read),
                             !.listed = k.source = "context" /\ AppearancesShow(k.read)])
  /\ UNCHANGED <<content, counts>>

(***************************************************************************)
(* visits.create: the visit is stored (the author has others already), then *)
(* the author's settings and the followers are read for the news.           *)
(***************************************************************************)
CreateVisit(c) ==
  /\ c \notin Readers /\ call[c].pc = "idle"
  /\ call' = Go(c, [BeginAt("visit", Now) EXCEPT !.user = Author])
  /\ UNCHANGED <<content, counts>>

ReadOwnSettings(c) ==
  /\ call[c].pc = "visit"
  /\ call' = Go(c, [call[c] EXCEPT
       !.pc = IF settings.activity = "private" THEN "answered" ELSE "followers"])
  /\ UNCHANGED <<content, counts>>

\* Mutant of ReadFollowers: everybody hears of it.
ReadEverybody(c) ==
  /\ call[c].pc = "followers"
  /\ call' = Go(c, [call[c] EXCEPT !.pc = "publish", !.to = {Viewer}])
  /\ UNCHANGED <<content, counts>>

\* listFollowerIds
ReadFollowers(c) ==
  /\ call[c].pc = "followers"
  /\ call' = Go(c, [call[c] EXCEPT !.pc = "publish", !.to = IF follows THEN {Viewer} ELSE {}])
  /\ UNCHANGED <<content, counts>>

PublishVisit(c) ==
  /\ call[c].pc = "publish"
  /\ call' = Go(c, [call[c] EXCEPT !.pc = "told"])
  /\ UNCHANGED <<content, counts>>

\* The request ends; a statement that throws ends it anywhere.
End(c) ==
  /\ call[c].pc # "idle"
  /\ call' = Go(c, IdleCall)
  /\ UNCHANGED <<content, counts>>

Next ==
  \/ \E c \in Calls :
       \/ FollowUser(c)
       \/ FindFollow(c) \/ CreateFollow(c) \/ AnswerFollow(c)
       \/ UnfollowUser(c) \/ AnswerUnfollow(c)
       \/ \E s \in Sources : \E q \in QueriesOf(s) : Look(c, s, q)
       \/ ReadNext(c) \/ Show(c)
       \/ CreateVisit(c) \/ ReadOwnSettings(c) \/ ReadFollowers(c) \/ PublishVisit(c)
       \/ End(c)
  \/ \E s \in Patches : UpdateSocialSettings(s)
  \/ \E v \in GuideVisibility : GuideChanges(v)

Spec == Init /\ [][Next]_vars

(***************************************************************************)
(* Properties.                                                              *)
(***************************************************************************)
\* The privacy rule of one moment (docs/social-graph.md): the author's
\* setting admits the viewer, and the guide itself is not private.
Setting(source, m) == IF source \in Activity THEN m.settings.activity ELSE m.settings.diary

\* However the three reads of a call fall among the changes: what was private
\* all through the call is not shown, neither by its setting nor, for a guide,
\* by its own visibility, and what was never public all through is not shown
\* to somebody who never followed meanwhile.  When nothing changes, the calls
\* that do not narrow the rule further show exactly what the rule admits
\* (canViewContent, canViewDiary and the where clauses of the repositories).
\* The names of guides in a place's context follow the guide's visibility alone:
\* what was never public all through is not named, what was is.
ForbiddenIsHidden ==
  \A c \in Calls : LET k == call[c] IN k.pc = "answered" /\ k.source # "none" =>
    /\ (\A m \in k.during : Setting(k.source, m) = "private") => ~k.shown
    /\ (\A m \in k.during : Setting(k.source, m) # "public" /\ ~m.follows) => ~k.shown
    /\ k.source \notin Activity /\ (\A m \in k.during : m.guide = "private") => ~k.shown
    /\ \A m \in k.during :
         k.during = {m} /\ k.source \notin {"network", "city"} =>
           k.shown = (/\ \/ Setting(k.source, m) = "public"
                         \/ Setting(k.source, m) = "followers" /\ m.follows
                      /\ \/ k.source \in Activity \/ m.guide = "public"
                         \/ m.guide = "unlisted" /\ k.source = "getDiary")
    /\ (\A m \in k.during : m.guide # "public") => ~k.listed
    /\ k.source = "context" /\ (\A m \in k.during : m.guide = "public") => k.listed

\* plans/009-enforce-diary-visibility.md: the stored diary setting is
\* "authoritative for search, profile lists, detail access, feed inclusion, and
\* group-related projections", to be tested "across every read surface".  A
\* place's context names no guide of an author whose diaries were private all
\* through the call (getPlaceSocialContext).
AppearancesRespectSetting ==
  \A c \in Calls : call[c].listed =>
    \E m \in call[c].during : m.settings.diary # "private"

\* Nobody is told of a follow that did not happen: one notification at most
\* for each row created, however often and however concurrently a user taps
\* follow and unfollow (followUser).
FollowNewsIsNew == told <= created

\* The news of a visit reaches only somebody who followed its author at some
\* moment of the call, and nobody when the author's activity was private all
\* through it (visits create, listFollowerIds).
VisitNewsForFollowers ==
  \A c \in Calls : LET k == call[c] IN k.pc = "told" /\ k.to # {} =>
    /\ \E m \in k.during : m.follows
    /\ \E m \in k.during : m.settings.activity # "private"

\* docs/social-graph.md of follow and unfollow: "Ambas rutas son
\* idempotentes."  Following somebody twice answers twice.
FollowIsIdempotent == \A c \in Calls : call[c].pc # "failed"
================================================================================
