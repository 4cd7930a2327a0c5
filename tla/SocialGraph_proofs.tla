-------------------------- MODULE SocialGraph_proofs --------------------------
(***************************************************************************)
(* Proofs about SocialGraph, for any number of concurrent requests, any     *)
(* settings the author may choose and any number of changes.                *)
(***************************************************************************)
EXTENDS SocialContent, FiniteSetTheorems, SequenceTheorems, WellFoundedInduction, TLAPS

Fields == {"follows", "settings", "content"}

\* A query that reads this field is still to come.
Awaits(k, field) == \E i \in 1..Len(k.queries) : field \in k.queries[i]

\* What a reader knows is what was true at moments of its call: of each field at
\* one of them.  The city feed does not ask whom the viewer follows.
HasRead(k) ==
  /\ k.source # "city" =>
       Awaits(k, "follows") \/ \E m \in k.during : m.follows = k.read.follows
  /\ Awaits(k, "settings") \/ \E m \in k.during : m.settings = k.read.settings
  /\ Awaits(k, "content") \/ \E m \in k.during : m.guide = k.read.guide

\* ForbiddenIsHidden, for one answer.
Justified(k) ==
  /\ (\A m \in k.during : Setting(k.source, m) = "private") => ~k.shown
  /\ (\A m \in k.during : Setting(k.source, m) # "public" /\ ~m.follows) => ~k.shown
  /\ k.source \notin Activity /\ (\A m \in k.during : m.guide = "private") => ~k.shown
  /\ \A m \in k.during :
       k.during = {m} /\ k.source \notin {"network", "city"} =>
         k.shown = (/\ \/ Setting(k.source, m) = "public"
                       \/ Setting(k.source, m) = "followers" /\ m.follows
                    /\ \/ k.source \in Activity \/ m.guide = "public"
                       \/ m.guide = "unlisted" /\ k.source = "getDiary")
  /\ (\A m \in k.during : m.guide # "public") => ~k.listed
  /\ k.source = "context" /\ (\A m \in k.during : m.guide = "public") => k.listed

\* A call k at the moment n: it has witnessed n, and whatever it decided it can
\* justify by moments it has witnessed.
Sound(k, n) ==
  /\ k.source # "none" => k.pc \in {"read", "answered"}
  /\ k.pc = "read" => k.source # "none"
  /\ ~Rests(k) => n \in k.during
  /\ k.pc \in {"read", "visit", "followers", "publish", "told"} => k.during # {}
  /\ k.source # "none" => k.during # {}
  /\ k.pc = "read" => HasRead(k)
  /\ k.pc = "answered" /\ k.source # "none" => Justified(k)
  /\ k.pc \in {"followers", "publish", "told"} =>
       \E m \in k.during : m.settings.activity # "private"
  /\ k.pc \in {"publish", "told"} /\ k.to # {} => \E m \in k.during : m.follows
  /\ k.pc = "create" => ~k.existed

CallsSound == \A c \in Calls : Sound(call[c], Now)

\* The calls that created the row and have not told of it.
Untold(calls) == {c \in Calls : calls[c].pc = "follow" /\ ~calls[c].existed}

NewsCount == /\ IsFiniteSet(Untold(call))
             /\ told + Cardinality(Untold(call)) <= created

Inv == TypeOK /\ CallsSound /\ NewsCount

(***************************************************************************)
(* Moments and records.                                                     *)
(***************************************************************************)
LEMMA NowType == TypeOK => Now \in Moment
  BY DEF TypeOK, Now, Moment

LEMMA FollowMoment ==
  ASSUME NEW f \in BOOLEAN, TypeOK
  PROVE  [Now EXCEPT !.follows = f] = [follows |-> f, settings |-> settings, guide |-> guide]
<1>1. ASSUME NEW m \in Moment
      PROVE  [m EXCEPT !.follows = f] = [follows |-> f, settings |-> m.settings, guide |-> m.guide]
  BY DEF Moment
<1>2. Now.settings = settings /\ Now.guide = guide
  BY DEF Now
<1> QED BY <1>1, <1>2, NowType

LEMMA NoMomentType == NoMoment \in Moment
  BY DEF NoMoment, Moment, SettingsType, ContentVisibility, GuideVisibility

LEMMA BeginType ==
  ASSUME NEW pc \in {"idle", "find", "create", "follow", "unfollow", "read", "answered",
                     "failed", "visit", "followers", "publish", "told"},
         NEW m \in Moment
  PROVE  /\ Begin(pc) \in CallType /\ BeginAt(pc, m) \in CallType
         /\ Begin(pc).pc = pc /\ BeginAt(pc, m).pc = pc
         /\ Begin(pc).source = "none" /\ BeginAt(pc, m).source = "none"
         /\ Begin(pc).during = {} /\ BeginAt(pc, m).during = {m}
         /\ ~Begin(pc).existed /\ ~BeginAt(pc, m).existed
<1>1. /\ IdleCall \in CallType /\ IdleCall.source = "none" /\ IdleCall.during = {}
      /\ ~IdleCall.existed
  <2>1. <<>> \in Seq(SUBSET {"follows", "settings", "content"})
    OBVIOUS
  <2> QED BY <2>1, NoMomentType DEF IdleCall, CallType
<1> QED BY <1>1 DEF Begin, BeginAt, CallType

LEMMA IdleType ==
  /\ IdleCall \in CallType /\ IdleCall.pc = "idle" /\ IdleCall.source = "none"
  /\ IdleCall.during = {} /\ ~IdleCall.existed
<1>1. <<>> \in Seq(SUBSET {"follows", "settings", "content"})
  OBVIOUS
<1> QED BY <1>1, NoMomentType DEF IdleCall, CallType

(***************************************************************************)
(* Witnessing.                                                              *)
(***************************************************************************)
\* One more moment takes nothing back.
LEMMA SoundLonger ==
  ASSUME NEW k \in CallType, NEW n, NEW m \in Moment, Sound(k, n)
  PROVE  LET w == IF Rests(k) THEN k ELSE [k EXCEPT !.during = k.during \cup {m}]
         IN  w \in CallType /\ Sound(w, m) /\ w.pc = k.pc /\ w.existed = k.existed
<1>1. CASE Rests(k)
  BY <1>1 DEF Sound
<1>2. CASE ~Rests(k)
  <2> DEFINE w == [k EXCEPT !.during = k.during \cup {m}]
  <2>1. /\ w \in CallType /\ w.pc = k.pc /\ w.existed = k.existed /\ w.source = k.source
        /\ w.shown = k.shown /\ w.read = k.read /\ w.queries = k.queries /\ w.to = k.to
        /\ w.during = k.during \cup {m}
    BY DEF CallType
  <2> HIDE DEF w
  <2>2. HasRead(k) => HasRead(w)
    BY <2>1 DEF HasRead, Awaits
  <2>3. k.pc # "answered"
    BY <1>2 DEF Rests
  <2>4. Sound(w, m)
    BY <2>1, <2>2, <2>3 DEF Sound
  <2> QED BY <1>2, <2>1, <2>4 DEF w
<1> QED BY <1>1, <1>2

LEMMA WitnessSound ==
  ASSUME NEW calls \in [Calls -> CallType], NEW n, NEW m \in Moment,
         \A c \in Calls : Sound(calls[c], n)
  PROVE  /\ Witness(calls, m) \in [Calls -> CallType]
         /\ \A c \in Calls : Sound(Witness(calls, m)[c], m)
         /\ Untold(Witness(calls, m)) = Untold(calls)
<1> DEFINE W(k) == IF Rests(k) THEN k ELSE [k EXCEPT !.during = k.during \cup {m}]
<1>1. \A c \in Calls : /\ W(calls[c]) \in CallType /\ Sound(W(calls[c]), m)
                       /\ W(calls[c]).pc = calls[c].pc
                       /\ W(calls[c]).existed = calls[c].existed
  BY SoundLonger
<1>2. Witness(calls, m) = [c \in Calls |-> W(calls[c])]
  BY DEF Witness
<1> HIDE DEF W
<1> QED BY <1>1, <1>2 DEF Untold

(***************************************************************************)
(* What a step does to the calls.                                           *)
(***************************************************************************)
LEMMA GoType ==
  ASSUME Inv, NEW c \in Calls, NEW k \in CallType
  PROVE  /\ Go(c, k) \in [Calls -> CallType] /\ Go(c, k)[c] = k
         /\ \A d \in Calls \ {c} : Go(c, k)[d] = call[d]
  BY DEF Inv, TypeOK, Go

\* A call that does not begin to owe news at most pays what it owes.
LEMMA NewsPaid ==
  ASSUME Inv, NEW c \in Calls, NEW k \in CallType,
         NEW calls, calls = Go(c, k), Untold(call') = Untold(calls),
         k.pc = "follow" => k.existed, created' = created,
         told' = told \/ (told' = told + 1 /\ c \in Untold(call))
  PROVE  NewsCount' /\ told' \in Nat
<1>1. Untold(calls) = Untold(call) \ {c}
  BY GoType DEF Untold
<1>2. /\ IsFiniteSet(Untold(call) \ {c})
      /\ Cardinality(Untold(call) \ {c}) = IF c \in Untold(call) THEN Cardinality(Untold(call)) - 1
                                            ELSE Cardinality(Untold(call))
  BY FS_RemoveElement DEF Inv, NewsCount
<1>3. /\ Cardinality(Untold(call)) \in Nat /\ told \in Nat /\ created \in Nat
      /\ told + Cardinality(Untold(call)) <= created
  BY FS_CardinalityType DEF Inv, NewsCount, TypeOK
<1>4. told' + Cardinality(Untold(call) \ {c}) <= created' /\ told' \in Nat
  BY <1>2, <1>3
<1> QED BY <1>1, <1>2, <1>4 DEF NewsCount

LEMMA SoundGo ==
  ASSUME Inv, NEW c \in Calls, NEW k \in CallType, Sound(k, Now)
  PROVE  \A d \in Calls : Sound(Go(c, k)[d], Now)
<1> TAKE d \in Calls
<1>1. Sound(call[d], Now)
  BY DEF Inv, CallsSound
<1>2. Go(c, k)[c] = k /\ \A e \in Calls \ {c} : Go(c, k)[e] = call[e]
  BY GoType
<1>3. CASE d = c
  BY <1>2, <1>3
<1>4. CASE d # c
  BY <1>1, <1>2, <1>4
<1> QED BY <1>3, <1>4

\* One call steps and nothing that readers read changes.
LEMMA CallStep ==
  ASSUME Inv, NEW c \in Calls, NEW k \in CallType, call' = Go(c, k), Sound(k, Now),
         k.pc = "follow" => k.existed,
         UNCHANGED <<content, created, changes>>,
         told' = told \/ (told' = told + 1 /\ c \in Untold(call))
  PROVE  Inv'
<1>1. NewsCount' /\ told' \in Nat
  BY NewsPaid
<1>2. Now' = Now
  BY DEF Now, content
<1>3. call' \in [Calls -> CallType] /\ CallsSound'
  <2>1. \A d \in Calls : Sound(call'[d], Now)
    BY SoundGo
  <2> QED BY <1>2, <2>1, GoType DEF CallsSound
<1> QED BY <1>1, <1>3 DEF Inv, TypeOK, content

\* One call steps, and what readers read changes.
LEMMA ContentStep ==
  ASSUME Inv, NEW calls \in [Calls -> CallType], NEW m \in Moment,
         \A c \in Calls : Sound(calls[c], Now), call' = Witness(calls, m), Now' = m
  PROVE  call' \in [Calls -> CallType] /\ CallsSound' /\ Untold(call') = Untold(calls)
<1>1. /\ call' \in [Calls -> CallType] /\ Untold(call') = Untold(calls)
      /\ \A c \in Calls : Sound(call'[c], m)
  BY WitnessSound
<1> QED BY <1>1 DEF CallsSound

\* A call that neither reads nor tells.
LEMMA QuietSound ==
  ASSUME NEW k, k.during = {}, k.source = "none", NEW n,
         k.pc \notin {"read", "visit", "followers", "publish", "told", "create"}
  PROVE  Sound(k, n)
  BY DEF Sound, Rests

(***************************************************************************)
(* The steps.                                                               *)
(***************************************************************************)
LEMMA InitInv == Init => Inv
<1> SUFFICES ASSUME Init PROVE Inv
  OBVIOUS
<1>1. TypeOK
  BY IdleType, ConstantsAssumption
     DEF Init, TypeOK, SettingsType, ContentVisibility, GuideVisibility
<1>2. \A c \in Calls : call[c] = IdleCall
  BY DEF Init
<1>3. CallsSound
  BY <1>2, IdleType, QuietSound DEF CallsSound
<1>4. Untold(call) = {}
  BY <1>2, IdleType DEF Untold
<1>5. NewsCount
  BY <1>4, FS_EmptySet DEF NewsCount, Init
<1> QED BY <1>1, <1>3, <1>5 DEF Inv

LEMMA FollowUserInv == ASSUME Inv, NEW c \in Calls, FollowUser(c) PROVE Inv'
<1> DEFINE k == Begin("find")
<1>1. /\ k \in CallType /\ k.pc = "find" /\ k.during = {} /\ k.source = "none"
  BY BeginType, NoMomentType
<1>2. call' = Go(c, k)
  BY DEF FollowUser
<1> HIDE DEF k
<1>3. Sound(k, Now)
  BY <1>1, QuietSound
<1> QED BY <1>1, <1>2, <1>3, CallStep DEF FollowUser, counts

\* A call that has not begun to read or to tell.
LEMMA QuietCall ==
  ASSUME Inv, NEW c \in Calls, call[c].pc \in {"find", "create", "follow", "unfollow"}
  PROVE  call[c] \in CallType /\ call[c].source = "none"
  BY DEF Inv, TypeOK, CallsSound, Sound

LEMMA EndInv == ASSUME Inv, NEW c \in Calls, End(c) PROVE Inv'
<1>1. Sound(IdleCall, Now)
  BY IdleType, QuietSound
<1> QED BY <1>1, IdleType, CallStep DEF End, counts

LEMMA FindFollowInv == ASSUME Inv, NEW c \in Calls, FindFollow(c) PROVE Inv'
<1> DEFINE pc == IF follows THEN "follow" ELSE "create"
           k  == [call[c] EXCEPT !.existed = follows, !.pc = pc]
<1>0. /\ call[c].pc = "find" /\ call[c] \in CallType /\ call[c].source = "none"
      /\ Sound(call[c], Now)
  BY QuietCall DEF FindFollow, Inv, CallsSound
<1>1. /\ call' = Go(c, k) /\ pc \in {"follow", "create"} /\ follows \in BOOLEAN
      /\ (follows <=> pc = "follow")
  BY DEF FindFollow, Inv, TypeOK
<1> HIDE DEF pc
<1>2. /\ k \in CallType /\ k.pc = pc /\ k.source = "none" /\ k.during = call[c].during
      /\ k.existed = follows
  BY <1>0, <1>1 DEF CallType
<1> HIDE DEF k
<1>3. Sound(k, Now)
  BY <1>0, <1>1, <1>2 DEF Sound, Rests
<1> QED BY <1>1, <1>2, <1>3, CallStep DEF FindFollow, counts

LEMMA CreateFollowInv == ASSUME Inv, NEW c \in Calls, CreateFollow(c) PROVE Inv'
<1>0. /\ call[c].pc = "create" /\ call[c] \in CallType /\ call[c].source = "none"
      /\ Sound(call[c], Now)
  BY QuietCall DEF CreateFollow, Inv, CallsSound
<1>1. CASE follows
  <2> DEFINE k == [call[c] EXCEPT !.pc = "failed"]
  <2>1. call' = Go(c, k)
    BY <1>1 DEF CreateFollow
  <2>2. /\ k \in CallType /\ k.pc = "failed" /\ k.source = "none"
        /\ k.during = call[c].during
    BY <1>0 DEF CallType
  <2> HIDE DEF k
  <2>3. Sound(k, Now)
    BY <1>0, <2>2 DEF Sound, Rests
  <2>4. UNCHANGED <<content, created, changes>> /\ told' = told
    BY <1>1 DEF CreateFollow, content
  <2> QED BY <2>1, <2>2, <2>3, <2>4, CallStep
<1>2. CASE ~follows
  <2> DEFINE k == [call[c] EXCEPT !.pc = "follow"]
             m == [Now EXCEPT !.follows = TRUE]
  <2>1. call' = Witness(Go(c, k), m) /\ created' = created + 1
    BY <1>2 DEF CreateFollow
  <2>2. /\ k \in CallType /\ k.pc = "follow" /\ k.source = "none"
        /\ k.during = call[c].during /\ k.existed = call[c].existed
    BY <1>0 DEF CallType
  <2>a. m = [follows |-> TRUE, settings |-> settings, guide |-> guide]
    BY FollowMoment DEF Inv
  <2>3. m \in Moment /\ Now' = m
    <3>1. m \in Moment
      BY <2>a DEF Inv, TypeOK, Moment
    <3>2. Now' = [follows |-> TRUE, settings |-> settings, guide |-> guide]
      BY <1>2 DEF CreateFollow, Now
    <3> QED BY <2>a, <3>1, <3>2
  <2> HIDE DEF k, m
  <2>4. Sound(k, Now) /\ ~k.existed
    BY <1>0, <2>2 DEF Sound, Rests
  <2>5. /\ call' \in [Calls -> CallType] /\ CallsSound'
        /\ Untold(call') = Untold(Go(c, k))
    <3>1. Go(c, k) \in [Calls -> CallType] /\ \A d \in Calls : Sound(Go(c, k)[d], Now)
      BY <2>2, <2>4, GoType, SoundGo
    <3> QED BY <2>1, <2>3, <3>1, ContentStep
  <2>6. Untold(call') = Untold(call) \cup {c} /\ c \notin Untold(call)
    <3>1. Untold(Go(c, k)) = Untold(call) \cup {c}
      BY <2>2, <2>4, GoType DEF Untold
    <3> QED BY <1>0, <2>5, <3>1 DEF Untold
  <2>7. /\ IsFiniteSet(Untold(call')) /\ told' = told
        /\ Cardinality(Untold(call')) = Cardinality(Untold(call)) + 1
    BY <2>6, FS_AddElement DEF Inv, NewsCount, CreateFollow
  <2>8. Cardinality(Untold(call)) \in Nat /\ told \in Nat /\ created \in Nat
        /\ told + Cardinality(Untold(call)) <= created
    BY FS_CardinalityType DEF Inv, NewsCount, TypeOK
  <2>9. NewsCount'
    BY <2>1, <2>7, <2>8 DEF NewsCount
  <2>10. follows' \in BOOLEAN /\ created' \in Nat
    BY <1>2, <2>1, <2>8 DEF CreateFollow
  <2> QED BY <2>5, <2>9, <2>10 DEF CreateFollow, Inv, TypeOK
<1> QED BY <1>1, <1>2 DEF Inv, TypeOK

LEMMA AnswerFollowInv == ASSUME Inv, NEW c \in Calls, AnswerFollow(c) PROVE Inv'
<1> DEFINE k == [call[c] EXCEPT !.pc = "answered"]
<1>0. /\ call[c].pc = "follow" /\ call[c] \in CallType /\ call[c].source = "none"
      /\ Sound(call[c], Now)
  BY QuietCall DEF AnswerFollow, Inv, CallsSound
<1>1. call' = Go(c, k)
  BY DEF AnswerFollow
<1>2. /\ k \in CallType /\ k.pc = "answered" /\ k.source = "none"
      /\ k.during = call[c].during
  BY <1>0 DEF CallType
<1> HIDE DEF k
<1>3. Sound(k, Now)
  BY <1>0, <1>2 DEF Sound, Rests
<1>4. told' = told \/ (told' = told + 1 /\ c \in Untold(call))
  BY <1>0 DEF AnswerFollow, Untold, Inv, TypeOK
<1>5. UNCHANGED <<content, created, changes>>
  BY DEF AnswerFollow
<1> QED BY <1>1, <1>2, <1>3, <1>4, <1>5, CallStep

LEMMA UnfollowUserInv == ASSUME Inv, NEW c \in Calls, UnfollowUser(c) PROVE Inv'
<1> DEFINE k == Begin("unfollow")
           m == [Now EXCEPT !.follows = FALSE]
<1>1. /\ k \in CallType /\ k.pc = "unfollow" /\ k.during = {} /\ k.source = "none"
  BY BeginType, NoMomentType
<1>a. m = [follows |-> FALSE, settings |-> settings, guide |-> guide]
  BY FollowMoment DEF Inv
<1>2. m \in Moment /\ Now' = m
  <2>1. m \in Moment
    BY <1>a DEF Inv, TypeOK, Moment
  <2>2. Now' = [follows |-> FALSE, settings |-> settings, guide |-> guide]
    BY DEF UnfollowUser, Now
  <2> QED BY <1>a, <2>1, <2>2
<1>3. call' = Witness(Go(c, k), m)
  BY DEF UnfollowUser
<1> HIDE DEF k, m
<1>4. Sound(k, Now)
  BY <1>1, QuietSound
<1>5. /\ call' \in [Calls -> CallType] /\ CallsSound' /\ Untold(call') = Untold(Go(c, k))
  <2>1. Go(c, k) \in [Calls -> CallType] /\ \A d \in Calls : Sound(Go(c, k)[d], Now)
    BY <1>1, <1>4, GoType, SoundGo
  <2> QED BY <1>2, <1>3, <2>1, ContentStep
<1>6. NewsCount' /\ told' \in Nat
  BY <1>1, <1>5, NewsPaid DEF UnfollowUser
<1>7. changes' \in 0..MaxChanges
  BY ConstantsAssumption DEF UnfollowUser, Inv, TypeOK
<1> QED BY <1>5, <1>6, <1>7 DEF UnfollowUser, Inv, TypeOK

LEMMA AnswerUnfollowInv == ASSUME Inv, NEW c \in Calls, AnswerUnfollow(c) PROVE Inv'
<1> DEFINE k == [call[c] EXCEPT !.pc = "answered"]
<1>0. /\ call[c].pc = "unfollow" /\ call[c] \in CallType /\ call[c].source = "none"
      /\ Sound(call[c], Now)
  BY QuietCall DEF AnswerUnfollow, Inv, CallsSound
<1>1. call' = Go(c, k)
  BY DEF AnswerUnfollow
<1>2. /\ k \in CallType /\ k.pc = "answered" /\ k.source = "none"
      /\ k.during = call[c].during
  BY <1>0 DEF CallType
<1> HIDE DEF k
<1>3. Sound(k, Now)
  BY <1>0, <1>2 DEF Sound, Rests
<1> QED BY <1>1, <1>2, <1>3, CallStep DEF AnswerUnfollow, counts

\* The author's settings or the guide change.
LEMMA AuthorChanges ==
  ASSUME Inv, NEW m \in Moment, Now' = m, call' = Witness(call, m),
         settings' \in SettingsType, guide' \in GuideVisibility, follows' \in BOOLEAN,
         changes' \in 0..MaxChanges, UNCHANGED <<created, told>>
  PROVE  Inv'
<1>1. call' \in [Calls -> CallType] /\ CallsSound' /\ Untold(call') = Untold(call)
  BY ContentStep DEF Inv, TypeOK, CallsSound
<1>2. NewsCount'
  BY <1>1 DEF Inv, NewsCount
<1> QED BY <1>1, <1>2 DEF Inv, TypeOK

LEMMA UpdateSocialSettingsInv ==
  ASSUME Inv, NEW s \in Patches, UpdateSocialSettings(s) PROVE Inv'
<1>1. s \in SettingsType
  BY PatchesAssumption
<1>2. [Now EXCEPT !.settings = s] \in Moment /\ Now' = [Now EXCEPT !.settings = s]
  BY <1>1, NowType DEF Inv, UpdateSocialSettings, Now, Moment
<1>3. changes' \in 0..MaxChanges
  BY ConstantsAssumption DEF UpdateSocialSettings, Inv, TypeOK
<1> QED BY <1>1, <1>2, <1>3, AuthorChanges DEF UpdateSocialSettings, Inv, TypeOK

LEMMA GuideChangesInv ==
  ASSUME Inv, NEW v \in GuideVisibility, GuideChanges(v) PROVE Inv'
<1>1. [Now EXCEPT !.guide = v] \in Moment /\ Now' = [Now EXCEPT !.guide = v]
  BY NowType DEF Inv, GuideChanges, Now, Moment
<1>2. changes' \in 0..MaxChanges
  BY ConstantsAssumption DEF GuideChanges, Inv, TypeOK
<1> QED BY <1>1, <1>2, AuthorChanges DEF GuideChanges, Inv, TypeOK

(***************************************************************************)
(* Reading.                                                                 *)
(***************************************************************************)
\* Every reader reads the fields its rule looks at.
LEMMA QueriesRead ==
  ASSUME NEW source \in Sources, NEW queries \in QueriesOf(source)
  PROVE  /\ queries \in Seq(SUBSET Fields)
         /\ source # "city" => \E i \in 1..Len(queries) : "follows" \in queries[i]
         /\ \E i \in 1..Len(queries) : "settings" \in queries[i]
         /\ \E i \in 1..Len(queries) : "content" \in queries[i]
<1> DEFINE Q1 == <<{"settings"}, {"follows"}, {"content"}>>
           Q2 == <<{"follows"}, {"settings", "content"}>>
           Q3 == <<{"settings", "content"}>>
           Q5 == <<{"content"}, {"settings"}, {"follows"}>>
           Q6 == <<{"follows", "settings", "content"}>>
           Reads(q) == /\ q \in Seq(SUBSET Fields)
                       /\ \E i \in 1..Len(q) : "follows" \in q[i]
                       /\ \E i \in 1..Len(q) : "settings" \in q[i]
                       /\ \E i \in 1..Len(q) : "content" \in q[i]
<1>1. Reads(Q1)
  <2>1. Q1 \in Seq(SUBSET Fields) /\ Len(Q1) = 3
    BY DEF Fields
  <2>2. 1 \in 1..Len(Q1) /\ 2 \in 1..Len(Q1) /\ 3 \in 1..Len(Q1)
    BY <2>1
  <2>3. "settings" \in Q1[1] /\ "follows" \in Q1[2] /\ "content" \in Q1[3]
    OBVIOUS
  <2> QED BY <2>1, <2>2, <2>3
<1>2. Reads(Q2)
  <2>1. Q2 \in Seq(SUBSET Fields) /\ Len(Q2) = 2
    BY DEF Fields
  <2>2. 1 \in 1..Len(Q2) /\ 2 \in 1..Len(Q2)
    BY <2>1
  <2>3. "follows" \in Q2[1] /\ "settings" \in Q2[2] /\ "content" \in Q2[2]
    OBVIOUS
  <2> QED BY <2>1, <2>2, <2>3
<1>3. /\ Q3 \in Seq(SUBSET Fields)
      /\ \E i \in 1..Len(Q3) : "settings" \in Q3[i]
      /\ \E i \in 1..Len(Q3) : "content" \in Q3[i]
  <2>1. Q3 \in Seq(SUBSET Fields) /\ Len(Q3) = 1
    BY DEF Fields
  <2>2. 1 \in 1..Len(Q3)
    BY <2>1
  <2>3. "settings" \in Q3[1] /\ "content" \in Q3[1]
    OBVIOUS
  <2> QED BY <2>1, <2>2, <2>3
<1>4. ASSUME NEW q \in InAnyOrder PROVE Reads(q)
  <2>1. PICK x \in Fields, y \in Fields, z \in Fields :
          q = <<{x}, {y}, {z}>> /\ {x, y, z} = Fields
    BY <1>4 DEF InAnyOrder, Fields
  <2>2. q \in Seq(SUBSET Fields) /\ Len(q) = 3
    BY <2>1
  <2>3. 1 \in 1..Len(q) /\ 2 \in 1..Len(q) /\ 3 \in 1..Len(q)
    BY <2>2
  <2>4. q[1] = {x} /\ q[2] = {y} /\ q[3] = {z}
    BY <2>1
  <2>5. \A f \in Fields : f \in q[1] \/ f \in q[2] \/ f \in q[3]
    BY <2>1, <2>4
  <2>6. "follows" \in Fields /\ "settings" \in Fields /\ "content" \in Fields
    BY DEF Fields
  <2> QED BY <2>2, <2>3, <2>5, <2>6
<1>5. Reads(Q5)
  <2>1. Q5 \in Seq(SUBSET Fields) /\ Len(Q5) = 3
    BY DEF Fields
  <2>2. 1 \in 1..Len(Q5) /\ 2 \in 1..Len(Q5) /\ 3 \in 1..Len(Q5)
    BY <2>1
  <2>3. "content" \in Q5[1] /\ "settings" \in Q5[2] /\ "follows" \in Q5[3]
    OBVIOUS
  <2> QED BY <2>1, <2>2, <2>3
<1>6. Reads(Q6)
  <2>1. Q6 \in Seq(SUBSET Fields) /\ Len(Q6) = 1
    BY DEF Fields
  <2>2. 1 \in 1..Len(Q6)
    BY <2>1
  <2>3. "follows" \in Q6[1] /\ "settings" \in Q6[1] /\ "content" \in Q6[1]
    OBVIOUS
  <2> QED BY <2>1, <2>2, <2>3
<1>7. \/ source = "city" /\ queries = Q3
      \/ source # "city" /\ queries \in {Q1, Q2, Q5, Q6}
      \/ source = "context" /\ queries \in InAnyOrder
  BY DEF QueriesOf, Sources
<1> HIDE DEF Q1, Q2, Q3, Q5, Q6
<1> QED BY <1>1, <1>2, <1>3, <1>4, <1>5, <1>6, <1>7

LEMMA LookInv ==
  ASSUME Inv, NEW c \in Calls, NEW source \in Sources, NEW queries \in QueriesOf(source),
         Look(c, source, queries)
  PROVE  Inv'
<1> DEFINE b == BeginAt("read", Now)
           k == [b EXCEPT !.source = source, !.queries = queries]
<1>1. /\ b \in CallType /\ b.pc = "read" /\ b.during = {Now}
  BY BeginType, NowType DEF Inv
<1>2. call' = Go(c, k)
  BY DEF Look
<1> HIDE DEF b
<1>3. /\ k \in CallType /\ k.pc = "read" /\ k.during = {Now} /\ k.source = source
      /\ k.queries = queries
  BY <1>1, QueriesRead DEF CallType, Fields
<1> HIDE DEF k
<1>4. HasRead(k)
  BY <1>3, QueriesRead DEF HasRead, Awaits
<1>5. Sound(k, Now)
  <2>1. source # "none"
    BY DEF Sources
  <2> QED BY <1>3, <1>4, <2>1 DEF Sound
<1> QED BY <1>2, <1>3, <1>5, CallStep DEF Look, counts

LEMMA QueryFacts ==
  ASSUME TypeOK, NEW m \in Moment, NEW what
  PROVE  /\ Query(m, what) \in Moment
         /\ Query(m, what).follows = IF "follows" \in what THEN Now.follows ELSE m.follows
         /\ Query(m, what).settings = IF "settings" \in what THEN Now.settings ELSE m.settings
         /\ Query(m, what).guide = IF "content" \in what THEN Now.guide ELSE m.guide
<1>1. Now.follows = follows /\ Now.settings = settings /\ Now.guide = guide
  BY DEF Now
<1> DEFINE f == IF "follows" \in what THEN follows ELSE m.follows
           s == IF "settings" \in what THEN settings ELSE m.settings
           g == IF "content" \in what THEN guide ELSE m.guide
<1>2. f \in BOOLEAN /\ s \in SettingsType /\ g \in GuideVisibility
  BY DEF TypeOK, Moment
<1>3. Query(m, what) = [follows |-> f, settings |-> s, guide |-> g]
  BY DEF Query
<1> HIDE DEF f, s, g
<1>4. /\ Query(m, what) \in Moment /\ Query(m, what).follows = f
      /\ Query(m, what).settings = s /\ Query(m, what).guide = g
  BY <1>2, <1>3 DEF Moment
<1> QED BY <1>1, <1>4 DEF f, s, g

\* What a call awaits after its next query it awaited before.
LEMMA AwaitsTail ==
  ASSUME NEW k \in CallType, k.queries # <<>>, NEW w, w.queries = Tail(k.queries),
         NEW field, Awaits(k, field), field \notin Head(k.queries)
  PROVE  Awaits(w, field)
<1> DEFINE q == k.queries
<1>1. q \in Seq(SUBSET {"follows", "settings", "content"}) /\ q # <<>>
  BY DEF CallType
<1>2. PICK i \in 1..Len(q) : field \in q[i]
  BY DEF Awaits
<1>3. /\ Head(q) = q[1] /\ Len(q) \in Nat /\ Tail(q) \in Seq(SUBSET {"follows", "settings", "content"})
      /\ Len(Tail(q)) = Len(q) - 1 /\ \A j \in 1..Len(Tail(q)) : Tail(q)[j] = q[j + 1]
  BY <1>1, HeadTailProperties
<1> HIDE DEF q
<1>4. i # 1 /\ i \in Nat
  BY <1>2, <1>3 DEF q
<1>5. i - 1 \in 1..Len(Tail(q)) /\ Tail(q)[i - 1] = q[i]
  BY <1>2, <1>3, <1>4
<1> QED BY <1>2, <1>5 DEF Awaits, q

LEMMA ReadNextInv == ASSUME Inv, NEW c \in Calls, ReadNext(c) PROVE Inv'
<1> DEFINE k == call[c]
           what == Head(k.queries)
           read == Query(k.read, what)
           rest == Tail(k.queries)
           w == [k EXCEPT !.read = read, !.queries = rest]
<1>0. /\ k.pc = "read" /\ k.queries # <<>> /\ k \in CallType /\ Sound(k, Now)
      /\ call' = Go(c, w)
  BY DEF ReadNext, Inv, TypeOK, CallsSound
<1>1. k.read \in Moment /\ k.queries \in Seq(SUBSET {"follows", "settings", "content"})
  BY <1>0 DEF CallType
<1>2. rest \in Seq(SUBSET {"follows", "settings", "content"})
  BY <1>0, <1>1, HeadTailProperties
<1>3. /\ read \in Moment
      /\ read.follows = IF "follows" \in what THEN Now.follows ELSE k.read.follows
      /\ read.settings = IF "settings" \in what THEN Now.settings ELSE k.read.settings
      /\ read.guide = IF "content" \in what THEN Now.guide ELSE k.read.guide
  BY <1>1, QueryFacts DEF Inv
<1> HIDE DEF read, rest, k
<1>4. /\ w \in CallType /\ w.pc = "read" /\ w.source = k.source /\ w.during = k.during
      /\ w.read = read /\ w.queries = rest
  BY <1>0, <1>2, <1>3 DEF CallType
<1> HIDE DEF w
<1>5. /\ Awaits(k, "follows") /\ "follows" \notin what => Awaits(w, "follows")
      /\ Awaits(k, "settings") /\ "settings" \notin what => Awaits(w, "settings")
      /\ Awaits(k, "content") /\ "content" \notin what => Awaits(w, "content")
  BY <1>0, <1>4, AwaitsTail DEF rest
<1>6. Now \in k.during /\ HasRead(k) /\ k.source # "none"
  BY <1>0 DEF Sound, Rests
<1> HIDE DEF what
<1>7. HasRead(w)
  BY <1>3, <1>4, <1>5, <1>6 DEF HasRead
<1>8. Sound(w, Now)
  BY <1>0, <1>4, <1>6, <1>7 DEF Sound
<1> QED BY <1>0, <1>4, <1>8, CallStep DEF ReadNext, counts

\* The code's rules, each a case of the rule of one moment.
LEMMA ShowsRule ==
  ASSUME NEW source \in Sources, NEW m \in Moment, Shows(source, m)
  PROVE  /\ Setting(source, m) \in {"public", "followers"}
         /\ Setting(source, m) = "public" \/ (source # "city" /\ m.follows)
         /\ source \notin Activity => m.guide # "private"
  BY DEF Shows, Sources, Activity, Setting, Moment, UserVisitsShow, NetworkFeedShows,
     NearbyFeedShows, NowFeedShows, CityFeedShows, PlaceContextShows, DiaryShows,
     UserDiariesShow, CanViewContent, CanViewDiary, SearchFinds

LEMMA ShowsAll ==
  ASSUME NEW source \in Sources \ {"network", "city"}, NEW m \in Moment
  PROVE  Shows(source, m) <=>
           (/\ \/ Setting(source, m) = "public"
               \/ Setting(source, m) = "followers" /\ m.follows
            /\ \/ source \in Activity \/ m.guide = "public"
               \/ m.guide = "unlisted" /\ source = "getDiary")
  BY DEF Shows, Sources, Activity, Setting, Moment, UserVisitsShow,
     NearbyFeedShows, NowFeedShows, PlaceContextShows, DiaryShows,
     UserDiariesShow, CanViewContent, CanViewDiary, SearchFinds

LEMMA ShowsBoolean ==
  ASSUME NEW source \in Sources, NEW m \in Moment
  PROVE  Shows(source, m) \in BOOLEAN
  BY DEF Shows, Sources, Moment, UserVisitsShow, NetworkFeedShows,
     NearbyFeedShows, NowFeedShows, CityFeedShows, PlaceContextShows, DiaryShows,
     UserDiariesShow, CanViewContent, CanViewDiary, SearchFinds

\* A moment reads the setting as Setting does.
LEMMA SettingReads ==
  ASSUME NEW source, NEW m, NEW n, m.settings = n.settings
  PROVE  Setting(source, m) = Setting(source, n)
  BY DEF Setting

LEMMA ShowJustified ==
  ASSUME NEW k \in CallType, k.source # "none", k.queries = <<>>, k.during # {}, HasRead(k),
         NEW w, w.source = k.source, w.during = k.during, w.shown = Shows(k.source, k.read),
         w.listed = (k.source = "context" /\ AppearancesShow(k.read))
  PROVE  Justified(w)
<1>1. k.source \in Sources /\ k.read \in Moment /\ k.during \subseteq Moment
  BY DEF CallType
<1>2. \A field : ~Awaits(k, field)
  BY DEF Awaits
<1>3. /\ k.source # "city" => \E m \in k.during : m.follows = k.read.follows
      /\ \E m \in k.during : m.settings = k.read.settings
      /\ \E m \in k.during : m.guide = k.read.guide
  BY <1>2 DEF HasRead
<1>4. PICK ms \in k.during : Setting(k.source, ms) = Setting(k.source, k.read)
  BY <1>3, SettingReads
<1>5. ASSUME w.shown
      PROVE  /\ Setting(k.source, ms) \in {"public", "followers"}
             /\ Setting(k.source, ms) = "public" \/ (k.source # "city" /\ k.read.follows)
             /\ k.source \notin Activity => k.read.guide # "private"
  BY <1>1, <1>4, <1>5, ShowsRule
<1>6. (\A m \in k.during : Setting(k.source, m) = "private") => ~w.shown
  BY <1>4, <1>5
<1>7. (\A m \in k.during : Setting(k.source, m) # "public" /\ ~m.follows) => ~w.shown
  BY <1>3, <1>4, <1>5
<1>8. k.source \notin Activity /\ (\A m \in k.during : m.guide = "private") => ~w.shown
  BY <1>3, <1>5
<1>9. ASSUME NEW m \in k.during, k.during = {m}, k.source \notin {"network", "city"}
      PROVE  w.shown = (/\ \/ Setting(k.source, m) = "public"
                           \/ Setting(k.source, m) = "followers" /\ m.follows
                        /\ \/ k.source \in Activity \/ m.guide = "public"
                           \/ m.guide = "unlisted" /\ k.source = "getDiary")
  <2>1. /\ m.follows = k.read.follows /\ m.settings = k.read.settings
        /\ m.guide = k.read.guide /\ m \in Moment
    BY <1>1, <1>3, <1>9
  <2>2. m = k.read
    BY <1>1, <2>1 DEF Moment
  <2>3. w.shown \in BOOLEAN
    BY <1>1, ShowsBoolean
  <2> DEFINE rule == (/\ \/ Setting(k.source, m) = "public"
                         \/ Setting(k.source, m) = "followers" /\ m.follows
                      /\ \/ k.source \in Activity \/ m.guide = "public"
                         \/ m.guide = "unlisted" /\ k.source = "getDiary")
  <2>4. k.source \in Sources \ {"network", "city"}
    BY <1>1, <1>9
  <2>5. Shows(k.source, m) <=> rule
    BY <2>1, <2>4, ShowsAll
  <2>6. rule \in BOOLEAN
    OBVIOUS
  <2> HIDE DEF rule
  <2>7. w.shown = rule
    BY <2>2, <2>3, <2>5, <2>6
  <2> QED BY <2>7 DEF rule
<1>10. w.listed <=> (k.source = "context" /\ k.read.guide = "public")
  BY DEF AppearancesShow
<1>11. (\A m \in k.during : m.guide # "public") => ~w.listed
  BY <1>3, <1>10
<1>12. k.source = "context" /\ (\A m \in k.during : m.guide = "public") => w.listed
  BY <1>3, <1>10
<1> QED BY <1>6, <1>7, <1>8, <1>9, <1>11, <1>12 DEF Justified

LEMMA ShowInv == ASSUME Inv, NEW c \in Calls, Show(c) PROVE Inv'
<1> DEFINE k == call[c]
           shown == Shows(k.source, k.read)
           listed == k.source = "context" /\ AppearancesShow(k.read)
           w == [k EXCEPT !.pc = "answered", !.read = NoMoment, !.shown = shown,
                          !.listed = listed]
<1>0. /\ k.pc = "read" /\ k.queries = <<>> /\ k \in CallType /\ Sound(k, Now)
      /\ call' = Go(c, w)
  BY DEF Show, Inv, TypeOK, CallsSound
<1> HIDE DEF k
<1>1. /\ k.source # "none" /\ k.during # {} /\ HasRead(k) /\ Now \in k.during
      /\ k.source \in Sources /\ k.read \in Moment
  BY <1>0 DEF Sound, Rests, CallType
<1>2. shown \in BOOLEAN
  BY <1>1, ShowsBoolean
<1> HIDE DEF shown
<1>2a. listed \in BOOLEAN
  OBVIOUS
<1> HIDE DEF listed
<1>3. /\ w \in CallType /\ w.pc = "answered" /\ w.source = k.source /\ w.during = k.during
      /\ w.shown = shown /\ w.listed = listed
  BY <1>0, <1>2, <1>2a, NoMomentType DEF CallType
<1> HIDE DEF w
<1>4. Justified(w)
  BY <1>0, <1>1, <1>3, ShowJustified DEF shown, listed
<1>5. Sound(w, Now)
  BY <1>1, <1>3, <1>4 DEF Sound
<1> QED BY <1>0, <1>3, <1>5, CallStep DEF Show, counts

(***************************************************************************)
(* The news of a visit.                                                     *)
(***************************************************************************)
LEMMA CreateVisitInv == ASSUME Inv, NEW c \in Calls, CreateVisit(c) PROVE Inv'
<1> DEFINE b == BeginAt("visit", Now)
           k == [b EXCEPT !.user = Author]
<1>1. /\ b \in CallType /\ b.pc = "visit" /\ b.during = {Now} /\ b.source = "none"
  BY BeginType, NowType DEF Inv
<1>2. call' = Go(c, k)
  BY DEF CreateVisit
<1> HIDE DEF b
<1>3. /\ k \in CallType /\ k.pc = "visit" /\ k.during = {Now} /\ k.source = "none"
  BY <1>1 DEF CallType
<1> HIDE DEF k
<1>4. Sound(k, Now)
  BY <1>3 DEF Sound
<1> QED BY <1>2, <1>3, <1>4, CallStep DEF CreateVisit, counts

LEMMA ReadOwnSettingsInv == ASSUME Inv, NEW c \in Calls, ReadOwnSettings(c) PROVE Inv'
<1> DEFINE pc == IF settings.activity = "private" THEN "answered" ELSE "followers"
           k == [call[c] EXCEPT !.pc = pc]
<1>0. /\ call[c].pc = "visit" /\ call[c] \in CallType /\ Sound(call[c], Now)
      /\ call' = Go(c, k)
  BY DEF ReadOwnSettings, Inv, TypeOK, CallsSound
<1>1. pc \in {"answered", "followers"} /\ (pc = "followers" => Now.settings.activity # "private")
  BY DEF Now
<1> HIDE DEF pc
<1>2. /\ k \in CallType /\ k.pc = pc /\ k.during = call[c].during
      /\ k.source = call[c].source
  BY <1>0, <1>1 DEF CallType
<1> HIDE DEF k
<1>3. Sound(k, Now)
  BY <1>0, <1>1, <1>2 DEF Sound, Rests
<1> QED BY <1>0, <1>1, <1>2, <1>3, CallStep DEF ReadOwnSettings, counts

LEMMA ReadFollowersInv == ASSUME Inv, NEW c \in Calls, ReadFollowers(c) PROVE Inv'
<1> DEFINE to == IF follows THEN {Viewer} ELSE {}
           k == [call[c] EXCEPT !.pc = "publish", !.to = to]
<1>0. /\ call[c].pc = "followers" /\ call[c] \in CallType /\ Sound(call[c], Now)
      /\ call' = Go(c, k)
  BY DEF ReadFollowers, Inv, TypeOK, CallsSound
<1>1. to \subseteq {Viewer} /\ (to # {} => Now.follows)
  BY DEF Now
<1> HIDE DEF to
<1>2. /\ k \in CallType /\ k.pc = "publish" /\ k.during = call[c].during
      /\ k.source = call[c].source /\ k.to = to
  BY <1>0, <1>1 DEF CallType
<1> HIDE DEF k
<1>3. Sound(k, Now)
  BY <1>0, <1>1, <1>2 DEF Sound, Rests
<1> QED BY <1>0, <1>2, <1>3, CallStep DEF ReadFollowers, counts

LEMMA PublishVisitInv == ASSUME Inv, NEW c \in Calls, PublishVisit(c) PROVE Inv'
<1> DEFINE k == [call[c] EXCEPT !.pc = "told"]
<1>0. /\ call[c].pc = "publish" /\ call[c] \in CallType /\ Sound(call[c], Now)
      /\ call' = Go(c, k)
  BY DEF PublishVisit, Inv, TypeOK, CallsSound
<1>1. /\ k \in CallType /\ k.pc = "told" /\ k.during = call[c].during
      /\ k.source = call[c].source /\ k.to = call[c].to
  BY <1>0 DEF CallType
<1> HIDE DEF k
<1>2. Sound(k, Now)
  BY <1>0, <1>1 DEF Sound, Rests
<1> QED BY <1>0, <1>1, <1>2, CallStep DEF PublishVisit, counts

LEMMA NextInv == Inv /\ [Next]_vars => Inv'
<1> SUFFICES ASSUME Inv, [Next]_vars PROVE Inv'
  OBVIOUS
<1>1. ASSUME NEW c \in Calls,
             \/ FollowUser(c) \/ FindFollow(c) \/ CreateFollow(c) \/ AnswerFollow(c)
             \/ UnfollowUser(c) \/ AnswerUnfollow(c) \/ End(c)
      PROVE  Inv'
  BY <1>1, FollowUserInv, FindFollowInv, CreateFollowInv, AnswerFollowInv,
     UnfollowUserInv, AnswerUnfollowInv, EndInv
<1>2. ASSUME NEW c \in Calls,
             \/ \E s \in Sources : \E q \in QueriesOf(s) : Look(c, s, q)
             \/ ReadNext(c) \/ Show(c)
      PROVE  Inv'
  BY <1>2, LookInv, ReadNextInv, ShowInv
<1>3. ASSUME NEW c \in Calls,
             CreateVisit(c) \/ ReadOwnSettings(c) \/ ReadFollowers(c) \/ PublishVisit(c)
      PROVE  Inv'
  BY <1>3, CreateVisitInv, ReadOwnSettingsInv, ReadFollowersInv, PublishVisitInv
<1>4. ASSUME NEW s \in Patches, UpdateSocialSettings(s) PROVE Inv'
  BY <1>4, UpdateSocialSettingsInv
<1>5. ASSUME NEW v \in GuideVisibility, GuideChanges(v) PROVE Inv'
  BY <1>5, GuideChangesInv
<1>6. CASE UNCHANGED vars
  <2>1. Now' = Now /\ call' = call
    BY <1>6 DEF vars, Now
  <2> QED BY <1>6, <2>1 DEF vars, Inv, TypeOK, CallsSound, NewsCount, Untold
<1> QED BY <1>1, <1>2, <1>3, <1>4, <1>5, <1>6 DEF Next

LEMMA Invariance == Spec => []Inv
  BY InitInv, NextInv, PTL DEF Spec

(***************************************************************************)
(* The theorems.                                                            *)
(***************************************************************************)
\* Every variable and every call keeps its type.
THEOREM TypeCorrect == Spec => []TypeOK
<1>1. Inv => TypeOK
  BY DEF Inv
<1> QED BY <1>1, Invariance, PTL

\* What a reader may not see at any moment of its request it is not shown,
\* whichever query comes first and whatever the author and the viewer change in
\* between (canViewContent, canViewDiary and the repositories' where clauses).
THEOREM PrivacyHolds == Spec => []ForbiddenIsHidden
<1>1. Inv => ForbiddenIsHidden
  BY DEF Inv, CallsSound, Sound, Justified, ForbiddenIsHidden
<1> QED BY <1>1, Invariance, PTL

\* No more follow notifications than follow rows (followUser).
THEOREM FollowNewsAreNew == Spec => []FollowNewsIsNew
<1>1. Inv => FollowNewsIsNew
  <2> SUFFICES ASSUME Inv PROVE told <= created
    BY DEF FollowNewsIsNew
  <2>1. /\ Cardinality(Untold(call)) \in Nat /\ told \in Nat /\ created \in Nat
        /\ told + Cardinality(Untold(call)) <= created
    BY FS_CardinalityType DEF Inv, NewsCount, TypeOK
  <2> QED BY <2>1
<1> QED BY <1>1, Invariance, PTL

\* Whoever hears of a visit followed its author at some moment of the call, and
\* the author's activity was not private all through it (visits create).
THEOREM VisitNewsReachFollowers == Spec => []VisitNewsForFollowers
<1>1. Inv => VisitNewsForFollowers
  BY DEF Inv, CallsSound, Sound, VisitNewsForFollowers
<1> QED BY <1>1, Invariance, PTL

(***************************************************************************)
(* Guides: the news of a publication and the order of the places, for any   *)
(* number of concurrent requests, places, edits and moves.  Guides shares   *)
(* no state with the relationships above.                                   *)
(***************************************************************************)
Less == {ss \in Nat \X Nat : ss[1] < ss[2]}

LEMMA LessWellFounded == IsWellFoundedOn(Less, Nat)
BY NatLessThanWellFounded DEF OpToRel, Less

LEMMA Smallest ==
  ASSUME NEW S \in SUBSET Nat, S # {}
  PROVE  \E n \in S : \A m \in S : n <= m
<1>1. \E n \in S : \A m \in S : ~ (<<m, n>> \in Less)
  BY LessWellFounded, WFMin
<1>2. \A m, n \in S : <<m, n>> \notin Less => n <= m
  BY DEF Less
<1> QED BY <1>1, <1>2

Stages == {"idle", "edit", "publish", "told", "find", "max", "upsert"}

Adding == {"find", "max", "upsert"}

Position == {G!Absent} \cup Nat

GuideCallType ==
  [pc      : Stages, asked : G!Asked, was : BOOLEAN, is : BOOLEAN, date : BOOLEAN,
   place   : Places \cup {NoPlace}, at : Position, next : Position,
   earlier : SUBSET Places, live : SUBSET BOOLEAN]

GuideRowType == [exists : BOOLEAN, visibility : G!Visibility, published : BOOLEAN]

GuideTypeOK ==
  /\ diary \in GuideRowType
  /\ position \in [Places -> Position]
  /\ req \in [Requests -> GuideCallType]
  /\ overlapped \in BOOLEAN
  /\ inOrder \subseteq Places \X Places
  /\ \A c \in Requests : /\ req[c].pc \in Adding => req[c].place \in Places
                         /\ req[c].pc = "upsert" => req[c].next # G!Absent

\* An edit under way saw whether the guide was live when it began.  As long as
\* no two edits overlapped it is the only one, and writing now makes the guide
\* what it decided.
EditSound(k) ==
  /\ k.was \in k.live
  /\ ~overlapped => k.is = G!Live(G!NextVisibility(diary, k.asked), k.date)

EditsSound ==
  /\ \A c \in Requests : req[c].pc = "edit" => EditSound(req[c]) /\ diary.exists
  /\ ~overlapped =>
       \A c, d \in Requests : req[c].pc = "edit" /\ req[d].pc = "edit" => c = d

\* Who publishes has witnessed the publication.
NewsSound ==
  \A c \in Requests : req[c].pc \in {"publish", "told"} =>
    FALSE \in req[c].live /\ (overlapped \/ TRUE \in req[c].live)

\* Positions stay below some bound: there is a highest one.
Bounded == \E b \in Nat : \A p \in Places : position[p] < b

\* Places seen in the guide stay in it.
EarlierStay ==
  \A c \in Requests : req[c].pc \in Adding => \A q \in req[c].earlier : position[q] # G!Absent

\* A place that is nobody's but one call's to add: the call writes the
\* position the place has, or one after all places that came earlier.
AddSound(k) ==
  /\ k.at = G!Absent
  /\ k.pc = "max" => position[k.place] = G!Absent
  /\ k.pc = "upsert" =>
       \/ position[k.place] = k.next
       \/ /\ position[k.place] = G!Absent
          /\ \A q \in k.earlier \ moved : position[q] < k.next

AddsSound ==
  \A c \in Requests : req[c].pc \in Adding /\ req[c].place \notin moved =>
    /\ AddSound(req[c])
    /\ \A d \in Requests : req[d].pc \in Adding /\ req[d].place = req[c].place => c = d

OrderKept ==
  \A p, q \in Places : <<p, q>> \in inOrder =>
    /\ position[p] # G!Absent /\ position[q] # G!Absent
    /\ p \notin moved /\ q \notin moved => position[p] < position[q]

GuideInv ==
  /\ GuideTypeOK /\ EditsSound /\ NewsSound
  /\ Bounded /\ EarlierStay /\ AddsSound /\ OrderKept

-----------------------------------------------------------------------------

\* The aggregate has a maximum, and the next position is above every place's.
LEMMA NextPositionHighest ==
  ASSUME position \in [Places -> Position], Bounded
  PROVE  G!NextPosition \in Nat /\ \A p \in Places : position[p] < G!NextPosition
<1> DEFINE Above == {b \in Nat : \A p \in Places : position[p] < b}
           Highest == {G!Absent} \cup {position[p] : p \in Places}
<1>1. PICK n \in Above : \A m \in Above : n <= m
  BY Smallest DEF Bounded
<1>2. \A p \in Places : position[p] \in Position
  OBVIOUS
<1>3. \E m \in Highest : \A p \in Places : position[p] <= m
  <2>1. CASE n = 0
    <3>1. \A p \in Places : position[p] <= G!Absent
      BY <1>2, <2>1 DEF Position, G!Absent
    <3> QED BY <3>1
  <2>2. CASE n # 0
    <3>1. n - 1 \in Nat /\ n - 1 \notin Above
      BY <1>1, <2>2
    <3>2. PICK p \in Places : ~(position[p] < n - 1)
      BY <3>1
    <3>3. \A q \in Places : position[q] <= position[p]
      BY <1>2, <3>2 DEF Position, G!Absent
    <3> QED BY <3>3
  <2> QED BY <2>1, <2>2
<1> DEFINE m == CHOOSE m \in Highest : \A p \in Places : position[p] <= m
<1>4. m \in Highest /\ \A p \in Places : position[p] <= m
  BY <1>3
<1>5. m \in Position
  BY <1>2, <1>4 DEF Position
<1>6. G!NextPosition = 1 + m
  BY DEF G!NextPosition
<1> HIDE DEF m
<1> QED BY <1>2, <1>4, <1>5, <1>6 DEF Position, G!Absent

LEMMA IdleCallType == G!IdleCall \in GuideCallType /\ G!IdleCall.pc = "idle"
BY DEF G!IdleCall, GuideCallType, Stages, G!Asked, Position, G!Absent

LEMMA GuideInitInv == G!Init => GuideInv
<1> SUFFICES ASSUME G!Init PROVE GuideInv
  OBVIOUS
<1>1. \A c \in Requests : req[c] = G!IdleCall /\ req[c].pc = "idle"
  BY IdleCallType DEF G!Init
<1>2. GuideTypeOK
  BY <1>1, IdleCallType DEF G!Init, GuideTypeOK, GuideRowType, G!Visibility, Position, G!Absent, Adding
<1>3. \A p \in Places : position[p] < 0
  BY DEF G!Init, G!Absent
<1> QED
  BY <1>1, <1>2, <1>3 DEF G!Init, GuideInv, EditsSound, NewsSound, Bounded, EarlierStay, AddsSound,
     OrderKept, Adding

\* Only one call moves and it is idle afterwards, or publishing, and no place
\* is touched: what is known of the places stays.
LEMMA PlacesKept ==
  ASSUME GuideInv, NEW c \in Requests,
         req' \in [Requests -> GuideCallType], req'[c].pc \notin Adding,
         \A d \in Requests \ {c} : /\ req'[d].pc = req[d].pc
                                   /\ req[d].pc \in Adding => req'[d] = req[d],
         UNCHANGED <<position, inOrder, moved>>
  PROVE  /\ \A d \in Requests : /\ req'[d].pc \in Adding => req'[d].place \in Places
                                /\ req'[d].pc = "upsert" => req'[d].next # G!Absent
         /\ Bounded' /\ EarlierStay' /\ AddsSound' /\ OrderKept'
<1>1. \A d \in Requests : req'[d].pc \in Adding => d # c /\ req'[d] = req[d]
  OBVIOUS
<1>2. \A d \in Requests : /\ req'[d].pc \in Adding => req'[d].place \in Places
                          /\ req'[d].pc = "upsert" => req'[d].next # G!Absent
  BY <1>1 DEF GuideInv, GuideTypeOK, Adding
<1>3. Bounded' /\ OrderKept'
  BY DEF GuideInv, Bounded, OrderKept
<1>4. EarlierStay'
  BY <1>1 DEF GuideInv, EarlierStay
<1>5. AddsSound'
  BY <1>1 DEF GuideInv, AddsSound, AddSound
<1> QED BY <1>2, <1>3, <1>4, <1>5

LEMMA CreateDiaryKeeps ==
  ASSUME GuideInv, NEW c \in Requests, NEW a \in G!Asked, NEW dated \in BOOLEAN,
         G!CreateDiary(c, a, dated)
  PROVE  GuideInv'
<1> DEFINE visibility == IF a = "same" THEN "private" ELSE a
           date == G!DateOnCreate(a, dated)
           live == G!Live(visibility, date)
           k == IF live THEN [G!IdleCall EXCEPT !.pc = "publish", !.live = {FALSE, TRUE}]
                        ELSE G!IdleCall
<1>1. /\ req' = [req EXCEPT ![c] = k]
      /\ diary' = [exists |-> TRUE, visibility |-> visibility, published |-> date]
      /\ UNCHANGED <<position, overlapped, inOrder, moved>>
      /\ req[c].pc = "idle" /\ ~diary.exists
  BY DEF G!CreateDiary, G!Go, G!history
<1>2. /\ k \in GuideCallType
      /\ \/ k.pc = "idle"
         \/ k.pc = "publish" /\ k.live = {FALSE, TRUE}
  BY IdleCallType DEF G!IdleCall, GuideCallType, Stages
<1>3. diary' \in GuideRowType
  <2>1. visibility \in G!Visibility /\ date \in BOOLEAN
    BY DEF G!Asked, G!Visibility, G!DateOnCreate
  <2> QED BY <1>1, <2>1 DEF GuideRowType
<1> HIDE DEF k
<1>4. req \in [Requests -> GuideCallType]
  BY DEF GuideInv, GuideTypeOK
<1>5. /\ req' \in [Requests -> GuideCallType] /\ req'[c] = k
      /\ \A d \in Requests \ {c} : req'[d] = req[d]
  BY <1>1, <1>2, <1>4
<1>6. /\ req'[c].pc \notin Adding
      /\ \A d \in Requests \ {c} : req'[d].pc = req[d].pc
  BY <1>2, <1>5 DEF Adding
<1>7. /\ \A d \in Requests : /\ req'[d].pc \in Adding => req'[d].place \in Places
                             /\ req'[d].pc = "upsert" => req'[d].next # G!Absent
      /\ Bounded' /\ EarlierStay' /\ AddsSound' /\ OrderKept'
  BY <1>1, <1>5, <1>6, PlacesKept
<1>8. GuideTypeOK'
  BY <1>1, <1>3, <1>5, <1>7 DEF GuideInv, GuideTypeOK
<1>9. EditsSound'
  <2>1. \A d \in Requests : req'[d].pc # "edit"
    BY <1>1, <1>2, <1>5 DEF GuideInv, EditsSound
  <2> QED BY <2>1 DEF EditsSound
<1>10. NewsSound'
  BY <1>1, <1>2, <1>5 DEF GuideInv, NewsSound
<1> QED BY <1>7, <1>8, <1>9, <1>10 DEF GuideInv

LEMMA UpdateDiaryKeeps ==
  ASSUME GuideInv, NEW c \in Requests, NEW a \in G!Asked, G!UpdateDiary(c, a)
  PROVE  GuideInv'
<1> DEFINE date == G!DateOnUpdate(diary, a)
           now == G!Live(diary.visibility, diary.published)
           k == [G!IdleCall EXCEPT !.pc = "edit", !.asked = a, !.date = date,
                   !.was = now, !.is = G!Live(G!NextVisibility(diary, a), date), !.live = {now}]
<1>1. /\ req' = [req EXCEPT ![c] = k]
      /\ overlapped' = (overlapped \/ G!Editing # {})
      /\ UNCHANGED <<diary, position, inOrder, moved>>
      /\ req[c].pc = "idle" /\ diary.exists
  BY DEF G!UpdateDiary, G!Go
<1>2. diary \in GuideRowType /\ req \in [Requests -> GuideCallType] /\ overlapped \in BOOLEAN
  BY DEF GuideInv, GuideTypeOK
<1>3. now \in BOOLEAN /\ date \in BOOLEAN /\ G!Live(G!NextVisibility(diary, a), date) \in BOOLEAN
  BY <1>2 DEF GuideRowType, G!Live, G!DateOnUpdate
<1> HIDE DEF now, date
<1>4. /\ k \in GuideCallType /\ k.pc = "edit" /\ k.was \in k.live
      /\ k.is = G!Live(G!NextVisibility(diary, k.asked), k.date)
  BY <1>3 DEF G!IdleCall, GuideCallType, Stages, Position
<1> HIDE DEF k
<1>5. /\ req' \in [Requests -> GuideCallType] /\ req'[c] = k
      /\ \A d \in Requests \ {c} : req'[d] = req[d]
  BY <1>1, <1>2, <1>4
<1>6. /\ req'[c].pc \notin Adding
      /\ \A d \in Requests \ {c} : req'[d].pc = req[d].pc
  BY <1>4, <1>5 DEF Adding
<1>7. /\ \A d \in Requests : /\ req'[d].pc \in Adding => req'[d].place \in Places
                             /\ req'[d].pc = "upsert" => req'[d].next # G!Absent
      /\ Bounded' /\ EarlierStay' /\ AddsSound' /\ OrderKept'
  BY <1>1, <1>5, <1>6, PlacesKept
<1>8. GuideTypeOK'
  <2>1. overlapped' \in BOOLEAN
    BY <1>1, <1>2
  <2> QED BY <1>1, <1>5, <1>7, <2>1 DEF GuideInv, GuideTypeOK
<1>9. ~overlapped' => ~overlapped /\ \A d \in Requests : req[d].pc # "edit"
  BY <1>1 DEF G!Editing
<1>10. EditsSound'
  <2>1. ASSUME NEW d \in Requests, req'[d].pc = "edit"
        PROVE  EditSound(req[d])' /\ diary'.exists
    <3>1. CASE d = c
      BY <1>1, <1>4, <1>5, <3>1 DEF EditSound
    <3>2. CASE d # c
      BY <1>1, <1>5, <1>9, <2>1, <3>2 DEF GuideInv, EditsSound, EditSound
    <3> QED BY <3>1, <3>2
  <2>2. ~overlapped' => \A d \in Requests : req'[d].pc = "edit" => d = c
    BY <1>5, <1>9
  <2> QED BY <2>1, <2>2 DEF EditsSound
<1>11. NewsSound'
  BY <1>1, <1>4, <1>5, <1>9 DEF GuideInv, NewsSound
<1> QED BY <1>7, <1>8, <1>10, <1>11 DEF GuideInv

LEMMA PatchDiaryKeeps ==
  ASSUME GuideInv, NEW c \in Requests, G!PatchDiary(c)
  PROVE  GuideInv'
<1> DEFINE k == req[c]
           visibility == G!NextVisibility(diary, k.asked)
           live == G!Live(visibility, k.date)
           new == IF ~k.was /\ k.is THEN [G!IdleCall EXCEPT !.pc = "publish", !.live = k.live]
                                    ELSE G!IdleCall
           gone == [req EXCEPT ![c] = new]
<1>1. /\ k.pc = "edit" /\ req' = G!Witness(gone, live)
      /\ diary' = [diary EXCEPT !.visibility = visibility, !.published = k.date]
      /\ UNCHANGED <<position, overlapped, inOrder, moved>>
  BY DEF G!PatchDiary, G!Go, G!history
<1>2. diary \in GuideRowType /\ req \in [Requests -> GuideCallType] /\ k \in GuideCallType
  BY DEF GuideInv, GuideTypeOK
<1>3. visibility \in G!Visibility /\ live \in BOOLEAN /\ k.date \in BOOLEAN
  BY <1>2 DEF GuideRowType, GuideCallType, G!NextVisibility, G!Asked, G!Live
<1>4. /\ EditSound(k) /\ diary.exists
      /\ ~overlapped => \A d \in Requests : req[d].pc = "edit" => d = c
  BY <1>1 DEF GuideInv, EditsSound
<1>5. new \in GuideCallType /\ new.pc \in {"idle", "publish"}
  BY <1>2, IdleCallType DEF G!IdleCall, GuideCallType, Stages
<1>6. /\ gone \in [Requests -> GuideCallType] /\ gone[c] = new
      /\ \A d \in Requests \ {c} : gone[d] = req[d]
  BY <1>2, <1>5
<1>7. new.pc = "publish" => /\ new.live = k.live /\ new.live # {} /\ FALSE \in new.live
                            /\ ~overlapped => live
  <2>1. SUFFICES ASSUME new.pc = "publish"
                 PROVE  /\ new.live = k.live /\ new.live # {} /\ FALSE \in new.live
                        /\ ~overlapped => live
    OBVIOUS
  <2>2. ~k.was /\ k.is /\ new.live = k.live
    BY <2>1, IdleCallType DEF G!IdleCall
  <2>3. k.was = FALSE /\ k.is = TRUE
    BY <1>2, <2>2 DEF GuideCallType
  <2> QED BY <1>4, <2>2, <2>3 DEF EditSound
<1> HIDE DEF new, live, gone, visibility
<1>8. \A d \in Requests :
        req'[d] = IF gone[d].live = {} THEN gone[d]
                  ELSE [gone[d] EXCEPT !.live = gone[d].live \cup {live}]
  BY <1>1 DEF G!Witness
<1>9. \A d \in Requests :
        /\ req'[d] \in GuideCallType
        /\ req'[d].pc = gone[d].pc /\ req'[d].place = gone[d].place
        /\ req'[d].at = gone[d].at /\ req'[d].next = gone[d].next
        /\ req'[d].earlier = gone[d].earlier /\ req'[d].was = gone[d].was
        /\ req'[d].is = gone[d].is /\ req'[d].asked = gone[d].asked
        /\ req'[d].date = gone[d].date /\ gone[d].live \subseteq req'[d].live
        /\ gone[d].live # {} => live \in req'[d].live
  <2> SUFFICES ASSUME NEW d \in Requests
               PROVE  /\ req'[d] \in GuideCallType
                      /\ req'[d].pc = gone[d].pc /\ req'[d].place = gone[d].place
                      /\ req'[d].at = gone[d].at /\ req'[d].next = gone[d].next
                      /\ req'[d].earlier = gone[d].earlier /\ req'[d].was = gone[d].was
                      /\ req'[d].is = gone[d].is /\ req'[d].asked = gone[d].asked
                      /\ req'[d].date = gone[d].date /\ gone[d].live \subseteq req'[d].live
                      /\ gone[d].live # {} => live \in req'[d].live
    OBVIOUS
  <2> DEFINE e == gone[d]
  <2>1. e \in GuideCallType
    BY <1>6
  <2>2. req'[d] = IF e.live = {} THEN e ELSE [e EXCEPT !.live = e.live \cup {live}]
    BY <1>8
  <2> HIDE DEF e
  <2>3. CASE e.live = {}
    <3>1. req'[d] = e
      BY <2>2, <2>3
    <3> QED BY <2>1, <2>3, <3>1 DEF e
  <2>4. CASE e.live # {}
    <3> DEFINE f == [e EXCEPT !.live = e.live \cup {live}]
    <3>1. req'[d] = f
      BY <2>2, <2>4
    <3>2. e.live \cup {live} \in SUBSET BOOLEAN
      BY <1>3, <2>1 DEF GuideCallType
    <3>3. /\ f \in GuideCallType /\ f.live = e.live \cup {live}
          /\ f.pc = e.pc /\ f.place = e.place /\ f.at = e.at /\ f.next = e.next
          /\ f.earlier = e.earlier /\ f.was = e.was /\ f.is = e.is
          /\ f.asked = e.asked /\ f.date = e.date
      BY <2>1, <3>2 DEF GuideCallType
    <3> HIDE DEF f
    <3> QED BY <3>1, <3>3 DEF e
  <2> QED BY <2>3, <2>4
<1>10. req' \in [Requests -> GuideCallType]
  <2>1. req' = [d \in Requests |-> req'[d]]
    BY <1>1 DEF G!Witness
  <2> QED BY <1>9, <2>1
<1>11. \A d \in Requests : req'[d].pc \in Adding => d # c
  BY <1>5, <1>6, <1>9 DEF Adding
<1>12. \A d \in Requests : d # c =>
         /\ req'[d].pc = req[d].pc /\ req'[d].place = req[d].place
         /\ req'[d].at = req[d].at /\ req'[d].next = req[d].next
         /\ req'[d].earlier = req[d].earlier
  BY <1>6, <1>9
<1>13. GuideTypeOK'
  <2>1. diary' \in GuideRowType
    BY <1>1, <1>2, <1>3 DEF GuideRowType
  <2>2. \A d \in Requests : /\ req'[d].pc \in Adding => req'[d].place \in Places
                            /\ req'[d].pc = "upsert" => req'[d].next # G!Absent
    BY <1>11, <1>12 DEF GuideInv, GuideTypeOK, Adding
  <2>3. position' \in [Places -> Position] /\ overlapped' \in BOOLEAN /\ inOrder' \subseteq Places \X Places
    BY <1>1 DEF GuideInv, GuideTypeOK
  <2> QED BY <1>10, <2>1, <2>2, <2>3 DEF GuideTypeOK
<1>14. EditsSound'
  <2>1. \A d \in Requests : req'[d].pc = "edit" => d # c /\ req[d].pc = "edit"
    BY <1>5, <1>6, <1>9
  <2>2. ASSUME NEW d \in Requests, req'[d].pc = "edit"
        PROVE  EditSound(req[d])' /\ diary'.exists
    <3>1. req'[d].was \in req'[d].live
      BY <1>6, <1>9, <2>1, <2>2 DEF GuideInv, EditsSound, EditSound
    <3>2. overlapped
      BY <1>4, <2>1, <2>2
    <3>3. diary'.exists
      BY <1>1, <1>2, <1>4 DEF GuideRowType
    <3> QED BY <1>1, <3>1, <3>2, <3>3 DEF EditSound
  <2>3. ~overlapped' => \A d, e \in Requests : req'[d].pc = "edit" /\ req'[e].pc = "edit" => d = e
    BY <1>1, <1>4, <2>1
  <2> QED BY <2>2, <2>3 DEF EditsSound
<1>15. NewsSound'
  <2> SUFFICES ASSUME NEW d \in Requests, req'[d].pc \in {"publish", "told"}
               PROVE  FALSE \in req'[d].live /\ (overlapped \/ TRUE \in req'[d].live)
    BY <1>1 DEF NewsSound
  <2>1. CASE d = c
    <3>1. new.pc = "publish"
      BY <1>5, <1>6, <1>9, <2>1
    <3>2. FALSE \in req'[d].live /\ live \in req'[d].live
      BY <1>6, <1>7, <1>9, <2>1, <3>1
    <3>3. ~overlapped => live = TRUE
      BY <1>3, <1>7, <3>1
    <3> QED BY <3>2, <3>3
  <2>2. CASE d # c
    BY <1>6, <1>9, <2>2 DEF GuideInv, NewsSound
  <2> QED BY <2>1, <2>2
<1>16. Bounded' /\ OrderKept'
  BY <1>1 DEF GuideInv, Bounded, OrderKept
<1>17. EarlierStay' /\ AddsSound'
  BY <1>1, <1>11, <1>12 DEF GuideInv, EarlierStay, AddsSound, AddSound
<1> QED BY <1>13, <1>14, <1>15, <1>16, <1>17 DEF GuideInv

LEMMA PublishKeeps ==
  ASSUME GuideInv, NEW c \in Requests, G!Publish(c)
  PROVE  GuideInv'
<1> DEFINE k == [req[c] EXCEPT !.pc = "told"]
<1>1. /\ req[c].pc = "publish" /\ req' = [req EXCEPT ![c] = k]
      /\ UNCHANGED <<diary, position, overlapped, inOrder, moved>>
  BY DEF G!Publish, G!Go, G!history
<1>2. req \in [Requests -> GuideCallType] /\ req[c] \in GuideCallType
  BY DEF GuideInv, GuideTypeOK
<1>3. k \in GuideCallType /\ k.pc = "told" /\ k.live = req[c].live
  BY <1>2 DEF GuideCallType, Stages
<1> HIDE DEF k
<1>4. /\ req' \in [Requests -> GuideCallType] /\ req'[c] = k
      /\ \A d \in Requests \ {c} : req'[d] = req[d]
  BY <1>1, <1>2, <1>3
<1>5. /\ req'[c].pc \notin Adding
      /\ \A d \in Requests \ {c} : req'[d].pc = req[d].pc
  BY <1>3, <1>4 DEF Adding
<1>6. /\ \A d \in Requests : /\ req'[d].pc \in Adding => req'[d].place \in Places
                             /\ req'[d].pc = "upsert" => req'[d].next # G!Absent
      /\ Bounded' /\ EarlierStay' /\ AddsSound' /\ OrderKept'
  BY <1>1, <1>4, <1>5, PlacesKept
<1>7. GuideTypeOK'
  BY <1>1, <1>4, <1>6 DEF GuideInv, GuideTypeOK
<1>8. EditsSound'
  <2>1. \A d \in Requests : req'[d].pc = "edit" => req[d].pc = "edit" /\ req'[d] = req[d]
    BY <1>3, <1>4
  <2> QED BY <1>1, <2>1 DEF GuideInv, EditsSound, EditSound
<1>9. NewsSound'
  BY <1>1, <1>3, <1>4 DEF GuideInv, NewsSound
<1> QED BY <1>6, <1>7, <1>8, <1>9 DEF GuideInv

LEMMA GuideEndKeeps ==
  ASSUME GuideInv, NEW c \in Requests, G!End(c)
  PROVE  GuideInv'
<1>1. /\ req' = [req EXCEPT ![c] = G!IdleCall]
      /\ UNCHANGED <<diary, position, overlapped, inOrder, moved>>
  BY DEF G!End, G!Go, G!history
<1>2. req \in [Requests -> GuideCallType]
  BY DEF GuideInv, GuideTypeOK
<1>3. /\ req' \in [Requests -> GuideCallType] /\ req'[c] = G!IdleCall
      /\ \A d \in Requests \ {c} : req'[d] = req[d]
  BY <1>1, <1>2, IdleCallType
<1>4. /\ req'[c].pc \notin Adding
      /\ \A d \in Requests \ {c} : req'[d].pc = req[d].pc
  BY <1>3, IdleCallType DEF Adding
<1>5. /\ \A d \in Requests : /\ req'[d].pc \in Adding => req'[d].place \in Places
                             /\ req'[d].pc = "upsert" => req'[d].next # G!Absent
      /\ Bounded' /\ EarlierStay' /\ AddsSound' /\ OrderKept'
  BY <1>1, <1>3, <1>4, PlacesKept
<1>6. GuideTypeOK'
  BY <1>1, <1>3, <1>5 DEF GuideInv, GuideTypeOK
<1>7. EditsSound'
  <2>1. \A d \in Requests : req'[d].pc = "edit" => req[d].pc = "edit" /\ req'[d] = req[d]
    BY <1>3, IdleCallType
  <2> QED BY <1>1, <2>1 DEF GuideInv, EditsSound, EditSound
<1>8. NewsSound'
  BY <1>1, <1>3, IdleCallType DEF GuideInv, NewsSound
<1> QED BY <1>5, <1>6, <1>7, <1>8 DEF GuideInv

\* A step of a call that adds a place: edits and publications are other calls'.
LEMMA NewsKept ==
  ASSUME GuideInv, NEW c \in Requests, req'[c].pc \notin {"edit", "publish", "told"},
         \A d \in Requests \ {c} : req'[d] = req[d],
         UNCHANGED <<diary, overlapped>>
  PROVE  EditsSound' /\ NewsSound'
<1>1. \A d \in Requests : req'[d].pc \in {"edit", "publish", "told"} => d # c /\ req'[d] = req[d]
  OBVIOUS
<1>2. EditsSound'
  BY <1>1 DEF GuideInv, EditsSound, EditSound
<1>3. NewsSound'
  BY <1>1 DEF GuideInv, NewsSound
<1> QED BY <1>2, <1>3

LEMMA AddPlaceKeeps ==
  ASSUME GuideInv, NEW c \in Requests, NEW p \in Places, NEW at \in Position,
         G!AddPlace(c, p, at)
  PROVE  GuideInv'
<1> DEFINE adding == {req[d].place : d \in Requests}
           earlier == {q \in Places \ adding : position[q] # G!Absent}
           k == [G!IdleCall EXCEPT !.pc = "find", !.place = p, !.at = at, !.earlier = earlier]
<1>1. /\ req' = [req EXCEPT ![c] = k] /\ req[c].pc = "idle"
      /\ moved' = IF at = G!Absent /\ p \notin adding THEN moved ELSE moved \cup {p}
      /\ UNCHANGED <<diary, position, overlapped, inOrder>>
  BY DEF G!AddPlace, G!Go
<1>2. req \in [Requests -> GuideCallType] /\ position \in [Places -> Position]
  BY DEF GuideInv, GuideTypeOK
<1>3. /\ k \in GuideCallType /\ k.pc = "find" /\ k.place = p /\ k.at = at
      /\ k.earlier = earlier
  BY DEF G!IdleCall, GuideCallType, Stages, G!Asked, Position
<1> HIDE DEF k
<1>4. /\ req' \in [Requests -> GuideCallType] /\ req'[c] = k
      /\ \A d \in Requests \ {c} : req'[d] = req[d]
  BY <1>1, <1>2, <1>3
<1>5. moved \subseteq moved'
  BY <1>1
<1>6. GuideTypeOK'
  <2>1. \A d \in Requests : /\ req'[d].pc \in Adding => req'[d].place \in Places
                            /\ req'[d].pc = "upsert" => req'[d].next # G!Absent
    BY <1>3, <1>4 DEF GuideInv, GuideTypeOK
  <2> QED BY <1>1, <1>4, <2>1 DEF GuideInv, GuideTypeOK
<1>7. EditsSound' /\ NewsSound'
  BY <1>1, <1>3, <1>4, NewsKept
<1>8. Bounded' /\ OrderKept'
  BY <1>1, <1>5 DEF GuideInv, Bounded, OrderKept
<1>9. EarlierStay'
  BY <1>1, <1>3, <1>4 DEF GuideInv, EarlierStay
<1>10. AddsSound'
  <2> SUFFICES ASSUME NEW d \in Requests, req'[d].pc \in Adding, req'[d].place \notin moved'
               PROVE  /\ AddSound(req[d])'
                      /\ \A e \in Requests : req'[e].pc \in Adding /\ req'[e].place = req'[d].place
                                            => d = e
    BY DEF AddsSound
  <2>1. CASE d = c
    <3>1. at = G!Absent /\ p \notin adding
      BY <1>1, <1>3, <1>4, <2>1
    <3>2. AddSound(req[d])'
      BY <1>3, <1>4, <2>1, <3>1 DEF AddSound
    <3>3. \A e \in Requests \ {c} : req'[e].place # p
      BY <1>4, <3>1
    <3> QED BY <1>3, <1>4, <2>1, <3>2, <3>3
  <2>2. CASE d # c
    <3>1. req'[d] = req[d]
      BY <1>4, <2>2
    <3>2. req[d].pc \in Adding /\ req[d].place \notin moved
      BY <1>5, <3>1
    <3>3. AddSound(req[d])'
      BY <1>1, <1>5, <3>1, <3>2 DEF GuideInv, AddsSound, AddSound
    <3>4. p # req[d].place
      BY <1>1, <3>1
    <3>5. \A e \in Requests : req'[e].pc \in Adding /\ req'[e].place = req'[d].place => d = e
      BY <1>3, <1>4, <3>1, <3>2, <3>4 DEF GuideInv, AddsSound
    <3> QED BY <3>3, <3>5
  <2> QED BY <2>1, <2>2
<1> QED BY <1>6, <1>7, <1>8, <1>9, <1>10 DEF GuideInv

LEMMA FindPlaceKeeps ==
  ASSUME GuideInv, NEW c \in Requests, G!FindPlace(c)
  PROVE  GuideInv'
<1> DEFINE old == req[c]
           found == IF old.at # G!Absent THEN old.at ELSE position[old.place]
           k == [old EXCEPT !.next = found, !.pc = IF found = G!Absent THEN "max" ELSE "upsert"]
<1>1. /\ req' = [req EXCEPT ![c] = k] /\ old.pc = "find"
      /\ UNCHANGED <<diary, position, overlapped, inOrder, moved>>
  BY DEF G!FindPlace, G!Go, G!history
<1>2. /\ req \in [Requests -> GuideCallType] /\ position \in [Places -> Position]
      /\ old \in GuideCallType /\ old.place \in Places
  BY <1>1 DEF GuideInv, GuideTypeOK, Adding
<1>3. found \in Position
  BY <1>2 DEF GuideCallType
<1> HIDE DEF found
<1>4. /\ k \in GuideCallType /\ k.place = old.place /\ k.at = old.at /\ k.next = found
      /\ k.earlier = old.earlier
      /\ k.pc = IF found = G!Absent THEN "max" ELSE "upsert"
  BY <1>2, <1>3 DEF GuideCallType, Stages
<1> HIDE DEF k
<1>5. /\ req' \in [Requests -> GuideCallType] /\ req'[c] = k
      /\ \A d \in Requests \ {c} : req'[d] = req[d]
  BY <1>1, <1>2, <1>4
<1>6. GuideTypeOK'
  <2>1. \A d \in Requests : /\ req'[d].pc \in Adding => req'[d].place \in Places
                            /\ req'[d].pc = "upsert" => req'[d].next # G!Absent
    BY <1>2, <1>4, <1>5 DEF GuideInv, GuideTypeOK
  <2> QED BY <1>1, <1>5, <2>1 DEF GuideInv, GuideTypeOK
<1>7. EditsSound' /\ NewsSound'
  BY <1>1, <1>4, <1>5, NewsKept
<1>8. Bounded' /\ OrderKept'
  BY <1>1 DEF GuideInv, Bounded, OrderKept
<1>9. old.pc \in Adding
  BY <1>1 DEF Adding
<1>10. EarlierStay'
  BY <1>1, <1>4, <1>5, <1>9 DEF GuideInv, EarlierStay
<1>11. \A d \in Requests : /\ req'[d].pc \in Adding => req[d].pc \in Adding
                           /\ req'[d].place = req[d].place
  BY <1>4, <1>5, <1>9
<1>12. AddsSound'
  <2> SUFFICES ASSUME NEW d \in Requests, req'[d].pc \in Adding, req'[d].place \notin moved
               PROVE  AddSound(req[d])'
    BY <1>1, <1>11 DEF GuideInv, AddsSound
  <2>1. AddSound(req[d])
    BY <1>11 DEF GuideInv, AddsSound
  <2>2. CASE d = c
    <3>1. found = position[old.place]
      BY <2>1, <2>2 DEF AddSound, found
    <3> QED BY <1>1, <1>4, <1>5, <2>1, <2>2, <3>1 DEF AddSound
  <2>3. CASE d # c
    BY <1>1, <1>5, <2>1, <2>3 DEF AddSound
  <2> QED BY <2>2, <2>3
<1> QED BY <1>6, <1>7, <1>8, <1>10, <1>12 DEF GuideInv

LEMMA AggregateMaxKeeps ==
  ASSUME GuideInv, NEW c \in Requests, G!AggregateMax(c)
  PROVE  GuideInv'
<1> DEFINE old == req[c]
           k == [old EXCEPT !.next = G!NextPosition, !.pc = "upsert"]
<1>1. /\ req' = [req EXCEPT ![c] = k] /\ old.pc = "max"
      /\ UNCHANGED <<diary, position, overlapped, inOrder, moved>>
  BY DEF G!AggregateMax, G!Go, G!history
<1>2. /\ req \in [Requests -> GuideCallType] /\ position \in [Places -> Position]
      /\ old \in GuideCallType /\ old.place \in Places
  BY <1>1 DEF GuideInv, GuideTypeOK, Adding
<1>3. G!NextPosition \in Nat /\ \A p \in Places : position[p] < G!NextPosition
  BY <1>2, NextPositionHighest DEF GuideInv
<1>4. G!NextPosition \in Position /\ G!NextPosition # G!Absent
  BY <1>3 DEF Position, G!Absent
<1>5. /\ k \in GuideCallType /\ k.place = old.place /\ k.at = old.at /\ k.next = G!NextPosition
      /\ k.earlier = old.earlier /\ k.pc = "upsert"
  BY <1>2, <1>4 DEF GuideCallType, Stages
<1> HIDE DEF k
<1>6. /\ req' \in [Requests -> GuideCallType] /\ req'[c] = k
      /\ \A d \in Requests \ {c} : req'[d] = req[d]
  BY <1>1, <1>2, <1>5
<1>7. GuideTypeOK'
  <2>1. \A d \in Requests : /\ req'[d].pc \in Adding => req'[d].place \in Places
                            /\ req'[d].pc = "upsert" => req'[d].next # G!Absent
    BY <1>2, <1>4, <1>5, <1>6 DEF GuideInv, GuideTypeOK
  <2> QED BY <1>1, <1>6, <2>1 DEF GuideInv, GuideTypeOK
<1>8. EditsSound' /\ NewsSound'
  BY <1>1, <1>5, <1>6, NewsKept
<1>9. Bounded' /\ OrderKept'
  BY <1>1 DEF GuideInv, Bounded, OrderKept
<1>10. old.pc \in Adding
  BY <1>1 DEF Adding
<1>11. EarlierStay'
  BY <1>1, <1>5, <1>6, <1>10 DEF GuideInv, EarlierStay
<1>12. \A d \in Requests : /\ req'[d].pc \in Adding => req[d].pc \in Adding
                           /\ req'[d].place = req[d].place
  BY <1>5, <1>6, <1>10
<1>13. AddsSound'
  <2> SUFFICES ASSUME NEW d \in Requests, req'[d].pc \in Adding, req'[d].place \notin moved
               PROVE  AddSound(req[d])'
    BY <1>1, <1>12 DEF GuideInv, AddsSound
  <2>1. AddSound(req[d])
    BY <1>12 DEF GuideInv, AddsSound
  <2>2. CASE d = c
    <3>1. \A q \in k.earlier \ moved : position[q] < k.next
      BY <1>2, <1>3, <1>5 DEF GuideCallType
    <3>2. position[k.place] = G!Absent
      BY <1>1, <1>5, <2>1, <2>2 DEF AddSound
    <3> QED BY <1>1, <1>5, <1>6, <2>1, <2>2, <3>1, <3>2 DEF AddSound
  <2>3. CASE d # c
    BY <1>1, <1>6, <2>1, <2>3 DEF AddSound
  <2> QED BY <2>2, <2>3
<1> QED BY <1>7, <1>8, <1>9, <1>11, <1>13 DEF GuideInv

LEMMA UpsertPlaceKeeps ==
  ASSUME GuideInv, NEW c \in Requests, G!UpsertPlace(c)
  PROVE  GuideInv'
<1> DEFINE k == req[c]
           r == req[c].place
           n == req[c].next
<1>1. /\ k.pc = "upsert" /\ req' = [req EXCEPT ![c] = G!IdleCall]
      /\ inOrder' = IF position[r] # G!Absent THEN inOrder
                    ELSE inOrder \cup ((k.earlier \ {r}) \X {r})
      /\ position' = [position EXCEPT ![r] = n]
      /\ UNCHANGED <<diary, overlapped, moved>>
  BY DEF G!UpsertPlace, G!Go
<1>2. /\ req \in [Requests -> GuideCallType] /\ position \in [Places -> Position]
      /\ inOrder \subseteq Places \X Places
  BY DEF GuideInv, GuideTypeOK
<1>3. k.pc \in Adding
  BY <1>1 DEF Adding
<1>4. r \in Places /\ n \in Nat /\ n # G!Absent /\ k.earlier \subseteq Places
  BY <1>1, <1>2, <1>3 DEF GuideInv, GuideTypeOK, GuideCallType, Position
<1>5. /\ req' \in [Requests -> GuideCallType] /\ req'[c] = G!IdleCall
      /\ \A d \in Requests \ {c} : req'[d] = req[d]
  BY <1>1, <1>2, IdleCallType
<1>6. \A d \in Requests : req'[d].pc \in Adding => d # c /\ req'[d] = req[d]
  BY <1>5, IdleCallType DEF Adding
<1>7. /\ position' \in [Places -> Position] /\ position'[r] = n
      /\ \A p \in Places \ {r} : position'[p] = position[p]
  BY <1>1, <1>2, <1>4 DEF Position
<1>8. \A p \in Places : position[p] # G!Absent => position'[p] # G!Absent
  BY <1>4, <1>7
<1>9. GuideTypeOK'
  <2>1. inOrder' \subseteq Places \X Places
    BY <1>1, <1>2, <1>4
  <2>2. \A d \in Requests : /\ req'[d].pc \in Adding => req'[d].place \in Places
                            /\ req'[d].pc = "upsert" => req'[d].next # G!Absent
    BY <1>6 DEF GuideInv, GuideTypeOK, Adding
  <2> QED BY <1>1, <1>5, <1>7, <2>1, <2>2 DEF GuideInv, GuideTypeOK
<1>10. EditsSound' /\ NewsSound'
  BY <1>1, <1>5, IdleCallType, NewsKept
<1>11. Bounded'
  <2>1. PICK b \in Nat : \A p \in Places : position[p] < b
    BY DEF GuideInv, Bounded
  <2>2. b + n + 1 \in Nat /\ \A p \in Places : position'[p] < b + n + 1
    <3>1. \A p \in Places \ {r} : position'[p] < b + n + 1
      <4> SUFFICES ASSUME NEW p \in Places \ {r} PROVE position'[p] < b + n + 1
        OBVIOUS
      <4>1. position[p] \in Position /\ position[p] < b /\ position'[p] = position[p]
        BY <1>2, <1>7, <2>1
      <4> QED BY <1>4, <2>1, <4>1 DEF Position, G!Absent
    <3>2. position'[r] < b + n + 1
      BY <1>4, <1>7, <2>1
    <3> QED BY <1>4, <2>1, <3>1, <3>2
  <2> QED BY <2>2 DEF Bounded
<1>12. EarlierStay'
  <2> SUFFICES ASSUME NEW d \in Requests, req'[d].pc \in Adding, NEW q \in req'[d].earlier
               PROVE  position'[q] # G!Absent
    BY DEF EarlierStay
  <2>1. req'[d] = req[d] /\ position[q] # G!Absent /\ q \in Places
    BY <1>2, <1>6 DEF GuideInv, EarlierStay, GuideCallType
  <2> QED BY <1>8, <2>1
<1>13. r \notin moved => AddSound(k)
  BY <1>3 DEF GuideInv, AddsSound
\* A place in the guide that is not moved keeps its position.
<1>14. \A p \in Places \ moved : position[p] # G!Absent => position'[p] = position[p]
  <2> SUFFICES ASSUME NEW p \in Places \ moved, position[p] # G!Absent
               PROVE  position'[p] = position[p]
    OBVIOUS
  <2>1. CASE p = r
    BY <1>1, <1>7, <1>13, <2>1 DEF AddSound
  <2>2. CASE p # r
    BY <1>7, <2>2
  <2> QED BY <2>1, <2>2
<1>15. AddsSound'
  <2> SUFFICES ASSUME NEW d \in Requests, req'[d].pc \in Adding, req'[d].place \notin moved
               PROVE  /\ AddSound(req[d])'
                      /\ \A e \in Requests : req'[e].pc \in Adding /\ req'[e].place = req'[d].place
                                            => d = e
    BY <1>1 DEF AddsSound
  <2>1. d # c /\ req'[d] = req[d]
    BY <1>6
  <2>2. /\ AddSound(req[d])
        /\ \A e \in Requests : req[e].pc \in Adding /\ req[e].place = req[d].place => d = e
    BY <2>1 DEF GuideInv, AddsSound
  <2>3. req[d].place # r /\ req[d].place \in Places /\ req[d].earlier \subseteq Places
    BY <1>2, <1>3, <2>1, <2>2 DEF GuideInv, GuideTypeOK, GuideCallType
  <2>4. position'[req[d].place] = position[req[d].place]
    BY <1>7, <2>3
  <2>5. \A q \in req[d].earlier \ moved : position'[q] = position[q]
    BY <1>14, <2>1, <2>3 DEF GuideInv, EarlierStay
  <2>6. AddSound(req[d])'
    BY <1>1, <2>1, <2>2, <2>4, <2>5 DEF AddSound
  <2>7. \A e \in Requests : req'[e].pc \in Adding /\ req'[e].place = req'[d].place => d = e
    BY <1>6, <2>1, <2>2
  <2> QED BY <2>6, <2>7
<1>16. OrderKept'
  <2> SUFFICES ASSUME NEW p \in Places, NEW q \in Places, <<p, q>> \in inOrder'
               PROVE  /\ position'[p] # G!Absent /\ position'[q] # G!Absent
                      /\ p \notin moved /\ q \notin moved => position'[p] < position'[q]
    BY <1>1 DEF OrderKept
  <2>1. CASE <<p, q>> \in inOrder
    BY <1>8, <1>14, <2>1 DEF GuideInv, OrderKept
  <2>2. CASE <<p, q>> \notin inOrder
    <3>1. p \in k.earlier /\ p # r /\ q = r /\ position[r] = G!Absent
      BY <1>1, <2>2
    <3>2. position[p] # G!Absent
      BY <1>3, <3>1 DEF GuideInv, EarlierStay
    <3>3. position'[p] # G!Absent /\ position'[q] # G!Absent
      BY <1>4, <1>7, <1>8, <3>1, <3>2
    <3>4. ASSUME p \notin moved, q \notin moved PROVE position'[p] < position'[q]
      <4>1. position[p] < n
        BY <1>1, <1>4, <1>13, <3>1, <3>4 DEF AddSound
      <4> QED BY <1>7, <3>1, <4>1
    <3> QED BY <3>3, <3>4
  <2> QED BY <2>1, <2>2
<1> QED BY <1>9, <1>10, <1>11, <1>12, <1>15, <1>16 DEF GuideInv

\* Every step of an edit or of an adding keeps the invariant.
LEMMA GuideStepInv == GuideInv /\ [G!Next]_G!vars => GuideInv'
<1>1. ASSUME GuideInv, G!EditNext PROVE GuideInv'
  <2>1. PICK c \in Requests :
           \/ \E a \in G!Asked : G!UpdateDiary(c, a)
           \/ \E a \in G!Asked, dated \in BOOLEAN : G!CreateDiary(c, a, dated)
           \/ G!PatchDiary(c) \/ G!Publish(c) \/ G!End(c)
    BY <1>1 DEF G!EditNext
  <2> QED BY <1>1, <2>1, UpdateDiaryKeeps, CreateDiaryKeeps, PatchDiaryKeeps, PublishKeeps,
             GuideEndKeeps
<1>2. ASSUME GuideInv, G!PlaceNext PROVE GuideInv'
  <2>1. PICK c \in Requests :
           \/ G!CreateDiary(c, "same", FALSE)
           \/ \E p \in Places, at \in Position : G!AddPlace(c, p, at)
           \/ G!FindPlace(c) \/ G!AggregateMax(c) \/ G!UpsertPlace(c) \/ G!End(c)
    <3>1. {G!Absent, 2} \subseteq Position
      BY DEF Position
    <3> QED BY <1>2, <3>1 DEF G!PlaceNext
  <2>2. "same" \in G!Asked /\ FALSE \in BOOLEAN
    BY DEF G!Asked
  <2> QED BY <1>2, <2>1, <2>2, CreateDiaryKeeps, AddPlaceKeeps, FindPlaceKeeps,
             AggregateMaxKeeps, UpsertPlaceKeeps, GuideEndKeeps
<1>3. ASSUME GuideInv, UNCHANGED G!vars PROVE GuideInv'
  <2>1. UNCHANGED <<diary, position, req, overlapped, inOrder, moved>>
    BY <1>3 DEF G!vars
  <2>2. GuideTypeOK' /\ EditsSound' /\ NewsSound'
    BY <1>3, <2>1 DEF GuideInv, GuideTypeOK, EditsSound, EditSound, NewsSound
  <2>3. Bounded' /\ EarlierStay' /\ AddsSound' /\ OrderKept'
    BY <1>3, <2>1 DEF GuideInv, Bounded, EarlierStay, AddsSound, AddSound, OrderKept
  <2> QED BY <2>2, <2>3 DEF GuideInv
<1> QED BY <1>1, <1>2, <1>3 DEF G!Next

\* createDiary and updateDiary tell the followers of a publication only when the
\* guide was not public before and, unless edits overlapped, was public then.
THEOREM PublicationsAreNews == G!Spec => []PublicationIsNews
<1>1. GuideInv => PublicationIsNews
  BY DEF GuideInv, NewsSound, PublicationIsNews, G!PublicationIsNews
<1> QED BY <1>1, GuideInitInv, GuideStepInv, PTL DEF G!Spec

\* addPlaceToDiary appends: of two places never moved nor added twice at once,
\* the one whose adding began when the other was there comes after it.
THEOREM PlacesAppendedInOrder == G!Spec => []AppendedInOrder
<1>1. GuideInv => AppendedInOrder
  <2> SUFFICES ASSUME GuideInv, NEW pq \in inOrder, pq[1] \notin moved, pq[2] \notin moved
               PROVE  position[pq[1]] < position[pq[2]]
    BY DEF AppendedInOrder, G!AppendedInOrder
  <2>1. pq[1] \in Places /\ pq[2] \in Places /\ pq = <<pq[1], pq[2]>>
    BY DEF GuideInv, GuideTypeOK
  <2> QED BY <2>1 DEF GuideInv, OrderKept
<1> QED BY <1>1, GuideInitInv, GuideStepInv, PTL DEF G!Spec
===============================================================================
