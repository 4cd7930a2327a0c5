-------------------------- MODULE PlanActivity_proofs --------------------------
(***************************************************************************)
(* Proofs about PlanActivity, for any number of members and concurrent      *)
(* requests, any settings and any number of changes.                        *)
(***************************************************************************)
EXTENDS PlanScreens, FiniteSetTheorems, SequenceTheorems, WellFoundedInduction, TLAPS

Telling == {"publish", "told"}
Answering == {"rsvpGroup", "rsvpAccess", "rsvpEvent", "rsvpRead", "rsvpWrite"}

\* A call k while the members are acc, the settings s and the event e: its
\* histories include the present, ...
Witnessed(k, acc, s) ==
  k.pc # "idle" => /\ acc \subseteq k.ever /\ k.always \subseteq acc
                   /\ s \in k.during /\ k.user \in Users

\* ... it is at a step of the operation it was asked for, ...
InOperation(k) ==
  /\ k.pc = "idle" => ~k.wrote
  /\ k.pc \in {"access", "place"} => k.op = "event"
  /\ k.pc \in Answering => k.op = "rsvp"
  /\ k.pc \in {"message", "recipients"} => k.op = "message"
  /\ k.pc = "report" => k.op = "report"
  /\ k.pc = "planAccess" => k.op \in {"plan", "rsvp"}
  /\ k.pc \in {"groupAccess", "groupFollows"} => k.op = "group"
  /\ k.pc \in Telling => k.op \in {"event", "rsvp", "message", "report"}
  /\ k.wrote => k.op \in {"event", "rsvp", "message"}

\* ... what it has read was so at a moment of the call, ...
ReadInCall(k, e) ==
  /\ k.pc \in {"access", "place", "rsvpAccess", "rsvpEvent", "planAccess"} => k.seen \in k.during
  /\ k.pc \in {"access", "place"} => k.members \subseteq k.ever /\ k.always \subseteq k.members
  /\ k.pc \in {"place", "rsvpEvent", "rsvpRead", "rsvpWrite", "message", "recipients"} =>
       k.user \in k.ever
  /\ k.pc = "place" => (k.seen.ownerOnly => k.user = Owner)
  /\ k.pc \in {"rsvpRead", "rsvpWrite"} =>
       /\ e.status # "none"
       /\ k.answer # "none" => \E s \in k.during : AllowsRsvp(s, e)

\* ... and so what it writes, tells and shows is justified.
Tells(k, e) ==
  k.pc \in Telling =>
    /\ k.user \notin k.to
    /\ k.op \in {"event", "message"} =>
         k.to \subseteq k.ever /\ k.always \ {k.user} \subseteq k.to
    /\ k.op = "rsvp" => e.status # "none" /\ k.to \subseteq {Owner, e.by}
    /\ k.op = "report" => k.to \subseteq {Owner}
    /\ k.op \in {"rsvp", "report"} => {Owner} \ {k.user} \subseteq k.to

Writes(k, e) ==
  k.wrote =>
    /\ k.user \in k.ever
    /\ k.op \in {"event", "rsvp"} => e.status # "none"
    /\ k.op = "event" => \E s \in k.during :
         /\ s.ownerOnly => k.user = Owner
         /\ e = [status |-> ProposalStatus(s, k.user), by |-> k.user]
    /\ k.op = "rsvp" /\ k.answer # "none" => \E s \in k.during : AllowsRsvp(s, e)

ShowsWell(k) ==
  k.pc = "shown" /\ k.op \in {"plan", "rsvp"} =>
    /\ k.view = "full" => k.user \in k.ever
    /\ k.view = "preview" => \E s \in k.during : s.visibility = "public"
    /\ k.user \in k.always => k.view = "full"

Sound(k, acc, s, e) ==
  /\ Witnessed(k, acc, s) /\ InOperation(k) /\ ReadInCall(k, e)
  /\ Tells(k, e) /\ Writes(k, e) /\ ShowsWell(k)

CallsSound == \A c \in Calls : Sound(call[c], Accepted, settings, event)

OwnerStays == member[Owner] = "accepted"

ProposerKnown == event.status # "none" => event.by \in Users

Inv == TypeOK /\ CallsSound /\ OwnerStays /\ ProposerKnown

(***************************************************************************)
(* What a step does to the calls.                                           *)
(***************************************************************************)
LEMMA CreatedType == Created \in Settings
  BY DEF Created, Settings

LEMMA IdleSound ==
  /\ IdleCall \in CallType
  /\ \A acc, s, e : Sound(IdleCall, acc, s, e)
<1>1. /\ IdleCall \in CallType /\ IdleCall.pc = "idle" /\ ~IdleCall.wrote
      /\ IdleCall.op = "none"
  BY CreatedType DEF IdleCall, CallType, Answers
<1> QED BY <1>1 DEF Sound, Witnessed, InOperation, ReadInCall, Tells, Writes, ShowsWell,
     Telling, Answering

LEMMA AcceptedType == Inv => Accepted \subseteq Users /\ Owner \in Accepted
  BY ConstantsAssumption DEF Inv, OwnerStays, Accepted, AcceptedIn

\* The call of c becomes k; members, settings and event stay.
LEMMA CallStep ==
  ASSUME Inv, NEW c \in Calls, NEW k \in CallType, Go(c, k),
         Sound(k, Accepted, settings, event),
         UNCHANGED <<member, settings, event, changes>>,
         rsvp' \in [Users -> Answers], messages' \in 0..MaxMessages
  PROVE  Inv'
<1>1. /\ call' \in [Calls -> CallType] /\ call'[c] = k
      /\ \A d \in Calls \ {c} : call'[d] = call[d]
  BY DEF Go, Inv, TypeOK
<1>2. Accepted' = Accepted
  BY DEF Accepted, AcceptedIn
<1>3. CallsSound'
  <2> SUFFICES ASSUME NEW d \in Calls PROVE Sound(call'[d], Accepted, settings, event)
    BY <1>2 DEF CallsSound
  <2>1. Sound(call[d], Accepted, settings, event)
    BY DEF Inv, CallsSound
  <2>2. CASE d = c
    BY <1>1, <2>2
  <2>3. CASE d # c
    BY <1>1, <2>1, <2>3
  <2> QED BY <2>2, <2>3
<1> QED BY <1>1, <1>3 DEF Inv, TypeOK, OwnerStays, ProposerKnown

\* The same, for a step that touches no row.
LEMMA QuietStep ==
  ASSUME Inv, NEW c \in Calls, NEW k \in CallType, Go(c, k),
         Sound(k, Accepted, settings, event), UNCHANGED Rows
  PROVE  Inv'
<1>1. UNCHANGED <<member, settings, event, changes, rsvp, messages>>
  BY DEF Rows
<1> QED BY <1>1, CallStep DEF Inv, TypeOK

\* A request that ends.
LEMMA EndStep ==
  ASSUME Inv, NEW c \in Calls, Ended(c), UNCHANGED Rows
  PROVE  Inv'
  BY IdleSound, QuietStep DEF Ended

LEMMA CallFacts ==
  ASSUME Inv, NEW c \in Calls
  PROVE  call[c] \in CallType /\ Sound(call[c], Accepted, settings, event)
  BY DEF Inv, TypeOK, CallsSound

\* How a request begins.
LEMMA BeginFacts ==
  ASSUME Inv, NEW c, NEW u \in Users,
         NEW op \in {"event", "rsvp", "message", "report", "plan", "group"},
         NEW pc \in {"access", "rsvpGroup", "message", "report", "planAccess", "groupAccess"}
  PROVE  LET b == Begin(c, op, pc, u) IN
         /\ b \in CallType /\ b.pc = pc /\ b.op = op /\ b.user = u /\ ~b.wrote
         /\ b.ever = Accepted /\ b.always = Accepted /\ b.during = {settings}
<1> DEFINE a == [IdleCall EXCEPT !.pc = pc, !.op = op, !.user = u]
           b == [a EXCEPT !.ever = Accepted, !.always = Accepted, !.during = {settings}]
<1>1. IdleCall \in CallType /\ ~IdleCall.wrote
  BY CreatedType DEF IdleCall, CallType, Answers
<1>2. Accepted \in SUBSET Users /\ {settings} \in SUBSET Settings
  BY AcceptedType DEF Inv, TypeOK
<1>3. a \in CallType /\ a.pc = pc /\ a.op = op /\ a.user = u /\ ~a.wrote
  <2> DEFINE p == [IdleCall EXCEPT !.pc = pc]
             o == [p EXCEPT !.op = op]
             w == [o EXCEPT !.user = u]
  <2>1. p \in CallType /\ p.pc = pc /\ ~p.wrote
    BY <1>1 DEF CallType
  <2> HIDE DEF p
  <2>2. o \in CallType /\ o.pc = pc /\ o.op = op /\ ~o.wrote
    BY <2>1 DEF CallType
  <2> HIDE DEF o
  <2>3. w \in CallType /\ w.pc = pc /\ w.op = op /\ w.user = u /\ ~w.wrote
    BY <2>2 DEF CallType
  <2>4. a = w
    BY DEF p, o
  <2> QED BY <2>3, <2>4
<1>4. Begin(c, op, pc, u) = b
  BY DEF Begin
<1> HIDE DEF a
<1>5. /\ b \in CallType /\ b.pc = a.pc /\ b.op = a.op /\ b.user = a.user /\ b.wrote = a.wrote
      /\ b.ever = Accepted /\ b.always = Accepted /\ b.during = {settings}
  BY <1>2, <1>3 DEF CallType
<1> QED BY <1>3, <1>4, <1>5

LEMMA InitInv == Init => Inv
<1> SUFFICES ASSUME Init PROVE Inv
  OBVIOUS
<1>1. settings \in Settings
  <2>1. Created \in Settings /\ [Created EXCEPT !.visibility = "public"] \in Settings
    BY CreatedType DEF Settings
  <2> QED BY <2>1 DEF Init
<1>a. event \in [status : EventStatuses, by : Users \cup {None}]
  BY ConstantsAssumption DEF Init, EventStatuses
<1>b. member \in [Users -> Statuses] /\ rsvp \in [Users -> Answers]
  BY DEF Init, Statuses, Answers
<1>2. TypeOK
  BY <1>1, <1>a, <1>b, IdleSound, ConstantsAssumption DEF Init, TypeOK
<1>3. CallsSound
  BY IdleSound DEF Init, CallsSound
<1>4. OwnerStays /\ ProposerKnown
  BY ConstantsAssumption DEF Init, OwnerStays, ProposerKnown
<1> QED BY <1>2, <1>3, <1>4 DEF Inv

(***************************************************************************)
(* The rows change.                                                         *)
(***************************************************************************)
LEMMA RememberSound ==
  ASSUME Inv, NEW rows \in [Users -> Statuses], NEW s \in Settings, rows[Owner] = "accepted"
  PROVE  /\ Remember(rows, s) \in [Calls -> CallType]
         /\ \A c \in Calls : Sound(Remember(rows, s)[c], AcceptedIn(rows), s, event)
<1> DEFINE Longer(k) == [k EXCEPT !.ever = k.ever \cup AcceptedIn(rows),
                                  !.always = k.always \cap AcceptedIn(rows),
                                  !.during = k.during \cup {s}]
           New(k) == IF k.pc = "idle" THEN k ELSE Longer(k)
<1>1. AcceptedIn(rows) \subseteq Users
  BY DEF AcceptedIn
<1>2. ASSUME NEW k \in CallType, Sound(k, Accepted, settings, event)
      PROVE  New(k) \in CallType /\ Sound(New(k), AcceptedIn(rows), s, event)
  <2>1. CASE k.pc = "idle"
    BY <1>2, <2>1 DEF Sound, Witnessed
  <2>2. CASE k.pc # "idle"
    <3> DEFINE w == Longer(k)
    <3>1. /\ w \in CallType /\ w.pc = k.pc /\ w.op = k.op /\ w.user = k.user
          /\ w.answer = k.answer /\ w.seen = k.seen /\ w.members = k.members
          /\ w.to = k.to /\ w.view = k.view /\ w.wrote = k.wrote
          /\ w.ever = k.ever \cup AcceptedIn(rows)
          /\ w.always = k.always \cap AcceptedIn(rows)
          /\ w.during = k.during \cup {s}
      BY <1>1 DEF CallType
    <3> HIDE DEF w
    <3>2. Witnessed(w, AcceptedIn(rows), s) /\ InOperation(w)
      BY <1>2, <3>1 DEF Sound, Witnessed, InOperation
    <3>3. ReadInCall(w, event)
      BY <1>2, <3>1 DEF Sound, ReadInCall
    <3>4. Tells(w, event)
      BY <1>2, <3>1 DEF Sound, Tells
    <3>5. Writes(w, event)
      BY <1>2, <3>1 DEF Sound, Writes
    <3>6. ShowsWell(w)
      BY <1>2, <3>1 DEF Sound, ShowsWell
    <3>7. New(k) = w
      BY <2>2 DEF w
    <3> QED BY <3>1, <3>2, <3>3, <3>4, <3>5, <3>6, <3>7 DEF Sound
  <2> QED BY <2>1, <2>2
<1>3. Remember(rows, s) = [c \in Calls |-> New(call[c])]
  BY DEF Remember
<1> HIDE DEF New
<1>4. \A c \in Calls : New(call[c]) \in CallType /\ Sound(New(call[c]), AcceptedIn(rows), s, event)
  BY <1>2, CallFacts
<1> QED BY <1>3, <1>4

LEMMA MembershipChangesInv ==
  ASSUME Inv, NEW u \in Users, NEW status \in Statuses, MembershipChanges(u, status)
  PROVE  Inv'
<1>1. member' \in [Users -> Statuses] /\ member'[Owner] = "accepted"
  BY ConstantsAssumption DEF MembershipChanges, Inv, TypeOK, OwnerStays
<1>2. call' = Remember(member', settings) /\ settings' = settings /\ event' = event
  BY DEF MembershipChanges
<1>3. settings \in Settings
  BY DEF Inv, TypeOK
<1>4. /\ call' \in [Calls -> CallType]
      /\ \A c \in Calls : Sound(call'[c], AcceptedIn(member'), settings, event)
  BY <1>1, <1>2, <1>3, RememberSound
<1>5. CallsSound'
  BY <1>2, <1>4 DEF CallsSound, Accepted
<1>6. changes' \in 0..MaxChanges
  BY ConstantsAssumption DEF MembershipChanges, Inv, TypeOK
<1> QED BY <1>1, <1>4, <1>5, <1>6
        DEF MembershipChanges, Inv, TypeOK, OwnerStays, ProposerKnown

LEMMA UpdateGroupInv == ASSUME Inv, NEW s \in Patches, UpdateGroup(s) PROVE Inv'
<1>1. s \in Settings /\ member \in [Users -> Statuses] /\ member[Owner] = "accepted"
  BY PatchesAssumption DEF Settings, Inv, TypeOK, OwnerStays
<1>2. /\ call' \in [Calls -> CallType]
      /\ \A c \in Calls : Sound(call'[c], AcceptedIn(member), s, event)
  BY <1>1, RememberSound DEF UpdateGroup
<1>3. CallsSound'
  BY <1>2 DEF CallsSound, Accepted, UpdateGroup
<1>4. changes' \in 0..MaxChanges
  BY ConstantsAssumption DEF UpdateGroup, Inv, TypeOK
<1> QED BY <1>1, <1>2, <1>3, <1>4 DEF UpdateGroup, Inv, TypeOK, OwnerStays, ProposerKnown

(***************************************************************************)
(* An event is proposed.                                                    *)
(***************************************************************************)
LEMMA AddGroupEventInv ==
  ASSUME Inv, NEW c \in Calls, NEW u \in Users, AddGroupEvent(c, u) PROVE Inv'
<1> DEFINE b == Begin(c, "event", "access", u)
           k == [b EXCEPT !.seen = settings, !.members = Accepted]
<1>1. /\ b \in CallType /\ b.pc = "access" /\ b.op = "event" /\ b.user = u /\ ~b.wrote
      /\ b.ever = Accepted /\ b.always = Accepted /\ b.during = {settings}
  BY BeginFacts
<1>2. Go(c, k) /\ UNCHANGED Rows
  BY DEF AddGroupEvent
<1> HIDE DEF b
<1>3. settings \in Settings /\ Accepted \subseteq Users
  BY AcceptedType DEF Inv, TypeOK
<1>4. /\ k \in CallType /\ k.pc = "access" /\ k.op = "event" /\ k.user = u /\ ~k.wrote
      /\ k.ever = Accepted /\ k.always = Accepted /\ k.during = {settings}
      /\ k.seen = settings /\ k.members = Accepted
  BY <1>1, <1>3 DEF CallType
<1> HIDE DEF k
<1>5. Sound(k, Accepted, settings, event)
  BY <1>4 DEF Sound, Witnessed, InOperation, ReadInCall, Tells, Writes, ShowsWell,
     Telling, Answering
<1> QED BY <1>2, <1>4, <1>5, QuietStep

LEMMA AssertMayProposeInv ==
  ASSUME Inv, NEW c \in Calls, AssertMayPropose(c) PROVE Inv'
<1> DEFINE k == call[c]
           w == [k EXCEPT !.pc = "place"]
<1>0. k \in CallType /\ Sound(k, Accepted, settings, event) /\ k.pc = "access"
  BY CallFacts DEF AssertMayPropose
<1>1. CASE MayPropose(k)
  <2>1. Go(c, w) /\ UNCHANGED Rows
    BY <1>1 DEF AssertMayPropose
  <2> HIDE DEF k
  <2>2. /\ w \in CallType /\ w.pc = "place" /\ w.op = k.op /\ w.user = k.user
        /\ w.seen = k.seen /\ w.members = k.members /\ w.wrote = k.wrote
        /\ w.ever = k.ever /\ w.always = k.always /\ w.during = k.during
        /\ w.answer = k.answer
    BY <1>0 DEF CallType
  <2> HIDE DEF w
  <2>3. k.user \in Accepted /\ (k.seen.ownerOnly => k.user = Owner)
    BY <1>0, <1>1 DEF MayPropose, Accepted, AcceptedIn, Sound, Witnessed
  <2>4. Sound(w, Accepted, settings, event)
    BY <1>0, <2>2, <2>3 DEF Sound, Witnessed, InOperation, ReadInCall, Tells, Writes, ShowsWell,
       Telling, Answering
  <2> QED BY <2>1, <2>2, <2>4, QuietStep
<1>2. CASE ~MayPropose(k)
  BY <1>2, EndStep DEF AssertMayPropose
<1> QED BY <1>1, <1>2

\* While there is no event no call depends on it.
LEMMA NoEventSound ==
  ASSUME NEW k, NEW acc, NEW s, NEW e, NEW f, Sound(k, acc, s, e), e.status = "none"
  PROVE  Sound(k, acc, s, f)
<1>1. ReadInCall(k, f)
  BY DEF Sound, ReadInCall
<1>2. Tells(k, f)
  BY DEF Sound, Tells
<1>3. Writes(k, f)
  BY DEF Sound, Writes, InOperation
<1> QED BY <1>1, <1>2, <1>3 DEF Sound

LEMMA CreateGroupEventInv ==
  ASSUME Inv, NEW c \in Calls, CreateGroupEvent(c) PROVE Inv'
<1> DEFINE k == call[c]
           to == AcceptedRecipients(k)
           w == [k EXCEPT !.pc = "publish", !.to = to, !.wrote = TRUE]
<1>0. /\ k \in CallType /\ Sound(k, Accepted, settings, event) /\ k.pc = "place"
      /\ event.status = "none"
  BY CallFacts DEF CreateGroupEvent
<1>1. /\ call' = [call EXCEPT ![c] = w]
      /\ event' = [status |-> ProposalStatus(k.seen, k.user), by |-> k.user]
      /\ UNCHANGED <<member, settings, rsvp, messages, changes>>
  BY DEF CreateGroupEvent, Go
<1> HIDE DEF k
<1>2. to = k.members \ {k.user} /\ to \subseteq Users
  BY <1>0 DEF AcceptedRecipients, CallType
<1> HIDE DEF to
<1>3. /\ w \in CallType /\ w.pc = "publish" /\ w.op = k.op /\ w.user = k.user
      /\ w.wrote /\ w.to = to
      /\ w.ever = k.ever /\ w.always = k.always /\ w.during = k.during
  BY <1>0, <1>2 DEF CallType
<1> HIDE DEF w
<1>4. /\ k.op = "event" /\ k.user \in Users /\ k.user \in k.ever
      /\ k.seen \in k.during /\ (k.seen.ownerOnly => k.user = Owner)
      /\ k.members \subseteq k.ever /\ k.always \subseteq k.members
      /\ Accepted \subseteq k.ever /\ k.always \subseteq Accepted /\ settings \in k.during
  BY <1>0 DEF Sound, Witnessed, InOperation, ReadInCall
<1>5. /\ ProposalStatus(k.seen, k.user) \in {"announcement", "proposed"}
      /\ event' \in [status : EventStatuses, by : Users \cup {None}]
      /\ event'.status # "none" /\ event'.by = k.user
  BY <1>1, <1>4 DEF ProposalStatus, EventStatuses
<1>6. Writes(w, event')
  BY <1>1, <1>3, <1>4, <1>5 DEF Writes
<1>7. Sound(w, Accepted, settings, event')
  BY <1>2, <1>3, <1>4, <1>6 DEF Sound, Witnessed, InOperation, ReadInCall, Tells, ShowsWell,
     Telling, Answering
<1>8. Accepted' = Accepted
  BY <1>1 DEF Accepted, AcceptedIn
<1>9. CallsSound'
  <2> SUFFICES ASSUME NEW d \in Calls PROVE Sound(call'[d], Accepted, settings, event')
    BY <1>1, <1>8 DEF CallsSound
  <2>1. CASE d = c
    BY <1>1, <1>7, <2>1 DEF Inv, TypeOK
  <2>2. CASE d # c
    <3>1. Sound(call[d], Accepted, settings, event) /\ call'[d] = call[d]
      BY <1>1, <2>2, CallFacts DEF Inv, TypeOK
    <3> QED BY <1>0, <3>1, NoEventSound
  <2> QED BY <2>1, <2>2
<1>10. call' \in [Calls -> CallType]
  BY <1>1, <1>3 DEF Inv, TypeOK
<1> QED BY <1>1, <1>4, <1>5, <1>9, <1>10 DEF Inv, TypeOK, OwnerStays, ProposerKnown

(***************************************************************************)
(* An event is answered.                                                    *)
(***************************************************************************)
LEMMA SetRsvpInv ==
  ASSUME Inv, NEW c \in Calls, NEW u \in Users, NEW a \in Answers, NEW viaPlan \in BOOLEAN,
         SetRsvp(c, u, a, viaPlan)
  PROVE  Inv'
<1> DEFINE b == Begin(c, "rsvp", "rsvpGroup", u)
           k == [b EXCEPT !.answer = a, !.viaPlan = viaPlan]
<1>1. /\ b \in CallType /\ b.pc = "rsvpGroup" /\ b.op = "rsvp" /\ b.user = u /\ ~b.wrote
      /\ b.ever = Accepted /\ b.always = Accepted /\ b.during = {settings}
  BY BeginFacts
<1>2. Go(c, k) /\ UNCHANGED Rows
  BY DEF SetRsvp
<1> HIDE DEF b
<1>3. /\ k \in CallType /\ k.pc = "rsvpGroup" /\ k.op = "rsvp" /\ k.user = u /\ ~k.wrote
      /\ k.ever = Accepted /\ k.always = Accepted /\ k.during = {settings}
  BY <1>1 DEF CallType
<1> HIDE DEF k
<1>4. Sound(k, Accepted, settings, event)
  BY <1>3 DEF Sound, Witnessed, InOperation, ReadInCall, Tells, Writes, ShowsWell,
     Telling, Answering
<1> QED BY <1>2, <1>3, <1>4, QuietStep

LEMMA RsvpReadGroupInv ==
  ASSUME Inv, NEW c \in Calls, RsvpReadGroup(c) PROVE Inv'
<1> DEFINE k == call[c]
           w == [k EXCEPT !.pc = "rsvpAccess", !.seen = settings]
<1>0. /\ k \in CallType /\ Sound(k, Accepted, settings, event) /\ k.pc = "rsvpGroup"
      /\ Go(c, w) /\ UNCHANGED Rows /\ settings \in Settings
  BY CallFacts DEF RsvpReadGroup, Inv, TypeOK
<1> HIDE DEF k
<1>1. /\ w \in CallType /\ w.pc = "rsvpAccess" /\ w.op = k.op /\ w.user = k.user
      /\ w.answer = k.answer /\ w.wrote = k.wrote /\ w.seen = settings
      /\ w.ever = k.ever /\ w.always = k.always /\ w.during = k.during
  BY <1>0 DEF CallType
<1> HIDE DEF w
<1>2. Sound(w, Accepted, settings, event)
  BY <1>0, <1>1 DEF Sound, Witnessed, InOperation, ReadInCall, Tells, Writes, ShowsWell,
     Telling, Answering
<1> QED BY <1>0, <1>1, <1>2, QuietStep

LEMMA RsvpAccessInv ==
  ASSUME Inv, NEW c \in Calls, RsvpAccess(c) PROVE Inv'
<1> DEFINE k == call[c]
           w == [k EXCEPT !.pc = "rsvpEvent"]
<1>0. /\ k \in CallType /\ Sound(k, Accepted, settings, event) /\ k.pc = "rsvpAccess"
      /\ UNCHANGED Rows
  BY CallFacts DEF RsvpAccess
<1>1. CASE member[k.user] = "accepted"
  <2>1. Go(c, w)
    BY <1>1 DEF RsvpAccess
  <2> HIDE DEF k
  <2>2. /\ w \in CallType /\ w.pc = "rsvpEvent" /\ w.op = k.op /\ w.user = k.user
        /\ w.answer = k.answer /\ w.wrote = k.wrote /\ w.seen = k.seen
        /\ w.ever = k.ever /\ w.always = k.always /\ w.during = k.during
    BY <1>0 DEF CallType
  <2> HIDE DEF w
  <2>3. k.user \in Accepted
    BY <1>0, <1>1 DEF Sound, Witnessed, Accepted, AcceptedIn
  <2>4. Sound(w, Accepted, settings, event)
    BY <1>0, <2>2, <2>3 DEF Sound, Witnessed, InOperation, ReadInCall, Tells, Writes, ShowsWell,
     Telling, Answering
  <2> QED BY <1>0, <2>1, <2>2, <2>4, QuietStep
<1>2. CASE member[k.user] # "accepted"
  BY <1>0, <1>2, EndStep DEF RsvpAccess
<1> QED BY <1>1, <1>2

LEMMA RsvpEventInv ==
  ASSUME Inv, NEW c \in Calls, RsvpEvent(c) PROVE Inv'
<1> DEFINE k == call[c]
           w == [k EXCEPT !.pc = "rsvpRead"]
<1>0. /\ k \in CallType /\ Sound(k, Accepted, settings, event) /\ k.pc = "rsvpEvent"
      /\ UNCHANGED Rows
  BY CallFacts DEF RsvpEvent
<1>1. CASE RsvpAllowed(k)
  <2>1. Go(c, w)
    BY <1>1 DEF RsvpEvent
  <2> HIDE DEF k
  <2>2. /\ w \in CallType /\ w.pc = "rsvpRead" /\ w.op = k.op /\ w.user = k.user
        /\ w.answer = k.answer /\ w.wrote = k.wrote
        /\ w.ever = k.ever /\ w.always = k.always /\ w.during = k.during
    BY <1>0 DEF CallType
  <2> HIDE DEF w
  <2>3. /\ event.status # "none" /\ k.seen \in k.during
        /\ (k.answer # "none" => AllowsRsvp(k.seen, event))
    BY <1>0, <1>1 DEF RsvpAllowed, Sound, ReadInCall
  <2>4. Sound(w, Accepted, settings, event)
    BY <1>0, <2>2, <2>3 DEF Sound, Witnessed, InOperation, ReadInCall, Tells, Writes, ShowsWell,
     Telling, Answering
  <2> QED BY <1>0, <2>1, <2>2, <2>4, QuietStep
<1>2. CASE ~RsvpAllowed(k)
  BY <1>0, <1>2, EndStep DEF RsvpEvent
<1> QED BY <1>1, <1>2

LEMMA RsvpReadInv ==
  ASSUME Inv, NEW c \in Calls, RsvpRead(c) PROVE Inv'
<1> DEFINE k == call[c]
           before == rsvp[k.user]
           w == [k EXCEPT !.pc = "rsvpWrite", !.before = before]
<1>0. /\ k \in CallType /\ Sound(k, Accepted, settings, event) /\ k.pc = "rsvpRead"
      /\ Go(c, w) /\ UNCHANGED Rows
  BY CallFacts DEF RsvpRead
<1> HIDE DEF k
<1>1. before \in Answers
  BY <1>0 DEF Sound, Witnessed, Inv, TypeOK
<1> HIDE DEF before
<1>2. /\ w \in CallType /\ w.pc = "rsvpWrite" /\ w.op = k.op /\ w.user = k.user
      /\ w.answer = k.answer /\ w.wrote = k.wrote
      /\ w.ever = k.ever /\ w.always = k.always /\ w.during = k.during
  BY <1>0, <1>1 DEF CallType
<1> HIDE DEF w
<1>3. Sound(w, Accepted, settings, event)
  BY <1>0, <1>2 DEF Sound, Witnessed, InOperation, ReadInCall, Tells, Writes, ShowsWell,
     Telling, Answering
<1> QED BY <1>0, <1>2, <1>3, QuietStep

LEMMA AfterRsvpSound ==
  ASSUME Inv, NEW k \in CallType, k.op = "rsvp", k.pc # "idle",
         Witnessed(k, Accepted, settings), Writes(k, event)
  PROVE  AfterRsvp(k) \in CallType /\ Sound(AfterRsvp(k), Accepted, settings, event)
<1>1. CASE k.viaPlan
  <2> DEFINE w == [k EXCEPT !.pc = "planAccess", !.seen = settings]
  <2>1. settings \in Settings
    BY DEF Inv, TypeOK
  <2>2. /\ w \in CallType /\ w.pc = "planAccess" /\ w.op = k.op /\ w.user = k.user
        /\ w.answer = k.answer /\ w.wrote = k.wrote /\ w.seen = settings
        /\ w.ever = k.ever /\ w.always = k.always /\ w.during = k.during
    BY <2>1 DEF CallType
  <2>3. AfterRsvp(k) = w
    BY <1>1 DEF AfterRsvp
  <2> HIDE DEF w
  <2>4. Writes(w, event)
    BY <2>2 DEF Writes
  <2>5. Sound(w, Accepted, settings, event)
    BY <2>2, <2>4 DEF Sound, Witnessed, InOperation, ReadInCall, Tells, ShowsWell,
       Telling, Answering
  <2> QED BY <2>2, <2>3, <2>5
<1>2. CASE ~k.viaPlan
  BY <1>2, IdleSound DEF AfterRsvp
<1> QED BY <1>1, <1>2

LEMMA RsvpWriteInv ==
  ASSUME Inv, NEW c \in Calls, RsvpWrite(c) PROVE Inv'
<1> DEFINE k == call[c]
           changed == k.before # k.answer
           wrote == [k EXCEPT !.wrote = changed]
           to == RsvpRecipients(k, Accepted \cap {Owner})
           told == [wrote EXCEPT !.pc = "publish", !.to = to]
           new == IF changed /\ k.answer # "none" THEN told ELSE AfterRsvp(wrote)
<1>0. /\ k \in CallType /\ Sound(k, Accepted, settings, event) /\ k.pc = "rsvpWrite"
      /\ rsvp' = IF changed THEN [rsvp EXCEPT ![k.user] = k.answer] ELSE rsvp
      /\ Go(c, new) /\ UNCHANGED <<member, settings, event, messages, changes>>
  BY CallFacts DEF RsvpWrite
<1> HIDE DEF k
<1>1. changed \in BOOLEAN
  OBVIOUS
<1>2. rsvp' \in [Users -> Answers]
  BY <1>0 DEF Inv, TypeOK, CallType
<1>3. /\ k.op = "rsvp" /\ k.user \in Users /\ k.user \in k.ever /\ event.status # "none"
      /\ (k.answer # "none" => \E s \in k.during : AllowsRsvp(s, event))
      /\ event.by \in Users
  BY <1>0 DEF Sound, Witnessed, InOperation, ReadInCall, Answering, Inv, ProposerKnown
<1> HIDE DEF changed
<1>4. /\ wrote \in CallType /\ wrote.pc = "rsvpWrite" /\ wrote.op = k.op /\ wrote.user = k.user
      /\ wrote.answer = k.answer /\ wrote.wrote = changed
      /\ wrote.ever = k.ever /\ wrote.always = k.always /\ wrote.during = k.during
  BY <1>0, <1>1 DEF CallType
<1> HIDE DEF wrote
<1>5. Writes(wrote, event) /\ Witnessed(wrote, Accepted, settings)
  BY <1>0, <1>3, <1>4 DEF Writes, Sound, Witnessed
<1>6. AfterRsvp(wrote) \in CallType /\ Sound(AfterRsvp(wrote), Accepted, settings, event)
  BY <1>3, <1>4, <1>5, AfterRsvpSound
<1>7. /\ to \subseteq Users /\ k.user \notin to /\ to \subseteq {Owner, event.by}
      /\ {Owner} \ {k.user} \subseteq to
  BY <1>3, AcceptedType, ConstantsAssumption DEF RsvpRecipients
<1> HIDE DEF to
<1>8. told \in CallType /\ Sound(told, Accepted, settings, event)
  <2>1. /\ told \in CallType /\ told.pc = "publish" /\ told.op = k.op /\ told.user = k.user
        /\ told.answer = k.answer /\ told.wrote = changed /\ told.to = to
        /\ told.ever = k.ever /\ told.always = k.always /\ told.during = k.during
    BY <1>4, <1>7 DEF CallType
  <2> HIDE DEF told
  <2>2. Writes(told, event) /\ Witnessed(told, Accepted, settings)
    BY <1>4, <1>5, <2>1 DEF Writes, Witnessed
  <2>3. Tells(told, event)
    BY <1>3, <1>7, <2>1 DEF Tells
  <2>4. InOperation(told) /\ ReadInCall(told, event) /\ ShowsWell(told)
    BY <1>3, <2>1 DEF InOperation, ReadInCall, ShowsWell, Telling, Answering
  <2> QED BY <2>1, <2>2, <2>3, <2>4 DEF Sound
<1>9. new \in CallType /\ Sound(new, Accepted, settings, event)
  BY <1>6, <1>8
<1> HIDE DEF new
<1> QED BY <1>0, <1>2, <1>9, CallStep DEF Inv, TypeOK

(***************************************************************************)
(* Messages and reports.                                                    *)
(***************************************************************************)
LEMMA SendMessageInv ==
  ASSUME Inv, NEW c \in Calls, NEW u \in Users, SendMessage(c, u) PROVE Inv'
<1> DEFINE k == Begin(c, "message", "message", u)
<1>1. /\ k \in CallType /\ k.pc = "message" /\ k.op = "message" /\ k.user = u /\ ~k.wrote
      /\ k.ever = Accepted /\ k.always = Accepted /\ k.during = {settings}
  BY BeginFacts
<1>2. Go(c, k) /\ UNCHANGED Rows /\ u \in Accepted
  BY DEF SendMessage, Accepted, AcceptedIn
<1> HIDE DEF k
<1>3. Sound(k, Accepted, settings, event)
  BY <1>1, <1>2 DEF Sound, Witnessed, InOperation, ReadInCall, Tells, Writes, ShowsWell,
     Telling, Answering
<1> QED BY <1>1, <1>2, <1>3, QuietStep

LEMMA CreateMessageInv ==
  ASSUME Inv, NEW c \in Calls, CreateMessage(c) PROVE Inv'
<1> DEFINE k == call[c]
           w == [k EXCEPT !.pc = "recipients", !.wrote = TRUE]
<1>0. /\ k \in CallType /\ Sound(k, Accepted, settings, event) /\ k.pc = "message"
      /\ Go(c, w) /\ UNCHANGED <<member, settings, event, rsvp, changes>>
      /\ messages' \in 0..MaxMessages
  BY CallFacts, ConstantsAssumption DEF CreateMessage, Inv, TypeOK
<1> HIDE DEF k
<1>1. /\ w \in CallType /\ w.pc = "recipients" /\ w.op = k.op /\ w.user = k.user
      /\ w.answer = k.answer /\ w.wrote
      /\ w.ever = k.ever /\ w.always = k.always /\ w.during = k.during
  BY <1>0 DEF CallType
<1> HIDE DEF w
<1>2. Sound(w, Accepted, settings, event)
  BY <1>0, <1>1 DEF Sound, Witnessed, InOperation, ReadInCall, Tells, Writes, ShowsWell,
     Telling, Answering
<1> QED BY <1>0, <1>1, <1>2, CallStep DEF Inv, TypeOK

LEMMA MessageRecipientsInv ==
  ASSUME Inv, NEW c \in Calls, MessageRecipients(c) PROVE Inv'
<1> DEFINE k == call[c]
           to == Accepted \ {k.user}
           w == [k EXCEPT !.pc = "publish", !.to = to]
<1>0. /\ k \in CallType /\ Sound(k, Accepted, settings, event) /\ k.pc = "recipients"
      /\ Go(c, w) /\ UNCHANGED Rows /\ to \subseteq Users
  BY CallFacts, AcceptedType DEF MessageRecipients
<1> HIDE DEF k
<1>1. /\ w \in CallType /\ w.pc = "publish" /\ w.op = k.op /\ w.user = k.user
      /\ w.answer = k.answer /\ w.wrote = k.wrote /\ w.to = to
      /\ w.ever = k.ever /\ w.always = k.always /\ w.during = k.during
  BY <1>0 DEF CallType
<1> HIDE DEF w
<1>2. Sound(w, Accepted, settings, event)
  BY <1>0, <1>1 DEF Sound, Witnessed, InOperation, ReadInCall, Tells, Writes, ShowsWell,
     Telling, Answering
<1> QED BY <1>0, <1>1, <1>2, QuietStep

LEMMA ReportInv ==
  ASSUME Inv, NEW c \in Calls, NEW u \in Users, Report(c, u) PROVE Inv'
<1> DEFINE k == Begin(c, "report", "report", u)
<1>1. /\ k \in CallType /\ k.pc = "report" /\ k.op = "report" /\ k.user = u /\ ~k.wrote
      /\ k.ever = Accepted /\ k.always = Accepted /\ k.during = {settings}
  BY BeginFacts
<1>2. Go(c, k) /\ UNCHANGED Rows
  BY DEF Report
<1> HIDE DEF k
<1>3. Sound(k, Accepted, settings, event)
  BY <1>1 DEF Sound, Witnessed, InOperation, ReadInCall, Tells, Writes, ShowsWell,
     Telling, Answering
<1> QED BY <1>1, <1>2, <1>3, QuietStep

LEMMA ReportRecipientsInv ==
  ASSUME Inv, NEW c \in Calls, ReportRecipients(c) PROVE Inv'
<1> DEFINE k == call[c]
           to == (Accepted \cap {Owner}) \ {k.user}
           w == [k EXCEPT !.pc = "publish", !.to = to]
<1>0. /\ k \in CallType /\ Sound(k, Accepted, settings, event) /\ k.pc = "report"
      /\ UNCHANGED Rows /\ to \subseteq Users /\ to = {Owner} \ {k.user}
  BY CallFacts, AcceptedType DEF ReportRecipients
<1>1. CASE to = {}
  BY <1>0, <1>1, EndStep DEF ReportRecipients
<1>2. CASE to # {}
  <2>1. Go(c, w)
    BY <1>2 DEF ReportRecipients
  <2> HIDE DEF k, to
  <2>2. /\ w \in CallType /\ w.pc = "publish" /\ w.op = k.op /\ w.user = k.user
        /\ w.answer = k.answer /\ w.wrote = k.wrote /\ w.to = to
        /\ w.ever = k.ever /\ w.always = k.always /\ w.during = k.during
    BY <1>0 DEF CallType
  <2> HIDE DEF w
  <2>3. Sound(w, Accepted, settings, event)
    BY <1>0, <2>2 DEF Sound, Witnessed, InOperation, ReadInCall, Tells, Writes, ShowsWell,
     Telling, Answering
  <2> QED BY <1>0, <2>1, <2>2, <2>3, QuietStep
<1> QED BY <1>1, <1>2

LEMMA PublishInv == ASSUME Inv, NEW c \in Calls, Publish(c) PROVE Inv'
<1> DEFINE k == call[c]
           w == [k EXCEPT !.pc = "told"]
<1>0. /\ k \in CallType /\ Sound(k, Accepted, settings, event) /\ k.pc = "publish"
      /\ Go(c, w) /\ UNCHANGED Rows
  BY CallFacts DEF Publish
<1> HIDE DEF k
<1>1. /\ w \in CallType /\ w.pc = "told" /\ w.op = k.op /\ w.user = k.user
      /\ w.answer = k.answer /\ w.wrote = k.wrote /\ w.to = k.to
      /\ w.ever = k.ever /\ w.always = k.always /\ w.during = k.during
  BY <1>0 DEF CallType
<1> HIDE DEF w
<1>2. Sound(w, Accepted, settings, event)
  BY <1>0, <1>1 DEF Sound, Witnessed, InOperation, ReadInCall, Tells, Writes, ShowsWell,
     Telling, Answering
<1> QED BY <1>0, <1>1, <1>2, QuietStep

LEMMA AfterToldInv == ASSUME Inv, NEW c \in Calls, AfterTold(c) PROVE Inv'
<1> DEFINE k == call[c]
           w == IF k.op = "rsvp" THEN AfterRsvp(k) ELSE IdleCall
<1>0. /\ k \in CallType /\ Sound(k, Accepted, settings, event) /\ k.pc = "told"
      /\ Go(c, w) /\ UNCHANGED Rows
  BY CallFacts DEF AfterTold
<1>1. w \in CallType /\ Sound(w, Accepted, settings, event)
  BY <1>0, AfterRsvpSound, IdleSound DEF Sound
<1> HIDE DEF w
<1> QED BY <1>0, <1>1, QuietStep

(***************************************************************************)
(* The plan and the group are shown.                                        *)
(***************************************************************************)
LEMMA GetPlanInv ==
  ASSUME Inv, NEW c \in Calls, NEW u \in Users, GetPlan(c, u) PROVE Inv'
<1> DEFINE b == Begin(c, "plan", "planAccess", u)
           k == [b EXCEPT !.seen = settings]
<1>1. /\ b \in CallType /\ b.pc = "planAccess" /\ b.op = "plan" /\ b.user = u /\ ~b.wrote
      /\ b.ever = Accepted /\ b.always = Accepted /\ b.during = {settings}
      /\ settings \in Settings
  BY BeginFacts DEF Inv, TypeOK
<1>2. Go(c, k) /\ UNCHANGED Rows
  BY DEF GetPlan
<1> HIDE DEF b
<1>3. /\ k \in CallType /\ k.pc = "planAccess" /\ k.op = "plan" /\ k.user = u /\ ~k.wrote
      /\ k.ever = Accepted /\ k.always = Accepted /\ k.during = {settings}
      /\ k.seen = settings
  BY <1>1 DEF CallType
<1> HIDE DEF k
<1>4. Sound(k, Accepted, settings, event)
  BY <1>3 DEF Sound, Witnessed, InOperation, ReadInCall, Tells, Writes, ShowsWell,
     Telling, Answering
<1> QED BY <1>2, <1>3, <1>4, QuietStep

LEMMA PlanViewFacts ==
  ASSUME Inv, NEW k, k.user \in Users
  PROVE  /\ PlanView(k) \in {"none", "missing", "forbidden", "preview", "full"}
         /\ PlanView(k) = "full" <=> k.user \in Accepted
         /\ PlanView(k) = "preview" => k.seen.visibility = "public"
<1>1. member[k.user] \in {"none", "pending", "accepted", "left"}
  BY DEF Inv, TypeOK, Statuses
<1>2. k.user \in Accepted <=> member[k.user] = "accepted"
  BY DEF Accepted, AcceptedIn
<1> QED BY <1>1, <1>2 DEF PlanView

LEMMA ShowPlanInv == ASSUME Inv, NEW c \in Calls, ShowPlan(c) PROVE Inv'
<1> DEFINE k == call[c]
           view == PlanView(k)
           w == [k EXCEPT !.pc = "shown", !.view = view]
<1>0. /\ k \in CallType /\ Sound(k, Accepted, settings, event) /\ k.pc = "planAccess"
      /\ Go(c, w) /\ UNCHANGED Rows
  BY CallFacts DEF ShowPlan
<1> HIDE DEF k
<1>1. k.user \in Users
  BY <1>0 DEF Sound, Witnessed
<1>2. /\ view \in {"none", "missing", "forbidden", "preview", "full"}
      /\ view = "full" <=> k.user \in Accepted
      /\ view = "preview" => k.seen.visibility = "public"
  BY <1>1, PlanViewFacts
<1> HIDE DEF view
<1>3. /\ w \in CallType /\ w.pc = "shown" /\ w.op = k.op /\ w.user = k.user
      /\ w.answer = k.answer /\ w.wrote = k.wrote /\ w.view = view
      /\ w.ever = k.ever /\ w.always = k.always /\ w.during = k.during
  BY <1>0, <1>2 DEF CallType
<1> HIDE DEF w
<1>4. Sound(w, Accepted, settings, event)
  BY <1>0, <1>2, <1>3 DEF Sound, Witnessed, InOperation, ReadInCall, Tells, Writes, ShowsWell,
     Telling, Answering
<1> QED BY <1>0, <1>3, <1>4, QuietStep

LEMMA GetGroupInv ==
  ASSUME Inv, NEW c \in Calls, NEW u \in Users, GetGroup(c, u) PROVE Inv'
<1> DEFINE b == Begin(c, "group", "groupAccess", u)
           k == [b EXCEPT !.seen = settings, !.members = Accepted]
<1>1. /\ b \in CallType /\ b.pc = "groupAccess" /\ b.op = "group" /\ b.user = u /\ ~b.wrote
      /\ b.ever = Accepted /\ b.always = Accepted /\ b.during = {settings}
      /\ settings \in Settings /\ Accepted \subseteq Users
  BY BeginFacts, AcceptedType DEF Inv, TypeOK
<1>2. Go(c, k) /\ UNCHANGED Rows
  BY DEF GetGroup
<1> HIDE DEF b
<1>3. /\ k \in CallType /\ k.pc = "groupAccess" /\ k.op = "group" /\ k.user = u /\ ~k.wrote
      /\ k.ever = Accepted /\ k.always = Accepted /\ k.during = {settings}
  BY <1>1 DEF CallType
<1> HIDE DEF k
<1>4. Sound(k, Accepted, settings, event)
  BY <1>3 DEF Sound, Witnessed, InOperation, ReadInCall, Tells, Writes, ShowsWell,
     Telling, Answering
<1> QED BY <1>2, <1>3, <1>4, QuietStep

\* A request for the group moves on, or shows it.
LEMMA GroupStep ==
  ASSUME Inv, NEW c \in Calls, call[c].pc \in {"groupAccess", "groupFollows"},
         NEW pc \in {"shown", "groupFollows"},
         NEW view \in {"none", "missing", "forbidden", "preview", "full"},
         Go(c, [call[c] EXCEPT !.pc = pc, !.view = view]), UNCHANGED Rows
  PROVE  Inv'
<1> DEFINE k == call[c]
           w == [k EXCEPT !.pc = pc, !.view = view]
<1>0. k \in CallType /\ Sound(k, Accepted, settings, event) /\ Go(c, w)
  BY CallFacts
<1> HIDE DEF k
<1>1. /\ w \in CallType /\ w.pc = pc /\ w.op = k.op /\ w.user = k.user
      /\ w.answer = k.answer /\ w.wrote = k.wrote
      /\ w.ever = k.ever /\ w.always = k.always /\ w.during = k.during
  BY <1>0 DEF CallType
<1> HIDE DEF w
<1>2. k.pc \in {"groupAccess", "groupFollows"}
  BY DEF k
<1>3. Sound(w, Accepted, settings, event)
  BY <1>0, <1>1, <1>2 DEF Sound, Witnessed, InOperation, ReadInCall, Tells, Writes, ShowsWell,
     Telling, Answering
<1> QED BY <1>0, <1>1, <1>3, QuietStep

LEMMA GroupAccessInv == ASSUME Inv, NEW c \in Calls, GroupAccess(c) PROVE Inv'
<1> DEFINE k == call[c]
<1>0. /\ k \in CallType /\ Sound(k, Accepted, settings, event) /\ k.pc = "groupAccess"
      /\ UNCHANGED Rows
  BY CallFacts DEF GroupAccess
<1>1. member[k.user] \in {"none", "pending", "accepted", "left"}
  BY <1>0 DEF Sound, Witnessed, Inv, TypeOK, Statuses
<1>2. CASE member[k.user] \in {"accepted", "pending"}
  <2>1. Go(c, [k EXCEPT !.pc = "shown", !.view = "full"])
    BY <1>2 DEF GroupAccess
  <2> QED BY <1>0, <2>1, GroupStep
<1>3. CASE member[k.user] \in {"none", "left"} /\ k.seen.visibility = "private"
  <2>1. Go(c, [k EXCEPT !.pc = "shown", !.view = "missing"])
    BY <1>3 DEF GroupAccess
  <2> QED BY <1>0, <2>1, GroupStep
<1>4. CASE member[k.user] \in {"none", "left"} /\ k.seen.visibility # "private"
  <2>1. Go(c, [k EXCEPT !.pc = "groupFollows"])
    BY <1>4 DEF GroupAccess
  <2>2. /\ [k EXCEPT !.pc = "groupFollows"] = [k EXCEPT !.pc = "groupFollows", !.view = k.view]
        /\ k.view \in {"none", "missing", "forbidden", "preview", "full"}
    BY <1>0 DEF CallType
  <2>3. Go(c, [k EXCEPT !.pc = "groupFollows", !.view = k.view])
    BY <2>1, <2>2
  <2> QED BY <1>0, <2>2, <2>3, GroupStep
<1> QED BY <1>1, <1>2, <1>3, <1>4

LEMMA ShowGroupInv ==
  ASSUME Inv, NEW c \in Calls, NEW followed \in SUBSET Users, ShowGroup(c, followed) PROVE Inv'
<1> DEFINE view == IF followed \cap (call[c].members \cup {Owner}) # {}
                   THEN "preview" ELSE "missing"
<1>1. /\ call[c].pc = "groupFollows" /\ UNCHANGED Rows
      /\ Go(c, [call[c] EXCEPT !.pc = "shown", !.view = view])
  BY DEF ShowGroup
<1>2. view \in {"none", "missing", "forbidden", "preview", "full"}
  OBVIOUS
<1> HIDE DEF view
<1> QED BY <1>1, <1>2, GroupStep

LEMMA NextInv == Inv /\ [Next]_vars => Inv'
<1> SUFFICES ASSUME Inv, [Next]_vars PROVE Inv'
  OBVIOUS
<1>1. ASSUME NEW u \in Users, NEW s \in Statuses, MembershipChanges(u, s) PROVE Inv'
  BY <1>1, MembershipChangesInv
<1>2. ASSUME NEW s \in Patches, UpdateGroup(s) PROVE Inv'
  BY <1>2, UpdateGroupInv
<1>3. ASSUME NEW c \in Calls, NEW u \in Users,
             \/ AddGroupEvent(c, u) \/ SendMessage(c, u) \/ Report(c, u)
             \/ GetPlan(c, u) \/ GetGroup(c, u)
             \/ \E a \in Answers, viaPlan \in BOOLEAN : SetRsvp(c, u, a, viaPlan)
      PROVE  Inv'
  BY <1>3, AddGroupEventInv, SendMessageInv, ReportInv, GetPlanInv, GetGroupInv, SetRsvpInv
<1>4. ASSUME NEW c \in Calls, AssertMayPropose(c) \/ CreateGroupEvent(c) PROVE Inv'
  BY <1>4, AssertMayProposeInv, CreateGroupEventInv
<1>5. ASSUME NEW c \in Calls,
             RsvpReadGroup(c) \/ RsvpAccess(c) \/ RsvpEvent(c) \/ RsvpRead(c) \/ RsvpWrite(c)
      PROVE  Inv'
  BY <1>5, RsvpReadGroupInv, RsvpAccessInv, RsvpEventInv, RsvpReadInv, RsvpWriteInv
<1>6. ASSUME NEW c \in Calls,
             \/ CreateMessage(c) \/ MessageRecipients(c) \/ ReportRecipients(c)
             \/ Publish(c) \/ AfterTold(c)
      PROVE  Inv'
  BY <1>6, CreateMessageInv, MessageRecipientsInv, ReportRecipientsInv, PublishInv, AfterToldInv
<1>7. ASSUME NEW c \in Calls, CallFails(c) \/ Answered(c) PROVE Inv'
  BY <1>7, EndStep DEF CallFails, Answered
<1>8. ASSUME NEW c \in Calls,
             \/ ShowPlan(c) \/ GroupAccess(c) \/ \E f \in SUBSET Users : ShowGroup(c, f)
      PROVE  Inv'
  BY <1>8, ShowPlanInv, GroupAccessInv, ShowGroupInv
<1>9. CASE UNCHANGED vars
  BY <1>9 DEF vars, Inv, TypeOK, CallsSound, OwnerStays, ProposerKnown, Accepted, AcceptedIn
<1> QED BY <1>1, <1>2, <1>3, <1>4, <1>5, <1>6, <1>7, <1>8, <1>9 DEF Next

LEMMA Invariance == Spec => []Inv
  BY InitInv, NextInv, PTL DEF Spec

(***************************************************************************)
(* The theorems.                                                            *)
(***************************************************************************)
\* Every row and every request keeps its type.
THEOREM TypeCorrect == Spec => []TypeOK
<1>1. Inv => TypeOK
  BY DEF Inv
<1> QED BY <1>1, Invariance, PTL

\* The recipients of every notification of a plan are right, however the
\* memberships change while the call runs.
THEOREM RightPeopleAreTold == Spec => []RightPeopleTold
<1>1. Inv => RightPeopleTold
  BY DEF Inv, CallsSound, Sound, Tells, Telling, RightPeopleTold
<1> QED BY <1>1, Invariance, PTL

\* What a call writes one setting in force during the call justifies, even if
\* the settings were changed after the call had judged them.
THEOREM SettingsJustify == Spec => []OneSettingJustifies
<1>1. Inv => OneSettingJustifies
  BY DEF Inv, CallsSound, Sound, Writes, OneSettingJustifies
<1> QED BY <1>1, Invariance, PTL

\* Only members see a plan whole, with the address and the exact coordinates of
\* its place, and members always do (plans get and setRsvp).
THEOREM MembersSeeThePlan == Spec => []ExactPlaceForMembers
<1>1. Inv => ExactPlaceForMembers
  BY DEF Inv, CallsSound, Sound, ShowsWell, ExactPlaceForMembers
<1> QED BY <1>1, Invariance, PTL

(***************************************************************************)
(* PlanPages: the lists read page by page, for any finite number of rows,   *)
(* any dates, any page size and any number of changes meanwhile.  PlanPages *)
(* shares no state with the calls above.                                    *)
(***************************************************************************)
\* The order of Nat as a relation: any set of naturals has a least element.
Less == {ss \in Nat \X Nat : ss[1] < ss[2]}

LEMMA LessWellFounded == IsWellFoundedOn(Less, Nat)
BY NatLessThanWellFounded DEF OpToRel, Less

LEMMA Smallest ==
  ASSUME NEW S \in SUBSET Nat, S # {}
  PROVE  \E n \in S : \A m \in S : n <= m
<1>1. \E n \in S : \A m \in S : ~ (<<m, n>> \in Less)
  BY LessWellFounded, WFMin
<1>2. \A m, n \in S : <<m, n>> \notin Less => n <= m
  BY DEF Less
<1> QED BY <1>1, <1>2

\* Finitely many rows, dates with a last one, and pages that hold something.
PageParameters ==
  /\ Ids \subseteq Nat /\ IsFiniteSet(Ids)
  /\ Dates \subseteq Nat /\ \E d \in Dates : \A e \in Dates : e <= d
  /\ Limit \in Nat \ {0}

WalkType ==
  [pc : {"reading", "done"}, after : {<<>>} \cup (Nat \X Ids), offset : Nat,
   shown : [Ids -> Nat], kept : SUBSET Ids, steady : BOOLEAN]

PageTypeOK ==
  /\ kind \in P!Kinds
  /\ now \in Nat
  /\ row \in [Ids -> P!RowType]
  /\ walk \in WalkType

\* A row that kept its place was shown if it is not after the cursor.
CursorInv ==
  \A i \in walk.kept :
    walk.shown[i] = IF walk.pc = "done" THEN 1
                    ELSE IF walk.after = <<>> \/ P!Before(walk.after, P!Place(i)) THEN 0
                    ELSE 1

\* In any sorting of the rows, the ones before the offset have been shown.
OffsetInv ==
  /\ \A i \in walk.kept :
       /\ walk.shown[i] \in {0, 1}
       /\ walk.pc = "done" => walk.shown[i] = 1
  /\ walk.pc = "reading" =>
       \A q \in P!Sorted(P!Rows) : \A n \in DOMAIN q :
         walk.shown[q[n]] = IF n <= walk.offset THEN 1 ELSE 0

PageInv ==
  /\ PageParameters
  /\ PageTypeOK
  /\ \A i \in walk.kept : i \in P!Rows
  /\ kind # "friends" => CursorInv
  /\ kind = "friends" /\ walk.steady => OffsetInv

-----------------------------------------------------------------------------
LEMMA SameCardinality == ASSUME NEW S PROVE P!Cardinality(S) = Cardinality(S)
BY DEF P!Cardinality, Cardinality

LEMMA NeverType == PageParameters => P!Never \in Nat
<1> SUFFICES ASSUME PageParameters PROVE P!Never \in Nat
  OBVIOUS
<1> DEFINE last == CHOOSE d \in Dates : \A e \in Dates : e <= d
<1>1. last \in Dates
  BY DEF PageParameters
<1>2. P!Never = 1 + last
  BY DEF P!Never
<1> HIDE DEF last
<1> QED BY <1>1, <1>2 DEF PageParameters

LEMMA MinOrType ==
  ASSUME NEW S \in SUBSET Nat, NEW none \in Nat
  PROVE  P!MinOr(S, none) \in Nat
<1>1. CASE S = {}
  BY <1>1 DEF P!MinOr
<1>2. CASE S # {}
  <2> DEFINE d == CHOOSE d \in S : \A e \in S : d <= e
  <2>1. d \in S
    BY <1>2, Smallest
  <2>2. P!MinOr(S, none) = d
    BY <1>2 DEF P!MinOr
  <2> HIDE DEF d
  <2> QED BY <2>1, <2>2
<1> QED BY <1>1, <1>2

LEMMA DateType ==
  ASSUME PageParameters, NEW k \in P!Kinds, NEW r \in P!RowType, NEW t
  PROVE  P!DateOf(k, r, t) \in Nat
<1>1. P!Never \in Nat
  BY NeverType
<1>2. r.confirmed \subseteq Nat /\ r.proposed \subseteq Nat
  BY DEF P!RowType, PageParameters
<1>3. P!DateOf("messages", r, t) \in Nat
  BY <1>1, <1>2, MinOrType DEF P!DateOf
<1>4. P!DiscoverDate(r, t) \in Nat
  <2>1. {d \in r.confirmed \cup r.proposed : d >= t} \subseteq Nat
    BY <1>2
  <2> QED BY <1>1, <2>1, MinOrType DEF P!DiscoverDate
<1>5. P!FriendDate(r, t) \in Nat
  <2>1. {d \in r.confirmed : d >= t} \subseteq Nat /\ {d \in r.proposed : d >= t} \subseteq Nat
    BY <1>2
  <2>2. P!MinOr({d \in r.proposed : d >= t}, P!Never) \in Nat
    BY <1>1, <2>1, MinOrType
  <2> QED BY <2>1, <2>2, MinOrType DEF P!FriendDate
<1>6. k = "messages" \/ k = "discover" \/ k = "friends"
  BY DEF P!Kinds
<1>7. CASE k = "messages"
  BY <1>3, <1>7
<1>8. CASE k = "discover"
  BY <1>4, <1>8 DEF P!DateOf
<1>9. CASE k = "friends"
  BY <1>5, <1>9 DEF P!DateOf
<1> QED BY <1>6, <1>7, <1>8, <1>9

LEMMA PlaceType ==
  ASSUME PageParameters, PageTypeOK, NEW i \in Ids
  PROVE  /\ P!Place(i) \in Nat \X Nat /\ P!Place(i) \in Nat \X Ids
         /\ P!Place(i)[2] = i
<1>1. P!DateOf(kind, row[i], now) \in Nat
  BY DateType DEF PageTypeOK
<1> QED BY <1>1 DEF P!Place, PageParameters

\* The order of the places is total: ids break ties.
LEMMA BeforeTotal ==
  ASSUME NEW a \in Nat \X Nat, NEW b \in Nat \X Nat, NEW c \in Nat \X Nat
  PROVE  /\ ~P!Before(a, a)
         /\ P!Before(a, b) => ~P!Before(b, a)
         /\ P!Before(a, b) /\ P!Before(b, c) => P!Before(a, c)
         /\ ~P!Before(b, a) /\ P!Before(b, c) => P!Before(a, c)
         /\ ~P!Before(b, a) /\ a[2] # b[2] => P!Before(a, b)
BY DEF P!Before

-----------------------------------------------------------------------------
\* A sorting of a set of rows: every row once, each before the later ones.
LEMMA SortedFacts ==
  ASSUME PageParameters, PageTypeOK, NEW S \in SUBSET Ids, NEW q \in P!Sorted(S)
  PROVE  /\ Len(q) \in Nat /\ DOMAIN q = 1 .. Len(q)
         /\ \A n \in DOMAIN q : q[n] \in S
         /\ \A m, n \in DOMAIN q : q[m] = q[n] => m = n
         /\ \A i \in S : \E n \in DOMAIN q : q[n] = i
         /\ \A m, n \in DOMAIN q : m < n => P!Before(P!Place(q[m]), P!Place(q[n]))
<1> DEFINE D == 1 .. Cardinality(S)
<1>1. /\ q \in [D -> S] /\ \A i, j \in D : i # j => q[i] # q[j]
      /\ \A i, j \in DOMAIN q : i < j => ~P!Before(P!Place(q[j]), P!Place(q[i]))
  BY SameCardinality DEF P!Sorted, P!SetToSeqs
<1>2. IsFiniteSet(S) /\ Cardinality(S) \in Nat
  BY FS_Subset, FS_CardinalityType DEF PageParameters
<1>3. Len(q) = Cardinality(S) /\ DOMAIN q = D
  BY <1>1, <1>2
<1>4. Cardinality(D) = Cardinality(S)
  BY <1>2, FS_Interval
<1>5. q \in Injection(D, S)
  BY <1>1 DEF Injection, IsInjective
<1>6. q \in Surjection(D, S)
  BY <1>2, <1>4, <1>5, FS_Injection
<1>7. \A i \in S : \E n \in D : q[n] = i
  BY <1>6 DEF Surjection
<1>8. ASSUME NEW m \in D, NEW n \in D, m < n
      PROVE  P!Before(P!Place(q[m]), P!Place(q[n]))
  <2>1. q[m] \in Ids /\ q[n] \in Ids /\ q[m] # q[n]
    BY <1>1, <1>8
  <2>2. /\ P!Place(q[m]) \in Nat \X Nat /\ P!Place(q[n]) \in Nat \X Nat
        /\ P!Place(q[m])[2] # P!Place(q[n])[2]
    BY <2>1, PlaceType
  <2>3. ~P!Before(P!Place(q[n]), P!Place(q[m]))
    BY <1>1, <1>3, <1>8
  <2> QED BY <2>2, <2>3, BeforeTotal
<1> QED BY <1>1, <1>2, <1>3, <1>7, <1>8

\* There is one sorting: the first difference of two would be out of order.
LEMMA SortedOnce ==
  ASSUME PageParameters, PageTypeOK, NEW S \in SUBSET Ids,
         NEW q \in P!Sorted(S), NEW r \in P!Sorted(S)
  PROVE  q = r
<1>1. /\ q \in [1 .. Cardinality(S) -> S] /\ r \in [1 .. Cardinality(S) -> S]
  BY SameCardinality DEF P!Sorted, P!SetToSeqs
<1>2. /\ DOMAIN q = DOMAIN r /\ DOMAIN q \subseteq Nat
  BY <1>1
<1> DEFINE Differ == {n \in DOMAIN q : q[n] # r[n]}
<1>3. ASSUME Differ # {} PROVE FALSE
  <2>1. PICK n \in Differ : \A m \in Differ : n <= m
    BY <1>2, <1>3, Smallest
  <2>2. n \in DOMAIN q /\ n \in DOMAIN r /\ q[n] # r[n]
    BY <1>2, <2>1
  <2>3. \A m \in DOMAIN q : m < n => q[m] = r[m]
    BY <1>2, <2>1
  <2>4. q[n] \in S /\ r[n] \in S
    BY <1>1, <1>2, <2>2
  <2>5. PICK j \in DOMAIN r : r[j] = q[n]
    BY <2>4, SortedFacts
  <2>6. PICK k \in DOMAIN q : q[k] = r[n]
    BY <2>4, SortedFacts
  <2>7. n < j
    <3>1. CASE j < n
      <4>1. q[j] = q[n]
        BY <1>2, <2>3, <2>5, <3>1
      <4> QED BY <1>2, <2>2, <2>5, <3>1, <4>1, SortedFacts
    <3>2. j # n
      BY <2>2, <2>5
    <3> QED BY <1>2, <2>2, <2>5, <3>1, <3>2
  <2>8. n < k
    <3>1. CASE k < n
      <4>1. r[k] = r[n]
        BY <1>2, <2>3, <2>6, <3>1
      <4> QED BY <1>2, <2>2, <2>6, <3>1, <4>1, SortedFacts
    <3>2. k # n
      BY <2>2, <2>6
    <3> QED BY <1>2, <2>2, <2>6, <3>1, <3>2
  <2>9. P!Before(P!Place(q[n]), P!Place(r[n]))
    BY <2>2, <2>6, <2>8, SortedFacts
  <2>10. P!Before(P!Place(r[n]), P!Place(q[n]))
    BY <2>2, <2>5, <2>7, SortedFacts
  <2>11. P!Place(q[n]) \in Nat \X Nat /\ P!Place(r[n]) \in Nat \X Nat
    BY <2>4, PlaceType
  <2> QED BY <2>9, <2>10, <2>11, BeforeTotal
<1>4. \A n \in 1 .. Cardinality(S) : q[n] = r[n]
  BY <1>1, <1>3
<1>5. /\ q = [n \in 1 .. Cardinality(S) |-> q[n]]
      /\ r = [n \in 1 .. Cardinality(S) |-> r[n]]
  BY <1>1
<1>6. [n \in 1 .. Cardinality(S) |-> q[n]] = [n \in 1 .. Cardinality(S) |-> r[n]]
  BY <1>4
<1> QED BY <1>5, <1>6

\* A page shows the rows of its positions, each once.
LEMMA SliceShows ==
  ASSUME PageParameters, PageTypeOK, NEW S \in SUBSET Ids, NEW q \in P!Sorted(S),
         NEW offset \in Nat, NEW i \in Ids
  PROVE  /\ \A n \in DOMAIN q : q[n] = i =>
              P!Show(walk, P!Slice(q, offset))[i] =
                walk.shown[i] + IF offset < n /\ n <= offset + Limit THEN 1 ELSE 0
         /\ i \notin S => P!Show(walk, P!Slice(q, offset))[i] = walk.shown[i]
<1> DEFINE last == IF offset + Limit < Len(q) THEN offset + Limit ELSE Len(q)
           page == P!Slice(q, offset)
           Hits == {n \in DOMAIN page : page[n] = i}
<1>1. /\ Len(q) \in Nat /\ DOMAIN q = 1 .. Len(q)
      /\ \A n \in DOMAIN q : q[n] \in S
      /\ \A m, n \in DOMAIN q : q[m] = q[n] => m = n
  BY SortedFacts
<1>2. last \in Nat /\ last <= Len(q) /\ offset \in Nat /\ Limit \in Nat
  BY <1>1 DEF PageParameters
<1>3. page = SubSeq(q, offset + 1, last)
  BY DEF P!Slice
<1>4. walk.shown[i] \in Nat
  BY DEF PageTypeOK, WalkType
<1>5. P!Show(walk, page)[i] = walk.shown[i] + Cardinality(Hits)
  BY SameCardinality DEF P!Show
<1> HIDE DEF page
<1>6. \A n \in (offset + 1) .. last : q[n] \in S
  BY <1>1, <1>2
<1>7. /\ page \in Seq(S)
      /\ Len(page) = IF offset + 1 <= last THEN last - (offset + 1) + 1 ELSE 0
      /\ \A n \in 1 .. last - (offset + 1) + 1 : page[n] = q[offset + 1 + n - 1]
  <2>1. offset + 1 \in Int /\ last \in Int
    BY <1>2
  <2> HIDE DEF last
  <2> QED BY <1>3, <1>6, <2>1, SubSeqProperties
<1> DEFINE size == last - offset
<1>8. DOMAIN page = 1 .. size /\ \A n \in 1 .. size : page[n] = q[offset + n]
  <2>1. DOMAIN page = 1 .. Len(page)
    BY <1>7
  <2>2. 1 .. Len(page) = 1 .. size
    <3> HIDE DEF last
    <3> QED BY <1>2, <1>7
  <2>3. \A n \in 1 .. size : offset + 1 + n - 1 = offset + n /\ n \in 1 .. last - (offset + 1) + 1
    <3> HIDE DEF last
    <3> QED BY <1>2
  <2> QED BY <1>7, <2>1, <2>2, <2>3
<1>9. \A n \in 1 .. size : offset + n \in DOMAIN q
  BY <1>1, <1>2
<1>10. i \notin S => Hits = {}
  BY <1>1, <1>8, <1>9
<1>11. ASSUME NEW n \in DOMAIN q, q[n] = i
       PROVE  Cardinality(Hits) = IF offset < n /\ n <= offset + Limit THEN 1 ELSE 0
  <2>1. CASE offset < n /\ n <= offset + Limit
    <3>1. n - offset \in 1 .. size /\ offset + (n - offset) = n
      BY <1>1, <1>2, <2>1
    <3>2. Hits = {n - offset}
      <4>1. n - offset \in Hits
        BY <1>8, <1>11, <3>1
      <4>2. \A m \in Hits : m = n - offset
        <5> SUFFICES ASSUME NEW m \in Hits PROVE m = n - offset
          OBVIOUS
        <5>1. m \in 1 .. size /\ q[offset + m] = i
          BY <1>8
        <5>2. offset + m = n
          BY <1>1, <1>9, <1>11, <5>1
        <5> HIDE DEF Hits, last
        <5> QED BY <1>1, <1>2, <5>1, <5>2
      <4> QED BY <4>1, <4>2
    <3> QED BY <2>1, <3>2, FS_Singleton
  <2>2. CASE ~(offset < n /\ n <= offset + Limit)
    <3>1. Hits = {}
      <4> SUFFICES ASSUME NEW m \in Hits PROVE FALSE
        OBVIOUS
      <4>1. m \in 1 .. size /\ q[offset + m] = i
        BY <1>8
      <4>2. offset + m = n
        BY <1>1, <1>9, <1>11, <4>1
      <4> QED BY <1>1, <1>2, <2>2, <4>1, <4>2
    <3> QED BY <2>2, <3>1, FS_EmptySet
  <2> QED BY <2>1, <2>2
<1>12. \A n \in DOMAIN q : q[n] = i =>
         P!Show(walk, page)[i] = walk.shown[i] + IF offset < n /\ n <= offset + Limit THEN 1 ELSE 0
  BY <1>5, <1>11
<1>13. i \notin S => P!Show(walk, page)[i] = walk.shown[i]
  BY <1>4, <1>5, <1>10, FS_EmptySet
<1> QED BY <1>12, <1>13 DEF page

LEMMA ShowType ==
  ASSUME PageParameters, PageTypeOK, NEW S \in SUBSET Ids, NEW q \in P!Sorted(S),
         NEW offset \in Nat
  PROVE  P!Show(walk, P!Slice(q, offset)) \in [Ids -> Nat]
<1> DEFINE shown == P!Show(walk, P!Slice(q, offset))
<1>1. ASSUME NEW i \in Ids PROVE shown[i] \in Nat
  <2>1. walk.shown[i] \in Nat
    BY DEF PageTypeOK, WalkType
  <2>2. CASE i \in S
    <3>1. PICK n \in DOMAIN q : q[n] = i
      BY <2>2, SortedFacts
    <3>2. shown[i] = walk.shown[i] + IF offset < n /\ n <= offset + Limit THEN 1 ELSE 0
      BY <3>1, SliceShows
    <3> HIDE DEF shown
    <3> QED BY <2>1, <3>2
  <2>3. CASE i \notin S
    <3>1. shown[i] = walk.shown[i]
      BY <2>3, SliceShows
    <3> QED BY <2>1, <3>1
  <2> QED BY <2>2, <2>3
<1>2. shown = [i \in Ids |-> shown[i]]
  BY DEF P!Show
<1> HIDE DEF shown
<1>3. shown \in [Ids -> Nat]
  BY <1>1, <1>2
<1> QED BY <1>3 DEF shown

\* The cursor after a page that is not the last one.
LEMMA LastOfPage ==
  ASSUME PageParameters, PageTypeOK, NEW S \in SUBSET Ids, NEW q \in P!Sorted(S),
         Len(q) > Limit
  PROVE  /\ Limit \in DOMAIN q
         /\ P!Slice(q, 0)[Len(P!Slice(q, 0))] = q[Limit]
<1> DEFINE page == P!Slice(q, 0)
<1>1. Len(q) \in Nat /\ DOMAIN q = 1 .. Len(q) /\ \A n \in DOMAIN q : q[n] \in S
  BY SortedFacts
<1>2. Limit \in Nat \ {0}
  BY DEF PageParameters
<1>3. page = SubSeq(q, 1, Limit)
  <2>1. 0 + 1 = 1 /\ 0 + Limit = Limit /\ Limit < Len(q)
    BY <1>1, <1>2
  <2> QED BY <2>1 DEF P!Slice
<1> HIDE DEF page
<1>4. /\ Len(page) = IF 1 <= Limit THEN Limit - 1 + 1 ELSE 0
      /\ \A n \in 1 .. Limit - 1 + 1 : page[n] = q[1 + n - 1]
  <2>1. \A n \in 1 .. Limit : q[n] \in S
    BY <1>1, <1>2
  <2>2. 1 \in Int /\ Limit \in Int
    BY <1>2
  <2> QED BY <1>3, <2>1, <2>2, SubSeqProperties
<1>5. Len(page) = Limit /\ page[Limit] = q[Limit]
  <2>1. Limit - 1 + 1 = Limit /\ 1 + Limit - 1 = Limit /\ 1 <= Limit
    BY <1>2
  <2>2. Limit \in 1 .. Limit - 1 + 1
    BY <1>2, <2>1
  <2>3. page[Limit] = q[1 + Limit - 1]
    BY <1>4, <2>2
  <2> QED BY <1>4, <2>1, <2>3
<1>6. Limit \in DOMAIN q
  BY <1>1, <1>2
<1> QED BY <1>5, <1>6 DEF page

LEMMA SamePlaces ==
  ASSUME UNCHANGED <<kind, now, row>>
  PROVE  /\ P!Rows' = P!Rows
         /\ \A i : P!Place(i)' = P!Place(i)
BY DEF P!Rows, P!Place

LEMMA CursorPageKeeps ==
  ASSUME PageInv, kind # "friends", walk.pc = "reading", P!CursorPage,
         UNCHANGED <<kind, now, row>>
  PROVE  PageInv'
<1> DEFINE rest == {i \in P!Rows : walk.after = <<>> \/ P!Before(walk.after, P!Place(i))}
<1>1. PICK q \in P!Sorted(rest) :
        walk' = [walk EXCEPT
          !.shown = P!Show(walk, P!Slice(q, 0)),
          !.after = IF Len(q) > Limit THEN P!Place(P!Slice(q, 0)[Len(P!Slice(q, 0))]) ELSE <<>>,
          !.pc = IF Len(q) > Limit THEN "reading" ELSE "done"]
  BY DEF P!CursorPage
<1> DEFINE more == Len(q) > Limit
           shown == P!Show(walk, P!Slice(q, 0))
           after == IF more THEN P!Place(q[Limit]) ELSE <<>>
<1>2. PageParameters /\ PageTypeOK /\ walk \in WalkType /\ rest \in SUBSET Ids
  BY DEF PageInv, PageTypeOK, P!Rows
<1>3. /\ Len(q) \in Nat /\ DOMAIN q = 1 .. Len(q)
      /\ \A n \in DOMAIN q : q[n] \in rest
      /\ \A i \in rest : \E n \in DOMAIN q : q[n] = i
      /\ \A m, n \in DOMAIN q : m < n => P!Before(P!Place(q[m]), P!Place(q[n]))
  <2> HIDE DEF rest
  <2> QED BY <1>2, SortedFacts
<1>4. more => Limit \in DOMAIN q /\ P!Slice(q, 0)[Len(P!Slice(q, 0))] = q[Limit]
  <2> HIDE DEF rest
  <2> QED BY <1>2, LastOfPage
<1>5. walk' = [walk EXCEPT !.shown = shown, !.after = after,
                           !.pc = IF more THEN "reading" ELSE "done"]
  BY <1>1, <1>4
<1>6. shown \in [Ids -> Nat]
  <2> HIDE DEF rest
  <2> QED BY <1>2, ShowType
<1>7. after \in {<<>>} \cup (Nat \X Ids)
  <2>1. more => q[Limit] \in Ids
    BY <1>2, <1>3, <1>4
  <2> QED BY <1>2, <2>1, PlaceType
<1>8. \A i \in Ids :
        /\ \A n \in DOMAIN q : q[n] = i =>
             shown[i] = walk.shown[i] + IF 0 < n /\ n <= 0 + Limit THEN 1 ELSE 0
        /\ i \notin rest => shown[i] = walk.shown[i]
  <2>1. 0 \in Nat
    OBVIOUS
  <2> HIDE DEF rest
  <2> QED BY <1>2, <2>1, SliceShows
<1> HIDE DEF shown, after
<1>9. /\ walk' \in WalkType /\ walk'.shown = shown /\ walk'.after = after
      /\ walk'.kept = walk.kept
      /\ walk'.pc = IF more THEN "reading" ELSE "done"
  BY <1>2, <1>5, <1>6, <1>7 DEF WalkType
<1>10. PageTypeOK'
  BY <1>2, <1>9 DEF PageTypeOK
<1>11. \A i \in walk.kept : i \in P!Rows /\ i \in Ids
  BY <1>2 DEF PageInv, WalkType
<1>12. CursorInv'
  <2> SUFFICES ASSUME NEW i \in walk.kept
               PROVE  shown[i] = IF ~more THEN 1
                                 ELSE IF after = <<>> \/ P!Before(after, P!Place(i)) THEN 0 ELSE 1
    BY <1>9, SamePlaces DEF CursorInv
  <2>1. i \in Ids /\ i \in P!Rows /\ P!Place(i) \in Nat \X Nat
    BY <1>2, <1>11, PlaceType
  <2>2. walk.shown[i] = IF i \in rest THEN 0 ELSE 1
    BY <2>1 DEF PageInv, CursorInv
  <2>3. ASSUME more
        PROVE  /\ Limit \in DOMAIN q /\ after = P!Place(q[Limit]) /\ q[Limit] \in rest
               /\ P!Place(q[Limit]) \in Nat \X Nat /\ after # <<>>
    <3>1. Limit \in DOMAIN q /\ after = P!Place(q[Limit]) /\ q[Limit] \in rest
      BY <1>3, <1>4, <2>3 DEF after
    <3>2. P!Place(q[Limit]) \in Nat \X Nat
      BY <1>2, <3>1, PlaceType
    <3>3. P!Place(q[Limit]) # <<>>
      BY DEF P!Place
    <3> QED BY <3>1, <3>2, <3>3
  <2>4. CASE i \notin rest
    <3>1. shown[i] = 1
      BY <1>8, <2>1, <2>2, <2>4
    <3>2. ASSUME more PROVE ~P!Before(after, P!Place(i))
      <4>1. walk.after # <<>> /\ ~P!Before(walk.after, P!Place(i))
        BY <2>1, <2>4
      <4>2. P!Before(walk.after, P!Place(q[Limit]))
        BY <2>3, <3>2, <4>1
      <4>3. walk.after \in Nat \X Nat
        BY <1>2, <4>1 DEF WalkType, PageParameters
      <4>4. P!Before(P!Place(i), P!Place(q[Limit]))
        BY <2>1, <2>3, <3>2, <4>1, <4>2, <4>3, BeforeTotal
      <4> QED BY <2>1, <2>3, <3>2, <4>4, BeforeTotal
    <3> QED BY <2>3, <3>1, <3>2
  <2>5. CASE i \in rest
    <3>1. PICK n \in DOMAIN q : q[n] = i
      BY <1>3, <2>5
    <3>2. n \in Nat /\ 0 < n /\ n <= Len(q) /\ Limit \in Nat
      BY <1>2, <1>3 DEF PageParameters
    <3>3. shown[i] = IF n <= Limit THEN 1 ELSE 0
      BY <1>8, <2>1, <2>2, <2>5, <3>1, <3>2
    <3>4. CASE ~more
      BY <1>3, <3>2, <3>3, <3>4
    <3>5. CASE more
      <4>1. CASE n <= Limit
        <5>1. n = Limit \/ P!Before(P!Place(i), P!Place(q[Limit]))
          BY <1>3, <2>3, <3>1, <3>2, <3>5, <4>1
        <5>2. ~P!Before(after, P!Place(i))
          BY <2>1, <2>3, <3>1, <3>5, <5>1, BeforeTotal
        <5> QED BY <2>3, <3>3, <3>5, <4>1, <5>2
      <4>2. CASE ~(n <= Limit)
        <5>1. P!Before(P!Place(q[Limit]), P!Place(i))
          BY <1>3, <2>3, <3>1, <3>2, <3>5, <4>2
        <5> QED BY <2>3, <3>3, <3>5, <4>2, <5>1
      <4> QED BY <4>1, <4>2
    <3> QED BY <3>4, <3>5
  <2> QED BY <2>4, <2>5
<1>13. PageParameters'
  BY <1>2 DEF PageParameters
<1> QED BY <1>9, <1>10, <1>11, <1>12, <1>13, SamePlaces DEF PageInv

LEMMA OffsetPageKeeps ==
  ASSUME PageInv, kind = "friends", walk.pc = "reading", P!OffsetPage,
         UNCHANGED <<kind, now, row>>
  PROVE  PageInv'
<1>1. PICK q \in P!Sorted(P!Rows) :
        walk' = [walk EXCEPT !.shown = P!Show(walk, P!Slice(q, walk.offset)),
                             !.offset = walk.offset + Limit,
                             !.pc = IF walk.offset + Limit < Len(q) THEN "reading" ELSE "done"]
  BY DEF P!OffsetPage
<1> DEFINE shown == P!Show(walk, P!Slice(q, walk.offset))
           next == walk.offset + Limit
<1>2. PageParameters /\ PageTypeOK /\ walk \in WalkType /\ P!Rows \in SUBSET Ids
  BY DEF PageInv, PageTypeOK, P!Rows
<1>3. walk.offset \in Nat /\ Limit \in Nat /\ next \in Nat
  BY <1>2 DEF WalkType, PageParameters
<1>4. /\ Len(q) \in Nat /\ DOMAIN q = 1 .. Len(q)
      /\ \A n \in DOMAIN q : q[n] \in P!Rows
      /\ \A i \in P!Rows : \E n \in DOMAIN q : q[n] = i
  BY <1>2, SortedFacts
<1>5. shown \in [Ids -> Nat]
  BY <1>2, <1>3, ShowType
<1>6. \A i \in Ids : \A n \in DOMAIN q : q[n] = i =>
        shown[i] = walk.shown[i] + IF walk.offset < n /\ n <= walk.offset + Limit THEN 1 ELSE 0
  BY <1>2, <1>3, SliceShows
<1>7. walk' = [walk EXCEPT !.shown = shown, !.offset = next,
                           !.pc = IF next < Len(q) THEN "reading" ELSE "done"]
  BY <1>1
<1> HIDE DEF shown
<1>8. /\ walk' \in WalkType /\ walk'.shown = shown /\ walk'.offset = next
      /\ walk'.kept = walk.kept /\ walk'.steady = walk.steady
      /\ walk'.pc = IF next < Len(q) THEN "reading" ELSE "done"
  BY <1>2, <1>3, <1>5, <1>7 DEF WalkType
<1>9. PageTypeOK'
  BY <1>2, <1>8 DEF PageTypeOK
<1>10. walk.steady => OffsetInv'
  <2> SUFFICES ASSUME walk.steady PROVE OffsetInv'
    OBVIOUS
  <2>1. ASSUME NEW n \in DOMAIN q
        PROVE  shown[q[n]] = IF n <= next THEN 1 ELSE 0
    <3>1. walk.shown[q[n]] = IF n <= walk.offset THEN 1 ELSE 0
      BY DEF PageInv, OffsetInv
    <3>2. shown[q[n]] = walk.shown[q[n]]
                          + IF walk.offset < n /\ n <= walk.offset + Limit THEN 1 ELSE 0
      BY <1>2, <1>4, <1>6
    <3>3. n \in Nat
      BY <1>4
    <3> QED BY <1>3, <3>1, <3>2, <3>3
  <2>2. ASSUME NEW i \in walk.kept
        PROVE  shown[i] \in {0, 1} /\ (walk'.pc = "done" => shown[i] = 1)
    <3>1. PICK n \in DOMAIN q : q[n] = i
      BY <1>4 DEF PageInv
    <3>2. shown[i] = IF n <= next THEN 1 ELSE 0
      BY <2>1, <3>1
    <3>3. walk'.pc = "done" => n <= next
      BY <1>3, <1>4, <1>8
    <3> QED BY <3>2, <3>3
  <2>3. P!Sorted(P!Rows)' = P!Sorted(P!Rows)
    BY SamePlaces DEF P!Sorted
  <2>4. \A r \in P!Sorted(P!Rows) : r = q
    BY <1>2, SortedOnce
  <2> QED BY <1>8, <2>1, <2>2, <2>3, <2>4 DEF OffsetInv
<1>11. PageParameters'
  BY <1>2 DEF PageParameters
<1> QED BY <1>8, <1>9, <1>10, <1>11, SamePlaces DEF PageInv

\* Rows that stay where they are keep what is known of them.
LEMMA ChangeKeeps ==
  ASSUME PageInv, NEW new \in [Ids -> P!RowType], NEW t \in Nat, P!Change(new, t)
  PROVE  PageInv'
<1> DEFINE kept == {i \in walk.kept : /\ P!Found(kind, new[i], t)
                                      /\ P!DateOf(kind, new[i], t) = P!DateOf(kind, row[i], now)}
<1>1. /\ row' = new /\ now' = t /\ kind' = kind /\ walk.pc = "reading"
      /\ walk' = [walk EXCEPT !.steady = FALSE, !.kept = kept]
  BY DEF P!Change, P!Remember
<1>2. PageParameters /\ PageTypeOK /\ walk \in WalkType
  BY DEF PageInv, PageTypeOK
<1>3. kept \subseteq walk.kept /\ kept \in SUBSET Ids
  BY <1>2 DEF WalkType
<1>4. \A i \in kept : /\ i \in Ids /\ P!Found(kind, new[i], t)
                      /\ P!DateOf(kind, new[i], t) = P!DateOf(kind, row[i], now)
  BY <1>3
<1> HIDE DEF kept
<1>5. /\ walk' \in WalkType /\ walk'.kept = kept /\ walk'.steady = FALSE
      /\ walk'.pc = walk.pc /\ walk'.shown = walk.shown /\ walk'.after = walk.after
  BY <1>1, <1>2, <1>3 DEF WalkType
<1>6. PageTypeOK'
  BY <1>1, <1>2, <1>5 DEF PageTypeOK
<1>7. \A i \in kept : i \in P!Rows' /\ P!Place(i)' = P!Place(i)
  BY <1>1, <1>4 DEF P!Rows, P!Place
<1>8. kind # "friends" => CursorInv'
  BY <1>1, <1>3, <1>5, <1>7 DEF PageInv, CursorInv
<1>9. PageParameters'
  BY <1>2 DEF PageParameters
<1> QED BY <1>1, <1>5, <1>6, <1>7, <1>8, <1>9 DEF PageInv

LEMMA PageInitInv == PageParameters /\ P!Init => PageInv
<1> SUFFICES ASSUME PageParameters, P!Init PROVE PageInv
  OBVIOUS
<1>1. /\ walk.kept = P!Rows /\ walk.pc = "reading" /\ walk.after = <<>> /\ walk.offset = 0
      /\ \A i \in Ids : walk.shown[i] = 0
  BY DEF P!Init
<1>2. P!Rows \subseteq Ids
  BY DEF P!Rows
<1>3. PageTypeOK
  <2>1. walk \in WalkType
    BY <1>2 DEF P!Init, WalkType
  <2> QED BY <2>1 DEF P!Init, PageTypeOK
<1>4. CursorInv
  BY <1>1, <1>2 DEF CursorInv
<1>5. OffsetInv
  <2>1. ASSUME NEW q \in P!Sorted(P!Rows), NEW n \in DOMAIN q
        PROVE  walk.shown[q[n]] = IF n <= walk.offset THEN 1 ELSE 0
    <3>1. q[n] \in Ids /\ n \in Nat /\ n > 0
      BY <1>2, <1>3, SortedFacts
    <3> QED BY <1>1, <3>1
  <2> QED BY <1>1, <1>2, <2>1 DEF OffsetInv
<1> QED BY <1>1, <1>3, <1>4, <1>5 DEF PageInv

\* Every page and every change keeps the invariant.
LEMMA PageStepInv == PageInv /\ [P!Next]_P!vars => PageInv'
<1> SUFFICES ASSUME PageInv, [P!Next]_P!vars PROVE PageInv'
  OBVIOUS
<1>1. PageParameters /\ row \in [Ids -> P!RowType] /\ now \in Nat
  BY DEF PageInv, PageTypeOK
<1>2. CASE P!ReadPage
  BY <1>2, CursorPageKeeps, OffsetPageKeeps DEF P!ReadPage
<1>3. CASE P!Tick
  <2>1. now + 1 \in Nat
    BY <1>1
  <2> QED BY <1>1, <1>3, <2>1, ChangeKeeps DEF P!Tick
<1>4. ASSUME NEW i \in Ids, P!Unlist(i) \/ P!List(i) PROVE PageInv'
  <2>1. /\ [row EXCEPT ![i].listed = FALSE] \in [Ids -> P!RowType]
        /\ [row EXCEPT ![i].listed = TRUE] \in [Ids -> P!RowType]
    BY <1>1 DEF P!RowType
  <2> QED BY <1>1, <1>4, <2>1, ChangeKeeps DEF P!Unlist, P!List
<1>5. ASSUME NEW i \in Ids, NEW from \in Dates, NEW to \in Dates, P!MoveEvent(i, from, to)
      PROVE  PageInv'
  <2> DEFINE dates == (row[i].confirmed \ {from}) \cup {to}
             new == [row EXCEPT ![i].confirmed = dates]
  <2>1. dates \in SUBSET Dates
    BY <1>1 DEF P!RowType
  <2>2. P!Change(new, now)
    BY <1>5 DEF P!MoveEvent
  <2> HIDE DEF dates
  <2>3. new \in [Ids -> P!RowType]
    BY <1>1, <2>1 DEF P!RowType
  <2> HIDE DEF new
  <2> QED BY <1>1, <2>2, <2>3, ChangeKeeps
<1>6. CASE UNCHANGED P!vars
  <2>1. UNCHANGED <<kind, now, row, walk>>
    BY <1>6 DEF P!vars
  <2>2. P!Sorted(P!Rows)' = P!Sorted(P!Rows)
    BY <2>1, SamePlaces DEF P!Sorted
  <2>3. PageTypeOK' /\ PageParameters'
    BY <2>1 DEF PageInv, PageTypeOK, PageParameters
  <2>4. kind # "friends" => CursorInv'
    BY <2>1, SamePlaces DEF PageInv, CursorInv
  <2>5. kind = "friends" /\ walk.steady => OffsetInv'
    BY <2>1, <2>2 DEF PageInv, OffsetInv
  <2> QED BY <2>1, <2>3, <2>4, <2>5, SamePlaces DEF PageInv
<1> QED BY <1>2, <1>3, <1>4, <1>5, <1>6 DEF P!Next

\* listMessages, discover and listPublicFriendGroupPlans: for any rows, dates and
\* page size, whatever changes between two pages, a row that keeps its place is
\* shown once; at an offset, when nothing changes.
THEOREM PagesShowRowsOnce ==
  ASSUME PageParameters
  PROVE  P!Spec => []KeptShownOnce
<1>1. P!Init => PageInv
  BY PageInitInv
<1>2. PageInv => KeptShownOnce
  <2> SUFFICES ASSUME PageInv, kind # "friends" \/ walk.steady, NEW i \in walk.kept
               PROVE  walk.shown[i] <= 1 /\ (walk.pc = "done" => walk.shown[i] = 1)
    BY DEF KeptShownOnce, P!KeptShownOnce
  <2>1. CASE kind # "friends"
    <3>1. walk.shown[i] \in {0, 1} /\ (walk.pc = "done" => walk.shown[i] = 1)
      BY <2>1 DEF PageInv, CursorInv
    <3> QED BY <3>1
  <2>2. CASE kind = "friends"
    <3>1. walk.shown[i] \in {0, 1} /\ (walk.pc = "done" => walk.shown[i] = 1)
      BY <2>2 DEF PageInv, OffsetInv
    <3> QED BY <3>1
  <2> QED BY <2>1, <2>2
<1> QED BY <1>1, <1>2, PageStepInv, PTL DEF P!Spec
================================================================================
