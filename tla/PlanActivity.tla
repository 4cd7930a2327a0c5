------------------------------ MODULE PlanActivity ------------------------------
(***************************************************************************)
(* What members do inside one plan: propose events, answer them, write      *)
(* messages, report the plan, open it                                       *)
(* (social/social-group-events.service.ts, social/plans.service.ts,         *)
(* social/social-groups.service.ts and their repositories).                 *)
(*                                                                          *)
(* Every call is a chain of awaited queries.  Memberships and the plan's    *)
(* settings can change between any two of them, so that each check is made  *)
(* on a state the next statement may no longer see.  The histories of a     *)
(* call record what was true while it ran.                                  *)
(***************************************************************************)
EXTENDS Naturals, FiniteSets

CONSTANTS
  Users,       \* user ids
  Owner,       \* the plan's creator; the code gives nobody else an admin role
  Calls,       \* slots for concurrent requests
  None,        \* no user
  Patches,     \* the settings updateGroup is asked to set
  MaxChanges,  \* bound: changes of memberships and settings
  MaxMessages  \* bound: messages written

ASSUME ConstantsAssumption ==
  /\ Owner \in Users /\ None \notin Users
  /\ MaxChanges \in Nat /\ MaxMessages \in Nat

ASSUME PatchesAssumption ==
  Patches \subseteq [visibility : {"private", "public_followers", "public"},
                     ownerOnly : BOOLEAN, locked : BOOLEAN]

VARIABLES
  member,    \* the groupMember rows: their status, by user
  settings,  \* the group row: visibility and proposal policies
  event,     \* the group event the calls are about
  rsvp,      \* the groupEventRsvp rows, by user
  messages,  \* how many messages the plan has
  call,      \* the requests
  changes    \* memberships and settings changed so far

vars == <<member, settings, event, rsvp, messages, call, changes>>

Statuses == {"none", "pending", "accepted", "left"}
Settings == [visibility : {"private", "public_followers", "public"},
             ownerOnly : BOOLEAN, locked : BOOLEAN]
Answers == {"none", "going"}  \* one answer stands for going, maybe and declined
EventStatuses == {"none", "proposed", "announcement", "confirmed"}

CallType ==
  [pc      : {"idle", "access", "place", "publish", "told", "rsvpGroup",
              "rsvpAccess", "rsvpEvent", "rsvpRead", "rsvpWrite", "message",
              "recipients", "planAccess", "groupAccess", "groupFollows",
              "shown", "report"},
   op      : {"none", "event", "rsvp", "message", "report", "plan", "group"},
   user    : Users \cup {None},
   viaPlan : BOOLEAN,              \* rsvp: asked through /v1/plans
   answer  : Answers,              \* rsvp: the answer asked for
   before  : Answers,              \* rsvp: the answer found
   seen    : Settings,             \* the group row as it was read
   members : SUBSET Users,         \* the accepted members as they were read
   to      : SUBSET Users,         \* the recipients of the notification
   view    : {"none", "missing", "forbidden", "preview", "full"},
   wrote   : BOOLEAN,              \* history: it wrote an event or an answer
   ever    : SUBSET Users,         \* history: accepted at some moment of the call
   always  : SUBSET Users,         \* history: accepted at every moment of the call
   during  : SUBSET Settings]      \* history: the settings in force during it

TypeOK ==
  /\ member \in [Users -> Statuses]
  /\ settings \in Settings
  /\ event \in [status : EventStatuses, by : Users \cup {None}]
  /\ rsvp \in [Users -> Answers]
  /\ messages \in 0..MaxMessages
  /\ call \in [Calls -> CallType]
  /\ changes \in 0..MaxChanges

\* createGroup and createPlan: groups start private and without events,
\* plans, here a public one, with a confirmed event of the creator.
Created == [visibility |-> "private", ownerOnly |-> FALSE, locked |-> FALSE]

IdleCall ==
  [pc |-> "idle", op |-> "none", user |-> None, viaPlan |-> FALSE,
   answer |-> "none", before |-> "none", seen |-> Created, members |-> {},
   to |-> {}, view |-> "none", wrote |-> FALSE, ever |-> {}, always |-> {},
   during |-> {}]

Init ==
  /\ member \in [Users -> {"pending", "accepted"}] /\ member[Owner] = "accepted"
  /\ \/ settings = Created /\ event = [status |-> "none", by |-> None]
     \/ /\ settings = [Created EXCEPT !.visibility = "public"]
        /\ event = [status |-> "confirmed", by |-> Owner]
  /\ rsvp = [u \in Users |-> "none"]
  /\ messages = 0
  /\ call = [c \in Calls |-> IdleCall]
  /\ changes = 0

(***************************************************************************)
(* Helpers.                                                                 *)
(***************************************************************************)
AcceptedIn(rows) == {u \in Users : rows[u] = "accepted"}
Accepted == AcceptedIn(member)

Begin(c, op, pc, u) ==
  [IdleCall EXCEPT !.pc = pc, !.op = op, !.user = u, !.ever = Accepted,
                   !.always = Accepted, !.during = {settings}]

Go(c, new) == call' = [call EXCEPT ![c] = new]
Rows == <<member, settings, event, rsvp, messages, changes>>

\* The request ends: with an answer, or with an error.
Ended(c) == Go(c, IdleCall)

\* Mutant of AcceptedRecipients: the recipients of a proposal are all members of the group as read.
EveryMember(k) == Users \ {k.user}

\* buildAcceptedGroupMemberRecipientIds, on the group as it was read
AcceptedRecipients(k) == k.members \ {k.user}

\* buildGroupEventRsvpRecipientIds: the proposer and the admins
RsvpRecipients(k, admins) == (admins \cup {event.by}) \ {k.user}

\* computeGroupEventCapabilityFlags(...).allowsRsvp
AllowsRsvp(s, e) ==
  \/ e.status = "confirmed"
  \/ e.status = "proposed" /\ (~s.locked \/ e.by = Owner)

\* The status addGroupEvent gives an event of user u
ProposalStatus(s, u) == IF s.locked /\ u # Owner THEN "announcement" ELSE "proposed"

(***************************************************************************)
(* The plan's rows change: the membership calls of GroupMembership, and     *)
(* updateGroup, by the owner.                                               *)
(***************************************************************************)
Remember(rows, s) ==
  [c \in Calls |-> IF call[c].pc = "idle" THEN call[c] ELSE
     [call[c] EXCEPT !.ever = call[c].ever \cup AcceptedIn(rows),
                     !.always = call[c].always \cap AcceptedIn(rows),
                     !.during = call[c].during \cup {s}]]

MembershipChanges(u, status) ==
  /\ u # Owner /\ changes < MaxChanges
  /\ member[u] # status /\ status # "none"
  /\ status = "left" => member[u] \in {"accepted", "pending"}
  /\ status = "pending" => member[u] # "accepted"
  /\ member' = [member EXCEPT ![u] = status]
  /\ changes' = changes + 1
  /\ call' = Remember(member', settings)
  /\ UNCHANGED <<settings, event, rsvp, messages>>

UpdateGroup(s) ==
  /\ changes < MaxChanges /\ s # settings
  /\ settings' = s
  /\ changes' = changes + 1
  /\ call' = Remember(member, s)
  /\ UNCHANGED <<member, event, rsvp, messages>>

(***************************************************************************)
(* addGroupEvent: the group is read, then the caller's membership, then the *)
(* place; both policies are judged on the group as it was read.             *)
(***************************************************************************)
AddGroupEvent(c, u) ==
  /\ call[c].pc = "idle"
  /\ Go(c, [Begin(c, "event", "access", u) EXCEPT !.seen = settings, !.members = Accepted])
  /\ UNCHANGED Rows

MayPropose(k) == member[k.user] = "accepted" /\ (k.seen.ownerOnly => k.user = Owner)

AssertMayPropose(c) ==
  /\ call[c].pc = "access"
  /\ IF MayPropose(call[c]) THEN Go(c, [call[c] EXCEPT !.pc = "place"]) ELSE Ended(c)
  /\ UNCHANGED Rows

\* Mutant of CreateGroupEvent: the status of the event is decided on the settings at the time of writing.
CreateWithNewSettings(c) ==
  LET k == call[c] IN
  /\ k.pc = "place" /\ event.status = "none"
  /\ event' = [status |-> ProposalStatus(settings, k.user), by |-> k.user]
  /\ Go(c, [k EXCEPT !.pc = "publish", !.to = AcceptedRecipients(k), !.wrote = TRUE])
  /\ UNCHANGED <<member, settings, rsvp, messages, changes>>

CreateGroupEvent(c) ==
  LET k == call[c] IN
  /\ k.pc = "place" /\ event.status = "none"
  /\ event' = [status |-> ProposalStatus(k.seen, k.user), by |-> k.user]
  /\ Go(c, [k EXCEPT !.pc = "publish", !.to = AcceptedRecipients(k), !.wrote = TRUE])
  /\ UNCHANGED <<member, settings, rsvp, messages, changes>>

(***************************************************************************)
(* setRsvp, setGroupEventRsvp                                               *)
(***************************************************************************)
\* Through /v1/plans the membership is checked once more, and first.
SetRsvp(c, u, a, viaPlan) ==
  /\ call[c].pc = "idle"
  /\ viaPlan => member[u] = "accepted"
  /\ Go(c, [Begin(c, "rsvp", "rsvpGroup", u) EXCEPT !.answer = a, !.viaPlan = viaPlan])
  /\ UNCHANGED Rows

RsvpReadGroup(c) ==
  /\ call[c].pc = "rsvpGroup"
  /\ Go(c, [call[c] EXCEPT !.pc = "rsvpAccess", !.seen = settings])
  /\ UNCHANGED Rows

RsvpAccess(c) ==
  /\ call[c].pc = "rsvpAccess"
  /\ IF member[call[c].user] = "accepted"
     THEN Go(c, [call[c] EXCEPT !.pc = "rsvpEvent"]) ELSE Ended(c)
  /\ UNCHANGED Rows

\* Taking an answer back is always allowed.
RsvpAllowed(k) == event.status # "none" /\ (k.answer = "none" \/ AllowsRsvp(k.seen, event))

RsvpEvent(c) ==
  /\ call[c].pc = "rsvpEvent"
  /\ IF RsvpAllowed(call[c])
     THEN Go(c, [call[c] EXCEPT !.pc = "rsvpRead"]) ELSE Ended(c)
  /\ UNCHANGED Rows

RsvpRead(c) ==
  /\ call[c].pc = "rsvpRead"
  /\ Go(c, [call[c] EXCEPT !.pc = "rsvpWrite", !.before = rsvp[call[c].user]])
  /\ UNCHANGED Rows

\* After the answer a plan's caller gets the plan (get).
AfterRsvp(k) == IF k.viaPlan THEN [k EXCEPT !.pc = "planAccess", !.seen = settings]
                             ELSE IdleCall

\* The transaction writes what changed and reads the group again for the
\* recipients.
RsvpWrite(c) ==
  LET k == call[c]
      changed == k.before # k.answer
      wrote == [k EXCEPT !.wrote = changed] IN
  /\ k.pc = "rsvpWrite"
  /\ rsvp' = IF changed THEN [rsvp EXCEPT ![k.user] = k.answer] ELSE rsvp
  /\ Go(c, IF changed /\ k.answer # "none"
           THEN [wrote EXCEPT !.pc = "publish", !.to = RsvpRecipients(k, Accepted \cap {Owner})]
           ELSE AfterRsvp(wrote))
  /\ UNCHANGED <<member, settings, event, messages, changes>>

(***************************************************************************)
(* sendMessage, report                                                      *)
(***************************************************************************)
SendMessage(c, u) ==
  /\ call[c].pc = "idle" /\ member[u] = "accepted"
  /\ Go(c, Begin(c, "message", "message", u))
  /\ UNCHANGED Rows

CreateMessage(c) ==
  /\ call[c].pc = "message" /\ messages < MaxMessages
  /\ messages' = messages + 1
  /\ Go(c, [call[c] EXCEPT !.pc = "recipients", !.wrote = TRUE])
  /\ UNCHANGED <<member, settings, event, rsvp, changes>>

\* listAcceptedMemberIds
MessageRecipients(c) ==
  /\ call[c].pc = "recipients"
  /\ Go(c, [call[c] EXCEPT !.pc = "publish", !.to = Accepted \ {call[c].user}])
  /\ UNCHANGED Rows

\* report: anybody may; listAdminIds without the caller.  Without recipients
\* nothing is published.
Report(c, u) ==
  /\ call[c].pc = "idle"
  /\ Go(c, Begin(c, "report", "report", u))
  /\ UNCHANGED Rows

ReportRecipients(c) ==
  LET to == (Accepted \cap {Owner}) \ {call[c].user} IN
  /\ call[c].pc = "report"
  /\ IF to = {} THEN Ended(c) ELSE Go(c, [call[c] EXCEPT !.pc = "publish", !.to = to])
  /\ UNCHANGED Rows

(***************************************************************************)
(* The notification is published.  A call may fail at any of its awaits     *)
(* (resolveWritablePlace finds no place, a query or the publish throws) and *)
(* leaves what it has written.                                              *)
(***************************************************************************)
Publish(c) ==
  /\ call[c].pc = "publish"
  /\ Go(c, [call[c] EXCEPT !.pc = "told"])
  /\ UNCHANGED Rows

CallFails(c) == call[c].pc # "idle" /\ Ended(c) /\ UNCHANGED Rows

AfterTold(c) ==
  /\ call[c].pc = "told"
  /\ Go(c, IF call[c].op = "rsvp" THEN AfterRsvp(call[c]) ELSE IdleCall)
  /\ UNCHANGED Rows

(***************************************************************************)
(* get: the plan is read, then the caller's membership.                     *)
(***************************************************************************)
GetPlan(c, u) ==
  /\ call[c].pc = "idle"
  /\ Go(c, [Begin(c, "plan", "planAccess", u) EXCEPT !.seen = settings])
  /\ UNCHANGED Rows

\* Mutant of PlanView: a public plan is shown whole.
PublicViewWhole(k) ==
  IF k.seen.visibility = "public" \/ member[k.user] = "accepted" THEN "full" ELSE "missing"

\* serializePlan shows everything to an accepted member, and to others a
\* public plan without its exact place and its roster.
PlanView(k) ==
  IF k.seen.visibility # "public"
  THEN CASE member[k.user] = "none" -> "missing"
         [] member[k.user] \in {"pending", "left"} -> "forbidden"
         [] member[k.user] = "accepted" -> "full"
  ELSE IF member[k.user] = "accepted" THEN "full" ELSE "preview"

ShowPlan(c) ==
  /\ call[c].pc = "planAccess"
  /\ Go(c, [call[c] EXCEPT !.pc = "shown", !.view = PlanView(call[c])])
  /\ UNCHANGED Rows

(***************************************************************************)
(* getGroup: the group is read, then the caller's membership, then whom the *)
(* caller follows.                                                          *)
(***************************************************************************)
GetGroup(c, u) ==
  /\ call[c].pc = "idle"
  /\ Go(c, [Begin(c, "group", "groupAccess", u) EXCEPT !.seen = settings, !.members = Accepted])
  /\ UNCHANGED Rows

GroupAccess(c) ==
  LET k == call[c] IN
  /\ k.pc = "groupAccess"
  /\ Go(c, CASE member[k.user] \in {"accepted", "pending"} ->
                  [k EXCEPT !.pc = "shown", !.view = "full"]
             [] member[k.user] \in {"none", "left"} /\ k.seen.visibility = "private" ->
                  [k EXCEPT !.pc = "shown", !.view = "missing"]
             [] OTHER -> [k EXCEPT !.pc = "groupFollows"])
  /\ UNCHANGED Rows

\* followed: whom the caller follows (SocialGraph)
ShowGroup(c, followed) ==
  LET k == call[c] IN
  /\ k.pc = "groupFollows"
  /\ Go(c, [k EXCEPT !.pc = "shown",
                     !.view = IF followed \cap (k.members \cup {Owner}) # {}
                              THEN "preview" ELSE "missing"])
  /\ UNCHANGED Rows

Answered(c) == call[c].pc = "shown" /\ Ended(c) /\ UNCHANGED Rows

Next ==
  \/ \E u \in Users, s \in Statuses : MembershipChanges(u, s)
  \/ \E s \in Patches : UpdateGroup(s)
  \/ \E c \in Calls, u \in Users :
       \/ AddGroupEvent(c, u) \/ SendMessage(c, u) \/ Report(c, u)
       \/ GetPlan(c, u) \/ GetGroup(c, u)
       \/ \E a \in Answers, viaPlan \in BOOLEAN : SetRsvp(c, u, a, viaPlan)
  \/ \E c \in Calls :
       \/ AssertMayPropose(c) \/ CreateGroupEvent(c)
       \/ RsvpReadGroup(c) \/ RsvpAccess(c) \/ RsvpEvent(c) \/ RsvpRead(c) \/ RsvpWrite(c)
       \/ CreateMessage(c) \/ MessageRecipients(c) \/ ReportRecipients(c)
       \/ Publish(c) \/ CallFails(c) \/ AfterTold(c)
       \/ ShowPlan(c) \/ GroupAccess(c) \/ Answered(c)
       \/ \E f \in SUBSET Users : ShowGroup(c, f)

Spec == Init /\ [][Next]_vars

(***************************************************************************)
(* Properties.                                                              *)
(***************************************************************************)
\* The news of an event or a message reaches everybody but its author who
\* was a member throughout the call, and nobody who was not a member at some
\* moment of it; that of an answer or a report also reaches the admins, and
\* besides them only the event's proposer, member or not
\* (buildAcceptedGroupMemberRecipientIds, listAcceptedMemberIds,
\* buildGroupEventRsvpRecipientIds).
RightPeopleTold ==
  \A c \in Calls : LET k == call[c] IN k.pc = "told" =>
    /\ k.user \notin k.to
    /\ k.op \in {"event", "message"} =>
         k.to \subseteq k.ever /\ k.always \ {k.user} \subseteq k.to
    /\ k.op \in {"rsvp", "report"} =>
         k.to \subseteq {Owner, event.by} /\ {Owner} \ {k.user} \subseteq k.to

\* Whoever proposed an event or answered one was a member at some moment of
\* the call that did, and one of the settings in force during the call
\* justifies the whole of it: that this user may propose, and the status the
\* event got; or that the event takes answers
\* (addGroupEvent, setGroupEventRsvp, computeGroupEventCapabilityFlags).
OneSettingJustifies ==
  \A c \in Calls : LET k == call[c] IN k.wrote =>
    /\ k.user \in k.ever
    /\ k.op = "event" => \E s \in k.during :
         /\ s.ownerOnly => k.user = Owner
         /\ event = [status |-> ProposalStatus(s, k.user), by |-> k.user]
    /\ k.op = "rsvp" /\ k.answer # "none" => \E s \in k.during : AllowsRsvp(s, event)

\* The address and the exact coordinates of a plan's place, and its roster, go
\* only to somebody who was an accepted member at some moment of the call.  The
\* preview, which carries the place's id, name and photo, is given only of a plan
\* that was public at some moment of it; a member throughout is never turned
\* away (plans get and setRsvp, serializePlan; getGroup, which also opens a group
\* to who is invited, is not meant).
ExactPlaceForMembers ==
  \A c \in Calls : LET k == call[c] IN k.pc = "shown" /\ k.op \in {"plan", "rsvp"} =>
    /\ k.view = "full" => k.user \in k.ever
    /\ k.view = "preview" => \E s \in k.during : s.visibility = "public"
    /\ k.user \in k.always => k.view = "full"

================================================================================
