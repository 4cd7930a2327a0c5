---------------------------- MODULE GroupMembership ----------------------------
(***************************************************************************)
(* The membership rows of one group (a "plan" is a group seen through       *)
(* /v1/plans): creation, invitations, joining by code and by policy, join   *)
(* requests and their decisions, leaving, account deletion                  *)
(* (social/social-groups.service.ts, social/plans.service.ts and their      *)
(* repositories).                                                           *)
(*                                                                          *)
(* A call is one HTTP request.  It reads in one step and writes in another: *)
(* the repository's transactions run at the database's default isolation    *)
(* (read committed) and take no lock when they read.  What is written in    *)
(* one statement or one transaction becomes visible in one step.            *)
(***************************************************************************)
EXTENDS Naturals

CONSTANTS
  Users,       \* user ids
  Calls,       \* slots for concurrent requests
  None,        \* no user
  MaxRequests  \* bound: join requests each user files

ASSUME ConstantsAssumption == None \notin Users /\ MaxRequests \in Nat

VARIABLES
  live,     \* accounts that exist
  group,    \* the group row
  member,   \* the groupMember rows, by user
  call,     \* the requests
  willing,  \* history: users whose last own act was to join, not to leave
  admitted, \* history: users ever invited, or who ever used the invite code
  opened,   \* history: the join policy was not invite_only at some time
  asked,    \* history: join requests filed, by user
  decided   \* history: decisions announced, by user

vars == <<live, group, member, call, willing, admitted, opened, asked, decided>>
history == <<willing, admitted, opened, asked, decided>>

Policies == {"open", "request_approval", "invite_only"}
Statuses == {"none", "pending", "requested", "accepted", "declined", "left"}

GroupType  == [state : {"none", "live", "deleted"}, policy : Policies,
               createdBy : Users \cup {None}]
MemberType == [status : Statuses, role : {"owner", "admin", "member"}]

CallType ==
  [pc     : {"idle", "create", "invite", "joinCode", "joinPlan", "leave",
             "decide", "policy", "rejected"},
   user   : Users \cup {None},    \* who asks
   ids    : SUBSET Users,         \* the users it writes to
   seen   : [Users -> Statuses],  \* the membership rows as it read them
   policy : Policies,             \* the join policy read, or to be set
   flag   : BOOLEAN,              \* decide: approve; invite: somebody's policy forbids it
   wrote  : BOOLEAN]              \* history: it has changed a row

TypeOK ==
  /\ live \subseteq Users
  /\ group \in GroupType
  /\ member \in [Users -> MemberType]
  /\ call \in [Calls -> CallType]
  /\ willing \subseteq Users /\ admitted \subseteq Users
  /\ opened \in BOOLEAN
  /\ asked \in [Users -> 0..MaxRequests]
  /\ decided \in [Users -> Nat]

NoMember == [status |-> "none", role |-> "member"]
NoStatus == [u \in Users |-> "none"]
IdleCall == [pc |-> "idle", user |-> None, ids |-> {}, seen |-> NoStatus,
             policy |-> "invite_only", flag |-> FALSE, wrote |-> FALSE]

Init ==
  /\ live = Users
  /\ group = [state |-> "none", policy |-> "invite_only", createdBy |-> None]
  /\ member = [u \in Users |-> NoMember]
  /\ call = [c \in Calls |-> IdleCall]
  /\ willing = {} /\ admitted = {} /\ opened = FALSE
  /\ asked = [u \in Users |-> 0] /\ decided = [u \in Users |-> 0]

(***************************************************************************)
(* Helpers.                                                                 *)
(***************************************************************************)
Exists(u) == member[u].status # "none"

\* assertGroupAdminAccess, assertAdmin
Admin(u) == member[u].status = "accepted" /\ member[u].role \in {"owner", "admin"}

\* The rows a call reads.
Snapshot(ids) == [u \in Users |-> IF u \in ids THEN member[u].status ELSE "none"]

Start(c, pc, u, ids, policy, flag) ==
  /\ call[c].pc = "idle"
  /\ u \in live
  /\ call' = [call EXCEPT ![c] =
       [pc |-> pc, user |-> u, ids |-> ids, seen |-> Snapshot(ids),
        policy |-> policy, flag |-> flag, wrote |-> FALSE]]
  /\ UNCHANGED <<live, group, member, history>>

Finish(c) == call' = [call EXCEPT ![c] = IdleCall]

\* The statement throws (a row it refers to is gone, or a row it creates is
\* already there): the transaction is rolled back and the request fails.
Throw(c) == Finish(c) /\ UNCHANGED <<live, group, member, history>>

\* A row can be created for u: both foreign keys hold and the key is free.
Creatable(u) == group.state = "live" /\ u \in live /\ ~Exists(u)

(***************************************************************************)
(* createGroup, createPlan                                                  *)
(***************************************************************************)
\* createGroup drops the invitees whose groupInvitePolicy forbids it, and
\* remembers that there were some (flag).
StartCreateGroup(c, u, ids, forbidden) ==
  /\ group.state = "none"
  /\ \A d \in Calls : call[d].pc # "create"
  /\ ids \subseteq live \ {u}
  /\ Start(c, "create", u, ids, "invite_only", forbidden)

\* createPlan invites whoever exists.
StartCreatePlan(c, u, ids, policy) ==
  /\ group.state = "none"
  /\ \A d \in Calls : call[d].pc # "create"
  /\ ids \subseteq live \ {u}
  /\ Start(c, "create", u, ids, policy, FALSE)

\* assertNoInvitePolicyRejections runs after the write.
AfterInvites(c, wrote) ==
  call' = [call EXCEPT ![c] =
    IF call[c].flag
      THEN [IdleCall EXCEPT !.pc = "rejected", !.wrote = wrote]
      ELSE IdleCall]

CommitCreate(c) ==
  LET r == call[c]
  IN  /\ r.pc = "create"
      /\ r.ids \cup {r.user} \subseteq live
      /\ group' = [state |-> "live", policy |-> r.policy, createdBy |-> r.user]
      /\ member' = [u \in Users |->
           CASE u = r.user -> [status |-> "accepted", role |-> "owner"]
             [] u \in r.ids -> [status |-> "pending", role |-> "member"]
             [] OTHER -> member[u]]
      /\ AfterInvites(c, TRUE)
      /\ willing' = willing \cup {r.user}
      /\ admitted' = admitted \cup r.ids
      /\ opened' = (r.policy # "invite_only")
      /\ UNCHANGED <<live, asked, decided>>

CreateThrows(c) ==
  /\ call[c].pc = "create"
  /\ ~(call[c].ids \cup {call[c].user} \subseteq live)
  /\ Throw(c)

(***************************************************************************)
(* addGroupMembers                                                          *)
(***************************************************************************)
StartInvite(c, u, ids, forbidden) ==
  /\ Admin(u)
  /\ ids \subseteq live \ {u}
  /\ Start(c, "invite", u, ids, "invite_only", forbidden)

\* Mutant of Revives: members who are in already are invited as well.
RevivesAnybody(status) == status # "none"

\* What becomes of an invitee whose row was read with this status: an accepted
\* or invited one is left alone.
Revives(status) == status \in {"requested", "declined", "left"}
Creates(status) == status = "none"

\* createMany with skipDuplicates, then update by id.
WriteInvite(c) ==
  LET r      == call[c]
      new    == {u \in r.ids : Creates(r.seen[u])}
      revive == {u \in r.ids : Revives(r.seen[u])}
  IN  /\ r.pc = "invite"
      /\ \A u \in new : Exists(u) \/ Creatable(u)
      /\ \A u \in revive : Exists(u)
      /\ member' = [u \in Users |->
           IF u \in revive \/ u \in {v \in new : ~Exists(v)}
             THEN [status |-> "pending", role |-> "member"] ELSE member[u]]
      /\ AfterInvites(c, member' # member)
      /\ admitted' = admitted \cup new \cup revive
      /\ UNCHANGED <<live, group, willing, opened, asked, decided>>

InviteThrows(c) ==
  LET r == call[c]
  IN  /\ r.pc = "invite"
      /\ \/ \E u \in r.ids : Creates(r.seen[u]) /\ ~Exists(u) /\ ~Creatable(u)
         \/ \E u \in r.ids : Revives(r.seen[u]) /\ ~Exists(u)
      /\ Throw(c)

\* The request answers 422.
AnswerRejected(c) ==
  /\ call[c].pc = "rejected"
  /\ Finish(c)
  /\ UNCHANGED <<live, group, member, history>>

(***************************************************************************)
(* joinGroupByCode, joinPlan                                                *)
(***************************************************************************)
StartJoinByCode(c, u) ==
  /\ group.state = "live"
  /\ member[u].status # "accepted"
  /\ Start(c, "joinCode", u, {u}, "invite_only", FALSE)

\* The role of a row that is updated stays.
WriteJoinByCode(c) ==
  LET u == call[c].user
  IN  /\ call[c].pc = "joinCode"
      /\ IF call[c].seen[u] = "none" THEN Creatable(u) ELSE Exists(u)
      /\ member' = [member EXCEPT ![u].status = "accepted"]
      /\ Finish(c)
      /\ willing' = willing \cup {u}
      /\ admitted' = admitted \cup {u}
      /\ UNCHANGED <<live, group, opened, asked, decided>>

\* Mutant of MayJoin: the branch that denies is missing.
MayJoinUninvited(status, policy) ==
  /\ status # "accepted"
  /\ policy = "request_approval" => status # "requested"

\* Whether joinPlan writes; otherwise it changes nothing or answers 403.
MayJoin(status, policy) ==
  /\ status # "accepted"
  /\ policy = "invite_only" => status = "pending"
  /\ policy = "request_approval" => status # "requested"

StartJoinPlan(c, u) ==
  /\ group.state = "live"
  /\ MayJoin(member[u].status, group.policy)
  /\ Start(c, "joinPlan", u, {u}, group.policy, FALSE)

\* A join request is filed only while the user has some left (bound).
WriteJoinPlan(c) ==
  LET r == call[c]
      u == r.user
      status == IF r.policy = "request_approval" THEN "requested" ELSE "accepted"
  IN  /\ r.pc = "joinPlan"
      /\ IF r.seen[u] = "none" THEN Creatable(u) ELSE Exists(u)
      /\ member' = [member EXCEPT ![u] =
           [status |-> status,
            role   |-> IF r.policy = "invite_only" THEN member[u].role ELSE "member"]]
      /\ IF status = "requested"
           THEN asked[u] < MaxRequests /\ asked' = [asked EXCEPT ![u] = @ + 1]
           ELSE UNCHANGED asked
      /\ Finish(c)
      /\ willing' = willing \cup {u}
      /\ UNCHANGED <<live, group, admitted, opened, decided>>

JoinThrows(c) ==
  LET u == call[c].user
  IN  /\ call[c].pc \in {"joinCode", "joinPlan"}
      /\ ~(IF call[c].seen[u] = "none" THEN Creatable(u) ELSE Exists(u))
      /\ Throw(c)

(***************************************************************************)
(* leaveGroup, leavePlan, cancelJoinRequest                                 *)
(***************************************************************************)
\* Mutant of StartLeave: the role is not looked at.
StartLeaveOwnerToo(c, u) ==
  /\ member[u].status \in {"accepted", "requested", "pending"}
  /\ Start(c, "leave", u, {u}, "invite_only", FALSE)

\* leaveGroup takes a pending or accepted row, leavePlan a requested one too.
StartLeave(c, u) ==
  /\ member[u].status \in {"accepted", "requested", "pending"}
  /\ member[u].role # "owner"
  /\ Start(c, "leave", u, {u}, "invite_only", FALSE)

WriteLeave(c) ==
  LET u == call[c].user
  IN  /\ call[c].pc = "leave"
      /\ Exists(u)
      /\ member' = [member EXCEPT ![u].status = "left"]
      /\ Finish(c)
      /\ willing' = willing \ {u}
      /\ UNCHANGED <<live, group, admitted, opened, asked, decided>>

LeaveThrows(c) == call[c].pc = "leave" /\ ~Exists(call[c].user) /\ Throw(c)

\* One conditional updateMany.
CancelJoinRequest(u) ==
  /\ member[u].status = "requested"
  /\ member' = [member EXCEPT ![u].status = "left"]
  /\ willing' = willing \ {u}
  /\ UNCHANGED <<live, group, call, admitted, opened, asked, decided>>

(***************************************************************************)
(* decideJoinRequest, updatePlan                                            *)
(***************************************************************************)
StartDecide(c, u, t, approve) ==
  /\ Admin(u)
  /\ member[t].status = "requested"
  /\ Start(c, "decide", u, {t}, "invite_only", approve)

\* Mutant of WriteDecide: the updateMany without the status in its where clause.
WriteDecideUnconditional(c, t) ==
  /\ call[c].pc = "decide" /\ t \in call[c].ids
  /\ Exists(t)
  /\ member' = [member EXCEPT ![t].status =
                  IF call[c].flag THEN "accepted" ELSE "declined"]
  /\ decided' = [decided EXCEPT ![t] = @ + 1]
  /\ Finish(c)
  /\ UNCHANGED <<live, group, willing, admitted, opened, asked>>

\* updateMany where status = requested; the applicant is notified.
WriteDecide(c, t) ==
  /\ call[c].pc = "decide" /\ t \in call[c].ids
  /\ member[t].status = "requested"
  /\ member' = [member EXCEPT ![t].status =
                  IF call[c].flag THEN "accepted" ELSE "declined"]
  /\ decided' = [decided EXCEPT ![t] = @ + 1]
  /\ Finish(c)
  /\ UNCHANGED <<live, group, willing, admitted, opened, asked>>

\* Nothing was updated: 404.
DecideTooLate(c, t) ==
  /\ call[c].pc = "decide" /\ t \in call[c].ids
  /\ member[t].status # "requested"
  /\ Throw(c)

StartUpdatePlan(c, u, policy) ==
  /\ Admin(u)
  /\ Start(c, "policy", u, {}, policy, FALSE)

WriteUpdatePlan(c) ==
  /\ call[c].pc = "policy"
  /\ group.state = "live"
  /\ group' = [group EXCEPT !.policy = call[c].policy]
  /\ opened' = (opened \/ call[c].policy # "invite_only")
  /\ Finish(c)
  /\ UNCHANGED <<live, member, willing, admitted, asked, decided>>

UpdatePlanThrows(c) == call[c].pc = "policy" /\ group.state # "live" /\ Throw(c)

(***************************************************************************)
(* deleteMyAccount cascades to the user's membership, and to the group when *)
(* the user created it.  A process may die between two steps.               *)
(***************************************************************************)
DeleteAccount(u) ==
  /\ u \in live
  /\ live' = live \ {u}
  /\ IF group.createdBy = u
       THEN /\ group' = [group EXCEPT !.state = "deleted"]
            /\ member' = [v \in Users |-> NoMember]
       ELSE /\ UNCHANGED group
            /\ member' = [member EXCEPT ![u] = NoMember]
  /\ UNCHANGED <<call, history>>

CallDies(c) == call[c].pc # "idle" /\ Throw(c)

(***************************************************************************)
(* The specification.                                                       *)
(***************************************************************************)
StartCall(c, u) ==
  \/ \E ids \in SUBSET Users, forbidden \in BOOLEAN :
       StartCreateGroup(c, u, ids, forbidden) \/ StartInvite(c, u, ids, forbidden)
  \/ \E ids \in SUBSET Users, policy \in Policies : StartCreatePlan(c, u, ids, policy)
  \/ StartJoinByCode(c, u)
  \/ StartJoinPlan(c, u)
  \/ StartLeave(c, u)
  \/ \E t \in Users, approve \in BOOLEAN : StartDecide(c, u, t, approve)
  \/ \E policy \in Policies : StartUpdatePlan(c, u, policy)

CallStep(c) ==
  \/ CommitCreate(c) \/ CreateThrows(c)
  \/ WriteInvite(c) \/ InviteThrows(c) \/ AnswerRejected(c)
  \/ WriteJoinByCode(c) \/ WriteJoinPlan(c) \/ JoinThrows(c)
  \/ WriteLeave(c) \/ LeaveThrows(c)
  \/ \E t \in Users : WriteDecide(c, t) \/ DecideTooLate(c, t)
  \/ WriteUpdatePlan(c) \/ UpdatePlanThrows(c)
  \/ CallDies(c)

Next ==
  \/ \E c \in Calls : CallStep(c) \/ \E u \in Users : StartCall(c, u)
  \/ \E u \in Users : CancelJoinRequest(u) \/ DeleteAccount(u)

Spec == Init /\ [][Next]_vars

(***************************************************************************)
(* Properties.                                                              *)
(***************************************************************************)
\* While the group exists its creator is an accepted member and its only owner,
\* whatever stale invitations, joins, decisions and departures are written: none
\* of the updates by id looks at the role (addGroupMembers and joinPlan reset it).
CreatorOwns ==
  group.state = "live" =>
    \A u \in Users : IF u = group.createdBy
                       THEN member[u] = [status |-> "accepted", role |-> "owner"]
                       ELSE member[u].role = "member"

\* Nobody is made a member against their will: an accepted member's own last act
\* was to join or to ask for it, even when an approval that started earlier is
\* written after the request was cancelled (decideJoinRequest).
AcceptedIsWilling ==
  \A u \in Users : member[u].status = "accepted" => u \in willing

\* A join request is decided, and its decision announced, at most once, however
\* many administrators decide it at the same time (decideJoinRequest).
DecidedOnce == \A u \in Users : decided[u] <= asked[u]

\* In a group that always was invite_only everybody but the creator was invited,
\* or had the invite code (joinPlan, joinGroupByCode).
InviteOnlyAdmitsInvited ==
  (group.state = "live" /\ ~opened) =>
    \A u \in Users \ {group.createdBy} :
      member[u].status \in {"accepted", "requested"} => u \in admitted

\* An accepted member is put back to invited, requesting or rejected only by a
\* call that read the membership before it was accepted: addGroupMembers skips
\* members that it reads as accepted, and so does joinPlan.
DemotedOnlyByStaleCall ==
  [][\A u \in Users :
       /\ member[u].status = "accepted"
       /\ member'[u].status \in {"pending", "requested", "declined"}
       => \E c \in Calls : /\ call[c].pc \in {"invite", "joinPlan"}
                           /\ u \in call[c].ids
                           /\ call[c].seen[u] # "accepted"]_vars

\* A request that answers with an error has left no membership behind (what
\* plan 008 promises of createGroup and addGroupMembers).
RejectedCallLeavesNothing ==
  \A c \in Calls : call[c].pc = "rejected" => ~call[c].wrote
=============================================================================
