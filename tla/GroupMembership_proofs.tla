------------------------ MODULE GroupMembership_proofs ------------------------
(***************************************************************************)
(* Proofs about GroupMembership, for any number of users and concurrent     *)
(* requests and any bound on join requests.                                 *)
(***************************************************************************)
EXTENDS GroupMembership, TLAPS

\* Before the group exists and after it is gone it has no members.
RowsOfGroup ==
  group.state # "live" => \A u \in Users : member[u] = NoMember

\* The creator is a user whose account exists while the group does.
CreatorLives ==
  /\ group.state = "none" => group.createdBy = None /\ ~opened
  /\ group.state # "none" => group.createdBy \in Users
  /\ group.state = "live" => group.createdBy \in live

\* At most one request creates the group, before it exists.
CreatesOnce ==
  \A c \in Calls : call[c].pc = "create" =>
    /\ group.state = "none"
    /\ \A d \in Calls : call[d].pc = "create" => d = c
    /\ call[c].user \in Users /\ call[c].user \notin call[c].ids

\* What a request has read of the creator's row is that it is accepted; so no
\* request will write to it.  A request knows who asks.
CallSafe ==
  \A c \in Calls :
    /\ call[c].pc \notin {"idle", "rejected"} => call[c].user \in Users
    /\ call[c].pc \in {"invite", "joinCode", "joinPlan", "leave", "decide"} =>
         /\ group.state # "none"
         /\ call[c].pc # "decide" =>
              \A u \in call[c].ids : u = group.createdBy =>
                call[c].pc = "invite" /\ call[c].seen[u] = "accepted"
         /\ call[c].pc # "invite" /\ call[c].pc # "decide" => call[c].ids = {call[c].user}

\* A joinPlan call has not read an accepted membership; one that read invite_only
\* has read a pending one, and one that read any other policy shows that the group was open at some time.
JoinSafe ==
  \A c \in Calls : call[c].pc = "joinPlan" =>
    /\ call[c].seen[call[c].user] # "accepted"
    /\ call[c].policy = "invite_only" => call[c].seen[call[c].user] = "pending"
    /\ call[c].policy # "invite_only" => opened
    /\ ~opened => call[c].user \in admitted

\* The policy is invite_only as long as it always was; then everybody whose row
\* exists, but the creator, was invited or had the code.
AdmittedRows ==
  group.state = "live" /\ ~opened =>
    /\ group.policy = "invite_only"
    /\ \A u \in Users : u # group.createdBy /\ member[u].status # "none"
                          => u \in admitted

\* Members and applicants want to be in.
WillingRows ==
  \A u \in Users : member[u].status \in {"accepted", "requested"} => u \in willing

\* An open join request is not counted as decided.
Undecided ==
  \A u \in Users : /\ decided[u] <= asked[u]
                   /\ member[u].status = "requested" => decided[u] < asked[u]

Inv == /\ TypeOK /\ RowsOfGroup /\ CreatorLives /\ CreatesOnce /\ CallSafe
       /\ JoinSafe /\ CreatorOwns /\ WillingRows /\ AdmittedRows /\ Undecided

LEMMA IdleCallType == IdleCall \in CallType /\ IdleCall.pc = "idle"
  BY DEF IdleCall, CallType, NoStatus, Statuses, Policies

LEMMA InitInv == Init => Inv
<1> SUFFICES ASSUME Init PROVE Inv
  OBVIOUS
<1>1. NoMember \in MemberType /\ NoMember.status = "none" /\ NoMember.role = "member"
  BY DEF NoMember, MemberType, Statuses
<1>2. group \in GroupType
  BY DEF Init, GroupType, Policies
<1>3. TypeOK
  <2>1. /\ live \subseteq Users /\ willing \subseteq Users /\ admitted \subseteq Users
        /\ opened \in BOOLEAN
    BY DEF Init
  <2>2. member \in [Users -> MemberType] /\ call \in [Calls -> CallType]
    BY <1>1, IdleCallType DEF Init
  <2>3. asked \in [Users -> 0..MaxRequests] /\ decided \in [Users -> Nat]
    BY ConstantsAssumption DEF Init
  <2> QED BY <1>2, <2>1, <2>2, <2>3 DEF TypeOK
<1>4. RowsOfGroup /\ CreatorLives /\ CreatorOwns /\ AdmittedRows
  BY DEF Init, RowsOfGroup, CreatorLives, CreatorOwns, AdmittedRows
<1>5. CreatesOnce /\ CallSafe /\ JoinSafe
  BY IdleCallType DEF Init, CreatesOnce, CallSafe, JoinSafe
<1>6. WillingRows
  BY <1>1 DEF Init, WillingRows
<1>7. \A u \in Users : asked[u] = 0 /\ decided[u] = 0 /\ member[u].status = "none"
  BY <1>1 DEF Init
<1>8. Undecided
  <2> SUFFICES ASSUME NEW u \in Users
               PROVE  decided[u] <= asked[u] /\ member[u].status # "requested"
    BY DEF Undecided
  <2> QED BY <1>7
<1> QED BY <1>3, <1>4, <1>5, <1>6, <1>8 DEF Inv

\* A request that ends cannot break what is known of the others.
LEMMA EndOfCall ==
  ASSUME Inv, NEW c \in Calls, NEW r \in CallType, r.pc \in {"idle", "rejected"},
         call' = [call EXCEPT ![c] = r],
         group'.createdBy = group.createdBy \/ group.state = "none",
         group'.state = group.state \/ group.state = "live" \/ call[c].pc = "create",
         group'.state # "none" \/ group.state = "none",
         opened => opened', admitted \subseteq admitted'
  PROVE  CreatesOnce' /\ CallSafe' /\ JoinSafe' /\ call' \in [Calls -> CallType]
<1>1. call' \in [Calls -> CallType]
  BY DEF Inv, TypeOK
<1>2. /\ call'[c].pc \in {"idle", "rejected"}
      /\ \A d \in Calls \ {c} : call'[d] = call[d]
  BY DEF Inv, TypeOK
<1>3. CreatesOnce'
  BY <1>2 DEF Inv, CreatesOnce, CreatorLives
<1>4. CallSafe'
  BY <1>2 DEF Inv, CallSafe
<1>5. JoinSafe'
  BY <1>2 DEF Inv, JoinSafe
<1> QED BY <1>1, <1>3, <1>4, <1>5

LEMMA ThrowInv == ASSUME Inv, NEW c \in Calls, Throw(c) PROVE Inv'
<1>1. CreatesOnce' /\ CallSafe' /\ JoinSafe' /\ call' \in [Calls -> CallType]
  BY IdleCallType, EndOfCall DEF Throw, Finish, history
<1> QED
  BY <1>1 DEF Throw, history, Inv, TypeOK, RowsOfGroup, CreatorLives, CreatorOwns,
              WillingRows, AdmittedRows, Undecided

\* What each kind of request knows when it has read.
LEMMA StartInv ==
  ASSUME Inv, NEW c \in Calls, NEW u \in Users, NEW ids \in SUBSET Users,
         NEW pc \in {"create", "invite", "joinCode", "joinPlan", "leave", "decide", "policy"},
         NEW policy \in Policies, NEW flag \in BOOLEAN,
         Start(c, pc, u, ids, policy, flag),
         pc = "create" => /\ group.state = "none" /\ u \notin ids
                          /\ \A d \in Calls : call[d].pc # "create",
         pc \in {"invite", "joinCode", "joinPlan", "leave", "decide"} =>
           /\ group.state # "none"
           /\ pc # "decide" =>
                \A v \in ids : v = group.createdBy =>
                  pc = "invite" /\ member[v].status = "accepted"
           /\ pc # "invite" /\ pc # "decide" => ids = {u},
         pc = "joinPlan" => /\ member[u].status # "accepted"
                            /\ policy = "invite_only" => member[u].status = "pending"
                            /\ policy # "invite_only" => opened
                            /\ ~opened => u \in admitted
  PROVE  Inv'
<1> DEFINE r == [pc |-> pc, user |-> u, ids |-> ids, seen |-> Snapshot(ids),
                 policy |-> policy, flag |-> flag, wrote |-> FALSE]
<1>0. Snapshot(ids) \in [Users -> Statuses]
      /\ \A v \in ids : Snapshot(ids)[v] = member[v].status
  BY DEF Snapshot, Inv, TypeOK, MemberType, Statuses
<1>1. r \in CallType
  BY <1>0 DEF CallType
<1>2. call' = [call EXCEPT ![c] = r] /\ UNCHANGED <<live, group, member, history>>
  BY DEF Start
<1>3. /\ call'[c] = r
      /\ \A d \in Calls \ {c} : call'[d] = call[d]
      /\ call' \in [Calls -> CallType]
  <2> HIDE DEF r
  <2> QED BY <1>1, <1>2 DEF Inv, TypeOK
<1>4. CreatesOnce'
  BY <1>2, <1>3 DEF Inv, CreatesOnce
<1>5. CallSafe'
  BY <1>0, <1>2, <1>3 DEF Inv, CallSafe
<1>6. JoinSafe'
  BY <1>0, <1>2, <1>3 DEF Inv, JoinSafe, history
<1> QED
  BY <1>2, <1>3, <1>4, <1>5, <1>6
  DEF history, Inv, TypeOK, RowsOfGroup, CreatorLives, CreatorOwns,
      WillingRows, AdmittedRows, Undecided

LEMMA StartCallInv ==
  ASSUME Inv, NEW c \in Calls, NEW u \in Users, StartCall(c, u) PROVE Inv'
<1> USE DEF Inv
<1>0. "invite_only" \in Policies /\ FALSE \in BOOLEAN /\ {u} \in SUBSET Users
  BY DEF Policies
<1>1. ASSUME NEW ids \in SUBSET Users, NEW forbidden \in BOOLEAN,
             StartCreateGroup(c, u, ids, forbidden)
      PROVE  Inv'
  <2>1. /\ Start(c, "create", u, ids, "invite_only", forbidden)
        /\ group.state = "none" /\ u \notin ids
        /\ \A d \in Calls : call[d].pc # "create"
    BY <1>1 DEF StartCreateGroup
  <2> HIDE DEF Inv
  <2> QED BY <1>0, <2>1, StartInv
<1>2. ASSUME NEW ids \in SUBSET Users, NEW policy \in Policies,
             StartCreatePlan(c, u, ids, policy)
      PROVE  Inv'
  <2>1. /\ Start(c, "create", u, ids, policy, FALSE)
        /\ group.state = "none" /\ u \notin ids
        /\ \A d \in Calls : call[d].pc # "create"
    BY <1>2 DEF StartCreatePlan
  <2> HIDE DEF Inv
  <2> QED BY <1>0, <2>1, StartInv
<1>3. ASSUME NEW ids \in SUBSET Users, NEW forbidden \in BOOLEAN,
             StartInvite(c, u, ids, forbidden)
      PROVE  Inv'
  <2>1. /\ Start(c, "invite", u, ids, "invite_only", forbidden)
        /\ member[u].status = "accepted"
    BY <1>3 DEF StartInvite, Admin
  <2>2. group.state = "live"
    BY <2>1 DEF RowsOfGroup, NoMember
  <2>3. \A v \in ids : v = group.createdBy => member[v].status = "accepted"
    BY <2>2 DEF CreatorOwns
  <2> HIDE DEF Inv
  <2> QED BY <1>0, <2>1, <2>2, <2>3, StartInv
<1>4. CASE StartJoinByCode(c, u)
  <2>1. /\ Start(c, "joinCode", u, {u}, "invite_only", FALSE)
        /\ group.state = "live" /\ member[u].status # "accepted"
    BY <1>4 DEF StartJoinByCode
  <2>2. u # group.createdBy
    BY <2>1 DEF CreatorOwns
  <2> HIDE DEF Inv
  <2> QED BY <1>0, <2>1, <2>2, StartInv
<1>5. CASE StartJoinPlan(c, u)
  <2>1. /\ Start(c, "joinPlan", u, {u}, group.policy, FALSE)
        /\ group.state = "live" /\ MayJoin(member[u].status, group.policy)
        /\ group.policy \in Policies
    BY <1>5 DEF StartJoinPlan, TypeOK, GroupType
  <2>2. /\ member[u].status # "accepted"
        /\ group.policy = "invite_only" => member[u].status = "pending"
    BY <2>1 DEF MayJoin, Policies
  <2>3. u # group.createdBy
    BY <2>1, <2>2 DEF CreatorOwns
  <2>4. /\ group.policy # "invite_only" => opened
        /\ ~opened => u \in admitted
    BY <2>1, <2>2, <2>3 DEF AdmittedRows
  <2> HIDE DEF Inv
  <2> QED BY <1>0, <2>1, <2>2, <2>3, <2>4, StartInv
<1>6. CASE StartLeave(c, u)
  <2>1. /\ Start(c, "leave", u, {u}, "invite_only", FALSE)
        /\ member[u].status # "none" /\ member[u].role # "owner"
    BY <1>6 DEF StartLeave
  <2>2. group.state = "live"
    BY <2>1 DEF RowsOfGroup, NoMember
  <2>3. u # group.createdBy
    BY <2>1, <2>2 DEF CreatorOwns
  <2> HIDE DEF Inv
  <2> QED BY <1>0, <2>1, <2>2, <2>3, StartInv
<1>7. ASSUME NEW t \in Users, NEW approve \in BOOLEAN, StartDecide(c, u, t, approve)
      PROVE  Inv'
  <2>1. /\ Start(c, "decide", u, {t}, "invite_only", approve)
        /\ member[t].status # "none"
    BY <1>7 DEF StartDecide
  <2>2. group.state = "live" /\ {t} \in SUBSET Users
    BY <2>1 DEF RowsOfGroup, NoMember
  <2> HIDE DEF Inv
  <2> QED BY <1>0, <2>1, <2>2, StartInv
<1>8. ASSUME NEW policy \in Policies, StartUpdatePlan(c, u, policy) PROVE Inv'
  <2>1. Start(c, "policy", u, {}, policy, FALSE) /\ {} \in SUBSET Users
    BY <1>8 DEF StartUpdatePlan
  <2> HIDE DEF Inv
  <2> QED BY <1>0, <2>1, StartInv
<1> QED
  BY <1>1, <1>2, <1>3, <1>4, <1>5, <1>6, <1>7, <1>8 DEF StartCall

\* The steps that write rows.
LEMMA CommitCreateInv == ASSUME Inv, NEW c \in Calls, CommitCreate(c) PROVE Inv'
<1> DEFINE r == call[c]
<1>1. /\ r.pc = "create" /\ r \in CallType /\ group.state = "none"
      /\ r.user \in Users /\ r.user \notin r.ids /\ r.user \in live
  BY DEF CommitCreate, Inv, TypeOK, CreatesOnce
<1>2. \A u \in Users : member[u] = NoMember
  BY <1>1 DEF Inv, RowsOfGroup
<1>3. /\ group' = [state |-> "live", policy |-> r.policy, createdBy |-> r.user]
      /\ live' = live /\ asked' = asked /\ decided' = decided
      /\ willing' = willing \cup {r.user}
      /\ admitted' = admitted \cup r.ids
      /\ opened' = (r.policy # "invite_only")
  BY DEF CommitCreate
<1>4. /\ member' \in [Users -> MemberType]
      /\ member'[r.user] = [status |-> "accepted", role |-> "owner"]
      /\ \A u \in Users : u # r.user => /\ member'[u].role = "member"
                                        /\ member'[u].status \in {"pending", "none"}
                                        /\ member'[u].status = "pending" => u \in r.ids
  BY <1>1, <1>2 DEF CommitCreate, MemberType, Statuses, NoMember
<1>5. \E s \in CallType : /\ s.pc \in {"idle", "rejected"}
                          /\ call' = [call EXCEPT ![c] = s]
  <2>1. [IdleCall EXCEPT !.pc = "rejected", !.wrote = TRUE] \in CallType
    BY DEF IdleCall, CallType, NoStatus, Statuses, Policies
  <2>2. [IdleCall EXCEPT !.pc = "rejected", !.wrote = TRUE].pc = "rejected"
    BY DEF IdleCall
  <2> QED BY <2>1, <2>2, IdleCallType DEF CommitCreate, AfterInvites
<1>6. ~opened
  BY <1>1 DEF Inv, CreatorLives
<1>7. CreatesOnce' /\ CallSafe' /\ JoinSafe' /\ call' \in [Calls -> CallType]
  BY <1>1, <1>3, <1>5, <1>6, EndOfCall
<1>8. TypeOK'
  BY <1>1, <1>3, <1>4, <1>7 DEF Inv, TypeOK, GroupType, CallType
<1>9. RowsOfGroup' /\ CreatorLives' /\ CreatorOwns'
  BY <1>1, <1>3, <1>4 DEF RowsOfGroup, CreatorLives, CreatorOwns
<1>10. WillingRows'
  BY <1>3, <1>4 DEF WillingRows
<1>11. AdmittedRows'
  BY <1>3, <1>4 DEF AdmittedRows
<1>12. Undecided'
  BY <1>1, <1>3, <1>4 DEF Inv, Undecided
<1> QED BY <1>7, <1>8, <1>9, <1>10, <1>11, <1>12 DEF Inv

\* Writes to rows other than the creator's, in a group that exists.
LEMMA RowsInv ==
  ASSUME Inv, NEW W \in SUBSET Users, group.state = "live" \/ W = {},
         UNCHANGED <<live, group, opened>>,
         CreatesOnce', CallSafe', JoinSafe', call' \in [Calls -> CallType],
         member' \in [Users -> MemberType],
         \A u \in Users \ W : member'[u] = member[u] /\ (u \in willing => u \in willing'),
         \A u \in W : u # group.createdBy /\ member'[u].role = "member",
         \A u \in W : member'[u].status \in {"accepted", "requested"} => u \in willing',
         \A u \in W : ~opened => u \in admitted',
         willing' \subseteq Users, admitted' \subseteq Users, admitted \subseteq admitted',
         asked' \in [Users -> 0..MaxRequests], decided' \in [Users -> Nat],
         Undecided'
  PROVE  Inv'
<1>1. TypeOK'
  BY DEF Inv, TypeOK
<1>2. RowsOfGroup' /\ CreatorLives'
  BY DEF Inv, RowsOfGroup, CreatorLives
<1>3. CreatorOwns'
  BY DEF Inv, CreatorOwns
<1>4. WillingRows'
  BY DEF Inv, WillingRows
<1>5. AdmittedRows'
  BY DEF Inv, AdmittedRows
<1> QED BY <1>1, <1>2, <1>3, <1>4, <1>5 DEF Inv

\* A row that exists belongs to a group that exists.
LEMMA LiveRow == ASSUME Inv, NEW u \in Users, Exists(u) PROVE group.state = "live"
  BY DEF Inv, RowsOfGroup, Exists, NoMember

LEMMA WriteInviteInv == ASSUME Inv, NEW c \in Calls, WriteInvite(c) PROVE Inv'
<1> DEFINE r      == call[c]
           new    == {u \in r.ids : Creates(r.seen[u])}
           revive == {u \in r.ids : Revives(r.seen[u])}
           W      == revive \cup {u \in new : ~Exists(u)}
           m      == [status |-> "pending", role |-> "member"]
<1>1. r \in CallType /\ r.pc = "invite" /\ r.ids \subseteq Users
  BY DEF WriteInvite, Inv, TypeOK, CallType
<1>2. member' = [u \in Users |-> IF u \in W THEN m ELSE member[u]]
  BY DEF WriteInvite
<1>3. /\ admitted' = admitted \cup new \cup revive
      /\ UNCHANGED <<live, group, willing, opened, asked, decided>>
  BY DEF WriteInvite
<1>4. \E s \in CallType : /\ s.pc \in {"idle", "rejected"}
                          /\ call' = [call EXCEPT ![c] = s]
  <2> DEFINE wrote == member' # member
             s     == [IdleCall EXCEPT !.pc = "rejected", !.wrote = wrote]
  <2>0. wrote \in BOOLEAN
    OBVIOUS
  <2> HIDE DEF wrote
  <2>1. s \in CallType /\ s.pc = "rejected"
    BY <2>0 DEF IdleCall, CallType, NoStatus, Statuses, Policies
  <2>2. AfterInvites(c, wrote)
    BY DEF WriteInvite, wrote
  <2>3. call' = [call EXCEPT ![c] = s] \/ call' = [call EXCEPT ![c] = IdleCall]
    BY <2>2 DEF AfterInvites
  <2> QED BY <2>1, <2>3, IdleCallType
<1>5. CreatesOnce' /\ CallSafe' /\ JoinSafe' /\ call' \in [Calls -> CallType]
  BY <1>1, <1>3, <1>4, EndOfCall
<1>6. W \in SUBSET Users /\ (group.state = "live" \/ W = {})
  BY <1>1, LiveRow DEF WriteInvite, Creatable
<1>7. m \in MemberType
  BY DEF MemberType, Statuses
<1>8. \A u \in W : u # group.createdBy
  BY <1>1 DEF Inv, CallSafe, Revives, Creates
<1>9. member' \in [Users -> MemberType]
  BY <1>2, <1>7 DEF Inv, TypeOK
<1>10. /\ \A u \in W : member'[u] = m
       /\ \A u \in Users \ W : member'[u] = member[u]
  <2> HIDE DEF W, m
  <2> QED BY <1>2, <1>6
<1>11. /\ willing' \subseteq Users /\ admitted' \subseteq Users /\ admitted \subseteq admitted'
       /\ asked' \in [Users -> 0..MaxRequests] /\ decided' \in [Users -> Nat]
       /\ \A u \in W : u \in admitted'
  BY <1>1, <1>3 DEF Inv, TypeOK
<1>12. Undecided'
  BY <1>3, <1>10 DEF Inv, Undecided
<1>13. \A u \in W : member'[u].role = "member" /\ member'[u].status = "pending"
  BY <1>10
<1> HIDE DEF W, m
<1> QED BY <1>3, <1>5, <1>6, <1>8, <1>9, <1>10, <1>11, <1>12, <1>13, RowsInv

\* A request that ends without touching the group.
LEMMA FinishCalls ==
  ASSUME Inv, NEW c \in Calls, Finish(c), UNCHANGED <<group, opened>>,
         admitted \subseteq admitted'
  PROVE  CreatesOnce' /\ CallSafe' /\ JoinSafe' /\ call' \in [Calls -> CallType]
  BY IdleCallType, EndOfCall DEF Finish

LEMMA JoinByCodeInv == ASSUME Inv, NEW c \in Calls, WriteJoinByCode(c) PROVE Inv'
<1> DEFINE u == call[c].user
           m == [status |-> "accepted", role |-> "member"]
<1>1. /\ u \in Users /\ u # group.createdBy
      /\ call[c].ids = {u}
  BY DEF WriteJoinByCode, Inv, CallSafe
<1>2. group.state = "live"
  BY <1>1, LiveRow DEF WriteJoinByCode, Creatable
<1>3. member[u].role = "member" /\ member[u] \in MemberType
  BY <1>1, <1>2 DEF Inv, CreatorOwns, TypeOK
<1>4. [member[u] EXCEPT !.status = "accepted"] = m /\ m \in MemberType
  BY <1>3 DEF MemberType, Statuses
<1>5. /\ member' = [member EXCEPT ![u] = m]
      /\ Finish(c)
      /\ willing' = willing \cup {u} /\ admitted' = admitted \cup {u}
      /\ UNCHANGED <<live, group, opened, asked, decided>>
  BY <1>4 DEF WriteJoinByCode
<1> HIDE DEF u, m
<1>6. /\ member' \in [Users -> MemberType] /\ member'[u] = m
      /\ \A v \in Users \ {u} : member'[v] = member[v]
  BY <1>1, <1>4, <1>5 DEF Inv, TypeOK
<1>7. m.status = "accepted" /\ m.role = "member"
  BY DEF m
<1>8. Undecided'
  BY <1>5, <1>6, <1>7 DEF Inv, Undecided
<1>9. CreatesOnce' /\ CallSafe' /\ JoinSafe' /\ call' \in [Calls -> CallType]
  BY <1>5, FinishCalls
<1>10. /\ willing' \subseteq Users /\ admitted' \subseteq Users
       /\ asked' \in [Users -> 0..MaxRequests] /\ decided' \in [Users -> Nat]
  BY <1>1, <1>5 DEF Inv, TypeOK
<1> QED BY <1>1, <1>2, <1>5, <1>6, <1>7, <1>8, <1>9, <1>10, RowsInv

LEMMA JoinPlanInv == ASSUME Inv, NEW c \in Calls, WriteJoinPlan(c) PROVE Inv'
<1> DEFINE r == call[c]
           u == r.user
           status == IF r.policy = "request_approval" THEN "requested" ELSE "accepted"
           m == [status |-> status, role |-> "member"]
<1>1. /\ u \in Users /\ u # group.createdBy
      /\ r.ids = {u}
      /\ ~opened => u \in admitted
  BY DEF WriteJoinPlan, Inv, CallSafe, JoinSafe
<1>2. group.state = "live"
  BY <1>1, LiveRow DEF WriteJoinPlan, Creatable
<1>3. member[u].role = "member"
  BY <1>1, <1>2 DEF Inv, CreatorOwns
<1>4. m \in MemberType
  BY DEF MemberType, Statuses
<1>5. /\ member' = [member EXCEPT ![u] = m]
      /\ Finish(c)
      /\ willing' = willing \cup {u}
      /\ IF status = "requested"
           THEN asked[u] < MaxRequests /\ asked' = [asked EXCEPT ![u] = @ + 1]
           ELSE asked' = asked
      /\ UNCHANGED <<live, group, admitted, opened, decided>>
  BY <1>3 DEF WriteJoinPlan
<1>6. m.status = status /\ m.role = "member"
  OBVIOUS
<1> HIDE DEF u, m, status
<1>7. /\ member' \in [Users -> MemberType] /\ member'[u] = m
      /\ \A v \in Users \ {u} : member'[v] = member[v]
  BY <1>1, <1>4, <1>5 DEF Inv, TypeOK
<1>8. Undecided' /\ asked' \in [Users -> 0..MaxRequests]
  <2>0. /\ asked \in [Users -> 0..MaxRequests] /\ decided \in [Users -> Nat]
        /\ MaxRequests \in Nat /\ decided' = decided /\ Undecided
    BY <1>5, ConstantsAssumption DEF Inv, TypeOK
  <2>3. \A v \in Users : asked[v] \in Nat /\ decided[v] \in Nat
    BY <2>0
  <2>1. CASE status = "requested"
    <3>1. /\ asked' \in [Users -> 0..MaxRequests]
          /\ asked'[u] = asked[u] + 1
          /\ \A v \in Users \ {u} : asked'[v] = asked[v]
      BY <1>1, <1>5, <2>0, <2>1
    <3> QED BY <1>1, <1>7, <2>0, <2>3, <3>1 DEF Undecided
  <2>2. CASE status # "requested"
    BY <1>5, <1>6, <1>7, <2>0, <2>2 DEF Undecided
  <2> QED BY <2>1, <2>2
<1>9. CreatesOnce' /\ CallSafe' /\ JoinSafe' /\ call' \in [Calls -> CallType]
  BY <1>5, FinishCalls
<1>10. /\ willing' \subseteq Users /\ admitted' \subseteq Users
       /\ decided' \in [Users -> Nat]
  BY <1>1, <1>5 DEF Inv, TypeOK
<1> QED BY <1>1, <1>2, <1>5, <1>6, <1>7, <1>8, <1>9, <1>10, RowsInv

\* Leaving and cancelling: the row becomes "left".
LEMMA LeftInv ==
  ASSUME Inv, NEW u \in Users, u # group.createdBy, Exists(u),
         member' = [member EXCEPT ![u].status = "left"],
         willing' = willing \ {u},
         UNCHANGED <<live, group, admitted, opened, asked, decided>>,
         CreatesOnce', CallSafe', JoinSafe', call' \in [Calls -> CallType]
  PROVE  Inv'
<1>1. group.state = "live"
  BY LiveRow
<1>2. member[u].role = "member" /\ member[u] \in MemberType
  BY <1>1 DEF Inv, CreatorOwns, TypeOK
<1>3. /\ member' \in [Users -> MemberType]
      /\ member'[u].role = "member" /\ member'[u].status = "left"
      /\ \A v \in Users \ {u} : member'[v] = member[v]
  BY <1>2 DEF Inv, TypeOK, MemberType, Statuses
<1>4. Undecided'
  BY <1>3 DEF Inv, Undecided
<1>5. ~opened => u \in admitted
  BY <1>1 DEF Inv, AdmittedRows, Exists
<1>6. /\ willing' \subseteq Users /\ admitted' \subseteq Users
      /\ asked' \in [Users -> 0..MaxRequests] /\ decided' \in [Users -> Nat]
  BY DEF Inv, TypeOK
<1>7. /\ {u} \in SUBSET Users
      /\ \A v \in Users \ {u} : member'[v] = member[v] /\ (v \in willing => v \in willing')
      /\ \A v \in {u} : /\ v # group.createdBy /\ member'[v].role = "member"
                        /\ member'[v].status = "left"
                        /\ ~opened => v \in admitted'
  BY <1>3, <1>5
<1> QED BY <1>1, <1>3, <1>4, <1>6, <1>7, RowsInv

LEMMA LeaveInv == ASSUME Inv, NEW c \in Calls, WriteLeave(c) PROVE Inv'
<1> DEFINE u == call[c].user
<1>1. u \in Users /\ call[c].ids = {u} /\ u # group.createdBy
  BY DEF WriteLeave, Inv, CallSafe
<1>2. /\ Exists(u) /\ Finish(c) /\ willing' = willing \ {u}
      /\ member' = [member EXCEPT ![u].status = "left"]
      /\ UNCHANGED <<live, group, admitted, opened, asked, decided>>
  BY DEF WriteLeave
<1>3. CreatesOnce' /\ CallSafe' /\ JoinSafe' /\ call' \in [Calls -> CallType]
  BY <1>2, FinishCalls
<1> HIDE DEF u
<1> QED BY <1>1, <1>2, <1>3, LeftInv

LEMMA CancelInv == ASSUME Inv, NEW u \in Users, CancelJoinRequest(u) PROVE Inv'
<1>1. Exists(u)
  BY DEF CancelJoinRequest, Exists
<1>2. u # group.createdBy
  BY <1>1, LiveRow DEF CancelJoinRequest, Inv, CreatorOwns
<1>3. CreatesOnce' /\ CallSafe' /\ JoinSafe' /\ call' \in [Calls -> CallType]
  BY DEF CancelJoinRequest, Inv, TypeOK, CreatesOnce, CallSafe, JoinSafe
<1> QED BY <1>1, <1>2, <1>3, LeftInv DEF CancelJoinRequest

LEMMA DecideInv ==
  ASSUME Inv, NEW c \in Calls, NEW t \in Users, WriteDecide(c, t) PROVE Inv'
<1> DEFINE status == IF call[c].flag THEN "accepted" ELSE "declined"
<1>1. /\ member[t].status = "requested" /\ Exists(t)
      /\ member' = [member EXCEPT ![t].status = status]
      /\ decided' = [decided EXCEPT ![t] = @ + 1]
      /\ Finish(c)
      /\ UNCHANGED <<live, group, willing, admitted, opened, asked>>
  BY DEF WriteDecide, Exists
<1>2. status \in {"accepted", "declined"}
  OBVIOUS
<1> HIDE DEF status
<1>3. group.state = "live"
  BY <1>1, LiveRow
<1>4. t # group.createdBy /\ member[t].role = "member" /\ member[t] \in MemberType
  BY <1>1, <1>3 DEF Inv, CreatorOwns, TypeOK
<1>5. /\ member' \in [Users -> MemberType]
      /\ member'[t].role = "member" /\ member'[t].status = status
      /\ \A v \in Users \ {t} : member'[v] = member[v]
  BY <1>1, <1>2, <1>4 DEF Inv, TypeOK, MemberType, Statuses
<1>6. decided' \in [Users -> Nat] /\ Undecided'
  <2>0. /\ asked \in [Users -> 0..MaxRequests] /\ decided \in [Users -> Nat]
        /\ asked' = asked /\ Undecided
    BY <1>1 DEF Inv, TypeOK
  <2>1. /\ decided' \in [Users -> Nat] /\ decided'[t] = decided[t] + 1
        /\ \A v \in Users \ {t} : decided'[v] = decided[v]
    BY <1>1, <2>0
  <2>2. decided[t] + 1 <= asked[t]
    <3>1. decided[t] \in Nat /\ asked[t] \in Nat
      BY <2>0, ConstantsAssumption
    <3>2. decided[t] < asked[t]
      BY <1>1, <2>0 DEF Undecided
    <3> QED BY <3>1, <3>2
  <2> QED BY <1>2, <1>5, <2>0, <2>1, <2>2 DEF Undecided
<1>7. t \in willing /\ (~opened => t \in admitted)
  BY <1>1, <1>3, <1>4 DEF Inv, WillingRows, AdmittedRows
<1>8. CreatesOnce' /\ CallSafe' /\ JoinSafe' /\ call' \in [Calls -> CallType]
  BY <1>1, FinishCalls
<1>9. /\ willing' \subseteq Users /\ admitted' \subseteq Users
      /\ asked' \in [Users -> 0..MaxRequests]
  BY <1>1 DEF Inv, TypeOK
<1>10. /\ {t} \in SUBSET Users
       /\ \A v \in Users \ {t} : member'[v] = member[v] /\ (v \in willing => v \in willing')
       /\ \A v \in {t} : /\ v # group.createdBy /\ member'[v].role = "member"
                         /\ v \in willing'
                         /\ ~opened => v \in admitted'
  BY <1>1, <1>4, <1>5, <1>7
<1>11. /\ UNCHANGED <<live, group, opened>> /\ admitted \subseteq admitted'
       /\ \A v \in {t} : member'[v].status \in {"accepted", "requested"} => v \in willing'
  BY <1>1, <1>10
<1> QED BY <1>3, <1>5, <1>6, <1>8, <1>9, <1>10, <1>11, RowsInv

LEMMA UpdatePlanInv == ASSUME Inv, NEW c \in Calls, WriteUpdatePlan(c) PROVE Inv'
<1>1. /\ group.state = "live" /\ call[c].policy \in Policies
      /\ group' = [group EXCEPT !.policy = call[c].policy]
      /\ opened' = (opened \/ call[c].policy # "invite_only")
      /\ Finish(c)
      /\ UNCHANGED <<live, member, willing, admitted, asked, decided>>
  BY DEF WriteUpdatePlan, Inv, TypeOK, CallType
<1>2. /\ group' \in GroupType /\ group'.state = "live"
      /\ group'.createdBy = group.createdBy
      /\ group'.policy = call[c].policy
  BY <1>1 DEF Inv, TypeOK, GroupType
<1>3. CreatesOnce' /\ CallSafe' /\ JoinSafe' /\ call' \in [Calls -> CallType]
  BY <1>1, <1>2, IdleCallType, EndOfCall DEF Finish
<1>4. TypeOK'
  BY <1>1, <1>2, <1>3 DEF Inv, TypeOK
<1>5. RowsOfGroup' /\ CreatorLives' /\ CreatorOwns' /\ WillingRows' /\ Undecided'
  BY <1>1, <1>2
  DEF Inv, RowsOfGroup, CreatorLives, CreatorOwns, WillingRows, Undecided
<1>6. AdmittedRows'
  BY <1>1, <1>2 DEF Inv, AdmittedRows
<1> QED BY <1>3, <1>4, <1>5, <1>6 DEF Inv

LEMMA DeleteAccountInv == ASSUME Inv, NEW u \in Users, DeleteAccount(u) PROVE Inv'
<1>0. /\ NoMember \in MemberType /\ NoMember.status = "none" /\ NoMember.role = "member"
      /\ live' = live \ {u} /\ UNCHANGED <<call, willing, admitted, opened, asked, decided>>
  BY DEF NoMember, MemberType, Statuses, DeleteAccount, history
<1>1. /\ group' \in GroupType /\ group'.createdBy = group.createdBy
      /\ group'.policy = group.policy
      /\ IF group.createdBy = u THEN group'.state = "deleted" ELSE group' = group
  BY DEF DeleteAccount, Inv, TypeOK, GroupType
<1>2. /\ member' \in [Users -> MemberType]
      /\ \A v \in Users : member'[v] = member[v] \/ member'[v] = NoMember
      /\ \A v \in Users : v # u /\ group.createdBy # u => member'[v] = member[v]
      /\ group.createdBy = u => \A v \in Users : member'[v] = NoMember
  BY <1>0 DEF DeleteAccount, Inv, TypeOK
<1>3. group.createdBy = u => group.state # "none"
  BY ConstantsAssumption DEF Inv, CreatorLives
<1>4. TypeOK'
  BY <1>0, <1>1, <1>2 DEF Inv, TypeOK
<1>5. RowsOfGroup'
  BY <1>1, <1>2 DEF Inv, RowsOfGroup
<1>6. CreatorLives'
  BY <1>0, <1>1, <1>3 DEF Inv, CreatorLives
<1>7. CreatesOnce' /\ CallSafe' /\ JoinSafe'
  BY <1>0, <1>1, <1>3 DEF Inv, CreatesOnce, CallSafe, JoinSafe
<1>8. CreatorOwns'
  BY <1>0, <1>1, <1>2 DEF Inv, CreatorOwns
<1>9. WillingRows' /\ Undecided'
  BY <1>0, <1>2 DEF Inv, WillingRows, Undecided
<1>10. AdmittedRows'
  BY <1>0, <1>1, <1>2 DEF Inv, AdmittedRows
<1> QED BY <1>4, <1>5, <1>6, <1>7, <1>8, <1>9, <1>10 DEF Inv

LEMMA NextInv == ASSUME Inv, [Next]_vars PROVE Inv'
<1>1. CASE UNCHANGED vars
  BY <1>1 DEF vars, Inv, TypeOK, RowsOfGroup, CreatorLives, CreatesOnce, CallSafe,
              JoinSafe, CreatorOwns, WillingRows, AdmittedRows, Undecided
<1>2. ASSUME NEW c \in Calls, CallStep(c) PROVE Inv'
  <2>1. ASSUME \/ CreateThrows(c) \/ InviteThrows(c) \/ AnswerRejected(c)
               \/ JoinThrows(c) \/ LeaveThrows(c) \/ UpdatePlanThrows(c) \/ CallDies(c)
               \/ \E t \in Users : DecideTooLate(c, t)
        PROVE  Inv'
    <3>1. Throw(c)
      BY <2>1 DEF CreateThrows, InviteThrows, AnswerRejected, JoinThrows, LeaveThrows,
                  UpdatePlanThrows, CallDies, DecideTooLate, Throw
    <3> QED BY <3>1, ThrowInv
  <2> QED
    BY <1>2, <2>1, CommitCreateInv, WriteInviteInv, JoinByCodeInv, JoinPlanInv,
       LeaveInv, DecideInv, UpdatePlanInv
    DEF CallStep
<1> QED
  BY <1>1, <1>2, StartCallInv, CancelInv, DeleteAccountInv DEF Next

LEMMA InvHolds == Spec => []Inv
  BY InitInv, NextInv, PTL DEF Spec

\* Every row and every request is well-formed at all times.
THEOREM TypeCorrect == Spec => []TypeOK
<1>1. Inv => TypeOK
  BY DEF Inv
<1> QED BY <1>1, InvHolds, PTL

\* The creator stays the accepted and only owner of a group that exists, for any
\* number of stale writes (addGroupMembers, joinPlan, leaveGroup, leavePlan).
THEOREM CreatorOwnsHolds == Spec => []CreatorOwns
<1>1. Inv => CreatorOwns
  BY DEF Inv
<1> QED BY <1>1, InvHolds, PTL

\* Nobody is a member whose own last act was to leave (decideJoinRequest is
\* conditional on the request still being there).
THEOREM AcceptedIsWillingHolds == Spec => []AcceptedIsWilling
<1>1. Inv => AcceptedIsWilling
  BY DEF Inv, WillingRows, AcceptedIsWilling
<1> QED BY <1>1, InvHolds, PTL

\* No join request is decided twice (decideJoinRequest).
THEOREM DecidedOnceHolds == Spec => []DecidedOnce
<1>1. Inv => DecidedOnce
  BY DEF Inv, Undecided, DecidedOnce
<1> QED BY <1>1, InvHolds, PTL

\* A group that always was invite_only has no member nobody let in (joinPlan).
THEOREM InviteOnlyAdmitsInvitedHolds == Spec => []InviteOnlyAdmitsInvited
<1>1. Inv => InviteOnlyAdmitsInvited
  BY DEF Inv, AdmittedRows, InviteOnlyAdmitsInvited
<1> QED BY <1>1, InvHolds, PTL

\* A write by one call demotes an accepted member only if that call had read the
\* membership before it was accepted (addGroupMembers, joinPlan).
THEOREM DemotedOnlyByStaleCallHolds == Spec => DemotedOnlyByStaleCall
<1> DEFINE Demoted(u) == /\ member[u].status = "accepted"
                         /\ member'[u].status \in {"pending", "requested", "declined"}
           Stale(u)   == \E c \in Calls : /\ call[c].pc \in {"invite", "joinPlan"}
                                          /\ u \in call[c].ids
                                          /\ call[c].seen[u] # "accepted"
<1>1. ASSUME Inv, [Next]_vars, NEW u \in Users, Demoted(u) PROVE Stale(u)
  <2>0. group.state = "live" /\ member' # member
    BY <1>1 DEF Inv, RowsOfGroup, NoMember
  <2>1. ASSUME NEW c \in Calls, CommitCreate(c) PROVE FALSE
    BY <1>1, <2>0, <2>1 DEF CommitCreate, Inv, CreatesOnce
  <2>2. ASSUME NEW c \in Calls, WriteInvite(c) PROVE Stale(u)
    <3>1. /\ call[c].pc = "invite" /\ u \in call[c].ids
          /\ Creates(call[c].seen[u]) \/ Revives(call[c].seen[u])
      BY <1>1, <2>2 DEF WriteInvite
    <3> QED BY <3>1 DEF Creates, Revives
  <2>3. ASSUME NEW c \in Calls, WriteJoinPlan(c) PROVE Stale(u)
    <3>1. /\ call[c].user = u \/ member'[u] = member[u]
          /\ call[c].pc = "joinPlan"
      BY <2>3 DEF WriteJoinPlan, Inv, TypeOK
    <3>2. call[c].user = u
      BY <1>1, <3>1
    <3>3. call[c].ids = {u} /\ call[c].seen[u] # "accepted"
      BY <1>1, <3>1, <3>2 DEF Inv, CallSafe, JoinSafe
    <3> QED BY <3>1, <3>3
  <2>4. ASSUME NEW c \in Calls,
               \/ WriteJoinByCode(c) \/ WriteLeave(c)
               \/ \E t \in Users : WriteDecide(c, t)
        PROVE  FALSE
    BY <1>1, <2>4 DEF WriteJoinByCode, WriteLeave, WriteDecide, Inv, TypeOK, MemberType
  <2>5. ASSUME NEW v \in Users, CancelJoinRequest(v) \/ DeleteAccount(v) PROVE FALSE
    BY <1>1, <2>5 DEF CancelJoinRequest, DeleteAccount, NoMember, Inv, TypeOK, MemberType
  <2>6. ASSUME NEW c \in Calls, CallStep(c), ~CommitCreate(c), ~WriteInvite(c),
               ~WriteJoinPlan(c), ~WriteJoinByCode(c), ~WriteLeave(c),
               ~(\E t \in Users : WriteDecide(c, t))
        PROVE  FALSE
    BY <2>0, <2>6 DEF CallStep, CreateThrows, InviteThrows, AnswerRejected, JoinThrows,
         LeaveThrows, UpdatePlanThrows, CallDies, DecideTooLate, Throw, WriteUpdatePlan
  <2>7. ASSUME NEW c \in Calls, NEW v \in Users, StartCall(c, v) PROVE FALSE
    BY <2>0, <2>7 DEF StartCall, StartCreateGroup, StartCreatePlan, StartInvite,
         StartJoinByCode, StartJoinPlan, StartLeave, StartDecide, StartUpdatePlan, Start
  <2> QED
    BY <1>1, <2>0, <2>1, <2>2, <2>3, <2>4, <2>5, <2>6, <2>7 DEF Next, vars
<1>2. ASSUME Inv, [Next]_vars PROVE [\A u \in Users : Demoted(u) => Stale(u)]_vars
  BY <1>1, <1>2
<1> QED BY <1>2, InvHolds, PTL DEF Spec, DemotedOnlyByStaleCall
=============================================================================
