------------------------ MODULE AuthSessions_proofs ------------------------
(***************************************************************************)
(* Proofs about AuthSessions, for any number of users, sessions and         *)
(* concurrent requests.                                                     *)
(***************************************************************************)
EXTENDS AuthSessions, TLAPS

\* The row lock and the request that rotates the session know each other, and
\* a locked session is active.
Locks ==
  /\ \A c \in Calls : call[c].pc = "rotate" =>
       /\ call[c].prev \in Sessions
       /\ lock[call[c].prev] = c
       /\ session[call[c].prev].state = "active"
  /\ \A s \in Sessions : lock[s] # None =>
       /\ call[lock[s]].pc = "rotate"
       /\ call[lock[s]].prev = s

\* A request in progress has a user; the session it refreshes was created for
\* that user.
CallUser ==
  \A c \in Calls : call[c].pc # "idle" =>
    /\ call[c].user \in Users
    /\ call[c].prev # None => /\ session[call[c].prev].state # "none"
                              /\ session[call[c].prev].user = call[c].user

\* Rows that were never created are blank; the others have a user and a login,
\* which is named after a session that was created.
Rows ==
  \A s \in Sessions :
    IF session[s].state = "none" THEN session[s] = NoSession
                                 ELSE /\ session[s].user \in Users
                                      /\ session[s].login \in Sessions
                                      /\ session[session[s].login].state # "none"

\* A session that was replaced is not usable any more.
ReplacedIsOver ==
  \A t \in Sessions : session[t].parent # None =>
    session[session[t].parent].state \in {"revoked", "deleted"}

Inv == /\ TypeOK /\ Locks /\ CallUser /\ Rows /\ ReplacedIsOver
       /\ ReplacedOnce /\ OneActivePerLogin /\ LoginNotLost /\ ActiveHasUser

LEMMA InitInv == Init => Inv
  BY NoneAssumption
  DEF Init, Inv, TypeOK, Locks, CallUser, Rows, ReplacedIsOver, ReplacedOnce,
      OneActivePerLogin, LoginNotLost, ActiveHasUser, NoSession, IdleCall,
      SessionType, CallType, States

\* The steps that leave the session rows and the users alone.
LEMMA CallOnly ==
  ASSUME Inv, UNCHANGED <<session, closed>>,
         \A u \in Users : user[u] = "live" => user'[u] = "live",
         user' \in [Users -> {"none", "live", "deleted"}],
         lock' \in [Sessions -> Calls \cup {None}],
         call' \in [Calls -> CallType],
         Locks', CallUser'
  PROVE  Inv'
<1>1. Rows' /\ ReplacedIsOver' /\ ReplacedOnce' /\ OneActivePerLogin' /\ LoginNotLost'
  BY DEF Inv, Rows, ReplacedIsOver, ReplacedOnce, OneActivePerLogin, LoginNotLost
<1>2. ActiveHasUser'
  BY DEF Inv, ActiveHasUser, Rows
<1> QED BY <1>1, <1>2 DEF Inv, TypeOK

LEMMA CallStepInv ==
  ASSUME Inv, NEW c \in Calls,
         \/ \E u \in Users : UpsertGoogleUser(c, u)
         \/ \E s \in Sessions : FindActiveSession(c, s)
         \/ HydrateUser(c)
         \/ ConsumeSession(c)
         \/ CallDies(c)
  PROVE  Inv'
<1> USE NoneAssumption
<1>0. IdleCall \in CallType /\ IdleCall.pc = "idle"
  BY DEF IdleCall, CallType
<1>1. ASSUME NEW u \in Users, UpsertGoogleUser(c, u) PROVE Inv'
  <2>1. call' \in [Calls -> CallType] /\ user' \in [Users -> {"none", "live", "deleted"}]
    BY <1>1 DEF UpsertGoogleUser, Inv, TypeOK, CallType
  <2>2. Locks'
    BY <1>1 DEF UpsertGoogleUser, Inv, TypeOK, Locks
  <2>3. CallUser'
    BY <1>1 DEF UpsertGoogleUser, Inv, TypeOK, CallUser
  <2> QED BY <1>1, <2>1, <2>2, <2>3, CallOnly DEF UpsertGoogleUser, Inv, TypeOK
<1>2. ASSUME NEW s \in Sessions, FindActiveSession(c, s) PROVE Inv'
  <2>1. session[s].user \in Users
    BY <1>2 DEF FindActiveSession, Inv, Rows
  <2>2. call' \in [Calls -> CallType]
    BY <1>2, <2>1 DEF FindActiveSession, Inv, TypeOK, CallType
  <2>3. Locks'
    BY <1>2 DEF FindActiveSession, Inv, TypeOK, Locks
  <2>4. CallUser'
    BY <1>2, <2>1 DEF FindActiveSession, Inv, TypeOK, CallUser
  <2> QED BY <1>2, <2>2, <2>3, <2>4, CallOnly DEF FindActiveSession, Inv, TypeOK
<1>3. CASE HydrateUser(c)
  <2>1. call' \in [Calls -> CallType]
    BY <1>0, <1>3 DEF HydrateUser, Finish, Inv, TypeOK, CallType
  <2>2. Locks'
    BY <1>0, <1>3 DEF HydrateUser, Finish, Inv, TypeOK, Locks, CallType
  <2>3. CallUser'
    BY <1>0, <1>3 DEF HydrateUser, Finish, Inv, TypeOK, CallUser, CallType
  <2> QED BY <1>3, <2>1, <2>2, <2>3, CallOnly DEF HydrateUser, Inv, TypeOK
<1>4. CASE ConsumeSession(c)
  <2>0. call[c].prev \in Sessions
    BY <1>4 DEF ConsumeSession, Inv, TypeOK, CallType
  <2>1. call' \in [Calls -> CallType] /\ lock' \in [Sessions -> Calls \cup {None}]
    BY <1>0, <1>4, <2>0 DEF ConsumeSession, Finish, Inv, TypeOK, CallType
  <2>2. Locks'
    BY <1>0, <1>4, <2>0 DEF ConsumeSession, Finish, Inv, TypeOK, Locks, CallType
  <2>3. CallUser'
    BY <1>0, <1>4 DEF ConsumeSession, Finish, Inv, TypeOK, CallUser, CallType
  <2> QED BY <1>4, <2>1, <2>2, <2>3, CallOnly DEF ConsumeSession, Inv, TypeOK
<1>5. CASE CallDies(c)
  <2>1. call' \in [Calls -> CallType] /\ lock' \in [Sessions -> Calls \cup {None}]
    BY <1>0, <1>5 DEF CallDies, Finish, Inv, TypeOK
  <2>2. Locks'
    BY <1>0, <1>5 DEF CallDies, Finish, Inv, TypeOK, Locks
  <2>3. CallUser'
    BY <1>0, <1>5 DEF CallDies, Finish, Inv, TypeOK, CallUser
  <2> QED BY <1>5, <2>1, <2>2, <2>3, CallOnly DEF CallDies, Inv, TypeOK
<1> QED BY <1>1, <1>2, <1>3, <1>4, <1>5

LEMMA CreateSessionInv ==
  ASSUME Inv, NEW c \in Calls, NEW t \in Sessions, CreateSession(c, t) PROVE Inv'
<1> USE NoneAssumption
<1>0. /\ IdleCall \in CallType /\ IdleCall.pc = "idle"
      /\ call[c].user \in Users
      /\ session[t] = NoSession /\ lock[t] = None
  BY DEF IdleCall, CallType, CreateSession, Inv, CallUser, Rows, Locks, TypeOK
<1>1. call' \in [Calls -> CallType]
  BY <1>0 DEF CreateSession, Finish, Inv, TypeOK
<1>2. CASE user[call[c].user] # "live"
  <2>1. Locks'
    BY <1>0, <1>2 DEF CreateSession, Finish, Inv, TypeOK, Locks
  <2>2. CallUser'
    BY <1>0, <1>2 DEF CreateSession, Finish, Inv, TypeOK, CallUser
  <2> QED BY <1>1, <1>2, <2>1, <2>2, CallOnly DEF CreateSession, Inv, TypeOK
<1>3. CASE user[call[c].user] = "live"
  <2> DEFINE new == [state |-> "active", user |-> call[c].user,
                     login |-> t, parent |-> None]
  <2>0. /\ session' = [session EXCEPT ![t] = new]
        /\ call' = [call EXCEPT ![c] = IdleCall]
        /\ UNCHANGED <<user, lock, closed>>
    BY <1>3 DEF CreateSession, Finish
  <2>11. new \in SessionType
    BY <1>0 DEF SessionType, States
  <2>12. session' \in [Sessions -> SessionType]
    <3> HIDE DEF new
    <3> QED BY <2>0, <2>11 DEF Inv, TypeOK
  <2>1. TypeOK'
    BY <1>1, <2>0, <2>12 DEF Inv, TypeOK
  <2>13. call[c].pc = "issue" /\ session[t].state = "none"
    BY DEF CreateSession
  <2>2. Locks'
    <3> HIDE DEF new
    <3>1. \A s \in Sessions : lock[s] # c
      BY <2>13 DEF Inv, TypeOK, Locks
    <3>2. \A d \in Calls : call[d].pc = "rotate" => d # c /\ call[d].prev # t
      BY <2>13 DEF Inv, Locks
    <3> QED BY <1>0, <2>0, <3>1, <3>2 DEF Inv, TypeOK, Locks
  <2>3. CallUser'
    BY <1>0, <2>0 DEF Inv, TypeOK, CallUser, CallType, NoSession
  <2>4. Rows'
    BY <1>0, <2>0 DEF Inv, TypeOK, Rows, NoSession
  <2>5. ReplacedIsOver'
    BY <1>0, <2>0 DEF Inv, TypeOK, ReplacedIsOver, NoSession, SessionType
  <2>6. ReplacedOnce'
    BY <1>0, <2>0 DEF Inv, TypeOK, ReplacedOnce
  <2>7. \A s \in Sessions : session[s].login # t
    BY <1>0 DEF Inv, Rows, NoSession
  <2>8. OneActivePerLogin'
    BY <1>0, <2>0, <2>7 DEF Inv, TypeOK, OneActivePerLogin
  <2>9. LoginNotLost'
    BY <1>0, <2>0 DEF Inv, TypeOK, LoginNotLost, NoSession
  <2>10. ActiveHasUser'
    BY <1>0, <1>3, <2>0 DEF Inv, TypeOK, ActiveHasUser
  <2> QED
    BY <2>1, <2>2, <2>3, <2>4, <2>5, <2>6, <2>8, <2>9, <2>10 DEF Inv
<1> QED BY <1>2, <1>3

LEMMA CommitRotationInv ==
  ASSUME Inv, NEW c \in Calls, NEW t \in Sessions, CommitRotation(c, t) PROVE Inv'
<1> USE NoneAssumption
<1> DEFINE s   == call[c].prev
           old == [session[s] EXCEPT !.state = "revoked"]
           new == [state |-> "active", user |-> call[c].user,
                   login |-> session[s].login, parent |-> s]
<1>0. /\ IdleCall \in CallType /\ IdleCall.pc = "idle"
      /\ s \in Sessions /\ lock[s] = c /\ session[s].state = "active"
      /\ call[c].user \in Users /\ session[s].user = call[c].user
      /\ session[t] = NoSession /\ lock[t] = None
      /\ session[s].login \in Sessions /\ session[session[s].login].state # "none"
  BY DEF IdleCall, CallType, CommitRotation, Inv, CallUser, Rows, Locks, TypeOK
<1>1. s # t /\ session[s] \in SessionType
  BY <1>0 DEF NoSession, Inv, TypeOK
<1>2. /\ old.state = "revoked" /\ old.user = session[s].user
      /\ old.login = session[s].login /\ old.parent = session[s].parent
      /\ old \in SessionType
  BY <1>1 DEF SessionType, States
<1>3. new \in SessionType
  BY <1>0 DEF SessionType, States
<1>4. /\ session' = [session EXCEPT ![s] = old, ![t] = new]
      /\ lock' = [lock EXCEPT ![s] = None]
      /\ call' = [call EXCEPT ![c] = IdleCall]
      /\ UNCHANGED <<user, closed>>
  BY <1>0 DEF CommitRotation, Finish, Inv, TypeOK
<1> HIDE DEF s, old
<1>5. /\ session'[s] = old /\ session'[t] = new
      /\ \A r \in Sessions \ {s, t} : session'[r] = session[r]
      /\ session' \in [Sessions -> SessionType]
  BY <1>0, <1>1, <1>2, <1>3, <1>4 DEF Inv, TypeOK
<1>6. TypeOK'
  BY <1>0, <1>4, <1>5 DEF Inv, TypeOK
<1>7. Locks'
  BY <1>0, <1>1, <1>4, <1>5 DEF Inv, TypeOK, Locks
<1>8. CallUser'
  BY <1>0, <1>1, <1>2, <1>4, <1>5 DEF Inv, TypeOK, CallUser, CallType, NoSession
<1>9. Rows'
  BY <1>0, <1>1, <1>2, <1>5 DEF Inv, TypeOK, Rows, NoSession
<1>10. ReplacedIsOver'
  BY <1>0, <1>1, <1>2, <1>5
  DEF Inv, TypeOK, ReplacedIsOver, NoSession, SessionType
<1>11. \A r \in Sessions : session[r].parent # s
  BY <1>0 DEF Inv, ReplacedIsOver
<1>12. ReplacedOnce'
  BY <1>0, <1>1, <1>2, <1>5, <1>11 DEF Inv, ReplacedOnce
<1>13. OneActivePerLogin'
  BY <1>0, <1>1, <1>2, <1>5 DEF Inv, OneActivePerLogin
<1>14. LoginNotLost'
  <2> SUFFICES ASSUME NEW r \in Sessions, session'[r].state # "none",
                      session'[r].login \notin closed
               PROVE  \E q \in Sessions : /\ session'[q].state = "active"
                                          /\ session'[q].login = session'[r].login
    BY <1>4 DEF LoginNotLost
  <2>1. CASE session'[r].login = session[s].login
    BY <1>5, <2>1
  <2>2. CASE session'[r].login # session[s].login
    <3>1. r # s /\ r # t
      BY <1>2, <1>5, <2>2
    <3>2. PICK q \in Sessions : /\ session[q].state = "active"
                                /\ session[q].login = session[r].login
      BY <1>5, <3>1 DEF Inv, LoginNotLost
    <3>3. q # s /\ q # t
      BY <1>0, <1>5, <2>2, <3>1, <3>2 DEF NoSession
    <3> QED BY <1>5, <3>1, <3>2, <3>3
  <2> QED BY <2>1, <2>2
<1>15. ActiveHasUser'
  BY <1>0, <1>1, <1>2, <1>4, <1>5 DEF Inv, ActiveHasUser
<1> QED
  BY <1>6, <1>7, <1>8, <1>9, <1>10, <1>12, <1>13, <1>14, <1>15 DEF Inv

\* A step that ends some sessions E, none of them locked, and closes their logins.
LEMMA EndSessionsInv ==
  ASSUME Inv, NEW E \in SUBSET Sessions, NEW x \in {"revoked", "expired", "deleted"},
         \A s \in E : lock[s] = None,
         x = "expired" => \A s \in E : session[s].state = "active",
         \A s \in E : session[s].state # "none",
         session' = [s \in Sessions |-> IF s \in E
                       THEN [session[s] EXCEPT !.state = x] ELSE session[s]],
         closed' = closed \cup {session[s].login : s \in E},
         user' \in [Users -> {"none", "live", "deleted"}],
         \A s \in Sessions \ E : session[s].state = "active" =>
                                   user'[session[s].user] = "live",
         UNCHANGED <<lock, call>>
  PROVE  Inv'
<1> USE NoneAssumption
<1>1. /\ session' \in [Sessions -> SessionType]
      /\ \A s \in Sessions : /\ session'[s].user = session[s].user
                             /\ session'[s].login = session[s].login
                             /\ session'[s].parent = session[s].parent
      /\ \A s \in E : session'[s].state = x
      /\ \A s \in Sessions \ E : session'[s] = session[s]
  BY DEF Inv, TypeOK, SessionType, States
<1>2. \A s \in E : session[s].login \in Sessions
  BY DEF Inv, Rows
<1>3. TypeOK'
  BY <1>1, <1>2 DEF Inv, TypeOK
<1>4. Locks'
  <2>1. \A c \in Calls : call[c].pc = "rotate" => call[c].prev \notin E
    BY DEF Inv, Locks
  <2> QED BY <1>1, <2>1 DEF Inv, Locks
<1>5. CallUser'
  BY <1>1 DEF Inv, TypeOK, CallUser, CallType
<1>6. Rows'
  BY <1>1 DEF Inv, Rows
<1>7. ReplacedIsOver'
  <2> SUFFICES ASSUME NEW t \in Sessions, session[t].parent # None
               PROVE  session'[session[t].parent].state \in {"revoked", "deleted"}
    BY <1>1 DEF ReplacedIsOver
  <2>1. session[t].parent \in Sessions
    BY DEF Inv, TypeOK, SessionType
  <2>2. session[session[t].parent].state \in {"revoked", "deleted"}
    BY DEF Inv, ReplacedIsOver
  <2> QED BY <1>1, <2>1, <2>2
<1>8. ReplacedOnce'
  BY <1>1 DEF Inv, ReplacedOnce
<1>9. OneActivePerLogin'
  BY <1>1 DEF Inv, OneActivePerLogin
<1>10. LoginNotLost'
  <2> SUFFICES ASSUME NEW r \in Sessions, session'[r].state # "none",
                      session'[r].login \notin closed'
               PROVE  \E q \in Sessions : /\ session'[q].state = "active"
                                          /\ session'[q].login = session'[r].login
    BY DEF LoginNotLost
  <2>1. session[r].state # "none" /\ session[r].login \notin closed
    BY <1>1
  <2>2. PICK q \in Sessions : /\ session[q].state = "active"
                              /\ session[q].login = session[r].login
    BY <2>1 DEF Inv, LoginNotLost
  <2>3. q \notin E
    BY <1>1, <2>2
  <2> QED BY <1>1, <2>2, <2>3
<1>11. ActiveHasUser'
  BY <1>1 DEF ActiveHasUser
<1> QED BY <1>3, <1>4, <1>5, <1>6, <1>7, <1>8, <1>9, <1>10, <1>11 DEF Inv

LEMMA NextInv == Inv /\ [Next]_vars => Inv'
<1> SUFFICES ASSUME Inv, [Next]_vars PROVE Inv'
  OBVIOUS
<1>1. CASE UNCHANGED vars
  BY <1>1
  DEF vars, Inv, TypeOK, Locks, CallUser, Rows, ReplacedIsOver, ReplacedOnce,
      OneActivePerLogin, LoginNotLost, ActiveHasUser
<1>2. ASSUME NEW s \in Sessions, Logout(s) PROVE Inv'
  <2>1. session' = [r \in Sessions |-> IF r \in {s}
                      THEN [session[r] EXCEPT !.state = "revoked"] ELSE session[r]]
    BY <1>2 DEF Logout, Inv, TypeOK
  <2>2. closed' = closed \cup {session[r].login : r \in {s}}
    BY <1>2 DEF Logout
  <2>3. /\ user' \in [Users -> {"none", "live", "deleted"}]
        /\ \A r \in Sessions : session[r].state = "active" =>
                                 user'[session[r].user] = "live"
    BY <1>2 DEF Logout, Inv, TypeOK, ActiveHasUser
  <2> QED BY <1>2, <2>1, <2>2, <2>3, EndSessionsInv DEF Logout
<1>3. ASSUME NEW s \in Sessions, Expire(s) PROVE Inv'
  <2>1. session' = [r \in Sessions |-> IF r \in {s}
                      THEN [session[r] EXCEPT !.state = "expired"] ELSE session[r]]
    BY <1>3 DEF Expire, Inv, TypeOK
  <2>2. closed' = closed \cup {session[r].login : r \in {s}}
    BY <1>3 DEF Expire
  <2>3. /\ user' \in [Users -> {"none", "live", "deleted"}]
        /\ \A r \in Sessions : session[r].state = "active" =>
                                 user'[session[r].user] = "live"
    BY <1>3 DEF Expire, Inv, TypeOK, ActiveHasUser
  <2> QED BY <1>3, <2>1, <2>2, <2>3, EndSessionsInv DEF Expire
<1>4. ASSUME NEW u \in Users, DeleteAccount(u) PROVE Inv'
  <2> DEFINE mine == {s \in Sessions : session[s].user = u}
  <2>1. \A s \in mine : session[s].state # "none"
    BY NoneAssumption DEF Inv, Rows, NoSession
  <2>2. /\ user' \in [Users -> {"none", "live", "deleted"}]
        /\ \A s \in Sessions \ mine : session[s].state = "active" =>
                                        user'[session[s].user] = "live"
    BY <1>4 DEF DeleteAccount, Inv, TypeOK, ActiveHasUser
  <2>3. /\ \A s \in mine : lock[s] = None
        /\ session' = [s \in Sessions |-> IF s \in mine
                         THEN [session[s] EXCEPT !.state = "deleted"]
                         ELSE session[s]]
        /\ closed' = closed \cup {session[s].login : s \in mine}
        /\ UNCHANGED <<lock, call>>
    BY <1>4 DEF DeleteAccount
  <2>4. mine \in SUBSET Sessions
    OBVIOUS
  <2> HIDE DEF mine
  <2> QED BY <2>1, <2>2, <2>3, <2>4, EndSessionsInv
<1> QED
  BY <1>1, <1>2, <1>3, <1>4, CallStepInv, CreateSessionInv, CommitRotationInv
  DEF Next, CallStep

LEMMA InvHolds == Spec => []Inv
  BY InitInv, NextInv, PTL DEF Spec

\* Every row and every request is well-formed at all times.
THEOREM TypeCorrect == Spec => []TypeOK
<1>1. Inv => TypeOK
  BY DEF Inv
<1> QED BY <1>1, InvHolds, PTL

\* One refresh token has at most one replacement, for any number of concurrent
\* refreshes, crashes, logouts and deletions (rotateActiveSession).
THEOREM ReplacedOnceHolds == Spec => []ReplacedOnce
<1>1. Inv => ReplacedOnce
  BY DEF Inv
<1> QED BY <1>1, InvHolds, PTL

\* A sign-in never has two usable refresh tokens (rotateActiveSession).
THEOREM OneActivePerLoginHolds == Spec => []OneActivePerLogin
<1>1. Inv => OneActivePerLogin
  BY DEF Inv
<1> QED BY <1>1, InvHolds, PTL

\* Nor is it left without one by a refresh that fails half-way or loses a race
\* (rotateActiveSession).
THEOREM LoginNotLostHolds == Spec => []LoginNotLost
<1>1. Inv => LoginNotLost
  BY DEF Inv
<1> QED BY <1>1, InvHolds, PTL

\* A refresh or a sign-in that raced an account deletion leaves no usable
\* session behind (createSession, rotateActiveSession, deleteMyAccount).
THEOREM ActiveHasUserHolds == Spec => []ActiveHasUser
<1>1. Inv => ActiveHasUser
  BY DEF Inv
<1> QED BY <1>1, InvHolds, PTL

(***************************************************************************)
(* The refinement.                                                          *)
(***************************************************************************)
\* What the definition of current comes to while a sign-in has one usable
\* session at most.
Current ==
  /\ current \in [Sessions -> Sessions \cup {None}]
  /\ \A l, s \in Sessions :
       current[l] = s <=> session[s].state = "active" /\ session[s].login = l

LEMMA CurrentIs == Inv => Current
<1> SUFFICES ASSUME Inv PROVE Current
  OBVIOUS
<1>1. ASSUME NEW l \in Sessions, ActiveOf(l) = {}
      PROVE  current[l] = None
  BY <1>1 DEF current
<1>2. ASSUME NEW l \in Sessions, NEW s \in ActiveOf(l)
      PROVE  current[l] = s
  <2>1. ActiveOf(l) = {s}
    BY <1>2 DEF ActiveOf, Inv, OneActivePerLogin
  <2> QED BY <2>1 DEF current
<1>3. \A l \in Sessions : ActiveOf(l) \subseteq Sessions
  BY DEF ActiveOf
<1>4. current \in [Sessions -> Sessions \cup {None}]
  <2>1. \A l \in Sessions : current[l] \in Sessions \cup {None}
    BY <1>1, <1>2, <1>3
  <2> QED BY <2>1 DEF current
<1>5. ASSUME NEW l \in Sessions, NEW s \in Sessions
      PROVE  current[l] = s <=> s \in ActiveOf(l)
  BY <1>1, <1>2, NoneAssumption
<1> QED BY <1>4, <1>5 DEF Current, ActiveOf

\* Steps that leave the session rows alone are stutters.
LEMMA SameSessions ==
  ASSUME session' = session PROVE UNCHANGED <<current, used>>
BY DEF current, used, ActiveOf

\* Sessions that stop being usable end their sign-ins.
LEMMA SessionsEnd ==
  ASSUME Current, Current', NEW S \in SUBSET Sessions,
         \A s \in Sessions : session[s].state = "none" <=> session'[s].state = "none",
         \A s \in Sessions : session'[s].login = session[s].login,
         \A s \in S : session'[s].state # "active",
         \A s \in Sessions \ S : session'[s].state = session[s].state
  PROVE  L!Next \/ UNCHANGED <<current, used>>
<1> DEFINE ended == {l \in Sessions : current[l] \in S}
<1>1. used' = used
  BY DEF used
<1>2. ASSUME NEW l \in Sessions PROVE current'[l] = IF l \in ended THEN None ELSE current[l]
  <2>1. \A s \in Sessions : current'[l] = s <=> current[l] = s /\ s \notin S
    BY DEF Current
  <2>2. current'[l] \in Sessions \cup {None} /\ current[l] \in Sessions \cup {None}
    BY DEF Current
  <2> QED BY <2>1, <2>2
<1>3. /\ current' = [l \in Sessions |-> IF l \in ended THEN None ELSE current[l]]
      /\ current = [l \in Sessions |-> current[l]]
  BY <1>2 DEF Current
<1>4. \A l \in ended : current[l] # None
  BY NoneAssumption
<1>5. ended \in SUBSET Sessions
  OBVIOUS
<1>6. CASE ended = {}
  BY <1>1, <1>3, <1>6
<1>7. CASE ended # {}
  <2> HIDE DEF ended
  <2>1. L!End(ended)
    BY <1>1, <1>3, <1>4, <1>7 DEF L!End
  <2> QED BY <1>5, <2>1 DEF L!Next
<1> QED BY <1>6, <1>7

\* A session row becomes usable, and the one it replaces is not any more.
LEMMA SessionBegins ==
  ASSUME Current, Current', NEW t \in Sessions, NEW l \in Sessions,
         session[t].state = "none", session'[t].state = "active", session'[t].login = l,
         \A s \in Sessions \ {t} :
           /\ session'[s].login = session[s].login
           /\ session[s].state = "none" <=> session'[s].state = "none",
         \A s \in Sessions \ {t} : session[s].login # l => session'[s].state = session[s].state
  PROVE  /\ current' = [current EXCEPT ![l] = t]
         /\ t \notin used /\ used' = used \cup {t}
<1>1. t \notin used /\ used' = used \cup {t}
  BY DEF used
<1>2. current'[l] = t
  BY DEF Current
<1>3. ASSUME NEW m \in Sessions, m # l PROVE current'[m] = current[m]
  <2>1. \A s \in Sessions : current'[m] = s <=> current[m] = s
    BY <1>3 DEF Current
  <2>2. current'[m] \in Sessions \cup {None} /\ current[m] \in Sessions \cup {None}
    BY DEF Current
  <2> QED BY <2>1, <2>2
<1> QED BY <1>1, <1>2, <1>3 DEF Current

LEMMA InitRefines == Init => L!Init
<1> SUFFICES ASSUME Init PROVE L!Init
  OBVIOUS
<1>1. \A s \in Sessions : session[s].state = "none"
  BY DEF Init, NoSession
<1>2. used = {} /\ \A l \in Sessions : ActiveOf(l) = {}
  BY <1>1 DEF used, ActiveOf
<1> QED BY <1>2 DEF L!Init, current

LEMMA StepRefines == Inv /\ Inv' /\ [Next]_vars => [L!Next]_<<current, used>>
<1> SUFFICES ASSUME Inv, Inv', [Next]_vars
             PROVE  L!Next \/ UNCHANGED <<current, used>>
  OBVIOUS
<1> USE NoneAssumption
<1>0. Current /\ Current'
  BY CurrentIs, PTL
<1>1. CASE UNCHANGED vars
  BY <1>1, SameSessions DEF vars
<1>2. ASSUME NEW c \in Calls,
             \/ \E u \in Users : UpsertGoogleUser(c, u)
             \/ \E s \in Sessions : FindActiveSession(c, s)
             \/ HydrateUser(c) \/ ConsumeSession(c) \/ CallDies(c)
      PROVE  UNCHANGED <<current, used>>
  BY <1>2, SameSessions
  DEF UpsertGoogleUser, FindActiveSession, HydrateUser, ConsumeSession, CallDies
<1>3. ASSUME NEW c \in Calls, NEW t \in Sessions, CreateSession(c, t)
      PROVE  L!Next \/ UNCHANGED <<current, used>>
  <2>1. CASE user[call[c].user] # "live"
    BY <1>3, <2>1, SameSessions DEF CreateSession
  <2>2. CASE user[call[c].user] = "live"
    <3> DEFINE new == [state |-> "active", user |-> call[c].user,
                       login |-> t, parent |-> None]
    <3>1. session[t].state = "none" /\ session' = [session EXCEPT ![t] = new]
      BY <1>3, <2>2 DEF CreateSession
    <3>2. /\ session'[t].state = "active" /\ session'[t].login = t
          /\ \A s \in Sessions \ {t} : session'[s] = session[s]
      BY <3>1 DEF Inv, TypeOK
    <3> HIDE DEF new
    <3>3. /\ current' = [current EXCEPT ![t] = t]
          /\ t \notin used /\ used' = used \cup {t}
      BY <1>0, <3>1, <3>2, SessionBegins
    <3> QED BY <3>3 DEF L!SignIn, L!Next
  <2> QED BY <2>1, <2>2
<1>4. ASSUME NEW c \in Calls, NEW t \in Sessions, CommitRotation(c, t)
      PROVE  L!Next
  <2> DEFINE s == call[c].prev
             l == session[s].login
             new == [state |-> "active", user |-> call[c].user, login |-> l, parent |-> s]
  <2>1. /\ s \in Sessions /\ session[s].state = "active" /\ session[t].state = "none"
        /\ l \in Sessions
    BY <1>4 DEF CommitRotation, Inv, Locks, Rows
  <2>2. session' = [session EXCEPT ![s].state = "revoked", ![t] = new]
    BY <1>4 DEF CommitRotation
  <2>3. /\ session'[t] = new /\ s # t
        /\ session'[s].login = l /\ session'[s].state = "revoked"
        /\ \A r \in Sessions \ {s, t} : session'[r] = session[r]
    BY <2>1, <2>2 DEF Inv, TypeOK, SessionType
  <2>4. session'[t].state = "active" /\ session'[t].login = l
    BY <2>3
  <2>5. current[l] = s
    BY <1>0, <2>1 DEF Current
  <2> HIDE DEF new, s, l
  <2>6. /\ \A r \in Sessions \ {t} :
             /\ session'[r].login = session[r].login
             /\ session[r].state = "none" <=> session'[r].state = "none"
        /\ \A r \in Sessions \ {t} :
             session[r].login # l => session'[r].state = session[r].state
    BY <2>1, <2>3 DEF l
  <2>7. /\ current' = [current EXCEPT ![l] = t]
        /\ t \notin used /\ used' = used \cup {t}
    BY <1>0, <2>1, <2>4, <2>6, SessionBegins
  <2> QED BY <2>1, <2>5, <2>7 DEF L!Rotate, L!Next
<1>5. ASSUME NEW s \in Sessions, Logout(s) \/ Expire(s)
      PROVE  L!Next \/ UNCHANGED <<current, used>>
  <2>1. /\ session[s].state \in {"active", "expired"}
        /\ \/ session' = [session EXCEPT ![s].state = "revoked"]
           \/ session' = [session EXCEPT ![s].state = "expired"]
    BY <1>5 DEF Logout, Expire
  <2>2. /\ session'[s].state \in {"revoked", "expired"}
        /\ session'[s].login = session[s].login
        /\ \A r \in Sessions \ {s} : session'[r] = session[r]
    BY <2>1 DEF Inv, TypeOK, SessionType
  <2> DEFINE S == {s}
  <2>3. S \in SUBSET Sessions
    OBVIOUS
  <2>4. /\ \A r \in Sessions : session[r].state = "none" <=> session'[r].state = "none"
        /\ \A r \in Sessions : session'[r].login = session[r].login
        /\ \A r \in S : session'[r].state # "active"
        /\ \A r \in Sessions \ S : session'[r].state = session[r].state
    BY <2>1, <2>2
  <2> HIDE DEF S
  <2> QED BY <1>0, <2>3, <2>4, SessionsEnd
<1>6. ASSUME NEW u \in Users, DeleteAccount(u)
      PROVE  L!Next \/ UNCHANGED <<current, used>>
  <2> DEFINE mine == {s \in Sessions : session[s].user = u}
  <2>1. session' = [s \in Sessions |-> IF s \in mine
                      THEN [session[s] EXCEPT !.state = "deleted"] ELSE session[s]]
    BY <1>6 DEF DeleteAccount
  <2>2. \A s \in mine : session[s].state # "none"
    BY DEF Inv, Rows, NoSession
  <2>3. mine \in SUBSET Sessions
    OBVIOUS
  <2> HIDE DEF mine
  <2>4. /\ \A s \in Sessions : session'[s].login = session[s].login
        /\ \A s \in mine : session'[s].state = "deleted"
        /\ \A s \in Sessions \ mine : session'[s].state = session[s].state
    BY <2>1, <2>3 DEF Inv, TypeOK, SessionType
  <2>5. \A s \in Sessions : session[s].state = "none" <=> session'[s].state = "none"
    BY <2>2, <2>4
  <2>6. \A s \in mine : session'[s].state # "active"
    BY <2>4
  <2> QED BY <1>0, <2>3, <2>4, <2>5, <2>6, SessionsEnd
<1> QED BY <1>1, <1>2, <1>3, <1>4, <1>5, <1>6 DEF Next, CallStep

\* The session rows implement sign-ins that have one usable session at a time,
\* never use a session twice and never come back after they have ended, for any
\* number of users, sessions and concurrent requests (issueSession,
\* rotateActiveSession, revokeSessionByRefreshTokenHash, deleteMyAccount).
THEOREM LoginsRefined == Spec => LoginsSpec
<1>1. Spec => []Inv
  BY InvHolds
<1> QED
  BY <1>1, InitRefines, StepRefines, PTL DEF Spec, LoginsSpec, L!Spec, L!vars
=============================================================================
