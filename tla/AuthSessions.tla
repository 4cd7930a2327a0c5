----------------------------- MODULE AuthSessions -----------------------------
(***************************************************************************)
(* Sign-in, refresh-token rotation, logout and account deletion             *)
(* (auth/auth.service.ts, auth/auth.repository.ts).                         *)
(*                                                                          *)
(* A call is one HTTP request; every await on the database is a step.  The  *)
(* rotation is a transaction of two statements: its conditional updateMany  *)
(* takes the row lock of the old session, and nothing it did is visible     *)
(* before it commits.  Other writers of that row wait for the lock.         *)
(*                                                                          *)
(* A session row stands for the one refresh token whose hash it stores.     *)
(***************************************************************************)
EXTENDS Naturals

CONSTANTS
  Users,     \* user ids
  Sessions,  \* session ids
  Calls,     \* slots for concurrent requests
  None       \* no session, no user, no call

ASSUME NoneAssumption ==
  None \notin Users /\ None \notin Sessions /\ None \notin Calls

VARIABLES
  user,     \* the user rows: never created, live, or deleted
  session,  \* the session rows
  lock,     \* the call whose open transaction locks a session row
  call,     \* the requests
  closed    \* history: logins ended by a logout, by expiry or with the account

vars == <<user, session, lock, call, closed>>

States == {"none", "active", "expired", "revoked", "deleted"}

\* login and parent are history: the session the sign-in created, and the
\* session this one replaced.
SessionType == [state  : States,
                user   : Users \cup {None},
                login  : Sessions \cup {None},
                parent : Sessions \cup {None}]

CallType == [pc   : {"idle", "hydrate", "issue", "rotate"},
             user : Users \cup {None},
             prev : Sessions \cup {None}]

TypeOK ==
  /\ user \in [Users -> {"none", "live", "deleted"}]
  /\ session \in [Sessions -> SessionType]
  /\ lock \in [Sessions -> Calls \cup {None}]
  /\ call \in [Calls -> CallType]
  /\ closed \subseteq Sessions

NoSession == [state |-> "none", user |-> None, login |-> None, parent |-> None]
IdleCall  == [pc |-> "idle", user |-> None, prev |-> None]

Init ==
  /\ user = [u \in Users |-> "none"]
  /\ session = [s \in Sessions |-> NoSession]
  /\ lock = [s \in Sessions |-> None]
  /\ call = [c \in Calls |-> IdleCall]
  /\ closed = {}

Finish(c) == call' = [call EXCEPT ![c] = IdleCall]

(***************************************************************************)
(* authenticateWithGoogle: upsertGoogleUser, one transaction, finds the     *)
(* user by identity or e-mail or creates it; issueSession follows.          *)
(***************************************************************************)
UpsertGoogleUser(c, u) ==
  /\ call[c].pc = "idle"
  /\ user[u] # "deleted"
  /\ user' = [user EXCEPT ![u] = "live"]
  /\ call' = [call EXCEPT ![c] = [pc |-> "hydrate", user |-> u, prev |-> None]]
  /\ UNCHANGED <<session, lock, closed>>

(***************************************************************************)
(* refreshSession: the session is looked up by the hash of the token; it    *)
(* must be neither revoked nor expired.  It may be neither any more when    *)
(* rotateActiveSession gets to it.                                          *)
(***************************************************************************)
FindActiveSession(c, s) ==
  /\ call[c].pc = "idle"
  /\ session[s].state = "active"
  /\ call' = [call EXCEPT ![c] =
                [pc |-> "hydrate", user |-> session[s].user, prev |-> s]]
  /\ UNCHANGED <<user, session, lock, closed>>

(***************************************************************************)
(* issueSession                                                             *)
(***************************************************************************)
\* findUserByIdWithCity: the request ends with 401 when the user is gone.
HydrateUser(c) ==
  /\ call[c].pc = "hydrate"
  /\ IF user[call[c].user] = "live"
       THEN call' = [call EXCEPT ![c].pc = "issue"]
       ELSE Finish(c)
  /\ UNCHANGED <<user, session, lock, closed>>

\* createSession after a sign-in; the foreign key rejects a user that is gone.
CreateSession(c, t) ==
  /\ call[c].pc = "issue" /\ call[c].prev = None
  /\ session[t].state = "none"
  /\ session' = IF user[call[c].user] = "live"
                  THEN [session EXCEPT ![t] =
                         [state |-> "active", user |-> call[c].user,
                          login |-> t, parent |-> None]]
                  ELSE session
  /\ Finish(c)
  /\ UNCHANGED <<user, lock, closed>>

\* Mutant of ConsumeSession: the updateMany without revokedAt and expiresAt in
\* its where clause.
ConsumeAnySession(c) ==
  LET s == call[c].prev
  IN  /\ call[c].pc = "issue" /\ s # None
      /\ lock[s] = None
      /\ IF session[s].state # "deleted"
           THEN /\ lock' = [lock EXCEPT ![s] = c]
                /\ call' = [call EXCEPT ![c].pc = "rotate"]
           ELSE Finish(c) /\ UNCHANGED lock
      /\ UNCHANGED <<user, session, closed>>

\* rotateActiveSession, first statement: updateMany with revokedAt: null and
\* expiresAt > now.  It waits for the row lock and tests the row it then finds;
\* a count other than 1 ends the request with 401.
ConsumeSession(c) ==
  LET s == call[c].prev
  IN  /\ call[c].pc = "issue" /\ s # None
      /\ lock[s] = None
      /\ IF session[s].state = "active"
           THEN /\ lock' = [lock EXCEPT ![s] = c]
                /\ call' = [call EXCEPT ![c].pc = "rotate"]
           ELSE Finish(c) /\ UNCHANGED lock
      /\ UNCHANGED <<user, session, closed>>

\* Mutant of CommitRotation: the new session is created outside the
\* transaction, by a statement that fails.
CommitRevocationOnly(c, t) ==
  LET s == call[c].prev
  IN  /\ call[c].pc = "rotate"
      /\ session[t].state = "none"
      /\ session' = [session EXCEPT ![s].state = "revoked"]
      /\ lock' = [lock EXCEPT ![s] = None]
      /\ Finish(c)
      /\ UNCHANGED <<user, closed>>

\* Mutant of CommitRotation: the old session is left as it is.
CommitCreationOnly(c, t) ==
  LET s == call[c].prev
  IN  /\ call[c].pc = "rotate"
      /\ session[t].state = "none"
      /\ session' = [session EXCEPT ![t] =
           [state |-> "active", user |-> call[c].user,
            login |-> session[s].login, parent |-> s]]
      /\ lock' = [lock EXCEPT ![s] = None]
      /\ Finish(c)
      /\ UNCHANGED <<user, closed>>

\* rotateActiveSession, second statement and commit.
CommitRotation(c, t) ==
  LET s == call[c].prev
  IN  /\ call[c].pc = "rotate"
      /\ session[t].state = "none"
      /\ session' = [session EXCEPT
           ![s].state = "revoked",
           ![t] = [state |-> "active", user |-> call[c].user,
                   login |-> session[s].login, parent |-> s]]
      /\ lock' = [lock EXCEPT ![s] = None]
      /\ Finish(c)
      /\ UNCHANGED <<user, closed>>

\* The request dies or fails; an open transaction is rolled back.
CallDies(c) ==
  /\ call[c].pc # "idle"
  /\ lock' = [s \in Sessions |-> IF lock[s] = c THEN None ELSE lock[s]]
  /\ Finish(c)
  /\ UNCHANGED <<user, session, closed>>

(***************************************************************************)
(* logout, expiry, account deletion                                         *)
(***************************************************************************)
\* revokeSessionByRefreshTokenHash: an expired session is revoked as well.
Logout(s) ==
  /\ lock[s] = None
  /\ session[s].state \in {"active", "expired"}
  /\ session' = [session EXCEPT ![s].state = "revoked"]
  /\ closed' = closed \cup {session[s].login}
  /\ UNCHANGED <<user, lock, call>>

\* expiresAt passes.  During a rotation it makes no difference: the transaction
\* has tested it already.
Expire(s) ==
  /\ lock[s] = None
  /\ session[s].state = "active"
  /\ session' = [session EXCEPT ![s].state = "expired"]
  /\ closed' = closed \cup {session[s].login}
  /\ UNCHANGED <<user, lock, call>>

\* Mutant of DeleteAccount: the delete does not cascade.
DeleteUserOnly(u) ==
  /\ user[u] = "live"
  /\ user' = [user EXCEPT ![u] = "deleted"]
  /\ UNCHANGED <<session, lock, call, closed>>

\* deleteMyAccount: the delete cascades to the sessions and waits for the locks.
DeleteAccount(u) ==
  LET mine == {s \in Sessions : session[s].user = u}
  IN  /\ user[u] = "live"
      /\ \A s \in mine : lock[s] = None
      /\ user' = [user EXCEPT ![u] = "deleted"]
      /\ session' = [s \in Sessions |->
           IF s \in mine THEN [session[s] EXCEPT !.state = "deleted"]
                         ELSE session[s]]
      /\ closed' = closed \cup {session[s].login : s \in mine}
      /\ UNCHANGED <<lock, call>>

(***************************************************************************)
(* The specification.                                                       *)
(***************************************************************************)
CallStep(c) ==
  \/ HydrateUser(c)
  \/ ConsumeSession(c)
  \/ \E t \in Sessions : CreateSession(c, t) \/ CommitRotation(c, t)

Next ==
  \/ \E c \in Calls : \/ \E u \in Users : UpsertGoogleUser(c, u)
                      \/ \E s \in Sessions : FindActiveSession(c, s)
                      \/ CallStep(c)
                      \/ CallDies(c)
  \/ \E s \in Sessions : Logout(s) \/ Expire(s)
  \/ \E u \in Users : DeleteAccount(u)

Spec == Init /\ [][Next]_vars

(***************************************************************************)
(* Properties.                                                              *)
(***************************************************************************)
\* Concurrent uses of one refresh token yield at most one replacement, whatever
\* they interleave with (rotateActiveSession).
ReplacedOnce ==
  \A t, u \in Sessions :
    session[t].parent # None /\ session[t].parent = session[u].parent => t = u

\* A sign-in has at most one usable refresh token at any time: rotation revokes
\* the old session in the step that makes the new one usable.
OneActivePerLogin ==
  \A s, t \in Sessions :
    /\ session[s].state = "active" /\ session[t].state = "active"
    /\ session[s].login = session[t].login
    => s = t

\* A sign-in is never lost to a failed or losing refresh: unless somebody logged
\* out, a session expired or the account was deleted, it has a usable session.
LoginNotLost ==
  \A s \in Sessions :
    (session[s].state # "none" /\ session[s].login \notin closed) =>
      \E t \in Sessions : /\ session[t].state = "active"
                          /\ session[t].login = session[s].login

\* A session is usable only while its user exists, although a refresh read the
\* user before it writes the session and the account may be deleted in between.
ActiveHasUser ==
  \A s \in Sessions :
    session[s].state = "active" => user[session[s].user] = "live"

(***************************************************************************)
(* The abstract specification.                                              *)
(***************************************************************************)
ActiveOf(l) == {s \in Sessions : session[s].state = "active" /\ session[s].login = l}

\* The usable session of each sign-in.
current == [l \in Sessions |->
  IF ActiveOf(l) = {} THEN None ELSE CHOOSE s \in ActiveOf(l) : TRUE]

used == {s \in Sessions : session[s].state # "none"}

L == INSTANCE Logins

\* All that the requests do to the session rows amounts to signing in, replacing
\* the usable session of a sign-in by a new one, and ending sign-ins for good
\* (issueSession, rotateActiveSession, revokeSessionByRefreshTokenHash).
LoginsSpec == L!Spec
=============================================================================
