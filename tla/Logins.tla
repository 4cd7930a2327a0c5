-------------------------------- MODULE Logins --------------------------------
(***************************************************************************)
(* What a sign-in promises, whatever requests race: it has one usable       *)
(* session at a time, each one used is new, and once it has ended it never   *)
(* comes back.  A sign-in is named after its first session.                 *)
(***************************************************************************)
CONSTANTS Sessions, None

VARIABLES
  current,  \* the usable session of each sign-in, if it has one
  used      \* sessions that have ever been usable

vars == <<current, used>>

Init == current = [l \in Sessions |-> None] /\ used = {}

SignIn(l) ==
  /\ l \notin used
  /\ current' = [current EXCEPT ![l] = l]
  /\ used' = used \cup {l}

\* The usable session is replaced by a new one.
Rotate(l, t) ==
  /\ current[l] # None /\ t \notin used
  /\ current' = [current EXCEPT ![l] = t]
  /\ used' = used \cup {t}

\* By a logout or by expiry, or all of a user's with the account.
End(L) ==
  /\ L # {} /\ \A l \in L : current[l] # None
  /\ current' = [l \in Sessions |-> IF l \in L THEN None ELSE current[l]]
  /\ UNCHANGED used

Next ==
  \/ \E l \in Sessions : SignIn(l)
  \/ \E l, t \in Sessions : Rotate(l, t)
  \/ \E L \in SUBSET Sessions : End(L)

Spec == Init /\ [][Next]_vars
===============================================================================
