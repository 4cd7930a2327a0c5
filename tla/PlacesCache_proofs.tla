-------------------------- MODULE PlacesCache_proofs --------------------------
(***************************************************************************)
(* Proofs about PlacesCache, for any number of replicas and requests, any   *)
(* set of lookups and any number of lost races.                             *)
(***************************************************************************)
EXTENDS HomeScreen, FiniteSetTheorems, SequenceTheorems, WellFoundedInduction, TLAPS

\* What a request k knows at each of its steps: the flights f that met a failure,
\* and whether the city is stored (s).
Sane(k, f, s) ==
  /\ k.pc = "idle" => k.replica = None
  /\ k.pc # "idle" => k.replica \in Replicas /\ k.kind \in Kinds
  /\ k.locked => k.pc \in {"find", "google", "upsert", "store", "unlock"}
  /\ k.pc = "unlock" => k.locked /\ k.result \in {"value", "null", "error"}
  /\ k.pc \in {"read", "exists"} => k.attempt <= MaxAttempts
  /\ k.pc = "upsert" => k.result \in Answers
  /\ k.pc = "store" => k.result \in Answers /\ (k.kind = "city" => s)
  /\ k.pc \in {"upsert", "store", "unlock"} /\ k.result = "null" => KeyOf(k.kind) = "reverse"
  /\ k.pc = "unlock" /\ k.result = "error" => <<k.replica, KeyOf(k.kind)>> \in f
  /\ k.pc \in {"again", "reset", "keep"} => k.kind = "coordinates"
  /\ k.pc = "done" /\ k.result \in {"error", "fallback"} =>
       \/ <<k.replica, KeyOf(k.kind)>> \in f
       \/ k.why = "fault"
       \/ k.why = "unknown" /\ KeyOf(k.kind) = "reverse"

RequestsSane == \A r \in Requests : Sane(req[r], failed, stored)

\* A leader has the lock it believes to have, unless the key is late.
LockHeld ==
  \A r \in Requests : req[r].locked /\ Key(r) \notin late => lock[Key(r)] = r

\* Nobody loads without the lock, unless the key is late.
LoadersLock ==
  \A r \in Requests : Loading(r) /\ Key(r) \notin late => req[r].locked

Inv == TypeOK /\ RequestsSane /\ LockHeld /\ LoadersLock /\ CachedCityIsStored

(***************************************************************************)
(* Keys and records.                                                        *)
(***************************************************************************)
LEMMA KindKey ==
  ASSUME NEW kind \in Kinds
  PROVE  /\ kind \in AllKinds /\ KeyOf(kind) \in Keys
         /\ KeyOf(kind) = "city" <=> kind = "city"
  BY ConstantsAssumption DEF KeyOf, Keys, AllKinds

LEMMA KeyType ==
  ASSUME Inv, NEW r \in Requests, req[r].pc # "idle"
  PROVE  /\ req[r] \in ReqType /\ req[r].replica \in Replicas /\ req[r].kind \in Kinds
         /\ Key(r) \in Keys /\ Flight(r) \in Replicas \X Keys
         /\ Key(r) = "city" <=> req[r].kind = "city"
  BY KindKey DEF Inv, TypeOK, RequestsSane, Sane, Key, Flight

\* What Google may answer about which kind of lookup.
LEMMA AnswerTypes ==
  ASSUME NEW kind \in Kinds, NEW a \in GoogleAnswers(kind) \cap Answers
  PROVE  a \in Answers /\ (a = "null" => KeyOf(kind) = "reverse")
<1>1. kind \in {"autocomplete", "cities", "detail", "city", "reverse", "coordinates"}
  BY ConstantsAssumption DEF AllKinds
<1>2. CASE kind \in {"reverse", "coordinates"}
  BY <1>2 DEF KeyOf
<1>3. CASE kind \in {"autocomplete", "cities", "detail", "city"}
  <2>1. a # "null"
    BY <1>3 DEF GoogleAnswers, AutocompleteAnswers, AutocompleteCitiesAnswers,
       PlaceDetailViewAnswers, CityByPlaceIdAnswers, FetchJson, FetchGeocodeJson
  <2> QED BY <2>1
<1> QED BY <1>1, <1>2, <1>3

LEMMA DoneSane ==
  ASSUME Inv, NEW r \in Requests, req[r].pc # "idle",
         NEW result \in {"value", "null", "error"},
         NEW f, failed \subseteq f, NEW s,
         result = "null" => Key(r) = "reverse",
         result = "error" => Flight(r) \in f
  PROVE  /\ Done(r, result) \in ReqType /\ Sane(Done(r, result), f, s)
         /\ ~Done(r, result).locked /\ Done(r, result).pc = "done"
         /\ Done(r, result).kind = req[r].kind
<1> DEFINE out == Outcome(req[r].kind, result)
           why == IF result = "null" THEN "unknown" ELSE None
<1>1. /\ req[r] \in ReqType /\ req[r].replica \in Replicas /\ req[r].kind \in Kinds
  BY KeyType
<1>2. /\ out \in Results /\ why \in {None, "unknown", "fault"}
      /\ out \in {"error", "fallback"} =>
           Flight(r) \in f \/ (why = "unknown" /\ Key(r) = "reverse")
  BY DEF Outcome, Results, Answers
<1>3. Done(r, result) = [req[r] EXCEPT !.pc = "done", !.locked = FALSE,
                                       !.result = out, !.why = why]
  BY DEF Done
<1> HIDE DEF out, why
<1>4. /\ Done(r, result) \in ReqType /\ Done(r, result).pc = "done"
      /\ ~Done(r, result).locked /\ Done(r, result).replica = req[r].replica
      /\ Done(r, result).kind = req[r].kind /\ Done(r, result).result = out
      /\ Done(r, result).why = why
  BY <1>1, <1>2, <1>3 DEF ReqType
<1> QED BY <1>1, <1>2, <1>4 DEF Sane, Flight, Key

LEMMA EndedSane ==
  ASSUME Inv, NEW r \in Requests, req[r].pc # "idle",
         NEW result \in {"value", "null", "error"},
         NEW f, failed \subseteq f, NEW s,
         result = "null" => Key(r) = "reverse",
         result = "error" => Flight(r) \in f
  PROVE  /\ Ended(r, result) \in ReqType /\ Sane(Ended(r, result), f, s)
         /\ ~Ended(r, result).locked /\ Ended(r, result).pc \in {"again", "keep", "done"}
         /\ Ended(r, result).kind = req[r].kind
<1>1. /\ req[r] \in ReqType /\ req[r].replica \in Replicas /\ req[r].kind \in Kinds
  BY KeyType
<1>2. CASE req[r].kind = "coordinates" /\ result \in Answers
  <2> DEFINE pc == IF result = "null" THEN "again" ELSE "keep"
  <2>1. Ended(r, result) = [req[r] EXCEPT !.pc = pc, !.locked = FALSE]
        /\ pc \in {"again", "keep"}
    BY <1>2 DEF Ended
  <2> HIDE DEF pc
  <2>2. Ended(r, result) \in ReqType
    BY <1>1, <2>1 DEF ReqType
  <2>3. /\ Ended(r, result).pc = pc /\ ~Ended(r, result).locked
        /\ Ended(r, result).replica = req[r].replica
        /\ Ended(r, result).kind = req[r].kind
    BY <1>1, <2>1 DEF ReqType
  <2> QED BY <1>1, <1>2, <2>1, <2>2, <2>3 DEF Sane
<1>3. CASE ~(req[r].kind = "coordinates" /\ result \in Answers)
  <2>1. Ended(r, result) = Done(r, result)
    BY <1>3 DEF Ended
  <2> QED BY <2>1, DoneSane
<1> QED BY <1>2, <1>3

(***************************************************************************)
(* What a step does to the requests.                                        *)
(***************************************************************************)
LEMMA SaneMonotone ==
  ASSUME NEW k, NEW f, NEW g, NEW s, NEW t, Sane(k, f, s), f \subseteq g, s => t
  PROVE  Sane(k, g, t)
  BY DEF Sane

\* What the histories and the flag may do in any step.
Grows ==
  /\ failed \subseteq failed' /\ failed' \subseteq Replicas \X Keys
  /\ stored' \in BOOLEAN /\ (stored => stored')
  /\ late \subseteq late' /\ late' \subseteq Keys

\* One request takes a step that leaves its key and the locks alone.
LEMMA OneRequest ==
  ASSUME Inv, NEW r \in Requests, NEW k \in ReqType,
         req' = [req EXCEPT ![r] = k], lock' = lock, Grows,
         Sane(k, failed', stored'),
         req[r].pc # "idle" => k.kind = req[r].kind,
         k.locked => req[r].locked,
         k.pc \in {"find", "google", "upsert", "store"} /\ KeyOf(k.kind) \notin late' =>
           k.locked
  PROVE  req' \in [Requests -> ReqType] /\ RequestsSane' /\ LockHeld' /\ LoadersLock'
<1>1. /\ req' \in [Requests -> ReqType]
      /\ req'[r] = k /\ \A q \in Requests \ {r} : req'[q] = req[q]
  BY DEF Inv, TypeOK
<1>2. RequestsSane'
  <2> SUFFICES ASSUME NEW q \in Requests PROVE Sane(req'[q], failed', stored')
    BY DEF RequestsSane
  <2>1. Sane(req[q], failed, stored)
    BY DEF Inv, RequestsSane
  <2> QED BY <1>1, <2>1, SaneMonotone DEF Grows
<1>3. req[r].locked => req[r].pc # "idle"
  BY DEF Inv, RequestsSane, Sane
<1>4. LockHeld'
  BY <1>1, <1>3 DEF Inv, LockHeld, Key, Grows
<1>5. LoadersLock'
  <2> SUFFICES ASSUME NEW q \in Requests, Loading(q)', KeyOf(req'[q].kind) \notin late'
               PROVE  req'[q].locked
    BY DEF LoadersLock, Key
  <2> QED BY <1>1 DEF Inv, LoadersLock, Loading, Key, Grows
<1> QED BY <1>1, <1>2, <1>4, <1>5

\* A leader settles, with every request that joined it; its lock may go, or a free
\* lock become its own.
LEMMA SettleStep ==
  ASSUME Inv, NEW r \in Requests, req[r].pc # "idle",
         NEW result \in {"value", "null", "error"}, Settle(r, result), Grows,
         result = "null" => Key(r) = "reverse",
         result = "error" => Flight(r) \in failed',
         \/ lock' = lock
         \/ req[r].locked /\ lock' = [lock EXCEPT ![Key(r)] = None]
         \/ lock[Key(r)] = None /\ lock' = [lock EXCEPT ![Key(r)] = r]
  PROVE  /\ req' \in [Requests -> ReqType] /\ RequestsSane' /\ LockHeld' /\ LoadersLock'
         /\ inflight' \in [Replicas \X Keys -> Requests \cup {None}]
         /\ lock' \in [Keys -> Requests \cup {None}]
<1> DEFINE Settled(q) == q = r \/ (req[q].pc = "joined" /\ Flight(q) = Flight(r))
<1>1. \A q \in Requests : req'[q] = IF Settled(q) THEN Ended(q, result) ELSE req[q]
  BY DEF Settle
<1>2. \A q \in Requests : Settled(q) => req[q].pc # "idle" /\ Flight(q) = Flight(r)
                                          /\ Key(q) = Key(r)
  BY DEF Flight
<1>3. ASSUME NEW q \in Requests, Settled(q)
      PROVE  /\ req'[q] \in ReqType /\ Sane(req'[q], failed', stored')
             /\ ~req'[q].locked /\ req'[q].pc \in {"again", "keep", "done"}
  <2> HIDE DEF Settled
  <2>1. req[q].pc # "idle" /\ Flight(q) = Flight(r) /\ Key(q) = Key(r)
    BY <1>2, <1>3
  <2>2. req'[q] = Ended(q, result)
    BY <1>1, <1>3
  <2> QED BY <2>1, <2>2, EndedSane DEF Grows
<1>4. ASSUME NEW q \in Requests, ~Settled(q)
      PROVE  /\ req'[q] = req[q] /\ req'[q] \in ReqType /\ Sane(req'[q], failed', stored')
  <2> HIDE DEF Settled
  <2>1. req'[q] = req[q] /\ req[q] \in ReqType /\ Sane(req[q], failed, stored)
    BY <1>1, <1>4 DEF Inv, TypeOK, RequestsSane
  <2> QED BY <2>1, SaneMonotone DEF Grows
<1>5. Settled(r)
  OBVIOUS
<1> HIDE DEF Settled
<1>6. req' \in [Requests -> ReqType]
  <2>1. \A q \in Requests : req'[q] \in ReqType
    BY <1>3, <1>4
  <2>2. req' = [q \in Requests |-> req'[q]]
    BY DEF Settle
  <2> QED BY <2>1, <2>2
<1>7. RequestsSane'
  BY <1>3, <1>4 DEF RequestsSane
<1>8. Key(r) \in Keys /\ Flight(r) \in Replicas \X Keys
  BY KeyType
<1>9. LockHeld'
  <2> SUFFICES ASSUME NEW q \in Requests, req'[q].locked, KeyOf(req'[q].kind) \notin late'
               PROVE  lock'[KeyOf(req'[q].kind)] = q
    BY DEF LockHeld, Key
  <2>1. req'[q] = req[q] /\ q # r
    BY <1>3, <1>4, <1>5
  <2>2. Key(q) \notin late /\ lock[Key(q)] = q
    BY <2>1 DEF Inv, LockHeld, Key, Grows
  <2>3. req[r].locked => Key(q) # Key(r)
    BY <2>1, <2>2 DEF Inv, LockHeld
  <2>4. Key(q) \in Keys /\ KeyOf(req'[q].kind) = Key(q)
    BY <2>1, KeyType DEF Inv, RequestsSane, Sane, Key
  <2>5. CASE lock' = lock
    BY <2>2, <2>4, <2>5
  <2>6. CASE req[r].locked /\ lock' = [lock EXCEPT ![Key(r)] = None]
    BY <1>8, <2>2, <2>3, <2>4, <2>6 DEF Inv, TypeOK
  <2>7. CASE lock[Key(r)] = None /\ lock' = [lock EXCEPT ![Key(r)] = r]
    <3>1. Key(q) # Key(r)
      BY <2>2, <2>7, ConstantsAssumption
    <3> QED BY <1>8, <2>2, <2>4, <2>7, <3>1 DEF Inv, TypeOK
  <2> QED BY <2>5, <2>6, <2>7
<1>10. LoadersLock'
  <2> SUFFICES ASSUME NEW q \in Requests, Loading(q)', KeyOf(req'[q].kind) \notin late'
               PROVE  req'[q].locked
    BY DEF LoadersLock, Key
  <2>1. req'[q] = req[q]
    BY <1>3, <1>4 DEF Loading
  <2> QED BY <2>1 DEF Inv, LoadersLock, Loading, Key, Grows
<1>11. inflight' \in [Replicas \X Keys -> Requests \cup {None}]
  BY DEF Settle, Inv, TypeOK
<1>12. lock' \in [Keys -> Requests \cup {None}]
  BY <1>8 DEF Inv, TypeOK
<1> QED BY <1>6, <1>7, <1>9, <1>10, <1>11, <1>12

(***************************************************************************)
(* The steps.                                                               *)
(***************************************************************************)
LEMMA InitInv == Init => Inv
<1> SUFFICES ASSUME Init PROVE Inv
  OBVIOUS
<1> DEFINE k == [pc |-> "idle", replica |-> None, kind |-> None,
                 attempt |-> 0, locked |-> FALSE, result |-> None, why |-> None]
<1>1. k \in ReqType /\ Sane(k, failed, stored) /\ k.pc = "idle" /\ ~k.locked
  BY ConstantsAssumption DEF ReqType, Sane
<1>2. \A r \in Requests : req[r] = k
  BY DEF Init
<1> HIDE DEF k
<1>3. req \in [Requests -> ReqType]
  <2>1. req = [r \in Requests |-> k]
    BY DEF Init, k
  <2> QED BY <1>1, <2>1
<1>4. TypeOK
  BY <1>3 DEF Init, TypeOK
<1>5. RequestsSane /\ LockHeld /\ LoadersLock
  BY <1>1, <1>2 DEF RequestsSane, LockHeld, LoadersLock, Loading
<1>6. CachedCityIsStored
  BY ConstantsAssumption DEF Init, CachedCityIsStored, Keys, AllKinds
<1> QED BY <1>4, <1>5, <1>6 DEF Inv

\* The histories, in a step that leaves them alone.
LEMMA GrowsByNothing ==
  ASSUME Inv, failed' = failed, stored' = stored, late' = late
  PROVE  Grows
  BY DEF Inv, TypeOK, Grows

LEMMA StartInv ==
  ASSUME Inv, NEW r \in Requests, NEW p \in Replicas, NEW kind \in Kinds, Start(r, p, kind)
  PROVE  Inv'
<1> DEFINE k == [req[r] EXCEPT !.pc = "get", !.replica = p, !.kind = kind]
<1>1. req' = [req EXCEPT ![r] = k] /\ req[r].pc = "idle" /\ req[r] \in ReqType
  BY DEF Start, Inv, TypeOK
<1>2. /\ k.pc = "get" /\ k.replica = p /\ k.kind = kind /\ k.locked = req[r].locked
  BY <1>1 DEF ReqType
<1>3. k \in ReqType
  BY <1>1, KindKey DEF ReqType
<1> HIDE DEF k
<1>4. Sane(k, failed', stored') /\ ~k.locked
  BY <1>1, <1>2 DEF Sane, Inv, RequestsSane
<1>5. req' \in [Requests -> ReqType] /\ RequestsSane' /\ LockHeld' /\ LoadersLock'
  BY <1>1, <1>2, <1>3, <1>4, OneRequest, GrowsByNothing DEF Start
<1> QED BY <1>5 DEF Start, Inv, TypeOK, CachedCityIsStored

LEMMA CacheGetInv == ASSUME Inv, NEW r \in Requests, CacheGet(r) PROVE Inv'
<1>0. /\ req[r].pc = "get" /\ req[r] \in ReqType /\ Key(r) \in Keys
      /\ Sane(req[r], failed, stored)
  BY KeyType DEF CacheGet, Inv, TypeOK, RequestsSane
<1>1. CASE Hit(Key(r))
  <2>1. /\ cache[Key(r)] \in {"value", "null", "error"}
        /\ cache[Key(r)] # "error" /\ (cache[Key(r)] = "null" => Key(r) = "reverse")
    BY <1>1 DEF Hit
  <2> DEFINE k == Ended(r, cache[Key(r)])
  <2>2. req' = [req EXCEPT ![r] = k]
    BY <1>1 DEF CacheGet
  <2>3. /\ k \in ReqType /\ Sane(k, failed', stored') /\ ~k.locked
        /\ k.pc \in {"again", "keep", "done"} /\ k.kind = req[r].kind
    BY <1>0, <2>1, EndedSane DEF CacheGet
  <2> HIDE DEF k
  <2>4. req' \in [Requests -> ReqType] /\ RequestsSane' /\ LockHeld' /\ LoadersLock'
    BY <2>2, <2>3, OneRequest, GrowsByNothing DEF CacheGet
  <2> QED BY <2>4 DEF CacheGet, Inv, TypeOK, CachedCityIsStored
<1>2. CASE ~Hit(Key(r))
  <2> DEFINE k == [req[r] EXCEPT !.pc = "run"]
  <2>1. req' = [req EXCEPT ![r] = k]
    BY <1>2 DEF CacheGet
  <2>2. /\ k \in ReqType /\ Sane(k, failed', stored') /\ k.locked = req[r].locked
        /\ k.pc = "run" /\ k.kind = req[r].kind
    BY <1>0 DEF ReqType, Sane, CacheGet
  <2> HIDE DEF k
  <2>4. req' \in [Requests -> ReqType] /\ RequestsSane' /\ LockHeld' /\ LoadersLock'
    BY <2>1, <2>2, OneRequest, GrowsByNothing DEF CacheGet
  <2> QED BY <2>4 DEF CacheGet, Inv, TypeOK, CachedCityIsStored
<1> QED BY <1>1, <1>2

LEMMA CacheGetNullInv == ASSUME Inv, NEW r \in Requests, CacheGetNull(r) PROVE Inv'
<1> DEFINE k == Ended(r, "null")
<1>1. /\ req[r].pc = "get" /\ req' = [req EXCEPT ![r] = k] /\ Key(r) = "reverse"
  BY DEF CacheGetNull
<1>2. /\ k \in ReqType /\ Sane(k, failed', stored') /\ ~k.locked
      /\ k.pc \in {"again", "keep", "done"} /\ k.kind = req[r].kind
  BY <1>1, EndedSane DEF CacheGetNull
<1> HIDE DEF k
<1>3. req' \in [Requests -> ReqType] /\ RequestsSane' /\ LockHeld' /\ LoadersLock'
  BY <1>1, <1>2, OneRequest, GrowsByNothing DEF CacheGetNull
<1> QED BY <1>3 DEF CacheGetNull, Inv, TypeOK, CachedCityIsStored

LEMMA JoinOrLeadInv == ASSUME Inv, NEW r \in Requests, JoinOrLead(r) PROVE Inv'
<1> DEFINE pc == IF inflight[Flight(r)] # None THEN "joined" ELSE "set"
           k  == [req[r] EXCEPT !.pc = pc]
<1>0. /\ req[r].pc = "run" /\ req[r] \in ReqType /\ Flight(r) \in Replicas \X Keys
      /\ Sane(req[r], failed, stored)
  BY KeyType DEF JoinOrLead, Inv, TypeOK, RequestsSane
<1>1. pc \in {"joined", "set"} /\ req' = [req EXCEPT ![r] = k]
  BY DEF JoinOrLead
<1>2. inflight' \in [Replicas \X Keys -> Requests \cup {None}]
  BY <1>0 DEF JoinOrLead, Inv, TypeOK
<1> HIDE DEF pc
<1>3. /\ k \in ReqType /\ Sane(k, failed', stored') /\ k.locked = req[r].locked
      /\ k.pc \in {"joined", "set"} /\ k.kind = req[r].kind
  BY <1>0, <1>1 DEF ReqType, Sane, JoinOrLead
<1> HIDE DEF k
<1>4. req' \in [Requests -> ReqType] /\ RequestsSane' /\ LockHeld' /\ LoadersLock'
  BY <1>1, <1>3, OneRequest, GrowsByNothing DEF JoinOrLead
<1> QED BY <1>2, <1>4 DEF JoinOrLead, Inv, TypeOK, CachedCityIsStored

LEMMA LoadType == \A kind : Load(kind) \in {"find", "google"}
  BY DEF Load

LEMMA AcquireLockInv == ASSUME Inv, NEW r \in Requests, AcquireLock(r) PROVE Inv'
<1>0. /\ req[r].pc = "set" /\ req[r].attempt <= MaxAttempts /\ req[r] \in ReqType
      /\ Key(r) \in Keys /\ Sane(req[r], failed, stored)
  BY KeyType DEF AcquireLock, Inv, TypeOK, RequestsSane
<1>1. CASE lock[Key(r)] = None
  <2> DEFINE pc == Load(req[r].kind)
             k  == [req[r] EXCEPT !.pc = pc, !.locked = TRUE]
  <2>1. req' = [req EXCEPT ![r] = k] /\ pc \in {"find", "google"}
    BY <1>1, LoadType DEF AcquireLock, Inv, TypeOK
  <2> HIDE DEF pc
  <2>2. /\ k \in ReqType /\ k.locked /\ k.pc = pc /\ k.kind = req[r].kind
        /\ k.replica = req[r].replica
    BY <1>0, <2>1 DEF ReqType
  <2> HIDE DEF k
  <2>3. Sane(k, failed', stored')
    BY <1>0, <2>1, <2>2 DEF Sane
  <2>4. /\ req' \in [Requests -> ReqType]
        /\ req'[r] = k /\ \A q \in Requests \ {r} : req'[q] = req[q]
    BY <2>1, <2>2 DEF Inv, TypeOK
  <2>5. RequestsSane'
    BY <2>3, <2>4 DEF RequestsSane, Inv, AcquireLock
  <2>6. /\ lock' \in [Keys -> Requests \cup {None}] /\ lock'[Key(r)] = r
        /\ \A key \in Keys \ {Key(r)} : lock'[key] = lock[key]
    BY <1>0, <1>1 DEF AcquireLock, Inv, TypeOK
  <2>7. LockHeld'
    <3> SUFFICES ASSUME NEW q \in Requests \ {r}, req[q].locked, Key(q) \notin late
                 PROVE  lock'[Key(q)] = q
      BY <2>2, <2>4, <2>6 DEF LockHeld, Key, AcquireLock
    <3>1. Key(q) \in Keys
      BY KeyType DEF Inv, RequestsSane, Sane
    <3>2. lock[Key(q)] = q
      BY DEF Inv, LockHeld
    <3>3. Key(q) # Key(r)
      BY <1>1, <3>2, ConstantsAssumption
    <3> QED BY <2>6, <3>1, <3>2, <3>3
  <2>8. LoadersLock'
    BY <2>2, <2>4 DEF LoadersLock, Inv, Loading, Key, AcquireLock
  <2> QED BY <2>4, <2>5, <2>6, <2>7, <2>8 DEF AcquireLock, Inv, TypeOK, CachedCityIsStored
<1>2. CASE lock[Key(r)] # None
  <2> DEFINE k == [req[r] EXCEPT !.pc = "read"]
  <2>1. req' = [req EXCEPT ![r] = k] /\ lock' = lock
    BY <1>2 DEF AcquireLock
  <2>2. /\ k \in ReqType /\ Sane(k, failed', stored') /\ k.locked = req[r].locked
        /\ k.pc = "read" /\ k.kind = req[r].kind
    BY <1>0 DEF ReqType, Sane, AcquireLock
  <2> HIDE DEF k
  <2>4. req' \in [Requests -> ReqType] /\ RequestsSane' /\ LockHeld' /\ LoadersLock'
    BY <2>1, <2>2, OneRequest, GrowsByNothing DEF AcquireLock
  <2> QED BY <2>1, <2>4 DEF AcquireLock, Inv, TypeOK, CachedCityIsStored
<1> QED BY <1>1, <1>2

\* A request that gives up the lock or the wait makes its key late.
LEMMA LoadsLate ==
  ASSUME Inv, NEW r \in Requests, req[r].pc \in {"set", "read"},
         req' = [req EXCEPT ![r].pc = Load(req[r].kind)],
         late' = late \cup {Key(r)},
         UNCHANGED <<cache, lock, inflight, stored, failed>>
  PROVE  Inv'
<1> DEFINE pc == Load(req[r].kind)
           k  == [req[r] EXCEPT !.pc = pc]
<1>0. req[r] \in ReqType /\ Key(r) \in Keys /\ Sane(req[r], failed, stored)
  BY KeyType DEF Inv, TypeOK, RequestsSane
<1>1. req' = [req EXCEPT ![r] = k] /\ pc \in {"find", "google"}
  BY LoadType
<1>2. Grows
  BY <1>0 DEF Grows, Inv, TypeOK
<1> HIDE DEF pc
<1>3. /\ k \in ReqType /\ k.locked = req[r].locked /\ k.pc = pc /\ k.kind = req[r].kind
      /\ k.replica = req[r].replica
  BY <1>0, <1>1 DEF ReqType
<1> HIDE DEF k
<1>4. Sane(k, failed', stored')
  BY <1>0, <1>1, <1>3 DEF Sane
<1>5. KeyOf(k.kind) \in late'
  BY <1>3 DEF Key
<1>6. req' \in [Requests -> ReqType] /\ RequestsSane' /\ LockHeld' /\ LoadersLock'
  BY <1>1, <1>2, <1>3, <1>4, <1>5, OneRequest
<1> QED BY <1>2, <1>6 DEF Grows, Inv, TypeOK, CachedCityIsStored

LEMMA GiveUpLockInv == ASSUME Inv, NEW r \in Requests, GiveUpLock(r) PROVE Inv'
  BY LoadsLate DEF GiveUpLock

LEMMA WaitEndsInv == ASSUME Inv, NEW r \in Requests, WaitEnds(r) PROVE Inv'
  BY LoadsLate DEF WaitEnds

LEMMA PollCacheInv == ASSUME Inv, NEW r \in Requests, PollCache(r) PROVE Inv'
<1>0. /\ req[r].pc = "read" /\ req[r] \in ReqType /\ Key(r) \in Keys
      /\ Sane(req[r], failed, stored)
  BY KeyType DEF PollCache, Inv, TypeOK, RequestsSane
<1>1. CASE cache[Key(r)] = "value"
  <2>1. Settle(r, "value") /\ lock' = lock /\ Grows
    BY <1>1, GrowsByNothing DEF PollCache
  <2>2. /\ req' \in [Requests -> ReqType] /\ RequestsSane' /\ LockHeld' /\ LoadersLock'
        /\ inflight' \in [Replicas \X Keys -> Requests \cup {None}]
    BY <1>0, <2>1, SettleStep
  <2> QED BY <2>2 DEF PollCache, Inv, TypeOK, CachedCityIsStored
<1>2. CASE cache[Key(r)] # "value"
  <2> DEFINE k == [req[r] EXCEPT !.pc = "exists"]
  <2>1. req' = [req EXCEPT ![r] = k] /\ inflight' = inflight
    BY <1>2 DEF PollCache
  <2>2. /\ k \in ReqType /\ Sane(k, failed', stored') /\ k.locked = req[r].locked
        /\ k.pc = "exists" /\ k.kind = req[r].kind
    BY <1>0 DEF ReqType, Sane, PollCache
  <2> HIDE DEF k
  <2>4. req' \in [Requests -> ReqType] /\ RequestsSane' /\ LockHeld' /\ LoadersLock'
    BY <2>1, <2>2, OneRequest, GrowsByNothing DEF PollCache
  <2> QED BY <2>1, <2>4 DEF PollCache, Inv, TypeOK, CachedCityIsStored
<1> QED BY <1>1, <1>2

LEMMA PollLockInv == ASSUME Inv, NEW r \in Requests, PollLock(r) PROVE Inv'
<1> DEFINE again == [req[r] EXCEPT !.pc = "set", !.attempt = req[r].attempt + 1]
           wait  == [req[r] EXCEPT !.pc = "read"]
           k     == IF lock[Key(r)] = None THEN again ELSE wait
<1>0. /\ req[r].pc = "exists" /\ req[r] \in ReqType /\ Sane(req[r], failed, stored)
  BY DEF PollLock, Inv, TypeOK, RequestsSane
<1>a. req[r].attempt \in 0 .. MaxAttempts
  <2>1. req[r].attempt \in 0 .. MaxAttempts + 1
    BY <1>0 DEF ReqType
  <2>2. req[r].attempt <= MaxAttempts
    BY <1>0 DEF Sane
  <2> QED BY <2>1, <2>2, ConstantsAssumption
<1>1. req' = [req EXCEPT ![r] = k]
  BY DEF PollLock
<1>2. req[r].attempt + 1 \in 0 .. MaxAttempts + 1
  BY <1>a, ConstantsAssumption
<1>3. /\ again \in ReqType /\ Sane(again, failed', stored') /\ again.locked = req[r].locked
      /\ again.pc = "set" /\ again.kind = req[r].kind
  BY <1>0, <1>2 DEF ReqType, Sane, PollLock
<1>4. /\ wait \in ReqType /\ Sane(wait, failed', stored') /\ wait.locked = req[r].locked
      /\ wait.pc = "read" /\ wait.kind = req[r].kind
  BY <1>0 DEF ReqType, Sane, PollLock
<1> HIDE DEF again, wait
<1>5. /\ k \in ReqType /\ Sane(k, failed', stored') /\ k.locked = req[r].locked
      /\ k.pc \in {"set", "read"} /\ k.kind = req[r].kind
  BY <1>3, <1>4
<1> HIDE DEF k
<1>6. req' \in [Requests -> ReqType] /\ RequestsSane' /\ LockHeld' /\ LoadersLock'
  BY <1>1, <1>5, OneRequest, GrowsByNothing DEF PollLock
<1> QED BY <1>6 DEF PollLock, Inv, TypeOK, CachedCityIsStored

LEMMA FindCityInv == ASSUME Inv, NEW r \in Requests, FindCity(r) PROVE Inv'
<1> DEFINE found == [req[r] EXCEPT !.pc = "store", !.result = "value"]
           ask   == [req[r] EXCEPT !.pc = "google"]
           k     == IF stored THEN found ELSE ask
<1>0. req[r].pc = "find" /\ req[r] \in ReqType /\ Sane(req[r], failed, stored)
  BY DEF FindCity, Inv, TypeOK, RequestsSane
<1>1. req' = [req EXCEPT ![r] = k]
  BY DEF FindCity
<1>2. /\ found \in ReqType /\ found.locked = req[r].locked
      /\ found.pc = "store" /\ found.kind = req[r].kind
      /\ found.replica = req[r].replica /\ found.result = "value"
  BY <1>0 DEF ReqType, Results, Answers
<1>3. /\ ask \in ReqType /\ Sane(ask, failed', stored') /\ ask.locked = req[r].locked
      /\ ask.pc = "google" /\ ask.kind = req[r].kind
  BY <1>0 DEF ReqType, Sane, FindCity
<1> HIDE DEF found, ask
<1>4. stored => Sane(found, failed', stored')
  BY <1>0, <1>2 DEF Sane, Answers, FindCity
<1>5. /\ k \in ReqType /\ Sane(k, failed', stored') /\ k.locked = req[r].locked
      /\ k.pc \in {"store", "google"} /\ k.kind = req[r].kind
  BY <1>2, <1>3, <1>4
<1> HIDE DEF k
<1>6. KeyOf(k.kind) \notin late' => k.locked
  BY <1>0, <1>5 DEF Inv, LoadersLock, Loading, Key, FindCity
<1>7. req' \in [Requests -> ReqType] /\ RequestsSane' /\ LockHeld' /\ LoadersLock'
  BY <1>1, <1>5, <1>6, OneRequest, GrowsByNothing DEF FindCity
<1> QED BY <1>7 DEF FindCity, Inv, TypeOK, CachedCityIsStored

LEMMA AskGoogleInv == ASSUME Inv, NEW r \in Requests, NEW a, AskGoogle(r, a) PROVE Inv'
<1> DEFINE pc == IF req[r].kind = "city" THEN "upsert" ELSE "store"
           k  == [req[r] EXCEPT !.pc = pc, !.result = a]
<1>0. /\ req[r].pc = "google" /\ req[r] \in ReqType /\ req[r].kind \in Kinds
      /\ Sane(req[r], failed, stored)
  BY KeyType DEF AskGoogle, Inv, TypeOK, RequestsSane
<1>1. a \in Answers /\ (a = "null" => KeyOf(req[r].kind) = "reverse")
  BY <1>0, AnswerTypes DEF AskGoogle
<1>2. /\ req' = [req EXCEPT ![r] = k] /\ pc \in {"upsert", "store"}
      /\ (pc = "store" => req[r].kind # "city")
  BY DEF AskGoogle, Inv, TypeOK
<1> HIDE DEF pc
<1>3. /\ k \in ReqType /\ k.locked = req[r].locked /\ k.pc = pc
      /\ k.kind = req[r].kind /\ k.replica = req[r].replica /\ k.result = a
  BY <1>0, <1>1, <1>2 DEF ReqType, Results
<1> HIDE DEF k
<1>4. Sane(k, failed', stored')
  BY <1>0, <1>1, <1>2, <1>3 DEF Sane
<1>5. KeyOf(k.kind) \notin late' => k.locked
  BY <1>0, <1>3 DEF Inv, LoadersLock, Loading, Key, AskGoogle
<1>6. req' \in [Requests -> ReqType] /\ RequestsSane' /\ LockHeld' /\ LoadersLock'
  BY <1>2, <1>3, <1>4, <1>5, OneRequest, GrowsByNothing DEF AskGoogle
<1> QED BY <1>6 DEF AskGoogle, Inv, TypeOK, CachedCityIsStored

LEMMA UpsertCityInv == ASSUME Inv, NEW r \in Requests, UpsertCity(r) PROVE Inv'
<1> DEFINE k == [req[r] EXCEPT !.pc = "store"]
<1>0. req[r].pc = "upsert" /\ req[r] \in ReqType /\ Sane(req[r], failed, stored)
  BY DEF UpsertCity, Inv, TypeOK, RequestsSane
<1>1. req' = [req EXCEPT ![r] = k] /\ stored' = TRUE /\ Grows
  BY DEF UpsertCity, Grows, Inv, TypeOK
<1>2. /\ k \in ReqType /\ k.locked = req[r].locked /\ k.pc = "store"
      /\ k.kind = req[r].kind /\ k.replica = req[r].replica /\ k.result = req[r].result
  BY <1>0 DEF ReqType
<1> HIDE DEF k
<1>3. Sane(k, failed', stored')
  BY <1>0, <1>1, <1>2 DEF Sane, UpsertCity
<1>4. KeyOf(k.kind) \notin late' => k.locked
  BY <1>0, <1>2 DEF Inv, LoadersLock, Loading, Key, UpsertCity
<1>5. req' \in [Requests -> ReqType] /\ RequestsSane' /\ LockHeld' /\ LoadersLock'
  BY <1>1, <1>2, <1>3, <1>4, OneRequest DEF UpsertCity
<1> QED BY <1>1, <1>5 DEF UpsertCity, Inv, TypeOK, CachedCityIsStored

LEMMA LoadEndsStep ==
  ASSUME Inv, NEW r \in Requests, req[r].pc \notin {"idle", "unlock"},
         NEW result \in {"value", "null", "error"}, LoadEnds(r, result), Grows,
         result = "null" => Key(r) = "reverse",
         result = "error" => Flight(r) \in failed',
         \/ lock' = lock
         \/ /\ ~req[r].locked /\ lock[Key(r)] = None
            /\ lock' = [lock EXCEPT ![Key(r)] = r]
  PROVE  /\ req' \in [Requests -> ReqType] /\ RequestsSane' /\ LockHeld' /\ LoadersLock'
         /\ inflight' \in [Replicas \X Keys -> Requests \cup {None}]
         /\ lock' \in [Keys -> Requests \cup {None}]
<1>0. req[r] \in ReqType /\ Sane(req[r], failed, stored)
  BY DEF Inv, TypeOK, RequestsSane
<1>1. CASE req[r].locked
  <2> DEFINE k == [req[r] EXCEPT !.pc = "unlock", !.result = result]
  <2>1. req' = [req EXCEPT ![r] = k] /\ inflight' = inflight
    BY <1>1 DEF LoadEnds, Inv, TypeOK
  <2>2. /\ k \in ReqType /\ k.locked /\ k.pc = "unlock" /\ k.kind = req[r].kind
        /\ k.replica = req[r].replica /\ k.result = result
    BY <1>0, <1>1 DEF ReqType, Results, Answers
  <2> HIDE DEF k
  <2>3. Sane(k, failed', stored')
    BY <1>0, <2>2 DEF Sane, Key, Flight
  <2>4. req' \in [Requests -> ReqType] /\ RequestsSane' /\ LockHeld' /\ LoadersLock'
    BY <1>1, <2>1, <2>2, <2>3, OneRequest
  <2> QED BY <2>1, <2>4 DEF Inv, TypeOK
<1>2. CASE ~req[r].locked
  BY <1>2, SettleStep DEF LoadEnds
<1> QED BY <1>1, <1>2

\* What the load puts in the cache.
LEMMA CacheAfterSetFacts ==
  ASSUME Inv, NEW r \in Requests, req[r].pc = "store"
  PROVE  /\ CacheAfterSet(r) \in [Keys -> Answers \cup {None}]
         /\ CacheAfterSet(r)["city"] = "value" => stored
<1>0. /\ Key(r) \in Keys /\ Sane(req[r], failed, stored)
      /\ (Key(r) = "city" <=> req[r].kind = "city")
  BY KeyType DEF Inv, RequestsSane
<1>1. req[r].result \in Answers /\ (req[r].kind = "city" => stored)
  BY <1>0 DEF Sane
<1>2. "city" \in Keys
  BY DEF Keys, AllKinds
<1>3. CacheAfterSet(r)["city"] = "value" => Key(r) = "city" \/ cache["city"] = "value"
  BY <1>0, <1>2 DEF CacheAfterSet, Inv, TypeOK
<1> QED BY <1>0, <1>1, <1>3 DEF CacheAfterSet, Inv, TypeOK, CachedCityIsStored

LEMMA FlightFailsInv == ASSUME Inv, NEW r \in Requests, FlightFails(r) PROVE Inv'
<1>0. /\ req[r].pc \notin {"idle", "unlock"} /\ Flight(r) \in Replicas \X Keys
      /\ Sane(req[r], failed, stored)
  BY KeyType DEF FlightFails, Inv, RequestsSane
<1>1. stored' \in BOOLEAN /\ (stored => stored')
  BY DEF FlightFails, Inv, TypeOK
<1>2. Grows /\ Flight(r) \in failed'
  BY <1>0, <1>1 DEF Grows, FlightFails, Inv, TypeOK
<1>3. \/ lock' = lock
      \/ /\ ~req[r].locked /\ lock[Key(r)] = None
         /\ lock' = [lock EXCEPT ![Key(r)] = r]
  BY <1>0 DEF FlightFails, Sane
<1>4. /\ req' \in [Requests -> ReqType] /\ RequestsSane' /\ LockHeld' /\ LoadersLock'
      /\ inflight' \in [Replicas \X Keys -> Requests \cup {None}]
      /\ lock' \in [Keys -> Requests \cup {None}]
  BY <1>0, <1>2, <1>3, LoadEndsStep DEF FlightFails
<1>5. cache' = cache \/ (req[r].pc = "store" /\ cache' = CacheAfterSet(r))
  BY DEF FlightFails
<1>6. cache' \in [Keys -> Answers \cup {None}] /\ CachedCityIsStored'
  BY <1>1, <1>5, CacheAfterSetFacts DEF CachedCityIsStored, Inv, TypeOK
<1> QED BY <1>2, <1>4, <1>6 DEF Grows, Inv, TypeOK

LEMMA CacheSetInv == ASSUME Inv, NEW r \in Requests, CacheSet(r) PROVE Inv'
<1>0. req[r].pc = "store" /\ Sane(req[r], failed, stored)
  BY DEF CacheSet, Inv, RequestsSane
<1>1. req[r].result \in Answers /\ (req[r].result = "null" => Key(r) = "reverse")
  BY <1>0 DEF Sane, Key
<1>2. Grows
  BY GrowsByNothing DEF CacheSet
<1>3. req[r].result \in {"value", "null", "error"} /\ req[r].result # "error"
  BY <1>1 DEF Answers
<1>4. /\ req' \in [Requests -> ReqType] /\ RequestsSane' /\ LockHeld' /\ LoadersLock'
      /\ inflight' \in [Replicas \X Keys -> Requests \cup {None}]
  BY <1>0, <1>1, <1>2, <1>3, LoadEndsStep DEF CacheSet
<1>5. cache' \in [Keys -> Answers \cup {None}] /\ CachedCityIsStored'
  BY <1>0, CacheAfterSetFacts DEF CacheSet, CachedCityIsStored
<1> QED BY <1>4, <1>5 DEF CacheSet, Inv, TypeOK

LEMMA DeleteLockInv == ASSUME Inv, NEW r \in Requests, DeleteLock(r) PROVE Inv'
<1>0. req[r].pc = "unlock" /\ Sane(req[r], failed, stored)
  BY DEF DeleteLock, Inv, RequestsSane
<1>1. /\ req[r].locked /\ req[r].result \in {"value", "null", "error"}
      /\ (req[r].result = "null" => Key(r) = "reverse")
      /\ (req[r].result = "error" => Flight(r) \in failed)
  BY <1>0 DEF Sane, Key, Flight
<1>2. Grows
  BY GrowsByNothing DEF DeleteLock
<1>3. /\ req' \in [Requests -> ReqType] /\ RequestsSane' /\ LockHeld' /\ LoadersLock'
      /\ inflight' \in [Replicas \X Keys -> Requests \cup {None}]
      /\ lock' \in [Keys -> Requests \cup {None}]
  BY <1>0, <1>1, <1>2, SettleStep DEF DeleteLock
<1> QED BY <1>3 DEF DeleteLock, Inv, TypeOK, CachedCityIsStored

LEMMA DeleteLockFailsInv == ASSUME Inv, NEW r \in Requests, DeleteLockFails(r) PROVE Inv'
<1>0. /\ req[r].pc = "unlock" /\ req[r].locked /\ Flight(r) \in Replicas \X Keys
  BY KeyType DEF DeleteLockFails, Inv, RequestsSane, Sane
<1>1. Grows /\ Flight(r) \in failed'
  BY <1>0 DEF Grows, DeleteLockFails, Inv, TypeOK
<1>2. lock' = lock \/ lock' = [lock EXCEPT ![Key(r)] = None]
  BY DEF DeleteLockFails
<1>3. /\ req' \in [Requests -> ReqType] /\ RequestsSane' /\ LockHeld' /\ LoadersLock'
      /\ inflight' \in [Replicas \X Keys -> Requests \cup {None}]
      /\ lock' \in [Keys -> Requests \cup {None}]
  BY <1>0, <1>1, <1>2, SettleStep DEF DeleteLockFails
<1> QED BY <1>1, <1>3 DEF DeleteLockFails, Grows, Inv, TypeOK, CachedCityIsStored

(***************************************************************************)
(* The lookup by coordinates after its flight.                              *)
(***************************************************************************)
LEMMA Reverse ==
  ASSUME Inv, NEW r \in Requests, req[r].pc \in {"again", "reset", "keep"}
  PROVE  /\ Key(r) = "reverse" /\ req[r].kind = "coordinates"
         /\ [cache EXCEPT ![Key(r)] = "value"] \in [Keys -> Answers \cup {None}]
         /\ [cache EXCEPT ![Key(r)] = "value"]["city"] = cache["city"]
<1>1. Key(r) = "reverse" /\ req[r].kind = "coordinates"
  BY DEF Inv, RequestsSane, Sane, Key, KeyOf
<1>2. "reverse" \in Keys /\ "city" \in Keys /\ "city" # "reverse"
  BY DEF Keys, AllKinds
<1> QED BY <1>1, <1>2 DEF Inv, TypeOK, Answers

LEMMA AskAgainInv == ASSUME Inv, NEW r \in Requests, NEW a, AskAgain(r, a) PROVE Inv'
<1> DEFINE k == IF a = "null" THEN Done(r, "null") ELSE [req[r] EXCEPT !.pc = "reset"]
<1>0. /\ req[r].pc = "again" /\ req[r] \in ReqType /\ Sane(req[r], failed, stored)
      /\ req' = [req EXCEPT ![r] = k] /\ Key(r) = "reverse"
  BY Reverse DEF AskAgain, Inv, TypeOK, RequestsSane
<1>1. /\ k \in ReqType /\ Sane(k, failed', stored') /\ ~k.locked
      /\ k.pc \in {"reset", "done"} /\ k.kind = req[r].kind
  <2>1. CASE a = "null"
    BY <1>0, <2>1, DoneSane DEF AskAgain
  <2>2. CASE a # "null"
    BY <1>0, <2>2 DEF ReqType, Sane, AskAgain
  <2> QED BY <2>1, <2>2
<1> HIDE DEF k
<1>2. req' \in [Requests -> ReqType] /\ RequestsSane' /\ LockHeld' /\ LoadersLock'
  BY <1>0, <1>1, OneRequest, GrowsByNothing DEF AskAgain
<1> QED BY <1>2 DEF AskAgain, Inv, TypeOK, CachedCityIsStored

LEMMA ResetCacheInv == ASSUME Inv, NEW r \in Requests, ResetCache(r) PROVE Inv'
<1> DEFINE k == [req[r] EXCEPT !.pc = "keep"]
<1>0. /\ req[r].pc = "reset" /\ req[r] \in ReqType /\ Sane(req[r], failed, stored)
      /\ req' = [req EXCEPT ![r] = k]
  BY DEF ResetCache, Inv, TypeOK, RequestsSane
<1>1. /\ k \in ReqType /\ Sane(k, failed', stored') /\ ~k.locked
      /\ k.pc = "keep" /\ k.kind = req[r].kind
  BY <1>0 DEF ReqType, Sane, ResetCache
<1> HIDE DEF k
<1>2. req' \in [Requests -> ReqType] /\ RequestsSane' /\ LockHeld' /\ LoadersLock'
  BY <1>0, <1>1, OneRequest, GrowsByNothing DEF ResetCache
<1> QED BY <1>0, <1>2, Reverse DEF ResetCache, Inv, TypeOK, CachedCityIsStored

LEMMA KeepCityInv == ASSUME Inv, NEW r \in Requests, KeepCity(r) PROVE Inv'
<1> DEFINE k == Done(r, "value")
<1>0. /\ req[r].pc = "keep" /\ req' = [req EXCEPT ![r] = k]
  BY DEF KeepCity
<1>1. Grows
  BY DEF KeepCity, Grows, Inv, TypeOK
<1>2. /\ k \in ReqType /\ Sane(k, failed', stored') /\ ~k.locked
      /\ k.pc = "done" /\ k.kind = req[r].kind
  BY <1>0, DoneSane DEF KeepCity
<1> HIDE DEF k
<1>3. req' \in [Requests -> ReqType] /\ RequestsSane' /\ LockHeld' /\ LoadersLock'
  BY <1>0, <1>1, <1>2, OneRequest DEF KeepCity
<1> QED BY <1>1, <1>3 DEF KeepCity, Grows, Inv, TypeOK, CachedCityIsStored

LEMMA RequestFailsInv == ASSUME Inv, NEW r \in Requests, RequestFails(r) PROVE Inv'
<1> DEFINE out  == IF req[r].kind = "cities" THEN "fallback" ELSE "error"
           done == Done(r, "error")
           k    == [done EXCEPT !.result = out, !.why = "fault"]
<1>0. /\ req[r].pc \in {"get", "again", "reset", "keep"} /\ req' = [req EXCEPT ![r] = k]
      /\ req[r] \in ReqType /\ req[r].replica \in Replicas /\ req[r].kind \in Kinds
  BY KeyType DEF RequestFails
<1>1. stored' \in BOOLEAN /\ (stored => stored') /\ Grows
  BY DEF RequestFails, Grows, Inv, TypeOK
<1>2. /\ done \in ReqType /\ done.pc = "done" /\ ~done.locked
      /\ done.kind = req[r].kind /\ done.replica = req[r].replica
  <2>1. Outcome(req[r].kind, "error") \in Results
    BY DEF Outcome, Results
  <2>2. done = [req[r] EXCEPT !.pc = "done", !.locked = FALSE,
                              !.result = Outcome(req[r].kind, "error"), !.why = None]
    BY DEF Done
  <2> HIDE DEF done
  <2> QED BY <1>0, <2>1, <2>2 DEF ReqType
<1>3. out \in {"error", "fallback"}
  OBVIOUS
<1> HIDE DEF out, done
<1>4. /\ k \in ReqType /\ k.pc = "done" /\ ~k.locked /\ k.kind = req[r].kind
      /\ k.replica = req[r].replica /\ k.why = "fault"
  BY <1>2, <1>3 DEF ReqType, Results
<1> HIDE DEF k
<1>5. Sane(k, failed', stored')
  BY <1>0, <1>4 DEF Sane
<1>6. req' \in [Requests -> ReqType] /\ RequestsSane' /\ LockHeld' /\ LoadersLock'
  BY <1>0, <1>1, <1>4, <1>5, OneRequest DEF RequestFails
<1>7. \/ cache' = cache
      \/ req[r].pc = "reset" /\ cache' = [cache EXCEPT ![Key(r)] = "value"]
  BY DEF RequestFails
<1>8. cache' \in [Keys -> Answers \cup {None}] /\ cache'["city"] = cache["city"]
  BY <1>7, Reverse DEF Inv, TypeOK
<1> QED BY <1>1, <1>6, <1>8 DEF RequestFails, Grows, Inv, TypeOK, CachedCityIsStored

(***************************************************************************)
(* Time and crashes.                                                        *)
(***************************************************************************)
LEMMA CacheExpiresInv == ASSUME Inv, NEW key \in Keys, CacheExpires(key) PROVE Inv'
<1>1. /\ RequestsSane' /\ LockHeld' /\ LoadersLock'
  BY DEF CacheExpires, Inv, RequestsSane, LockHeld, LoadersLock, Loading, Key
<1>2. /\ cache' \in [Keys -> Answers \cup {None}]
      /\ cache'["city"] = "value" => cache["city"] = "value"
  <2>1. "city" \in Keys
    BY DEF Keys, AllKinds
  <2> QED BY <2>1, ConstantsAssumption DEF CacheExpires, Inv, TypeOK
<1> QED BY <1>1, <1>2 DEF CacheExpires, Inv, TypeOK, CachedCityIsStored

LEMMA LockExpiresInv == ASSUME Inv, NEW key \in Keys, LockExpires(key) PROVE Inv'
<1>1. late \subseteq late' /\ late' \subseteq Keys
  BY DEF LockExpires, Inv, TypeOK
<1>2. /\ lock' \in [Keys -> Requests \cup {None}]
      /\ \A other \in Keys \ {key} : lock'[other] = lock[other]
  BY DEF LockExpires, Inv, TypeOK
<1>3. LockHeld'
  <2> SUFFICES ASSUME NEW r \in Requests, req[r].locked, Key(r) \notin late'
               PROVE  lock'[Key(r)] = r
    BY DEF LockHeld, Key, LockExpires
  <2>1. Key(r) \in Keys /\ lock[Key(r)] = r
    BY <1>1, KeyType DEF Inv, LockHeld, RequestsSane, Sane
  <2>2. Key(r) # key
    BY <2>1 DEF LockExpires
  <2> QED BY <1>2, <2>1, <2>2
<1>4. RequestsSane' /\ LoadersLock'
  BY <1>1 DEF LockExpires, Inv, RequestsSane, LoadersLock, Loading, Key
<1> QED BY <1>1, <1>2, <1>3, <1>4 DEF LockExpires, Inv, TypeOK, CachedCityIsStored

LEMMA ReplicaDiesInv == ASSUME Inv, NEW p \in Replicas, ReplicaDies(p) PROVE Inv'
<1> DEFINE Dead(r) == [req[r] EXCEPT !.pc = "done", !.locked = FALSE, !.result = "dead"]
           Dies(r) == req[r].replica = p /\ req[r].pc # "done"
<1>1. \A r \in Requests : req'[r] = IF Dies(r) THEN Dead(r) ELSE req[r]
  BY DEF ReplicaDies
<1>2. \A r \in Requests : req[r] \in ReqType /\ Sane(req[r], failed, stored)
  BY DEF Inv, TypeOK, RequestsSane
<1>3. ASSUME NEW r \in Requests, Dies(r)
      PROVE  /\ req'[r] \in ReqType /\ Sane(req'[r], failed, stored)
             /\ ~req'[r].locked /\ req'[r].pc = "done"
  <2>1. req'[r] = Dead(r) /\ req[r] \in ReqType /\ req[r].kind = req[r].kind
    BY <1>1, <1>2, <1>3
  <2>2. req[r].pc # "idle"
    <3>1. req[r].pc = "idle" => req[r].replica = None
      BY <1>2 DEF Sane
    <3> QED BY <1>3, <3>1, ConstantsAssumption
  <2>3. /\ Dead(r) \in ReqType /\ Dead(r).pc = "done" /\ ~Dead(r).locked
        /\ Dead(r).result = "dead" /\ Dead(r).kind = req[r].kind
        /\ Dead(r).replica = req[r].replica
    BY <2>1 DEF ReqType, Results
  <2> HIDE DEF Dead
  <2> QED BY <1>2, <2>1, <2>2, <2>3 DEF Sane
<1>4. \A r \in Requests : ~Dies(r) => req'[r] = req[r]
  BY <1>1
<1>5. req' \in [Requests -> ReqType]
  <2>1. req' = [r \in Requests |-> req'[r]]
    BY DEF ReplicaDies
  <2> QED BY <1>2, <1>3, <1>4, <2>1
<1> HIDE DEF Dies
<1>6. RequestsSane'
  BY <1>2, <1>3, <1>4 DEF RequestsSane, ReplicaDies
<1>7. /\ \A r \in Requests : req'[r].locked => req'[r] = req[r]
      /\ \A r \in Requests : req'[r].pc \in {"find", "google", "upsert", "store"} =>
           req'[r] = req[r]
      /\ lock' = lock /\ late' = late
  BY <1>3, <1>4 DEF ReplicaDies
<1>9. LockHeld'
  BY <1>7 DEF LockHeld, Inv, Key
<1>10. LoadersLock'
  BY <1>7 DEF LoadersLock, Inv, Key, Loading
<1>8. inflight' \in [Replicas \X Keys -> Requests \cup {None}]
  <2> DEFINE Left(f) == IF f[1] = p THEN None ELSE inflight[f]
  <2>1. \A f \in Replicas \X Keys : Left(f) \in Requests \cup {None}
    <3> TAKE f \in Replicas \X Keys
    <3>1. inflight[f] \in Requests \cup {None}
      BY DEF Inv, TypeOK
    <3> QED BY <3>1
  <2>2. inflight' = [f \in Replicas \X Keys |-> Left(f)]
    BY DEF ReplicaDies
  <2> HIDE DEF Left
  <2> QED BY <2>1, <2>2
<1> QED BY <1>5, <1>6, <1>8, <1>9, <1>10 DEF ReplicaDies, Inv, TypeOK, CachedCityIsStored

LEMMA NextInv == Inv /\ [Next]_vars => Inv'
<1> SUFFICES ASSUME Inv, [Next]_vars PROVE Inv'
  OBVIOUS
<1>1. ASSUME NEW r \in Requests, NEW p \in Replicas, NEW kind \in Kinds, Start(r, p, kind)
      PROVE  Inv'
  BY <1>1, StartInv
<1>2. ASSUME NEW r \in Requests, Step(r) PROVE Inv'
  BY <1>2, CacheGetInv, CacheGetNullInv, JoinOrLeadInv, AcquireLockInv, GiveUpLockInv,
     PollCacheInv, PollLockInv, FindCityInv, AskGoogleInv, UpsertCityInv, CacheSetInv,
     DeleteLockInv, AskAgainInv, ResetCacheInv, KeepCityInv, FlightFailsInv,
     DeleteLockFailsInv, RequestFailsInv DEF Step
<1>3. ASSUME NEW r \in Requests, WaitEnds(r) PROVE Inv'
  BY <1>3, WaitEndsInv
<1>4. ASSUME NEW key \in Keys, CacheExpires(key) \/ LockExpires(key) PROVE Inv'
  BY <1>4, CacheExpiresInv, LockExpiresInv
<1>5. ASSUME NEW p \in Replicas, ReplicaDies(p) PROVE Inv'
  BY <1>5, ReplicaDiesInv
<1>6. CASE UNCHANGED vars
  BY <1>6 DEF vars, Inv, TypeOK, RequestsSane, LockHeld, LoadersLock, Loading, Key,
     CachedCityIsStored
<1> QED BY <1>1, <1>2, <1>3, <1>4, <1>5, <1>6 DEF Next

LEMMA Invariance == Spec => []Inv
  BY InitInv, NextInv, PTL DEF Spec

(***************************************************************************)
(* The theorems.                                                            *)
(***************************************************************************)
\* Every variable keeps its type; in particular a request never waits for a
\* lock more often than it may (runWithOptionalRedis, attempt).
THEOREM TypeCorrect == Spec => []TypeOK
<1>1. Inv => TypeOK
  BY DEF Inv
<1> QED BY <1>1, Invariance, PTL

\* One request at a time, in all replicas together, loads a key, however many
\* requests, replicas, crashes and races there are, until the key is late.
THEOREM SingleFlight == Spec => []OneLoaderUnlessLate
<1>1. Inv => OneLoaderUnlessLate
  BY DEF Inv, LockHeld, LoadersLock, OneLoaderUnlessLate
<1> QED BY <1>1, Invariance, PTL

\* Whatever of Redis, the cache, the database and Google fails, a request fails only
\* with a flight of its own process or by itself, or is told that its spot has no
\* city: no waiter of another replica fails with its leader (runWithOptionalRedis).
THEOREM FailureIsLocal == Spec => []FailureStaysLocal
<1>1. Inv => FailureStaysLocal
  BY DEF Inv, RequestsSane, Sane, FailureStaysLocal, Flight, Key
<1> QED BY <1>1, Invariance, PTL

\* The cache never answers with a city that has no row.
THEOREM CachedCityHasRow == Spec => []CachedCityIsStored
<1>1. Inv => CachedCityIsStored
  BY DEF Inv
<1> QED BY <1>1, Invariance, PTL

(***************************************************************************)
(* NearbyPlaces: the request of the home screen among the writes of admins, *)
(* for any finite set of places, any requests and any sizes of the lists.   *)
(* NearbyPlaces shares no state with the lookups above: the answers that    *)
(* Google gives it, cached or not, are any.                                 *)
(***************************************************************************)
\* The order of Nat as a relation: any set of naturals has a least element.
Less == {ss \in Nat \X Nat : ss[1] < ss[2]}

LEMMA LessWellFounded == IsWellFoundedOn(Less, Nat)
BY NatLessThanWellFounded DEF OpToRel, Less

LEMMA Smallest ==
  ASSUME NEW S \in SUBSET Nat, S # {}
  PROVE  \E n \in S : \A m \in S : n <= m
<1>1. \E n \in S : \A m \in S : ~ (<<m, n>> \in Less)
  BY LessWellFounded, WFMin
<1>2. \A m, n \in S : <<m, n>> \notin Less => n <= m
  BY DEF Less
<1> QED BY <1>1, <1>2

LEMMA SameCardinality == ASSUME NEW S PROVE N!Cardinality(S) = Cardinality(S)
BY DEF N!Cardinality, Cardinality

-----------------------------------------------------------------------------
(* Sequences without repetition.                                            *)

Elements(s) == {s[i] : i \in DOMAIN s}

Distinct(s, S) == /\ s \in Seq(S)
                  /\ \A i, j \in DOMAIN s : s[i] = s[j] => i = j

\* u is the one and then the other.
Joins(u, s, t) == u = s \o t

Apart(s, t) == Elements(s) \cap Elements(t) = {}

Ascending(q, S) == /\ q \in N!SetToSeqs(S)
                   /\ \A i, j \in DOMAIN q : i < j => q[i] < q[j]

\* What SetToSeqs gives: each element of the set, once.
LEMMA Listing ==
  ASSUME NEW S, IsFiniteSet(S), NEW q \in N!SetToSeqs(S)
  PROVE  /\ Cardinality(S) \in Nat /\ q \in [1 .. Cardinality(S) -> S]
         /\ Distinct(q, S) /\ Elements(q) = S /\ Len(q) = Cardinality(S)
<1> DEFINE n == Cardinality(S)
<1>1. q \in [1 .. n -> S] /\ \A i, j \in 1 .. n : i # j => q[i] # q[j]
  BY SameCardinality DEF N!SetToSeqs
<1>2. n \in Nat
  BY FS_CardinalityType
<1>3. Cardinality(1 .. n) = n
  BY <1>2, FS_Interval
<1>4. q \in Injection(1 .. n, S)
  BY <1>1 DEF Injection, IsInjective
<1>5. q \in Surjection(1 .. n, S)
  BY <1>3, <1>4, FS_Injection
<1>6. Elements(q) = S
  BY <1>1, <1>5 DEF Surjection, Elements
<1>7. q \in Seq(S) /\ Len(q) = n
  <2> HIDE DEF n
  <2> QED BY <1>1, <1>2
<1> QED BY <1>1, <1>2, <1>6, <1>7 DEF Distinct

\* Any finite set of numbers can be put in order: the least element comes first,
\* then the others.
LEMMA OrderExists ==
  ASSUME NEW S \in SUBSET Nat, IsFiniteSet(S)
  PROVE  \E q : Ascending(q, S)
<1> DEFINE Unordered == {n \in Nat : \E T \in SUBSET Nat :
                           IsFiniteSet(T) /\ Cardinality(T) = n /\ ~\E q : Ascending(q, T)}
<1>1. ASSUME Unordered # {} PROVE FALSE
  <2>1. PICK n \in Unordered : \A m \in Unordered : n <= m
    BY <1>1, Smallest
  <2>2. PICK T \in SUBSET Nat :
          IsFiniteSet(T) /\ Cardinality(T) = n /\ ~\E q : Ascending(q, T)
    BY <2>1
  <2>3. T # {}
    <3> SUFFICES ASSUME T = {} PROVE FALSE
      OBVIOUS
    <3>1. Cardinality(T) = 0
      BY FS_EmptySet
    <3>2. <<>> \in [1 .. 0 -> T] /\ DOMAIN <<>> = {}
      OBVIOUS
    <3>3. Ascending(<<>>, T)
      BY <3>1, <3>2, SameCardinality DEF Ascending, N!SetToSeqs
    <3> QED BY <2>2, <3>3
  <2>4. PICK a \in T : \A m \in T : a <= m
    BY <2>2, <2>3, Smallest
  <2> DEFINE R == T \ {a}
  <2>5. IsFiniteSet(R) /\ Cardinality(R) = n - 1 /\ R \in SUBSET Nat
    BY <2>2, <2>4, FS_RemoveElement
  <2>6. Cardinality(R) \in Nat
    BY <2>5, FS_CardinalityType
  <2>7. n - 1 \notin Unordered /\ n \in Nat /\ n - 1 \in Nat
    BY <2>1, <2>5, <2>6
  <2>8. PICK q : Ascending(q, R)
    BY <2>5, <2>7
  <2>9. /\ q \in [1 .. n - 1 -> R] /\ \A i, j \in 1 .. n - 1 : i # j => q[i] # q[j]
        /\ \A i, j \in 1 .. n - 1 : i < j => q[i] < q[j]
    BY <2>5, <2>8, SameCardinality DEF Ascending, N!SetToSeqs
  <2> DEFINE r == [i \in 1 .. n |-> IF i = 1 THEN a ELSE q[i - 1]]
  <2>10. \A i \in 1 .. n : i # 1 => i - 1 \in 1 .. n - 1 /\ q[i - 1] \in R
    BY <2>7, <2>9
  <2>11. r \in [1 .. n -> T]
    BY <2>4, <2>10
  <2>12. ASSUME NEW i \in 1 .. n, NEW j \in 1 .. n, i < j
         PROVE  r[i] < r[j]
    <3>1. j # 1 /\ r[j] = q[j - 1] /\ j - 1 \in 1 .. n - 1 /\ q[j - 1] \in R
      BY <2>10, <2>12
    <3>2. CASE i = 1
      <4>1. a \in Nat /\ q[j - 1] \in Nat /\ a <= q[j - 1] /\ q[j - 1] # a
        BY <2>2, <2>4, <3>1
      <4>2. r[i] = a
        BY <2>12, <3>2
      <4> QED BY <3>1, <4>1, <4>2
    <3>3. CASE i # 1
      <4>1. r[i] = q[i - 1] /\ i - 1 \in 1 .. n - 1 /\ i - 1 < j - 1
        BY <2>10, <2>12, <3>3
      <4> QED BY <2>9, <3>1, <4>1
    <3> QED BY <3>2, <3>3
  <2>13. \A i, j \in 1 .. n : i # j => r[i] # r[j]
    <3> SUFFICES ASSUME NEW i \in 1 .. n, NEW j \in 1 .. n, i # j PROVE r[i] # r[j]
      OBVIOUS
    <3>1. i < j \/ j < i
      BY <2>7
    <3>2. r[i] \in Nat /\ r[j] \in Nat
      BY <2>2, <2>11
    <3> HIDE DEF r
    <3> QED BY <2>12, <3>1, <3>2
  <2>14. DOMAIN r = 1 .. n
    OBVIOUS
  <2> HIDE DEF r
  <2>15. Ascending(r, T)
    BY <2>2, <2>11, <2>12, <2>13, <2>14, SameCardinality DEF Ascending, N!SetToSeqs
  <2> QED BY <2>2, <2>15
<1> QED
  <2>1. Cardinality(S) \in Nat
    BY FS_CardinalityType
  <2> QED BY <1>1, <2>1

LEMMA InOrderFacts ==
  ASSUME NEW S \in SUBSET Nat, IsFiniteSet(S)
  PROVE  Distinct(N!InOrder(S), S) /\ Elements(N!InOrder(S)) = S /\ Len(N!InOrder(S)) = Cardinality(S)
<1>1. \E q \in N!SetToSeqs(S) : \A i, j \in DOMAIN q : i < j => q[i] < q[j]
  BY OrderExists DEF Ascending
<1>2. N!InOrder(S) \in N!SetToSeqs(S)
  BY <1>1 DEF N!InOrder
<1> QED BY <1>2, Listing

LEMMA KeepFacts ==
  ASSUME NEW T, NEW s, Distinct(s, T), NEW I \in SUBSET DOMAIN s
  PROVE  /\ Distinct(N!Keep(s, I), T) /\ Len(N!Keep(s, I)) <= Len(s)
         /\ Elements(N!Keep(s, I)) = {s[i] : i \in I}
<1>1. Len(s) \in Nat /\ DOMAIN s = 1 .. Len(s) /\ \A i \in DOMAIN s : s[i] \in T
  BY DEF Distinct
<1>2. IsFiniteSet(1 .. Len(s)) /\ Cardinality(1 .. Len(s)) = Len(s)
  <2>1. 1 \in Int /\ Len(s) \in Int
    BY <1>1
  <2>2. Cardinality(1 .. Len(s)) = IF 1 > Len(s) THEN 0 ELSE Len(s) - 1 + 1
    BY <2>1, FS_Interval
  <2> QED BY <1>1, <2>1, <2>2, FS_Interval
<1>3. IsFiniteSet(I) /\ Cardinality(I) <= Len(s) /\ Cardinality(I) \in Nat /\ I \in SUBSET Nat
  BY <1>1, <1>2, FS_Subset, FS_CardinalityType
<1> DEFINE n == Cardinality(I)
           at == N!InOrder(I)
<1>4. Distinct(at, I) /\ Elements(at) = I /\ Len(at) = n
  BY <1>3, InOrderFacts
<1> HIDE DEF at
<1>5. DOMAIN at = 1 .. n /\ (\A i \in 1 .. n : at[i] \in I)
      /\ \A i, j \in 1 .. n : at[i] = at[j] => i = j
  <2>1. at \in Seq(I) /\ Len(at) = n
    BY <1>4 DEF Distinct
  <2>2. DOMAIN at = 1 .. n /\ \A i \in 1 .. n : at[i] \in I
    <3> HIDE DEF n
    <3> QED BY <2>1, LenProperties
  <2> QED BY <1>4, <2>2 DEF Distinct
<1>6. N!Keep(s, I) = [i \in 1 .. n |-> s[at[i]]]
  BY SameCardinality DEF N!Keep, at
<1>7. Elements(N!Keep(s, I)) = {s[i] : i \in I}
  BY <1>4, <1>5, <1>6 DEF Elements
<1>8. N!Keep(s, I) \in Seq(T) /\ Len(N!Keep(s, I)) = n
  <2>1. \A i \in 1 .. n : s[at[i]] \in T
    BY <1>1, <1>5
  <2> HIDE DEF n
  <2> QED BY <1>3, <1>6, <2>1 DEF n
<1>9. \A i, j \in 1 .. n : s[at[i]] = s[at[j]] => i = j
  BY <1>1, <1>5 DEF Distinct
<1>10. Distinct(N!Keep(s, I), T)
  <2>1. DOMAIN N!Keep(s, I) = 1 .. n /\ \A i \in 1 .. n : N!Keep(s, I)[i] = s[at[i]]
    BY <1>6
  <2> QED BY <1>8, <1>9, <2>1 DEF Distinct
<1> QED BY <1>3, <1>7, <1>8, <1>10

LEMMA WithoutFacts ==
  ASSUME NEW T, NEW s, Distinct(s, T), NEW S
  PROVE  Distinct(N!Without(s, S), T) /\ Elements(N!Without(s, S)) = Elements(s) \ S
<1> DEFINE I == {i \in DOMAIN s : s[i] \notin S}
<1>1. N!Without(s, S) = N!Keep(s, I) /\ I \in SUBSET DOMAIN s
  BY DEF N!Without
<1>2. {s[i] : i \in I} = Elements(s) \ S
  BY DEF Elements
<1> HIDE DEF I
<1> QED BY <1>1, <1>2, KeepFacts

LEMMA TakeFacts ==
  ASSUME NEW T, NEW s, Distinct(s, T), NEW n \in Nat
  PROVE  /\ Distinct(N!Take(s, n), T)
         /\ Len(N!Take(s, n)) = IF n < Len(s) THEN n ELSE Len(s)
         /\ \A i \in DOMAIN N!Take(s, n) : i \in DOMAIN s /\ N!Take(s, n)[i] = s[i]
         /\ Elements(N!Take(s, n)) \subseteq Elements(s)
<1> DEFINE m == IF n < Len(s) THEN n ELSE Len(s)
           t == N!Take(s, n)
<1>1. Len(s) \in Nat /\ DOMAIN s = 1 .. Len(s) /\ \A i \in DOMAIN s : s[i] \in T
  BY DEF Distinct
<1>2. m \in Nat /\ m <= Len(s)
  BY <1>1
<1>3. t = SubSeq(s, 1, m)
  BY DEF N!Take
<1> HIDE DEF t
<1>4. /\ t \in Seq(T) /\ Len(t) = IF 1 <= m THEN m - 1 + 1 ELSE 0
      /\ \A i \in 1 .. m - 1 + 1 : t[i] = s[1 + i - 1]
  <2>1. \A i \in 1 .. m : s[i] \in T
    BY <1>1, <1>2
  <2>2. 1 \in Int /\ m \in Int
    BY <1>2
  <2> HIDE DEF m
  <2> QED BY <1>3, <2>1, <2>2, SubSeqProperties
<1>5. Len(t) = m /\ DOMAIN t = 1 .. m /\ \A i \in 1 .. m : t[i] = s[i]
  <2> HIDE DEF m
  <2>1. m - 1 + 1 = m /\ \A i \in 1 .. m : 1 + i - 1 = i
    BY <1>2
  <2>2. Len(t) = m
    BY <1>2, <1>4
  <2> QED BY <1>4, <2>1, <2>2
<1>6. \A i \in DOMAIN t : i \in DOMAIN s /\ t[i] = s[i]
  BY <1>1, <1>2, <1>5
<1>7. Distinct(t, T)
  BY <1>4, <1>6 DEF Distinct
<1>8. Elements(t) \subseteq Elements(s)
  BY <1>6 DEF Elements
<1> QED BY <1>5, <1>6, <1>7, <1>8 DEF t

LEMMA ConcatPrefix ==
  ASSUME NEW T, NEW s, NEW t, Distinct(s, T), Distinct(t, T), NEW u, Joins(u, s, t)
  PROVE  /\ Len(u) = Len(s) + Len(t)
         /\ \A i \in DOMAIN s : i \in DOMAIN u /\ u[i] = s[i]
<1>1. s \in Seq(T) /\ t \in Seq(T)
  BY DEF Distinct
<1>2. /\ u \in Seq(T) /\ Len(u) = Len(s) + Len(t)
      /\ \A i \in 1 .. Len(s) + Len(t) :
           u[i] = IF i <= Len(s) THEN s[i] ELSE t[i - Len(s)]
  BY <1>1, ConcatProperties DEF Joins
<1>3. /\ Len(s) \in Nat /\ Len(t) \in Nat /\ DOMAIN s = 1 .. Len(s)
      /\ DOMAIN u = 1 .. Len(s) + Len(t)
  BY <1>1, <1>2
<1>4. \A i \in DOMAIN s : i \in DOMAIN u /\ u[i] = s[i]
  BY <1>2, <1>3
<1> QED BY <1>2, <1>4

LEMMA ConcatElements ==
  ASSUME NEW T, NEW s, NEW t, Distinct(s, T), Distinct(t, T), Apart(s, t),
         NEW u, Joins(u, s, t)
  PROVE  Distinct(u, T) /\ Elements(u) = Elements(s) \cup Elements(t)
<1>1. s \in Seq(T) /\ t \in Seq(T)
  BY DEF Distinct
<1>2. /\ u \in Seq(T) /\ Len(u) = Len(s) + Len(t)
      /\ \A i \in 1 .. Len(s) + Len(t) :
           u[i] = IF i <= Len(s) THEN s[i] ELSE t[i - Len(s)]
  BY <1>1, ConcatProperties DEF Joins
<1>3. /\ Len(s) \in Nat /\ Len(t) \in Nat /\ DOMAIN s = 1 .. Len(s) /\ DOMAIN t = 1 .. Len(t)
      /\ DOMAIN u = 1 .. Len(s) + Len(t)
  BY <1>1, <1>2
<1>4. \A i \in DOMAIN s : i \in DOMAIN u /\ u[i] = s[i]
  BY <1>2, <1>3
<1>5. \A i \in DOMAIN t : i + Len(s) \in DOMAIN u /\ u[i + Len(s)] = t[i]
  BY <1>2, <1>3
<1>6. \A i \in DOMAIN u : \/ i \in DOMAIN s /\ u[i] = s[i]
                          \/ i - Len(s) \in DOMAIN t /\ u[i] = t[i - Len(s)] /\ i \notin DOMAIN s
  BY <1>2, <1>3
<1>7. Elements(u) = Elements(s) \cup Elements(t)
  BY <1>4, <1>5, <1>6 DEF Elements
<1>8. ASSUME NEW i \in DOMAIN u, NEW j \in DOMAIN u, u[i] = u[j] PROVE i = j
  <2>1. CASE i \in DOMAIN s /\ j \in DOMAIN s
    BY <1>4, <1>8, <2>1 DEF Distinct
  <2>2. CASE i \notin DOMAIN s /\ j \notin DOMAIN s
    <3>1. i - Len(s) = j - Len(s)
      BY <1>6, <1>8, <2>2 DEF Distinct
    <3> QED BY <1>3, <3>1
  <2>3. CASE (i \in DOMAIN s) # (j \in DOMAIN s)
    BY <1>6, <1>8, <2>3 DEF Elements, Apart
  <2> QED BY <2>1, <2>2, <2>3
<1> QED BY <1>2, <1>7, <1>8 DEF Distinct

LEMMA Longer == ASSUME NEW S, NEW T, S \subseteq T, NEW s, Distinct(s, S) PROVE Distinct(s, T)
<1>1. s \in Seq(S)
  BY DEF Distinct
<1>2. Len(s) \in Nat /\ s \in [1 .. Len(s) -> S]
  BY <1>1
<1>3. s \in [1 .. Len(s) -> T]
  BY <1>2
<1>4. s \in Seq(T)
  BY <1>2, <1>3
<1> QED BY <1>4 DEF Distinct

\* What is put in front comes first: all of it is in a list that it does not
\* fill, and nothing else is in a list that it does.
LEMMA FirstTaken ==
  ASSUME NEW T, NEW f, NEW r, Distinct(f, T), Distinct(r, T), Apart(f, r),
         NEW n \in Nat
  PROVE  /\ Distinct(N!Take(f \o r, n), T) /\ Len(N!Take(f \o r, n)) <= n
         /\ Elements(N!Take(f \o r, n)) \subseteq Elements(f) \cup Elements(r)
         /\ Len(f) <= n => Elements(f) \subseteq Elements(N!Take(f \o r, n))
         /\ Len(f) >= n => Elements(N!Take(f \o r, n)) \subseteq Elements(f)
<1> DEFINE u == f \o r
           t == N!Take(u, n)
<1>0. Joins(u, f, r)
  BY DEF Joins
<1> HIDE DEF u
<1>1. /\ Distinct(u, T) /\ Elements(u) = Elements(f) \cup Elements(r)
      /\ Len(u) = Len(f) + Len(r)
      /\ \A i \in DOMAIN f : i \in DOMAIN u /\ u[i] = f[i]
  <2>1. Distinct(u, T) /\ Elements(u) = Elements(f) \cup Elements(r)
    BY <1>0, ConcatElements
  <2> QED BY <1>0, <2>1, ConcatPrefix
<1>2. /\ Distinct(t, T) /\ Elements(t) \subseteq Elements(u)
      /\ Len(t) = IF n < Len(u) THEN n ELSE Len(u)
      /\ \A i \in DOMAIN t : i \in DOMAIN u /\ t[i] = u[i]
  BY <1>1, TakeFacts
<1> HIDE DEF t
<1>3. /\ Len(f) \in Nat /\ DOMAIN f = 1 .. Len(f) /\ Len(r) \in Nat /\ Len(u) \in Nat
      /\ Len(t) \in Nat /\ DOMAIN t = 1 .. Len(t)
  BY <1>1, <1>2 DEF Distinct
<1>4. Len(t) <= n
  BY <1>2, <1>3
<1>5. Len(f) <= n => Elements(f) \subseteq Elements(t)
  <2> SUFFICES ASSUME Len(f) <= n, NEW i \in DOMAIN f PROVE f[i] \in Elements(t)
    BY DEF Elements
  <2>1. i \in DOMAIN t
    BY <1>1, <1>2, <1>3
  <2>2. t[i] = f[i]
    BY <1>1, <1>2, <2>1
  <2> QED BY <2>1, <2>2 DEF Elements
<1>6. Len(f) >= n => Elements(t) \subseteq Elements(f)
  <2> SUFFICES ASSUME Len(f) >= n, NEW i \in DOMAIN t PROVE t[i] \in Elements(f)
    BY DEF Elements
  <2>1. i \in DOMAIN f
    BY <1>3, <1>4
  <2>2. t[i] = f[i]
    BY <1>1, <1>2, <2>1
  <2> QED BY <2>1, <2>2 DEF Elements
<1> QED BY <1>1, <1>2, <1>4, <1>5, <1>6 DEF t, u

-----------------------------------------------------------------------------
(* The ranking.                                                             *)

Variants == {"home_city", "home_open_now", "onboarding_past", "home_network", "home_friends_liked"}

\* Finitely many places and requests for a number of them.
NearbyParameters ==
  /\ Places \subseteq Nat /\ IsFiniteSet(Places)
  /\ Asked \subseteq [variant : Variants, query : BOOLEAN, inCity : BOOLEAN, limit : Nat]
  /\ MaxPicks \in Nat

LEMMA PlacesInOrder ==
  ASSUME NearbyParameters, NEW S \in SUBSET Places
  PROVE  Distinct(N!InOrder(S), Places) /\ Elements(N!InOrder(S)) = S
<1>1. S \in SUBSET Nat /\ IsFiniteSet(S)
  BY FS_Subset DEF NearbyParameters
<1> QED BY <1>1, InOrderFacts, Longer

LEMMA ToSetIs == ASSUME NEW s PROVE N!ToSet(s) = Elements(s)
BY DEF N!ToSet, Elements

LEMMA PinnedFacts ==
  ASSUME NearbyParameters, NEW k, NEW work \in SUBSET Places, NEW picks \in SUBSET Places
  PROVE  /\ Distinct(N!Pinned(k, work, picks), Places)
         /\ Elements(N!Pinned(k, work, picks)) \subseteq picks \cup work
<1> DEFINE boosted == (work \cap N!With(k.rows, "boost")) \ picks
           first == N!InOrder(picks)
           then == N!InOrder(boosted)
<1>1. /\ Distinct(first, Places) /\ Elements(first) = picks
      /\ Distinct(then, Places) /\ Elements(then) = boosted
  BY PlacesInOrder
<1>2. N!Pinned(k, work, picks) = N!Take(first \o then, MaxPicks)
  BY DEF N!Pinned
<1>3. MaxPicks \in Nat
  BY DEF NearbyParameters
<1> HIDE DEF first, then
<1>4. Apart(first, then)
  BY <1>1 DEF Apart
<1> QED BY <1>1, <1>2, <1>3, <1>4, FirstTaken

LEMMA WithPicksFacts ==
  ASSUME NEW ordered, NEW pinned, Distinct(ordered, Places), Distinct(pinned, Places),
         NEW limit \in Nat
  PROVE  /\ Distinct(N!WithPicks(ordered, pinned, limit), Places)
         /\ Len(N!WithPicks(ordered, pinned, limit)) <= limit
         /\ Elements(N!WithPicks(ordered, pinned, limit)) \subseteq
              Elements(ordered) \cup Elements(pinned)
<1> DEFINE others == N!Without(ordered, Elements(pinned))
<1>1. Distinct(others, Places) /\ Elements(others) = Elements(ordered) \ Elements(pinned)
  BY WithoutFacts
<1>2. N!WithPicks(ordered, pinned, limit) = N!Take(pinned \o others, limit)
  BY ToSetIs DEF N!WithPicks
<1> HIDE DEF others
<1>3. Apart(pinned, others)
  BY <1>1 DEF Apart
<1> QED BY <1>1, <1>2, <1>3, FirstTaken

LEMMA SlotCapFacts ==
  ASSUME NEW ordered, Distinct(ordered, Places), NEW rows
  PROVE  /\ Distinct(N!SlotCap(ordered, rows), Places)
         /\ Len(N!SlotCap(ordered, rows)) <= Len(ordered)
         /\ Elements(N!SlotCap(ordered, rows)) \subseteq Elements(ordered)
<1>1. PICK I \in SUBSET DOMAIN ordered : N!SlotCap(ordered, rows) = N!Keep(ordered, I)
  BY DEF N!SlotCap
<1>2. {ordered[i] : i \in I} \subseteq Elements(ordered)
  BY DEF Elements
<1> QED BY <1>1, <1>2, KeepFacts

LEMMA RankedFacts ==
  ASSUME NearbyParameters, NEW k, k.limit \in Nat, NEW work \in SUBSET Places,
         NEW picks \in SUBSET Places, NEW ordered, Distinct(ordered, Places),
         Len(ordered) <= k.limit
  PROVE  /\ Distinct(N!Ranked(k, work, ordered, picks), Places)
         /\ Len(N!Ranked(k, work, ordered, picks)) <= k.limit
         /\ Elements(N!Ranked(k, work, ordered, picks)) \subseteq
              Elements(ordered) \cup work \cup picks
<1> DEFINE pinned == N!Pinned(k, work, picks)
           limit == k.limit
           with == N!WithPicks(ordered, pinned, limit)
<1>1. Distinct(pinned, Places) /\ Elements(pinned) \subseteq picks \cup work
  BY PinnedFacts
<1>2. /\ Distinct(with, Places) /\ Len(with) <= limit
      /\ Elements(with) \subseteq Elements(ordered) \cup Elements(pinned)
  BY <1>1, WithPicksFacts
<1>3. \/ N!Ranked(k, work, ordered, picks) = N!SlotCap(with, k.rows)
      \/ N!Ranked(k, work, ordered, picks) = N!SlotCap(ordered, k.rows)
      \/ N!Ranked(k, work, ordered, picks) = ordered
  BY DEF N!Ranked
<1> HIDE DEF pinned, with
<1>4. /\ Distinct(N!SlotCap(with, k.rows), Places) /\ Len(N!SlotCap(with, k.rows)) <= Len(with)
      /\ Elements(N!SlotCap(with, k.rows)) \subseteq Elements(with)
  BY <1>2, SlotCapFacts
<1>5. /\ Distinct(N!SlotCap(ordered, k.rows), Places) /\ Len(N!SlotCap(ordered, k.rows)) <= Len(ordered)
      /\ Elements(N!SlotCap(ordered, k.rows)) \subseteq Elements(ordered)
  BY SlotCapFacts
<1>6. /\ Len(with) \in Nat /\ Len(ordered) \in Nat
      /\ Len(N!SlotCap(with, k.rows)) \in Nat /\ Len(N!SlotCap(ordered, k.rows)) \in Nat
  BY <1>2, <1>4, <1>5 DEF Distinct
<1>7. Len(N!SlotCap(with, k.rows)) <= limit /\ Len(N!SlotCap(ordered, k.rows)) <= limit
  BY <1>2, <1>4, <1>5, <1>6
<1>8. /\ Elements(N!SlotCap(with, k.rows)) \subseteq Elements(ordered) \cup work \cup picks
      /\ Elements(N!SlotCap(ordered, k.rows)) \subseteq Elements(ordered) \cup work \cup picks
      /\ Elements(ordered) \subseteq Elements(ordered) \cup work \cup picks
  BY <1>1, <1>2, <1>4, <1>5
<1> QED BY <1>3, <1>4, <1>5, <1>7, <1>8

\* prependAdminCuratedPlaces: all promoted places are in front, or only such.
LEMMA PrependFacts ==
  ASSUME NearbyParameters, NEW rows \in [Places -> N!Curations], NEW limit \in Nat,
         NEW ranked, Distinct(ranked, Places)
  PROVE  /\ Distinct(N!PrependAdmin(rows, ranked, limit), Places)
         /\ Len(N!PrependAdmin(rows, ranked, limit)) <= limit
         /\ Elements(N!PrependAdmin(rows, ranked, limit)) \subseteq
              N!PromotedIn(rows) \cup Elements(ranked)
         /\ \/ N!PromotedIn(rows) \subseteq Elements(N!PrependAdmin(rows, ranked, limit))
            \/ Elements(N!PrependAdmin(rows, ranked, limit)) \subseteq N!PromotedIn(rows)
<1> DEFINE picks == N!InOrder(N!With(rows, "pick"))
           boosts == N!InOrder(N!With(rows, "boost"))
           badges == N!InOrder(N!With(rows, "badge"))
           first == picks \o boosts
           all == first \o badges
           forced == N!Take(all, limit)
           others == N!Without(ranked, Elements(forced))
           shown == N!Take(forced \o others, limit)
<1>1. /\ Distinct(picks, Places) /\ Elements(picks) = N!With(rows, "pick")
      /\ Distinct(boosts, Places) /\ Elements(boosts) = N!With(rows, "boost")
      /\ Distinct(badges, Places) /\ Elements(badges) = N!With(rows, "badge")
  <2>1. /\ N!With(rows, "pick") \in SUBSET Places /\ N!With(rows, "boost") \in SUBSET Places
        /\ N!With(rows, "badge") \in SUBSET Places
    BY DEF N!With
  <2> QED BY <2>1, PlacesInOrder
<1>2. N!PrependAdmin(rows, ranked, limit) = shown
  BY ToSetIs DEF N!PrependAdmin
<1>3. /\ N!With(rows, "pick") \cap N!With(rows, "boost") = {}
      /\ (N!With(rows, "pick") \cup N!With(rows, "boost")) \cap N!With(rows, "badge") = {}
      /\ N!With(rows, "pick") \cup N!With(rows, "boost") \cup N!With(rows, "badge") = N!PromotedIn(rows)
  BY DEF N!With, N!PromotedIn, N!Promoting
<1> HIDE DEF picks, boosts, badges
<1>0. Joins(first, picks, boosts) /\ Joins(all, first, badges)
  BY DEF Joins
<1> HIDE DEF first, all
<1>4. /\ Distinct(first, Places)
      /\ Elements(first) = N!With(rows, "pick") \cup N!With(rows, "boost")
  <2>1. Apart(picks, boosts)
    BY <1>1, <1>3 DEF Apart
  <2>2. Distinct(picks, Places) /\ Distinct(boosts, Places)
    BY <1>1
  <2>3. Distinct(first, Places) /\ Elements(first) = Elements(picks) \cup Elements(boosts)
    BY <2>1, <2>2, <1>0, ConcatElements
  <2> QED BY <1>1, <2>3
<1>5. Distinct(all, Places) /\ Elements(all) = N!PromotedIn(rows)
  <2>1. Apart(first, badges)
    BY <1>1, <1>3, <1>4 DEF Apart
  <2>2. Distinct(all, Places) /\ Elements(all) = Elements(first) \cup Elements(badges)
    BY <1>1, <1>4, <2>1, <1>0, ConcatElements
  <2> QED BY <1>1, <1>3, <1>4, <2>2
<1>6. /\ Distinct(forced, Places) /\ Elements(forced) \subseteq N!PromotedIn(rows)
      /\ Len(forced) = IF limit < Len(all) THEN limit ELSE Len(all)
      /\ \A i \in DOMAIN forced : i \in DOMAIN all /\ forced[i] = all[i]
  BY <1>5, TakeFacts
<1> HIDE DEF forced
<1>7. /\ Len(all) \in Nat /\ DOMAIN all = 1 .. Len(all)
      /\ Len(forced) \in Nat /\ DOMAIN forced = 1 .. Len(forced)
  BY <1>5, <1>6 DEF Distinct
<1>8. Len(all) <= limit => Elements(forced) = N!PromotedIn(rows)
  <2> SUFFICES ASSUME Len(all) <= limit PROVE Elements(forced) = N!PromotedIn(rows)
    OBVIOUS
  <2>1. DOMAIN forced = DOMAIN all
    <3>1. ~(limit < Len(all))
      BY <1>7
    <3>2. Len(forced) = Len(all)
      BY <1>6, <3>1
    <3> QED BY <1>7, <3>2
  <2>2. Elements(forced) = Elements(all)
    BY <1>6, <2>1 DEF Elements
  <2> QED BY <1>5, <2>2
<1>9. Distinct(others, Places) /\ Elements(others) = Elements(ranked) \ Elements(forced)
  BY WithoutFacts
<1> HIDE DEF others
<1>10. /\ Distinct(shown, Places) /\ Len(shown) <= limit
       /\ Elements(shown) \subseteq Elements(forced) \cup Elements(others)
       /\ Len(forced) <= limit => Elements(forced) \subseteq Elements(shown)
       /\ Len(forced) >= limit => Elements(shown) \subseteq Elements(forced)
  <2>1. Apart(forced, others)
    BY <1>9 DEF Apart
  <2> QED BY <1>6, <1>9, <2>1, FirstTaken
<1> HIDE DEF shown
<1>11. Elements(shown) \subseteq N!PromotedIn(rows) \cup Elements(ranked)
  BY <1>6, <1>9, <1>10
<1>12. CASE Len(all) <= limit
  <2>1. Len(forced) <= limit
    BY <1>6, <1>7, <1>12
  <2> QED BY <1>2, <1>8, <1>10, <1>11, <1>12, <2>1
<1>13. CASE ~(Len(all) <= limit)
  <2>1. Len(forced) >= limit
    BY <1>6, <1>7, <1>13
  <2> QED BY <1>2, <1>6, <1>10, <1>11, <2>1
<1> QED BY <1>12, <1>13

-----------------------------------------------------------------------------
(* The request among the writes of admins.                                  *)

RequestStates == {"idle", "pool", "hidden", "stored", "curations", "rank", "done"}

HomeRequests ==
  [pc : RequestStates, variant : Variants, query : BOOLEAN, inCity : BOOLEAN, limit : Nat,
   pool : SUBSET Places, hid : SUBSET Places, candidates : SUBSET Places,
   visible : SUBSET Places, rows : [Places -> N!Curations], shown : Seq(Places),
   hiddenAll : SUBSET Places, promotedAll : SUBSET Places, promotedAny : SUBSET Places]

NearbyTypeOK ==
  /\ hidden \in SUBSET Places
  /\ curation \in [Places -> N!Curations]
  /\ admin = <<>> \/ admin \in Places \X {"plain", "off"}
  /\ home \in HomeRequests

\* What is promoted and visible now.
Now == N!PromotedIn(N!ActiveRows(hidden, curation))

\* The histories agree with what admins see now.
HistorySound ==
  /\ home.hiddenAll \subseteq hidden
  /\ home.promotedAll \subseteq Now
  /\ home.pc # "idle" => Now \subseteq home.promotedAny

\* From the first filter on nothing that was hidden all along is a candidate.
CandidatesSound ==
  home.pc \in {"stored", "curations", "rank"} =>
    home.hiddenAll \subseteq home.hid /\ home.candidates \cap home.hiddenAll = {}

\* The curations that the ranking uses are those of a moment of the request.
RowsSound ==
  home.pc = "rank" =>
    /\ home.visible \cap home.hiddenAll = {}
    /\ N!CuratedIn(home.rows) \cap home.hiddenAll = {}
    /\ home.inCity => /\ home.promotedAll \subseteq N!PromotedIn(home.rows)
                      /\ N!PromotedIn(home.rows) \subseteq home.promotedAny

AnswerSound ==
  /\ home.pc # "done" => home.shown = <<>>
  /\ Distinct(home.shown, Places) /\ Len(home.shown) <= home.limit
  /\ Elements(home.shown) \cap home.hiddenAll = {}

NearbyInv ==
  NearbyTypeOK /\ HistorySound /\ CandidatesSound /\ RowsSound /\ AnswerSound /\ N!PromotedComesFirst

LEMMA ActiveFacts ==
  ASSUME NEW hid, NEW cur \in [Places -> N!Curations]
  PROVE  /\ N!ActiveRows(hid, cur) \in [Places -> N!Curations]
         /\ N!CuratedIn(N!ActiveRows(hid, cur)) \cap hid = {}
         /\ N!PromotedIn(N!ActiveRows(hid, cur)) =
              {p \in Places : p \notin hid /\ cur[p] \in N!Promoting}
BY DEF N!ActiveRows, N!CuratedIn, N!PromotedIn, N!Promoting, N!Curations

LEMMA PromotedAreCurated ==
  ASSUME NEW rows
  PROVE  N!PromotedIn(rows) \subseteq N!CuratedIn(rows) /\ N!PromotedIn(rows) \subseteq Places
BY DEF N!PromotedIn, N!CuratedIn, N!Promoting

\* A write of an admin changes the histories of the request and nothing else of it.
Meanwhile ==
  /\ home' \in HomeRequests /\ home'.pc = home.pc /\ home'.variant = home.variant
  /\ home'.query = home.query /\ home'.inCity = home.inCity /\ home'.limit = home.limit
  /\ home'.hid = home.hid /\ home'.candidates = home.candidates /\ home'.visible = home.visible
  /\ home'.rows = home.rows /\ home'.shown = home.shown
  /\ home'.hiddenAll \subseteq home.hiddenAll /\ home'.promotedAll \subseteq home.promotedAll
  /\ home.promotedAny \subseteq home'.promotedAny

LEMMA WriteKeeps ==
  ASSUME NearbyInv, Meanwhile, NearbyTypeOK', HistorySound' PROVE NearbyInv'
<1>1. CandidatesSound' /\ RowsSound'
  BY DEF NearbyInv, CandidatesSound, RowsSound, Meanwhile
<1>2. AnswerSound'
  BY DEF NearbyInv, AnswerSound, Meanwhile
<1>3. N!PromotedComesFirst'
  BY DEF NearbyInv, N!PromotedComesFirst, Meanwhile, N!Prepends
<1> QED BY <1>1, <1>2, <1>3 DEF NearbyInv

LEMMA EditKeeps ==
  ASSUME NearbyInv, NEW hid \in SUBSET Places, NEW cur \in [Places -> N!Curations], N!Edit(hid, cur),
         admin' = admin \/ admin' \in Places \X {"plain", "off"}
  PROVE  NearbyInv'
<1> DEFINE now == N!PromotedIn(N!ActiveRows(hid, cur))
<1>1. hidden' = hid /\ curation' = cur
  BY DEF N!Edit
<1>2. home \in HomeRequests /\ now \in SUBSET Places
  BY PromotedAreCurated DEF NearbyInv, NearbyTypeOK
<1>3. Now' = now
  BY <1>1 DEF Now
<1> HIDE DEF now
<1>4. /\ Meanwhile /\ home'.hiddenAll = home.hiddenAll \cap hid
      /\ home'.promotedAll = home.promotedAll \cap now
      /\ home'.promotedAny = home.promotedAny \cup now
  <2>1. home' = [home EXCEPT !.hiddenAll = home.hiddenAll \cap hid,
                           !.promotedAll = home.promotedAll \cap now,
                           !.promotedAny = home.promotedAny \cup now]
    BY DEF N!Edit, now
  <2> QED BY <1>2, <2>1 DEF Meanwhile, HomeRequests
<1>5. HistorySound'
  BY <1>1, <1>3, <1>4 DEF NearbyInv, HistorySound, Meanwhile
<1>6. NearbyTypeOK'
  BY <1>1, <1>4 DEF NearbyInv, NearbyTypeOK, Meanwhile
<1> QED BY <1>4, <1>5, <1>6, WriteKeeps

\* WriteCuration writes rows without flags: nothing is promoted by it.
LEMMA WriteCurationKeeps == ASSUME NearbyInv, N!WriteCuration PROVE NearbyInv'
<1>1. /\ admin \in Places \X {"plain", "off"}
      /\ curation \in [Places -> N!Curations] /\ home \in HomeRequests
  BY DEF NearbyInv, NearbyTypeOK, N!WriteCuration
<1>2. admin[1] \in Places /\ admin[2] \in {"plain", "off"}
  BY <1>1
<1>3. \/ curation' = [curation EXCEPT ![admin[1]] = admin[2]]
      \/ curation' = curation
  BY DEF N!WriteCuration
<1>4. curation' \in [Places -> N!Curations] /\ hidden' = hidden
  BY <1>1, <1>2, <1>3 DEF N!WriteCuration, N!Curations
<1>5. \A p \in Places : curation'[p] \in N!Promoting => curation[p] \in N!Promoting
  BY <1>1, <1>2, <1>3 DEF N!Promoting
<1> DEFINE now == N!PromotedIn(N!ActiveRows(hidden, curation'))
<1>6. now \subseteq Now /\ Now' = now
  BY <1>1, <1>4, <1>5, ActiveFacts DEF Now
<1> HIDE DEF now
<1>7. /\ Meanwhile /\ home'.promotedAll = home.promotedAll \cap now
      /\ home'.hiddenAll = home.hiddenAll /\ home'.promotedAny = home.promotedAny
  <2>1. home' = [home EXCEPT !.promotedAll = home.promotedAll \cap now]
    BY DEF N!WriteCuration, now
  <2> QED BY <1>1, <2>1 DEF Meanwhile, HomeRequests
<1>8. HistorySound'
  BY <1>4, <1>6, <1>7 DEF NearbyInv, HistorySound, Meanwhile
<1>9. NearbyTypeOK'
  BY <1>4, <1>7 DEF NearbyInv, NearbyTypeOK, Meanwhile, N!WriteCuration
<1> QED BY <1>7, <1>8, <1>9, WriteKeeps

LEMMA AdminsKeep ==
  ASSUME NearbyInv, NEW p \in Places,
         \/ \E hide \in BOOLEAN : N!SetPlaceVisibility(p, hide)
         \/ \E kind \in N!Curations : N!CreateCuration(p, kind) \/ N!UpdateCuration(p, kind)
         \/ \E kind \in {"plain", "off"} : N!HideFirst(p, kind)
         \/ N!DeleteCuration(p)
  PROVE  NearbyInv'
<1>1. hidden \in SUBSET Places /\ curation \in [Places -> N!Curations]
  BY DEF NearbyInv, NearbyTypeOK
<1>2. ASSUME NEW hide \in BOOLEAN, N!SetPlaceVisibility(p, hide) PROVE NearbyInv'
  <2>1. (IF hide THEN hidden \cup {p} ELSE hidden \ {p}) \in SUBSET Places
    BY <1>1
  <2> QED BY <1>1, <1>2, <2>1, EditKeeps DEF N!SetPlaceVisibility
<1>3. ASSUME NEW kind \in N!Curations, N!CreateCuration(p, kind) \/ N!UpdateCuration(p, kind)
      PROVE  NearbyInv'
  <2>1. [curation EXCEPT ![p] = kind] \in [Places -> N!Curations]
    BY <1>1
  <2> QED BY <1>1, <1>3, <2>1, EditKeeps DEF N!CreateCuration, N!UpdateCuration
<1>4. ASSUME NEW kind \in {"plain", "off"}, N!HideFirst(p, kind) PROVE NearbyInv'
  <2>1. hidden \cup {p} \in SUBSET Places /\ <<p, kind>> \in Places \X {"plain", "off"}
    BY <1>1
  <2> QED BY <1>1, <1>4, <2>1, EditKeeps DEF N!HideFirst
<1>5. ASSUME N!DeleteCuration(p) PROVE NearbyInv'
  <2>1. [curation EXCEPT ![p] = "none"] \in [Places -> N!Curations]
    BY <1>1 DEF N!Curations
  <2> QED BY <1>1, <1>5, <2>1, EditKeeps DEF N!DeleteCuration
<1> QED BY <1>2, <1>3, <1>4, <1>5

\* A step of the request leaves what the request asks for and the histories alone.
Serving ==
  /\ UNCHANGED <<hidden, curation, admin>> /\ home.pc # "idle" /\ home'.pc # "idle"
  /\ home' \in HomeRequests /\ home'.variant = home.variant /\ home'.query = home.query
  /\ home'.inCity = home.inCity /\ home'.limit = home.limit
  /\ home'.hiddenAll = home.hiddenAll /\ home'.promotedAll = home.promotedAll
  /\ home'.promotedAny = home.promotedAny

LEMMA ServingKeeps ==
  ASSUME NearbyInv, Serving PROVE NearbyTypeOK' /\ HistorySound'
<1>1. NearbyTypeOK'
  BY DEF NearbyInv, NearbyTypeOK, Serving
<1>2. HistorySound'
  BY DEF NearbyInv, HistorySound, Now, Serving
<1> QED BY <1>1, <1>2

\* Before its answer the request shows nothing.
LEMMA UnansweredKeeps ==
  ASSUME NearbyInv, Serving, home.pc # "done", home'.pc # "done", home'.shown = home.shown
  PROVE  AnswerSound' /\ N!PromotedComesFirst'
<1>1. AnswerSound'
  BY DEF NearbyInv, AnswerSound, Serving
<1>2. N!PromotedComesFirst'
  BY DEF N!PromotedComesFirst
<1> QED BY <1>1, <1>2

LEMMA RowsFacts ==
  ASSUME NearbyInv, home.pc # "idle"
  PROVE  /\ N!Rows \in [Places -> N!Curations] /\ N!CuratedIn(N!Rows) \cap home.hiddenAll = {}
         /\ N!PromotedIn(N!Rows) \subseteq Places
         /\ home.inCity => N!PromotedIn(N!Rows) = Now
<1>1. curation \in [Places -> N!Curations] /\ home.hiddenAll \subseteq hidden
  BY DEF NearbyInv, NearbyTypeOK, HistorySound
<1>2. N!NoRows \in [Places -> N!Curations] /\ N!CuratedIn(N!NoRows) = {}
  BY DEF N!NoRows, N!CuratedIn, N!Curations
<1> QED BY <1>1, <1>2, ActiveFacts, PromotedAreCurated DEF N!Rows, Now

LEMMA NearbyKeeps ==
  ASSUME NearbyParameters, NearbyInv, NEW a \in Asked, N!Nearby(a.variant, a.query, a.inCity, a.limit)
  PROVE  NearbyInv'
<1>1. a \in [variant : Variants, query : BOOLEAN, inCity : BOOLEAN, limit : Nat]
  BY DEF NearbyParameters
<1>2. /\ hidden' = hidden /\ curation' = curation /\ admin' = admin
      /\ hidden \in SUBSET Places /\ Now \in SUBSET Places /\ Now' = Now
  BY PromotedAreCurated DEF NearbyInv, NearbyTypeOK, N!Nearby, N!world, Now
<1>3. <<>> \in Seq(Places) /\ N!NoRows \in [Places -> N!Curations]
  BY DEF N!NoRows, N!Curations
<1>4. /\ home' \in HomeRequests /\ home'.pc = "pool" /\ home'.shown = <<>>
      /\ home'.hiddenAll = hidden /\ home'.promotedAll = Now /\ home'.promotedAny = Now
      /\ home'.limit \in Nat
  <2>1. home' = [N!Idle EXCEPT !.pc = "pool", !.variant = a.variant, !.query = a.query,
                            !.inCity = a.inCity, !.limit = a.limit, !.hiddenAll = hidden,
                            !.promotedAll = Now, !.promotedAny = Now]
    BY DEF N!Nearby, Now
  <2>2. home' = [pc |-> "pool", variant |-> a.variant, query |-> a.query, inCity |-> a.inCity,
                limit |-> a.limit, pool |-> {}, hid |-> {}, candidates |-> {}, visible |-> {},
                rows |-> N!NoRows, shown |-> <<>>, hiddenAll |-> hidden, promotedAll |-> Now,
                promotedAny |-> Now]
    BY <2>1 DEF N!Idle
  <2> QED BY <1>1, <1>2, <1>3, <2>2 DEF HomeRequests, RequestStates
<1>5. NearbyTypeOK' /\ HistorySound'
  BY <1>2, <1>4 DEF NearbyInv, NearbyTypeOK, HistorySound
<1>6. CandidatesSound' /\ RowsSound' /\ N!PromotedComesFirst'
  BY <1>4 DEF CandidatesSound, RowsSound, N!PromotedComesFirst
<1>7. AnswerSound'
  <2>1. DOMAIN <<>> = {} /\ Len(<<>>) = 0
    OBVIOUS
  <2> QED BY <1>3, <1>4, <2>1 DEF AnswerSound, Distinct, Elements
<1> QED BY <1>5, <1>6, <1>7 DEF NearbyInv

LEMMA PoolKeeps ==
  ASSUME NearbyInv, NEW S \in SUBSET Places, N!PoolFromGoogle(S) \/ N!PoolFromStore(S) PROVE NearbyInv'
<1>1. home \in HomeRequests /\ home.pc = "pool" /\ UNCHANGED <<hidden, curation, admin>>
      /\ home' = [home EXCEPT !.pc = "hidden", !.pool = S]
  BY DEF NearbyInv, NearbyTypeOK, N!PoolFromGoogle, N!PoolFromStore, N!Finalize, N!world
<1>2. Serving /\ home'.pc = "hidden" /\ home'.shown = home.shown
  BY <1>1 DEF Serving, HomeRequests, RequestStates
<1>3. NearbyTypeOK' /\ HistorySound' /\ AnswerSound' /\ N!PromotedComesFirst'
  BY <1>1, <1>2, ServingKeeps, UnansweredKeeps
<1>4. CandidatesSound' /\ RowsSound'
  BY <1>2 DEF CandidatesSound, RowsSound
<1> QED BY <1>3, <1>4 DEF NearbyInv

LEMMA ReadHiddenKeeps == ASSUME NearbyInv, N!ReadHidden PROVE NearbyInv'
<1>1. home \in HomeRequests /\ home.pc = "hidden" /\ UNCHANGED <<hidden, curation, admin>>
      /\ hidden \in SUBSET Places /\ home.hiddenAll \subseteq hidden
  BY DEF NearbyInv, NearbyTypeOK, HistorySound, N!ReadHidden, N!world
<1>2. /\ Serving /\ home'.pc \in {"curations", "stored"} /\ home'.shown = home.shown
      /\ home'.hid = hidden /\ home'.candidates = home.pool \ hidden
  <2> DEFINE next == IF home.query THEN "curations" ELSE "stored"
  <2>1. home' = [home EXCEPT !.hid = hidden, !.candidates = home.pool \ hidden, !.pool = {}, !.pc = next]
    BY DEF N!ReadHidden
  <2>2. next \in {"curations", "stored"}
    OBVIOUS
  <2> HIDE DEF next
  <2> QED BY <1>1, <2>1, <2>2 DEF Serving, HomeRequests, RequestStates
<1>3. NearbyTypeOK' /\ HistorySound' /\ AnswerSound' /\ N!PromotedComesFirst'
  BY <1>1, <1>2, ServingKeeps, UnansweredKeeps
<1>4. CandidatesSound' /\ RowsSound'
  BY <1>1, <1>2 DEF CandidatesSound, RowsSound, Serving
<1> QED BY <1>3, <1>4 DEF NearbyInv

LEMMA ReadStoredKeeps ==
  ASSUME NearbyInv, NEW S \in SUBSET Places, N!ReadStored(S) PROVE NearbyInv'
<1>1. home \in HomeRequests /\ home.pc = "stored" /\ UNCHANGED <<hidden, curation, admin>>
      /\ S \cap hidden = {} /\ home.hiddenAll \subseteq hidden
      /\ home.hiddenAll \subseteq home.hid /\ home.candidates \cap home.hiddenAll = {}
  BY DEF NearbyInv, NearbyTypeOK, HistorySound, CandidatesSound, N!ReadStored, N!world
<1>2. N!PromotedIn(N!Rows) \in SUBSET Places /\ N!PromotedIn(N!Rows) \cap home.hiddenAll = {}
  BY <1>1, RowsFacts, PromotedAreCurated
<1> DEFINE candidates == home.candidates \cup S \cup N!PromotedIn(N!Rows)
<1>3. candidates \in SUBSET Places /\ candidates \cap home.hiddenAll = {}
  BY <1>1, <1>2 DEF HomeRequests
<1>4. home' = [home EXCEPT !.candidates = candidates, !.pc = "curations"]
  BY DEF N!ReadStored
<1> HIDE DEF candidates
<1>5. /\ Serving /\ home'.pc = "curations" /\ home'.shown = home.shown
      /\ home'.hid = home.hid /\ home'.candidates = candidates
  BY <1>1, <1>3, <1>4 DEF Serving, HomeRequests, RequestStates
<1>6. NearbyTypeOK' /\ HistorySound' /\ AnswerSound' /\ N!PromotedComesFirst'
  BY <1>1, <1>5, ServingKeeps, UnansweredKeeps
<1>7. CandidatesSound' /\ RowsSound'
  BY <1>1, <1>3, <1>5 DEF CandidatesSound, RowsSound, Serving
<1> QED BY <1>6, <1>7 DEF NearbyInv

LEMMA AnswerKeeps ==
  ASSUME NearbyInv, home.pc # "idle", UNCHANGED N!world, NEW shown, N!Answer(shown),
         Distinct(shown, Places), Len(shown) <= home.limit, Elements(shown) \cap home.hiddenAll = {},
         N!Prepends(home) /\ home.inCity /\ shown # <<>> =>
           \/ home.promotedAll \subseteq Elements(shown)
           \/ Elements(shown) \subseteq home.promotedAny
  PROVE  NearbyInv'
<1>1. home \in HomeRequests /\ shown \in Seq(Places) /\ N!NoRows \in [Places -> N!Curations]
  BY DEF NearbyInv, NearbyTypeOK, Distinct, N!NoRows, N!Curations
<1>2. Serving /\ home'.pc = "done" /\ home'.shown = shown
  <2>1. home' = [home EXCEPT !.pc = "done", !.shown = shown, !.candidates = {},
                           !.visible = {}, !.rows = N!NoRows, !.hid = {}]
    BY DEF N!Answer
  <2> QED BY <1>1, <2>1 DEF Serving, N!world, HomeRequests, RequestStates
<1>3. NearbyTypeOK' /\ HistorySound'
  BY <1>2, ServingKeeps
<1>4. CandidatesSound' /\ RowsSound'
  BY <1>2 DEF CandidatesSound, RowsSound
<1>5. AnswerSound'
  BY <1>2 DEF AnswerSound, Serving
<1>6. N!PromotedComesFirst'
  BY <1>2, ToSetIs DEF N!PromotedComesFirst, N!Prepends, Serving
<1> QED BY <1>3, <1>4, <1>5, <1>6 DEF NearbyInv

LEMMA EmptyAnswer ==
  ASSUME NearbyInv PROVE Distinct(<<>>, Places) /\ Len(<<>>) <= home.limit /\ Elements(<<>>) = {}
<1>1. <<>> \in Seq(Places) /\ DOMAIN <<>> = {} /\ Len(<<>>) = 0
  OBVIOUS
<1>2. home.limit \in Nat
  BY DEF NearbyInv, NearbyTypeOK, HomeRequests
<1> QED BY <1>1, <1>2 DEF Distinct, Elements

LEMMA ReadCurationsKeeps == ASSUME NearbyInv, N!ReadCurations PROVE NearbyInv'
<1> DEFINE visible == N!MergeCityCurations(home, N!Rows)
<1>1. home \in HomeRequests /\ home.pc = "curations" /\ UNCHANGED N!world
      /\ home.hiddenAll \subseteq home.hid
  BY DEF NearbyInv, NearbyTypeOK, CandidatesSound, N!ReadCurations
<1>2. /\ N!Rows \in [Places -> N!Curations] /\ N!CuratedIn(N!Rows) \cap home.hiddenAll = {}
      /\ N!PromotedIn(N!Rows) \subseteq Places
      /\ home.inCity => N!PromotedIn(N!Rows) = Now
  BY <1>1, RowsFacts
<1>3. visible \in SUBSET Places /\ visible \cap home.hiddenAll = {}
  BY <1>1, <1>2 DEF N!MergeCityCurations, HomeRequests
<1>4. \/ N!Answer(<<>>)
      \/ home' = [home EXCEPT !.pc = "rank", !.visible = visible, !.rows = N!Rows]
  BY DEF N!ReadCurations
<1> HIDE DEF visible
<1>5. CASE N!Answer(<<>>)
  BY <1>1, <1>5, EmptyAnswer, AnswerKeeps
<1>6. CASE home' = [home EXCEPT !.pc = "rank", !.visible = visible, !.rows = N!Rows]
  <2>1. /\ Serving /\ home'.pc = "rank" /\ home'.shown = home.shown /\ home'.hid = home.hid
        /\ home'.candidates = home.candidates /\ home'.visible = visible /\ home'.rows = N!Rows
    BY <1>1, <1>2, <1>3, <1>6 DEF Serving, HomeRequests, RequestStates, N!world
  <2>2. NearbyTypeOK' /\ HistorySound' /\ AnswerSound' /\ N!PromotedComesFirst'
    BY <1>1, <2>1, ServingKeeps, UnansweredKeeps
  <2>3. CandidatesSound'
    BY <1>1, <2>1 DEF NearbyInv, CandidatesSound, Serving
  <2>4. home.promotedAll \subseteq Now /\ Now \subseteq home.promotedAny
    BY <1>1 DEF NearbyInv, HistorySound
  <2>5. RowsSound'
    BY <1>2, <1>3, <2>1, <2>4 DEF RowsSound, Serving
  <2> QED BY <2>2, <2>3, <2>5 DEF NearbyInv
<1> QED BY <1>4, <1>5, <1>6

\* What the ranking gives: nothing twice, nothing that was hidden all along, and
\* promoted places first.
LEMMA AssembleFacts ==
  ASSUME NearbyParameters, NearbyInv, home.pc = "rank", NEW ranked, Distinct(ranked, Places),
         Len(ranked) <= home.limit, Elements(ranked) \cap home.hiddenAll = {}
  PROVE  /\ Distinct(N!Assemble(home, ranked), Places) /\ Len(N!Assemble(home, ranked)) <= home.limit
         /\ Elements(N!Assemble(home, ranked)) \cap home.hiddenAll = {}
         /\ N!Prepends(home) /\ home.inCity =>
              \/ home.promotedAll \subseteq Elements(N!Assemble(home, ranked))
              \/ Elements(N!Assemble(home, ranked)) \subseteq home.promotedAny
<1>1. /\ home.rows \in [Places -> N!Curations] /\ home.limit \in Nat
      /\ N!CuratedIn(home.rows) \cap home.hiddenAll = {}
      /\ home.inCity => /\ home.promotedAll \subseteq N!PromotedIn(home.rows)
                        /\ N!PromotedIn(home.rows) \subseteq home.promotedAny
  BY DEF NearbyInv, NearbyTypeOK, RowsSound, HomeRequests
<1> DEFINE shown == N!PrependAdmin(home.rows, ranked, home.limit)
<1>2. /\ Distinct(shown, Places) /\ Len(shown) <= home.limit
      /\ Elements(shown) \subseteq N!PromotedIn(home.rows) \cup Elements(ranked)
      /\ \/ N!PromotedIn(home.rows) \subseteq Elements(shown)
         \/ Elements(shown) \subseteq N!PromotedIn(home.rows)
  BY <1>1, PrependFacts
<1>3. N!Assemble(home, ranked) = IF N!Prepends(home) THEN shown ELSE ranked
  BY DEF N!Assemble
<1> HIDE DEF shown
<1>4. Elements(shown) \cap home.hiddenAll = {}
  BY <1>1, <1>2, PromotedAreCurated
<1> QED BY <1>1, <1>2, <1>3, <1>4

LEMMA RankKeeps ==
  ASSUME NearbyParameters, NearbyInv, NEW order \in N!SetToSeqs(Places), NEW work \in SUBSET Places,
         NEW good \in SUBSET Places, N!Rank(order, work, good)
  PROVE  NearbyInv'
<1> DEFINE chosen == {i \in DOMAIN order : order[i] \in good}
           ordered == N!Take(N!Keep(order, chosen), home.limit)
           picks == N!With(N!Rows, "pick") \ home.hid
           ranked == IF home.query \/ good = {} THEN ordered ELSE N!Ranked(home, good, ordered, picks)
<1>1. /\ home.pc = "rank" /\ home.limit \in Nat /\ UNCHANGED N!world
      /\ home.visible \cap home.hiddenAll = {}
  BY DEF NearbyInv, NearbyTypeOK, RowsSound, HomeRequests, N!Rank
<1>2. good \cap home.hiddenAll = {}
  <2>1. work \subseteq home.visible
    BY DEF N!Rank, N!WorkOf
  <2>2. good \subseteq work
    BY DEF N!Rank, N!QualifiedOf
  <2> QED BY <1>1, <2>1, <2>2
<1>3. Distinct(order, Places)
  BY Listing DEF NearbyParameters
<1>4. Distinct(N!Keep(order, chosen), Places) /\ Elements(N!Keep(order, chosen)) \subseteq good
  <2>1. chosen \in SUBSET DOMAIN order /\ {order[i] : i \in chosen} \subseteq good
    OBVIOUS
  <2> HIDE DEF chosen
  <2> QED BY <1>3, <2>1, KeepFacts
<1>5. Distinct(ordered, Places) /\ Len(ordered) <= home.limit /\ Elements(ordered) \subseteq good
  <2> HIDE DEF chosen
  <2>1. /\ Distinct(ordered, Places) /\ Elements(ordered) \subseteq good
        /\ Len(ordered) = IF home.limit < Len(N!Keep(order, chosen)) THEN home.limit
                          ELSE Len(N!Keep(order, chosen))
    BY <1>1, <1>4, TakeFacts
  <2>2. Len(N!Keep(order, chosen)) \in Nat
    BY <1>4 DEF Distinct
  <2>3. Len(ordered) <= home.limit
    <3> HIDE DEF ordered
    <3> QED BY <1>1, <2>1, <2>2
  <2> QED BY <2>1, <2>3
<1>6. picks \in SUBSET Places /\ picks \cap home.hiddenAll = {}
  <2>1. N!CuratedIn(N!Rows) \cap home.hiddenAll = {}
    BY <1>1, RowsFacts
  <2>2. N!With(N!Rows, "pick") \subseteq N!CuratedIn(N!Rows) /\ N!With(N!Rows, "pick") \subseteq Places
    BY DEF N!With, N!CuratedIn
  <2> QED BY <2>1, <2>2
<1>7. N!Answer(<<>>) \/ N!Answer(N!Assemble(home, ranked))
  BY DEF N!Rank
<1> HIDE DEF ordered, picks
<1>8. /\ Distinct(ranked, Places) /\ Len(ranked) <= home.limit
      /\ Elements(ranked) \cap home.hiddenAll = {}
  <2> DEFINE full == N!Ranked(home, good, ordered, picks)
  <2>1. /\ Distinct(full, Places) /\ Len(full) <= home.limit
        /\ Elements(full) \subseteq Elements(ordered) \cup good \cup picks
    BY <1>1, <1>5, <1>6, RankedFacts
  <2> HIDE DEF full
  <2>2. ranked = ordered \/ ranked = full
    BY DEF full
  <2> HIDE DEF ranked
  <2> QED BY <1>2, <1>5, <1>6, <2>1, <2>2
<1> HIDE DEF ranked
<1>9. CASE N!Answer(<<>>)
  BY <1>1, <1>9, EmptyAnswer, AnswerKeeps
<1>10. CASE N!Answer(N!Assemble(home, ranked))
  <2> DEFINE shown == N!Assemble(home, ranked)
  <2>1. /\ Distinct(shown, Places) /\ Len(shown) <= home.limit
        /\ Elements(shown) \cap home.hiddenAll = {}
        /\ N!Prepends(home) /\ home.inCity =>
             \/ home.promotedAll \subseteq Elements(shown)
             \/ Elements(shown) \subseteq home.promotedAny
    BY <1>1, <1>8, AssembleFacts
  <2>2. N!Answer(shown)
    BY <1>10
  <2> HIDE DEF shown
  <2> QED BY <1>1, <2>1, <2>2, AnswerKeeps
<1> QED BY <1>7, <1>9, <1>10

LEMMA NearbyInitial == ASSUME NearbyParameters, N!Init PROVE NearbyInv
<1>1. /\ hidden \in SUBSET Places /\ curation \in [Places -> N!Curations]
      /\ admin = <<>> /\ home = N!Idle
  BY DEF N!Init
<1>2. N!NoRows \in [Places -> N!Curations] /\ <<>> \in Seq(Places)
  BY DEF N!NoRows, N!Curations
<1>3. home \in HomeRequests
  BY <1>1, <1>2 DEF N!Idle, HomeRequests, RequestStates, Variants
<1>4. /\ home.pc = "idle" /\ home.shown = <<>> /\ home.hiddenAll = {} /\ home.promotedAll = {}
      /\ home.limit = 0
  BY <1>1 DEF N!Idle
<1>5. NearbyTypeOK /\ HistorySound /\ CandidatesSound /\ RowsSound /\ N!PromotedComesFirst
  BY <1>1, <1>3, <1>4 DEF NearbyTypeOK, HistorySound, CandidatesSound, RowsSound, N!PromotedComesFirst
<1>6. AnswerSound
  <2>1. DOMAIN <<>> = {} /\ Len(<<>>) = 0
    OBVIOUS
  <2> QED BY <1>2, <1>4, <2>1 DEF AnswerSound, Distinct, Elements
<1> QED BY <1>5, <1>6 DEF NearbyInv

LEMMA NearbyStep == ASSUME NearbyParameters, NearbyInv, [N!Next]_N!vars PROVE NearbyInv'
<1>1. ASSUME NEW p \in Places,
             \/ \E hide \in BOOLEAN : N!SetPlaceVisibility(p, hide)
             \/ \E kind \in N!Curations : N!CreateCuration(p, kind) \/ N!UpdateCuration(p, kind)
             \/ \E kind \in {"plain", "off"} : N!HideFirst(p, kind)
             \/ N!DeleteCuration(p)
      PROVE  NearbyInv'
  BY <1>1, AdminsKeep
<1>2. CASE N!WriteCuration
  BY <1>2, WriteCurationKeeps
<1>3. ASSUME NEW a \in Asked, N!Nearby(a.variant, a.query, a.inCity, a.limit) PROVE NearbyInv'
  BY <1>3, NearbyKeeps
<1>4. CASE N!ReadHidden
  BY <1>4, ReadHiddenKeeps
<1>5. CASE N!ReadCurations
  BY <1>5, ReadCurationsKeeps
<1>6. ASSUME NEW S \in SUBSET Places, N!PoolFromGoogle(S) \/ N!PoolFromStore(S) \/ N!ReadStored(S)
      PROVE  NearbyInv'
  BY <1>6, PoolKeeps, ReadStoredKeeps
<1>7. ASSUME NEW order \in N!SetToSeqs(Places), NEW work \in SUBSET Places, NEW good \in SUBSET Places,
             N!Rank(order, work, good)
      PROVE  NearbyInv'
  BY <1>7, RankKeeps
<1>8. CASE UNCHANGED N!vars
  BY <1>8 DEF N!vars, NearbyInv, NearbyTypeOK, HistorySound, Now, CandidatesSound, RowsSound,
              AnswerSound, N!PromotedComesFirst
<1> QED BY <1>1, <1>2, <1>3, <1>4, <1>5, <1>6, <1>7, <1>8 DEF N!Next

LEMMA NearbyInductive == ASSUME NearbyParameters PROVE N!Spec => []NearbyInv
<1>1. N!Init => NearbyInv
  BY NearbyInitial
<1>2. NearbyInv /\ [N!Next]_N!vars => NearbyInv'
  BY NearbyStep
<1> QED BY <1>1, <1>2, PTL DEF N!Spec

\* A place that is hidden from the first query of a request to the last is in
\* no answer, from wherever it comes (getHiddenGooglePlaceIds,
\* activeCurationWhere).
THEOREM HiddenPlacesStayHidden ==
  ASSUME NearbyParameters PROVE N!Spec => []HiddenStaysHidden
<1>1. NearbyInv => HiddenStaysHidden
  BY ToSetIs DEF NearbyInv, AnswerSound, HiddenStaysHidden, N!HiddenStaysHidden
<1> QED BY <1>1, NearbyInductive, PTL

\* An answer has at most as many places as were asked for, and none of them
\* twice (the merges of the pool, applyCityPickSlots, prependAdminCuratedPlaces).
THEOREM PlacesAppearOnce ==
  ASSUME NearbyParameters PROVE N!Spec => []NothingTwice
<1>1. NearbyInv => NothingTwice
  BY DEF NearbyInv, AnswerSound, Distinct, NothingTwice, N!NothingTwice, N!IsInjective
<1> QED BY <1>1, NearbyInductive, PTL

\* Curated places come first: one that is promoted and visible throughout is
\* left out only of an answer that is full of places promoted meanwhile
\* (prependAdminCuratedPlaces after any ranking).
THEOREM CuratedPlacesLead ==
  ASSUME NearbyParameters PROVE N!Spec => []PromotedComesFirst
<1>1. NearbyInv => PromotedComesFirst
  BY DEF NearbyInv, PromotedComesFirst
<1> QED BY <1>1, NearbyInductive, PTL
===============================================================================
