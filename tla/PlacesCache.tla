----------------------------- MODULE PlacesCache -----------------------------
(***************************************************************************)
(* The shared cache of Google answers and the single flight in front of it  *)
(* (places/places-google-cache.service.ts, places-cities.service.ts,        *)
(* places-autocomplete.service.ts,                                          *)
(* infrastructure/cache/distributed-single-flight.service.ts), in the       *)
(* configuration with Redis.                                                *)
(*                                                                          *)
(* Every await on Redis, on the cache, on the database or on Google is a    *)
(* step, and each may fail, whether or not it took effect.  (The reads that *)
(* an autocomplete makes around its Google call have no effect to model.)   *)
(* Time is not counted: a lock may reach its time to live, a wait its       *)
(* deadline and a cached answer its expiry at any moment.                   *)
(***************************************************************************)
EXTENDS Naturals

CONSTANTS
  Replicas,     \* app processes that share one Redis
  Requests,     \* HTTP requests, each served once
  Kinds,        \* the lookups that are made, a subset of AllKinds
  MaxAttempts,  \* the number of lost races after which a waiter just loads
  None          \* no request, no replica, no kind, no answer yet

AllKinds == {"autocomplete", "cities", "detail", "city", "reverse", "coordinates"}

\* The cache keys: one query, one place and one spot are enough.  A lookup by
\* coordinates reads the same entry as a reverse geocoding of the same spot.
Keys == AllKinds \ {"coordinates"}

KeyOf(kind) == IF kind = "coordinates" THEN "reverse" ELSE kind

ASSUME ConstantsAssumption ==
  /\ Kinds \subseteq AllKinds
  /\ MaxAttempts \in Nat
  /\ None \notin Replicas /\ None \notin Requests
  /\ None \notin AllKinds
  /\ None \notin {"value", "null", "error", "fallback", "dead"}

VARIABLES
  cache,     \* the shared cache: an answer per key, or None
  lock,      \* the Redis lock of a key: the request that set it, or None
  inflight,  \* localInflight of each replica: the leading request of a key
  stored,    \* whether the city has its row in the database
  req,       \* the requests
  late,      \* history: keys whose lock ran out, or whose wait was given up
  failed     \* history: the replicas and keys of flights that met a failure

vars == <<cache, lock, inflight, stored, req, late, failed>>

Answers == {"value", "null"}
Results == Answers \cup {"error", "fallback", "dead"}

ReqType == [pc      : {"idle", "get", "run", "joined", "set", "read", "exists",
                       "find", "google", "upsert", "store", "unlock", "again",
                       "reset", "keep", "done"},
            replica : Replicas \cup {None},
            kind    : AllKinds \cup {None},
            attempt : 0 .. MaxAttempts + 1,
            locked  : BOOLEAN,
            result  : Results \cup {None},
            why     : {None, "unknown", "fault"}]   \* history: see below

TypeOK ==
  /\ cache \in [Keys -> Answers \cup {None}]
  /\ lock \in [Keys -> Requests \cup {None}]
  /\ inflight \in [Replicas \X Keys -> Requests \cup {None}]
  /\ stored \in BOOLEAN
  /\ req \in [Requests -> ReqType]
  /\ late \subseteq Keys
  /\ failed \subseteq Replicas \X Keys

Init ==
  /\ cache = [k \in Keys |-> None]
  /\ lock = [k \in Keys |-> None]
  /\ inflight = [f \in Replicas \X Keys |-> None]
  /\ stored = FALSE
  /\ req = [r \in Requests |-> [pc |-> "idle", replica |-> None, kind |-> None,
                                attempt |-> 0, locked |-> FALSE, result |-> None,
                                why |-> None]]
  /\ late = {}
  /\ failed = {}

Key(r)    == KeyOf(req[r].kind)
Flight(r) == <<req[r].replica, Key(r)>>

(***************************************************************************)
(* What the methods of GooglePlacesClient may deliver.  A refused or timed  *)
(* out request, a disabled client and an unreadable answer are errors.      *)
(***************************************************************************)
FetchJson        == {"value", "error"}
FetchGeocodeJson == {"value", "null", "error"}

AutocompleteAnswers       == FetchJson
AutocompleteCitiesAnswers == FetchJson
PlaceDetailViewAnswers    == FetchJson
\* A place id that does not resolve to a city is an error.
CityByPlaceIdAnswers      == FetchGeocodeJson \ {"null"}
\* Coordinates that do not are null.
ReverseGeocodeAnswers     == FetchGeocodeJson

GoogleAnswers(kind) ==
  CASE kind = "autocomplete" -> AutocompleteAnswers
    [] kind = "cities"       -> AutocompleteCitiesAnswers
    [] kind = "detail"       -> PlaceDetailViewAnswers
    [] kind = "city"         -> CityByPlaceIdAnswers
    [] OTHER                 -> ReverseGeocodeAnswers

(***************************************************************************)
(* The end of a lookup.  Both autocompletes turn an error into what the     *)
(* database knows; a city that was not found is an error, except that the   *)
(* lookup by coordinates asks Google once more.  A city that it has found   *)
(* it writes to the database.                                               *)
(***************************************************************************)
Outcome(kind, result) ==
  IF result = "error" /\ kind \in {"autocomplete", "cities"} THEN "fallback"
  ELSE IF result = "null" THEN "error"
  ELSE result

\* "unknown": it was told that there is no city.
Done(r, result) ==
  [req[r] EXCEPT !.pc = "done", !.locked = FALSE,
                 !.result = Outcome(req[r].kind, result),
                 !.why = IF result = "null" THEN "unknown" ELSE None]

Ended(r, result) ==
  IF req[r].kind = "coordinates" /\ result \in Answers
    THEN [req[r] EXCEPT !.pc = IF result = "null" THEN "again" ELSE "keep",
                        !.locked = FALSE]
    ELSE Done(r, result)

(***************************************************************************)
(* getCachedGoogleValue, and the same lines of autocomplete.                *)
(***************************************************************************)
Start(r, p, kind) ==
  /\ req[r].pc = "idle"
  /\ req' = [req EXCEPT ![r].pc = "get", ![r].replica = p, ![r].kind = kind]
  /\ UNCHANGED <<cache, lock, inflight, stored, late, failed>>

\* allowNull: a cached null is an answer to a reverse geocoding only.
Hit(k) == cache[k] = "value" \/ (cache[k] = "null" /\ k = "reverse")

CacheGet(r) ==
  /\ req[r].pc = "get"
  /\ req' = [req EXCEPT ![r] = IF Hit(Key(r))
                                 THEN Ended(r, cache[Key(r)])
                                 ELSE [req[r] EXCEPT !.pc = "run"]]
  /\ UNCHANGED <<cache, lock, inflight, stored, late, failed>>

\* A missing entry is undefined or null, depending on the version of the cache
\* manager; allowNull takes a null for a cached one, and nothing is loaded.
CacheGetNull(r) ==
  /\ req[r].pc = "get" /\ Key(r) = "reverse" /\ ~Hit(Key(r))
  /\ req' = [req EXCEPT ![r] = Ended(r, "null")]
  /\ UNCHANGED <<cache, lock, inflight, stored, late, failed>>

(***************************************************************************)
(* DistributedSingleFlightService                                           *)
(***************************************************************************)
\* The first step of load: a city is looked for in the database first.
Load(kind) == IF kind = "city" THEN "find" ELSE "google"

\* run: a request of the same process in flight is joined.
JoinOrLead(r) ==
  /\ req[r].pc = "run"
  /\ IF inflight[Flight(r)] # None
       THEN /\ req' = [req EXCEPT ![r].pc = "joined"]
            /\ UNCHANGED inflight
       ELSE /\ req' = [req EXCEPT ![r].pc = "set"]
            /\ inflight' = [inflight EXCEPT ![Flight(r)] = r]
  /\ UNCHANGED <<cache, lock, stored, late, failed>>

\* Mutant of AcquireLock: SET without NX.
TakeLock(r) ==
  /\ req[r].pc = "set"
  /\ req[r].attempt <= MaxAttempts
  /\ lock' = [lock EXCEPT ![Key(r)] = r]
  /\ req' = [req EXCEPT ![r].pc = Load(req[r].kind), ![r].locked = TRUE]
  /\ UNCHANGED <<cache, inflight, stored, late, failed>>

\* SET lockKey "1" EX 30 NX.
AcquireLock(r) ==
  /\ req[r].pc = "set"
  /\ req[r].attempt <= MaxAttempts
  /\ IF lock[Key(r)] = None
       THEN /\ lock' = [lock EXCEPT ![Key(r)] = r]
            /\ req' = [req EXCEPT ![r].pc = Load(req[r].kind), ![r].locked = TRUE]
       ELSE /\ req' = [req EXCEPT ![r].pc = "read"]
            /\ UNCHANGED lock
  /\ UNCHANGED <<cache, inflight, stored, late, failed>>

\* attempt > 3: the load is made without the lock.
GiveUpLock(r) ==
  /\ req[r].pc = "set"
  /\ req[r].attempt > MaxAttempts
  /\ req' = [req EXCEPT ![r].pc = Load(req[r].kind)]
  /\ late' = late \cup {Key(r)}
  /\ UNCHANGED <<cache, lock, inflight, stored, failed>>

\* The leader's promise settles: it leaves localInflight, and every request of
\* the process that joined it gets the same answer or the same error.
Settle(r, result) ==
  /\ inflight' = [inflight EXCEPT ![Flight(r)] = None]
  /\ req' = [q \in Requests |->
       IF q = r \/ (req[q].pc = "joined" /\ Flight(q) = Flight(r))
         THEN Ended(q, result) ELSE req[q]]

\* readCached takes null for a miss.
PollCache(r) ==
  /\ req[r].pc = "read"
  /\ IF cache[Key(r)] = "value"
       THEN Settle(r, "value")
       ELSE req' = [req EXCEPT ![r].pc = "exists"] /\ UNCHANGED inflight
  /\ UNCHANGED <<cache, lock, stored, late, failed>>

\* Mutant of PollLock: a waiter that sees the lock gone gives up.
PollLockOrFail(r) ==
  /\ req[r].pc = "exists"
  /\ IF lock[Key(r)] = None
       THEN Settle(r, "error")
       ELSE req' = [req EXCEPT ![r].pc = "read"] /\ UNCHANGED inflight
  /\ UNCHANGED <<cache, lock, stored, late, failed>>

\* EXISTS lockKey; a waiter that sees it gone starts over, otherwise it sleeps.
PollLock(r) ==
  /\ req[r].pc = "exists"
  /\ req' = [req EXCEPT ![r] =
       IF lock[Key(r)] = None
         THEN [req[r] EXCEPT !.pc = "set", !.attempt = req[r].attempt + 1]
         ELSE [req[r] EXCEPT !.pc = "read"]]
  /\ UNCHANGED <<cache, lock, inflight, stored, late, failed>>

\* Mutant of WaitEnds: the wait has no deadline.
WaitForEver(r) == FALSE /\ UNCHANGED vars

\* MAX_WAIT_MS is over: the waiter loads without the lock.
WaitEnds(r) ==
  /\ req[r].pc = "read"
  /\ req' = [req EXCEPT ![r].pc = Load(req[r].kind)]
  /\ late' = late \cup {Key(r)}
  /\ UNCHANGED <<cache, lock, inflight, stored, failed>>

(***************************************************************************)
(* load: ask, store the answer, delete the lock.                            *)
(***************************************************************************)
\* findCityByGooglePlaceId
FindCity(r) ==
  /\ req[r].pc = "find"
  /\ req' = [req EXCEPT ![r] = IF stored
                                 THEN [req[r] EXCEPT !.pc = "store", !.result = "value"]
                                 ELSE [req[r] EXCEPT !.pc = "google"]]
  /\ UNCHANGED <<cache, lock, inflight, stored, late, failed>>

\* Mutant of AskGoogle: the upsert of the city is not awaited.
AskGoogleOnly(r, answer) ==
  /\ req[r].pc = "google"
  /\ answer \in GoogleAnswers(req[r].kind) \cap Answers
  /\ req' = [req EXCEPT ![r].pc = "store", ![r].result = answer]
  /\ UNCHANGED <<cache, lock, inflight, stored, late, failed>>

\* Google answers.
AskGoogle(r, answer) ==
  /\ req[r].pc = "google"
  /\ answer \in GoogleAnswers(req[r].kind) \cap Answers
  /\ req' = [req EXCEPT ![r].pc = IF req[r].kind = "city" THEN "upsert" ELSE "store",
                        ![r].result = answer]
  /\ UNCHANGED <<cache, lock, inflight, stored, late, failed>>

\* upsertCitySummary, in the load of a city.
UpsertCity(r) ==
  /\ req[r].pc = "upsert"
  /\ req' = [req EXCEPT ![r].pc = "store"]
  /\ stored' = TRUE
  /\ UNCHANGED <<cache, lock, inflight, late, failed>>

CacheAfterSet(r) == [cache EXCEPT ![Key(r)] = req[r].result]

\* The end of load.  The leader with the lock deletes it first (finally).
LoadEnds(r, result) ==
  IF req[r].locked
    THEN /\ req' = [req EXCEPT ![r].pc = "unlock", ![r].result = result]
         /\ UNCHANGED inflight
    ELSE Settle(r, result)

CacheSet(r) ==
  /\ req[r].pc = "store"
  /\ cache' = CacheAfterSet(r)
  /\ LoadEnds(r, req[r].result)
  /\ UNCHANGED <<lock, stored, late, failed>>

\* DEL lockKey, whoever holds it by now.
DeleteLock(r) ==
  /\ req[r].pc = "unlock"
  /\ lock' = [lock EXCEPT ![Key(r)] = None]
  /\ Settle(r, req[r].result)
  /\ UNCHANGED <<cache, stored, late, failed>>

(***************************************************************************)
(* ensureStoredCityForCoordinates: after a null one more call to Google,    *)
(* outside the single flight and not counted as a load; a city it finds     *)
(* replaces the cached null.  The city is upserted in any case.             *)
(***************************************************************************)
AskAgain(r, answer) ==
  /\ req[r].pc = "again"
  /\ answer \in ReverseGeocodeAnswers \cap Answers
  /\ req' = [req EXCEPT ![r] = IF answer = "null" THEN Done(r, "null")
                                                 ELSE [req[r] EXCEPT !.pc = "reset"]]
  /\ UNCHANGED <<cache, lock, inflight, stored, late, failed>>

ResetCache(r) ==
  /\ req[r].pc = "reset"
  /\ cache' = [cache EXCEPT ![Key(r)] = "value"]
  /\ req' = [req EXCEPT ![r].pc = "keep"]
  /\ UNCHANGED <<lock, inflight, stored, late, failed>>

\* The city at the spot may be the one of the other lookups.
KeepCity(r) ==
  /\ req[r].pc = "keep"
  /\ req' = [req EXCEPT ![r] = Done(r, "value")]
  /\ stored' \in {stored, TRUE}
  /\ UNCHANGED <<cache, lock, inflight, late, failed>>

(***************************************************************************)
(* A statement fails: Redis, the cache, the database or Google refuses it   *)
(* or does not answer in time.  What it writes may have been written.       *)
(***************************************************************************)
\* Before the lock is had, or in the load.
FlightFails(r) ==
  /\ req[r].pc \in {"set", "read", "exists", "find", "google", "upsert", "store"}
  /\ req[r].pc = "set" => req[r].attempt <= MaxAttempts
  /\ failed' = failed \cup {Flight(r)}
  /\ LoadEnds(r, "error")
  /\ lock' \in {lock, IF req[r].pc = "set" /\ lock[Key(r)] = None
                      THEN [lock EXCEPT ![Key(r)] = r] ELSE lock}
  /\ stored' \in {stored, stored \/ req[r].pc = "upsert"}
  /\ cache' \in {cache, IF req[r].pc = "store" THEN CacheAfterSet(r) ELSE cache}
  /\ UNCHANGED late

\* The DEL in the finally: its error takes the place of the answer.
DeleteLockFails(r) ==
  /\ req[r].pc = "unlock"
  /\ failed' = failed \cup {Flight(r)}
  /\ lock' \in {lock, [lock EXCEPT ![Key(r)] = None]}
  /\ Settle(r, "error")
  /\ UNCHANGED <<cache, stored, late>>

\* Before the flight or after it.  Only the lookup of cities catches an error of
\* its first read of the cache.
RequestFails(r) ==
  /\ req[r].pc \in {"get", "again", "reset", "keep"}
  /\ req' = [req EXCEPT ![r] =
       [Done(r, "error") EXCEPT
          !.result = IF req[r].kind = "cities" THEN "fallback" ELSE "error",
          !.why = "fault"]]
  /\ stored' \in {stored, stored \/ req[r].pc = "keep"}
  /\ cache' \in {cache, IF req[r].pc = "reset" THEN [cache EXCEPT ![Key(r)] = "value"]
                                             ELSE cache}
  /\ UNCHANGED <<lock, inflight, late, failed>>

(***************************************************************************)
(* Time and crashes.                                                        *)
(***************************************************************************)
CacheExpires(k) ==
  /\ cache[k] # None
  /\ cache' = [cache EXCEPT ![k] = None]
  /\ UNCHANGED <<lock, inflight, stored, req, late, failed>>

\* LOCK_TTL_SECONDS pass.  A leader may still be at it: fetchWithTimeout stops
\* its clock when the headers are in.
LockExpires(k) ==
  /\ lock[k] # None
  /\ lock' = [lock EXCEPT ![k] = None]
  /\ late' = IF req[lock[k]].locked THEN late \cup {k} ELSE late
  /\ UNCHANGED <<cache, inflight, stored, req, failed>>

\* A process dies and is restarted; its locks stay behind.
ReplicaDies(p) ==
  /\ \E r \in Requests : req[r].replica = p /\ req[r].pc # "done"
  /\ req' = [r \in Requests |->
       IF req[r].replica = p /\ req[r].pc # "done"
         THEN [req[r] EXCEPT !.pc = "done", !.locked = FALSE, !.result = "dead"]
         ELSE req[r]]
  /\ inflight' = [f \in Replicas \X Keys |-> IF f[1] = p THEN None ELSE inflight[f]]
  /\ UNCHANGED <<cache, lock, stored, late, failed>>

(***************************************************************************)
(* The specification.                                                       *)
(***************************************************************************)
\* The steps that need nobody but the process, Redis, the database and Google,
\* all of which answer or fail.
Step(r) ==
  \/ CacheGet(r) \/ CacheGetNull(r)
  \/ JoinOrLead(r) \/ AcquireLock(r) \/ GiveUpLock(r)
  \/ PollCache(r) \/ PollLock(r)
  \/ FindCity(r) \/ \E a \in Answers : AskGoogle(r, a)
  \/ UpsertCity(r) \/ CacheSet(r) \/ DeleteLock(r)
  \/ \E a \in Answers : AskAgain(r, a)
  \/ ResetCache(r) \/ KeepCity(r)
  \/ FlightFails(r) \/ DeleteLockFails(r) \/ RequestFails(r)

Next ==
  \/ \E r \in Requests : \/ \E p \in Replicas, kind \in Kinds : Start(r, p, kind)
                         \/ Step(r)
                         \/ WaitEnds(r)
  \/ \E k \in Keys : CacheExpires(k) \/ LockExpires(k)
  \/ \E p \in Replicas : ReplicaDies(p)

Spec == Init /\ [][Next]_vars

\* The clock reaches the deadline of a wait, which every turn of the loop tests.
\* Nothing is assumed of the locks: Redis may never drop one.
Fairness == \A r \in Requests : WF_vars(Step(r)) /\ SF_vars(WaitEnds(r))

(***************************************************************************)
(* Properties.                                                              *)
(***************************************************************************)
Loading(r) == req[r].pc \in {"find", "google", "upsert", "store"}

\* Across all replicas one request at a time loads a key, as long as no lock
\* ran out under its leader and no waiter gave up waiting
\* (runWithOptionalRedis; the lock is deleted without looking at its owner).
OneLoaderUnlessLate ==
  \A r, q \in Requests :
    (Loading(r) /\ Loading(q) /\ Key(r) = Key(q) /\ Key(r) \notin late) => r = q

\* A failure stays in the process that met it: the waiters of the other replicas
\* load for themselves instead of failing with their leader.  A request fails
\* because a statement of a flight of its own process did, because one of its own
\* outside the flight did, or, at a spot, because it was told that no city is there.
FailureStaysLocal ==
  \A r \in Requests :
    req[r].pc = "done" /\ req[r].result \in {"error", "fallback"} =>
      \/ Flight(r) \in failed
      \/ req[r].why = "fault"
      \/ req[r].why = "unknown" /\ Key(r) = "reverse"

\* A city that the cache answers with has its row, which places and visits refer
\* to, although the row is written by the load and the cache outlives it.
CachedCityIsStored == cache["city"] = "value" => stored

\* Every request ends, even when the leader it waits for dies with the lock.
RequestsEnd == \A r \in Requests : (req[r].pc # "idle") ~> (req[r].pc = "done")
=============================================================================
