---------------------------- MODULE MCBackground ----------------------------
(* Sign-ins; and what is queued comes to an end: push deliveries, and a       *)
(* Google import.  The three share no state: a behaviour is one of them, and  *)
(* the variables of the others rest.                                          *)
EXTENDS AuthSessions, TLC

CONSTANTS Deliveries, Installations, Workers, Syncers, MAX_SEND_ATTEMPTS,
          MAX_SEND_BATCH_SIZE, MAX_RECEIPT_BATCH_SIZE, JobLimit, EndpointLimits,
          RetryLimit, MaxJobs, MaxFaults,
          i1, k1, k2, p1, p2, q1, j1

VARIABLES part,
          inst, row, sent, jobs, run, sync, faults,
          owner, imp, item, places, req, job, importFaults, saves, byHand,
          kept, covered

\* Two deliveries for one device.
P == INSTANCE PushDispatch WITH InstallationOf <- (1 :> i1) @@ (2 :> i1)

I == INSTANCE GoogleImport WITH
       Keys <- {k1, k2}, Places <- {p1, p2}, PlaceOf <- (k1 :> p1) @@ (k2 :> p2),
       Resolvable <- {p1, p2}, Requests <- {q1}, Jobs <- {j1},
       MAX_REMOTE_PLACE_RESOLVES_PER_IMPORT_RUN <- 1, faults <- importFaults,
       MaxByHand <- 0, user <- owner

pushVars == <<inst, row, sent, jobs, run, sync, faults>>
importVars == <<owner, imp, item, places, req, job, importFaults, saves, byHand,
                kept, covered>>

MCInit == part \in {"auth", "push", "import"} /\ Init /\ P!Init /\ I!Init

\* Bound: a device is registered before its first delivery and never again, and
\* only the first delivery is ever deleted.
RegisteredOnce ==
  /\ \A i \in Installations : inst'[i] = "active" =>
       inst[i] = "active" \/ \A d \in Deliveries : row[d].status = "none"
  /\ row'[2].status # "deleted"

\* Session ids and the slots of requests are alike: each is taken in order.
InOrder ==
  /\ \A s \in Sessions : session[s].state = "none" /\ session'[s].state # "none" =>
       \A t \in Sessions : t < s => session[t].state # "none"
  /\ \A c \in Calls : call[c].pc = "idle" /\ call'[c].pc # "idle" =>
       \A d \in Calls : d < c => call[d].pc # "idle"

MCNext ==
  /\ UNCHANGED part
  /\ \/ part = "auth" /\ Next /\ InOrder /\ UNCHANGED <<pushVars, importVars>>
     \/ part = "push" /\ P!Next /\ RegisteredOnce /\ UNCHANGED <<vars, importVars>>
     \/ part = "import" /\ I!Next /\ UNCHANGED <<vars, pushVars>>

\* The part that rests has nothing to do: no row is pending, no import is there,
\* and none of the steps that are fair is enabled.
MCSpec == /\ MCInit /\ [][MCNext]_<<part, vars, pushVars, importVars>>
          /\ P!DispatchFairness /\ I!WorkFinishes

PendingDrains == P!PendingDrains
PollingEnds == I!PollingEnds
RetriesConverge == I!RetriesConverge
=============================================================================
