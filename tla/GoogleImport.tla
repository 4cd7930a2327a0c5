------------------------------ MODULE GoogleImport ------------------------------
(***************************************************************************)
(* One Google Data Portability import: its row and items, the requests of   *)
(* its owner, the OAuth callback, and the queued jobs that turn the items   *)
(* into saved places (google-data-portability: the import service, the       *)
(* repository and google-data-import.worker.ts).                            *)
(*                                                                          *)
(* Requests and jobs interleave at every await.  No update of the import's  *)
(* status looks at the status it replaces; an update by id throws when the  *)
(* row is gone.  Items are known by their sourceKey; archives, tokens, URLs *)
(* and payloads are abstracted to what the control flow asks about them.    *)
(***************************************************************************)
EXTENDS Naturals

CONSTANTS
  Keys,          \* source keys of items
  Places,        \* Google place ids
  PlaceOf,       \* the place id the parser finds in an item; some have none
  Resolvable,    \* places Google can resolve
  Requests,      \* slots for concurrent HTTP requests
  Jobs,          \* slots for queued and running jobs
  MAX_REMOTE_PLACE_RESOLVES_PER_IMPORT_RUN,
  RetryLimit,    \* retries of a failed job (3 with pg-boss, else 0)
  MaxFaults,     \* bound: crashes, failed statements, lost jobs
  MaxByHand,     \* bound: places the owner saves or unsaves by hand
  None           \* no item

ASSUME ConstantsAssumption ==
  /\ DOMAIN PlaceOf \subseteq Keys
  /\ PlaceOf \in [DOMAIN PlaceOf -> Places]
  /\ Resolvable \subseteq Places
  /\ MAX_REMOTE_PLACE_RESOLVES_PER_IMPORT_RUN \in Nat
  /\ RetryLimit \in Nat
  /\ MaxFaults \in Nat
  /\ MaxByHand \in Nat
  /\ None \notin Keys

MaxResolves == MAX_REMOTE_PLACE_RESOLVES_PER_IMPORT_RUN

VARIABLES
  user,      \* the owner's account exists
  imp,       \* the import row
  item,      \* its item rows
  places,    \* places that are in the database
  req,       \* the requests
  job,       \* the jobs
  faults,    \* crashes and failed statements so far
  saves,     \* places the owner has a PlaceSave row for
  byHand,    \* how often the owner saved or unsaved a place by hand
  kept,      \* history: places the jobs have saved for the owner
  covered    \* history: items of the runs that completed it

vars == <<user, imp, item, places, req, job, faults, saves, byHand, kept, covered>>

(***************************************************************************)
(* Types.                                                                   *)
(***************************************************************************)
ImportStatuses == {"authorizing", "fetching", "processing", "complete",
                   "failed", "revoked"}
Kinds == {"archive", "ingest", "retry"}

ImportType == [state   : {"none", "live", "deleted"},
               status  : ImportStatuses,
               archive : BOOLEAN,   \* archiveJobId is set
               urls    : BOOLEAN]   \* archiveUrls is not empty

RequestType ==
  [pc   : {"idle", "callback", "sync", "check", "mark", "enqueue", "revoke",
           "delete"},
   kind : Kinds \cup {"state"},     \* the job it is to enqueue, if any
   keys : SUBSET Keys]

JobType ==
  [pc     : {"free", "queued", "download", "next", "resolve", "save", "create",
             "update", "record", "review", "fail"},
   kind   : Kinds,
   keys   : SUBSET Keys,            \* the items of the run
   left   : 0..RetryLimit,
   todo   : SUBSET Keys,
   key    : Keys \cup {None},       \* the item being processed
   count  : 0..MaxResolves,         \* remoteResolveCount
   remote : BOOLEAN,                \* usedRemoteResolve
   known  : BOOLEAN,                \* history: the place was in the database
   hurt   : BOOLEAN,                \* history: a fault has struck this item
   raced  : BOOLEAN,                \* history: its save met another one
   made   : Nat,                    \* history: places resolved and not lost again
   late   : Nat]                    \* history: saves after the import was gone

TypeOK ==
  /\ user \in BOOLEAN
  /\ imp \in ImportType
  /\ item \in [Keys -> {"none", "matched", "manual_review"}]
  /\ places \subseteq Places /\ saves \subseteq Places /\ kept \subseteq Places
  /\ req \in [Requests -> RequestType]
  /\ job \in [Jobs -> JobType]
  /\ faults \in 0..MaxFaults /\ byHand \in 0..MaxByHand
  /\ covered \subseteq Keys

NoItems == [k \in Keys |-> "none"]
IdleRequest == [pc |-> "idle", kind |-> "state", keys |-> {}]
FreeJob == [pc |-> "free", kind |-> "retry", keys |-> {}, left |-> 0,
            todo |-> {}, key |-> None, count |-> 0, remote |-> FALSE,
            known |-> FALSE, hurt |-> FALSE, raced |-> FALSE, made |-> 0,
            late |-> 0]

Init ==
  /\ user = TRUE
  /\ imp = [state |-> "none", status |-> "authorizing", archive |-> FALSE,
            urls |-> FALSE]
  /\ item = NoItems
  /\ places = {} /\ saves = {} /\ kept = {} /\ covered = {}
  /\ req = [q \in Requests |-> IdleRequest]
  /\ job = [j \in Jobs |-> FreeJob]
  /\ faults = 0 /\ byHand = 0

Live == imp.state = "live"
Recorded == {k \in Keys : item[k] # "none"}

\* The owner's PlaceSave rows, and what the jobs have done to them.
saveVars == <<saves, byHand, kept>>

(***************************************************************************)
(* Requests.  Each one reads the import first and answers 404 when it is    *)
(* not there.                                                               *)
(***************************************************************************)
Rows == <<user, imp, item, places, faults, saveVars, covered>>

Begin(q, pc, kind, keys) ==
  /\ Live
  /\ req[q].pc = "idle"
  /\ req' = [req EXCEPT ![q] = [pc |-> pc, kind |-> kind, keys |-> keys]]
  /\ UNCHANGED <<Rows, job>>

Goto(q, pc) == req' = [req EXCEPT ![q].pc = pc]
Answer(q) == req' = [req EXCEPT ![q] = IdleRequest]

SetStatus(status) == imp' = [imp EXCEPT !.status = status]

Unchanged == UNCHANGED <<user, item, places, job, faults, saveVars, covered>>

CreateImport ==
  /\ user /\ imp.state = "none"
  /\ imp' = [imp EXCEPT !.state = "live"]
  /\ UNCHANGED <<user, item, places, req, job, faults, saveVars, covered>>

\* handleOAuthCallback: the code is exchanged and the archive initiated, or
\* Google reports an error, sends no code, or fails.
StartCallback(q) == Begin(q, "callback", "state", {})

MarkFetching(q) ==
  /\ req[q].pc = "callback" /\ Live
  /\ imp' = [imp EXCEPT !.status = "fetching", !.archive = TRUE]
  /\ Answer(q)
  /\ Unchanged

CallbackFails(q) ==
  /\ req[q].pc = "callback" /\ Live
  /\ SetStatus("failed")
  /\ Answer(q)
  /\ Unchanged

\* syncArchiveState; process-archive comes here too when there are no URLs yet.
StartSync(q) == imp.archive /\ Begin(q, "sync", "state", {})

\* updateArchiveState: FAILED fails the import, anything else is "fetching",
\* whatever the status was.  The URLs are whatever Google sent.
UpdateArchiveState(q, failed, urls) ==
  /\ req[q].pc = "sync" /\ Live
  /\ imp' = [imp EXCEPT !.status = IF failed THEN "failed" ELSE "fetching",
                        !.urls = urls]
  /\ IF req[q].kind = "archive" THEN Goto(q, "check") ELSE Answer(q)
  /\ Unchanged

\* enqueueProcessCompletedArchive, assertArchiveReadyForProcessing
StartProcess(q) ==
  /\ imp.urls \/ imp.archive
  /\ Begin(q, IF imp.urls THEN "mark" ELSE "sync", "archive", {})

CheckArchive(q) ==
  /\ req[q].pc = "check"
  /\ IF Live /\ imp.urls THEN Goto(q, "mark") ELSE Answer(q)
  /\ UNCHANGED <<Rows, job>>

\* enqueueIngestSavedCollections, enqueueRetry
StartIngest(q, K) == K # {} /\ Begin(q, "mark", "ingest", K)
StartRetry(q) == Recorded # {} /\ Begin(q, "mark", "retry", {})

MarkProcessing(q) ==
  /\ req[q].pc = "mark" /\ Live
  /\ SetStatus("processing")
  /\ Goto(q, "enqueue")
  /\ Unchanged

Enqueue(q, j) ==
  /\ req[q].pc = "enqueue"
  /\ job[j].pc = "free"
  /\ job' = [job EXCEPT ![j] =
       [FreeJob EXCEPT !.pc = "queued", !.kind = req[q].kind,
                       !.keys = req[q].keys, !.left = RetryLimit]]
  /\ Answer(q)
  /\ UNCHANGED Rows

\* deleteImport: markRevoked, then deleteMany, which cascades to the items.
StartDelete(q) == Begin(q, "revoke", "state", {})

MarkRevoked(q) ==
  /\ req[q].pc = "revoke" /\ Live
  /\ SetStatus("revoked")
  /\ Goto(q, "delete")
  /\ Unchanged

DeleteImport(q) ==
  /\ req[q].pc = "delete"
  /\ imp' = [imp EXCEPT !.state = "deleted"]
  /\ item' = NoItems /\ covered' = {}
  /\ Answer(q)
  /\ UNCHANGED <<user, places, job, faults, saveVars>>

\* An update finds no row, or Google's state check fails: an error answer.
RequestThrows(q) ==
  /\ \/ req[q].pc \in {"callback", "sync", "mark", "revoke"} /\ ~Live
     \/ req[q].pc = "sync"
  /\ Answer(q)
  /\ UNCHANGED <<Rows, job>>

\* The process dies or the database fails, at any await of the request.
RequestDies(q) ==
  /\ req[q].pc # "idle"
  /\ faults < MaxFaults
  /\ faults' = faults + 1
  /\ Answer(q)
  /\ UNCHANGED <<user, imp, item, places, job, saveVars, covered>>

(***************************************************************************)
(* Jobs.                                                                    *)
(***************************************************************************)
\* The job's promise rejects: it is queued again while it has retries left.
Reject(r) ==
  IF r.left > 0
    THEN [FreeJob EXCEPT !.pc = "queued", !.kind = r.kind, !.left = r.left - 1,
                         !.keys = IF r.kind = "ingest" THEN r.keys ELSE {},
                         !.late = r.late]
    ELSE FreeJob

Run(r, K) == [r EXCEPT !.pc = "next", !.keys = K, !.todo = K]

\* The execute... methods: the import is read again; an archive without URLs
\* and a retry without items fail the import.
TakeJob(j) ==
  LET r == job[j]
  IN  /\ r.pc = "queued" /\ Live
      /\ job' = [job EXCEPT ![j] =
           IF r.kind = "ingest" THEN Run(r, r.keys)
           ELSE IF r.kind = "retry" /\ Recorded # {} THEN Run(r, Recorded)
           ELSE IF r.kind = "archive" /\ imp.urls THEN [r EXCEPT !.pc = "download"]
           ELSE [r EXCEPT !.pc = "fail"]]
      /\ UNCHANGED <<Rows, req>>

\* downloadJsonDocuments and parseSavedCollectionArchiveDocuments find the items
\* K, each source key once.
Download(j, K) ==
  /\ job[j].pc = "download"
  /\ job' = [job EXCEPT ![j] = Run(job[j], K)]
  /\ UNCHANGED <<Rows, req>>

HasPlaceId(k) == k \in DOMAIN PlaceOf

Known(k) == HasPlaceId(k) /\ PlaceOf[k] \in places

\* Mutant of AfterLookup: the limit is looked at first.
AfterLookupLimitFirst(k, count) ==
  CASE ~HasPlaceId(k) -> "review"
    [] HasPlaceId(k) /\ count < MaxResolves /\ Known(k) -> "save"
    [] HasPlaceId(k) /\ count < MaxResolves /\ ~Known(k) -> "resolve"
    [] HasPlaceId(k) /\ count >= MaxResolves -> "review"

\* Mutant of AfterLookup: one resolve too many.
AfterLookupOneMore(k, count) ==
  CASE ~HasPlaceId(k) -> "review"
    [] HasPlaceId(k) /\ Known(k) -> "save"
    [] HasPlaceId(k) /\ ~Known(k) /\ count <= MaxResolves -> "resolve"
    [] HasPlaceId(k) /\ ~Known(k) /\ count > MaxResolves -> "review"

\* processSavedCollectionItem: what getPlaceBySource and the limit lead to.
AfterLookup(k, count) ==
  CASE ~HasPlaceId(k) -> "review"
    [] HasPlaceId(k) /\ Known(k) -> "save"
    [] HasPlaceId(k) /\ ~Known(k) /\ count < MaxResolves -> "resolve"
    [] HasPlaceId(k) /\ ~Known(k) /\ count >= MaxResolves -> "review"

Lookup(j, k) ==
  /\ job[j].pc = "next" /\ k \in job[j].todo
  /\ job' = [job EXCEPT ![j] =
       [job[j] EXCEPT !.pc = AfterLookup(k, job[j].count), !.key = k,
                      !.remote = FALSE, !.known = Known(k)]]
  /\ UNCHANGED <<Rows, req>>

\* placesService.resolve stores the place.
Resolve(j) ==
  LET p == PlaceOf[job[j].key]
  IN  /\ job[j].pc = "resolve" /\ p \in Resolvable
      /\ places' = places \cup {p}
      /\ job' = [job EXCEPT ![j] =
           [job[j] EXCEPT !.pc = "save", !.remote = TRUE, !.made = job[j].made + 1]]
      /\ UNCHANGED <<user, imp, item, req, faults, saveVars, covered>>

\* savePlace upserts with an include, so that Prisma looks for the row first and
\* then creates or updates it: three statements, between which another save or
\* unsave of the place may come.
FindSave(j) ==
  /\ job[j].pc = "save"
  /\ job' = [job EXCEPT ![j].pc =
       IF PlaceOf[job[j].key] \in saves THEN "update" ELSE "create"]
  /\ UNCHANGED <<Rows, req>>

Saved(r) == [r EXCEPT !.pc = "record", !.late = IF Live THEN r.late ELSE r.late + 1]

\* The import may be gone by now; the unique pair and the account must be free
\* and there.
CreateSave(j) ==
  LET p == PlaceOf[job[j].key]
  IN  /\ job[j].pc = "create" /\ user /\ p \notin saves
      /\ saves' = saves \cup {p} /\ kept' = kept \cup {p}
      /\ job' = [job EXCEPT ![j] = Saved(job[j])]
      /\ UNCHANGED <<user, imp, item, places, req, faults, byHand, covered>>

UpdateSave(j) ==
  LET p == PlaceOf[job[j].key]
  IN  /\ job[j].pc = "update" /\ p \in saves
      /\ kept' = kept \cup {p}
      /\ job' = [job EXCEPT ![j] = Saved(job[j])]
      /\ UNCHANGED <<user, imp, item, places, req, faults, saves, byHand, covered>>

NextItem(r) == [r EXCEPT !.pc = "next", !.todo = r.todo \ {r.key}, !.key = None,
                         !.remote = FALSE, !.known = FALSE, !.hurt = FALSE,
                         !.raced = FALSE]

\* Mutant of RecordMatched: places that were known already count as well.
RecordMatchedCountsAll(j) ==
  LET r == job[j]
  IN  /\ r.pc = "record" /\ Live
      /\ item' = [item EXCEPT ![r.key] = "matched"]
      /\ job' = [job EXCEPT ![j] =
           [NextItem(r) EXCEPT !.count = IF r.count < MaxResolves THEN r.count + 1
                                                                  ELSE r.count]]
      /\ UNCHANGED <<user, imp, places, req, faults, saveVars, covered>>

\* upsertItem with status matched; only now does a remote resolve count.
RecordMatched(j) ==
  LET r == job[j]
  IN  /\ r.pc = "record" /\ Live
      /\ item' = [item EXCEPT ![r.key] = "matched"]
      /\ job' = [job EXCEPT ![j] =
           [NextItem(r) EXCEPT !.count = IF r.remote THEN r.count + 1 ELSE r.count]]
      /\ UNCHANGED <<user, imp, places, req, faults, saveVars, covered>>

\* Mutant of RecordReview: the item is passed over.
RecordReviewNot(j) ==
  /\ job[j].pc = "review" /\ Live
  /\ job' = [job EXCEPT ![j] = NextItem(job[j])]
  /\ UNCHANGED <<Rows, req>>

\* Mutant of RecordReview: the item counts as matched.
RecordReviewMatched(j) ==
  /\ job[j].pc = "review" /\ Live
  /\ item' = [item EXCEPT ![job[j].key] = "matched"]
  /\ job' = [job EXCEPT ![j] = NextItem(job[j])]
  /\ UNCHANGED <<user, imp, places, req, faults, saveVars, covered>>

\* Mutant of RecordReview: no foreign key ties the item to its import.
RecordReviewOrphan(j) ==
  /\ job[j].pc = "review"
  /\ item' = IF Live THEN [item EXCEPT ![job[j].key] = "manual_review"] ELSE item
  /\ job' = [job EXCEPT ![j] = NextItem(job[j])]
  /\ UNCHANGED <<user, imp, places, req, faults, saveVars, covered>>

\* upsertItem with status manual_review
RecordReview(j) ==
  /\ job[j].pc = "review" /\ Live
  /\ item' = [item EXCEPT ![job[j].key] = "manual_review"]
  /\ job' = [job EXCEPT ![j] = NextItem(job[j])]
  /\ UNCHANGED <<user, imp, places, req, faults, saveVars, covered>>

MarkComplete(j) ==
  /\ job[j].pc = "next" /\ job[j].todo = {} /\ Live
  /\ SetStatus("complete")
  /\ covered' = covered \cup job[j].keys
  /\ job' = [job EXCEPT ![j] = FreeJob]
  /\ UNCHANGED <<user, item, places, req, faults, saveVars>>

\* Mutant of MarkFailed: the error is only logged.
MarkFailedNot(j) ==
  /\ job[j].pc = "fail" /\ Live
  /\ job' = [job EXCEPT ![j] = FreeJob]
  /\ UNCHANGED <<Rows, req>>

\* The outer catch block; the job itself succeeds.
MarkFailed(j) ==
  /\ job[j].pc = "fail" /\ Live
  /\ SetStatus("failed")
  /\ job' = [job EXCEPT ![j] = FreeJob]
  /\ UNCHANGED <<user, item, places, req, faults, saveVars, covered>>

\* downloadJsonDocuments: too many URLs, too many bytes, an error answer, a broken
\* zip file.
DownloadFails(r) == r.pc = "download"

\* The row that savePlace looked for has come or gone since.
Collides(r) ==
  \/ r.pc = "create" /\ PlaceOf[r.key] \in saves
  \/ r.pc = "update" /\ PlaceOf[r.key] \notin saves

\* The statement a job is at throws: the import or the account is gone, a save
\* collides with another, Google cannot resolve the place, the archive cannot be
\* downloaded.
Broken(r) ==
  \/ DownloadFails(r)
  \/ r.pc = "resolve" /\ PlaceOf[r.key] \notin Resolvable
  \/ r.pc = "create" /\ ~user
  \/ Collides(r)
  \/ r.pc \in {"queued", "record", "review", "fail"} /\ ~Live
  \/ r.pc = "next" /\ r.todo = {} /\ ~Live

\* Where it is caught: the inner catch block puts the item up for review, the
\* outer one fails the import, and what they throw rejects the job.
Catch(r) ==
  IF r.pc \in {"resolve", "save", "create", "update", "record"}
    THEN [r EXCEPT !.pc = "review", !.raced = Collides(r),
                   !.made = IF r.remote THEN r.made - 1 ELSE r.made]
  ELSE IF r.pc \in {"download", "next", "review"} THEN [r EXCEPT !.pc = "fail"]
  ELSE Reject(r)

JobThrows(j) ==
  /\ Broken(job[j])
  /\ job' = [job EXCEPT ![j] = Catch(job[j])]
  /\ UNCHANGED <<Rows, req>>

\* The database fails, or Google does for a place that it could resolve.
JobFault(j) ==
  /\ job[j].pc # "free"
  /\ job[j].pc = "next" => job[j].todo = {}
  /\ faults < MaxFaults
  /\ faults' = faults + 1
  /\ job' = [job EXCEPT ![j] = Catch([job[j] EXCEPT !.hurt = TRUE])]
  /\ UNCHANGED <<user, imp, item, places, req, saveVars, covered>>

\* getPlaceBySource fails: caught like an error of the item.
LookupFault(j, k) ==
  /\ job[j].pc = "next" /\ k \in job[j].todo /\ HasPlaceId(k)
  /\ faults < MaxFaults
  /\ faults' = faults + 1
  /\ job' = [job EXCEPT ![j] =
       [job[j] EXCEPT !.pc = "review", !.key = k, !.remote = FALSE,
                      !.known = Known(k), !.hurt = TRUE]]
  /\ UNCHANGED <<user, imp, item, places, req, saveVars, covered>>

\* The process dies; a queued job is lost only if it was kept in the process.
JobDies(j) ==
  /\ job[j].pc # "free"
  /\ job[j].pc = "queued" => RetryLimit = 0
  /\ faults < MaxFaults
  /\ faults' = faults + 1
  /\ job' = [job EXCEPT ![j] = Reject(job[j])]
  /\ UNCHANGED <<user, imp, item, places, req, saveVars, covered>>

(***************************************************************************)
(* The owner and everybody else.                                            *)
(***************************************************************************)
\* Some other request resolves the place.
ResolveElsewhere(p) ==
  /\ p \in Resolvable \ places
  /\ places' = places \cup {p}
  /\ UNCHANGED <<user, imp, item, req, job, faults, saveVars, covered>>

\* POST and DELETE of place-saves for a place that is in the database.
SaveByHand(p) ==
  /\ user /\ p \in places
  /\ byHand < MaxByHand
  /\ saves' = saves \cup {p} /\ byHand' = byHand + 1
  /\ UNCHANGED <<user, imp, item, places, req, job, faults, kept, covered>>

UnsaveByHand(p) ==
  /\ p \in saves
  /\ byHand < MaxByHand
  /\ saves' = saves \ {p} /\ byHand' = byHand + 1
  /\ UNCHANGED <<user, imp, item, places, req, job, faults, kept, covered>>

\* deleteMyAccount cascades to the import, its items and the saved places.
DeleteAccount ==
  /\ user
  /\ user' = FALSE
  /\ imp' = [imp EXCEPT !.state = IF Live THEN "deleted" ELSE imp.state]
  /\ item' = NoItems /\ saves' = {} /\ kept' = {} /\ covered' = {}
  /\ UNCHANGED <<places, req, job, faults, byHand>>

(***************************************************************************)
(* The specification.                                                       *)
(***************************************************************************)
RequestStep(q) ==
  \/ MarkFetching(q) \/ CallbackFails(q)
  \/ \E failed, urls \in BOOLEAN : UpdateArchiveState(q, failed, urls)
  \/ CheckArchive(q)
  \/ MarkProcessing(q)
  \/ \E j \in Jobs : Enqueue(q, j)
  \/ MarkRevoked(q) \/ DeleteImport(q)
  \/ RequestThrows(q)

StartRequest(q) ==
  \/ StartCallback(q) \/ StartSync(q) \/ StartProcess(q) \/ StartRetry(q)
  \/ \E K \in SUBSET Keys : StartIngest(q, K)
  \/ StartDelete(q)

JobStep(j) ==
  \/ TakeJob(j)
  \/ \E K \in SUBSET Keys : Download(j, K)
  \/ \E k \in Keys : Lookup(j, k)
  \/ Resolve(j) \/ FindSave(j) \/ CreateSave(j) \/ UpdateSave(j)
  \/ RecordMatched(j) \/ RecordReview(j)
  \/ MarkComplete(j) \/ MarkFailed(j)
  \/ JobThrows(j)

Others ==
  \/ CreateImport
  \/ \E p \in Places : ResolveElsewhere(p) \/ SaveByHand(p) \/ UnsaveByHand(p)
  \/ DeleteAccount

Next ==
  \/ \E q \in Requests : StartRequest(q) \/ RequestStep(q) \/ RequestDies(q)
  \/ \E j \in Jobs : \/ JobStep(j) \/ JobFault(j) \/ JobDies(j)
                     \/ \E k \in Keys : LookupFault(j, k)
  \/ Others

Spec == Init /\ [][Next]_vars

(***************************************************************************)
(* Fairness.  What has started goes on, and the queue runs its jobs.        *)
(***************************************************************************)
WorkFinishes ==
  /\ \A q \in Requests : WF_vars(RequestStep(q))
  /\ \A j \in Jobs : WF_vars(JobStep(j))

ImportSpec == Spec /\ WorkFinishes

\* The owner asks for a retry again and again, whatever else is asked for.
OwnerRetries == \A q \in Requests : SF_vars(StartRetry(q))

(***************************************************************************)
(* Properties.                                                              *)
(***************************************************************************)
\* An import that was completed has not lost an item: every item of a run that
\* completed it is on record, matched or up for review, whatever failed inside
\* the run and whichever runs overlapped (processSavedCollectionItem).
CoveredIsRecorded == covered \subseteq Recorded

\* An item counts as imported only if its place was saved for the owner, by this
\* run or another one (savePlace comes before upsertItem).
MatchedWasSaved ==
  \A k \in Keys :
    item[k] = "matched" => HasPlaceId(k) /\ PlaceOf[k] \in kept

\* A run resolves no more places than the limit allows, not counting those that
\* it resolved and then failed to save or record.
ResolveBudget ==
  \A j \in Jobs : job[j].made <= MaxResolves

\* Deleting an import stops its jobs: a job, with all its retries, saves at most
\* the one place that it was at when the import went (upsertItem then throws in
\* the try and in the catch block of the item).
DeletionStopsJobs == \A j \in Jobs : job[j].late <= 1

\* A matched item goes back to review only by a run that looked for the place
\* before it was in the database, that was struck by a fault, or whose upsert of
\* the save collided with another save or unsave of the place: a retry that runs
\* alone does not undo what earlier runs have achieved, its limit notwithstanding.
MatchedStays ==
  [][\A k \in Keys :
       item[k] = "matched" /\ item'[k] = "manual_review" =>
         \E j \in Jobs : /\ job[j].pc = "review" /\ job[j].key = k
                         /\ ~job[j].known \/ job[j].hurt \/ job[j].raced]_vars

\* A client that polls an import in processing finds it complete or failed in
\* the end, or deleted (what docs/async-jobs.md tells clients to wait for).
PollingEnds ==
  (Live /\ imp.status = "processing") ~>
    (~Live \/ imp.status \in {"complete", "failed"})

\* An owner who keeps retrying gets every place that Google can resolve, although
\* a run resolves only a few of them: known places cost a run nothing.
RetriesConverge ==
  OwnerRetries =>
  <>[](Live => \A k \in Keys :
         HasPlaceId(k) /\ PlaceOf[k] \in Resolvable => item[k] # "manual_review")
=============================================================================
