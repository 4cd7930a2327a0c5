# TLA+ models of feca-backend

feca-backend is a NestJS service on PostgreSQL (through Prisma), with Redis as an
optional cache and pg-boss as an optional job queue. Several replicas of it may
run behind one database. Almost all of its state is in database rows; almost all
of its difficulty is in requests, jobs and cron calls that read rows, await
something, and write rows by id afterwards. These modules model that: each
request or job is a process whose reads, HTTP calls and writes are separate
steps, and the database rows are the shared state.

Paths below are relative to the repository (`src/` is its TypeScript source
directory).

## 1. Inventory

| Component | State | Operations | Talks to |
|---|---|---|---|
| Push dispatch and receipts (`src/social/push-dispatch.service.ts`) | `PushDelivery` rows: status, attemptCount, expoTicketId | `dispatchPending`, `syncReceipts`, `disableInstallation`, status report | Expo HTTP API, job queue, internal endpoints, cron |
| Push installations (`src/social/notifications.service.ts`) | `PushInstallation` rows: disabledAt, revokedAt, token | register, revoke, disabled by Expo's answers, cascade of account deletion | push dispatch |
| Notification publishing (`src/social/notifications.service.ts`) | `Notification` rows, unique `(userId, dedupeKey)` | `publish`, mark read | called by nearly every other service; creates deliveries, enqueues dispatch |
| Job queue (`src/infrastructure/queue`) | pg-boss jobs, or `setImmediate` callbacks in the process | `enqueue` (singletonKey, retryLimit 3), workers | push dispatch, Google import |
| Notification automations (`src/social/notifications-automation.service.ts`) | none of its own: due windows and dedupe keys | invite, RSVP and same-day reminders, weekly digest, recommendations | publish; called by cron every ten minutes |
| Sessions (`src/auth`) | `User`, `Session` rows | Google sign-in, refresh-token rotation, logout, account deletion, profile update | everything (cascades) |
| Groups and plans (`src/social/social-groups.service.ts`, `src/social/plans.service.ts`) | `Group`, `GroupMember` rows | create, invite, join by code, join by policy, request, decide, leave, update, report | publish |
| Group events, RSVPs, messages (`src/social/social-group-events.service.ts`) | `GroupEvent`, `GroupEventRsvp`, `GroupMessage` rows | propose, answer, write and delete messages, open a plan | membership, publish |
| Lists of plans and messages (`src/social/plans.service.ts`, `social-groups.service.ts`) | none: a cursor or an offset the client holds | discoverable plans, friends' public plans, messages | the rows above, the clock |
| Google Data Portability import (`src/google-data-portability`) | `GoogleDataImport` and item rows: status, OAuth state, archive job | start, OAuth callback, poll, process, retry, revoke, resolve items | Google APIs, job queue, visits and saves |
| Single flight and place caches (`src/infrastructure/cache`, `src/places`) | Redis keys and locks, per-process maps, `City` rows | load once, wait, read cached | Google Places |
| Nearby places and ranking (`src/places/places-nearby*`, `src/lib/nearby-ranking.ts`) | none: reads places, curations, the cached pool | the carousels of the home screen | Google Places, curations |
| Place curation and admin (`src/admin`) | `PlaceCuration` rows, `Place.hiddenFromApp` | create, update, expire, delete, hide | nearby places |
| Follow graph and visibility (`src/infrastructure/repositories/social`, `src/social/social-users.service.ts`) | `UserFollow`, `UserSettings` rows | follow, unfollow, settings, feeds, profiles, a place's social context | publish |
| Guides (`src/social/social-diaries.service.ts`) | `Diary`, `DiaryPlace` rows | create, edit, publish, add places, read | follow graph, publish |
| Visits, saves, place tags | `Visit`, `SavedPlace` rows | create, save | follow graph, publish |
| Google client, presenters, DTOs, config, metrics | none | pure functions and I/O | — |

What is hard in it:

* *overlap*: a queued job, the dispatch endpoint and another replica run
  `dispatchPending` at the same time; two devices refresh with the same token;
  two administrators decide one request;
* *stale reads*: rows are read, something is awaited (Expo, another query), and
  the rows are updated by id whatever they are by then;
* *partial failure*: one failed update rolls a whole batch back; an assertion
  after a commit turns a success into an error answer;
* *loss and retry*: enqueueing errors are swallowed, in-process jobs die with the
  process, pg-boss jobs are retried, an HTTP timeout hides whether Expo accepted;
* *deletion*: deleting an account cascades through all of these rows under
  running calls.

What makes each part correct:

* push: bounded retries, counted in messages sent and not by the column that stale
  writes put back, no sends to devices revoked before the call, no
  fictitious deliveries, settled means settled, nothing pending for ever;
* sessions: a refresh token is used once, a sign-in has exactly one usable token
  until it is ended, no session outlives its account;
* membership: the creator keeps the group, nobody is a member against their will
  or against the join policy, one decision for each request, no write behind an
  error answer;
* imports: no item of a completed run is lost, matched means saved, runs keep
  their resolve limit and undo each other only where they race or fail, an import in processing ends,
  a deleted one stops;
* automations: one notification for each dedupe key, no reminder lost in any time
  zone, none that nothing called for;
* plans: news go to members, a call's effect is justified by settings that were
  in force during it, the exact place of a plan (address
  and coordinates; its name is in the preview) stays among its members, page by page every row is shown once;
* privacy: visits and guides that are private throughout a call stay out of its
  answer, wherever it is asked;
* guides: followers are told of publications only, places keep the order in
  which they were added;
* places: one loader for each key, failures stay in the process that meets them, deaths
  hang nobody, hidden places
  stay hidden, promoted ones come first.

`PROJECT.json` lists the hazards one by one, each at its line.

## 2. Modules

| Module | Models | Checked by | Proved in |
|---|---|---|---|
| `PushDispatch` | deliveries, installations, queued dispatch jobs, calls of `dispatchPending` and `syncReceipts` | `MCPushDispatch`, `MCBackground` | `PushDispatch_proofs` |
| `PushSends` | how often deliveries are sent: history beside `PushDispatch` | `MCPushDispatch` | `PushDispatch_proofs` |
| `AuthSessions` | users, sessions, concurrent sign-ins and refreshes | `MCBackground` | `AuthSessions_proofs` |
| `Outbox` | the life cycle of a delivery; implemented by `PushDispatch` | `MCPushDispatch` | `PushDispatch_proofs` |
| `Logins` | what a sign-in promises; implemented by `AuthSessions` | `MCBackground` | `AuthSessions_proofs` |
| `GroupMembership` | one group, its membership rows, concurrent requests | `MCGroupMembership` | `GroupMembership_proofs` |
| `GoogleImport` | one import, its items, the owner's requests, the queued jobs | `MCGoogleImport`, `MCBackground` | `GoogleImport_proofs` |
| `Automations` | runs of the automations, the dedupe keys, members, time zones, the clock | `MCAutomations` | `Automations_proofs` |
| `PlanActivity` | calls inside one plan: events, answers, messages, reports, reading it | `MCPlans` | `PlanActivity_proofs` |
| `PlanPages` | lists of plans and messages, read page by page | `MCPlans` | `PlanActivity_proofs` |
| `SocialGraph` | follows, settings, the feeds, profiles, guides and place contexts that show one author, the news of a visit | `MCSocial` | `SocialGraph_proofs` |
| `Guides` | edits of one guide and additions of places to it | `MCSocial` | `SocialGraph_proofs` |
| `PlacesCache` | the cache of Google's answers and the single flight in front of it | `MCPlaces` | `PlacesCache_proofs` |
| `NearbyPlaces` | one request for a carousel while admins curate and hide | `MCPlaces` | `PlacesCache_proofs` |

`HomeScreen` (`PlacesCache`, `NearbyPlaces`), `PlanScreens` (`PlanActivity`, `PlanPages`) and
`SocialContent` (`SocialGraph`, `Guides`) put two components beside each other and name the
properties of the second; the runs and the proofs extend them.

The MC modules give the constants their values. Four of them hold two or three
components that share no state, or but a queue or the existence of a row: there a
behaviour is one part of them (`part`) and the variables of the others rest, so
that one run answers for all without multiplying their states. `MCPushDispatch`
and `MCGoogleImport` split the behaviours of one component in a similar way
(`overlap`, `trouble`): either calls overlap, or one goes at a time and a fault may strike
(or, for the import, the owner saves and unsaves places by hand).
The modules themselves, and the theorems about them, have no such split.

### PushDispatch

`row[d]` is the delivery row (`none` before `publish`, `deleted` after the cascade),
`inst[i]` the installation, `jobs[n]` the queued dispatch jobs with `n` retries
left, `run[w]` and `sync[s]` the calls in progress with everything they hold in
local variables. `sent` is what Expo has accepted, which no row records
reliably. `run[w].stale` is history: installations deactivated since the call
read them.

`PushSends` adds what the code does not count: `posts[d]`, how often `d` was in a batch
posted to Expo, and `extra[d]`, how many of these sends an overlap or a lost call accounts
for: a call that took `d` up while another call held it sends it once more, and a call that
ends between its post and the write of `attemptCount` has sent it unrecorded. The recorded
count alone would say little, for overlapping calls write what they read plus one.

| Code | Actions |
|---|---|
| `publish`, `scheduleDispatch` | `Publish`, `Enqueue` (coalesced or lost jobs are the second disjunct) |
| `registerMyPushInstallation`, `revokeMyPushInstallation`, account deletion | `RegisterInstallation`, `RevokeInstallation`, `DeleteAccount` |
| worker, `POST dispatch` | `RunJob`, `DispatchEndpoint`, both through `FindPending` |
| `dispatchPending` | `CancelInactive`, `SendAnswered` or `SendThrows` (with or without Expo having accepted), `RecordTicket`, `DisableAfterTicket`, `RecordThrows` into the catch block, `RollBack`, `RollBackThrows`, `RunDies` |
| `syncReceipts` | `FindTicketed`, `GetReceipts`, `ApplyReceipt`, `DisableAfterReceipt`, `ApplyThrows`, `SyncDies` |

`Publish` reads the active installations and creates the deliveries in one step: they are
statements of one transaction, and a revocation between the two is the same as one right
after it, since `dispatchPending` looks at the installation again.

Abstracted: texts, badges, timestamps. The order of delivery ids is the order
`(scheduledFor, createdAt)`; `sentAt` is not kept, so the order in which
`syncReceipts` takes rows is arbitrary. `DeviceNotRegistered` is `gone`,
`MessageTooBig` is `tooBig`, any other ticket error is `transient`.

### Outbox

What the push service promises of a delivery from outside: `Post` makes it open,
`Accept` is Expo accepting a message for it, which happens only while it is open,
and `Close` gives it one outcome, "delivered" only after an `Accept`; the deletion of
the account takes the outcome away. `PushDispatch` implements it (`OutboxSpec`)
with `accepted` as `sent` and a `stage` that is not the status of the row alone: a row
that a running call still holds in its snapshot is open whatever it says, because the call
may send it and write it again, and is closed when the last of them lets it go. A
second message for the same delivery, the first finding, is an `Accept` as well:
`Outbox` promises no more than the code keeps.

### AuthSessions

A request runs `authenticateWithGoogle` (`UpsertGoogleUser`, `HydrateUser`,
`CreateSession`) or `refreshSession` (`FindActiveSession`, `HydrateUser`,
`ConsumeSession`, `CommitRotation`). The rotation transaction is two steps:
`ConsumeSession` is the conditional `updateMany`, which takes the row lock
(`lock`), and `CommitRotation` inserts and commits. `Logout`, `Expire`,
`DeleteAccount` and `CallDies` come in between at any point that the lock allows.
`login`, `parent` and `closed` are history.

### GroupMembership

One group. Every request that reads before it writes is a `Start...` action,
which takes the snapshot `seen`, and a `Write...` action (or its `...Throws` twin
when a row it needs is gone or a row it creates is there). Single conditional
statements (`CancelJoinRequest`) are one step. Transactions run at PostgreSQL's
default isolation, so a read in the transaction protects nothing, and
`createMany` with `skipDuplicates` skips rows that appeared meanwhile. `willing`,
`admitted`, `opened`, `asked` and `decided` are history. `createPlan` and
`joinPlan` see the same rows through `/v1/plans`.

### GoogleImport

One import of one owner. `imp` is its row, `item[k]` the item with source key `k`,
`places` the places in the database, `saves` the owner's rows of saved places, `req[q]` the HTTP requests in progress, `job[j]` the queued and running
jobs with their local variables.

| Code | Actions |
|---|---|
| `createImport`, `deleteImport`, account deletion | `CreateImport`; `StartDelete`, `MarkRevoked`, `DeleteImport`; `DeleteAccount` |
| `handleOAuthCallback` | `StartCallback`, then `MarkFetching` or `CallbackFails` |
| `syncArchiveState` | `StartSync`, `UpdateArchiveState` or `RequestThrows` |
| `enqueueProcessCompletedArchive`, `enqueueIngestSavedCollections`, `enqueueRetry` | `StartProcess` (with `UpdateArchiveState`, `CheckArchive` when there are no URLs yet), `StartIngest`, `StartRetry`; all go on with `MarkProcessing`, `Enqueue` |
| `executeProcessCompletedArchive`, `executeIngestSavedCollections`, `executeRetry` | `TakeJob`, `Download`, the items, `MarkComplete` or `MarkFailed` |
| `processSavedCollectionItem` | `Lookup`, `Resolve`, the upsert of the saved place (`FindSave`, then `CreateSave` or `UpdateSave`), `RecordMatched` or `RecordReview` |
| `POST` and `DELETE` of place saves | `SaveByHand`, `UnsaveByHand` |
| what throws, and where it is caught | `Broken`, `Catch`, `JobThrows`; `JobFault` and `LookupFault` for statements that fail, `RequestDies` and `JobDies` for the process |

`savePlace` upserts with an `include`, which Prisma carries out as a look and a write: a
row that comes or goes in between makes the write fail (`Collides`), and the catch
block puts the item up for review. `upsertItem` and `upsertCity` have no `include` and
create by the unique key they look for: they are single statements.

A job whose promise rejects goes back to the queue while it has retries left
(`RetryLimit`: 3 with pg-boss, 0 in the process). Abstracted: tokens, the zip
format, URLs; `PlaceOf` is what the parser makes of an item, and it has no place id for
some. Items are known by their source key, each once in a run; a run takes them
in any order. `made`, `late`, `known`, `hurt` and `raced` of a job, `kept` (what jobs have
saved for the owner) and `covered` are history.

### Logins

`current[l]` is the usable session of the sign-in `l`, `used` every session that
has been usable. `AuthSessions` implements it (`LoginsSpec`): a sign-in's current
session is the active one whose `login` it is. Creating a session is `SignIn`,
committing a rotation is `Rotate` in one step although the code does it in two,
logout, expiry and account deletion are `End`, everything else stutters.

### Automations

A run is one `POST /internal/notifications/automations`. `StartRun` reads the users
with their latest time zones and computes their local times, once; `NextPhase`
makes the query of the next phase (`InviteKeys`, `RsvpKeys`, `TodayKeys`,
`DigestKeys`, `ContextualKeys`) and so fills `todo`; the notifications are then
published one by one. `publish` is two statements: `CheckExisting` looks for the
dedupe key, `Insert` creates the row or meets the unique key, whose error is
swallowed with the rolled-back transaction. `RunFails` ends a run anywhere, except
in the last phase, whose publishes are caught one by one. The clock counts minutes
from a Sunday; local days and minutes, windows and targets are computed as in the
code, with the day of an event in UTC and the user's day in the user's zone.
`seen` (what some moment of a run called for) and `steady` (what has been wanted
since it became due) are histories; `EventKeys`, `DueKeys` and `OpensAt` are the
reference the queries are compared with.

Abstracted: whom a recommendation is about; a digest or recommendation may turn
out to have nothing to say (`NothingToSay`).

### PlanActivity

One plan, one event. A call is a chain of queries (`addGroupEvent`,
`setGroupEventRsvp` behind `plans.setRsvp`, `sendMessage`, `report`, `get`,
`getGroup`), one action each, in the order of the code; between any two of them
`UpdateGroup` changes the settings and memberships change. `during`, `ever` and
`always` of a call record the settings and members at its moments: properties
compare what a call did with what was true while it ran.
`GroupMembership` has the calls that change memberships; here a change is one step.
`ExactPlaceForMembers` is about `get` and `setRsvp`: `full` is the plan with the address and
the exact coordinates of its place, `preview` carries the place's id, name and photo and
rounded coordinates. `getGroup`, which opens a group to who is invited as well, is in the
model and not in that property.

### PlanPages

A row's place in a list is its date and its id. `discover` and `listMessages`
go on after a cursor (`CursorPage`), `listPublicFriendGroupPlans` at an offset
(`OffsetPage`) of a list sorted anew. Between two pages rows are listed
and unlisted, events move, time passes (`MoveEvent`, `Tick`).

### SocialGraph

A viewer and an author. `QueriesOf` gives for each way to read the author
(`Sources`: the four feeds, the profile's visits, a place's context, a guide, the
author's guides, the search) what its queries read, in order; `ReadNext` makes one
of them and `Show` decides by the rule of that code (`Shows`). The context of a place has
two answers, which its three queries, in any order, feed: the visits of people
(`PlaceContextShows`), and the ids and names of the guides the place is in
(`AppearancesShow`), for which the owner's settings are not read. The rules are
translated one by one: some are `where` clauses, some are `canViewContent` in
memory. `FindFollow`, `CreateFollow`, `AnswerFollow` are the statements of
`followUser`; `CreateVisit` to `PublishVisit` those of the news of a visit. `during`
is the history of a call's moments.

### Guides

`UpdateDiary` reads and computes (`DateOnUpdate`, `NextVisibility`), `PatchDiary`
writes the date always and the visibility if it was asked for, `Publish` tells the
followers. `AddPlace`, `FindPlace`, `AggregateMax`, `UpsertPlace` are the statements
of one transaction, which at the default isolation does not keep others out.

### PlacesCache

A request looks a key up in the shared cache (`CacheGet`), joins or leads the flight
of its process (`JoinOrLead`), and the leader takes the Redis lock
(`AcquireLock`) or polls cache and lock (`PollCache`, `PollLock`) until the answer is
there, the lock is gone, or its wait is over (`WaitEnds`). The load asks the
database first for a city, then Google, stores the city, sets the cache, and
deletes the lock whosever it is (`DeleteLock`), one step for each await. Each of these
statements may fail, with or without effect: before or in the load (`FlightFails`), at the
deletion of the lock (`DeleteLockFails`), outside the flight (`RequestFails`). A missing
entry of a spot may be read as a cached null (`CacheGetNull`; versions of cache-manager
differ), and a lookup by coordinates that is told null asks Google once more (`AskAgain`,
`ResetCache`, `KeepCity`), outside the flight and not counted as a load. Time is not counted: locks, entries
and waits may end at any moment (`LockExpires`, `CacheExpires`). Replicas die with
everything they hold in memory, not with what is in Redis.

### NearbyPlaces

One request: the pool (`PoolFromGoogle`, from the cache or fresh, or
`PoolFromStore`), then the hidden places, the stored candidates, the city's
curations, and the ranking, each a round of queries. Pins, picks, caps and
`prependAdminCuratedPlaces` are operators on sequences; scores are any order, and which
places are near, open, liked or of enough quality is any set.
`HideFirst` and `WriteCuration` are the two statements of an admin's request.

## 3. Runs

| Run | Question | Bounds |
|---|---|---|
| `push` | Whatever overlaps, is retried or fails: is each send beyond the limit owed to an overlap or a lost call, are revocations respected, no deliveries invented, and `Outbox` implemented? | 2 deliveries of one device; 2 overlapping calls, or one at a time with a receipt sync, a job, a retry and a fault; 2 attempts; the sends of one delivery counted (`Watched`); while calls overlap only the first delivery is ever deleted, the tickets of the other say ok or that the device is gone, and a revoked device stays so (`FewChanges`) |
| `push_double_send` (violated) | Is a delivery ever sent by two calls at once? | 2 calls, 1 delivery |
| `sessions_background` | Does rotation keep exactly one usable token, and implement `Logins`? Does every delivery leave `pending`, does an import in processing end, do repeated retries match everything that can be resolved? | 3 requests, 3 sessions, 1 user, ids and slots taken in order (`InOrder`); 2 calls, 2 deliveries in batches of one, a device registered once and one delivery deleted (`RegisteredOnce`); 1 import of 2 items, 1 job, 1 request, 1 resolve for each run; no faults in the last two |
| `group_members` | Do stale writes break ownership, consent, policy or decisions? | 3 requests, 2 users, 1 join request each |
| `group_rejected` (violated) | Does an error answer leave rows behind? | 1 request, 2 users |
| `import_jobs` | Do jobs, overlapping or struck by a fault, lose items, overrun the limit, undo what was matched but for an early look, a fault or a collision, survive deletion? | 2 items, 1 request, 1 retry, 1 resolve for each run; 2 jobs that overlap while the account and the URLs of a complete archive stay and nobody else resolves a place, or one at a time with 1 fault, or one at a time with 1 save or unsave by hand (`MaxByHand`) |
| `places` | One loader for each key, failures of any statement that stay local, cached cities stored, no request that hangs? Hidden places out, no place twice, promoted ones first? | 2 replicas, 2 requests, 4 lookups, a waiter that loads after its first lost race (3 in the code); 2 places, every curation and variant, answers of 1 and 2 places, 1 pick and 1 curated slot (4 and 5 in the code), 1 admin request |
| `automations` | One notification for each key, no reminder lost, none unjustified? | 1 user, zones −12:00 and −3:00 (and none), 1 event on either of 2 days, runs at least every 30 minutes from Sunday 21:00 to Monday 21:00 UTC, 2 runs at a time, 1 change by a member, 1 failing run |
| `plans` | The right people told, one setting to justify a call, the exact place among members? Every row shown once? | 2 users, 2 calls, 1 change of a membership or to one of 2 settings, 1 message; 3 rows, 2 dates, pages of one, 2 changes while reading |
| `social` | Does anything private show up, do news reach the right people? News and order of guides? | 2 calls (one of them reads, the other visits, both follow), 2 changes, one read or visit under way at a time (`OneWatches`); 2 edits; 3 places added, 1 of them at a position |
| `follow_twice` (violated) | Can a follow fail because one is under way? | as `social` |
| `guide_appearances` (violated) | Does the context of a place keep to the diary setting? | as `social` |

Why the bounds are enough: the races are pairwise (one call reads, another
writes, the first writes), and two processes and a third that starts from the
result reach them. Two attempts distinguish the first failure from the last one;
two deliveries in one batch let a failed update roll back a ticket that was
already written; batches of one, in the liveness run, let a call go on to a second batch
with a stale snapshot, and the theorems cover batches of any size. Three sessions allow a
chain of two rotations, or a race of two refreshes; the theorems cover any number. One resolve for each run and two items put a run at its limit with
an item to go. Lists of three rows with pages of one have a row before the cursor, at it
and after it, with tied dates. Two places and slots of one put the ranking's caps and the
answer's limit at their boundary. A whole day of the clock passes every local
hour with a target in it in both zones, midnight included; zones far west are the
ones for which the query by the UTC date could cut an event off, and half-hour
steps meet a window of one hour twice, so that one failing run must not lose a
reminder. The zones east of UTC, more users and the events of other statuses are
covered by the theorems.

Symmetry is used for interchangeable calls, jobs, runs and places, never in a run with a
liveness property, where ids are taken in a fixed order instead (`InOrder`). The `import_jobs` run leaves the import's status out of the
fingerprint (`View`): no action reads it, and none of the properties of that run
does. Deadlock is not checked: with all tokens spent, all deliveries settled, all
changes made or the clock at its end the model rightly rests. All constants named
`Max...`, `RetryLimit` with values below the code's, `End` and the sizes of the sets of
processes are bounds of the models.

Each property is also checked to be breakable: `PROJECT.json` pairs it with a
mutated definition (an off-by-one in the attempt limit, a missing filter, a
dropped `where` clause, half of a transaction, tomorrow in UTC, a cursor without
its tie-breaker) under which TLC finds it violated.

### Fairness

`CallsFinish` says that a push call that has started goes on (every await is a
database statement or an HTTP call with a time-out) and that the
queue runs its jobs. It says nothing of publishing, revoking, deleting
or crashing. `DispatchFairness` adds repeated calls of the dispatch endpoint, which
`docs/async-jobs.md` describes as the fallback, and of the receipts endpoint, which
`deploy/hetzner/scripts/cron-notifications.sh` calls. The deployed cron script does
not call dispatch, and `PendingDrains` would not hold with what it calls alone: a
failed attempt puts the delivery back to `pending`, the job ends successfully,
and nothing but a later dispatch takes it up.

`WorkFinishes` of `GoogleImport` says the same of requests and import jobs.
`RetriesConverge` assumes `OwnerRetries` besides, strong fairness of `StartRetry`: an
owner who asks again whenever other requests leave room. That is a statement about
the client and not about the service, so it is part of the property. Nothing in the
service polls the archive after the OAuth callback (plan 021 asks for it, the code
has no such job): the way out of `fetching` is the client's, and no liveness is
claimed of it.

`Fairness` of `PlacesCache` lets every request make its next statement (weakly fair) and
lets the deadline of a wait be noticed (strongly fair: the loop tests it in every turn, and
is between two tests most of the time). Nothing is assumed of locks or entries: Redis
may never drop one.

## 4. Findings

* **Deliveries are not claimed** (`push_double_send`). `plans/010-claim-push-deliveries.md`
  promises that "overlapping workers never send the same pending push delivery
  twice" and is recorded as done; `dispatchPending` reads with a plain `findMany`.
  What still holds, and is proved, is weaker: each overlap costs a delivery one send beyond
  `MAX_SEND_ATTEMPTS` at most (`RetryBudget`), and settled rows are not taken up again.
* **Rejected requests leave rows** (`group_rejected`). `plans/008-transactional-group-writes.md`
  promises that a 4xx answer leaves no partially created group or membership;
  `createGroup` and `addGroupMembers` assert the invite policy after the write.
* **Following is not idempotent** (`follow_twice`). `docs/social-graph.md` says that
  follow and unfollow are; of two concurrent follows one fails on the unique pair.
  No follower is announced twice all the same (`FollowNewsIsNew`).
* **A place's context ignores the diary setting** (`guide_appearances`).
  `plans/009-enforce-diary-visibility.md` makes the setting authoritative and asks for a test
  "across every read surface"; it is recorded as done. `getPlaceSocialContext` returns id and
  name of every public guide the place is in and does not read its owner's
  `diaryVisibility`. The guide itself stays closed: opening it checks the setting.

Other observations, which contradict no document and are therefore hazards in
`PROJECT.json` and not runs: the deployed cron script never calls dispatch; an import
whose process dies between the status and the job stays in processing; the single
flight may load twice although the answer is cached; edits of one guide that
overlap leave a shared guide without a date; two runs of an import that save the same place
may put a matched item back to review; promoted places come back after the slot cap
has excluded them.

## 5. Proofs

All theorems are for arbitrary sets of deliveries, calls, users, sessions,
requests, replicas, events and zones, arbitrary limits and an arbitrary number of
changes and faults. Assumptions on constants are the `...Assumption`s of the modules: ids
are naturals where their order matters, limits are naturals, `None` is not an id, the
owner of a plan is a user, settings are settings, and zones lie between −12 and +14
hours.

The type invariants (`TypeOK`) are not among the properties of the runs: the theorem
`TypeCorrect` of each of the eight proof modules is the stronger statement.
`ReplacedOnce` (a refresh token has one replacement) is left to its theorem too, and so is
`SettledIsFinal`, most of which `OutboxSpec` says.

**PushDispatch.** `TypeCorrect`, `RetryBudgetHolds`, `RevocationHolds`,
`DeliveredWasSentHolds`, `SettledIsFinalHolds`. The type invariant bounds the recorded
attempts: an attempt count written from a snapshot stays within the limit because
every snapshot was taken of a pending row, and a pending row has attempts left. The
invariant therefore ranges over the snapshots too. `DeliveredWasSent` needs that
a call in its ticket loop holds `ok` tickets only for messages Expo accepted, and
that a sync holds only deliveries that were sent: a row is found by a sync
because it was ticketed then, and `sent` never shrinks. `SettledIsFinal` follows
from the shape of the steps once it is known that every row a call writes is one it
holds.

`RetryBudgetHolds` is about `SendsSpec`, with the sends counted. The call that takes a delivery up
when nobody holds it is its first holder, and there is one at a time. `CountedOnce` says that
the sends that are not extra are counted by the row, by every snapshot that may yet be
written over it, and, between the first holder's post and its write, by one more. So a stale
count that is written back is behind the extra sends only.

`OutboxRefined` states the refinement: `PushDispatch` implements `Outbox`. It rests on
two facts about snapshots. Every delivery that a call holds was posted
(`HeldWasPosted`), so that a held row that is deleted under the call is still open and
not new; and a row nobody holds is left alone by every step that is not a publication
(`RowsStay`, `NextUnheld`), so that a closed delivery stays closed. Sending changes
no row and holds what it sends (`SendsOnly`, `SendsHeld`), which makes it an `Accept`. All
other steps are a `Post`, a `Close` or a stutter.

**AuthSessions.** `TypeCorrect`, `ReplacedOnceHolds`, `OneActivePerLoginHolds`,
`LoginNotLostHolds`, `ActiveHasUserHolds`. The strengthening describes the lock: a
call between the two statements of a rotation is the only one that locks its old
session, which is still active, so no logout, expiry, deletion or second rotation
can have come in between; a session with a successor is no longer active; and
login chains have one active end.

`LoginsRefined` states the refinement: `AuthSessions` implements `Logins`. Each
step maps to one of its actions or stutters, by the same invariant: the lock makes the
two statements of a rotation look like one, and a login with no active
session left never gets one again, because only a request that holds the lock of an active
session creates another.

**GroupMembership.** `TypeCorrect`, `CreatorOwnsHolds`, `AcceptedIsWillingHolds`,
`DecidedOnceHolds`, `InviteOnlyAdmitsInvitedHolds`, `DemotedOnlyByStaleCallHolds`.
None of the updates looks at the role, so `CreatorOwns` is preserved only because
no call in progress can hold the creator with a status that leads to a write:
that is the part `CallSafe` of the invariant. `JoinSafe` says the same of joins
and the join policy they read. `Undecided` says that there is an undecided request behind
every row that reads `requested`.

**GoogleImport.** `TypeCorrect`, `CoveredIsRecordedHolds`, `MatchedWasSavedHolds`,
`ResolveBudgetHolds`, `DeletionStopsJobsHolds`, `MatchedStaysHolds`, from
`ConstantsAssumption`. The invariant has two halves. `JobOK` is about a job alone:
the places it made are those it counted and the one it holds, it resolves only
below the limit, and once it has saved a place too late it can only be on its way
to its end. `Knows` is about what it may rely on in the rows while the import
exists: what the run is done with is on record, what it is about to record as
matched is saved, and a place that it found is not up for review without a fault or a
collision.
`Fresh` and `RequestsOK` say that nothing runs before the import exists, and so
cover the one step (`CreateImport`) that makes it exist.

**PlacesCache.** `TypeCorrect`, `SingleFlight`, `FailureIsLocal`, `CachedCityHasRow`.
`LockHeld` says that a request that believes it holds the lock of a key holds it, unless
the key is `late`: a lock expired or a wait was given up. `LoadersLock` says that who
loads believes so. `RequestsSane` says what each stage of a request may rely on: who
is past the row has stored the city, who carries an error belongs to a flight that met a failure.

**SocialGraph.** `TypeCorrect`, `PrivacyHolds`, `FollowNewsAreNew`,
`VisitNewsReachFollowers`. `HasRead` is the heart: each field a reader holds was true at one
moment of its call, or the query that reads it is still to come. The
rules of visibility are then compared with those moments, source by source; for the
names of guides in a place's context `PrivacyHolds` claims only what the guide's own
visibility decides.
`NewsCount` counts the calls that created a row and have not told of it.

**Guides** (in `SocialGraph_proofs`). `PublicationsAreNews`, `PlacesAppendedInOrder`. `NewsSound`
ties the news a call holds to the moments of that call; `EditsSound` says
that without an overlap the row is still as the only edit in progress read it.
For the order of the places, `EarlierStay` and `AddsSound` say that the places that were
settled when an addition began are still in the guide, and that the position it is about
to write, unless its place has that one already, lies behind theirs; `OrderKept` is the order itself.

**PlanActivity.** `TypeCorrect`, `RightPeopleAreTold`, `SettingsJustify`,
`MembersSeeThePlan`. `CallsSound` ties what a call holds at each of its stages to its
histories; `OwnerStays` and `ProposerKnown` keep the admin and the proposer
among the recipients.

**PlanPages** (in `PlanActivity_proofs`). `PagesShowRowsOnce`, from `PageParameters`:
finitely many rows, dates with a last one, pages of at least one row. Of a list sorted by
date and id the lemmas use only that it holds every row once and in order.
The invariant says what has been shown by now: the kept rows up to the cursor
(`CursorInv`), or, while nothing changes, the rows up to the offset (`OffsetInv`).

**Automations.** `TypeCorrect`, `OnePerKey`, `RemindersWereDue`, `RemindersReachMembers`. A run has in `seen`
every reminder that was due at any moment of it, so what a query returns is in
`seen`, and stays there while publishes go on (`RunsBacked`). The lemmas
`RsvpAreDue` and `TodayAreDue` compare the queries with the reference.

`RemindersReachMembers` goes the other way: what the reference calls for during its
hour is among what the queries return, for every zone between −12 and +14 hours and
across midnight, which takes lemmas about `\div` and `%` on local days and minutes.
Cron starts a run in every `Step` of the clock, and each run of the hour has published the
reminder, still carries it (`Carries`), or has failed: while a reminder is wanted and not
sent, the failures and the carriers cover the part of its hour that has passed (`Covered`).
The hypothesis is `MaxFaults * Step < 60`: fewer runs fail than are
started in one hour (the deployed cron calls every ten minutes). Without it the property is
false, because a reminder whose window passes is not made up for.

**NearbyPlaces** (in `PlacesCache_proofs`). `HiddenPlacesStayHidden`, `PlacesAppearOnce`,
`CuratedPlacesLead`, from `NearbyParameters`: finitely many numbered places, a
natural number of picks, requests for a natural number of places. `CandidatesSound` and `RowsSound` say
that the places and curations a request goes on with were not hidden at every moment since
it began, and were promoted at all of them or at one; `AnswerSound` says what the ranking
makes of that. The
lemmas are about the operators on sequences: what taking a prefix, leaving elements out
and putting lists of distinct places one behind the other does to their elements and
keeps distinct. That a finite set can be listed in order is proved from its
smallest element not yet listed.

Every safety property that a passing run checks, and both refinements, are theorems. Only
model-checked are `PendingDrains`, `PollingEnds`, `RetriesConverge` and `RequestsEnd`: liveness
under fairness is out of the prover's reach. The violated properties are counterexamples.
Nothing is proved by induction over data: where the argument needs it, as for listing a
set in order, it is replaced by a least element.

## 6. Not modelled

* Presenters, DTOs, configuration, metrics, health: stateless or pure I/O.
* Token cryptography, HTTP validation, rate limits; the zip format, URLs, field masks
  and JSON of Google's APIs beyond what they may answer.
* Scores of the ranking: floating-point numbers with a jitter by the hour. What
  is modelled is what holds for every order they may give.
* Text search over users, places and plans, user suggestions, taste profiles.
* Single-row writes of one user with no promise across calls: marking notifications as
  read, single saves, place tags, profile fields.
* `getOperationalStatus` and other reads that change nothing.
* The version counter of autocomplete keys, in the memory of each process; the
  configuration without Redis; what an autocomplete reads around its call to Google.
* Chips of friends on nearby places (`getNearbyNetworkSignals...`), which are judged as a
  place's context judges visits.

Row locks are modelled only in the session rotation, where the code relies on
them. pg-boss's expiry of jobs whose worker died is part of
`RunDies` and `JobDies`: the job is retried at an arbitrary later time. All other
transactions run at PostgreSQL's default isolation, where a read protects nothing; their
statements are steps of their own wherever another transaction may come in between.

## 7. What is left

1. The composition of `GroupMembership` and `PlanActivity`, where a change of a membership is
   now one step.
2. Abstract specifications of an import and of a membership, as `Logins` and `Outbox` are of
   a sign-in and of a delivery.
3. The version counter of autocomplete keys, and what hiding a place leaves in them.
