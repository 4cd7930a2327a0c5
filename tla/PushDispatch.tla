----------------------------- MODULE PushDispatch -----------------------------
(***************************************************************************)
(* Push deliveries: how publish() creates them, how overlapping calls of    *)
(* PushDispatchService.dispatchPending() send them to Expo, and how         *)
(* syncReceipts() settles them (social/push-dispatch.service.ts).           *)
(*                                                                          *)
(* Every database statement and every HTTP call is one step, so that other  *)
(* calls interleave at each await.  A call keeps what it read: the rows it  *)
(* found, their attemptCount and whether their installation was active.     *)
(*                                                                          *)
(* A delivery is a natural number; the order of the numbers is the order of *)
(* (scheduledFor, createdAt).  Message text, timestamps and error texts are *)
(* abstracted away.                                                         *)
(***************************************************************************)
EXTENDS Integers, FiniteSets

CONSTANTS
  Deliveries,           \* ids of the delivery rows that publish may create
  Installations,        \* push installations (devices)
  InstallationOf,       \* the installation each delivery is addressed to
  Workers,              \* slots for concurrent dispatchPending() calls
  Syncers,              \* slots for concurrent syncReceipts() calls
  MAX_SEND_ATTEMPTS,
  MAX_SEND_BATCH_SIZE,
  MAX_RECEIPT_BATCH_SIZE,
  JobLimit,             \* the limit of a queued dispatch job
  EndpointLimits,       \* limits POST /internal/notifications/* may ask for
  RetryLimit,           \* retries of a failed job (3 with pg-boss, else 0)
  MaxJobs,              \* bound: queued jobs for each number of retries left
  MaxFaults             \* bound: crashes and failed database statements

ASSUME ConstantsAssumption ==
  /\ Deliveries \subseteq Nat
  /\ InstallationOf \in [Deliveries -> Installations]
  /\ MAX_SEND_ATTEMPTS \in Nat \ {0}
  /\ RetryLimit \in Nat
  /\ MaxJobs \in Nat
  /\ MaxFaults \in Nat

VARIABLES
  inst,    \* push_installation rows
  row,     \* push_delivery rows
  sent,    \* deliveries Expo has accepted a message for (what devices may show)
  jobs,    \* queued dispatch jobs, by retries left
  run,     \* the dispatchPending() calls
  sync,    \* the syncReceipts() calls
  faults   \* crashes and failed statements so far

vars == <<inst, row, sent, jobs, run, sync, faults>>

(***************************************************************************)
(* Types.                                                                   *)
(***************************************************************************)
Statuses == {"none", "pending", "ticketed", "delivered", "failed",
             "cancelled", "deleted"}
Settled  == {"delivered", "failed", "cancelled"}

\* What an Expo ticket or receipt says: accepted, an error worth a retry,
\* DeviceNotRegistered, or MessageTooBig.
Tickets  == {"ok", "transient", "gone", "tooBig"}
Receipts == {"ok", "error", "gone"}

Attempts == 0..MAX_SEND_ATTEMPTS

RowType == [status : Statuses, attempts : Attempts, ticket : BOOLEAN]

RunType ==
  [pc      : {"idle", "cancel", "send", "record", "disable", "rollback"},
   left    : 0..RetryLimit,               \* retries left of the job it runs
   dead    : SUBSET Deliveries,           \* inactiveDeliveries
   rest    : SUBSET Deliveries,           \* activeDeliveries not yet batched
   batch   : SUBSET Deliveries,           \* the batch being sent
   todo    : SUBSET Deliveries,           \* of the batch, not yet written
   seen    : [Deliveries -> Attempts],    \* attemptCount as it was read
   tickets : [Deliveries -> Tickets],     \* Expo's answer
   stale   : SUBSET Installations]        \* history: deactivated since it read

SyncType ==
  [pc       : {"idle", "ask", "apply", "disable"},
   rest     : SUBSET Deliveries,
   todo     : SUBSET Deliveries,
   off      : SUBSET Installations,       \* the installation to disable next
   receipts : [Deliveries -> Receipts]]

TypeOK ==
  /\ inst \in [Installations -> {"absent", "active", "inactive"}]
  /\ row \in [Deliveries -> RowType]
  /\ sent \subseteq Deliveries
  /\ jobs \in [0..RetryLimit -> 0..MaxJobs]
  /\ run \in [Workers -> RunType]
  /\ sync \in [Syncers -> SyncType]
  /\ faults \in 0..MaxFaults

NoRow  == [status |-> "none", attempts |-> 0, ticket |-> FALSE]
NewRow == [status |-> "pending", attempts |-> 0, ticket |-> FALSE]

IdleRun ==
  [pc |-> "idle", left |-> 0, dead |-> {}, rest |-> {}, batch |-> {},
   todo |-> {}, seen |-> [d \in Deliveries |-> 0],
   tickets |-> [d \in Deliveries |-> "ok"], stale |-> {}]

IdleSync ==
  [pc |-> "idle", rest |-> {}, todo |-> {}, off |-> {},
   receipts |-> [d \in Deliveries |-> "ok"]]

Init ==
  /\ inst = [i \in Installations |-> "absent"]
  /\ row = [d \in Deliveries |-> NoRow]
  /\ sent = {}
  /\ jobs = [r \in 0..RetryLimit |-> 0]
  /\ run = [w \in Workers |-> IdleRun]
  /\ sync = [s \in Syncers |-> IdleSync]
  /\ faults = 0

(***************************************************************************)
(* Helpers.                                                                 *)
(***************************************************************************)
Exists(d) == row[d].status \notin {"none", "deleted"}

Active(d) == inst[InstallationOf[d]] = "active"

\* orderBy scheduledFor, createdAt with take: n; also one chunk of size n.
First(S, n) == {d \in S : Cardinality({e \in S : e < d}) < n}

\* Any n members of S, or all of them: rows in an order that is not tracked.
Some(C, S, n) == /\ C \subseteq S
                 /\ Cardinality(C) <= n
                 /\ C = S \/ Cardinality(C) = n

\* The loops over a batch go in order.
IsNext(d, todo) == d \in todo /\ \A e \in todo : d <= e

\* isPermanentExpoError, shouldDisableInstallation
Permanent(ticket) == ticket \in {"gone", "tooBig"}
Disables(ticket)  == ticket = "gone"

\* Mutant of AfterFailure: an attempt too many.
AfterFailureOneMore(attempts, permanent) ==
  IF permanent \/ attempts > MAX_SEND_ATTEMPTS THEN "failed" ELSE "pending"

\* The status an unsuccessful attempt leaves behind.
AfterFailure(attempts, permanent) ==
  IF permanent \/ attempts >= MAX_SEND_ATTEMPTS THEN "failed" ELSE "pending"

\* An installation goes inactive: every running call's snapshot is now stale.
Deactivate(I) == inst' = [i \in Installations |->
                            IF i \in I /\ inst[i] = "active" THEN "inactive"
                                                             ELSE inst[i]]
Outdate(runs, I) ==
  [w \in Workers |->
     IF runs[w].pc = "idle" THEN runs[w]
                            ELSE [runs[w] EXCEPT !.stale = @ \cup I]]

(***************************************************************************)
(* Installations and accounts.                                              *)
(***************************************************************************)
\* registerMyPushInstallation: other installations that hold the same token
\* (some set R of them) are revoked, then this one is created or reactivated.
RegisterInstallation(i, R) ==
  /\ R \subseteq {j \in Installations : j # i /\ inst[j] = "active"}
  /\ inst' = [j \in Installations |->
                CASE j = i -> "active"
                  [] j \in R -> "inactive"
                  [] OTHER -> inst[j]]
  /\ run' = Outdate(run, R)
  /\ UNCHANGED <<row, sent, jobs, sync, faults>>

\* revokeMyPushInstallation
RevokeInstallation(i) ==
  /\ inst[i] = "active"
  /\ Deactivate({i})
  /\ run' = Outdate(run, {i})
  /\ UNCHANGED <<row, sent, jobs, sync, faults>>

\* deleteMyAccount cascades to the user's installations I with all their
\* deliveries, and to the deliveries of the user's own notifications.
DeleteAccount(I, D) ==
  /\ I \cup D # {}
  /\ \A i \in I : inst[i] # "absent"
  /\ \A d \in D : Exists(d)
  /\ \A d \in Deliveries : Exists(d) /\ InstallationOf[d] \in I => d \in D
  /\ inst' = [i \in Installations |-> IF i \in I THEN "absent" ELSE inst[i]]
  /\ row' = [d \in Deliveries |->
               IF d \in D THEN [row[d] EXCEPT !.status = "deleted"] ELSE row[d]]
  /\ run' = Outdate(run, I)
  /\ UNCHANGED <<sent, jobs, sync, faults>>

(***************************************************************************)
(* publish(): the transaction creates pending deliveries for the active     *)
(* installations of the recipients, then scheduleDispatch() enqueues a job. *)
(* No job is added when the queue coalesces it by its singletonKey, when    *)
(* enqueueing fails (the error is swallowed), or when the process that      *)
(* holds an in-process job dies before running it.                          *)
(*                                                                          *)
(* The transaction reads the active installations in one statement and      *)
(* creates the deliveries in later ones; here it is one step, placed at the *)
(* read.  Nobody sees the rows before they are committed, so a revocation   *)
(* between the two looks like one that follows; an account that is deleted  *)
(* between them makes the insert fail, and nothing is posted.               *)
(***************************************************************************)
Enqueue ==
  \/ /\ jobs[RetryLimit] < MaxJobs
     /\ jobs' = [jobs EXCEPT ![RetryLimit] = @ + 1]
  \/ UNCHANGED jobs

Publish(D) ==
  /\ D # {}
  /\ \A d \in D : Active(d) /\ row[d].status = "none"
  /\ \A e \in Deliveries : row[e].status # "none" => \A d \in D : e < d
  /\ row' = [d \in Deliveries |->
               IF d \in D THEN NewRow ELSE row[d]]
  /\ Enqueue
  /\ UNCHANGED <<inst, sent, run, sync, faults>>

(***************************************************************************)
(* dispatchPending()                                                        *)
(***************************************************************************)
\* Mutant of Pending: failed deliveries are taken up again.
PendingOrFailed == {d \in Deliveries : row[d].status \in {"pending", "failed"}}

Pending == {d \in Deliveries : row[d].status = "pending"}

\* Mutant of FindPending: installations are not looked at.
FindPendingUnfiltered(w, limit, left) ==
  LET found == First(Pending, limit)
  IN  run' = [run EXCEPT ![w] =
        IF found = {} THEN IdleRun
        ELSE [IdleRun EXCEPT
               !.pc   = "send",
               !.left = left,
               !.rest = found,
               !.seen = [d \in Deliveries |->
                           IF d \in found THEN row[d].attempts ELSE 0]]]

\* Mutant of FindPending: attemptCount is not read, every attempt is the first.
FindPendingUncounted(w, limit, left) ==
  LET found == First(Pending, limit)
      live  == {d \in found : Active(d)}
  IN  run' = [run EXCEPT ![w] =
        IF found = {} THEN IdleRun
        ELSE [IdleRun EXCEPT
               !.pc   = IF live = found THEN "send" ELSE "cancel",
               !.left = left,
               !.dead = found \ live,
               !.rest = live]]

\* findMany(pending, take: limit) and the split by the installation's state.
\* Nothing is claimed: another call finds the same rows.
FindPending(w, limit, left) ==
  LET found == First(Pending, limit)
      live  == {d \in found : Active(d)}
  IN  run' = [run EXCEPT ![w] =
        IF found = {} THEN IdleRun
        ELSE [IdleRun EXCEPT
               !.pc   = IF live = found THEN "send" ELSE "cancel",
               !.left = left,
               !.dead = found \ live,
               !.rest = live,
               !.seen = [d \in Deliveries |->
                           IF d \in found THEN row[d].attempts ELSE 0]]]

\* PushDispatchWorker takes a job of the queue.
RunJob(w, left) ==
  /\ run[w].pc = "idle"
  /\ jobs[left] > 0
  /\ jobs' = [jobs EXCEPT ![left] = @ - 1]
  /\ FindPending(w, JobLimit, left)
  /\ UNCHANGED <<inst, row, sent, sync, faults>>

\* POST /internal/notifications/dispatch
DispatchEndpoint(w, limit) ==
  /\ run[w].pc = "idle"
  /\ Pending # {}
  /\ FindPending(w, limit, 0)
  /\ UNCHANGED <<inst, row, sent, jobs, sync, faults>>

\* The call returns, or goes on with the next batch.
NextBatch(r) ==
  IF r.rest = {} THEN IdleRun
  ELSE [IdleRun EXCEPT !.pc = "send", !.left = r.left, !.rest = r.rest,
                       !.seen = r.seen, !.stale = r.stale]

\* Inside a batch, go on with the delivery after d.
NextDelivery(r, d) ==
  LET left == r.todo \ {d}
  IN  IF left = {} THEN NextBatch(r)
                   ELSE [r EXCEPT !.todo = left, !.tickets[d] = "ok"]

\* updateMany by id, whatever the status is by now.
CancelInactive(w) ==
  /\ run[w].pc = "cancel"
  /\ row' = [d \in Deliveries |->
               IF d \in run[w].dead /\ Exists(d)
                 THEN [row[d] EXCEPT !.status = "cancelled"] ELSE row[d]]
  /\ run' = [run EXCEPT ![w] = NextBatch(@)]
  /\ UNCHANGED <<inst, sent, jobs, sync, faults>>

BatchOf(r) == First(r.rest, MAX_SEND_BATCH_SIZE)

\* Expo answers with one ticket for each message.
SendAnswered(w, tickets) ==
  LET batch == BatchOf(run[w])
  IN  /\ run[w].pc = "send"
      /\ sent' = sent \cup {d \in batch : tickets[d] = "ok"}
      /\ run' = [run EXCEPT ![w] = [@ EXCEPT
                   !.pc = "record", !.batch = batch, !.todo = batch,
                   !.rest = run[w].rest \ batch,
                   !.tickets = [d \in Deliveries |->
                                  IF d \in batch THEN tickets[d] ELSE "ok"]]]
      /\ UNCHANGED <<inst, row, jobs, sync, faults>>

\* The request fails, answers with an error status or a wrong number of
\* tickets, or times out; Expo may have accepted the messages all the same.
SendThrows(w, accepted) ==
  LET batch == BatchOf(run[w])
  IN  /\ run[w].pc = "send"
      /\ sent' = sent \cup accepted
      /\ run' = [run EXCEPT ![w] = [@ EXCEPT
                   !.pc = "rollback", !.batch = batch, !.todo = batch,
                   !.rest = run[w].rest \ batch]]
      /\ UNCHANGED <<inst, row, jobs, sync, faults>>

\* One ticket is written: update by id, attemptCount from the snapshot.
RecordTicket(w, d) ==
  LET r      == run[w]
      tried  == r.seen[d] + 1
      ticket == r.tickets[d]
  IN  /\ r.pc = "record"
      /\ IsNext(d, r.todo)
      /\ Exists(d)
      /\ row' = [row EXCEPT ![d] =
           IF ticket = "ok"
             THEN [status |-> "ticketed", attempts |-> tried, ticket |-> TRUE]
             ELSE [@ EXCEPT !.status = AfterFailure(tried, Permanent(ticket)),
                            !.attempts = tried]]
      /\ run' = [run EXCEPT ![w] =
           IF Disables(ticket) THEN [@ EXCEPT !.pc = "disable"]
                               ELSE NextDelivery(@, d)]
      /\ UNCHANGED <<inst, sent, jobs, sync, faults>>

\* disableInstallation after a DeviceNotRegistered ticket
DisableAfterTicket(w, d) ==
  /\ run[w].pc = "disable"
  /\ IsNext(d, run[w].todo)
  /\ Deactivate({InstallationOf[d]})
  /\ run' = [Outdate(run, {InstallationOf[d]}) EXCEPT ![w] =
               NextDelivery([@ EXCEPT !.pc = "record"], d)]
  /\ UNCHANGED <<row, sent, jobs, sync, faults>>

\* A statement inside the try block throws - the row is gone, or the database
\* fails - and the catch block starts over with the whole batch.
RecordThrows(w, d) ==
  /\ run[w].pc \in {"record", "disable"}
  /\ IsNext(d, run[w].todo)
  /\ \/ run[w].pc = "record" /\ ~Exists(d) /\ UNCHANGED faults
     \/ faults < MaxFaults /\ faults' = faults + 1
  /\ run' = [run EXCEPT ![w] = [@ EXCEPT
               !.pc = "rollback", !.todo = run[w].batch,
               !.tickets = IdleRun.tickets]]
  /\ UNCHANGED <<inst, row, sent, jobs, sync>>

\* The catch block: every delivery of the batch is pending again, or failed,
\* the ones whose ticket was already written included.
RollBack(w, d) ==
  LET r     == run[w]
      tried == r.seen[d] + 1
  IN  /\ r.pc = "rollback"
      /\ IsNext(d, r.todo)
      /\ Exists(d)
      /\ row' = [row EXCEPT ![d] = [@ EXCEPT
                   !.status = AfterFailure(tried, FALSE), !.attempts = tried]]
      /\ run' = [run EXCEPT ![w] = NextDelivery(@, d)]
      /\ UNCHANGED <<inst, sent, jobs, sync, faults>>

\* The call rejects: its job is queued again while it has retries left.
Reject(w) ==
  /\ run' = [run EXCEPT ![w] = IdleRun]
  /\ IF run[w].left > 0
       THEN /\ jobs[run[w].left - 1] < MaxJobs
            /\ jobs' = [jobs EXCEPT ![run[w].left - 1] = @ + 1]
       ELSE UNCHANGED jobs

\* The update in the catch block throws: the row is gone.
RollBackThrows(w, d) ==
  /\ run[w].pc = "rollback"
  /\ IsNext(d, run[w].todo)
  /\ ~Exists(d)
  /\ Reject(w)
  /\ UNCHANGED <<inst, row, sent, sync, faults>>

\* The process dies, or a statement outside the try block fails.
RunDies(w) ==
  /\ run[w].pc # "idle"
  /\ faults < MaxFaults
  /\ faults' = faults + 1
  /\ Reject(w)
  /\ UNCHANGED <<inst, row, sent, sync>>

(***************************************************************************)
(* syncReceipts().  Its order is by sentAt, which is not part of the state: *)
(* the rows it takes, and the order of its loops, are any.                  *)
(***************************************************************************)
\* Mutant of AwaitingReceipt: cancelled and failed rows are asked for as well.
AwaitingAnything == {d \in Deliveries : Exists(d) /\ row[d].status # "pending"}

AwaitingReceipt == {d \in Deliveries : /\ row[d].status = "ticketed"
                                       /\ row[d].ticket}

\* POST /internal/notifications/receipts
FindTicketed(s, limit, found) ==
  /\ sync[s].pc = "idle"
  /\ found # {}
  /\ Some(found, AwaitingReceipt, limit)
  /\ sync' = [sync EXCEPT ![s] = [IdleSync EXCEPT !.pc = "ask", !.rest = found]]
  /\ UNCHANGED <<inst, row, sent, jobs, run, faults>>

\* Go on with the receipts of the batch, with the next batch, or return.
NextReceipt(r) ==
  CASE r.todo # {} -> [r EXCEPT !.pc = "apply", !.off = {}]
    [] r.todo = {} /\ r.rest # {} -> [r EXCEPT !.pc = "ask", !.off = {}]
    [] OTHER -> IdleSync

\* Expo answers for the tickets it has a receipt for (the domain of receipts);
\* the others are skipped.  No answer at all skips the batch.
GetReceipts(s, batch, receipts) ==
  /\ sync[s].pc = "ask"
  /\ Some(batch, sync[s].rest, MAX_RECEIPT_BATCH_SIZE)
  /\ DOMAIN receipts \subseteq batch
  /\ sync' = [sync EXCEPT ![s] = NextReceipt([@ EXCEPT
                !.rest = sync[s].rest \ batch,
                !.todo = DOMAIN receipts,
                !.receipts = [d \in Deliveries |->
                   IF d \in DOMAIN receipts THEN receipts[d] ELSE "ok"]])]
  /\ UNCHANGED <<inst, row, sent, jobs, run, faults>>

\* One receipt is written: update by id, whatever the status is by now.
ApplyReceipt(s, d) ==
  LET receipt == sync[s].receipts[d]
      done    == [sync[s] EXCEPT !.todo = @ \ {d}]
  IN  /\ sync[s].pc = "apply"
      /\ d \in sync[s].todo
      /\ Exists(d)
      /\ row' = [row EXCEPT ![d] = [@ EXCEPT
                   !.status = IF receipt = "ok" THEN "delivered" ELSE "failed"]]
      /\ sync' = [sync EXCEPT ![s] =
           IF Disables(receipt)
             THEN [done EXCEPT !.pc = "disable", !.off = {InstallationOf[d]}]
             ELSE NextReceipt(done)]
      /\ UNCHANGED <<inst, sent, jobs, run, faults>>

\* disableInstallation after a DeviceNotRegistered receipt
DisableAfterReceipt(s) ==
  /\ sync[s].pc = "disable"
  /\ Deactivate(sync[s].off)
  /\ run' = Outdate(run, sync[s].off)
  /\ sync' = [sync EXCEPT ![s] = NextReceipt(@)]
  /\ UNCHANGED <<row, sent, jobs, faults>>

\* A statement throws - the row is gone, or the database fails: the rest of the
\* batch is skipped and the error is only logged.
ApplyThrows(s) ==
  /\ sync[s].pc \in {"apply", "disable"}
  /\ \/ /\ sync[s].pc = "apply"
        /\ \E d \in sync[s].todo : ~Exists(d)
        /\ UNCHANGED faults
     \/ /\ faults < MaxFaults
        /\ faults' = faults + 1
  /\ sync' = [sync EXCEPT ![s] = NextReceipt([@ EXCEPT !.todo = {}])]
  /\ UNCHANGED <<inst, row, sent, jobs, run>>

\* The process dies.
SyncDies(s) ==
  /\ sync[s].pc # "idle"
  /\ faults < MaxFaults
  /\ faults' = faults + 1
  /\ sync' = [sync EXCEPT ![s] = IdleSync]
  /\ UNCHANGED <<inst, row, sent, jobs, run>>

(***************************************************************************)
(* The specification.                                                       *)
(***************************************************************************)
Environment ==
  \/ \E i \in Installations :
       \/ \E R \in SUBSET Installations : RegisterInstallation(i, R)
       \/ RevokeInstallation(i)
  \/ \E I \in SUBSET Installations, D \in SUBSET Deliveries :
       DeleteAccount(I, D)
  \/ \E D \in SUBSET Deliveries : Publish(D)

\* What a running call does next by itself.
RunStep(w) ==
  \/ CancelInactive(w)
  \/ \E tickets \in [BatchOf(run[w]) -> Tickets] : SendAnswered(w, tickets)
  \/ \E accepted \in {{}, BatchOf(run[w])} : SendThrows(w, accepted)
  \/ \E d \in Deliveries : \/ RecordTicket(w, d)
                           \/ DisableAfterTicket(w, d)
                           \/ RecordThrows(w, d)
                           \/ RollBack(w, d)
                           \/ RollBackThrows(w, d)

SyncStep(s) ==
  \/ \E batch \in SUBSET sync[s].rest, known \in SUBSET sync[s].rest :
       \E receipts \in [known -> Receipts] : GetReceipts(s, batch, receipts)
  \/ \E d \in Deliveries : ApplyReceipt(s, d)
  \/ DisableAfterReceipt(s)
  \/ ApplyThrows(s)

TakeJob(w) == \E left \in 0..RetryLimit : RunJob(w, left)

CallDispatch(w) == \E limit \in EndpointLimits : DispatchEndpoint(w, limit)

CallReceipts(s) == \E limit \in EndpointLimits, found \in SUBSET Deliveries :
                     FindTicketed(s, limit, found)

Next ==
  \/ Environment
  \/ \E w \in Workers : TakeJob(w) \/ CallDispatch(w) \/ RunStep(w) \/ RunDies(w)
  \/ \E s \in Syncers : CallReceipts(s) \/ SyncStep(s) \/ SyncDies(s)

Spec == Init /\ [][Next]_vars

(***************************************************************************)
(* Properties.                                                              *)
(***************************************************************************)
\* A revoked or disabled device is out of reach of every call that starts
\* later: a call is about to send, or has sent, to an installation that is not
\* active now only if the installation was deactivated during that very call
\* (the activeDeliveries filter of dispatchPending).
RevocationTakesEffect ==
  \A w \in Workers : \A d \in run[w].rest \cup run[w].batch :
    Active(d) \/ InstallationOf[d] \in run[w].stale

\* A delivery is reported as handed to Expo or as delivered only if Expo did
\* accept a message for it, in whatever order tickets, receipts, rollbacks and
\* cancellations of several calls are written.
DeliveredWasSent ==
  \A d \in Deliveries : row[d].status \in {"ticketed", "delivered"} => d \in sent

\* A call of dispatchPending or syncReceipts holds delivery d in its snapshot.
Held(d) ==
  \/ \E w \in Workers : d \in run[w].dead \cup run[w].rest \cup run[w].batch
  \/ \E s \in Syncers : d \in sync[s].rest \cup sync[s].todo

\* Settled is final as soon as nobody is at work on the delivery: a delivered,
\* failed or cancelled delivery that no running call holds is never taken up,
\* sent or written again (only deleted with the account).  While a
\* call holds it this is not so: the updates are by id, whatever the status.
SettledIsFinal ==
  [][\A d \in Deliveries :
       (row[d].status \in Settled /\ ~Held(d)) =>
         /\ row'[d] = row[d] \/ row'[d].status = "deleted"
         /\ d \in sent' => d \in sent
         /\ ~Held(d)']_vars

\* No two overlapping calls send the same pending delivery: when a call has
\* posted a batch, no other call has posted one of its deliveries or is about
\* to (what plan 010 promises).
OverlappingCallsNeverSendTwice ==
  \A v, w \in Workers :
    v # w => (run[v].batch \cap (run[w].batch \cup run[w].rest)) = {}

\* Every delivery is eventually handed to Expo, failed, cancelled or deleted, and
\* stays so: none is pending for ever.
PendingDrains == <>[](Pending = {})

(***************************************************************************)
(* The abstract specification.  While a call holds a delivery its status    *)
(* may still be overwritten, whatever it says: only an unheld row is closed. *)
(***************************************************************************)
stage == [d \in Deliveries |->
  IF row[d].status = "none" THEN "new"
  ELSE IF row[d].status \in {"pending", "ticketed"} \/ Held(d) THEN "open"
  ELSE row[d].status]

O == INSTANCE Outbox WITH accepted <- sent

\* All that overlapping calls, retries, receipts, faults and deletions do to the
\* rows amounts to posting a delivery once, sending while it is open, and closing
\* it once, as delivered only if Expo accepted it (publish, dispatchPending,
\* syncReceipts, whose updates are by id and test no status).
OutboxSpec == O!Spec

(***************************************************************************)
(* Fairness.  A call that has started runs to its end and the queue runs    *)
(* its jobs.  Nobody is bound to publish, to revoke or to delete.           *)
(***************************************************************************)
CallsFinish ==
  /\ \A w \in Workers : WF_vars(RunStep(w)) /\ WF_vars(TakeJob(w))
  /\ \A s \in Syncers : WF_vars(SyncStep(s))

\* The cron endpoints are called again and again: the receipts, which the
\* deployed cron job calls (deploy/hetzner/scripts/cron-notifications.sh), and
\* the dispatch, which it does not.
DispatchFairness ==
  /\ CallsFinish
  /\ \A s \in Syncers : WF_vars(CallReceipts(s))
  /\ \A w \in Workers : WF_vars(CallDispatch(w))
=============================================================================
