------------------------ MODULE PushDispatch_proofs ------------------------
(***************************************************************************)
(* Proofs about PushDispatch, for any number of deliveries, installations   *)
(* and overlapping calls.                                                   *)
(***************************************************************************)
EXTENDS PushSends, TLAPS

(***************************************************************************)
(* The inductive invariant speaks of one call, one row at a time.           *)
(***************************************************************************)
\* A dispatch call: an idle one holds nothing, it has a batch only between posting
\* and writing it, what is still to be written is part of the batch, and every
\* attemptCount it read leaves an attempt.
RunOK(r) ==
  /\ r \in RunType
  /\ \A d \in Deliveries : r.seen[d] < MAX_SEND_ATTEMPTS
  /\ r.pc = "idle" => r.rest = {}
  /\ r.pc \in {"idle", "cancel", "send"} => r.batch = {}
  /\ r.todo \subseteq r.batch

RowOK(x) ==
  /\ x \in RowType
  /\ x.status = "pending" => x.attempts < MAX_SEND_ATTEMPTS

Inv ==
  /\ TypeOK
  /\ \A d \in Deliveries : RowOK(row[d])
  /\ \A w \in Workers : RunOK(run[w])

LEMMA IdleRunOK == RunOK(IdleRun)
  BY ConstantsAssumption DEF RunOK, IdleRun, RunType, Attempts, Tickets

LEMMA IdleSyncType == IdleSync \in SyncType
  BY DEF IdleSync, SyncType, Receipts

LEMMA FirstSubset == \A S, n : First(S, n) \subseteq S
  BY DEF First

LEMMA NextBatchOK == ASSUME NEW r, RunOK(r) PROVE RunOK(NextBatch(r))
  BY IdleRunOK DEF NextBatch, RunOK, RunType, IdleRun

LEMMA NextDeliveryOK ==
  ASSUME NEW r, RunOK(r), r.pc # "idle", NEW d \in Deliveries
  PROVE  RunOK(NextDelivery(r, d))
  BY NextBatchOK DEF NextDelivery, RunOK, RunType, Tickets

LEMMA OutdateOK ==
  ASSUME NEW runs, runs \in [Workers -> RunType],
         \A w \in Workers : RunOK(runs[w]),
         NEW I, I \subseteq Installations
  PROVE  /\ Outdate(runs, I) \in [Workers -> RunType]
         /\ \A w \in Workers : RunOK(Outdate(runs, I)[w])
<1>1. ASSUME NEW w \in Workers PROVE RunOK(Outdate(runs, I)[w])
  <2> DEFINE r == [runs[w] EXCEPT !.stale = runs[w].stale \cup I]
  <2>1. Outdate(runs, I)[w] = runs[w] \/ Outdate(runs, I)[w] = r
    BY DEF Outdate
  <2>2. RunOK(runs[w]) /\ runs[w] \in RunType
    OBVIOUS
  <2>3. /\ r \in RunType /\ r.pc = runs[w].pc /\ r.seen = runs[w].seen
        /\ r.rest = runs[w].rest /\ r.batch = runs[w].batch /\ r.todo = runs[w].todo
    BY <2>2 DEF RunType
  <2> HIDE DEF r
  <2>4. RunOK(r)
    BY <2>2, <2>3 DEF RunOK
  <2> QED BY <2>1, <2>2, <2>4
<1>2. Outdate(runs, I) \in [Workers -> RunType]
  BY <1>1 DEF Outdate, RunOK
<1> QED BY <1>1, <1>2

LEMMA NextReceiptType ==
  ASSUME NEW r \in SyncType PROVE NextReceipt(r) \in SyncType
  BY IdleSyncType DEF NextReceipt, SyncType

LEMMA AfterFailureOK ==
  ASSUME NEW a \in Nat, a <= MAX_SEND_ATTEMPTS, NEW p \in BOOLEAN
  PROVE  /\ AfterFailure(a, p) \in Statuses
         /\ AfterFailure(a, p) = "pending" => a < MAX_SEND_ATTEMPTS
  BY ConstantsAssumption DEF AfterFailure, Statuses

(***************************************************************************)
(* Every step preserves the invariant.                                      *)
(***************************************************************************)
LEMMA InitInv == Init => Inv
  BY ConstantsAssumption, IdleRunOK, IdleSyncType
  DEF Init, Inv, TypeOK, RowOK, RowType, NoRow, Statuses, Attempts, RunOK

\* A step that replaces one call by a well-formed one keeps all of them so.
LEMMA RunReplaced ==
  ASSUME TypeOK, \A v \in Workers : RunOK(run[v]), NEW w \in Workers, NEW r,
         RunOK(r), run' = [run EXCEPT ![w] = r]
  PROVE  run' \in [Workers -> RunType] /\ \A v \in Workers : RunOK(run[v])'
  BY DEF TypeOK, RunOK

LEMMA FindPendingOK ==
  ASSUME Inv, NEW w \in Workers, NEW limit, NEW left \in 0..RetryLimit,
         FindPending(w, limit, left)
  PROVE  run' \in [Workers -> RunType] /\ \A v \in Workers : RunOK(run[v])'
<1> DEFINE found == First(Pending, limit)
           live  == {d \in found : Active(d)}
           start == [IdleRun EXCEPT
               !.pc   = IF live = found THEN "send" ELSE "cancel",
               !.left = left,
               !.dead = found \ live,
               !.rest = live,
               !.seen = [d \in Deliveries |->
                           IF d \in found THEN row[d].attempts ELSE 0]]
<1>1. found \subseteq Pending /\ found \subseteq Deliveries
  BY FirstSubset DEF Pending
<1>2. RunOK(start)
  <2>1. \A d \in Deliveries : /\ start.seen[d] \in Attempts
                              /\ start.seen[d] < MAX_SEND_ATTEMPTS
    BY <1>1, ConstantsAssumption
    DEF Inv, RowOK, RowType, Pending, IdleRun, Attempts
  <2>2. start \in RunType
    BY <1>1, <2>1, IdleRunOK DEF RunOK, RunType, IdleRun
  <2> QED BY <1>1, <2>1, <2>2 DEF RunOK, IdleRun
<1>3. run' = [run EXCEPT ![w] = IF found = {} THEN IdleRun ELSE start]
  BY DEF FindPending
<1> HIDE DEF found, live, start
<1> QED BY <1>2, <1>3, IdleRunOK, RunReplaced DEF Inv

LEMMA RejectOK ==
  ASSUME Inv, NEW w \in Workers, Reject(w)
  PROVE  /\ run' \in [Workers -> RunType]
         /\ \A v \in Workers : RunOK(run[v])'
         /\ jobs' \in [0..RetryLimit -> 0..MaxJobs]
<1>1. run' \in [Workers -> RunType] /\ \A v \in Workers : RunOK(run[v])'
  BY IdleRunOK, RunReplaced DEF Inv, Reject
<1>2. run[w].left \in 0..RetryLimit
  BY DEF Inv, TypeOK, RunType
<1>3. jobs' \in [0..RetryLimit -> 0..MaxJobs]
  <2>1. CASE run[w].left > 0
    <3> DEFINE n == run[w].left - 1
    <3>1. n \in 0..RetryLimit
      BY <1>2, <2>1, ConstantsAssumption
    <3>2. jobs[n] \in 0..MaxJobs /\ jobs[n] < MaxJobs
      BY <2>1, <3>1 DEF Inv, TypeOK, Reject
    <3>3. jobs[n] + 1 \in 0..MaxJobs
      BY <3>2, ConstantsAssumption
    <3>4. jobs' = [jobs EXCEPT ![n] = jobs[n] + 1]
      BY <2>1 DEF Reject
    <3> HIDE DEF n
    <3> QED BY <3>1, <3>3, <3>4 DEF Inv, TypeOK
  <2>2. CASE ~(run[w].left > 0)
    BY <2>2 DEF Inv, TypeOK, Reject
  <2> QED BY <2>1, <2>2
<1> QED BY <1>1, <1>3

\* A call that has posted a batch.
LEMMA PostedOK ==
  ASSUME NEW r, RunOK(r), r.pc = "send", NEW p \in {"record", "rollback"},
         NEW t \in [Deliveries -> Tickets]
  PROVE  RunOK([r EXCEPT !.pc = p, !.batch = BatchOf(r), !.todo = BatchOf(r),
                         !.rest = r.rest \ BatchOf(r), !.tickets = t])
<1>1. BatchOf(r) \subseteq r.rest
  BY FirstSubset DEF BatchOf
<1> QED BY <1>1 DEF RunOK, RunType

LEMMA RollingBackOK ==
  ASSUME NEW r, RunOK(r), r.pc # "idle", NEW t \in [Deliveries -> Tickets]
  PROVE  RunOK([r EXCEPT !.pc = "rollback", !.todo = r.batch, !.tickets = t])
  BY DEF RunOK, RunType

LEMMA StepOK ==
  ASSUME NEW r, RunOK(r), r.pc # "idle", NEW p \in {"record", "disable"}
  PROVE  RunOK([r EXCEPT !.pc = p]) /\ [r EXCEPT !.pc = p].pc # "idle"
  BY DEF RunOK, RunType

LEMMA NewRowOK == RowOK(NewRow)
  BY ConstantsAssumption DEF RowOK, RowType, NewRow, Statuses, Attempts

LEMMA EnvironmentInv == Inv /\ Environment => Inv'
<1> SUFFICES ASSUME Inv, Environment PROVE Inv'
  OBVIOUS
<1> USE DEF Inv
<1>1. ASSUME NEW i \in Installations, NEW R \in SUBSET Installations,
             RegisterInstallation(i, R)
      PROVE  Inv'
  <2>1. inst' \in [Installations -> {"absent", "active", "inactive"}]
    BY <1>1 DEF RegisterInstallation, TypeOK
  <2>2. run' \in [Workers -> RunType] /\ \A w \in Workers : RunOK(run'[w])
    BY <1>1, OutdateOK DEF RegisterInstallation, TypeOK
  <2> QED BY <1>1, <2>1, <2>2 DEF RegisterInstallation, TypeOK
<1>2. ASSUME NEW i \in Installations, RevokeInstallation(i)
      PROVE  Inv'
  <2>1. inst' \in [Installations -> {"absent", "active", "inactive"}]
    BY <1>2 DEF RevokeInstallation, Deactivate, TypeOK
  <2>2. run' \in [Workers -> RunType] /\ \A w \in Workers : RunOK(run'[w])
    BY <1>2, OutdateOK DEF RevokeInstallation, TypeOK
  <2> QED BY <1>2, <2>1, <2>2 DEF RevokeInstallation, TypeOK
<1>3. ASSUME NEW I \in SUBSET Installations, NEW D \in SUBSET Deliveries,
             DeleteAccount(I, D)
      PROVE  Inv'
  <2>1. inst' \in [Installations -> {"absent", "active", "inactive"}]
    BY <1>3 DEF DeleteAccount, TypeOK
  <2>2. run' \in [Workers -> RunType] /\ \A w \in Workers : RunOK(run'[w])
    BY <1>3, OutdateOK DEF DeleteAccount, TypeOK
  <2>3. row' \in [Deliveries -> RowType] /\ \A d \in Deliveries : RowOK(row'[d])
    BY <1>3 DEF DeleteAccount, TypeOK, RowOK, RowType, Statuses
  <2> QED BY <1>3, <2>1, <2>2, <2>3 DEF DeleteAccount, TypeOK
<1>4. ASSUME NEW D \in SUBSET Deliveries, Publish(D)
      PROVE  Inv'
  <2>1. row' \in [Deliveries -> RowType] /\ \A d \in Deliveries : RowOK(row'[d])
    BY <1>4, NewRowOK DEF Publish, TypeOK, RowOK
  <2>2. jobs' \in [0..RetryLimit -> 0..MaxJobs]
    BY <1>4, ConstantsAssumption DEF Publish, Enqueue, TypeOK
  <2> QED BY <1>4, <2>1, <2>2 DEF Publish, TypeOK
<1> QED BY <1>1, <1>2, <1>3, <1>4 DEF Environment

\* A failed or ticketed attempt writes the snapshot's count plus one.
LEMMA TriedOK ==
  ASSUME Inv, NEW w \in Workers, NEW d \in Deliveries
  PROVE  /\ run[w].seen[d] + 1 \in Attempts
         /\ run[w].seen[d] + 1 \in Nat
         /\ run[w].seen[d] + 1 <= MAX_SEND_ATTEMPTS
<1>1. /\ run[w].seen[d] \in Attempts
      /\ run[w].seen[d] < MAX_SEND_ATTEMPTS
  BY DEF Inv, RunOK, RunType
<1> QED BY <1>1, ConstantsAssumption DEF Attempts

LEMMA RunStepInv == ASSUME Inv, NEW w \in Workers, RunStep(w) PROVE Inv'
<1> USE DEF Inv
<1>0. RunOK(run[w]) /\ run[w] \in RunType
  BY DEF RunOK
<1>1. CASE CancelInactive(w)
  <2>1. run' \in [Workers -> RunType] /\ \A v \in Workers : RunOK(run[v])'
    BY <1>0, <1>1, NextBatchOK, RunReplaced DEF CancelInactive, TypeOK
  <2>2. row' \in [Deliveries -> RowType] /\ \A d \in Deliveries : RowOK(row'[d])
    BY <1>1 DEF CancelInactive, TypeOK, RowOK, RowType, Statuses
  <2> QED BY <1>1, <2>1, <2>2 DEF CancelInactive, TypeOK
<1>2. ASSUME NEW tickets \in [BatchOf(run[w]) -> Tickets],
             SendAnswered(w, tickets)
      PROVE  Inv'
  <2> DEFINE t == [d \in Deliveries |->
                     IF d \in BatchOf(run[w]) THEN tickets[d] ELSE "ok"]
             r == [run[w] EXCEPT !.pc = "record", !.batch = BatchOf(run[w]),
                     !.todo = BatchOf(run[w]),
                     !.rest = run[w].rest \ BatchOf(run[w]), !.tickets = t]
  <2>1. t \in [Deliveries -> Tickets]
    BY DEF Tickets
  <2>2. run[w].pc = "send"
    BY <1>2 DEF SendAnswered
  <2>3. RunOK(r)
    <3> HIDE DEF t
    <3> QED BY <1>0, <2>1, <2>2, PostedOK
  <2>4. run' = [run EXCEPT ![w] = r]
    BY <1>2 DEF SendAnswered, TypeOK
  <2>5. BatchOf(run[w]) \subseteq Deliveries
    BY <1>0, FirstSubset DEF BatchOf, RunType
  <2>6. sent' \subseteq Deliveries
    BY <1>2, <2>5 DEF SendAnswered, TypeOK
  <2> HIDE DEF r
  <2>7. run' \in [Workers -> RunType] /\ \A v \in Workers : RunOK(run[v])'
    BY <2>3, <2>4, RunReplaced
  <2> QED BY <1>2, <2>6, <2>7 DEF SendAnswered, TypeOK
<1>3. ASSUME NEW accepted \in {{}, BatchOf(run[w])}, SendThrows(w, accepted)
      PROVE  Inv'
  <2> DEFINE r == [run[w] EXCEPT !.pc = "rollback", !.batch = BatchOf(run[w]),
                     !.todo = BatchOf(run[w]),
                     !.rest = run[w].rest \ BatchOf(run[w])]
  <2>1. run[w].pc = "send"
    BY <1>3 DEF SendThrows
  <2>2. BatchOf(run[w]) \subseteq run[w].rest
    BY FirstSubset DEF BatchOf
  <2>3. RunOK(r)
    BY <1>0, <2>1, <2>2 DEF RunOK, RunType
  <2>4. run' = [run EXCEPT ![w] = r]
    BY <1>3 DEF SendThrows, TypeOK
  <2>5. sent' \subseteq Deliveries
    BY <1>0, <1>3, <2>2 DEF SendThrows, TypeOK, RunType
  <2> HIDE DEF r
  <2>6. run' \in [Workers -> RunType] /\ \A v \in Workers : RunOK(run[v])'
    BY <2>3, <2>4, RunReplaced
  <2> QED BY <1>3, <2>5, <2>6 DEF SendThrows, TypeOK
<1>4. ASSUME NEW d \in Deliveries, RecordTicket(w, d) PROVE Inv'
  <2> DEFINE tried  == run[w].seen[d] + 1
             ticket == run[w].tickets[d]
             x == IF ticket = "ok"
                    THEN [status |-> "ticketed", attempts |-> tried,
                          ticket |-> TRUE]
                    ELSE [row[d] EXCEPT
                            !.status = AfterFailure(tried, Permanent(ticket)),
                            !.attempts = tried]
             r == IF Disables(ticket) THEN [run[w] EXCEPT !.pc = "disable"]
                                      ELSE NextDelivery(run[w], d)
  <2>1. run[w].pc = "record" /\ row[d] \in RowType
    BY <1>4 DEF RecordTicket, TypeOK
  <2>2. /\ AfterFailure(tried, Permanent(ticket)) \in Statuses
        /\ AfterFailure(tried, Permanent(ticket)) = "pending" =>
             tried < MAX_SEND_ATTEMPTS
    <3>1. Permanent(ticket) \in BOOLEAN
      BY DEF Permanent
    <3> QED BY <3>1, TriedOK, AfterFailureOK
  <2>3. RowOK(x)
    BY <2>1, <2>2, TriedOK DEF RowOK, RowType, Statuses
  <2>4. RunOK(r)
    BY <1>0, <2>1, NextDeliveryOK DEF RunOK, RunType
  <2>5. row' = [row EXCEPT ![d] = x] /\ run' = [run EXCEPT ![w] = r]
    BY <1>4 DEF RecordTicket, TypeOK
  <2> HIDE DEF x, r
  <2>6. run' \in [Workers -> RunType] /\ \A v \in Workers : RunOK(run[v])'
    BY <2>4, <2>5, RunReplaced
  <2>7. row' \in [Deliveries -> RowType] /\ \A e \in Deliveries : RowOK(row'[e])
    BY <2>3, <2>5 DEF TypeOK, RowOK
  <2> QED BY <1>4, <2>6, <2>7 DEF RecordTicket, TypeOK
<1>5. ASSUME NEW d \in Deliveries, DisableAfterTicket(w, d) PROVE Inv'
  <2> DEFINE I    == {InstallationOf[d]}
             runs == Outdate(run, I)
             r    == NextDelivery([runs[w] EXCEPT !.pc = "record"], d)
  <2>1. I \subseteq Installations
    BY ConstantsAssumption
  <2>2. runs \in [Workers -> RunType] /\ \A v \in Workers : RunOK(runs[v])
    BY <2>1, OutdateOK DEF TypeOK
  <2>3. runs[w].pc # "idle"
    BY <1>5 DEF DisableAfterTicket, Outdate
  <2>4. run' = [runs EXCEPT ![w] = r]
    BY <1>5, <2>2 DEF DisableAfterTicket
  <2> HIDE DEF runs
  <2>7. RunOK(r)
    BY <2>2, <2>3, StepOK, NextDeliveryOK
  <2> HIDE DEF r
  <2>8. run' \in [Workers -> RunType] /\ \A v \in Workers : RunOK(run'[v])
    BY <2>2, <2>4, <2>7 DEF RunOK
  <2>9. inst' \in [Installations -> {"absent", "active", "inactive"}]
    BY <1>5 DEF DisableAfterTicket, Deactivate, TypeOK
  <2> QED BY <1>5, <2>8, <2>9 DEF DisableAfterTicket, TypeOK
<1>6. ASSUME NEW d \in Deliveries, RecordThrows(w, d) PROVE Inv'
  <2> DEFINE r == [run[w] EXCEPT !.pc = "rollback", !.todo = run[w].batch,
                                 !.tickets = IdleRun.tickets]
  <2>1. run[w].pc # "idle" /\ IdleRun.tickets \in [Deliveries -> Tickets]
    BY <1>6 DEF RecordThrows, IdleRun, Tickets
  <2>2. RunOK(r)
    BY <1>0, <2>1, RollingBackOK
  <2>3. run' = [run EXCEPT ![w] = r]
    BY <1>6 DEF RecordThrows, TypeOK
  <2> HIDE DEF r
  <2>4. run' \in [Workers -> RunType] /\ \A v \in Workers : RunOK(run[v])'
    BY <2>2, <2>3, RunReplaced
  <2>5. faults' \in 0..MaxFaults
    BY <1>6, ConstantsAssumption DEF RecordThrows, TypeOK
  <2> QED BY <1>6, <2>4, <2>5 DEF RecordThrows, TypeOK
<1>7. ASSUME NEW d \in Deliveries, RollBack(w, d) PROVE Inv'
  <2> DEFINE tried == run[w].seen[d] + 1
             x == [row[d] EXCEPT !.status = AfterFailure(tried, FALSE),
                                 !.attempts = tried]
             r == NextDelivery(run[w], d)
  <2>1. run[w].pc = "rollback" /\ row[d] \in RowType
    BY <1>7 DEF RollBack, TypeOK
  <2>2. /\ AfterFailure(tried, FALSE) \in Statuses
        /\ AfterFailure(tried, FALSE) = "pending" => tried < MAX_SEND_ATTEMPTS
    BY TriedOK, AfterFailureOK
  <2>3. RowOK(x)
    BY <2>1, <2>2, TriedOK DEF RowOK, RowType
  <2>4. RunOK(r)
    BY <1>0, <2>1, NextDeliveryOK
  <2>5. row' = [row EXCEPT ![d] = x] /\ run' = [run EXCEPT ![w] = r]
    BY <1>7 DEF RollBack, TypeOK
  <2> HIDE DEF x, r
  <2>6. run' \in [Workers -> RunType] /\ \A v \in Workers : RunOK(run[v])'
    BY <2>4, <2>5, RunReplaced
  <2>7. row' \in [Deliveries -> RowType] /\ \A e \in Deliveries : RowOK(row'[e])
    BY <2>3, <2>5 DEF TypeOK, RowOK
  <2> QED BY <1>7, <2>6, <2>7 DEF RollBack, TypeOK
<1>8. ASSUME NEW d \in Deliveries, RollBackThrows(w, d) PROVE Inv'
  BY <1>8, RejectOK DEF RollBackThrows, TypeOK
<1> QED BY <1>1, <1>2, <1>3, <1>4, <1>5, <1>6, <1>7, <1>8 DEF RunStep

LEMMA SyncReplaced ==
  ASSUME TypeOK, NEW s \in Syncers, NEW r \in SyncType,
         sync' = [sync EXCEPT ![s] = r]
  PROVE  sync' \in [Syncers -> SyncType]
  BY DEF TypeOK

LEMMA SyncStepInv == ASSUME Inv, NEW s \in Syncers, SyncStep(s) PROVE Inv'
<1> USE DEF Inv
<1>0. sync[s] \in SyncType
  BY DEF TypeOK
<1>1. ASSUME NEW batch \in SUBSET sync[s].rest, NEW known \in SUBSET sync[s].rest,
             NEW receipts \in [known -> Receipts],
             GetReceipts(s, batch, receipts)
      PROVE  Inv'
  <2> DEFINE t == [d \in Deliveries |->
                     IF d \in DOMAIN receipts THEN receipts[d] ELSE "ok"]
             r == [sync[s] EXCEPT !.rest = sync[s].rest \ batch,
                                  !.todo = DOMAIN receipts, !.receipts = t]
  <2>1. t \in [Deliveries -> Receipts]
    BY DEF Receipts
  <2>2. known \subseteq Deliveries /\ DOMAIN receipts = known
    BY <1>0 DEF SyncType
  <2>3. r \in SyncType
    <3> HIDE DEF t
    <3> QED BY <1>0, <2>1, <2>2 DEF SyncType
  <2>4. sync' = [sync EXCEPT ![s] = NextReceipt(r)]
    BY <1>1 DEF GetReceipts, TypeOK
  <2> HIDE DEF r
  <2>5. sync' \in [Syncers -> SyncType]
    BY <2>3, <2>4, NextReceiptType, SyncReplaced
  <2> QED BY <1>1, <2>5 DEF GetReceipts, TypeOK
<1>2. ASSUME NEW d \in Deliveries, ApplyReceipt(s, d) PROVE Inv'
  <2> DEFINE receipt == sync[s].receipts[d]
             done    == [sync[s] EXCEPT !.todo = sync[s].todo \ {d}]
             x == [row[d] EXCEPT
                     !.status = IF receipt = "ok" THEN "delivered" ELSE "failed"]
             r == IF Disables(receipt)
                    THEN [done EXCEPT !.pc = "disable",
                                      !.off = {InstallationOf[d]}]
                    ELSE NextReceipt(done)
  <2>1. done \in SyncType
    BY <1>0 DEF SyncType
  <2>2. InstallationOf[d] \in Installations
    BY ConstantsAssumption
  <2>3. r \in SyncType
    <3> HIDE DEF done
    <3>1. [done EXCEPT !.pc = "disable", !.off = {InstallationOf[d]}] \in SyncType
      BY <2>1, <2>2 DEF SyncType
    <3> QED BY <2>1, <3>1, NextReceiptType
  <2>4. RowOK(x)
    BY DEF RowOK, RowType, Statuses
  <2>5. row' = [row EXCEPT ![d] = x] /\ sync' = [sync EXCEPT ![s] = r]
    BY <1>2 DEF ApplyReceipt, TypeOK
  <2> HIDE DEF x, r
  <2>6. row' \in [Deliveries -> RowType] /\ \A e \in Deliveries : RowOK(row'[e])
    BY <2>4, <2>5 DEF TypeOK, RowOK
  <2>7. sync' \in [Syncers -> SyncType]
    BY <2>3, <2>5, SyncReplaced
  <2> QED BY <1>2, <2>6, <2>7 DEF ApplyReceipt, TypeOK
<1>3. CASE DisableAfterReceipt(s)
  <2>1. inst' \in [Installations -> {"absent", "active", "inactive"}]
    BY <1>3 DEF DisableAfterReceipt, Deactivate, TypeOK
  <2>2. sync[s].off \subseteq Installations
    BY <1>0 DEF SyncType
  <2>3. run' \in [Workers -> RunType] /\ \A w \in Workers : RunOK(run'[w])
    BY <1>3, <2>2, OutdateOK DEF DisableAfterReceipt, TypeOK
  <2>4. sync' \in [Syncers -> SyncType]
    BY <1>0, <1>3, NextReceiptType, SyncReplaced
    DEF DisableAfterReceipt, TypeOK
  <2> QED BY <1>3, <2>1, <2>3, <2>4 DEF DisableAfterReceipt, TypeOK
<1>4. CASE ApplyThrows(s)
  <2> DEFINE r == [sync[s] EXCEPT !.todo = {}]
  <2>1. r \in SyncType
    BY <1>0 DEF SyncType
  <2>2. sync' = [sync EXCEPT ![s] = NextReceipt(r)]
    BY <1>4 DEF ApplyThrows, TypeOK
  <2> HIDE DEF r
  <2>3. sync' \in [Syncers -> SyncType]
    BY <2>1, <2>2, NextReceiptType, SyncReplaced
  <2>4. faults' \in 0..MaxFaults
    BY <1>4, ConstantsAssumption DEF ApplyThrows, TypeOK
  <2> QED BY <1>4, <2>3, <2>4 DEF ApplyThrows, TypeOK
<1> QED BY <1>1, <1>2, <1>3, <1>4 DEF SyncStep

LEMMA NextInv == Inv /\ [Next]_vars => Inv'
<1> SUFFICES ASSUME Inv, [Next]_vars PROVE Inv'
  OBVIOUS
<1>1. CASE UNCHANGED vars
  BY <1>1 DEF vars, Inv, TypeOK
<1>2. ASSUME NEW w \in Workers, NEW left \in 0..RetryLimit, RunJob(w, left)
      PROVE  Inv'
  <2>1. run' \in [Workers -> RunType] /\ \A v \in Workers : RunOK(run[v])'
    BY <1>2, FindPendingOK DEF RunJob
  <2>2. jobs' \in [0..RetryLimit -> 0..MaxJobs]
    BY <1>2, ConstantsAssumption DEF RunJob, Inv, TypeOK
  <2> QED BY <1>2, <2>1, <2>2 DEF RunJob, Inv, TypeOK
<1>3. ASSUME NEW w \in Workers, NEW limit, DispatchEndpoint(w, limit)
      PROVE  Inv'
  <2>1. 0 \in 0..RetryLimit
    BY ConstantsAssumption
  <2>2. run' \in [Workers -> RunType] /\ \A v \in Workers : RunOK(run[v])'
    BY <1>3, <2>1, FindPendingOK DEF DispatchEndpoint
  <2> QED BY <1>3, <2>2 DEF DispatchEndpoint, Inv, TypeOK
<1>4. ASSUME NEW w \in Workers, RunDies(w) PROVE Inv'
  <2>1. faults' \in 0..MaxFaults
    BY <1>4, ConstantsAssumption DEF RunDies, Inv, TypeOK
  <2> QED BY <1>4, <2>1, RejectOK DEF RunDies, Inv, TypeOK
<1>5. ASSUME NEW s \in Syncers, NEW limit, NEW found \in SUBSET Deliveries,
             FindTicketed(s, limit, found)
      PROVE  Inv'
  <2> DEFINE r == [IdleSync EXCEPT !.pc = "ask", !.rest = found]
  <2>1. r \in SyncType
    BY IdleSyncType DEF SyncType, IdleSync
  <2>2. sync' = [sync EXCEPT ![s] = r]
    BY <1>5 DEF FindTicketed
  <2> HIDE DEF r
  <2>3. sync' \in [Syncers -> SyncType]
    BY <2>1, <2>2, SyncReplaced DEF Inv
  <2> QED BY <1>5, <2>3 DEF FindTicketed, Inv, TypeOK
<1>6. ASSUME NEW s \in Syncers, SyncDies(s) PROVE Inv'
  <2>1. faults' \in 0..MaxFaults
    BY <1>6, ConstantsAssumption DEF SyncDies, Inv, TypeOK
  <2>2. sync' \in [Syncers -> SyncType]
    BY <1>6, IdleSyncType, SyncReplaced DEF SyncDies, Inv
  <2> QED BY <1>6, <2>1, <2>2 DEF SyncDies, Inv, TypeOK
<1> QED
  BY <1>1, <1>2, <1>3, <1>4, <1>5, <1>6, EnvironmentInv, RunStepInv, SyncStepInv
  DEF Next, TakeJob, CallDispatch, CallReceipts

LEMMA InvHolds == Spec => []Inv
  BY InitInv, NextInv, PTL DEF Spec

\* Type correctness of every table row and of every running call's snapshot,
\* for any number of overlapping calls (dispatchPending, syncReceipts, publish).
THEOREM TypeCorrect == Spec => []TypeOK
<1>1. Inv => TypeOK
  BY DEF Inv
<1> QED BY <1>1, InvHolds, PTL

(***************************************************************************)
(* What a call holds only shrinks while it runs, and its history of         *)
(* deactivated installations only grows.                                    *)
(***************************************************************************)
Smaller(q, r) ==
  /\ q.rest \cup q.batch \subseteq r.rest \cup r.batch
  /\ q.dead \subseteq r.dead
  /\ q.rest \cup q.batch = {} \/ r.stale \subseteq q.stale

LEMMA NextBatchSmaller ==
  ASSUME NEW r \in RunType PROVE Smaller(NextBatch(r), r)
  BY DEF NextBatch, Smaller, IdleRun, RunType

LEMMA NextDeliverySmaller ==
  ASSUME NEW r \in RunType, NEW d \in Deliveries
  PROVE  Smaller(NextDelivery(r, d), r)
  BY NextBatchSmaller DEF NextDelivery, Smaller, RunType

LEMMA OutdateSmaller ==
  ASSUME NEW runs \in [Workers -> RunType], NEW I, NEW v \in Workers
  PROVE  Smaller(Outdate(runs, I)[v], runs[v])
  BY DEF Outdate, Smaller, RunType

LEMMA RunStepShrinks ==
  ASSUME Inv, NEW w \in Workers, RunStep(w), NEW v \in Workers
  PROVE  Smaller(run'[v], run[v])
<1> USE DEF Inv
<1>0. /\ run \in [Workers -> RunType]
      /\ run[w] \in RunType /\ run[v] \in RunType
      /\ \A u \in Workers : Smaller(run[u], run[u])
      /\ Smaller(IdleRun, run[v])
  BY DEF TypeOK, Smaller, IdleRun
<1>1. CASE CancelInactive(w)
  BY <1>0, <1>1, NextBatchSmaller DEF CancelInactive
<1>2. ASSUME NEW tickets, SendAnswered(w, tickets)
      PROVE  Smaller(run'[v], run[v])
  <2>1. BatchOf(run[w]) \subseteq run[w].rest
    BY FirstSubset DEF BatchOf
  <2> QED BY <1>0, <1>2, <2>1 DEF SendAnswered, Smaller, RunType
<1>3. ASSUME NEW accepted, SendThrows(w, accepted)
      PROVE  Smaller(run'[v], run[v])
  <2>1. BatchOf(run[w]) \subseteq run[w].rest
    BY FirstSubset DEF BatchOf
  <2> QED BY <1>0, <1>3, <2>1 DEF SendThrows, Smaller, RunType
<1>4. ASSUME NEW d \in Deliveries, RecordTicket(w, d)
      PROVE  Smaller(run'[v], run[v])
  <2>1. Smaller([run[w] EXCEPT !.pc = "disable"], run[w])
    BY <1>0 DEF Smaller, RunType
  <2> QED BY <1>0, <1>4, <2>1, NextDeliverySmaller DEF RecordTicket
<1>5. ASSUME NEW d \in Deliveries, DisableAfterTicket(w, d)
      PROVE  Smaller(run'[v], run[v])
  <2> DEFINE I    == {InstallationOf[d]}
             runs == Outdate(run, I)
             r    == [runs[w] EXCEPT !.pc = "record"]
  <2>1. I \subseteq Installations
    BY ConstantsAssumption
  <2>2. runs \in [Workers -> RunType] /\ \A u \in Workers : Smaller(runs[u], run[u])
    BY <1>0, <2>1, OutdateOK, OutdateSmaller
  <2>3. run' = [runs EXCEPT ![w] = NextDelivery(r, d)]
    BY <1>5, <2>2 DEF DisableAfterTicket
  <2> HIDE DEF runs
  <2>4. r \in RunType /\ Smaller(r, runs[w])
    BY <2>2 DEF RunType, Smaller
  <2>5. Smaller(NextDelivery(r, d), r)
    <3> HIDE DEF r
    <3> QED BY <2>4, NextDeliverySmaller
  <2>6. Smaller(NextDelivery(r, d), run[w])
    <3> HIDE DEF r
    <3> QED BY <2>2, <2>4, <2>5 DEF Smaller
  <2> QED BY <1>0, <2>2, <2>3, <2>6
<1>6. ASSUME NEW d \in Deliveries, RecordThrows(w, d)
      PROVE  Smaller(run'[v], run[v])
  BY <1>0, <1>6 DEF RecordThrows, Smaller, RunType
<1>7. ASSUME NEW d \in Deliveries, RollBack(w, d)
      PROVE  Smaller(run'[v], run[v])
  BY <1>0, <1>7, NextDeliverySmaller DEF RollBack
<1>8. ASSUME NEW d \in Deliveries, RollBackThrows(w, d)
      PROVE  Smaller(run'[v], run[v])
  BY <1>0, <1>8 DEF RollBackThrows, Reject
<1> QED BY <1>1, <1>2, <1>3, <1>4, <1>5, <1>6, <1>7, <1>8 DEF RunStep

(***************************************************************************)
(* Revocation.                                                              *)
(***************************************************************************)
LEMMA ReachKept ==
  ASSUME RevocationTakesEffect, inst' = inst,
         \A v \in Workers : Smaller(run'[v], run[v])
  PROVE  RevocationTakesEffect'
  BY DEF RevocationTakesEffect, Smaller, Active

\* Installations I stop being active in this step.
LEMMA ReachOutdated ==
  ASSUME Inv, RevocationTakesEffect, NEW I, I \subseteq Installations,
         \A i \in Installations : inst[i] = "active" /\ i \notin I =>
                                    inst'[i] = "active",
         \A v \in Workers : /\ Smaller(run'[v], Outdate(run, I)[v])
  PROVE  RevocationTakesEffect'
<1> SUFFICES ASSUME NEW v \in Workers, NEW d \in run'[v].rest \cup run'[v].batch
             PROVE  Active(d)' \/ InstallationOf[d] \in run'[v].stale
  BY DEF RevocationTakesEffect
<1> DEFINE r == Outdate(run, I)[v]
<1>0. RunOK(run[v]) /\ run[v] \in RunType
  BY DEF Inv, RunOK
<1>1. d \in r.rest \cup r.batch /\ r.stale \subseteq run'[v].stale
  BY DEF Smaller
<1>2. /\ d \in run[v].rest \cup run[v].batch
      /\ r.stale = run[v].stale \cup I
  BY <1>0, <1>1 DEF Outdate, RunOK, RunType
<1>3. d \in Deliveries /\ InstallationOf[d] \in Installations
  BY <1>0, <1>2, ConstantsAssumption DEF RunType
<1>4. Active(d) \/ InstallationOf[d] \in run[v].stale
  BY <1>2 DEF RevocationTakesEffect
<1> QED BY <1>1, <1>2, <1>3, <1>4 DEF Active

LEMMA NextRevocation ==
  Inv /\ RevocationTakesEffect /\ [Next]_vars => RevocationTakesEffect'
<1> SUFFICES ASSUME Inv, RevocationTakesEffect, [Next]_vars
             PROVE  RevocationTakesEffect'
  OBVIOUS
<1>0. /\ run \in [Workers -> RunType]
      /\ \A v \in Workers : Smaller(run[v], run[v])
  BY DEF Inv, TypeOK, Smaller
<1>1. CASE UNCHANGED <<inst, run>>
  BY <1>0, <1>1, ReachKept
<1>2. ASSUME NEW I, I \subseteq Installations, run' = Outdate(run, I),
             \A i \in Installations : inst[i] = "active" /\ i \notin I =>
                                        inst'[i] = "active"
      PROVE  RevocationTakesEffect'
  <2>1. \A v \in Workers : Smaller(run'[v], Outdate(run, I)[v])
    BY <1>2 DEF Smaller
  <2> QED BY <1>2, <2>1, ReachOutdated
<1>3. ASSUME NEW i \in Installations, NEW R \in SUBSET Installations,
             RegisterInstallation(i, R)
      PROVE  RevocationTakesEffect'
  BY <1>2, <1>3 DEF RegisterInstallation
<1>4. ASSUME NEW i \in Installations, RevokeInstallation(i)
      PROVE  RevocationTakesEffect'
  BY <1>2, <1>4 DEF RevokeInstallation, Deactivate
<1>5. ASSUME NEW I \in SUBSET Installations, NEW D \in SUBSET Deliveries,
             DeleteAccount(I, D)
      PROVE  RevocationTakesEffect'
  BY <1>2, <1>5 DEF DeleteAccount
<1>6. ASSUME NEW w \in Workers, RunStep(w), inst' = inst
      PROVE  RevocationTakesEffect'
  BY <1>6, RunStepShrinks, ReachKept
<1>7. ASSUME NEW w \in Workers, NEW d \in Deliveries, DisableAfterTicket(w, d)
      PROVE  RevocationTakesEffect'
  <2> DEFINE I    == {InstallationOf[d]}
             runs == Outdate(run, I)
             r    == [runs[w] EXCEPT !.pc = "record"]
  <2>1. I \subseteq Installations
    BY ConstantsAssumption
  <2>2. runs \in [Workers -> RunType] /\ \A u \in Workers : Smaller(runs[u], runs[u])
    BY <1>0, <2>1, OutdateOK DEF Inv, Smaller
  <2>3. run' = [runs EXCEPT ![w] = NextDelivery(r, d)]
    BY <1>7, <2>2 DEF DisableAfterTicket
  <2>4. \A i \in Installations : inst[i] = "active" /\ i \notin I =>
                                   inst'[i] = "active"
    BY <1>7 DEF DisableAfterTicket, Deactivate
  <2> HIDE DEF runs
  <2>5. r \in RunType /\ Smaller(r, runs[w])
    BY <2>2 DEF RunType, Smaller
  <2>6. Smaller(NextDelivery(r, d), runs[w])
    <3> HIDE DEF r
    <3> QED BY <2>5, NextDeliverySmaller DEF Smaller
  <2>7. \A v \in Workers : Smaller(run'[v], runs[v])
    BY <2>2, <2>3, <2>6
  <2> QED BY <2>1, <2>4, <2>7, ReachOutdated DEF runs
<1>8. ASSUME NEW w \in Workers, NEW limit, NEW left, FindPending(w, limit, left),
             inst' = inst
      PROVE  RevocationTakesEffect'
  <2>1. \A d \in run'[w].rest \cup run'[w].batch : Active(d)
    BY <1>0, <1>8 DEF FindPending, IdleRun
  <2>2. \A v \in Workers \ {w} : run'[v] = run[v]
    BY <1>0, <1>8 DEF FindPending
  <2> QED BY <1>8, <2>1, <2>2 DEF RevocationTakesEffect, Active
<1>9. ASSUME NEW w \in Workers, RunDies(w) PROVE RevocationTakesEffect'
  <2>1. \A v \in Workers : Smaller(run'[v], run[v])
    BY <1>0, <1>9 DEF RunDies, Reject, Smaller, IdleRun
  <2> QED BY <1>9, <2>1, ReachKept DEF RunDies
<1>10. ASSUME NEW s \in Syncers, DisableAfterReceipt(s)
       PROVE  RevocationTakesEffect'
  <2>1. sync[s].off \subseteq Installations
    BY DEF Inv, TypeOK, SyncType
  <2> QED BY <1>2, <1>10, <2>1 DEF DisableAfterReceipt, Deactivate
<1>11. CASE Environment
  BY <1>1, <1>3, <1>4, <1>5, <1>11 DEF Environment, Publish
<1>12. ASSUME NEW w \in Workers, RunStep(w) PROVE RevocationTakesEffect'
  <2>1. inst' = inst \/ \E d \in Deliveries : DisableAfterTicket(w, d)
    BY <1>12 DEF RunStep, CancelInactive, SendAnswered, SendThrows, RecordTicket,
                 RecordThrows, RollBack, RollBackThrows
  <2> QED BY <1>6, <1>7, <1>12, <2>1
<1>13. ASSUME NEW s \in Syncers, SyncStep(s) PROVE RevocationTakesEffect'
  BY <1>1, <1>10, <1>13 DEF SyncStep, GetReceipts, ApplyReceipt, ApplyThrows
<1>14. CASE UNCHANGED vars
  BY <1>1, <1>14 DEF vars
<1> QED
  BY <1>1, <1>8, <1>9, <1>11, <1>12, <1>13, <1>14
  DEF Next, TakeJob, CallDispatch, CallReceipts, RunJob, DispatchEndpoint,
      FindTicketed, SyncDies

\* Revoking or disabling an installation puts it out of reach of every later
\* dispatchPending call, for any number of calls in flight.
THEOREM RevocationHolds == Spec => []RevocationTakesEffect
<1>1. Init => RevocationTakesEffect
  BY DEF Init, RevocationTakesEffect, IdleRun
<1> QED BY <1>1, InvHolds, NextRevocation, PTL DEF Spec

(***************************************************************************)
(* Delivered means sent.  What must be carried along: an ok ticket that is  *)
(* still to be written, and every row a receipt sync holds, was sent.       *)
(***************************************************************************)
OkTicketWasSent(r, S) ==
  r.pc \in {"record", "disable"} =>
    \A d \in r.todo : r.tickets[d] = "ok" => d \in S

SentInv ==
  /\ DeliveredWasSent
  /\ \A w \in Workers : OkTicketWasSent(run[w], sent)
  /\ \A s \in Syncers : sync[s].rest \cup sync[s].todo \subseteq sent

LEMMA NextDeliverySent ==
  ASSUME NEW r \in RunType, NEW d \in Deliveries, NEW S, OkTicketWasSent(r, S)
  PROVE  OkTicketWasSent(NextDelivery(r, d), S)
<1>1. r.todo \ {d} \subseteq r.todo /\ d \notin r.todo \ {d}
  OBVIOUS
<1> QED BY <1>1 DEF NextDelivery, NextBatch, IdleRun, OkTicketWasSent, RunType

LEMMA OutdateSent ==
  ASSUME NEW runs \in [Workers -> RunType], NEW I, NEW v \in Workers, NEW S,
         OkTicketWasSent(runs[v], S)
  PROVE  OkTicketWasSent(Outdate(runs, I)[v], S)
  BY DEF Outdate, OkTicketWasSent, RunType

LEMMA NextReceiptHolds ==
  ASSUME NEW r \in SyncType
  PROVE  /\ NextReceipt(r).rest \subseteq r.rest
         /\ NextReceipt(r).todo \subseteq r.todo
<1>1. CASE r.todo # {}
  <2>1. NextReceipt(r) = [r EXCEPT !.pc = "apply", !.off = {}]
    BY <1>1 DEF NextReceipt
  <2> QED BY <2>1 DEF SyncType
<1>2. CASE r.todo = {} /\ r.rest # {}
  <2>1. NextReceipt(r) = [r EXCEPT !.pc = "ask", !.off = {}]
    BY <1>2 DEF NextReceipt
  <2> QED BY <2>1 DEF SyncType
<1>3. CASE r.todo = {} /\ r.rest = {}
  BY <1>3 DEF NextReceipt, IdleSync
<1> QED BY <1>1, <1>2, <1>3

\* The rows, calls and syncs a step leaves alone stay right while sent grows.
LEMMA SentKept ==
  ASSUME SentInv, sent \subseteq sent',
         \A d \in Deliveries :
           row'[d].status \in {"ticketed", "delivered"} =>
             d \in sent' \/ row[d].status \in {"ticketed", "delivered"},
         \A w \in Workers : run'[w] = run[w] \/ OkTicketWasSent(run'[w], sent'),
         \A s \in Syncers : \/ sync'[s] = sync[s]
                            \/ sync'[s].rest \cup sync'[s].todo \subseteq sent'
  PROVE  SentInv'
<1>1. DeliveredWasSent'
  BY DEF SentInv, DeliveredWasSent
<1>2. ASSUME NEW w \in Workers PROVE OkTicketWasSent(run[w], sent)'
  BY DEF SentInv, OkTicketWasSent
<1>3. ASSUME NEW s \in Syncers
      PROVE  sync'[s].rest \cup sync'[s].todo \subseteq sent'
  BY DEF SentInv
<1> QED BY <1>1, <1>2, <1>3 DEF SentInv

LEMMA RunStepSent ==
  ASSUME Inv, SentInv, NEW w \in Workers, RunStep(w) PROVE SentInv'
<1>0. /\ run \in [Workers -> RunType] /\ run[w] \in RunType
      /\ row \in [Deliveries -> RowType]
      /\ OkTicketWasSent(run[w], sent)
      /\ OkTicketWasSent(IdleRun, sent)
  BY DEF Inv, TypeOK, SentInv, OkTicketWasSent, IdleRun
<1>1. CASE CancelInactive(w)
  <2>1. OkTicketWasSent(NextBatch(run[w]), sent)
    BY DEF NextBatch, OkTicketWasSent, IdleRun
  <2>2. \A d \in Deliveries : row'[d] = row[d] \/ row'[d].status = "cancelled"
    BY <1>0, <1>1 DEF CancelInactive, RowType
  <2>3. \A v \in Workers : run'[v] = run[v] \/ OkTicketWasSent(run'[v], sent)
    BY <1>0, <1>1, <2>1 DEF CancelInactive
  <2> QED BY <1>1, <2>2, <2>3, SentKept DEF CancelInactive
<1>2. ASSUME NEW tickets \in [BatchOf(run[w]) -> Tickets],
             SendAnswered(w, tickets)
      PROVE  SentInv'
  <2>1. OkTicketWasSent(run'[w], sent')
    <3>1. BatchOf(run[w]) \subseteq Deliveries
      BY <1>0, FirstSubset DEF BatchOf, RunType
    <3>2. /\ run'[w].todo = BatchOf(run[w])
          /\ run'[w].tickets = [d \in Deliveries |->
                IF d \in BatchOf(run[w]) THEN tickets[d] ELSE "ok"]
      BY <1>0, <1>2 DEF SendAnswered, RunType
    <3>3. sent' = sent \cup {d \in BatchOf(run[w]) : tickets[d] = "ok"}
      BY <1>2 DEF SendAnswered
    <3> QED BY <3>1, <3>2, <3>3 DEF OkTicketWasSent
  <2>2. \A v \in Workers : run'[v] = run[v] \/ OkTicketWasSent(run'[v], sent')
    BY <1>0, <1>2, <2>1 DEF SendAnswered
  <2> QED BY <1>2, <2>2, SentKept DEF SendAnswered
<1>3. ASSUME NEW accepted, SendThrows(w, accepted) PROVE SentInv'
  <2>1. OkTicketWasSent(run'[w], sent')
    BY <1>0, <1>3 DEF SendThrows, OkTicketWasSent, RunType
  <2>2. \A v \in Workers : run'[v] = run[v] \/ OkTicketWasSent(run'[v], sent')
    BY <1>0, <1>3, <2>1 DEF SendThrows
  <2> QED BY <1>3, <2>2, SentKept DEF SendThrows
<1>4. ASSUME NEW d \in Deliveries, RecordTicket(w, d) PROVE SentInv'
  <2>1. run[w].pc = "record" /\ d \in run[w].todo
    BY <1>4 DEF RecordTicket, IsNext
  <2>2. row'[d].status \in {"ticketed", "delivered"} => d \in sent
    <3>1. CASE run[w].tickets[d] = "ok"
      BY <1>0, <2>1, <3>1 DEF OkTicketWasSent
    <3>2. CASE run[w].tickets[d] # "ok"
      <4>1. row'[d].status \in {"failed", "pending"}
        <5> DEFINE n == AfterFailure(run[w].seen[d] + 1,
                                     Permanent(run[w].tickets[d]))
        <5>1. n \in {"failed", "pending"}
          BY DEF AfterFailure
        <5>2. row'[d] = [row[d] EXCEPT !.status = n,
                                       !.attempts = run[w].seen[d] + 1]
          BY <1>0, <1>4, <3>2 DEF RecordTicket
        <5> HIDE DEF n
        <5> QED BY <1>0, <5>1, <5>2 DEF RowType
      <4> QED BY <4>1
    <3> QED BY <3>1, <3>2
  <2>3. \A e \in Deliveries : e = d \/ row'[e] = row[e]
    BY <1>0, <1>4 DEF RecordTicket
  <2>4. OkTicketWasSent([run[w] EXCEPT !.pc = "disable"], sent)
    BY <1>0, <2>1 DEF OkTicketWasSent, RunType
  <2>5. \A v \in Workers : run'[v] = run[v] \/ OkTicketWasSent(run'[v], sent)
    BY <1>0, <1>4, <2>4, NextDeliverySent DEF RecordTicket
  <2> QED BY <1>4, <2>2, <2>3, <2>5, SentKept DEF RecordTicket
<1>5. ASSUME NEW d \in Deliveries, DisableAfterTicket(w, d) PROVE SentInv'
  <2> DEFINE I    == {InstallationOf[d]}
             runs == Outdate(run, I)
             r    == [runs[w] EXCEPT !.pc = "record"]
  <2>1. I \subseteq Installations
    BY ConstantsAssumption
  <2>2. /\ runs \in [Workers -> RunType]
        /\ \A u \in Workers : OkTicketWasSent(runs[u], sent)
    BY <1>0, <2>1, OutdateOK, OutdateSent DEF Inv, SentInv
  <2>3. run' = [runs EXCEPT ![w] = NextDelivery(r, d)]
    BY <1>5, <2>2 DEF DisableAfterTicket
  <2>4. runs[w].pc = "disable"
    BY <1>0, <1>5 DEF DisableAfterTicket, Outdate, RunType
  <2> HIDE DEF runs
  <2>5. r \in RunType /\ OkTicketWasSent(r, sent)
    BY <2>2, <2>4 DEF RunType, OkTicketWasSent
  <2>6. OkTicketWasSent(NextDelivery(r, d), sent)
    <3> HIDE DEF r
    <3> QED BY <2>5, NextDeliverySent
  <2>7. \A v \in Workers : OkTicketWasSent(run'[v], sent)
    BY <2>2, <2>3, <2>6
  <2> QED BY <1>5, <2>7, SentKept DEF DisableAfterTicket
<1>6. ASSUME NEW d \in Deliveries, RecordThrows(w, d) PROVE SentInv'
  <2>1. \A v \in Workers : run'[v] = run[v] \/ OkTicketWasSent(run'[v], sent)
    BY <1>0, <1>6 DEF RecordThrows, OkTicketWasSent, RunType
  <2> QED BY <1>6, <2>1, SentKept DEF RecordThrows
<1>7. ASSUME NEW d \in Deliveries, RollBack(w, d) PROVE SentInv'
  <2>1. row'[d].status \in {"failed", "pending"}
    BY <1>0, <1>7 DEF RollBack, AfterFailure, RowType
  <2>2. \A e \in Deliveries : e = d \/ row'[e] = row[e]
    BY <1>0, <1>7 DEF RollBack
  <2>3. \A v \in Workers : run'[v] = run[v] \/ OkTicketWasSent(run'[v], sent)
    BY <1>0, <1>7, NextDeliverySent DEF RollBack
  <2> QED BY <1>7, <2>1, <2>2, <2>3, SentKept DEF RollBack
<1>8. ASSUME NEW d \in Deliveries, RollBackThrows(w, d) PROVE SentInv'
  <2>1. \A v \in Workers : run'[v] = run[v] \/ OkTicketWasSent(run'[v], sent)
    BY <1>0, <1>8 DEF RollBackThrows, Reject
  <2> QED BY <1>8, <2>1, SentKept DEF RollBackThrows
<1> QED BY <1>1, <1>2, <1>3, <1>4, <1>5, <1>6, <1>7, <1>8 DEF RunStep

LEMMA SyncStepSent ==
  ASSUME Inv, SentInv, NEW s \in Syncers, SyncStep(s) PROVE SentInv'
<1>0. /\ sync \in [Syncers -> SyncType] /\ sync[s] \in SyncType
      /\ row \in [Deliveries -> RowType]
      /\ run \in [Workers -> RunType]
      /\ sync[s].rest \cup sync[s].todo \subseteq sent
  BY DEF Inv, TypeOK, SentInv
<1>1. ASSUME NEW batch \in SUBSET sync[s].rest, NEW known \in SUBSET sync[s].rest,
             NEW receipts \in [known -> Receipts],
             GetReceipts(s, batch, receipts)
      PROVE  SentInv'
  <2> DEFINE t == [d \in Deliveries |->
                     IF d \in DOMAIN receipts THEN receipts[d] ELSE "ok"]
             r == [sync[s] EXCEPT !.rest = sync[s].rest \ batch,
                                  !.todo = DOMAIN receipts, !.receipts = t]
  <2>1. t \in [Deliveries -> Receipts]
    BY DEF Receipts
  <2>2. known \subseteq Deliveries /\ DOMAIN receipts = known
    BY <1>0 DEF SyncType
  <2>3. r \in SyncType /\ r.rest \cup r.todo \subseteq sent
    <3> HIDE DEF t
    <3> QED BY <1>0, <2>1, <2>2 DEF SyncType
  <2>4. sync' = [sync EXCEPT ![s] = NextReceipt(r)]
    BY <1>0, <1>1 DEF GetReceipts
  <2> HIDE DEF r
  <2>5. \A u \in Syncers : \/ sync'[u] = sync[u]
                           \/ sync'[u].rest \cup sync'[u].todo \subseteq sent
    BY <1>0, <2>3, <2>4, NextReceiptHolds
  <2> QED BY <1>1, <2>5, SentKept DEF GetReceipts
<1>2. ASSUME NEW d \in Deliveries, ApplyReceipt(s, d) PROVE SentInv'
  <2> DEFINE receipt == sync[s].receipts[d]
             done    == [sync[s] EXCEPT !.todo = sync[s].todo \ {d}]
             r == IF Disables(receipt)
                    THEN [done EXCEPT !.pc = "disable",
                                      !.off = {InstallationOf[d]}]
                    ELSE NextReceipt(done)
  <2>1. /\ done \in SyncType
        /\ done.rest = sync[s].rest /\ done.todo \subseteq sync[s].todo
    BY <1>0 DEF SyncType
  <2>2. r.rest \subseteq done.rest /\ r.todo \subseteq done.todo
    <3> HIDE DEF done
    <3> QED BY <2>1, NextReceiptHolds DEF SyncType
  <2>3. sync' = [sync EXCEPT ![s] = r]
    BY <1>0, <1>2 DEF ApplyReceipt
  <2>4. r.rest \cup r.todo \subseteq sent
    <3> HIDE DEF done, r
    <3> QED BY <1>0, <2>1, <2>2
  <2> HIDE DEF r
  <2>5. \A u \in Syncers : \/ sync'[u] = sync[u]
                           \/ sync'[u].rest \cup sync'[u].todo \subseteq sent
    BY <1>0, <2>3, <2>4
  <2>6. d \in sent /\ \A e \in Deliveries : e = d \/ row'[e] = row[e]
    BY <1>0, <1>2 DEF ApplyReceipt
  <2> QED BY <1>2, <2>5, <2>6, SentKept DEF ApplyReceipt
<1>3. CASE DisableAfterReceipt(s)
  <2>1. \A v \in Workers : OkTicketWasSent(run'[v], sent)
    BY <1>0, <1>3, OutdateSent DEF DisableAfterReceipt, SentInv
  <2>2. \A u \in Syncers : \/ sync'[u] = sync[u]
                           \/ sync'[u].rest \cup sync'[u].todo \subseteq sent
    BY <1>0, <1>3, NextReceiptHolds DEF DisableAfterReceipt
  <2> QED BY <1>3, <2>1, <2>2, SentKept DEF DisableAfterReceipt
<1>4. CASE ApplyThrows(s)
  <2> DEFINE r == [sync[s] EXCEPT !.todo = {}]
  <2>1. r \in SyncType /\ r.rest \cup r.todo \subseteq sent
    BY <1>0 DEF SyncType
  <2>2. sync' = [sync EXCEPT ![s] = NextReceipt(r)]
    BY <1>0, <1>4 DEF ApplyThrows
  <2> HIDE DEF r
  <2>3. \A u \in Syncers : \/ sync'[u] = sync[u]
                           \/ sync'[u].rest \cup sync'[u].todo \subseteq sent
    BY <1>0, <2>1, <2>2, NextReceiptHolds
  <2> QED BY <1>4, <2>3, SentKept DEF ApplyThrows
<1> QED BY <1>1, <1>2, <1>3, <1>4 DEF SyncStep

LEMMA NextSent == Inv /\ SentInv /\ [Next]_vars => SentInv'
<1> SUFFICES ASSUME Inv, SentInv, [Next]_vars PROVE SentInv'
  OBVIOUS
<1>0. /\ run \in [Workers -> RunType] /\ sync \in [Syncers -> SyncType]
      /\ row \in [Deliveries -> RowType]
      /\ \A w \in Workers : OkTicketWasSent(run[w], sent)
      /\ OkTicketWasSent(IdleRun, sent)
  BY DEF Inv, TypeOK, SentInv, OkTicketWasSent, IdleRun
<1>1. CASE UNCHANGED <<row, sent, run, sync>>
  BY <1>1, SentKept
<1>2. CASE Environment
  <2>1. \A v \in Workers : \A I : OkTicketWasSent(Outdate(run, I)[v], sent)
    BY <1>0, OutdateSent
  <2>2. ASSUME NEW i \in Installations, NEW R \in SUBSET Installations,
               RegisterInstallation(i, R)
        PROVE  SentInv'
    BY <2>1, <2>2, SentKept DEF RegisterInstallation
  <2>3. ASSUME NEW i \in Installations, RevokeInstallation(i) PROVE SentInv'
    BY <2>1, <2>3, SentKept DEF RevokeInstallation
  <2>4. ASSUME NEW I \in SUBSET Installations, NEW D \in SUBSET Deliveries,
               DeleteAccount(I, D)
        PROVE  SentInv'
    <3>1. \A d \in Deliveries : row'[d] = row[d] \/ row'[d].status = "deleted"
      BY <1>0, <2>4 DEF DeleteAccount, RowType
    <3> QED BY <2>1, <2>4, <3>1, SentKept DEF DeleteAccount
  <2>5. ASSUME NEW D \in SUBSET Deliveries, Publish(D) PROVE SentInv'
    <3>1. \A d \in Deliveries : row'[d] = row[d] \/ row'[d].status = "pending"
      BY <1>0, <2>5 DEF Publish, NewRow
    <3> QED BY <2>5, <3>1, SentKept DEF Publish
  <2> QED BY <1>2, <2>2, <2>3, <2>4, <2>5 DEF Environment
<1>3. ASSUME NEW w \in Workers, NEW limit, NEW left, FindPending(w, limit, left),
             UNCHANGED <<row, sent, sync>>
      PROVE  SentInv'
  <2>1. \A v \in Workers : run'[v] = run[v] \/ OkTicketWasSent(run'[v], sent)
    BY <1>0, <1>3 DEF FindPending, OkTicketWasSent, IdleRun
  <2> QED BY <1>3, <2>1, SentKept
<1>4. ASSUME NEW w \in Workers, RunDies(w) PROVE SentInv'
  <2>1. \A v \in Workers : run'[v] = run[v] \/ OkTicketWasSent(run'[v], sent)
    BY <1>0, <1>4 DEF RunDies, Reject
  <2> QED BY <1>4, <2>1, SentKept DEF RunDies
<1>5. ASSUME NEW s \in Syncers, NEW limit, NEW found, FindTicketed(s, limit, found)
      PROVE  SentInv'
  <2>1. found \subseteq sent
    BY <1>5 DEF FindTicketed, Some, AwaitingReceipt, SentInv, DeliveredWasSent
  <2>2. \A u \in Syncers : \/ sync'[u] = sync[u]
                           \/ sync'[u].rest \cup sync'[u].todo \subseteq sent
    BY <1>0, <1>5, <2>1 DEF FindTicketed, IdleSync
  <2> QED BY <1>5, <2>2, SentKept DEF FindTicketed
<1>6. ASSUME NEW s \in Syncers, SyncDies(s) PROVE SentInv'
  <2>1. \A u \in Syncers : \/ sync'[u] = sync[u]
                           \/ sync'[u].rest \cup sync'[u].todo \subseteq sent
    BY <1>0, <1>6 DEF SyncDies, IdleSync
  <2> QED BY <1>6, <2>1, SentKept DEF SyncDies
<1> QED
  BY <1>1, <1>2, <1>3, <1>4, <1>5, <1>6, RunStepSent, SyncStepSent
  DEF Next, vars, TakeJob, CallDispatch, CallReceipts, RunJob, DispatchEndpoint

\* A delivery reported as ticketed or delivered was accepted by Expo, whatever
\* the interleaving of dispatchPending and syncReceipts calls.
THEOREM DeliveredWasSentHolds == Spec => []DeliveredWasSent
<1>1. Init => SentInv
  BY DEF Init, SentInv, DeliveredWasSent, OkTicketWasSent, NoRow, IdleRun, IdleSync
<1>2. SentInv => DeliveredWasSent
  BY DEF SentInv
<1> QED BY <1>1, <1>2, InvHolds, NextSent, PTL DEF Spec

(***************************************************************************)
(* Settled is final when no call holds the delivery.                        *)
(***************************************************************************)
Untouched(d) ==
  /\ row'[d] = row[d] \/ row'[d].status = "deleted" \/ row[d].status = "none"
  /\ d \in sent' => d \in sent
  /\ ~Held(d)'

LEMMA StillUnheld ==
  ASSUME NEW d, ~Held(d),
         \A v \in Workers : Smaller(run'[v], run[v]) \/
           d \notin run'[v].dead \cup run'[v].rest \cup run'[v].batch,
         \A s \in Syncers : d \notin sync'[s].rest \cup sync'[s].todo
  PROVE  ~Held(d)'
  BY DEF Held, Smaller

\* What no call holds and no query finds is left alone.
LEMMA NextUnheld ==
  ASSUME Inv, [Next]_vars, NEW d \in Deliveries,
         row[d].status \notin {"pending", "ticketed"}, ~Held(d)
  PROVE  Untouched(d)
<1>0. /\ run \in [Workers -> RunType] /\ sync \in [Syncers -> SyncType]
      /\ row \in [Deliveries -> RowType]
      /\ \A w \in Workers : /\ Smaller(run[w], run[w])
                            /\ Smaller(IdleRun, run[w])
                            /\ run[w].todo \subseteq run[w].batch
                            /\ BatchOf(run[w]) \subseteq run[w].rest
                            /\ d \notin run[w].dead /\ d \notin run[w].rest
                            /\ d \notin run[w].batch
      /\ \A s \in Syncers : d \notin sync[s].rest /\ d \notin sync[s].todo
  BY FirstSubset DEF Inv, TypeOK, Smaller, IdleRun, Held, RunOK, BatchOf
<1>1. ASSUME NEW w \in Workers, RunStep(w) PROVE Untouched(d)
  <2>1. ~Held(d)'
    <3>1. UNCHANGED sync
      BY <1>1 DEF RunStep, CancelInactive, SendAnswered, SendThrows, RecordTicket,
                  DisableAfterTicket, RecordThrows, RollBack, RollBackThrows
    <3> QED BY <1>0, <1>1, <3>1, RunStepShrinks, StillUnheld
  <2> DEFINE Same == row'[d] = row[d] /\ (d \in sent' => d \in sent)
  <2>2. ASSUME CancelInactive(w) PROVE Same
    BY <1>0, <2>2 DEF CancelInactive
  <2>3. ASSUME NEW tickets, SendAnswered(w, tickets) PROVE Same
    BY <1>0, <2>3 DEF SendAnswered
  <2>4. ASSUME NEW accepted \in {{}, BatchOf(run[w])}, SendThrows(w, accepted)
        PROVE  Same
    BY <1>0, <2>4 DEF SendThrows
  <2>5. ASSUME NEW e \in Deliveries, RecordTicket(w, e) PROVE Same
    <3>1. e # d
      BY <1>0, <2>5 DEF RecordTicket, IsNext
    <3> QED BY <1>0, <2>5, <3>1 DEF RecordTicket
  <2>6. ASSUME NEW e \in Deliveries, RollBack(w, e) PROVE Same
    <3>1. e # d
      BY <1>0, <2>6 DEF RollBack, IsNext
    <3> QED BY <1>0, <2>6, <3>1 DEF RollBack
  <2>7. ASSUME UNCHANGED <<row, sent>> PROVE Same
    BY <2>7
  <2>8. Same
    BY <1>1, <2>2, <2>3, <2>4, <2>5, <2>6, <2>7
    DEF RunStep, DisableAfterTicket, RecordThrows, RollBackThrows
  <2> QED BY <2>1, <2>8 DEF Untouched
<1>2. ASSUME NEW s \in Syncers, SyncStep(s) PROVE Untouched(d)
  <2>0. sync[s] \in SyncType
    BY <1>0
  <2>1. \A u \in Syncers : d \notin sync'[u].rest \cup sync'[u].todo
    <3>1. ASSUME NEW r \in SyncType, d \notin r.rest, d \notin r.todo,
                 sync' = [sync EXCEPT ![s] = NextReceipt(r)]
          PROVE  \A u \in Syncers : d \notin sync'[u].rest \cup sync'[u].todo
      BY <1>0, <3>1, NextReceiptHolds
    <3>2. ASSUME NEW batch \in SUBSET sync[s].rest,
                 NEW known \in SUBSET sync[s].rest,
                 NEW receipts \in [known -> Receipts],
                 GetReceipts(s, batch, receipts)
          PROVE  \A u \in Syncers : d \notin sync'[u].rest \cup sync'[u].todo
      <4> DEFINE t == [e \in Deliveries |->
                         IF e \in DOMAIN receipts THEN receipts[e] ELSE "ok"]
                 r == [sync[s] EXCEPT !.rest = sync[s].rest \ batch,
                                      !.todo = DOMAIN receipts, !.receipts = t]
      <4>1. t \in [Deliveries -> Receipts]
        BY DEF Receipts
      <4>2. known \subseteq Deliveries /\ DOMAIN receipts = known
        BY <2>0 DEF SyncType
      <4>3. r \in SyncType /\ d \notin r.rest /\ d \notin r.todo
        <5> HIDE DEF t
        <5> QED BY <1>0, <2>0, <4>1, <4>2 DEF SyncType
      <4>4. sync' = [sync EXCEPT ![s] = NextReceipt(r)]
        BY <1>0, <3>2 DEF GetReceipts
      <4> HIDE DEF r
      <4> QED BY <3>1, <4>3, <4>4
    <3>3. ASSUME NEW e \in Deliveries, ApplyReceipt(s, e)
          PROVE  \A u \in Syncers : d \notin sync'[u].rest \cup sync'[u].todo
      <4> DEFINE done == [sync[s] EXCEPT !.todo = sync[s].todo \ {e}]
      <4>1. done \in SyncType /\ d \notin done.rest /\ d \notin done.todo
        BY <1>0, <2>0 DEF SyncType
      <4>2. \/ sync' = [sync EXCEPT ![s] = NextReceipt(done)]
            \/ sync' = [sync EXCEPT ![s] = [done EXCEPT
                          !.pc = "disable", !.off = {InstallationOf[e]}]]
        BY <3>3 DEF ApplyReceipt
      <4> HIDE DEF done
      <4>3. CASE sync' = [sync EXCEPT ![s] = [done EXCEPT
                           !.pc = "disable", !.off = {InstallationOf[e]}]]
        BY <1>0, <4>1, <4>3 DEF SyncType
      <4>4. CASE sync' = [sync EXCEPT ![s] = NextReceipt(done)]
        BY <3>1, <4>1, <4>4
      <4> QED BY <4>2, <4>3, <4>4
    <3>4. CASE DisableAfterReceipt(s)
      BY <1>0, <2>0, <3>1, <3>4 DEF DisableAfterReceipt
    <3>5. CASE ApplyThrows(s)
      <4> DEFINE r == [sync[s] EXCEPT !.todo = {}]
      <4>1. r \in SyncType /\ d \notin r.rest /\ d \notin r.todo
        BY <1>0, <2>0 DEF SyncType
      <4>2. sync' = [sync EXCEPT ![s] = NextReceipt(r)]
        BY <1>0, <3>5 DEF ApplyThrows
      <4> HIDE DEF r
      <4> QED BY <3>1, <4>1, <4>2
    <3> QED BY <1>2, <3>2, <3>3, <3>4, <3>5 DEF SyncStep
  <2>2. \A v \in Workers : Smaller(run'[v], run[v])
    <3>1. UNCHANGED run \/ run' = Outdate(run, sync[s].off)
      BY <1>2
      DEF SyncStep, GetReceipts, ApplyReceipt, DisableAfterReceipt, ApplyThrows
    <3> QED BY <1>0, <3>1, OutdateSmaller
  <2>3. row'[d] = row[d] /\ sent' = sent
    <3>1. ASSUME NEW e \in Deliveries, ApplyReceipt(s, e)
          PROVE  row'[d] = row[d] /\ sent' = sent
      BY <1>0, <3>1 DEF ApplyReceipt
    <3>2. UNCHANGED <<row, sent>> => row'[d] = row[d] /\ sent' = sent
      OBVIOUS
    <3> QED BY <1>2, <3>1, <3>2
      DEF SyncStep, GetReceipts, DisableAfterReceipt, ApplyThrows
  <2>4. ~Held(d)'
    BY <2>1, <2>2, StillUnheld
  <2> QED BY <2>3, <2>4 DEF Untouched
<1>3. CASE Environment
  <2>1. \A v \in Workers : Smaller(run'[v], run[v])
    <3>1. UNCHANGED run \/ \E I : run' = Outdate(run, I)
      BY <1>3
      DEF Environment, RegisterInstallation, RevokeInstallation, DeleteAccount,
          Publish
    <3> QED BY <1>0, <3>1, OutdateSmaller
  <2>2. UNCHANGED <<sync, sent>>
    BY <1>3
    DEF Environment, RegisterInstallation, RevokeInstallation, DeleteAccount, Publish
  <2>3. row'[d] = row[d] \/ row'[d].status = "deleted" \/ row[d].status = "none"
    <3>1. ASSUME NEW D \in SUBSET Deliveries, Publish(D)
          PROVE  row'[d] = row[d] \/ row[d].status = "none"
      BY <1>0, <3>1 DEF Publish
    <3>2. ASSUME NEW I \in SUBSET Installations, NEW D \in SUBSET Deliveries,
                 DeleteAccount(I, D)
          PROVE  row'[d] = row[d] \/ row'[d].status = "deleted"
      BY <1>0, <3>2 DEF DeleteAccount, RowType
    <3> QED
      BY <1>3, <3>1, <3>2 DEF Environment, RegisterInstallation, RevokeInstallation
  <2>4. ~Held(d)'
    BY <1>0, <2>1, <2>2, StillUnheld
  <2> QED BY <2>2, <2>3, <2>4 DEF Untouched
<1>4. ASSUME NEW w \in Workers, NEW limit, NEW left, FindPending(w, limit, left),
             UNCHANGED <<row, sent, sync>>
      PROVE  Untouched(d)
  <2>1. d \notin Pending /\ First(Pending, limit) \subseteq Pending
    BY FirstSubset DEF Pending
  <2>2. \A v \in Workers : Smaller(run'[v], run[v]) \/
           d \notin run'[v].dead \cup run'[v].rest \cup run'[v].batch
    BY <1>0, <1>4, <2>1 DEF FindPending, IdleRun
  <2>3. ~Held(d)'
    BY <1>0, <1>4, <2>2, StillUnheld
  <2> QED BY <1>4, <2>3 DEF Untouched
<1>5. ASSUME NEW w \in Workers, RunDies(w) PROVE Untouched(d)
  <2>1. \A v \in Workers : Smaller(run'[v], run[v])
    BY <1>0, <1>5 DEF RunDies, Reject
  <2>2. ~Held(d)'
    BY <1>0, <1>5, <2>1, StillUnheld DEF RunDies
  <2> QED BY <1>5, <2>2 DEF RunDies, Untouched
<1>6. ASSUME NEW s \in Syncers, NEW limit, NEW found, FindTicketed(s, limit, found)
      PROVE  Untouched(d)
  <2>1. d \notin found
    BY <1>6 DEF FindTicketed, Some, AwaitingReceipt
  <2>2. \A u \in Syncers : d \notin sync'[u].rest \cup sync'[u].todo
    BY <1>0, <1>6, <2>1 DEF FindTicketed, IdleSync
  <2>3. ~Held(d)'
    BY <1>0, <1>6, <2>2, StillUnheld DEF FindTicketed
  <2> QED BY <1>6, <2>3 DEF FindTicketed, Untouched
<1>7. ASSUME NEW s \in Syncers, SyncDies(s) PROVE Untouched(d)
  <2>1. \A u \in Syncers : d \notin sync'[u].rest \cup sync'[u].todo
    BY <1>0, <1>7 DEF SyncDies, IdleSync
  <2>2. ~Held(d)'
    BY <1>0, <1>7, <2>1, StillUnheld DEF SyncDies
  <2> QED BY <1>7, <2>2 DEF SyncDies, Untouched
<1>8. CASE UNCHANGED vars
  BY <1>8 DEF vars, Untouched, Held
<1> QED
  BY <1>1, <1>2, <1>3, <1>4, <1>5, <1>6, <1>7, <1>8
  DEF Next, TakeJob, CallDispatch, CallReceipts, RunJob, DispatchEndpoint

\* Once settled and out of every call's snapshot, a delivery is never taken up,
\* sent or written again, although no update of dispatchPending or syncReceipts
\* tests the status it overwrites.
THEOREM SettledIsFinalHolds == Spec => SettledIsFinal
<1>1. Inv /\ [Next]_vars =>
        [\A d \in Deliveries :
           (row[d].status \in Settled /\ ~Held(d)) =>
             /\ row'[d] = row[d] \/ row'[d].status = "deleted"
             /\ d \in sent' => d \in sent
             /\ ~Held(d)']_vars
  BY NextUnheld DEF Untouched, Settled
<1> QED BY <1>1, InvHolds, PTL DEF Spec, SettledIsFinal

(***************************************************************************)
(* PushDispatch implements Outbox.                                          *)
(***************************************************************************)
\* Rows come from publish alone and stay, as deleted if need be.
LEMMA RowsStay ==
  ASSUME Inv, [Next]_vars, NEW d \in Deliveries
  PROVE  /\ row[d].status # "none" => row'[d].status # "none"
         /\ (row[d].status = "none" /\ ~\E D \in SUBSET Deliveries : Publish(D)) =>
              row'[d].status = "none"
<1> DEFINE Stays == row'[d] = row[d] \/ (row[d].status # "none" /\ row'[d].status # "none")
<1>0. row \in [Deliveries -> RowType] /\ AfterFailure(1, TRUE) # "none"
  BY DEF Inv, TypeOK, AfterFailure
<1>1. ASSUME NEW D \in SUBSET Deliveries, Publish(D) PROVE row'[d].status # "none" \/ row'[d] = row[d]
  BY <1>0, <1>1 DEF Publish, NewRow
<1>2. ASSUME NEW I \in SUBSET Installations, NEW D \in SUBSET Deliveries, DeleteAccount(I, D)
      PROVE  Stays
  BY <1>0, <1>2 DEF DeleteAccount, Exists, RowType
<1>3. ASSUME NEW w \in Workers, RunStep(w) PROVE Stays
  <2>1. CASE CancelInactive(w)
    BY <1>0, <2>1 DEF CancelInactive, Exists, RowType
  <2>2. ASSUME NEW e \in Deliveries, RecordTicket(w, e) PROVE Stays
    BY <1>0, <2>2 DEF RecordTicket, Exists, RowType, AfterFailure
  <2>3. ASSUME NEW e \in Deliveries, RollBack(w, e) PROVE Stays
    BY <1>0, <2>3 DEF RollBack, Exists, RowType, AfterFailure
  <2>4. CASE UNCHANGED row
    BY <2>4
  <2> QED
    BY <1>3, <2>1, <2>2, <2>3, <2>4
    DEF RunStep, SendAnswered, SendThrows, DisableAfterTicket, RecordThrows, RollBackThrows
<1>4. ASSUME NEW s \in Syncers, SyncStep(s) PROVE Stays
  <2>1. ASSUME NEW e \in Deliveries, ApplyReceipt(s, e) PROVE Stays
    BY <1>0, <2>1 DEF ApplyReceipt, Exists, RowType
  <2>2. CASE UNCHANGED row
    BY <2>2
  <2> QED
    BY <1>4, <2>1, <2>2 DEF SyncStep, GetReceipts, DisableAfterReceipt, ApplyThrows
<1>5. CASE UNCHANGED row
  BY <1>5
<1> QED
  BY <1>1, <1>2, <1>3, <1>4, <1>5
  DEF Next, vars, Environment, RegisterInstallation, RevokeInstallation, TakeJob,
      CallDispatch, CallReceipts, RunJob, DispatchEndpoint, RunDies, FindTicketed, SyncDies

\* Calls hold only what has been posted.
HeldWasPosted == \A d \in Deliveries : Held(d) => row[d].status # "none"

LEMMA NextPosted == Inv /\ HeldWasPosted /\ [Next]_vars => HeldWasPosted'
<1> SUFFICES ASSUME Inv, HeldWasPosted, [Next]_vars, NEW d \in Deliveries,
                    row'[d].status = "none"
             PROVE  ~Held(d)'
  BY DEF HeldWasPosted
<1>1. row[d].status = "none" /\ ~Held(d)
  BY RowsStay DEF HeldWasPosted
<1> QED BY <1>1, NextUnheld DEF Untouched

\* Expo is asked only by steps that change neither a row nor what calls hold.
LEMMA SendsHeld ==
  ASSUME Inv, NEW w \in Workers,
         \/ \E tickets \in [BatchOf(run[w]) -> Tickets] : SendAnswered(w, tickets)
         \/ \E accepted \in {{}, BatchOf(run[w])} : SendThrows(w, accepted)
  PROVE  /\ row' = row /\ \A d \in Deliveries : Held(d)' <=> Held(d)
         /\ \E D \in SUBSET Deliveries : sent' = sent \cup D /\ \A d \in D : Held(d)
<1>0. run \in [Workers -> RunType] /\ RunOK(run[w]) /\ run[w] \in RunType
  BY DEF Inv, RunOK, TypeOK
<1>1. BatchOf(run[w]) \subseteq run[w].rest /\ run[w].rest \subseteq Deliveries
  BY <1>0, FirstSubset DEF BatchOf, RunType
<1>2. run[w].pc = "send" /\ run[w].batch = {} /\ UNCHANGED <<row, sync>>
  BY <1>0 DEF SendAnswered, SendThrows, RunOK
<1>3. \E D \in SUBSET Deliveries : sent' = sent \cup D /\ \A d \in D : Held(d)
  <2>1. \E D \in SUBSET BatchOf(run[w]) : sent' = sent \cup D
    BY DEF SendAnswered, SendThrows
  <2>2. \A d \in BatchOf(run[w]) : Held(d)
    BY <1>1 DEF Held
  <2> QED BY <1>1, <2>1, <2>2
<1>4. /\ run'[w].dead = run[w].dead /\ run'[w].batch = BatchOf(run[w])
      /\ run'[w].rest = run[w].rest \ BatchOf(run[w])
      /\ \A v \in Workers : v # w => run'[v] = run[v]
  <2>1. ASSUME NEW tickets \in [BatchOf(run[w]) -> Tickets], SendAnswered(w, tickets)
        PROVE  /\ run'[w].dead = run[w].dead /\ run'[w].batch = BatchOf(run[w])
               /\ run'[w].rest = run[w].rest \ BatchOf(run[w])
               /\ \A v \in Workers : v # w => run'[v] = run[v]
    <3> DEFINE t == [d \in Deliveries |-> IF d \in BatchOf(run[w]) THEN tickets[d] ELSE "ok"]
               r == [run[w] EXCEPT !.pc = "record", !.batch = BatchOf(run[w]),
                       !.todo = BatchOf(run[w]),
                       !.rest = run[w].rest \ BatchOf(run[w]), !.tickets = t]
    <3>1. run' = [run EXCEPT ![w] = r]
      BY <1>0, <2>1 DEF SendAnswered
    <3> HIDE DEF t
    <3> QED BY <1>0, <3>1 DEF RunType
  <2>2. ASSUME NEW accepted \in {{}, BatchOf(run[w])}, SendThrows(w, accepted)
        PROVE  /\ run'[w].dead = run[w].dead /\ run'[w].batch = BatchOf(run[w])
               /\ run'[w].rest = run[w].rest \ BatchOf(run[w])
               /\ \A v \in Workers : v # w => run'[v] = run[v]
    BY <1>0, <2>2 DEF SendThrows, RunType
  <2> QED BY <2>1, <2>2
<1>5. \A v \in Workers : run'[v].dead \cup run'[v].rest \cup run'[v].batch =
                          run[v].dead \cup run[v].rest \cup run[v].batch
  BY <1>1, <1>2, <1>4
<1>6. \A d \in Deliveries : Held(d)' <=> Held(d)
  BY <1>2, <1>5 DEF Held
<1> QED BY <1>2, <1>3, <1>6

\* The other steps add nothing to what Expo has accepted.
LEMMA SendsOnly ==
  ASSUME [Next]_vars
  PROVE  \/ UNCHANGED sent
         \/ \E w \in Workers :
              \/ \E tickets \in [BatchOf(run[w]) -> Tickets] : SendAnswered(w, tickets)
              \/ \E accepted \in {{}, BatchOf(run[w])} : SendThrows(w, accepted)
<1>1. ASSUME NEW w \in Workers, RunStep(w)
      PROVE  \/ UNCHANGED sent
             \/ \E tickets \in [BatchOf(run[w]) -> Tickets] : SendAnswered(w, tickets)
             \/ \E accepted \in {{}, BatchOf(run[w])} : SendThrows(w, accepted)
  BY <1>1 DEF RunStep, CancelInactive, RecordTicket, DisableAfterTicket, RecordThrows,
              RollBack, RollBackThrows
<1>2. ASSUME NEW s \in Syncers, SyncStep(s) PROVE UNCHANGED sent
  BY <1>2 DEF SyncStep, GetReceipts, ApplyReceipt, DisableAfterReceipt, ApplyThrows
<1>3. CASE Environment
  BY <1>3 DEF Environment, RegisterInstallation, RevokeInstallation, DeleteAccount, Publish
<1> QED
  BY <1>1, <1>2, <1>3
  DEF Next, vars, TakeJob, CallDispatch, CallReceipts, RunJob, DispatchEndpoint, RunDies,
      FindTicketed, SyncDies

LEMMA StageValues ==
  ASSUME Inv
  PROVE  /\ stage \in [Deliveries -> {"new", "open"} \cup O!Outcomes]
         /\ \A d \in Deliveries : stage[d] = "new" <=> row[d].status = "none"
         /\ \A d \in Deliveries : stage[d] \in O!Outcomes =>
              /\ ~Held(d) /\ stage[d] = row[d].status
              /\ row[d].status \in {"delivered", "failed", "cancelled", "deleted"}
BY DEF Inv, TypeOK, RowType, Statuses, stage, O!Outcomes

LEMMA PostRefines ==
  ASSUME Inv, HeldWasPosted, HeldWasPosted', NEW D \in SUBSET Deliveries, Publish(D)
  PROVE  O!Post(D)
<1>1. /\ D # {} /\ \A d \in D : row[d].status = "none" /\ row'[d].status = "pending"
      /\ \A d \in Deliveries : d \notin D => row'[d] = row[d]
      /\ UNCHANGED <<run, sync, sent>>
  BY DEF Publish, NewRow, Inv, TypeOK
<1>2. \A d \in Deliveries : Held(d)' <=> Held(d)
  BY <1>1 DEF Held
<1>3. \A d \in Deliveries : stage'[d] = IF d \in D THEN "open" ELSE stage[d]
  BY <1>1, <1>2 DEF stage
<1>4. stage' = [d \in Deliveries |-> IF d \in D THEN "open" ELSE stage[d]]
  BY <1>3 DEF stage
<1> QED BY <1>1, <1>4 DEF O!Post, stage

LEMMA AcceptRefines ==
  ASSUME Inv, HeldWasPosted, NEW w \in Workers,
         \/ \E tickets \in [BatchOf(run[w]) -> Tickets] : SendAnswered(w, tickets)
         \/ \E accepted \in {{}, BatchOf(run[w])} : SendThrows(w, accepted)
  PROVE  \E D \in SUBSET Deliveries : O!Accept(D)
<1>1. /\ row' = row /\ \A d \in Deliveries : Held(d)' <=> Held(d)
      /\ \E D \in SUBSET Deliveries : sent' = sent \cup D /\ \A d \in D : Held(d)
  BY SendsHeld
<1>2. PICK D \in SUBSET Deliveries : sent' = sent \cup D /\ \A d \in D : Held(d)
  BY <1>1
<1>3. stage' = stage
  BY <1>1 DEF stage
<1>4. \A d \in D : stage[d] = "open"
  BY <1>2 DEF stage, HeldWasPosted
<1> QED BY <1>2, <1>3, <1>4 DEF O!Accept

LEMMA CloseRefines ==
  ASSUME Inv, Inv', HeldWasPosted, HeldWasPosted', DeliveredWasSent', [Next]_vars,
         UNCHANGED sent, ~\E D \in SUBSET Deliveries : Publish(D)
  PROVE  O!Close
<1>1. /\ stage \in [Deliveries -> {"new", "open"} \cup O!Outcomes]
      /\ stage' \in [Deliveries -> {"new", "open"} \cup O!Outcomes]
  BY DEF Inv, TypeOK, RowType, Statuses, stage, O!Outcomes
<1>2. ASSUME NEW d \in Deliveries
      PROVE  \/ stage'[d] = stage[d]
             \/ /\ stage[d] = "open" /\ stage'[d] \in O!Outcomes
                /\ stage'[d] = "delivered" => d \in sent
             \/ stage[d] \in O!Outcomes /\ stage'[d] = "deleted"
  <2>1. CASE stage[d] = "new"
    <3>1. row'[d].status = "none"
      BY <2>1, RowsStay, StageValues
    <3> QED BY <2>1, <3>1 DEF stage
  <2>2. CASE stage[d] = "open"
    <3>1. row[d].status # "none" /\ row'[d].status # "none"
      BY <2>2, RowsStay, StageValues
    <3>2. stage'[d] = "open" \/ stage'[d] = row'[d].status
      BY <3>1 DEF stage
    <3>3. stage'[d] = "open" \/ stage'[d] \in O!Outcomes
      <4>1. row'[d].status \in Statuses
        BY DEF Inv, TypeOK, RowType
      <4>2. stage'[d] \in {"new", "open"} \cup O!Outcomes
        BY <1>1
      <4> QED BY <3>1, <3>2, <4>1, <4>2 DEF Statuses
    <3>4. stage'[d] = "delivered" => d \in sent
      BY <3>2 DEF DeliveredWasSent
    <3> QED BY <2>2, <3>3, <3>4
  <2>3. CASE stage[d] \in O!Outcomes
    <3>1. /\ ~Held(d) /\ stage[d] = row[d].status
          /\ row[d].status \in {"delivered", "failed", "cancelled", "deleted"}
      BY <2>3, StageValues
    <3>2. Untouched(d)
      BY <3>1, NextUnheld
    <3>3. /\ row'[d] = row[d] \/ row'[d].status = "deleted"
          /\ ~Held(d)'
      BY <3>1, <3>2 DEF Untouched
    <3>4. stage'[d] = row'[d].status
      BY <3>1, <3>3 DEF stage
    <3> QED BY <2>3, <3>1, <3>3, <3>4
  <2> QED BY <1>1, <2>1, <2>2, <2>3
<1> QED BY <1>1, <1>2 DEF O!Close

\* However calls overlap, a delivery is posted once, Expo is given it only while it
\* is open, and it is closed once: the races over the rows (publish,
\* dispatchPending, syncReceipts, deleteMyAccount) never show in its life.
THEOREM OutboxRefined == Spec => OutboxSpec
<1>1. Init => SentInv /\ HeldWasPosted /\ O!Init
  <2> SUFFICES ASSUME Init PROVE SentInv /\ HeldWasPosted /\ O!Init
    OBVIOUS
  <2>1. SentInv
    BY DEF Init, SentInv, DeliveredWasSent, OkTicketWasSent, NoRow, IdleRun, IdleSync
  <2>2. HeldWasPosted
    BY DEF Init, HeldWasPosted, Held, NoRow, IdleRun, IdleSync
  <2>3. O!Init
    BY DEF Init, O!Init, stage, NoRow
  <2> QED BY <2>1, <2>2, <2>3
<1>2. /\ Inv /\ Inv' /\ SentInv /\ SentInv' /\ HeldWasPosted /\ HeldWasPosted' /\ [Next]_vars
      => [O!Next]_<<stage, sent>>
  <2> SUFFICES ASSUME Inv, Inv', SentInv', HeldWasPosted, HeldWasPosted', [Next]_vars
               PROVE  O!Next
    OBVIOUS
  <2>1. CASE \E D \in SUBSET Deliveries : Publish(D)
    BY <2>1, PostRefines DEF O!Next
  <2>2. CASE \E w \in Workers :
               \/ \E tickets \in [BatchOf(run[w]) -> Tickets] : SendAnswered(w, tickets)
               \/ \E accepted \in {{}, BatchOf(run[w])} : SendThrows(w, accepted)
    BY <2>2, AcceptRefines DEF O!Next
  <2>3. CASE UNCHANGED sent /\ ~\E D \in SUBSET Deliveries : Publish(D)
    <3>1. DeliveredWasSent'
      BY DEF SentInv
    <3> QED BY <2>3, <3>1, CloseRefines DEF O!Next
  <2> QED BY <2>1, <2>2, <2>3, SendsOnly
<1>3. Spec => []Inv
  BY InvHolds
<1> QED
  BY <1>1, <1>2, <1>3, NextSent, NextPosted, PTL DEF Spec, OutboxSpec, O!Spec, O!vars

(***************************************************************************)
(* The sends of a delivery.                                                 *)
(***************************************************************************)
\* A call goes on with what it holds of delivery d, or with less.
Keeps(q, r, d) ==
  /\ d \in q.rest => d \in r.rest
  /\ d \in q.batch => d \in r.batch
  /\ d \in q.rest \cup q.batch => q.seen[d] = r.seen[d]

\* A post that is still to be written stays so.
Owes(q, r, d) ==
  (d \in r.batch /\ Unwritten(r, d)) => d \in q.batch /\ Unwritten(q, d)

\* A step neither takes delivery d up nor posts it: it leaves the count of the row
\* and all that is to be written, or writes what a holder has read plus one, or
\* loses a send that was counted.
Keeping(d) ==
  /\ \A v \in Workers : Keeps(run'[v], run[v], d)
  /\ row'[d].status = "none" => row'[d].attempts = 0
  /\ \/ /\ row'[d].attempts = row[d].attempts
        /\ \A v \in Workers : FirstHolder(v, d) => Owes(run'[v], run[v], d)
     \/ \E v \in Workers : Holds(v, d) /\ row'[d].attempts = run[v].seen[d] + 1
     \/ /\ row'[d].attempts = row[d].attempts
        /\ \E v \in Workers : d \in Abandoned(v) \ over[v]

LEMMA Numbers ==
  ASSUME Inv, SendsType, NEW d \in Watched
  PROVE  /\ d \in Deliveries /\ posts[d] \in Nat /\ extra[d] \in Nat
         /\ row[d].attempts \in Nat /\ row[d].attempts <= MAX_SEND_ATTEMPTS
         /\ \A w \in Workers : run[w].seen[d] \in Nat /\ run[w].seen[d] < MAX_SEND_ATTEMPTS
         /\ MAX_SEND_ATTEMPTS \in Nat
BY ConstantsAssumption, WatchedAssumption
DEF Inv, TypeOK, RowType, RunOK, RunType, Attempts, SendsType

\* Who holds a delivery before and after a step keeps its history.
LEMMA OverKept ==
  ASSUME Inv, Inv', SendsType, Counts, NEW w \in Workers, NEW d \in Watched,
         Holds(w, d), Holds(w, d)'
  PROVE  d \in over'[w] <=> d \in over[w]
<1>1. run[w].pc # "idle" /\ run'[w].pc # "idle"
  BY DEF Inv, RunOK, Holds
<1> QED BY <1>1 DEF Counts, Overlapped

LEMMA CountsMove ==
  ASSUME Inv, Inv', SendsType, Counts, NEW d \in Watched
  PROVE  /\ SendsType'
         /\ extra'[d] = extra[d] \/ extra'[d] = extra[d] + 1
         /\ posts'[d] = posts[d] \/ posts'[d] = posts[d] + 1
         /\ (\A w \in Workers : d \in run'[w].batch => d \in run[w].batch) =>
              posts'[d] = posts[d]
         /\ (\E w \in Workers : d \in Extra(w)) => extra'[d] = extra[d] + 1
<1> DEFINE P(e) == \E w \in Workers : e \in Posted(w)
           X(e) == \E w \in Workers : e \in Extra(w)
<1>1. over' \in [Workers -> SUBSET Watched]
  <2>1. \A w \in Workers : Overlapped(w) \in SUBSET Watched
    BY DEF Overlapped, SendsType
  <2>2. over' = [w \in Workers |-> Overlapped(w)]
    BY DEF Counts
  <2> QED BY <2>1, <2>2
<1>2. posts' = [e \in Watched |-> IF P(e) THEN posts[e] + 1 ELSE posts[e]]
  <2>1. \A e : e \in UNION {Posted(w) : w \in Workers} <=> P(e)
    OBVIOUS
  <2> HIDE DEF P
  <2> QED BY <2>1 DEF Counts
<1>3. extra' = [e \in Watched |-> IF X(e) THEN extra[e] + 1 ELSE extra[e]]
  <2>1. \A e : e \in UNION {Extra(w) : w \in Workers} <=> X(e)
    OBVIOUS
  <2> HIDE DEF X
  <2> QED BY <2>1 DEF Counts
<1>4. (\A w \in Workers : d \in run'[w].batch => d \in run[w].batch) => ~P(d)
  BY DEF Posted
<1> HIDE DEF P, X
<1>5. SendsType'
  BY <1>1, <1>2, <1>3 DEF SendsType
<1>6. /\ extra'[d] = extra[d] \/ extra'[d] = extra[d] + 1
      /\ posts'[d] = posts[d] \/ posts'[d] = posts[d] + 1
      /\ ~P(d) => posts'[d] = posts[d]
      /\ X(d) => extra'[d] = extra[d] + 1
  BY <1>2, <1>3
<1> QED BY <1>4, <1>5, <1>6 DEF X

LEMMA Kept ==
  ASSUME Inv, Inv', SendsType, Counts, NEW d \in Watched, CountedOnce(d), Keeping(d)
  PROVE  CountedOnce(d)'
<1> DEFINE counted == posts[d] - extra[d]
<1>1. counted' <= counted /\ posts'[d] = posts[d]
  BY Numbers, CountsMove DEF Keeping, Keeps
<1>2. counted \in Int /\ counted' \in Int
  BY <1>1, Numbers, CountsMove
<1>3. \A w \in Workers : Holds(w, d)' =>
        Holds(w, d) /\ run'[w].seen[d] = run[w].seen[d] /\ (d \in over'[w] <=> d \in over[w])
  BY OverKept DEF Keeping, Keeps, Holds
<1>4. /\ \A w \in Workers : FirstHolder(w, d)' => FirstHolder(w, d)
      /\ Due(d)' => Due(d)
  BY <1>3 DEF FirstHolder, Due, Keeping, Keeps, Holds
<1>5. /\ \A v, w \in Workers : FirstHolder(v, d)' /\ FirstHolder(w, d)' => v = w
      /\ row'[d].status = "none" => row'[d].attempts = 0
  BY <1>4 DEF CountedOnce, Keeping
<1>6. \A w \in Workers : Holds(w, d)' =>
        counted' <= run'[w].seen[d] + IF Due(d)' THEN 0 ELSE 1
  BY <1>1, <1>2, <1>3, <1>4, Numbers DEF CountedOnce
<1>7. \/ counted' <= row'[d].attempts
      \/ /\ ~Due(d)'
         /\ counted' <= row'[d].attempts + 1
         /\ \E w \in Workers : FirstHolder(w, d)' /\ Unwritten(run'[w], d)
  <2>1. CASE /\ row'[d].attempts = row[d].attempts
             /\ \A v \in Workers : FirstHolder(v, d) => Owes(run'[v], run[v], d)
    <3>1. CASE counted <= row[d].attempts
      BY <1>1, <1>2, <2>1, <3>1, Numbers
    <3>2. CASE /\ ~Due(d) /\ counted <= row[d].attempts + 1
               /\ \E w \in Workers : FirstHolder(w, d) /\ Unwritten(run[w], d)
      <4>1. PICK w \in Workers : FirstHolder(w, d) /\ Unwritten(run[w], d)
        BY <3>2
      <4>2. d \in run[w].batch
        BY <4>1 DEF Unwritten, Inv, RunOK
      <4>3. d \in run'[w].batch /\ Unwritten(run'[w], d)
        BY <2>1, <4>1, <4>2 DEF Owes
      <4>4. FirstHolder(w, d)'
        BY <1>3, <4>1, <4>3 DEF FirstHolder, Holds
      <4> QED BY <1>1, <1>2, <1>4, <2>1, <3>2, <4>3, <4>4, Numbers
    <3> QED BY <3>1, <3>2 DEF CountedOnce
  <2>2. CASE \E v \in Workers : Holds(v, d) /\ row'[d].attempts = run[v].seen[d] + 1
    <3>1. PICK v \in Workers : Holds(v, d) /\ row'[d].attempts = run[v].seen[d] + 1
      BY <2>2
    <3>2. counted <= run[v].seen[d] + 1
      BY <1>2, <3>1, Numbers DEF CountedOnce
    <3> QED BY <1>1, <1>2, <3>1, <3>2, Numbers
  <2>3. CASE /\ row'[d].attempts = row[d].attempts
             /\ \E v \in Workers : d \in Abandoned(v) \ over[v]
    <3>1. counted' <= counted - 1
      BY <1>1, <2>3, CountsMove, Numbers DEF Extra
    <3>2. counted <= row[d].attempts + 1
      BY <1>2, Numbers DEF CountedOnce
    <3> QED BY <1>2, <2>3, <3>1, <3>2, Numbers
  <2> QED BY <2>1, <2>2, <2>3 DEF Keeping
<1> QED BY <1>5, <1>6, <1>7 DEF CountedOnce

LEMMA NextBatchKeeps ==
  ASSUME NEW r \in RunType, NEW d PROVE Keeps(NextBatch(r), r, d)
  BY DEF NextBatch, Keeps, IdleRun, RunType

LEMMA NextDeliveryKeeps ==
  ASSUME NEW r \in RunType, r.todo \subseteq r.batch, r.pc # "disable", NEW d, NEW e
  PROVE  /\ Keeps(NextDelivery(r, e), r, d)
         /\ d # e => Owes(NextDelivery(r, e), r, d)
<1>1. CASE r.todo \ {e} = {}
  BY <1>1, NextBatchKeeps DEF NextDelivery, Owes, Unwritten
<1>2. CASE r.todo \ {e} # {}
  BY <1>2 DEF NextDelivery, Keeps, Owes, Unwritten, RunType
<1> QED BY <1>1, <1>2

LEMMA OutdateKeeps ==
  ASSUME NEW runs \in [Workers -> RunType], NEW I, NEW v \in Workers, NEW d
  PROVE  /\ Keeps(Outdate(runs, I)[v], runs[v], d)
         /\ Owes(Outdate(runs, I)[v], runs[v], d)
         /\ Outdate(runs, I)[v].todo = runs[v].todo
         /\ Outdate(runs, I)[v].batch = runs[v].batch
         /\ Outdate(runs, I)[v].rest = runs[v].rest
         /\ Outdate(runs, I)[v].seen = runs[v].seen
<1> DEFINE q == Outdate(runs, I)[v]
<1>1. /\ q.todo = runs[v].todo /\ q.batch = runs[v].batch /\ q.rest = runs[v].rest
      /\ q.seen = runs[v].seen /\ q.pc = runs[v].pc
  BY DEF Outdate, RunType
<1> HIDE DEF q
<1>2. Keeps(q, runs[v], d) /\ Owes(q, runs[v], d)
  BY <1>1 DEF Keeps, Owes, Unwritten
<1> QED BY <1>1, <1>2 DEF q

LEMMA SameKeeps ==
  ASSUME NEW r, NEW d PROVE Keeps(r, r, d) /\ Owes(r, r, d)
  BY DEF Keeps, Owes

\* A call ends: it holds nothing any more.
LEMMA IdleKeeps ==
  ASSUME NEW r, NEW d PROVE Keeps(IdleRun, r, d)
  BY DEF Keeps, IdleRun

LEMMA EnvironmentKeeping ==
  ASSUME Inv, NEW d \in Watched, CountedOnce(d), Environment PROVE Keeping(d)
<1>0. /\ d \in Deliveries /\ row \in [Deliveries -> RowType]
      /\ run \in [Workers -> RunType]
      /\ row[d].status = "none" => row[d].attempts = 0
  BY WatchedAssumption DEF Inv, TypeOK, CountedOnce
<1>1. /\ row'[d].attempts = row[d].attempts
      /\ row'[d].status = "none" => row[d].status = "none"
  <2>1. ASSUME NEW I \in SUBSET Installations, NEW D \in SUBSET Deliveries,
               DeleteAccount(I, D)
        PROVE  <1>1!:
    BY <1>0, <2>1 DEF DeleteAccount, RowType
  <2>2. ASSUME NEW D \in SUBSET Deliveries, Publish(D)
        PROVE  <1>1!:
    BY <1>0, <2>2 DEF Publish, NewRow
  <2>3. CASE UNCHANGED row
    BY <2>3
  <2> QED BY <2>1, <2>2, <2>3
          DEF Environment, RegisterInstallation, RevokeInstallation
<1>2. run' = run \/ \E I : run' = Outdate(run, I)
  BY DEF Environment, RegisterInstallation, RevokeInstallation, DeleteAccount, Publish
<1>3. \A v \in Workers : Keeps(run'[v], run[v], d) /\ Owes(run'[v], run[v], d)
  BY <1>0, <1>2, SameKeeps, OutdateKeeps
<1> QED BY <1>0, <1>1, <1>3 DEF Keeping

LEMMA RejectKeeping ==
  ASSUME Inv, NEW w \in Workers, NEW d \in Watched, CountedOnce(d), Reject(w),
         run[w].pc # "idle", UNCHANGED row,
         RunDies(w) \/ \E e \in run[w].todo : RollBackThrows(w, e)
  PROVE  Keeping(d)
<1>0. run \in [Workers -> RunType] /\ run' = [run EXCEPT ![w] = IdleRun]
  BY DEF Inv, TypeOK, Reject
<1>1. run'[w] = IdleRun /\ \A v \in Workers : v # w => run'[v] = run[v]
  BY <1>0
<1>2. \A v \in Workers : Keeps(run'[v], run[v], d)
  BY <1>1, SameKeeps, IdleKeeps
<1>3. row'[d].status = "none" => row'[d].attempts = 0
  BY DEF CountedOnce
<1>4. Abandoned(w) = run[w].todo
  BY <1>1 DEF Abandoned, IdleRun
<1>5. CASE d \in run[w].todo \ over[w]
  BY <1>2, <1>3, <1>4, <1>5 DEF Keeping
<1>6. CASE d \notin run[w].todo \ over[w]
  <2>1. FirstHolder(w, d) => Owes(run'[w], run[w], d)
    BY <1>6 DEF FirstHolder, Owes, Unwritten
  <2>2. \A v \in Workers : FirstHolder(v, d) => Owes(run'[v], run[v], d)
    BY <1>1, <2>1, SameKeeps
  <2> QED BY <1>2, <1>3, <2>2 DEF Keeping
<1> QED BY <1>5, <1>6

\* The steps of a call but for its post.
LEMMA RunStepKeeping ==
  ASSUME Inv, NEW w \in Workers, NEW d \in Watched, CountedOnce(d),
         \/ CancelInactive(w)
         \/ \E e \in Deliveries : \/ RecordTicket(w, e) \/ DisableAfterTicket(w, e)
                                  \/ RecordThrows(w, e) \/ RollBack(w, e)
                                  \/ RollBackThrows(w, e)
         \/ RunDies(w)
  PROVE  Keeping(d)
<1>0. /\ d \in Deliveries /\ row \in [Deliveries -> RowType] /\ row[d] \in RowType
      /\ run \in [Workers -> RunType] /\ run[w] \in RunType /\ RunOK(run[w])
      /\ row[d].status = "none" => row[d].attempts = 0
      /\ run[w].todo \subseteq run[w].batch /\ Deliveries \subseteq Nat
      /\ run[w].todo \subseteq Deliveries
  BY WatchedAssumption, ConstantsAssumption DEF Inv, TypeOK, CountedOnce, RunOK, RunType
<1>1. CASE CancelInactive(w)
  <2>1. /\ row'[d].attempts = row[d].attempts
        /\ row'[d].status = "none" => row[d].status = "none"
    BY <1>0, <1>1 DEF CancelInactive, RowType
  <2>2. run'[w] = NextBatch(run[w]) /\ \A v \in Workers : v # w => run'[v] = run[v]
    BY <1>0, <1>1 DEF CancelInactive
  <2>3. Owes(run'[w], run[w], d)
    BY <1>0, <1>1 DEF CancelInactive, RunOK, Owes
  <2>4. \A v \in Workers : Keeps(run'[v], run[v], d) /\ Owes(run'[v], run[v], d)
    BY <1>0, <2>2, <2>3, SameKeeps, NextBatchKeeps
  <2> QED BY <1>0, <2>1, <2>4 DEF Keeping
<1>2. ASSUME NEW e \in Deliveries, RecordTicket(w, e) PROVE Keeping(d)
  <2> DEFINE r == IF Disables(run[w].tickets[e]) THEN [run[w] EXCEPT !.pc = "disable"]
                                                 ELSE NextDelivery(run[w], e)
  <2>1. run'[w] = r /\ \A v \in Workers : v # w => run'[v] = run[v]
    BY <1>0, <1>2 DEF RecordTicket
  <2>2. /\ Keeps([run[w] EXCEPT !.pc = "disable"], run[w], d)
        /\ d # e => Owes([run[w] EXCEPT !.pc = "disable"], run[w], d)
    <3>1. IsNext(e, run[w].todo)
      BY <1>2 DEF RecordTicket
    <3>2. IsNext(d, run[w].todo) => d = e
      BY <1>0, <3>1 DEF IsNext
    <3> QED BY <1>0, <3>2 DEF Keeps, Owes, Unwritten, RunType
  <2>3. /\ Keeps(NextDelivery(run[w], e), run[w], d)
        /\ d # e => Owes(NextDelivery(run[w], e), run[w], d)
    BY <1>0, <1>2, NextDeliveryKeeps DEF RecordTicket
  <2>4. Keeps(r, run[w], d) /\ (d # e => Owes(r, run[w], d))
    BY <2>2, <2>3
  <2> HIDE DEF r
  <2>5. \A v \in Workers : Keeps(run'[v], run[v], d) /\ (d # e => Owes(run'[v], run[v], d))
    BY <2>1, <2>4, SameKeeps
  <2>6. CASE d # e
    <3>1. row'[d] = row[d]
      BY <1>0, <1>2, <2>6 DEF RecordTicket
    <3> QED BY <1>0, <2>5, <2>6, <3>1 DEF Keeping
  <2>7. CASE d = e
    <3>1. row'[d].attempts = run[w].seen[d] + 1 /\ row'[d].status # "none"
      BY <1>0, <1>2, <2>7 DEF RecordTicket, RowType, AfterFailure
    <3>2. Holds(w, d)
      BY <1>0, <1>2, <2>7 DEF RecordTicket, IsNext, Holds
    <3> QED BY <2>5, <3>1, <3>2 DEF Keeping
  <2> QED BY <2>6, <2>7
<1>3. ASSUME NEW e \in Deliveries, DisableAfterTicket(w, e) PROVE Keeping(d)
  <2> DEFINE runs == Outdate(run, {InstallationOf[e]})
             r == [runs[w] EXCEPT !.pc = "record"]
  <2>1. /\ Keeps(runs[w], run[w], d) /\ runs[w].todo = run[w].todo
        /\ runs[w].batch = run[w].batch /\ runs[w].rest = run[w].rest
        /\ runs[w].seen = run[w].seen
    BY <1>0, OutdateKeeps
  <2>2. runs \in [Workers -> RunType]
    <3>1. {InstallationOf[e]} \subseteq Installations
      BY ConstantsAssumption
    <3> QED BY <1>0, <3>1, OutdateOK DEF Inv
  <2>3. run'[w] = NextDelivery(r, e) /\ \A v \in Workers : v # w => run'[v] = runs[v]
    BY <1>3, <2>2 DEF DisableAfterTicket
  <2>4. /\ r \in RunType /\ r.pc = "record" /\ r.todo = run[w].todo
        /\ r.batch = run[w].batch /\ r.rest = run[w].rest /\ r.seen = run[w].seen
    BY <2>1, <2>2 DEF RunType
  <2> HIDE DEF r
  <2>5. Keeps(NextDelivery(r, e), r, d) /\ (d # e => Owes(NextDelivery(r, e), r, d))
    BY <1>0, <2>4, NextDeliveryKeeps
  <2>6. Keeps(run'[w], run[w], d)
    BY <2>3, <2>4, <2>5 DEF Keeps
  <2>7. Owes(run'[w], run[w], d)
    <3>1. CASE d = e
      BY <1>3, <3>1 DEF DisableAfterTicket, Owes, Unwritten
    <3>2. CASE d # e
      BY <2>3, <2>4, <2>5, <3>2 DEF Owes, Unwritten
    <3> QED BY <3>1, <3>2
  <2>8. \A v \in Workers : v # w =>
          Keeps(run'[v], run[v], d) /\ Owes(run'[v], run[v], d)
    BY <1>0, <2>3, OutdateKeeps
  <2>9. row' = row
    BY <1>3 DEF DisableAfterTicket
  <2> QED BY <1>0, <2>6, <2>7, <2>8, <2>9 DEF Keeping
<1>4. ASSUME NEW e \in Deliveries, RecordThrows(w, e) PROVE Keeping(d)
  <2>1. /\ Keeps(run'[w], run[w], d) /\ Owes(run'[w], run[w], d)
        /\ \A v \in Workers : v # w => run'[v] = run[v]
    BY <1>0, <1>4 DEF RecordThrows, Keeps, Owes, Unwritten, RunType
  <2>2. row' = row
    BY <1>4 DEF RecordThrows
  <2> QED BY <1>0, <2>1, <2>2, SameKeeps DEF Keeping
<1>5. ASSUME NEW e \in Deliveries, RollBack(w, e) PROVE Keeping(d)
  <2>1. run'[w] = NextDelivery(run[w], e) /\ \A v \in Workers : v # w => run'[v] = run[v]
    BY <1>0, <1>5 DEF RollBack
  <2>2. /\ Keeps(NextDelivery(run[w], e), run[w], d)
        /\ d # e => Owes(NextDelivery(run[w], e), run[w], d)
    BY <1>0, <1>5, NextDeliveryKeeps DEF RollBack
  <2>3. \A v \in Workers : Keeps(run'[v], run[v], d) /\ (d # e => Owes(run'[v], run[v], d))
    BY <2>1, <2>2, SameKeeps
  <2>4. CASE d # e
    <3>1. row'[d] = row[d]
      BY <1>0, <1>5, <2>4 DEF RollBack
    <3> QED BY <1>0, <2>3, <2>4, <3>1 DEF Keeping
  <2>5. CASE d = e
    <3>1. row'[d].attempts = run[w].seen[d] + 1 /\ row'[d].status # "none"
      BY <1>0, <1>5, <2>5 DEF RollBack, RowType, AfterFailure
    <3>2. Holds(w, d)
      BY <1>0, <1>5, <2>5 DEF RollBack, IsNext, Holds
    <3> QED BY <2>3, <3>1, <3>2 DEF Keeping
  <2> QED BY <2>4, <2>5
<1>6. ASSUME NEW e \in Deliveries, RollBackThrows(w, e) PROVE Keeping(d)
  <2>1. /\ e \in run[w].todo /\ run[w].pc # "idle" /\ Reject(w) /\ UNCHANGED row
    BY <1>6 DEF RollBackThrows, IsNext
  <2> QED BY <1>6, <2>1, RejectKeeping
<1>7. CASE RunDies(w)
  <2>1. run[w].pc # "idle" /\ Reject(w) /\ UNCHANGED row
    BY <1>7 DEF RunDies
  <2> QED BY <1>7, <2>1, RejectKeeping
<1> QED BY <1>1, <1>2, <1>3, <1>4, <1>5, <1>6, <1>7

\* A step that leaves row, holders and batches as they are, but for one call.
LEMMA TakeCounted ==
  ASSUME Inv, Inv', SendsType, Counts, NEW d \in Watched, CountedOnce(d),
         NEW w \in Workers, NEW limit, NEW left, run[w].pc = "idle",
         FindPending(w, limit, left), UNCHANGED row
  PROVE  CountedOnce(d)'
<1> DEFINE found == First(Pending, limit)
           live  == {e \in found : Active(e)}
           counted == posts[d] - extra[d]
<1>0. /\ run \in [Workers -> RunType] /\ run[w].rest = {} /\ run[w].batch = {}
      /\ row[d].status = "none" => row[d].attempts = 0
      /\ found \subseteq Deliveries
  BY FirstSubset DEF Inv, TypeOK, RunOK, CountedOnce, Pending
<1>1. \A v \in Workers : v # w => run'[v] = run[v]
  BY <1>0 DEF FindPending
<1>2. CASE d \notin run'[w].rest
  <2>1. run'[w].batch = {}
    BY <1>0 DEF FindPending, IdleRun
  <2>2. Keeps(run'[w], run[w], d) /\ Owes(run'[w], run[w], d)
    BY <1>0, <1>2, <2>1 DEF Keeps, Owes
  <2>3. \A v \in Workers : Keeps(run'[v], run[v], d) /\ Owes(run'[v], run[v], d)
    BY <1>1, <2>2, SameKeeps
  <2>4. Keeping(d)
    BY <1>0, <2>3 DEF Keeping
  <2> QED BY <2>4, Kept
<1>3. CASE d \in run'[w].rest
  <2>1. /\ run'[w].batch = {} /\ run'[w].pc # "idle" /\ d \in run'[w].rest
        /\ run'[w].seen[d] = row[d].attempts
    <3>1. found # {} /\ d \in found
      BY <1>0, <1>3 DEF FindPending, IdleRun
    <3> HIDE DEF found
    <3>2. d \in Deliveries
      BY WatchedAssumption
    <3> QED BY <1>0, <1>3, <3>1, <3>2 DEF FindPending, IdleRun, found
  <2>2. \A v \in Workers : v # w =>
          /\ Holds(v, d)' <=> Holds(v, d)
          /\ Holds(v, d) => (FirstHolder(v, d)' <=> FirstHolder(v, d))
          /\ FirstHolder(v, d)' <=> FirstHolder(v, d)
    <3>1. \A v \in Workers : v # w => (Holds(v, d)' <=> Holds(v, d))
      BY <1>1 DEF Holds
    <3> QED BY <3>1, OverKept DEF FirstHolder
  <2>3. ~Holds(w, d) /\ Holds(w, d)'
    BY <1>0, <2>1 DEF Holds
  <2>4. d \in over'[w] <=> \E v \in Workers \ {w} : Holds(v, d)
    <3>1. over'[w] = Overlapped(w)
      BY DEF Counts
    <3>2. Overlapped(w) = {e \in run'[w].rest \cap Watched : \E v \in Workers \ {w} : Holds(v, e)}
      BY <2>1 DEF Overlapped
    <3> QED BY <2>1, <3>1, <3>2
  <2>5. /\ posts'[d] = posts[d] /\ extra'[d] \in Nat /\ extra'[d] >= extra[d]
    <3>1. \A v \in Workers : d \in run'[v].batch => d \in run[v].batch
      BY <1>1, <2>1
    <3> QED BY <3>1, CountsMove, Numbers
  <2>6. counted \in Int /\ counted' \in Int /\ counted' <= counted
    BY <2>5, Numbers
  <2>7. CASE \E v \in Workers \ {w} : Holds(v, d)
    <3>1. \A v \in Workers : FirstHolder(v, d)' <=> FirstHolder(v, d)
      BY <2>2, <2>3, <2>4, <2>7 DEF FirstHolder
    <3>2. Due(d)' <=> Due(d)
      BY <1>0, <1>1, <2>3, <2>4, <2>7, <3>1 DEF Due, FirstHolder
    <3>3. /\ counted <= row[d].attempts + IF Due(d) THEN 0 ELSE 1
          /\ \/ counted <= row[d].attempts
             \/ /\ ~Due(d) /\ counted <= row[d].attempts + 1
                /\ \E v \in Workers : FirstHolder(v, d) /\ Unwritten(run[v], d)
      BY <2>6, Numbers DEF CountedOnce
    <3>4. \A v \in Workers : Holds(v, d)' =>
            counted' <= run'[v].seen[d] + IF Due(d)' THEN 0 ELSE 1
      <4>1. counted' <= run'[w].seen[d] + IF Due(d)' THEN 0 ELSE 1
        BY <2>1, <2>6, <3>2, <3>3, Numbers
      <4>2. ASSUME NEW v \in Workers, v # w, Holds(v, d)'
            PROVE  counted' <= run'[v].seen[d] + IF Due(d)' THEN 0 ELSE 1
        <5>1. Holds(v, d) /\ run'[v] = run[v]
          BY <1>1, <2>2, <4>2
        <5> QED BY <2>6, <3>2, <5>1, Numbers DEF CountedOnce
      <4> QED BY <4>1, <4>2
    <3>5. \/ counted' <= row'[d].attempts
          \/ /\ ~Due(d)' /\ counted' <= row'[d].attempts + 1
             /\ \E v \in Workers : FirstHolder(v, d)' /\ Unwritten(run'[v], d)
      <4>1. CASE counted <= row[d].attempts
        BY <2>6, <4>1, Numbers
      <4>2. CASE /\ ~Due(d) /\ counted <= row[d].attempts + 1
                 /\ \E v \in Workers : FirstHolder(v, d) /\ Unwritten(run[v], d)
        <5>1. PICK v \in Workers : FirstHolder(v, d) /\ Unwritten(run[v], d)
          BY <4>2
        <5>2. v # w
          BY <2>3, <5>1 DEF FirstHolder
        <5>3. FirstHolder(v, d)' /\ Unwritten(run'[v], d)
          BY <1>1, <3>1, <5>1, <5>2
        <5> QED BY <2>6, <3>2, <4>2, <5>3, Numbers
      <4> QED BY <3>3, <4>1, <4>2
    <3>6. \A u, v \in Workers : FirstHolder(u, d)' /\ FirstHolder(v, d)' => u = v
      BY <3>1 DEF CountedOnce
    <3> QED BY <1>0, <3>4, <3>5, <3>6 DEF CountedOnce
  <2>8. CASE ~\E v \in Workers \ {w} : Holds(v, d)
    <3>1. \A v \in Workers : Holds(v, d)' <=> v = w
      BY <2>2, <2>3, <2>8
    <3>2. \A u, v \in Workers : FirstHolder(u, d)' /\ FirstHolder(v, d)' => u = v
      BY <3>1 DEF FirstHolder
    <3>3. \A v \in Workers : ~Holds(v, d)
      BY <2>3, <2>8
    <3>4. counted <= row[d].attempts
      BY <3>3 DEF CountedOnce, FirstHolder
    <3>5. counted' <= row[d].attempts
      BY <2>6, <3>4, Numbers
    <3>6. \A v \in Workers : Holds(v, d)' => counted' <= run'[v].seen[d] + 0
      BY <2>1, <2>6, <3>1, <3>5, Numbers
    <3>7. \A v \in Workers : Holds(v, d)' =>
            counted' <= run'[v].seen[d] + IF Due(d)' THEN 0 ELSE 1
      <4>1. \A v \in Workers : Holds(v, d)' => run'[v].seen[d] \in Nat
        BY <2>1, <3>1, Numbers
      <4> QED BY <2>6, <3>6, <4>1
    <3> QED BY <1>0, <3>2, <3>5, <3>7 DEF CountedOnce
  <2> QED BY <2>7, <2>8
<1> QED BY <1>2, <1>3

\* Call w posts its batch B and is about to write it or to roll it back.
Posts(w, B) ==
  /\ run[w].pc = "send" /\ run[w].batch = {} /\ B \subseteq run[w].rest
  /\ run'[w].rest = run[w].rest \ B /\ run'[w].batch = B /\ run'[w].todo = B
  /\ run'[w].seen = run[w].seen /\ run'[w].pc \in {"record", "rollback"}
  /\ \A v \in Workers : v # w => run'[v] = run[v]
  /\ UNCHANGED row

LEMMA SendPosts ==
  ASSUME Inv, NEW w \in Workers,
         \/ \E tickets \in [BatchOf(run[w]) -> Tickets] : SendAnswered(w, tickets)
         \/ \E accepted \in {{}, BatchOf(run[w])} : SendThrows(w, accepted)
  PROVE  Posts(w, BatchOf(run[w]))
<1>0. /\ run \in [Workers -> RunType] /\ run[w] \in RunType /\ RunOK(run[w])
      /\ BatchOf(run[w]) \subseteq run[w].rest
  BY FirstSubset DEF Inv, TypeOK, RunOK, BatchOf
<1>1. ASSUME NEW tickets \in [BatchOf(run[w]) -> Tickets], SendAnswered(w, tickets)
      PROVE  Posts(w, BatchOf(run[w]))
  <2> DEFINE t == [d \in Deliveries |-> IF d \in BatchOf(run[w]) THEN tickets[d] ELSE "ok"]
             r == [run[w] EXCEPT !.pc = "record", !.batch = BatchOf(run[w]),
                     !.todo = BatchOf(run[w]),
                     !.rest = run[w].rest \ BatchOf(run[w]), !.tickets = t]
  <2>1. run' = [run EXCEPT ![w] = r] /\ run[w].pc = "send" /\ UNCHANGED row
    BY <1>0, <1>1 DEF SendAnswered
  <2> HIDE DEF t
  <2> QED BY <1>0, <2>1 DEF Posts, RunType, RunOK
<1>2. ASSUME NEW accepted \in {{}, BatchOf(run[w])}, SendThrows(w, accepted)
      PROVE  Posts(w, BatchOf(run[w]))
  BY <1>0, <1>2 DEF SendThrows, Posts, RunType, RunOK
<1> QED BY <1>1, <1>2

LEMMA PostCounted ==
  ASSUME Inv, Inv', SendsType, Counts, NEW d \in Watched, CountedOnce(d),
         NEW w \in Workers, NEW B, Posts(w, B)
  PROVE  CountedOnce(d)'
<1> DEFINE counted == posts[d] - extra[d]
<1>1. CASE d \notin B
  <2>1. Keeps(run'[w], run[w], d) /\ Owes(run'[w], run[w], d)
    BY <1>1 DEF Posts, Keeps, Owes
  <2>2. Keeping(d)
    BY <2>1, SameKeeps DEF Posts, Keeping, CountedOnce
  <2> QED BY <2>2, Kept
<1>2. CASE d \in B
  <2>1. \A v \in Workers : Holds(v, d)' <=> Holds(v, d)
    BY DEF Posts, Holds
  <2>2. \A v \in Workers : FirstHolder(v, d)' <=> FirstHolder(v, d)
    BY <2>1, OverKept DEF FirstHolder
  <2>3. /\ \A u, v \in Workers : FirstHolder(u, d)' /\ FirstHolder(v, d)' => u = v
        /\ row' = row /\ (row[d].status = "none" => row[d].attempts = 0)
        /\ \A v \in Workers : run'[v].seen = run[v].seen
    BY <2>2 DEF CountedOnce, Posts
  <2>4. Holds(w, d) /\ d \in Posted(w)
    BY <1>2 DEF Posts, Holds, Posted
  <2>5. /\ posts'[d] \in Nat /\ extra'[d] \in Nat /\ posts'[d] <= posts[d] + 1
        /\ extra'[d] >= extra[d] /\ (d \in over[w] => extra'[d] = extra[d] + 1)
    BY <2>4, CountsMove, Numbers DEF Extra
  <2>6. CASE d \in over[w]
    <3>1. counted \in Int /\ counted' \in Int /\ counted' <= counted
      BY <2>5, <2>6, Numbers
    <3>2. Due(d)' <=> Due(d)
      BY <2>2, <2>6 DEF Due, FirstHolder, Posts
    <3>3. \A v \in Workers : Holds(v, d)' =>
            counted' <= run'[v].seen[d] + IF Due(d)' THEN 0 ELSE 1
      BY <2>1, <2>3, <3>1, <3>2, Numbers DEF CountedOnce
    <3>4. \A v \in Workers : FirstHolder(v, d) => run'[v] = run[v]
      BY <2>6 DEF FirstHolder, Posts
    <3>5. \/ counted' <= row'[d].attempts
          \/ /\ ~Due(d)' /\ counted' <= row'[d].attempts + 1
             /\ \E v \in Workers : FirstHolder(v, d)' /\ Unwritten(run'[v], d)
      BY <2>2, <2>3, <3>1, <3>2, <3>4, Numbers DEF CountedOnce
    <3> QED BY <2>3, <3>3, <3>5 DEF CountedOnce
  <2>7. CASE d \notin over[w]
    <3>1. counted \in Int /\ counted' \in Int /\ counted' <= counted + 1
      BY <2>5, Numbers
    <3>2. FirstHolder(w, d) /\ Due(d)
      BY <1>2, <2>4, <2>7 DEF FirstHolder, Due, Posts
    <3>3. ~Due(d)'
      BY <1>2, <2>3, <2>2, <3>2 DEF Due, Posts
    <3>4. /\ counted <= row[d].attempts
          /\ \A v \in Workers : Holds(v, d) => counted <= run[v].seen[d]
      BY <3>1, <3>2, Numbers DEF CountedOnce
    <3>5. \A v \in Workers : Holds(v, d)' =>
            counted' <= run'[v].seen[d] + IF Due(d)' THEN 0 ELSE 1
      BY <2>1, <2>3, <3>1, <3>3, <3>4, Numbers
    <3>6. counted' <= row'[d].attempts + 1
      BY <2>3, <3>1, <3>4, Numbers
    <3>7. FirstHolder(w, d)' /\ Unwritten(run'[w], d)
      BY <1>2, <2>2, <3>2 DEF Unwritten, Posts
    <3> QED BY <2>3, <3>3, <3>5, <3>6, <3>7 DEF CountedOnce
  <2> QED BY <2>6, <2>7
<1> QED BY <1>1, <1>2

LEMMA NextCounted ==
  ASSUME Inv, Inv', SendsInv, [SendsNext]_sendVars PROVE SendsInv'
<1>1. CASE SendsNext
  <2>1. SendsType'
    <3>1. Counts /\ SendsType
      BY <1>1 DEF SendsNext, SendsInv
    <3>2. CASE Watched = {}
      BY <3>1, <3>2 DEF SendsType, Counts, Overlapped
    <3>3. CASE Watched # {}
      BY <3>1, <3>3, CountsMove
    <3> QED BY <3>2, <3>3
  <2>2. ASSUME NEW d \in Watched PROVE CountedOnce(d)'
    <3>0. Counts /\ SendsType /\ CountedOnce(d)
      BY <1>1 DEF SendsNext, SendsInv
    <3>1. CASE Environment
      BY <3>0, <3>1, EnvironmentKeeping, Kept
    <3>2. ASSUME NEW w \in Workers, TakeJob(w) \/ CallDispatch(w) PROVE CountedOnce(d)'
      BY <3>0, <3>2, TakeCounted DEF TakeJob, CallDispatch, RunJob, DispatchEndpoint
    <3>3. ASSUME NEW w \in Workers, RunStep(w) \/ RunDies(w) PROVE CountedOnce(d)'
      <4>1. CASE \/ \E tickets \in [BatchOf(run[w]) -> Tickets] : SendAnswered(w, tickets)
                 \/ \E accepted \in {{}, BatchOf(run[w])} : SendThrows(w, accepted)
        BY <3>0, <4>1, SendPosts, PostCounted
      <4>2. CASE \/ CancelInactive(w)
                 \/ \E e \in Deliveries : \/ RecordTicket(w, e) \/ DisableAfterTicket(w, e)
                                          \/ RecordThrows(w, e) \/ RollBack(w, e)
                                          \/ RollBackThrows(w, e)
                 \/ RunDies(w)
        <5>1. Keeping(d)
          BY <3>0, <4>2, RunStepKeeping
        <5> QED BY <3>0, <5>1, Kept
      <4> QED BY <3>3, <4>1, <4>2 DEF RunStep
    <3>4. ASSUME NEW s \in Syncers, CallReceipts(s) \/ SyncStep(s) \/ SyncDies(s)
          PROVE  CountedOnce(d)'
      <4>1. d \in Deliveries /\ row \in [Deliveries -> RowType]
            /\ (row[d].status = "none" => row[d].attempts = 0)
        BY <3>0, WatchedAssumption DEF Inv, TypeOK, CountedOnce
      <4>2. /\ row'[d].attempts = row[d].attempts
            /\ row'[d].status = "none" => row[d].status = "none"
        <5>1. ASSUME NEW e \in Deliveries, ApplyReceipt(s, e) PROVE <4>2!:
          BY <4>1, <5>1 DEF ApplyReceipt, RowType
        <5>2. CASE UNCHANGED row
          BY <5>2
        <5> QED BY <3>4, <5>1, <5>2
                DEF CallReceipts, FindTicketed, SyncStep, GetReceipts, DisableAfterReceipt,
                    ApplyThrows, SyncDies
      <4>3. \/ run' = run
            \/ \E I : run' = Outdate(run, I)
        BY <3>4 DEF CallReceipts, FindTicketed, SyncStep, GetReceipts, ApplyReceipt,
                    DisableAfterReceipt, ApplyThrows, SyncDies
      <4>4. \A v \in Workers : Keeps(run'[v], run[v], d) /\ Owes(run'[v], run[v], d)
        BY <4>3, SameKeeps, OutdateKeeps DEF Inv, TypeOK
      <4>5. Keeping(d)
        BY <4>1, <4>2, <4>4 DEF Keeping
      <4> QED BY <3>0, <4>5, Kept
    <3> QED BY <1>1, <3>1, <3>2, <3>3, <3>4 DEF SendsNext, Next
  <2> QED BY <2>1, <2>2 DEF SendsInv
<1>2. CASE UNCHANGED sendVars
  <2>1. UNCHANGED <<row, run, posts, extra, over>>
    BY <1>2 DEF sendVars, vars
  <2> QED
    BY <2>1 DEF SendsInv, SendsType, CountedOnce, FirstHolder, Holds, Due, Unwritten
<1> QED BY <1>1, <1>2

\* The attempts of dispatchPending bound what is really sent, for any number of
\* calls, crashes, failing statements and deletions: every send beyond
\* MAX_SEND_ATTEMPTS is one of a call that took the delivery up while another call
\* held it, or of a call that ended before it wrote the send down.
THEOREM RetryBudgetHolds == SendsSpec => []RetryBudget
<1>1. SendsInit => Init /\ SendsInv
  <2> SUFFICES ASSUME SendsInit PROVE SendsInv
    BY DEF SendsInit
  <2>1. SendsType
    BY DEF SendsInit, SendsType
  <2>2. ASSUME NEW d \in Watched PROVE CountedOnce(d)
    <3>1. d \in Deliveries
      BY WatchedAssumption
    <3>2. /\ row[d].attempts = 0 /\ posts[d] = 0 /\ extra[d] = 0
          /\ \A w \in Workers : ~Holds(w, d)
      BY <3>1 DEF SendsInit, Init, NoRow, IdleRun, Holds
    <3> QED BY <3>2 DEF CountedOnce, FirstHolder
  <2> QED BY <2>1, <2>2 DEF SendsInv
<1>2. [SendsNext]_sendVars => [Next]_vars
  BY DEF SendsNext, sendVars
<1>3. Inv /\ SendsInv => RetryBudget
  <2> SUFFICES ASSUME Inv, SendsInv, NEW d \in Watched
               PROVE  posts[d] <= MAX_SEND_ATTEMPTS + extra[d]
    BY DEF RetryBudget
  <2>0. CountedOnce(d) /\ SendsType
    BY DEF SendsInv
  <2>1. CASE posts[d] - extra[d] <= row[d].attempts
    BY <2>0, <2>1, Numbers
  <2>2. CASE ~(posts[d] - extra[d] <= row[d].attempts)
    <3>1. PICK w \in Workers : Holds(w, d)
      BY <2>0, <2>2 DEF CountedOnce, FirstHolder
    <3>2. posts[d] - extra[d] <= run[w].seen[d] + 1
      BY <2>0, <3>1, Numbers DEF CountedOnce
    <3> QED BY <2>0, <3>2, Numbers
  <2> QED BY <2>1, <2>2
<1>4. Inv /\ [Next]_vars => Inv'
  BY NextInv
<1>5. Init => Inv
  BY InitInv
<1> QED BY <1>1, <1>2, <1>3, <1>4, <1>5, NextCounted, PTL DEF SendsSpec
=============================================================================
