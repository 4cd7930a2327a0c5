-------------------------- MODULE GoogleImport_proofs --------------------------
(***************************************************************************)
(* Proofs about GoogleImport, for any items, places, requests and jobs and  *)
(* any limits on resolves, retries and faults.                              *)
(***************************************************************************)
EXTENDS GoogleImport, TLAPS

\* Every frame condition that names the saves is read by its parts.
USE DEF saveVars

(***************************************************************************)
(* The inductive invariant: what holds of a job by itself, and what a job    *)
(* may rely on in the rows.                                                 *)
(***************************************************************************)
\* The job has resolved a place that it has not recorded yet.
Holding(r) == r.pc \in {"save", "create", "update", "record"} /\ r.remote

\* The places a job resolved are those it counted and the one it holds; a job that
\* has saved a place of a deleted import is on its way out.
JobOK(r) ==
  /\ r \in JobType
  /\ r.pc \in {"resolve", "save", "create", "update", "record"} =>
       r.key \in DOMAIN PlaceOf
  /\ r.pc = "review" => r.key \in Keys
  /\ r.pc = "resolve" => r.count < MaxResolves /\ ~r.remote /\ ~r.known
  /\ Holding(r) => r.count < MaxResolves /\ r.made = r.count + 1
  /\ ~Holding(r) => r.made = r.count
  /\ \/ r.late = 0
     \/ r.late = 1 /\ r.pc \in {"queued", "record", "review", "fail"}

\* While the import is there, what a run is done with is on record, what it is
\* about to record as matched is saved, and a place it found in the database is
\* not put up for review without a fault or a collision.
Knows(r, live, recorded, saved) ==
  /\ r.late = 1 => ~live
  /\ live =>
       /\ r.pc \in {"next", "resolve", "save", "create", "update", "record", "review"} =>
            r.keys \ r.todo \subseteq recorded
       /\ r.pc = "record" => PlaceOf[r.key] \in saved
       /\ r.pc = "review" /\ r.known => r.hurt \/ r.raced

\* Nothing happens before the import is created, and it goes with its owner.
Fresh ==
  /\ imp.state = "none" => \A j \in Jobs : job[j].pc = "free"
  /\ Live => user

\* A request that comes to enqueue a job knows which one.
RequestsOK ==
  \A q \in Requests :
    /\ imp.state = "none" => req[q].pc = "idle"
    /\ req[q].pc \in {"check", "mark", "enqueue"} => req[q].kind \in Kinds

JobsOK == \A j \in Jobs : JobOK(job[j])
JobsKnow == \A j \in Jobs : Knows(job[j], Live, Recorded, kept)

Inv == /\ TypeOK /\ Fresh /\ RequestsOK /\ JobsOK /\ JobsKnow
       /\ CoveredIsRecorded /\ MatchedWasSaved

(***************************************************************************)
(* Jobs by themselves.                                                      *)
(***************************************************************************)
LEMMA FreeJobOK == JobOK(FreeJob) /\ FreeJob.pc = "free" /\ FreeJob.late = 0
  BY ConstantsAssumption
  DEF JobOK, Holding, FreeJob, JobType, Kinds, MaxResolves

LEMMA RejectOK ==
  ASSUME NEW r, JobOK(r)
  PROVE  /\ JobOK(Reject(r))
         /\ Reject(r).pc \in {"queued", "free"}
         /\ Reject(r).late = 1 => r.late = 1
<1>1. CASE r.left > 0
  <2>1. /\ Reject(r).pc = "queued" /\ Reject(r).late = r.late
        /\ Reject(r).count = 0 /\ Reject(r).made = 0
    BY <1>1 DEF Reject, FreeJob
  <2> DEFINE K == IF r.kind = "ingest" THEN r.keys ELSE {}
  <2>2. /\ r.left - 1 \in 0..RetryLimit /\ r.late \in Nat
        /\ r.kind \in Kinds /\ K \in SUBSET Keys
    BY <1>1, ConstantsAssumption DEF JobOK, JobType
  <2>3. Reject(r) = [pc |-> "queued", kind |-> r.kind, keys |-> K,
                     left |-> r.left - 1, todo |-> {}, key |-> None, count |-> 0,
                     remote |-> FALSE, known |-> FALSE, hurt |-> FALSE,
                     raced |-> FALSE, made |-> 0, late |-> r.late]
    BY <1>1 DEF Reject, FreeJob
  <2>4. Reject(r) \in JobType
    <3> HIDE DEF K
    <3>1. 0 \in 0..MaxResolves /\ 0 \in Nat
      BY ConstantsAssumption DEF MaxResolves
    <3> QED BY <2>2, <2>3, <3>1 DEF JobType
  <2> QED BY <2>1, <2>4, FreeJobOK DEF JobOK, Holding
<1>2. CASE ~(r.left > 0)
  BY <1>2, FreeJobOK DEF Reject
<1> QED BY <1>1, <1>2

LEMMA RunOK ==
  ASSUME NEW r, JobOK(r), r.pc \in {"queued", "download"}, r.late = 0,
         NEW K \in SUBSET Keys
  PROVE  /\ JobOK(Run(r, K)) /\ Run(r, K).pc = "next" /\ Run(r, K).late = 0
         /\ Run(r, K).keys = K /\ Run(r, K).todo = K
  BY DEF Run, JobOK, JobType, Holding

LEMMA FailOK ==
  ASSUME NEW r, JobOK(r), ~Holding(r), r.pc # "free"
  PROVE  JobOK([r EXCEPT !.pc = "fail"])
  BY DEF JobOK, JobType, Holding

\* A job that throws, with a fault marked or not.
LEMMA CatchOK ==
  ASSUME NEW r, JobOK(r), r.pc # "free"
  PROVE  /\ JobOK(Catch(r))
         /\ Catch(r).pc \in {"review", "fail", "queued", "free"}
         /\ Catch(r).late = 1 => r.late = 1
         /\ Catch(r).pc = "review" =>
              /\ r.pc \in {"resolve", "save", "create", "update", "record"}
              /\ Catch(r).keys = r.keys /\ Catch(r).todo = r.todo
              /\ Catch(r).known = r.known /\ Catch(r).hurt = r.hurt
              /\ Collides(r) => Catch(r).raced
<1>1. CASE r.pc \in {"resolve", "save", "create", "update", "record"}
  <2> DEFINE m == IF r.remote THEN r.made - 1 ELSE r.made
             c == [r EXCEPT !.pc = "review", !.raced = Collides(r), !.made = m]
  <2>1. Catch(r) = c
    BY <1>1 DEF Catch
  <2>2. m = r.count /\ r.count \in Nat
    BY <1>1, ConstantsAssumption DEF JobOK, JobType, Holding, MaxResolves
  <2>3. r.key \in Keys
    BY <1>1, ConstantsAssumption DEF JobOK
  <2> HIDE DEF m
  <2>a. Collides(r) \in BOOLEAN
    BY DEF Collides
  <2>4. c \in JobType
    BY <2>2, <2>a DEF JobOK, JobType
  <2>5. /\ c.pc = "review" /\ c.key = r.key /\ c.made = m /\ c.count = r.count
        /\ c.late = r.late /\ c.keys = r.keys /\ c.todo = r.todo
        /\ c.known = r.known /\ c.hurt = r.hurt /\ c.raced = Collides(r)
    BY DEF JobOK, JobType
  <2> HIDE DEF c
  <2>6. JobOK(c)
    BY <1>1, <2>2, <2>3, <2>4, <2>5 DEF JobOK, Holding
  <2> QED BY <1>1, <2>1, <2>5, <2>6
<1>2. CASE r.pc \in {"download", "next", "review"}
  <2>1. Catch(r) = [r EXCEPT !.pc = "fail"]
    BY <1>2 DEF Catch
  <2>2. [r EXCEPT !.pc = "fail"].pc = "fail" /\ [r EXCEPT !.pc = "fail"].late = r.late
    BY DEF JobOK, JobType
  <2> QED BY <1>2, <2>1, <2>2, FailOK DEF Holding
<1>3. CASE r.pc \notin {"resolve", "save", "create", "update", "record", "download",
                          "next", "review"}
  BY <1>3, RejectOK DEF Catch
<1> QED BY <1>1, <1>2, <1>3

LEMMA HurtOK ==
  ASSUME NEW r, JobOK(r)
  PROVE  /\ JobOK([r EXCEPT !.hurt = TRUE])
         /\ [r EXCEPT !.hurt = TRUE].pc = r.pc
         /\ [r EXCEPT !.hurt = TRUE].late = r.late
         /\ [r EXCEPT !.hurt = TRUE].hurt
         /\ [r EXCEPT !.hurt = TRUE].keys = r.keys
         /\ [r EXCEPT !.hurt = TRUE].todo = r.todo
  BY DEF JobOK, JobType, Holding

(***************************************************************************)
(* Replacing one job, or none.                                              *)
(***************************************************************************)
LEMMA Replaced ==
  ASSUME Inv, NEW j \in Jobs, NEW r, job' = [job EXCEPT ![j] = r],
         JobOK(r), Knows(r, Live', Recorded', kept'),
         Live' => Live /\ Recorded \subseteq Recorded' /\ kept \subseteq kept'
  PROVE  JobsOK' /\ JobsKnow' /\ job' \in [Jobs -> JobType]
<1>1. job' \in [Jobs -> JobType]
  BY DEF Inv, TypeOK, JobOK
<1>2. job'[j] = r /\ \A i \in Jobs \ {j} : job'[i] = job[i]
  BY DEF Inv, TypeOK
<1>3. JobsOK'
  BY <1>2 DEF Inv, JobsOK
<1>4. \A i \in Jobs : Knows(job[i], Live', Recorded', kept')
  BY DEF Inv, JobsKnow, Knows
<1>5. JobsKnow'
  BY <1>2, <1>4 DEF JobsKnow
<1> QED BY <1>1, <1>3, <1>5

LEMMA Kept ==
  ASSUME Inv, UNCHANGED job,
         Live' => Live /\ Recorded \subseteq Recorded' /\ kept \subseteq kept'
  PROVE  JobsOK' /\ JobsKnow' /\ job' \in [Jobs -> JobType]
  BY DEF Inv, TypeOK, JobsOK, JobsKnow, Knows

LEMMA InitInv == Init => Inv
<1> SUFFICES ASSUME Init PROVE Inv
  OBVIOUS
<1>1. FreeJob \in JobType
  BY FreeJobOK DEF JobOK
<1>2. IdleRequest \in RequestType /\ IdleRequest.pc = "idle"
  BY DEF IdleRequest, RequestType
<1>3. imp \in ImportType /\ imp.state = "none"
  BY DEF Init, ImportType, ImportStatuses
<1>4. item \in [Keys -> {"none", "matched", "manual_review"}]
  BY DEF Init, NoItems
<1>5. TypeOK
  BY <1>1, <1>2, <1>3, <1>4, ConstantsAssumption DEF Init, TypeOK
<1>6. ~Live
  BY <1>3 DEF Live
<1>7. Fresh /\ RequestsOK
  BY <1>2, <1>6, FreeJobOK DEF Init, Fresh, RequestsOK
<1>8. JobsOK /\ JobsKnow
  BY <1>6, FreeJobOK DEF Init, JobsOK, JobsKnow, Knows
<1>9. CoveredIsRecorded /\ MatchedWasSaved
  BY DEF Init, CoveredIsRecorded, MatchedWasSaved, NoItems
<1> QED BY <1>5, <1>7, <1>8, <1>9 DEF Inv

(***************************************************************************)
(* Requests.                                                                *)
(***************************************************************************)
LEMMA RequestInv ==
  ASSUME Inv, UNCHANGED <<user, item, places, job, saveVars, covered>>,
         faults' \in 0..MaxFaults,
         imp' \in ImportType, imp'.state = imp.state,
         req' \in [Requests -> RequestType], RequestsOK'
  PROVE  Inv'
<1>1. Live' = Live /\ Recorded' = Recorded
  BY DEF Live, Recorded
<1>2. JobsOK' /\ JobsKnow' /\ job' \in [Jobs -> JobType]
  BY <1>1, Kept
<1>3. TypeOK'
  BY <1>2 DEF Inv, TypeOK
<1>4. Fresh'
  BY <1>1 DEF Inv, Fresh
<1>5. CoveredIsRecorded' /\ MatchedWasSaved'
  BY <1>1 DEF Inv, CoveredIsRecorded, MatchedWasSaved
<1> QED BY <1>2, <1>3, <1>4, <1>5 DEF Inv

LEMMA AnswerOK ==
  ASSUME Inv, NEW q \in Requests, Answer(q)
  PROVE  /\ req' \in [Requests -> RequestType]
         /\ imp'.state = imp.state => RequestsOK'
<1>1. IdleRequest \in RequestType /\ IdleRequest.pc = "idle"
  BY DEF IdleRequest, RequestType
<1>2. req' \in [Requests -> RequestType]
  BY <1>1 DEF Inv, TypeOK, Answer
<1>3. \A p \in Requests : req'[p].pc = "idle" \/ req'[p] = req[p]
  BY <1>1 DEF Inv, TypeOK, Answer
<1> QED BY <1>2, <1>3 DEF Inv, Fresh, RequestsOK

LEMMA GotoOK ==
  ASSUME Inv, NEW q \in Requests, Live \/ req[q].pc # "idle",
         NEW pc \in {"check", "mark", "enqueue", "delete"}, Goto(q, pc),
         pc # "delete" => req[q].kind \in Kinds
  PROVE  /\ req' \in [Requests -> RequestType]
         /\ imp'.state = imp.state => RequestsOK'
<1>1. [req[q] EXCEPT !.pc = pc] \in RequestType
  BY DEF Inv, TypeOK, RequestType
<1>2. req' = [req EXCEPT ![q] = [req[q] EXCEPT !.pc = pc]]
  BY DEF Goto
<1>3. req' \in [Requests -> RequestType]
  BY <1>1, <1>2 DEF Inv, TypeOK
<1>4. imp.state # "none"
  BY DEF Inv, RequestsOK, Live
<1>5. req'[q].pc = pc /\ req'[q].kind = req[q].kind
  BY <1>2 DEF Inv, TypeOK, RequestType
<1>6. \A p \in Requests \ {q} : req'[p] = req[p]
  BY <1>2 DEF Inv, TypeOK
<1> QED BY <1>3, <1>4, <1>5, <1>6 DEF Inv, RequestsOK

LEMMA SetStatusOK ==
  ASSUME Inv, NEW status \in ImportStatuses, SetStatus(status)
  PROVE  imp' \in ImportType /\ imp'.state = imp.state
  BY DEF Inv, TypeOK, SetStatus, ImportType

LEMMA SameImport == ASSUME Inv, UNCHANGED imp
                    PROVE  imp' \in ImportType /\ imp'.state = imp.state
  BY DEF Inv, TypeOK

LEMMA BeginInv ==
  ASSUME Inv, NEW q \in Requests, NEW pc \in {"callback", "sync", "mark", "revoke"},
         NEW kind \in Kinds \cup {"state"}, NEW K \in SUBSET Keys, Begin(q, pc, kind, K),
         pc = "mark" => kind \in Kinds
  PROVE  Inv'
<1>1. [pc |-> pc, kind |-> kind, keys |-> K] \in RequestType
  BY DEF RequestType
<1>2. req' \in [Requests -> RequestType]
  BY <1>1 DEF Inv, TypeOK, Begin
<1>3. RequestsOK'
  BY DEF Inv, TypeOK, Begin, RequestsOK, Live, Rows
<1>4. faults' \in 0..MaxFaults
  BY DEF Inv, TypeOK, Begin, Rows
<1>5. UNCHANGED <<user, imp, item, places, job, saveVars, covered>>
  BY DEF Begin, Rows
<1> QED BY <1>2, <1>3, <1>4, <1>5, SameImport, RequestInv

LEMMA StartRequestInv == ASSUME Inv, NEW q \in Requests, StartRequest(q) PROVE Inv'
<1>1. CASE StartCallback(q)
  BY <1>1, BeginInv DEF StartCallback, Kinds
<1>2. CASE StartSync(q)
  BY <1>2, BeginInv DEF StartSync, Kinds
<1>3. CASE StartProcess(q)
  <2>1. (IF imp.urls THEN "mark" ELSE "sync") \in {"callback", "sync", "mark", "revoke"}
    OBVIOUS
  <2> QED BY <1>3, <2>1, BeginInv DEF StartProcess, Kinds
<1>4. CASE StartRetry(q)
  BY <1>4, BeginInv DEF StartRetry, Kinds
<1>5. CASE \E K \in SUBSET Keys : StartIngest(q, K)
  BY <1>5, BeginInv DEF StartIngest, Kinds
<1>6. CASE StartDelete(q)
  BY <1>6, BeginInv DEF StartDelete, Kinds
<1> QED BY <1>1, <1>2, <1>3, <1>4, <1>5, <1>6 DEF StartRequest

\* Deleting the import, by itself or with the account, takes everything with it.
LEMMA GoneInv ==
  ASSUME Inv, UNCHANGED <<places, job, faults>>, user' \in BOOLEAN,
         item' = NoItems, covered' = {}, kept' \subseteq Places,
         saves' \subseteq Places, UNCHANGED byHand,
         imp' \in ImportType, ~Live',
         imp'.state = "none" => imp.state = "none",
         req' \in [Requests -> RequestType], RequestsOK'
  PROVE  Inv'
<1>1. JobsOK' /\ JobsKnow' /\ job' \in [Jobs -> JobType]
  BY Kept
<1>2. TypeOK'
  BY <1>1 DEF Inv, TypeOK, NoItems
<1>3. Fresh'
  BY DEF Inv, Fresh
<1>4. CoveredIsRecorded' /\ MatchedWasSaved'
  BY DEF CoveredIsRecorded, MatchedWasSaved, NoItems
<1> QED BY <1>1, <1>2, <1>3, <1>4 DEF Inv

\* The queued job that an enqueue leaves behind.
LEMMA QueuedOK ==
  ASSUME NEW kind \in Kinds, NEW K \in SUBSET Keys
  PROVE  /\ JobOK([FreeJob EXCEPT !.pc = "queued", !.kind = kind, !.keys = K,
                                  !.left = RetryLimit])
         /\ [FreeJob EXCEPT !.pc = "queued", !.kind = kind, !.keys = K,
                            !.left = RetryLimit].pc = "queued"
         /\ [FreeJob EXCEPT !.pc = "queued", !.kind = kind, !.keys = K,
                            !.left = RetryLimit].late = 0
<1> DEFINE r == [FreeJob EXCEPT !.pc = "queued", !.kind = kind, !.keys = K,
                                !.left = RetryLimit]
<1>1. RetryLimit \in 0..RetryLimit /\ K \subseteq Keys
  BY ConstantsAssumption
<1>2. FreeJob \in JobType /\ FreeJob.made = FreeJob.count /\ FreeJob.late = 0
  BY FreeJobOK DEF JobOK, FreeJob
<1>3. r \in JobType
  BY <1>1, <1>2 DEF JobType
<1>4. r.pc = "queued" /\ r.made = r.count /\ r.late = 0
  BY <1>2 DEF JobType
<1> HIDE DEF r
<1>5. JobOK(r)
  BY <1>3, <1>4 DEF JobOK, Holding
<1> QED BY <1>4, <1>5 DEF r

LEMMA EnqueueInv ==
  ASSUME Inv, NEW q \in Requests, NEW j \in Jobs, Enqueue(q, j) PROVE Inv'
<1> DEFINE r == [FreeJob EXCEPT !.pc = "queued", !.kind = req[q].kind,
                                !.keys = req[q].keys, !.left = RetryLimit]
<1>1. job' = [job EXCEPT ![j] = r] /\ Answer(q)
      /\ UNCHANGED <<user, imp, item, places, faults, saveVars, covered>>
  BY DEF Enqueue, Rows
<1>2. req[q].kind \in Kinds /\ req[q].keys \in SUBSET Keys /\ imp.state # "none"
  BY DEF Enqueue, Inv, TypeOK, RequestType, RequestsOK
<1>3. JobOK(r) /\ r.pc = "queued" /\ r.late = 0
  BY <1>2, QueuedOK
<1> HIDE DEF r
<1>4. Live' = Live /\ Recorded' = Recorded
  BY <1>1 DEF Live, Recorded
<1>5. Knows(r, Live', Recorded', kept')
  BY <1>3 DEF Knows
<1>6. JobsOK' /\ JobsKnow' /\ job' \in [Jobs -> JobType]
  BY <1>1, <1>3, <1>4, <1>5, Replaced
<1>7. req' \in [Requests -> RequestType] /\ RequestsOK'
  BY <1>1, AnswerOK
<1>8. TypeOK'
  BY <1>1, <1>6, <1>7 DEF Inv, TypeOK
<1>9. Fresh' /\ CoveredIsRecorded' /\ MatchedWasSaved'
  BY <1>1, <1>2, <1>4 DEF Inv, Fresh, CoveredIsRecorded, MatchedWasSaved
<1> QED BY <1>6, <1>7, <1>8, <1>9 DEF Inv

LEMMA RequestStepInv == ASSUME Inv, NEW q \in Requests, RequestStep(q) PROVE Inv'
<1>0. /\ faults \in 0..MaxFaults /\ imp \in ImportType
      /\ kept \subseteq Places /\ saves \subseteq Places
  BY DEF Inv, TypeOK
<1>1. CASE MarkFetching(q)
  <2>1. imp' \in ImportType /\ imp'.state = imp.state
    BY <1>0, <1>1 DEF MarkFetching, ImportType, ImportStatuses
  <2> QED BY <1>0, <1>1, <2>1, AnswerOK, RequestInv DEF MarkFetching, Unchanged
<1>2. CASE CallbackFails(q)
  <2>1. imp' \in ImportType /\ imp'.state = imp.state
    BY <1>2, SetStatusOK DEF CallbackFails, ImportStatuses
  <2> QED BY <1>0, <1>2, <2>1, AnswerOK, RequestInv DEF CallbackFails, Unchanged
<1>3. ASSUME NEW failed \in BOOLEAN, NEW urls \in BOOLEAN,
             UpdateArchiveState(q, failed, urls)
      PROVE  Inv'
  <2>1. imp' \in ImportType /\ imp'.state = imp.state
    BY <1>0, <1>3 DEF UpdateArchiveState, ImportType, ImportStatuses
  <2>2. req' \in [Requests -> RequestType] /\ RequestsOK'
    <3>1. CASE req[q].kind = "archive"
      BY <1>3, <2>1, <3>1, GotoOK DEF UpdateArchiveState, Kinds
    <3>2. CASE req[q].kind # "archive"
      BY <1>3, <2>1, <3>2, AnswerOK DEF UpdateArchiveState
    <3> QED BY <3>1, <3>2
  <2> QED BY <1>0, <1>3, <2>1, <2>2, RequestInv DEF UpdateArchiveState, Unchanged
<1>4. CASE CheckArchive(q)
  <2>1. imp' \in ImportType /\ imp'.state = imp.state
    BY <1>4, SameImport DEF CheckArchive, Rows
  <2>2. req[q].kind \in Kinds
    BY <1>4 DEF CheckArchive, Inv, RequestsOK
  <2>3. req' \in [Requests -> RequestType] /\ RequestsOK'
    BY <1>4, <2>1, <2>2, GotoOK, AnswerOK DEF CheckArchive
  <2> QED BY <1>0, <1>4, <2>1, <2>3, RequestInv DEF CheckArchive, Rows
<1>5. CASE MarkProcessing(q)
  <2>1. imp' \in ImportType /\ imp'.state = imp.state
    BY <1>5, SetStatusOK DEF MarkProcessing, ImportStatuses
  <2>2. req[q].kind \in Kinds
    BY <1>5 DEF MarkProcessing, Inv, RequestsOK
  <2>3. req' \in [Requests -> RequestType] /\ RequestsOK'
    BY <1>5, <2>1, <2>2, GotoOK DEF MarkProcessing
  <2> QED BY <1>0, <1>5, <2>1, <2>3, RequestInv DEF MarkProcessing, Unchanged
<1>6. CASE \E j \in Jobs : Enqueue(q, j)
  BY <1>6, EnqueueInv
<1>7. CASE MarkRevoked(q)
  <2>1. imp' \in ImportType /\ imp'.state = imp.state
    BY <1>7, SetStatusOK DEF MarkRevoked, ImportStatuses
  <2>2. req' \in [Requests -> RequestType] /\ RequestsOK'
    BY <1>7, <2>1, GotoOK DEF MarkRevoked
  <2> QED BY <1>0, <1>7, <2>1, <2>2, RequestInv DEF MarkRevoked, Unchanged
<1>8. CASE DeleteImport(q)
  <2>1. imp' \in ImportType /\ imp'.state = "deleted" /\ ~Live'
    BY <1>0, <1>8 DEF DeleteImport, ImportType, Live
  <2>2. req' \in [Requests -> RequestType]
    BY <1>8, AnswerOK DEF DeleteImport
  <2>3. RequestsOK'
    <3>1. \A p \in Requests : req'[p].pc = "idle" \/ req'[p] = req[p]
      BY <1>8 DEF DeleteImport, Answer, IdleRequest, Inv, TypeOK
    <3> QED BY <2>1, <3>1 DEF Inv, RequestsOK
  <2>4. user' \in BOOLEAN
    BY <1>8 DEF DeleteImport, Inv, TypeOK
  <2> QED BY <1>0, <1>8, <2>1, <2>2, <2>3, <2>4, GoneInv DEF DeleteImport
<1>9. CASE RequestThrows(q)
  <2>1. imp' \in ImportType /\ imp'.state = imp.state
    BY <1>9, SameImport DEF RequestThrows, Rows
  <2> QED BY <1>0, <1>9, <2>1, AnswerOK, RequestInv DEF RequestThrows, Rows
<1> QED
  BY <1>1, <1>2, <1>3, <1>4, <1>5, <1>6, <1>7, <1>8, <1>9 DEF RequestStep

LEMMA RequestDiesInv == ASSUME Inv, NEW q \in Requests, RequestDies(q) PROVE Inv'
<1>1. faults' \in 0..MaxFaults
  BY ConstantsAssumption DEF RequestDies, Inv, TypeOK
<1>2. imp' \in ImportType /\ imp'.state = imp.state
  BY SameImport DEF RequestDies
<1> QED BY <1>1, <1>2, AnswerOK, RequestInv DEF RequestDies

(***************************************************************************)
(* Jobs.                                                                    *)
(***************************************************************************)
LEMMA JobInv ==
  ASSUME Inv, NEW j \in Jobs, NEW r, job' = [job EXCEPT ![j] = r], job[j].pc # "free",
         JobOK(r), Knows(r, Live, Recorded', kept'),
         UNCHANGED <<user, req>>, imp' \in ImportType, imp'.state = imp.state,
         item' \in [Keys -> {"none", "matched", "manual_review"}],
         Recorded \subseteq Recorded',
         places' \subseteq Places, kept \subseteq kept', kept' \subseteq Places,
         saves' \subseteq Places, UNCHANGED byHand,
         faults' \in 0..MaxFaults, covered' \subseteq Keys,
         CoveredIsRecorded', MatchedWasSaved'
  PROVE  Inv'
<1>1. Live' = Live
  BY DEF Live
<1>2. JobsOK' /\ JobsKnow' /\ job' \in [Jobs -> JobType]
  BY <1>1, Replaced
<1>3. TypeOK'
  BY <1>2 DEF Inv, TypeOK
<1>4. Fresh' /\ RequestsOK'
  BY <1>1 DEF Inv, Fresh, RequestsOK
<1> QED BY <1>2, <1>3, <1>4 DEF Inv

\* Steps that touch no row but perhaps store a place.
LEMMA JobOnlyInv ==
  ASSUME Inv, NEW j \in Jobs, NEW r, job' = [job EXCEPT ![j] = r], job[j].pc # "free",
         JobOK(r), Knows(r, Live, Recorded, kept),
         UNCHANGED <<user, req, imp, item, saveVars, covered>>,
         places' \subseteq Places, faults' \in 0..MaxFaults
  PROVE  Inv'
<1>1. Recorded' = Recorded
  BY DEF Recorded
<1>2. CoveredIsRecorded' /\ MatchedWasSaved'
  BY <1>1 DEF Inv, CoveredIsRecorded, MatchedWasSaved
<1>3. /\ imp \in ImportType /\ covered \subseteq Keys
      /\ kept \subseteq Places /\ saves \subseteq Places
      /\ item \in [Keys -> {"none", "matched", "manual_review"}]
  BY DEF Inv, TypeOK
<1> QED BY <1>1, <1>2, <1>3, JobInv

LEMMA JobFacts ==
  ASSUME Inv, NEW j \in Jobs
  PROVE  /\ JobOK(job[j]) /\ job[j] \in JobType
         /\ Knows(job[j], Live, Recorded, kept)
         /\ places \subseteq Places /\ faults \in 0..MaxFaults
         /\ kept \subseteq Places /\ saves \subseteq Places
         /\ imp \in ImportType /\ covered \subseteq Keys
         /\ item \in [Keys -> {"none", "matched", "manual_review"}]
  BY DEF Inv, TypeOK, JobsOK, JobsKnow, JobOK

\* While the import is there a job has not saved anything too late.
LEMMA LiveNotLate ==
  ASSUME Inv, NEW j \in Jobs, Live PROVE job[j].late = 0
  BY JobFacts DEF JobOK, Knows

LEMMA TakeJobInv == ASSUME Inv, NEW j \in Jobs, TakeJob(j) PROVE Inv'
<1> DEFINE r == IF job[j].kind = "ingest" THEN Run(job[j], job[j].keys)
                ELSE IF job[j].kind = "retry" /\ Recorded # {} THEN Run(job[j], Recorded)
                ELSE IF job[j].kind = "archive" /\ imp.urls
                  THEN [job[j] EXCEPT !.pc = "download"]
                ELSE [job[j] EXCEPT !.pc = "fail"]
<1>1. /\ job[j].pc = "queued" /\ Live /\ job' = [job EXCEPT ![j] = r]
      /\ UNCHANGED <<user, imp, item, places, faults, saveVars, covered, req>>
  BY DEF TakeJob, Rows
<1>2. JobOK(job[j]) /\ job[j] \in JobType /\ job[j].late = 0
  BY <1>1, JobFacts, LiveNotLate
<1>3. job[j].keys \in SUBSET Keys /\ Recorded \in SUBSET Keys
  BY <1>2 DEF JobType, Recorded
<1>4. ASSUME NEW K \in SUBSET Keys
      PROVE  JobOK(Run(job[j], K)) /\ Knows(Run(job[j], K), Live, Recorded, kept)
  BY <1>1, <1>2, RunOK DEF Knows
<1>5. ASSUME NEW pc \in {"download", "fail"}
      PROVE  /\ JobOK([job[j] EXCEPT !.pc = pc])
             /\ Knows([job[j] EXCEPT !.pc = pc], Live, Recorded, kept)
  <2>1. /\ [job[j] EXCEPT !.pc = pc] \in JobType
        /\ [job[j] EXCEPT !.pc = pc].pc = pc
        /\ [job[j] EXCEPT !.pc = pc].late = 0
        /\ [job[j] EXCEPT !.pc = pc].made = job[j].made
        /\ [job[j] EXCEPT !.pc = pc].count = job[j].count
    BY <1>2 DEF JobType
  <2> QED BY <1>1, <1>2, <2>1 DEF JobOK, Holding, Knows
<1>6. JobOK(r) /\ Knows(r, Live, Recorded, kept)
  BY <1>3, <1>4, <1>5
<1> HIDE DEF r
<1> QED BY <1>1, <1>6, JobFacts, JobOnlyInv

LEMMA DownloadInv ==
  ASSUME Inv, NEW j \in Jobs, NEW K \in SUBSET Keys, Download(j, K) PROVE Inv'
<1>1. /\ job[j].pc = "download" /\ job' = [job EXCEPT ![j] = Run(job[j], K)]
      /\ UNCHANGED <<user, imp, item, places, faults, saveVars, covered, req>>
  BY DEF Download, Rows
<1>2. JobOK(job[j]) /\ job[j].late = 0
  BY <1>1, JobFacts DEF JobOK
<1>3. JobOK(Run(job[j], K)) /\ Knows(Run(job[j], K), Live, Recorded, kept)
  BY <1>1, <1>2, RunOK DEF Knows
<1> QED BY <1>1, <1>3, JobFacts, JobOnlyInv

\* What the lookup of an item leads to.
LEMMA AfterLookupOK ==
  ASSUME NEW k \in Keys, NEW count \in Nat
  PROVE  /\ AfterLookup(k, count) \in {"review", "save", "resolve"}
         /\ AfterLookup(k, count) # "review" => k \in DOMAIN PlaceOf
         /\ AfterLookup(k, count) = "resolve" => count < MaxResolves /\ ~Known(k)
         /\ AfterLookup(k, count) = "review" => ~Known(k)
<1>1. MaxResolves \in Nat
  BY ConstantsAssumption DEF MaxResolves
<1>2. CASE ~HasPlaceId(k)
  BY <1>2 DEF AfterLookup, Known
<1>3. CASE HasPlaceId(k) /\ Known(k)
  BY <1>3 DEF AfterLookup, HasPlaceId
<1>4. CASE HasPlaceId(k) /\ ~Known(k) /\ count < MaxResolves
  BY <1>1, <1>4 DEF AfterLookup, HasPlaceId
<1>5. CASE HasPlaceId(k) /\ ~Known(k) /\ count >= MaxResolves
  BY <1>1, <1>5 DEF AfterLookup, HasPlaceId
<1> QED BY <1>1, <1>2, <1>3, <1>4, <1>5

\* A job that turns to an item, with or without a fault.
LEMMA TurnedOK ==
  ASSUME NEW r, JobOK(r), r.pc = "next", NEW k \in Keys,
         NEW pc \in {"review", "save", "resolve"},
         NEW known \in BOOLEAN, NEW hurt \in BOOLEAN,
         pc # "review" => k \in DOMAIN PlaceOf,
         pc = "resolve" => r.count < MaxResolves /\ ~known,
         pc = "review" => ~known \/ hurt,
         NEW live, NEW recorded, NEW saved, Knows(r, live, recorded, saved),
         NEW t \in JobType, t.pc = pc, t.key = k, t.remote = FALSE, t.known = known,
         t.hurt = hurt, t.made = r.made, t.count = r.count, t.late = r.late,
         t.keys = r.keys, t.todo = r.todo
  PROVE  JobOK(t) /\ Knows(t, live, recorded, saved)
<1>1. r.late = 0 /\ r.made = r.count
  BY DEF JobOK, Holding
<1>2. JobOK(t)
  BY <1>1 DEF JobOK, Holding
<1>3. Knows(t, live, recorded, saved)
  BY <1>1 DEF Knows
<1> QED BY <1>2, <1>3

LEMMA LookupInv ==
  ASSUME Inv, NEW j \in Jobs, NEW k \in Keys, Lookup(j, k) PROVE Inv'
<1> DEFINE pc == AfterLookup(k, job[j].count)
           r == [job[j] EXCEPT !.pc = pc, !.key = k, !.remote = FALSE, !.known = Known(k)]
<1>1. /\ job[j].pc = "next" /\ job' = [job EXCEPT ![j] = r]
      /\ UNCHANGED <<user, imp, item, places, faults, saveVars, covered, req>>
  BY DEF Lookup, Rows
<1>2. JobOK(job[j]) /\ job[j] \in JobType /\ Knows(job[j], Live, Recorded, kept)
  BY JobFacts
<1>3. job[j].count \in Nat /\ job[j].hurt \in BOOLEAN /\ Known(k) \in BOOLEAN
  BY <1>2, ConstantsAssumption DEF JobType, Known, HasPlaceId, MaxResolves
<1>4. /\ pc \in {"review", "save", "resolve"}
      /\ pc # "review" => k \in DOMAIN PlaceOf
      /\ pc = "resolve" => job[j].count < MaxResolves /\ ~Known(k)
      /\ pc = "review" => ~Known(k)
  BY <1>3, AfterLookupOK
<1> HIDE DEF pc
<1>5. /\ r \in JobType /\ r.pc = pc /\ r.key = k /\ r.remote = FALSE /\ r.known = Known(k)
      /\ r.hurt = job[j].hurt /\ r.made = job[j].made /\ r.count = job[j].count
      /\ r.late = job[j].late /\ r.keys = job[j].keys /\ r.todo = job[j].todo
  BY <1>2, <1>3, <1>4 DEF JobType
<1> HIDE DEF r
<1>6. JobOK(r) /\ Knows(r, Live, Recorded, kept)
  BY <1>1, <1>2, <1>3, <1>4, <1>5, TurnedOK
<1> QED BY <1>1, <1>6, JobFacts, JobOnlyInv

LEMMA LookupFaultInv ==
  ASSUME Inv, NEW j \in Jobs, NEW k \in Keys, LookupFault(j, k) PROVE Inv'
<1> DEFINE r == [job[j] EXCEPT !.pc = "review", !.key = k, !.remote = FALSE,
                               !.known = Known(k), !.hurt = TRUE]
<1>1. /\ job[j].pc = "next" /\ job' = [job EXCEPT ![j] = r]
      /\ UNCHANGED <<user, imp, item, places, saveVars, covered, req>>
      /\ faults' = faults + 1 /\ faults < MaxFaults
  BY DEF LookupFault
<1>2. JobOK(job[j]) /\ job[j] \in JobType /\ Knows(job[j], Live, Recorded, kept)
  BY JobFacts
<1>3. Known(k) \in BOOLEAN
  BY DEF Known, HasPlaceId
<1>4. /\ r \in JobType /\ r.pc = "review" /\ r.key = k /\ r.remote = FALSE
      /\ r.known = Known(k) /\ r.hurt = TRUE
      /\ r.made = job[j].made /\ r.count = job[j].count
      /\ r.late = job[j].late /\ r.keys = job[j].keys /\ r.todo = job[j].todo
  BY <1>2, <1>3 DEF JobType
<1> HIDE DEF r
<1>5. JobOK(r) /\ Knows(r, Live, Recorded, kept)
  BY <1>1, <1>2, <1>3, <1>4, TurnedOK
<1>6. faults' \in 0..MaxFaults
  BY <1>1, JobFacts, ConstantsAssumption
<1> QED BY <1>1, <1>5, <1>6, JobFacts, JobOnlyInv

LEMMA ResolveInv == ASSUME Inv, NEW j \in Jobs, Resolve(j) PROVE Inv'
<1> DEFINE made == job[j].made + 1
           r == [job[j] EXCEPT !.pc = "save", !.remote = TRUE, !.made = made]
<1>1. /\ job[j].pc = "resolve" /\ job' = [job EXCEPT ![j] = r]
      /\ PlaceOf[job[j].key] \in Resolvable
      /\ places' = places \cup {PlaceOf[job[j].key]}
      /\ UNCHANGED <<user, imp, item, faults, saveVars, covered, req>>
  BY DEF Resolve
<1>2. JobOK(job[j]) /\ job[j] \in JobType /\ Knows(job[j], Live, Recorded, kept)
  BY JobFacts
<1>3. /\ job[j].made \in Nat /\ job[j].late = 0 /\ job[j].made = job[j].count
      /\ job[j].count < MaxResolves /\ job[j].key \in DOMAIN PlaceOf
      /\ made \in Nat /\ made = job[j].count + 1
  BY <1>1, <1>2 DEF JobOK, JobType, Holding
<1> HIDE DEF made
<1>4. /\ r \in JobType /\ r.pc = "save" /\ r.remote = TRUE /\ r.made = made
      /\ r.count = job[j].count /\ r.late = job[j].late /\ r.key = job[j].key
      /\ r.keys = job[j].keys /\ r.todo = job[j].todo
  BY <1>2, <1>3 DEF JobType
<1> HIDE DEF r
<1>5. JobOK(r)
  BY <1>3, <1>4 DEF JobOK, Holding
<1>6. Knows(r, Live, Recorded, kept)
  BY <1>1, <1>2, <1>4 DEF Knows
<1>7. places' \subseteq Places
  BY <1>1, JobFacts, ConstantsAssumption
<1> QED BY <1>1, <1>5, <1>6, <1>7, JobFacts, JobOnlyInv

LEMMA FindSaveInv == ASSUME Inv, NEW j \in Jobs, FindSave(j) PROVE Inv'
<1> DEFINE pc == IF PlaceOf[job[j].key] \in saves THEN "update" ELSE "create"
           r == [job[j] EXCEPT !.pc = pc]
<1>1. /\ job[j].pc = "save" /\ job' = [job EXCEPT ![j] = r]
      /\ UNCHANGED <<user, imp, item, places, faults, saveVars, covered, req>>
  BY DEF FindSave, Rows
<1>2. JobOK(job[j]) /\ job[j] \in JobType /\ Knows(job[j], Live, Recorded, kept)
  BY JobFacts
<1>3. pc \in {"update", "create"}
  OBVIOUS
<1> HIDE DEF pc
<1>4. /\ r \in JobType /\ r.pc = pc /\ r.late = job[j].late /\ r.key = job[j].key
      /\ r.remote = job[j].remote /\ r.made = job[j].made /\ r.count = job[j].count
      /\ r.keys = job[j].keys /\ r.todo = job[j].todo
  BY <1>2, <1>3 DEF JobType
<1> HIDE DEF r
<1>5. JobOK(r) /\ Knows(r, Live, Recorded, kept)
  BY <1>1, <1>2, <1>3, <1>4 DEF JobOK, Holding, Knows
<1> QED BY <1>1, <1>5, JobFacts, JobOnlyInv

\* The job whose place is saved now, by a new row or the old one.
LEMMA SavedInv ==
  ASSUME Inv, NEW j \in Jobs, job[j].pc \in {"create", "update"},
         job' = [job EXCEPT ![j] = Saved(job[j])],
         kept' = kept \cup {PlaceOf[job[j].key]},
         saves' \in {saves, saves \cup {PlaceOf[job[j].key]}},
         UNCHANGED <<user, imp, item, places, req, faults, byHand, covered>>
  PROVE  Inv'
<1> DEFINE late == IF Live THEN job[j].late ELSE job[j].late + 1
           r == [job[j] EXCEPT !.pc = "record", !.late = late]
<1>1. job' = [job EXCEPT ![j] = r]
  BY DEF Saved
<1>2. JobOK(job[j]) /\ job[j] \in JobType /\ Knows(job[j], Live, Recorded, kept)
  BY JobFacts
<1>3. job[j].late = 0 /\ job[j].key \in DOMAIN PlaceOf
  BY <1>2 DEF JobOK
<1>4. late \in Nat /\ late \in {0, 1} /\ (late = 1 => ~Live)
  BY <1>3
<1> HIDE DEF late
<1>5. /\ r \in JobType /\ r.pc = "record" /\ r.late = late /\ r.key = job[j].key
      /\ r.remote = job[j].remote /\ r.made = job[j].made /\ r.count = job[j].count
      /\ r.keys = job[j].keys /\ r.todo = job[j].todo
  BY <1>2, <1>4 DEF JobType
<1> HIDE DEF r
<1>6. JobOK(r)
  BY <1>2, <1>3, <1>4, <1>5 DEF JobOK, Holding
<1>7. Recorded' = Recorded
  BY DEF Recorded
<1>8. Knows(r, Live, Recorded', kept')
  BY <1>2, <1>4, <1>5, <1>7 DEF Knows
<1>9. kept \subseteq kept' /\ kept' \subseteq Places /\ saves' \subseteq Places
  BY <1>3, JobFacts, ConstantsAssumption
<1>10. CoveredIsRecorded' /\ MatchedWasSaved'
  BY <1>7, <1>9 DEF Inv, CoveredIsRecorded, MatchedWasSaved
<1> QED BY <1>1, <1>6, <1>7, <1>8, <1>9, <1>10, JobFacts, JobInv

LEMMA SaveInv ==
  ASSUME Inv, NEW j \in Jobs, CreateSave(j) \/ UpdateSave(j) PROVE Inv'
<1>1. CASE CreateSave(j)
  BY <1>1, SavedInv DEF CreateSave
<1>2. CASE UpdateSave(j)
  BY <1>2, SavedInv DEF UpdateSave
<1> QED BY <1>1, <1>2

\* The job that has recorded an item, with the count it then has.
LEMMA RecordedOK ==
  ASSUME NEW r, JobOK(r), r.pc \in {"record", "review"}, r.late = 0,
         NEW count \in 0..MaxResolves, count = r.made,
         NEW recorded, NEW saved, NEW after, Knows(r, TRUE, recorded, saved),
         recorded \cup {r.key} \subseteq after
  PROVE  /\ JobOK([NextItem(r) EXCEPT !.count = count])
         /\ Knows([NextItem(r) EXCEPT !.count = count], TRUE, after, saved)
<1> DEFINE t == [NextItem(r) EXCEPT !.count = count]
<1>1. r \in JobType
  BY DEF JobOK
<1>2. /\ t \in JobType /\ t.pc = "next" /\ t.made = t.count /\ t.late = 0
      /\ t.keys = r.keys /\ t.todo = r.todo \ {r.key}
  BY <1>1 DEF NextItem, JobType
<1> HIDE DEF t
<1>3. JobOK(t)
  BY <1>2 DEF JobOK, Holding
<1>4. Knows(t, TRUE, after, saved)
  BY <1>2 DEF Knows
<1> QED BY <1>3, <1>4 DEF t

LEMMA RecordMatchedInv == ASSUME Inv, NEW j \in Jobs, RecordMatched(j) PROVE Inv'
<1> DEFINE count == IF job[j].remote THEN job[j].count + 1 ELSE job[j].count
           r == [NextItem(job[j]) EXCEPT !.count = count]
<1>1. /\ job[j].pc = "record" /\ Live /\ job' = [job EXCEPT ![j] = r]
      /\ item' = [item EXCEPT ![job[j].key] = "matched"]
      /\ UNCHANGED <<user, imp, places, faults, saveVars, covered, req>>
  BY DEF RecordMatched
<1>2. /\ JobOK(job[j]) /\ job[j] \in JobType /\ Knows(job[j], TRUE, Recorded, kept)
      /\ job[j].late = 0
  BY <1>1, JobFacts, LiveNotLate
<1>3. count \in 0..MaxResolves /\ count = job[j].made
  BY <1>1, <1>2, ConstantsAssumption DEF JobOK, JobType, Holding, MaxResolves
<1>4. job[j].key \in DOMAIN PlaceOf /\ job[j].key \in Keys /\ PlaceOf[job[j].key] \in kept
  BY <1>1, <1>2, ConstantsAssumption DEF JobOK, Knows
<1>5. /\ item' \in [Keys -> {"none", "matched", "manual_review"}]
      /\ \A k \in Keys : item'[k] = IF k = job[j].key THEN "matched" ELSE item[k]
  BY <1>1, JobFacts
<1>6. Recorded \cup {job[j].key} \subseteq Recorded'
  BY <1>4, <1>5 DEF Recorded
<1> HIDE DEF count
<1>7. JobOK(r) /\ Knows(r, TRUE, Recorded', kept)
  BY <1>1, <1>2, <1>3, <1>6, RecordedOK
<1>8. CoveredIsRecorded'
  BY <1>1, <1>6 DEF Inv, CoveredIsRecorded
<1>9. MatchedWasSaved'
  BY <1>1, <1>4, <1>5 DEF Inv, MatchedWasSaved, HasPlaceId
<1> HIDE DEF r
<1> QED BY <1>1, <1>5, <1>6, <1>7, <1>8, <1>9, JobFacts, JobInv

LEMMA RecordReviewInv == ASSUME Inv, NEW j \in Jobs, RecordReview(j) PROVE Inv'
<1> DEFINE r == [NextItem(job[j]) EXCEPT !.count = job[j].count]
<1>1. /\ job[j].pc = "review" /\ Live /\ job' = [job EXCEPT ![j] = NextItem(job[j])]
      /\ item' = [item EXCEPT ![job[j].key] = "manual_review"]
      /\ UNCHANGED <<user, imp, places, faults, saveVars, covered, req>>
  BY DEF RecordReview
<1>2. /\ JobOK(job[j]) /\ job[j] \in JobType /\ Knows(job[j], TRUE, Recorded, kept)
      /\ job[j].late = 0
  BY <1>1, JobFacts, LiveNotLate
<1>3. job[j].count \in 0..MaxResolves /\ job[j].count = job[j].made /\ job[j].key \in Keys
  BY <1>1, <1>2 DEF JobOK, JobType, Holding
<1>4. /\ item' \in [Keys -> {"none", "matched", "manual_review"}]
      /\ \A k \in Keys : item'[k] = IF k = job[j].key THEN "manual_review" ELSE item[k]
  BY <1>1, JobFacts
<1>5. Recorded \cup {job[j].key} \subseteq Recorded'
  BY <1>3, <1>4 DEF Recorded
<1>6. r = NextItem(job[j])
  BY <1>2 DEF NextItem, JobType
<1>7. JobOK(r) /\ Knows(r, TRUE, Recorded', kept)
  BY <1>1, <1>2, <1>3, <1>5, RecordedOK
<1>8. CoveredIsRecorded' /\ MatchedWasSaved'
  BY <1>1, <1>4, <1>5 DEF Inv, CoveredIsRecorded, MatchedWasSaved
<1> HIDE DEF r
<1> QED BY <1>1, <1>4, <1>5, <1>6, <1>7, <1>8, JobFacts, JobInv

LEMMA FreeKnows == \A recorded, saved : Knows(FreeJob, Live, recorded, saved)
  BY FreeJobOK DEF Knows

LEMMA MarkCompleteInv == ASSUME Inv, NEW j \in Jobs, MarkComplete(j) PROVE Inv'
<1>1. /\ job[j].pc = "next" /\ job[j].todo = {} /\ Live
      /\ job' = [job EXCEPT ![j] = FreeJob] /\ SetStatus("complete")
      /\ covered' = covered \cup job[j].keys
      /\ UNCHANGED <<user, item, places, faults, saveVars, req>>
  BY DEF MarkComplete
<1>2. imp' \in ImportType /\ imp'.state = imp.state
  BY <1>1, SetStatusOK DEF ImportStatuses
<1>3. job[j].keys \subseteq Recorded
  BY <1>1, JobFacts DEF Knows
<1>4. Recorded' = Recorded /\ Recorded \subseteq Keys
  BY <1>1 DEF Recorded
<1>5. CoveredIsRecorded' /\ MatchedWasSaved' /\ covered' \subseteq Keys
  BY <1>1, <1>3, <1>4 DEF Inv, CoveredIsRecorded, MatchedWasSaved
<1> QED BY <1>1, <1>2, <1>4, <1>5, JobFacts, FreeJobOK, FreeKnows, JobInv

LEMMA MarkFailedInv == ASSUME Inv, NEW j \in Jobs, MarkFailed(j) PROVE Inv'
<1>1. /\ job[j].pc = "fail" /\ job' = [job EXCEPT ![j] = FreeJob] /\ SetStatus("failed")
      /\ UNCHANGED <<user, item, places, faults, saveVars, covered, req>>
  BY DEF MarkFailed
<1>2. imp' \in ImportType /\ imp'.state = imp.state
  BY <1>1, SetStatusOK DEF ImportStatuses
<1>3. Recorded' = Recorded
  BY <1>1 DEF Recorded
<1>4. CoveredIsRecorded' /\ MatchedWasSaved'
  BY <1>1, <1>3 DEF Inv, CoveredIsRecorded, MatchedWasSaved
<1> QED BY <1>1, <1>2, <1>3, <1>4, JobFacts, FreeJobOK, FreeKnows, JobInv

\* What throws without a fault while the import is there is the resolving of a
\* place that the run has not found in the database, or a save that collides.
LEMMA JobThrowsInv == ASSUME Inv, NEW j \in Jobs, JobThrows(j) PROVE Inv'
<1> DEFINE r == Catch(job[j])
<1>1. /\ Broken(job[j]) /\ job' = [job EXCEPT ![j] = r]
      /\ UNCHANGED <<user, imp, item, places, faults, saveVars, covered, req>>
  BY DEF JobThrows, Rows
<1>2. JobOK(job[j]) /\ Knows(job[j], Live, Recorded, kept) /\ job[j].pc # "free"
  BY <1>1, JobFacts DEF Broken, DownloadFails, Collides
<1>3. /\ JobOK(r) /\ r.pc \in {"review", "fail", "queued", "free"}
      /\ r.late = 1 => job[j].late = 1
      /\ r.pc = "review" =>
           /\ job[j].pc \in {"resolve", "save", "create", "update", "record"}
           /\ r.keys = job[j].keys /\ r.todo = job[j].todo
           /\ r.known = job[j].known /\ r.hurt = job[j].hurt
           /\ Collides(job[j]) => r.raced
  BY <1>2, CatchOK
<1> HIDE DEF r
<1>4. Live => user
  BY DEF Inv, Fresh
<1>5. r.pc = "review" /\ Live => ~r.known \/ r.raced
  BY <1>1, <1>2, <1>3, <1>4 DEF Broken, DownloadFails, JobOK
<1>6. Knows(r, Live, Recorded, kept)
  BY <1>2, <1>3, <1>5 DEF Knows
<1> QED BY <1>1, <1>2, <1>3, <1>6, JobFacts, JobOnlyInv

LEMMA JobFaultInv == ASSUME Inv, NEW j \in Jobs, JobFault(j) PROVE Inv'
<1> DEFINE h == [job[j] EXCEPT !.hurt = TRUE]
           r == Catch(h)
<1>1. /\ job[j].pc # "free" /\ job' = [job EXCEPT ![j] = r]
      /\ faults < MaxFaults /\ faults' = faults + 1
      /\ UNCHANGED <<user, imp, item, places, saveVars, covered, req>>
  BY DEF JobFault
<1>2. JobOK(job[j]) /\ Knows(job[j], Live, Recorded, kept)
  BY JobFacts
<1>3. /\ JobOK(h) /\ h.pc = job[j].pc /\ h.late = job[j].late /\ h.hurt
      /\ h.keys = job[j].keys /\ h.todo = job[j].todo
  BY <1>2, HurtOK
<1> HIDE DEF h
<1>4. /\ JobOK(r) /\ r.pc \in {"review", "fail", "queued", "free"}
      /\ r.late = 1 => h.late = 1
      /\ r.pc = "review" =>
           /\ h.pc \in {"resolve", "save", "create", "update", "record"}
           /\ r.keys = h.keys /\ r.todo = h.todo /\ r.hurt = h.hurt
  BY <1>1, <1>3, CatchOK
<1> HIDE DEF r
<1>5. Knows(r, Live, Recorded, kept)
  BY <1>2, <1>3, <1>4 DEF Knows
<1>6. faults' \in 0..MaxFaults
  BY <1>1, JobFacts, ConstantsAssumption
<1> QED BY <1>1, <1>4, <1>5, <1>6, JobFacts, JobOnlyInv

LEMMA JobDiesInv == ASSUME Inv, NEW j \in Jobs, JobDies(j) PROVE Inv'
<1> DEFINE r == Reject(job[j])
<1>1. /\ job[j].pc # "free" /\ job' = [job EXCEPT ![j] = r]
      /\ faults < MaxFaults /\ faults' = faults + 1
      /\ UNCHANGED <<user, imp, item, places, saveVars, covered, req>>
  BY DEF JobDies
<1>2. JobOK(job[j]) /\ Knows(job[j], Live, Recorded, kept)
  BY JobFacts
<1>3. JobOK(r) /\ r.pc \in {"queued", "free"} /\ (r.late = 1 => job[j].late = 1)
  BY <1>2, RejectOK
<1> HIDE DEF r
<1>4. Knows(r, Live, Recorded, kept)
  BY <1>2, <1>3 DEF Knows
<1>5. faults' \in 0..MaxFaults
  BY <1>1, JobFacts, ConstantsAssumption
<1> QED BY <1>1, <1>3, <1>4, <1>5, JobFacts, JobOnlyInv

LEMMA JobStepInv == ASSUME Inv, NEW j \in Jobs, JobStep(j) PROVE Inv'
  BY TakeJobInv, DownloadInv, LookupInv, ResolveInv, FindSaveInv, SaveInv, RecordMatchedInv,
     RecordReviewInv, MarkCompleteInv, MarkFailedInv, JobThrowsInv
  DEF JobStep

(***************************************************************************)
(* The rest of the world.                                                   *)
(***************************************************************************)
LEMMA CreateImportInv == ASSUME Inv, CreateImport PROVE Inv'
<1>1. /\ user /\ imp.state = "none" /\ imp' = [imp EXCEPT !.state = "live"]
      /\ UNCHANGED <<user, item, places, req, job, faults, saveVars, covered>>
  BY DEF CreateImport
<1>2. imp' \in ImportType /\ imp'.state = "live"
  BY <1>1 DEF Inv, TypeOK, ImportType
<1>3. TypeOK'
  BY <1>1, <1>2 DEF Inv, TypeOK
<1>4. Fresh' /\ RequestsOK'
  BY <1>1, <1>2 DEF Inv, Fresh, RequestsOK, Live
<1>5. JobsOK'
  BY <1>1 DEF Inv, JobsOK
<1>6. \A j \in Jobs : job[j].pc = "free" /\ job[j].late = 0
  BY <1>1 DEF Inv, Fresh, JobsOK, JobOK
<1>7. JobsKnow'
  BY <1>1, <1>6 DEF JobsKnow, Knows
<1>8. CoveredIsRecorded' /\ MatchedWasSaved'
  BY <1>1 DEF Inv, CoveredIsRecorded, MatchedWasSaved, Recorded
<1> QED BY <1>3, <1>4, <1>5, <1>7, <1>8 DEF Inv

LEMMA ResolveElsewhereInv ==
  ASSUME Inv, NEW p \in Places, ResolveElsewhere(p) PROVE Inv'
<1>1. /\ places' = places \cup {p}
      /\ UNCHANGED <<user, imp, item, req, job, faults, saveVars, covered>>
  BY DEF ResolveElsewhere
<1>2. Live' = Live /\ Recorded' = Recorded
  BY <1>1 DEF Live, Recorded
<1>3. JobsOK' /\ JobsKnow' /\ TypeOK'
  BY <1>1, <1>2, Kept DEF Inv, TypeOK
<1>4. Fresh' /\ RequestsOK' /\ CoveredIsRecorded' /\ MatchedWasSaved'
  BY <1>1, <1>2 DEF Inv, Fresh, RequestsOK, CoveredIsRecorded, MatchedWasSaved
<1> QED BY <1>3, <1>4 DEF Inv

LEMMA ByHandInv ==
  ASSUME Inv, NEW p \in Places, SaveByHand(p) \/ UnsaveByHand(p) PROVE Inv'
<1>1. /\ UNCHANGED <<user, imp, item, places, req, job, faults, kept, covered>>
      /\ saves' \subseteq Places /\ byHand' \in 0..MaxByHand
  BY ConstantsAssumption DEF SaveByHand, UnsaveByHand, Inv, TypeOK
<1>2. Live' = Live /\ Recorded' = Recorded
  BY <1>1 DEF Live, Recorded
<1>3. JobsOK' /\ JobsKnow' /\ TypeOK'
  BY <1>1, <1>2, Kept DEF Inv, TypeOK
<1>4. Fresh' /\ RequestsOK' /\ CoveredIsRecorded' /\ MatchedWasSaved'
  BY <1>1, <1>2 DEF Inv, Fresh, RequestsOK, CoveredIsRecorded, MatchedWasSaved
<1> QED BY <1>3, <1>4 DEF Inv

LEMMA DeleteAccountInv == ASSUME Inv, DeleteAccount PROVE Inv'
<1>1. imp' \in ImportType /\ imp'.state # "live"
  BY DEF DeleteAccount, Inv, TypeOK, ImportType, Live
<1>2. imp'.state = "none" => imp.state = "none"
  BY DEF DeleteAccount, Inv, TypeOK, ImportType, Live
<1>3. ~Live' /\ user' \in BOOLEAN
  BY <1>1 DEF Live, DeleteAccount
<1>4. req' \in [Requests -> RequestType] /\ RequestsOK'
  BY <1>2 DEF DeleteAccount, Inv, TypeOK, RequestsOK
<1>5. kept' \subseteq Places /\ saves' \subseteq Places /\ UNCHANGED byHand
  BY DEF DeleteAccount
<1> QED BY <1>1, <1>2, <1>3, <1>4, <1>5, GoneInv DEF DeleteAccount

LEMMA NextInv == ASSUME Inv, [Next]_vars PROVE Inv'
<1>1. CASE \E q \in Requests : StartRequest(q) \/ RequestStep(q) \/ RequestDies(q)
  BY <1>1, StartRequestInv, RequestStepInv, RequestDiesInv
<1>2. CASE \E j \in Jobs : \/ JobStep(j) \/ JobFault(j) \/ JobDies(j)
                           \/ \E k \in Keys : LookupFault(j, k)
  BY <1>2, JobStepInv, JobFaultInv, JobDiesInv, LookupFaultInv
<1>3. CASE Others
  BY <1>3, CreateImportInv, ResolveElsewhereInv, ByHandInv, DeleteAccountInv DEF Others
<1>4. CASE UNCHANGED vars
  <2>1. Live' = Live /\ Recorded' = Recorded
    BY <1>4 DEF vars, Live, Recorded
  <2>2. JobsOK' /\ JobsKnow'
    BY <1>4, <2>1, Kept DEF vars
  <2> QED BY <1>4, <2>1, <2>2
          DEF vars, Inv, TypeOK, Fresh, RequestsOK, CoveredIsRecorded, MatchedWasSaved
<1> QED BY <1>1, <1>2, <1>3, <1>4 DEF Next

LEMMA InvHolds == Spec => []Inv
  BY InitInv, NextInv, PTL DEF Spec

(***************************************************************************)
(* The theorems.                                                            *)
(***************************************************************************)
\* Rows, requests and jobs are well-formed whatever the interleaving: in
\* particular remoteResolveCount stays within the limit (processSavedCollectionItem).
THEOREM TypeCorrect == Spec => []TypeOK
<1>1. Inv => TypeOK
  BY DEF Inv
<1> QED BY <1>1, InvHolds, PTL

\* However many runs overlap and fail, a completed import has every item of its
\* completed runs on record (markComplete after the loop over the items).
THEOREM CoveredIsRecordedHolds == Spec => []CoveredIsRecorded
<1>1. Inv => CoveredIsRecorded
  BY DEF Inv
<1> QED BY <1>1, InvHolds, PTL

\* A matched item's place was saved for the owner (savePlace before upsertItem).
THEOREM MatchedWasSavedHolds == Spec => []MatchedWasSaved
<1>1. Inv => MatchedWasSaved
  BY DEF Inv
<1> QED BY <1>1, InvHolds, PTL

\* No run resolves and keeps more places than the limit
\* (MAX_REMOTE_PLACE_RESOLVES_PER_IMPORT_RUN).
THEOREM ResolveBudgetHolds == Spec => []ResolveBudget
<1>1. Inv => ResolveBudget
  <2> SUFFICES ASSUME Inv, NEW j \in Jobs PROVE job[j].made <= MaxResolves
    BY DEF ResolveBudget
  <2>1. JobOK(job[j]) /\ job[j].count \in 0..MaxResolves /\ MaxResolves \in Nat
    BY JobFacts, ConstantsAssumption DEF JobType, MaxResolves
  <2> QED BY <2>1 DEF JobOK
<1> QED BY <1>1, InvHolds, PTL

\* A job, with all its retries, saves at most one place after the import was
\* deleted (deleteImport, account deletion).
THEOREM DeletionStopsJobsHolds == Spec => []DeletionStopsJobs
<1>1. Inv => DeletionStopsJobs
  <2> SUFFICES ASSUME Inv, NEW j \in Jobs PROVE job[j].late <= 1
    BY DEF DeletionStopsJobs
  <2> QED BY JobFacts DEF JobOK
<1> QED BY <1>1, InvHolds, PTL

\* Who writes to items.
LEMMA ItemWriters ==
  ASSUME [Next]_vars
  PROVE  \/ UNCHANGED item
         \/ item' = NoItems
         \/ \E j \in Jobs : RecordMatched(j) \/ RecordReview(j)
<1>1. ASSUME NEW q \in Requests, StartRequest(q) PROVE UNCHANGED item
  BY <1>1 DEF StartRequest, StartCallback, StartSync, StartProcess, StartRetry,
              StartIngest, StartDelete, Begin, Rows
<1>2. ASSUME NEW q \in Requests, RequestStep(q) PROVE UNCHANGED item \/ item' = NoItems
  BY <1>2 DEF RequestStep, MarkFetching, CallbackFails, UpdateArchiveState,
              CheckArchive, MarkProcessing, Enqueue, MarkRevoked, DeleteImport,
              RequestThrows, Unchanged, Rows
<1>3. ASSUME NEW q \in Requests, RequestDies(q) PROVE UNCHANGED item
  BY <1>3 DEF RequestDies
<1>4. ASSUME NEW j \in Jobs, JobStep(j)
      PROVE  UNCHANGED item \/ RecordMatched(j) \/ RecordReview(j)
  BY <1>4 DEF JobStep, TakeJob, Download, Lookup, Resolve, FindSave, CreateSave,
              UpdateSave, MarkComplete, MarkFailed, JobThrows, Rows
<1>5. ASSUME NEW j \in Jobs,
             JobFault(j) \/ JobDies(j) \/ \E k \in Keys : LookupFault(j, k)
      PROVE  UNCHANGED item
  BY <1>5 DEF JobFault, JobDies, LookupFault
<1>6. ASSUME Others PROVE UNCHANGED item \/ item' = NoItems
  BY <1>6 DEF Others, CreateImport, ResolveElsewhere, SaveByHand, UnsaveByHand,
              DeleteAccount
<1>7. CASE UNCHANGED vars
  BY <1>7 DEF vars
<1> QED BY <1>1, <1>2, <1>3, <1>4, <1>5, <1>6, <1>7 DEF Next

\* A retry does not undo what earlier runs have matched, although it may reach its
\* limit: getPlaceBySource comes before the limit (processSavedCollectionItem).
THEOREM MatchedStaysHolds == Spec => MatchedStays
<1> DEFINE A == \A k \in Keys :
                  item[k] = "matched" /\ item'[k] = "manual_review" =>
                    \E j \in Jobs : /\ job[j].pc = "review" /\ job[j].key = k
                                    /\ ~job[j].known \/ job[j].hurt \/ job[j].raced
<1>1. ASSUME Inv, [Next]_vars PROVE A
  <2> SUFFICES ASSUME NEW k \in Keys, item[k] = "matched", item'[k] = "manual_review"
               PROVE  \E j \in Jobs : /\ job[j].pc = "review" /\ job[j].key = k
                                      /\ ~job[j].known \/ job[j].hurt \/ job[j].raced
    OBVIOUS
  <2>1. item \in [Keys -> {"none", "matched", "manual_review"}]
    BY <1>1 DEF Inv, TypeOK
  <2>2. item' # NoItems
    BY DEF NoItems
  <2>3. PICK j \in Jobs : RecordMatched(j) \/ RecordReview(j)
    BY <1>1, <2>2, ItemWriters
  <2>4. ~RecordMatched(j)
    BY <2>1 DEF RecordMatched
  <2>5. job[j].pc = "review" /\ job[j].key = k /\ Live
    BY <2>1, <2>3, <2>4 DEF RecordReview
  <2>6. Knows(job[j], Live, Recorded, kept)
    BY <1>1, JobFacts
  <2> QED BY <2>5, <2>6 DEF Knows
<1> HIDE DEF A
<1>2. ASSUME Inv, [Next]_vars PROVE [A]_vars
  BY <1>1, <1>2
<1>3. Spec => [][A]_vars
  BY <1>2, InvHolds, PTL DEF Spec
<1> QED BY <1>3 DEF A, MatchedStays
=============================================================================
