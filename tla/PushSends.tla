------------------------------ MODULE PushSends ------------------------------
(***************************************************************************)
(* How often a delivery is really sent, beside what its attemptCount says.  *)
(* The variables are history: dispatchPending() keeps no such count.        *)
(***************************************************************************)
EXTENDS PushDispatch

CONSTANT Watched   \* the deliveries whose sends are counted

ASSUME WatchedAssumption == Watched \subseteq Deliveries

VARIABLES
  posts,   \* how many times each delivery was in a batch posted to Expo
  extra,   \* of these, how many an overlap or a lost call accounts for
  over     \* what each call took up while another call held it

sendVars == <<vars, posts, extra, over>>

\* Call w has delivery d among the ones it will post, or in its batch.
Holds(w, d) == d \in run[w].rest \cup run[w].batch

SendsType ==
  /\ posts \in [Watched -> Nat]
  /\ extra \in [Watched -> Nat]
  /\ over \in [Workers -> SUBSET Watched]

SendsInit ==
  /\ Init
  /\ posts = [d \in Watched |-> 0]
  /\ extra = [d \in Watched |-> 0]
  /\ over = [w \in Workers |-> {}]

\* The deliveries call w posts in this step.
Posted(w) == run'[w].batch \ run[w].batch

\* The call ends in this step and leaves these posted but not written.
Abandoned(w) ==
  IF /\ run[w].pc # "idle" /\ run'[w].pc = "idle"
     /\ RunDies(w) \/ \E d \in run[w].todo : RollBackThrows(w, d)
  THEN run[w].todo ELSE {}

\* What call w held up to this step, or takes up in it, and another call holds.
Overlapped(w) ==
  IF run'[w].pc = "idle" THEN {}
  ELSE IF run[w].pc = "idle"
    THEN {d \in run'[w].rest \cap Watched : \E v \in Workers \ {w} : Holds(v, d)}
    ELSE over[w]

\* A send is extra when its call overlaps, or ends before the send is written.
Extra(w) == (Posted(w) \cap over[w]) \cup (Abandoned(w) \ over[w])

Counts ==
  /\ posts' = [d \in Watched |->
       IF d \in UNION {Posted(w) : w \in Workers} THEN posts[d] + 1 ELSE posts[d]]
  /\ extra' = [d \in Watched |->
       IF d \in UNION {Extra(w) : w \in Workers} THEN extra[d] + 1 ELSE extra[d]]
  /\ over' = [w \in Workers |-> Overlapped(w)]

SendsNext == Next /\ Counts

SendsSpec == SendsInit /\ [][SendsNext]_sendVars

\* MAX_SEND_ATTEMPTS bounds the sends of a delivery, but for two cases: a call
\* that took the delivery up while another call held it sends it once more, and a
\* call that ends between its post and the write of attemptCount has sent it
\* unrecorded (dispatchPending reads attemptCount at line 166, claims nothing, and
\* writes what it read plus one at lines 280 and 330).  Each of them costs one
\* send at most, however stale the counts are that are written back after it; a
\* delivery whose calls neither overlap nor get lost is sent MAX_SEND_ATTEMPTS
\* times at most.
RetryBudget == \A d \in Watched : posts[d] <= MAX_SEND_ATTEMPTS + extra[d]

(***************************************************************************)
(* Why it holds.  The call that took a delivery up when nobody held it is   *)
(* its first holder; there is one at a time.  The sends that are not extra  *)
(* are counted by the row, by every snapshot that may be written over it,   *)
(* and, between a first holder's post and its write, one more.              *)
(***************************************************************************)
FirstHolder(w, d) == Holds(w, d) /\ d \notin over[w]

\* Posted by call r, and its row not yet written.
Unwritten(r, d) ==
  /\ d \in r.todo
  /\ ~(r.pc = "disable" /\ IsNext(d, r.todo))

Due(d) == \E w \in Workers : FirstHolder(w, d) /\ d \in run[w].rest

CountedOnce(d) ==
  LET counted == posts[d] - extra[d]
  IN  /\ \A v, w \in Workers : FirstHolder(v, d) /\ FirstHolder(w, d) => v = w
      /\ row[d].status = "none" => row[d].attempts = 0
      /\ \A w \in Workers : Holds(w, d) =>
           counted <= run[w].seen[d] + IF Due(d) THEN 0 ELSE 1
      /\ \/ counted <= row[d].attempts
         \/ /\ ~Due(d)
            /\ counted <= row[d].attempts + 1
            /\ \E w \in Workers : FirstHolder(w, d) /\ Unwritten(run[w], d)

SendsInv == SendsType /\ \A d \in Watched : CountedOnce(d)
=============================================================================
