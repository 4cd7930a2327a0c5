------------------------------- MODULE PlanPages -------------------------------
(***************************************************************************)
(* Lists read page by page while their rows change: a plan's messages       *)
(* (listMessages) and the discoverable plans (discover), whose pages        *)
(* continue after a cursor, and the friends' public plans                   *)
(* (listPublicFriendGroupPlans), whose pages continue at an offset          *)
(* (social/plans.service.ts, social/social-groups.service.ts,               *)
(* infrastructure/repositories/plans.repository.ts).                        *)
(*                                                                          *)
(* A row's place in a list is its date and then its id.  Messages go from   *)
(* new to old; here their dates count backwards, so that every list goes up. *)
(***************************************************************************)
EXTENDS Naturals, FiniteSets, Sequences, SequencesExt

CONSTANTS
  Ids,        \* row ids, numbers: ties are broken by id
  Dates,      \* dates of events, times of messages
  Limit,      \* page size
  MaxChanges  \* bound: changes while the list is read

VARIABLES
  kind,     \* which list is read
  now,      \* the time
  row,      \* the rows, by id
  walk,     \* the reader: the cursor (<<>>, or date and id of the last row) or the
            \* offset, how often each row was shown, and, as a history, the rows that
            \* have been listed at one place ever since and whether nothing changed
  changes   \* changes made so far

vars == <<kind, now, row, walk, changes>>

Kinds == {"messages", "discover", "friends"}

\* listed: the row passes the query's filter (a message that is not deleted,
\* a public plan one can join, a plan with a followed member); a plan's
\* events by status, a message's time.
RowType == [listed : BOOLEAN, confirmed : SUBSET Dates, proposed : SUBSET Dates]

Never == 1 + CHOOSE d \in Dates : \A e \in Dates : e <= d

(***************************************************************************)
(* The place of a row.                                                      *)
(***************************************************************************)
MinOr(S, none) == IF S = {} THEN none ELSE CHOOSE d \in S : \A e \in S : d <= e

\* pickNextEventForPublicFriendList: a confirmed event before a proposed one
FriendDate(r, t) ==
  MinOr({d \in r.confirmed : d >= t}, MinOr({d \in r.proposed : d >= t}, Never))

\* discover: the first event the query found (events[0])
DiscoverDate(r, t) == MinOr({d \in r.confirmed \cup r.proposed : d >= t}, Never)

DateOf(k, r, t) ==
  CASE k = "messages" -> MinOr(r.proposed, Never)
    [] k = "discover" -> DiscoverDate(r, t)
    [] k = "friends"  -> FriendDate(r, t)

\* A plan without an upcoming event ends the friends' list, and is not discovered.
Found(k, r, t) == r.listed /\ (k = "friends" \/ DateOf(k, r, t) # Never)

\* Mutant of Before: ties are left as they come.
BeforeByDate(a, b) == a[1] < b[1]

\* comparePlanCursor, the order and the cursor of listMessages, the
\* comparison of listPublicFriendGroupPlans
Before(a, b) == a[1] < b[1] \/ (a[1] = b[1] /\ a[2] < b[2])

Place(i) == <<DateOf(kind, row[i], now), i>>
Rows == {i \in Ids : Found(kind, row[i], now)}

\* The database returns the rows in any order; they are then sorted.
Sorted(S) ==
  {q \in SetToSeqs(S) : \A i, j \in DOMAIN q : i < j => ~Before(Place(q[j]), Place(q[i]))}

Init ==
  /\ kind \in Kinds
  /\ now = 0
  /\ row \in [Ids -> {r \in RowType :
                /\ Cardinality(r.confirmed) <= 1 /\ Cardinality(r.proposed) <= 1
                /\ kind = "messages" => r.confirmed = {} /\ r.proposed # {}
                /\ kind = "discover" => r.proposed = {}}]
  /\ walk = [pc |-> "reading", after |-> <<>>, offset |-> 0,
             shown |-> [i \in Ids |-> 0], kept |-> Rows, steady |-> TRUE]
  /\ changes = 0

(***************************************************************************)
(* One page.                                                                *)
(***************************************************************************)
\* slice(offset, offset + limit)
Slice(q, offset) ==
  SubSeq(q, offset + 1, IF offset + Limit < Len(q) THEN offset + Limit ELSE Len(q))

Show(w, page) == [i \in Ids |-> w.shown[i] + Cardinality({n \in DOMAIN page : page[n] = i})]

\* discover, listMessages: what comes after the cursor, one row more than
\* shown tells that there is another page.
CursorPage ==
  LET rest == {i \in Rows : walk.after = <<>> \/ Before(walk.after, Place(i))} IN
  \E q \in Sorted(rest) :
    LET page == Slice(q, 0)
        more == Len(q) > Limit IN
    walk' = [walk EXCEPT !.shown = Show(walk, page),
                         !.after = IF more THEN Place(page[Len(page)]) ELSE <<>>,
                         !.pc = IF more THEN "reading" ELSE "done"]

\* listPublicFriendGroupPlans: the reader goes on while offset < total.
OffsetPage ==
  \E q \in Sorted(Rows) :
    walk' = [walk EXCEPT !.shown = Show(walk, Slice(q, walk.offset)),
                         !.offset = walk.offset + Limit,
                         !.pc = IF walk.offset + Limit < Len(q) THEN "reading" ELSE "done"]

ReadPage ==
  /\ walk.pc = "reading"
  /\ IF kind = "friends" THEN OffsetPage ELSE CursorPage
  /\ UNCHANGED <<kind, now, row, changes>>

(***************************************************************************)
(* The rows change under the reader.                                        *)
(***************************************************************************)
\* The rows of new that are where they were.
Remember(new, t) ==
  [walk EXCEPT !.steady = FALSE,
     !.kept = {i \in walk.kept : Found(kind, new[i], t)
                 /\ DateOf(kind, new[i], t) = DateOf(kind, row[i], now)}]

Change(new, t) ==
  /\ changes < MaxChanges /\ walk.pc = "reading"
  /\ kind # "friends" \/ walk.steady  \* bound: nothing is said of offsets afterwards
  /\ row' = new /\ now' = t
  /\ changes' = changes + 1
  /\ walk' = Remember(new, t)
  /\ UNCHANGED kind

\* deleteMessage; a plan made private or invite-only, or its last followed
\* member leaves
Unlist(i) == row[i].listed /\ Change([row EXCEPT ![i].listed = FALSE], now)

\* sendMessage; createPlan; a plan made public, a followed user joins
List(i) == ~row[i].listed /\ Change([row EXCEPT ![i].listed = TRUE], now)

\* updatePlan: the plan's next event gets another date.
MoveEvent(i, from, to) ==
  /\ kind # "messages" /\ from # to /\ from \in row[i].confirmed
  /\ Change([row EXCEPT ![i].confirmed = (row[i].confirmed \ {from}) \cup {to}], now)

\* Time passes, and events with it.
Tick == now < Never /\ Change(row, now + 1)

Next ==
  \/ ReadPage \/ Tick
  \/ \E i \in Ids : Unlist(i) \/ List(i)
  \/ \E i \in Ids, from, to \in Dates : MoveEvent(i, from, to)

Spec == Init /\ [][Next]_vars

(***************************************************************************)
(* Properties.                                                              *)
(***************************************************************************)
\* Reading page by page shows every row that kept its place exactly once,
\* whatever is written, deleted or moved between two pages, dates that tie
\* included.  Pages at an offset promise this only while nothing changes at
\* all, and then only because the order is total
\* (listMessages, discover, listPublicFriendGroupPlans).
KeptShownOnce ==
  kind # "friends" \/ walk.steady =>
    \A i \in walk.kept :
      /\ walk.shown[i] <= 1
      /\ walk.pc = "done" => walk.shown[i] = 1
================================================================================
