-------------------------------- MODULE Guides --------------------------------
(***************************************************************************)
(* One guide (a "diary") and its places: creating it, editing it, adding    *)
(* places (social/social-diaries.service.ts, social/social.helpers.ts,      *)
(* infrastructure/repositories/social/social-diaries.repository.ts).        *)
(*                                                                          *)
(* An edit reads the guide, computes the date of publication from what it   *)
(* read and from the request, and writes it back with whatever else the     *)
(* request holds; a place is appended after the highest position read.      *)
(***************************************************************************)
EXTENDS Integers, FiniteSets

CONSTANTS
  Places,    \* place ids
  Calls,     \* slots for concurrent requests
  NoPlace,   \* no place
  MaxEdits,  \* bound: edits
  MaxMoves   \* bound: places added at a position asked for

VARIABLES
  guide,       \* the diary row
  position,    \* the diaryPlace rows: the position by place, Absent without a row
  call,        \* the requests
  edits,       \* edits asked so far, then places moved
  overlapped,  \* history: two edits have been under way at once
  inOrder,     \* history: <<p, q>>: p was in the guide when the adding of q began
  moved        \* history: places given a position, or added twice at once

vars == <<guide, position, call, edits, overlapped, inOrder, moved>>
history == <<overlapped, inOrder, moved>>

Visibility == {"private", "unlisted", "public"}
Absent == -1

\* The visibility a request sets, if it does.
Asked == Visibility \cup {"same"}

IdleCall == [pc |-> "idle", asked |-> "same", was |-> FALSE, is |-> FALSE, date |-> FALSE,
             place |-> NoPlace, at |-> Absent, next |-> Absent,
             earlier |-> {}, live |-> {}]

Init ==
  /\ guide = [exists |-> FALSE, visibility |-> "private", published |-> FALSE]
  /\ position = [p \in Places |-> Absent]
  /\ call = [c \in Calls |-> IdleCall]
  /\ edits = 0
  /\ overlapped = FALSE /\ inOrder = {} /\ moved = {}

(***************************************************************************)
(* Helpers.                                                                 *)
(***************************************************************************)
\* The guide is public and has a date: it is announced and listed.
Live(visibility, published) == visibility = "public" /\ published

\* resolveDiaryPublishedAt
DateOnCreate(asked, dated) == dated \/ asked \notin {"same", "private"}

NextVisibility(g, asked) == IF asked = "same" THEN g.visibility ELSE asked

\* resolveDiaryPublishedAtOnUpdate: a private guide has no date, any other
\* gets the one asked for, or keeps its own, or gets today's.
DateOnUpdate(g, asked) == NextVisibility(g, asked) # "private"

Go(c, new) == [call EXCEPT ![c] = new]

\* Every edit under way witnesses whether the guide is live now.
Witness(calls, live) ==
  [c \in Calls |-> IF calls[c].live = {} THEN calls[c]
                   ELSE [calls[c] EXCEPT !.live = calls[c].live \cup {live}]]

Editing == {c \in Calls : call[c].pc = "edit"}

(***************************************************************************)
(* createDiary, updateDiary                                                 *)
(***************************************************************************)
CreateDiary(c, asked, dated) ==
  LET visibility == IF asked = "same" THEN "private" ELSE asked
      date == DateOnCreate(asked, dated)
      live == Live(visibility, date) IN
  /\ call[c].pc = "idle" /\ ~guide.exists
  /\ guide' = [exists |-> TRUE, visibility |-> visibility, published |-> date]
  /\ call' = Go(c, IF live THEN [IdleCall EXCEPT !.pc = "publish", !.live = {FALSE, TRUE}]
                           ELSE IdleCall)
  /\ UNCHANGED <<position, edits, history>>

\* updateDiary up to the write: the guide is read, and what to write decided.
UpdateDiary(c, asked) ==
  LET date == DateOnUpdate(guide, asked) IN
  /\ call[c].pc = "idle" /\ guide.exists /\ edits < MaxEdits
  /\ edits' = edits + 1
  /\ call' = Go(c, [IdleCall EXCEPT !.pc = "edit", !.asked = asked, !.date = date,
       !.was = Live(guide.visibility, guide.published),
       !.is = Live(NextVisibility(guide, asked), date),
       !.live = {Live(guide.visibility, guide.published)}])
  /\ overlapped' = (overlapped \/ Editing # {})
  /\ UNCHANGED <<guide, position, inOrder, moved>>

\* Mutant of PatchDiary: the news does not depend on what was read.
PatchAndAlwaysTell(c) ==
  LET k == call[c]
      visibility == NextVisibility(guide, k.asked) IN
  /\ k.pc = "edit"
  /\ guide' = [guide EXCEPT !.visibility = visibility, !.published = k.date]
  /\ call' = Witness(Go(c, IF k.is THEN [IdleCall EXCEPT !.pc = "publish", !.live = k.live] ELSE IdleCall),
                     Live(visibility, k.date))
  /\ UNCHANGED <<position, edits, history>>

\* patchDiary: the date is always written, the visibility only if asked for.
PatchDiary(c) ==
  LET k == call[c]
      visibility == NextVisibility(guide, k.asked) IN
  /\ k.pc = "edit"
  /\ guide' = [guide EXCEPT !.visibility = visibility, !.published = k.date]
  /\ call' = Witness(Go(c, IF ~k.was /\ k.is THEN [IdleCall EXCEPT !.pc = "publish", !.live = k.live] ELSE IdleCall),
                     Live(visibility, k.date))
  /\ UNCHANGED <<position, edits, history>>

\* The followers are read and told of the publication.
Publish(c) ==
  /\ call[c].pc = "publish"
  /\ call' = Go(c, [call[c] EXCEPT !.pc = "told"])
  /\ UNCHANGED <<guide, position, edits, history>>

(***************************************************************************)
(* addPlaceToDiary: the row is looked for, then the highest position, then  *)
(* the row is upserted.  The transaction locks nothing it reads.            *)
(***************************************************************************)
\* at: the position asked for, or Absent.
AddPlace(c, p, at) ==
  LET adding == {call[d].place : d \in Calls} IN
  /\ call[c].pc = "idle" /\ guide.exists
  /\ at # Absent => edits < MaxMoves
  /\ edits' = edits + (IF at = Absent THEN 0 ELSE 1)
  /\ call' = Go(c, [IdleCall EXCEPT !.pc = "find", !.place = p, !.at = at,
       !.earlier = {q \in Places \ adding : position[q] # Absent}])
  /\ moved' = IF at = Absent /\ p \notin adding THEN moved ELSE moved \cup {p}
  /\ UNCHANGED <<guide, position, overlapped, inOrder>>

FindPlace(c) ==
  LET k == call[c]
      found == IF k.at # Absent THEN k.at ELSE position[k.place] IN
  /\ k.pc = "find"
  /\ call' = Go(c, [k EXCEPT !.next = found,
                             !.pc = IF found = Absent THEN "max" ELSE "upsert"])
  /\ UNCHANGED <<guide, position, edits, history>>

\* Mutant of NextPosition: _max ?? 0
HighestPosition ==
  CHOOSE m \in {0} \cup {position[p] : p \in Places} : \A p \in Places : position[p] <= m

\* (aggregate _max ?? -1) + 1
NextPosition ==
  1 + CHOOSE m \in {Absent} \cup {position[p] : p \in Places} :
        \A p \in Places : position[p] <= m

AggregateMax(c) ==
  /\ call[c].pc = "max"
  /\ call' = Go(c, [call[c] EXCEPT !.next = NextPosition, !.pc = "upsert"])
  /\ UNCHANGED <<guide, position, edits, history>>

UpsertPlace(c) ==
  LET k == call[c] IN
  /\ k.pc = "upsert"
  /\ inOrder' = IF position[k.place] # Absent THEN inOrder
                ELSE inOrder \cup ((k.earlier \ {k.place}) \X {k.place})
  /\ position' = [position EXCEPT ![k.place] = k.next]
  /\ call' = Go(c, IdleCall)
  /\ UNCHANGED <<guide, edits, overlapped, moved>>

\* The answer; or a statement throws, and what is written stays.
End(c) ==
  /\ call[c].pc # "idle"
  /\ call' = Go(c, IdleCall)
  /\ UNCHANGED <<guide, position, edits, history>>

EditNext ==
  \E c \in Calls :
    \/ \E a \in Asked :
         UpdateDiary(c, a) \/ \E dated \in BOOLEAN : CreateDiary(c, a, dated)
    \/ PatchDiary(c) \/ Publish(c) \/ End(c)

PlaceNext ==
  \E c \in Calls :
    \/ CreateDiary(c, "same", FALSE)
    \/ \E p \in Places, at \in {Absent, 2} : AddPlace(c, p, at)
    \/ FindPlace(c) \/ AggregateMax(c) \/ UpsertPlace(c) \/ End(c)

Next == EditNext \/ PlaceNext

Spec == Init /\ [][Next]_vars

(***************************************************************************)
(* Properties.                                                              *)
(***************************************************************************)
\* Followers are told that a guide is published only by a call during which
\* it was not public, and, unless two edits overlapped, during which it then
\* was (createDiary, updateDiary: wasPublicLive, isPublicLive).
PublicationIsNews ==
  \A c \in Calls : call[c].pc = "told" =>
    FALSE \in call[c].live /\ (overlapped \/ TRUE \in call[c].live)

\* A place whose adding began when another one was settled in the guide comes
\* after it, whatever else is added, re-added or moved at the same time, as
\* long as neither of the two is given a position, or added by two calls at once
\* (addPlaceToDiary; the guide is read by position).
AppendedInOrder ==
  \A pq \in inOrder :
    pq[1] \notin moved /\ pq[2] \notin moved => position[pq[1]] < position[pq[2]]
================================================================================
