----------------------------- MODULE Automations -----------------------------
(***************************************************************************)
(* The reminders, digests and recommendations that cron asks for            *)
(* (social/notifications-automation.service.ts), published through          *)
(* NotificationsService.publish under a dedupe key.                         *)
(*                                                                          *)
(* Time is counted in minutes since a Sunday at 00:00 UTC, days of 1440.    *)
(* A run is one call of POST /internal/notifications/automations; the       *)
(* users' local times are computed once, when it starts, and every query    *)
(* and every publish after that is a step.  Runs may overlap.               *)
(***************************************************************************)
EXTENDS Integers, FiniteSets

CONSTANTS
  Users,      \* the users of one group
  Events,     \* its events
  Dates,      \* the days an event may be moved to
  StatusOf,   \* the status of an event, fixed when it is created
  InvitedAt,  \* when each member's row was created
  Prefs,      \* the users' outing slots
  Zones,      \* offsets from UTC in minutes
  Runs,       \* slots for overlapping runs
  Step,       \* the clock moves in steps; cron runs at least once in each
  RunLength,  \* bound on how long a run lasts
  Start,      \* the first instant
  End,        \* the last instant
  MaxChanges, \* bound on what members change
  MaxFaults,  \* bound on failing runs
  None        \* no zone, no event, no key

Slots == {"weekday_morning", "weekday_afternoon", "weekday_evening",
          "weekend_day", "weekend_night"}

Phases == <<"invite", "rsvp", "today", "digest", "contextual">>

ASSUME ConstantsAssumption ==
  /\ Dates \subseteq Nat
  /\ StatusOf \in [Events -> {"proposed", "confirmed", "announcement"}]
  /\ InvitedAt \in [Users -> Int]
  /\ Prefs \in [Users -> SUBSET Slots]
  /\ Zones \subseteq -720 .. 840
  /\ Step \in Nat \ {0} /\ RunLength \in Nat /\ Start \in Nat /\ End \in Nat
  /\ MaxChanges \in Nat /\ MaxFaults \in Nat
  /\ None \notin Users /\ None \notin Events /\ None \notin Zones

VARIABLES
  now,      \* the clock
  ran,      \* whether cron has run since the clock moved
  zone,     \* the time zone of a user's latest active installation, or None
  db,       \* the members of the group, its events' dates, the answers to them
  run,      \* the runs
  rows,     \* the notification rows: a dedupe key, numbered per key
  steady,   \* history: reminders that have been wanted since they became due
  changes,  \* the changes members made so far
  faults    \* the runs that failed so far

vars == <<now, ran, zone, db, run, rows, steady, changes, faults>>

(***************************************************************************)
(* Dates.                                                                   *)
(***************************************************************************)
Day(t)         == t \div 1440
LocalDay(t, z) == (t + z) \div 1440
LocalMinute(t, z) == (t + z) % 1440
Weekday(d)     == d % 7

At(hour, minute) == hour * 60 + minute

\* Mutant of IsDueAtLocalTime: a window of half an hour.
IsDueForHalfAnHour(m, target) == target <= m /\ m < target + 30

IsDueAtLocalTime(m, target) == target <= m /\ m < target + 60

(***************************************************************************)
(* Dedupe keys: what the notification is, for whom, about what on which day *)
(***************************************************************************)
Key(kind, u, about, day) == [kind |-> kind, user |-> u, about |-> about, day |-> day]

(***************************************************************************)
(* runInviteReminders: invitations that are a day old.                      *)
(***************************************************************************)
InviteKeys(d, t) ==
  {Key("invite", u, None, 0) :
     u \in {v \in Users : d.member[v] = "pending" /\ InvitedAt[v] <= t - 1440}}

(***************************************************************************)
(* runRsvpReminders: at 18:00 of the day before, to members who have not    *)
(* answered.  z is each user's zone as the run read it.                     *)
(***************************************************************************)
\* Mutant of RsvpWindow: tomorrow's events, by the date in UTC.
RsvpTomorrow(date, t) == date = Day(t) + 1

RsvpWindow(date, t) == Day(t) - 1 <= date /\ date < Day(t) + 3

RsvpDue(date, t, z) ==
  /\ z # None
  /\ LocalDay(t, z) = date - 1
  /\ IsDueAtLocalTime(LocalMinute(t, z), At(18, 0))

RsvpWanted(d, e, u) ==
  /\ StatusOf[e] \in {"proposed", "confirmed"}
  /\ d.member[u] = "accepted"
  /\ d.answer[e, u] = "none"

\* Mutant of RsvpKeys: whoever has not declined is asked again.
RsvpKeysUndeclined(d, t, z) ==
  {Key("rsvp", p[2], p[1], d.date[p[1]]) :
     p \in {q \in Events \X Users :
              /\ StatusOf[q[1]] \in {"proposed", "confirmed"}
              /\ d.member[q[2]] = "accepted" /\ d.answer[q] # "declined"
              /\ RsvpWindow(d.date[q[1]], t) /\ RsvpDue(d.date[q[1]], t, z[q[2]])}}

RsvpKeys(d, t, z) ==
  {Key("rsvp", p[2], p[1], d.date[p[1]]) :
     p \in {q \in Events \X Users :
              /\ RsvpWanted(d, q[1], q[2])
              /\ RsvpWindow(d.date[q[1]], t) /\ RsvpDue(d.date[q[1]], t, z[q[2]])}}

(***************************************************************************)
(* runTodayReminders: at 09:00, to members who have not declined.           *)
(***************************************************************************)
TodayWindow(date, t) == Day(t) - 1 <= date /\ date < Day(t) + 2

TodayDue(date, t, z) ==
  /\ z # None
  /\ LocalDay(t, z) = date
  /\ IsDueAtLocalTime(LocalMinute(t, z), At(9, 0))

TodayWanted(d, e, u) ==
  /\ StatusOf[e] = "confirmed"
  /\ d.member[u] = "accepted"
  /\ d.answer[e, u] # "declined"

TodayKeys(d, t, z) ==
  {Key("today", p[2], p[1], d.date[p[1]]) :
     p \in {q \in Events \X Users :
              /\ TodayWanted(d, q[1], q[2])
              /\ TodayWindow(d.date[q[1]], t) /\ TodayDue(d.date[q[1]], t, z[q[2]])}}

(***************************************************************************)
(* runWeeklyDigests and runContextualRecommendations go through the users   *)
(* the run started with.                                                    *)
(***************************************************************************)
DigestDue(t, z) ==
  /\ z # None
  /\ Weekday(LocalDay(t, z)) = 0
  /\ IsDueAtLocalTime(LocalMinute(t, z), At(18, 0))

DigestKeys(t, z) ==
  {Key("digest", u, None, LocalDay(t, z[u])) : u \in {v \in Users : DigestDue(t, z[v])}}

\* CONTEXTUAL_SCHEDULES
Target == [weekday_morning   |-> At(7, 30),  weekday_afternoon |-> At(11, 0),
           weekday_evening   |-> At(16, 30), weekend_day       |-> At(9, 0),
           weekend_night     |-> At(17, 0)]

Weekdays == [weekday_morning   |-> 1 .. 5, weekday_afternoon |-> 1 .. 5,
             weekday_evening   |-> 1 .. 5, weekend_day       |-> {0, 6},
             weekend_night     |-> {5, 6}]

\* pickDueContextualSlot: the latest of the configured slots that are due.
DueSlots(u, t, z) ==
  {s \in Prefs[u] : /\ z # None
                    /\ Weekday(LocalDay(t, z)) \in Weekdays[s]
                    /\ IsDueAtLocalTime(LocalMinute(t, z), Target[s])}

PickDueContextualSlot(u, t, z) ==
  {s \in DueSlots(u, t, z) : \A o \in DueSlots(u, t, z) : Target[o] <= Target[s]}

ContextualKeys(t, z) ==
  UNION {{Key("contextual", u, s, LocalDay(t, z[u])) :
            s \in PickDueContextualSlot(u, t, z[u])} : u \in Users}

(***************************************************************************)
(* State.                                                                   *)
(***************************************************************************)
Sent == {n.key : n \in rows}

Row(k) == [key |-> k, nr |-> Cardinality({n \in rows : n.key = k})]

IdleRun == [pc |-> "idle", phase |-> 0, now |-> 0, zone |-> [u \in Users |-> None],
            todo |-> {}, cur |-> None, seen |-> {}]

KeyType == [kind  : {"invite", "rsvp", "today", "digest", "contextual"},
            user  : Users,
            about : Events \cup Slots \cup {None},
            day   : Int]

RunType == [pc    : {"idle", "publish", "insert"},
            phase : 0 .. 5,
            now   : Nat,
            zone  : [Users -> Zones \cup {None}],
            todo  : SUBSET KeyType,
            cur   : KeyType \cup {None},
            seen  : SUBSET KeyType]   \* history: see ReminderWasDue

DbType == [member : [Users -> {"pending", "accepted", "left"}],
           date   : [Events -> Dates],
           answer : [Events \X Users -> {"none", "going", "maybe", "declined"}]]

TypeOK ==
  /\ now \in Nat
  /\ ran \in BOOLEAN
  /\ zone \in [Users -> Zones \cup {None}]
  /\ db \in DbType
  /\ run \in [Runs -> RunType]
  /\ rows \subseteq [key : KeyType, nr : Nat]
  /\ steady \subseteq KeyType
  /\ changes \in Nat
  /\ faults \in Nat

\* The reference for the queries above: which reminders the members' own state
\* asks for, and of those the ones that are due at t.
EventKeys(d) ==
  {k \in {Key(kind, p[2], p[1], d.date[p[1]]) :
            kind \in {"rsvp", "today"}, p \in Events \X Users} :
     IF k.kind = "rsvp" THEN RsvpWanted(d, k.about, k.user)
                        ELSE TodayWanted(d, k.about, k.user)}

DueKeys(d, t, z) ==
  {k \in EventKeys(d) : IF k.kind = "rsvp" THEN RsvpDue(k.day, t, z[k.user])
                                           ELSE TodayDue(k.day, t, z[k.user])}

\* The moment a reminder about an event becomes due.
OpensAt(k, z) ==
  IF k.kind = "rsvp" THEN 1440 * (k.day - 1) + At(18, 0) - z
                     ELSE 1440 * k.day + At(9, 0) - z

Opening(t) ==
  {k \in EventKeys(db) : zone[k.user] # None /\ OpensAt(k, zone[k.user]) = t}

Init ==
  /\ now = Start
  /\ ran = FALSE
  /\ zone \in [Users -> Zones \cup {None}]
  /\ db \in [member : [Users -> {"pending", "accepted"}],
             date   : [Events -> Dates],
             answer : {[p \in Events \X Users |-> "none"]}]
  /\ run = [r \in Runs |-> IdleRun]
  /\ rows = {}
  /\ steady = Opening(Start)
  /\ changes = 0
  /\ faults = 0

(***************************************************************************)
(* A run.                                                                   *)
(***************************************************************************)
\* runDueAutomations: listUsersWithLatestTimezone and the local times.
StartRun(r) ==
  /\ run[r].pc = "idle"
  /\ run' = [run EXCEPT ![r] = [IdleRun EXCEPT !.pc = "publish", !.now = now, !.zone = zone,
                                               !.seen = DueKeys(db, now, zone)]]
  /\ ran' = TRUE
  /\ UNCHANGED <<now, zone, db, rows, steady, changes, faults>>

KeysOf(phase, d, t, z) ==
  CASE phase = "invite"     -> InviteKeys(d, t)
    [] phase = "rsvp"       -> RsvpKeys(d, t, z)
    [] phase = "today"      -> TodayKeys(d, t, z)
    [] phase = "digest"     -> DigestKeys(t, z)
    [] phase = "contextual" -> ContextualKeys(t, z)

\* The next phase begins with its query; after the last one the run is over.
NextPhase(r) ==
  /\ run[r].pc = "publish" /\ run[r].todo = {}
  /\ run' = [run EXCEPT ![r] =
       IF run[r].phase = 5 THEN IdleRun
       ELSE [run[r] EXCEPT !.phase = run[r].phase + 1,
                           !.todo = KeysOf(Phases[run[r].phase + 1], db,
                                           run[r].now, run[r].zone)]]
  /\ UNCHANGED <<now, ran, zone, db, rows, steady, changes, faults>>

\* publish, first statement: a key that has its notification is skipped.
CheckExisting(r, k) ==
  /\ run[r].pc = "publish" /\ k \in run[r].todo
  /\ run' = [run EXCEPT ![r] =
       IF k \in Sent THEN [run[r] EXCEPT !.todo = run[r].todo \ {k}]
       ELSE [run[r] EXCEPT !.todo = run[r].todo \ {k}, !.pc = "insert", !.cur = k]]
  /\ UNCHANGED <<now, ran, zone, db, rows, steady, changes, faults>>

\* Mutant of Insert: dedupeKey is not unique.
InsertAnyway(r) ==
  /\ run[r].pc = "insert"
  /\ rows' = rows \cup {Row(run[r].cur)}
  /\ run' = [run EXCEPT ![r] = [run[r] EXCEPT !.pc = "publish", !.cur = None]]
  /\ UNCHANGED <<now, ran, zone, db, steady, changes, faults>>

\* publish, second statement: the unique key rejects a second notification; the
\* error is swallowed and the transaction, which did nothing else, rolled back.
Insert(r) ==
  /\ run[r].pc = "insert"
  /\ rows' = IF run[r].cur \in Sent THEN rows
             ELSE rows \cup {Row(run[r].cur)}
  /\ run' = [run EXCEPT ![r] = [run[r] EXCEPT !.pc = "publish", !.cur = None]]
  /\ UNCHANGED <<now, ran, zone, db, steady, changes, faults>>

\* A digest without visits, guides or a weekly guide, and a recommendation
\* without coordinates or without a new place, are not published.
NothingToSay(r, k) ==
  /\ run[r].pc = "publish" /\ k \in run[r].todo
  /\ k.kind \in {"digest", "contextual"}
  /\ run' = [run EXCEPT ![r] = [run[r] EXCEPT !.todo = run[r].todo \ {k}]]
  /\ UNCHANGED <<now, ran, zone, db, rows, steady, changes, faults>>

\* A query or a publish throws, or the process dies: the run is over, for every
\* user.  Only a failing recommendation is caught: the next user's turn comes.
RunFails(r) ==
  /\ run[r].pc # "idle"
  /\ faults < MaxFaults
  /\ faults' = faults + 1
  /\ run' = [run EXCEPT ![r] = IF run[r].phase = 5 /\ run[r].pc = "insert"
                                 THEN [run[r] EXCEPT !.pc = "publish", !.cur = None]
                                 ELSE IdleRun]
  /\ UNCHANGED <<now, ran, zone, db, rows, steady, changes>>

(***************************************************************************)
(* Members and the clock.                                                   *)
(***************************************************************************)
\* What members do: answer, leave or accept, move to another zone, drop or
\* register their device.
MembersDo(zone2, db2) ==
  /\ changes < MaxChanges
  /\ changes' = changes + 1
  /\ zone' = zone2 /\ db' = db2
  /\ steady' = {k \in steady : k \in Sent \/ (k \in EventKeys(db2) /\ zone2[k.user] = zone[k.user])}
  /\ run' = [r \in Runs |->
       IF run[r].pc = "idle" THEN run[r]
       ELSE [run[r] EXCEPT !.seen = run[r].seen \cup DueKeys(db2, run[r].now, run[r].zone)]]
  /\ UNCHANGED <<now, ran, rows, faults>>

SetRsvp(e, u, a) ==
  /\ db.member[u] = "accepted" /\ db.answer[<<e, u>>] # a
  /\ MembersDo(zone, [db EXCEPT !.answer = [db.answer EXCEPT ![<<e, u>>] = a]])

SetMembership(u, m) ==
  /\ <<db.member[u], m>> \in {<<"pending", "accepted">>, <<"pending", "left">>,
                              <<"accepted", "left">>}
  /\ MembersDo(zone, [db EXCEPT !.member = [db.member EXCEPT ![u] = m]])

\* updatePlan moves an event.
SetDate(e, date) ==
  /\ db.date[e] # date
  /\ MembersDo(zone, [db EXCEPT !.date = [db.date EXCEPT ![e] = date]])

SetZone(u, z) ==
  /\ zone[u] # z
  /\ MembersDo([zone EXCEPT ![u] = z], db)

Tick ==
  /\ ran /\ now + Step <= End
  /\ \A r \in Runs : run[r].pc # "idle" => run[r].now + RunLength >= now + Step
  /\ now' = now + Step
  /\ ran' = FALSE
  /\ steady' = steady \cup Opening(now + Step)
  /\ UNCHANGED <<zone, db, run, rows, changes, faults>>

Next ==
  \/ \E r \in Runs : \/ StartRun(r) \/ NextPhase(r)
                     \/ \E k \in run[r].todo : CheckExisting(r, k) \/ NothingToSay(r, k)
                     \/ Insert(r) \/ RunFails(r)
  \/ \E e \in Events, u \in Users, a \in {"none", "going", "declined"} : SetRsvp(e, u, a)
  \/ \E e \in Events, date \in Dates : SetDate(e, date)
  \/ \E u \in Users, m \in {"accepted", "left"} : SetMembership(u, m)
  \/ \E u \in Users, z \in Zones \cup {None} : SetZone(u, z)
  \/ Tick

Spec == Init /\ [][Next]_vars

(***************************************************************************)
(* Properties.                                                              *)
(***************************************************************************)
\* Runs that overlap, and the runs of one hour after each other, never notify
\* twice under one key (publish: check, insert, unique key).
NotifiedOnce == \A m, n \in rows : m.key = n.key => m = n

\* A reminder is sent only for what some moment of the run that sent it called
\* for: a member who had not answered or not declined, an event on that date,
\* the hour in the member's zone.  Each was read before other publishes.
ReminderWasDue ==
  [][\A n \in rows' \ rows :
       n.key.kind \in {"rsvp", "today"} =>
         \E r \in Runs : run'[r] # run[r] /\ n.key \in run[r].seen]_vars

\* A reminder about an event that is wanted from the moment it becomes due is
\* sent by the time its hour is over and the runs are done, in every time zone,
\* as long as one of the hour's runs gets through.
ReminderNotLost ==
  \A k \in steady :
    /\ zone[k.user] # None /\ now >= OpensAt(k, zone[k.user]) + 60
    /\ \A r \in Runs : run[r].pc = "idle"
    => k \in Sent
=============================================================================
