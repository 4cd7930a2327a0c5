-------------------------- MODULE Automations_proofs --------------------------
(***************************************************************************)
(* Proofs about Automations, for any group, any events and dates, any time  *)
(* zones, any number of overlapping and failing runs and any step of the    *)
(* clock.                                                                   *)
(***************************************************************************)
EXTENDS Automations, FiniteSetTheorems, TLAPS

Reminders == {"rsvp", "today"}

\* A run has seen every moment of its own at which a reminder was called for,
\* and of the reminders publishes only those it has seen.
Backed(k, d) ==
  k.pc # "idle" =>
    /\ DueKeys(d, k.now, k.zone) \subseteq k.seen
    /\ \A key \in k.todo : key.kind \in Reminders => key \in k.seen
    /\ k.pc = "insert" => k.cur \in KeyType
                          /\ (k.cur.kind \in Reminders => k.cur \in k.seen)

RunsBacked == \A r \in Runs : Backed(run[r], db)

Inv == TypeOK /\ RunsBacked /\ NotifiedOnce

(***************************************************************************)
(* Keys.                                                                    *)
(***************************************************************************)
ZoneMap == [Users -> Zones \cup {None}]

LEMMA KeyFacts ==
  ASSUME NEW kind, NEW u, NEW about, NEW day
  PROVE  /\ Key(kind, u, about, day).kind = kind /\ Key(kind, u, about, day).user = u
         /\ Key(kind, u, about, day).about = about /\ Key(kind, u, about, day).day = day
  BY DEF Key

LEMMA KeyInType ==
  ASSUME NEW kind \in {"invite", "rsvp", "today", "digest", "contextual"},
         NEW u \in Users, NEW about \in Events \cup Slots \cup {None}, NEW day \in Int
  PROVE  Key(kind, u, about, day) \in KeyType
  BY DEF Key, KeyType

LEMMA LocalDayType ==
  ASSUME NEW t \in Nat, NEW z \in Zones
  PROVE  LocalDay(t, z) \in Int
<1>1. z \in Int
  BY ConstantsAssumption
<1> QED BY <1>1 DEF LocalDay

LEMMA EventKeysType ==
  ASSUME NEW d \in DbType
  PROVE  EventKeys(d) \subseteq KeyType
<1> SUFFICES ASSUME NEW k \in EventKeys(d) PROVE k \in KeyType
  OBVIOUS
<1>1. PICK kind \in {"rsvp", "today"}, p \in Events \X Users :
        k = Key(kind, p[2], p[1], d.date[p[1]])
  BY DEF EventKeys
<1>2. p[1] \in Events /\ p[2] \in Users
  OBVIOUS
<1>3. d.date[p[1]] \in Int
  <2>1. d.date \in [Events -> Dates]
    BY DEF DbType
  <2>2. d.date[p[1]] \in Dates
    BY <1>2, <2>1
  <2>3. Dates \subseteq Nat
    BY ConstantsAssumption
  <2>4. \A date \in Dates : date \in Int
    BY <2>3
  <2> QED BY <2>2, <2>4
<1> QED BY <1>1, <1>2, <1>3, KeyInType

\* The two queries about events ask for nothing that is not due.
LEMMA RsvpAreDue ==
  ASSUME NEW d \in DbType, NEW t, NEW z, NEW k \in RsvpKeys(d, t, z)
  PROVE  k \in DueKeys(d, t, z)
<1>1. PICK p \in Events \X Users :
        /\ RsvpWanted(d, p[1], p[2]) /\ RsvpDue(d.date[p[1]], t, z[p[2]])
        /\ k = Key("rsvp", p[2], p[1], d.date[p[1]])
  BY DEF RsvpKeys
<1>2. k.kind = "rsvp" /\ k.user = p[2] /\ k.about = p[1] /\ k.day = d.date[p[1]]
  BY <1>1, KeyFacts
<1>3. k \in EventKeys(d)
  BY <1>1, <1>2 DEF EventKeys
<1> QED BY <1>1, <1>2, <1>3 DEF DueKeys

LEMMA TodayAreDue ==
  ASSUME NEW d \in DbType, NEW t, NEW z, NEW k \in TodayKeys(d, t, z)
  PROVE  k \in DueKeys(d, t, z)
<1>1. PICK p \in Events \X Users :
        /\ TodayWanted(d, p[1], p[2]) /\ TodayDue(d.date[p[1]], t, z[p[2]])
        /\ k = Key("today", p[2], p[1], d.date[p[1]])
  BY DEF TodayKeys
<1>2. k.kind = "today" /\ k.user = p[2] /\ k.about = p[1] /\ k.day = d.date[p[1]]
  BY <1>1, KeyFacts
<1>3. k \in EventKeys(d)
  BY <1>1, <1>2 DEF EventKeys
<1> QED BY <1>1, <1>2, <1>3 DEF DueKeys

LEMMA DueKeysType ==
  ASSUME NEW d \in DbType, NEW t, NEW z
  PROVE  DueKeys(d, t, z) \subseteq KeyType
  BY EventKeysType DEF DueKeys

\* What a phase begins with has its type, and reminders are due.
LEMMA PhaseKeys ==
  ASSUME NEW i \in 1..5, NEW d \in DbType, NEW t \in Nat, NEW z \in ZoneMap
  PROVE  /\ KeysOf(Phases[i], d, t, z) \subseteq KeyType
         /\ \A k \in KeysOf(Phases[i], d, t, z) :
              k.kind \in Reminders => k \in DueKeys(d, t, z)
<1>0. i \in {1, 2, 3, 4, 5} /\ Phases[1] = "invite" /\ Phases[2] = "rsvp"
      /\ Phases[3] = "today" /\ Phases[4] = "digest" /\ Phases[5] = "contextual"
  BY DEF Phases
<1>1. CASE i = 1
  <2>1. KeysOf(Phases[i], d, t, z) = InviteKeys(d, t)
    BY <1>0, <1>1 DEF KeysOf
  <2>2. ASSUME NEW k \in InviteKeys(d, t)
        PROVE  k \in KeyType /\ k.kind = "invite"
    <3>1. PICK u \in Users : k = Key("invite", u, None, 0)
      BY <2>2 DEF InviteKeys
    <3> QED BY <3>1, KeyInType, KeyFacts
  <2> QED BY <2>1, <2>2 DEF Reminders
<1>2. CASE i = 2
  <2>1. KeysOf(Phases[i], d, t, z) = RsvpKeys(d, t, z)
    BY <1>0, <1>2 DEF KeysOf
  <2> QED BY <2>1, RsvpAreDue, DueKeysType
<1>3. CASE i = 3
  <2>1. KeysOf(Phases[i], d, t, z) = TodayKeys(d, t, z)
    BY <1>0, <1>3 DEF KeysOf
  <2> QED BY <2>1, TodayAreDue, DueKeysType
<1>4. CASE i = 4
  <2>1. KeysOf(Phases[i], d, t, z) = DigestKeys(t, z)
    BY <1>0, <1>4 DEF KeysOf
  <2>2. ASSUME NEW k \in DigestKeys(t, z)
        PROVE  k \in KeyType /\ k.kind = "digest"
    <3>1. PICK u \in Users : /\ DigestDue(t, z[u])
                             /\ k = Key("digest", u, None, LocalDay(t, z[u]))
      BY <2>2 DEF DigestKeys
    <3>2. LocalDay(t, z[u]) \in Int
      BY <3>1, LocalDayType DEF DigestDue, ZoneMap
    <3> QED BY <3>1, <3>2, KeyInType, KeyFacts
  <2> QED BY <2>1, <2>2 DEF Reminders
<1>5. CASE i = 5
  <2>1. KeysOf(Phases[i], d, t, z) = ContextualKeys(t, z)
    BY <1>0, <1>5 DEF KeysOf
  <2>2. ASSUME NEW k \in ContextualKeys(t, z)
        PROVE  k \in KeyType /\ k.kind = "contextual"
    <3>1. PICK u \in Users :
            k \in {Key("contextual", u, s, LocalDay(t, z[u])) : s \in PickDueContextualSlot(u, t, z[u])}
      BY <2>2 DEF ContextualKeys
    <3>2. PICK s \in PickDueContextualSlot(u, t, z[u]) :
            k = Key("contextual", u, s, LocalDay(t, z[u]))
      BY <3>1
    <3>3. s \in Prefs[u] /\ z[u] # None
      BY DEF PickDueContextualSlot, DueSlots
    <3>4. s \in Slots
      BY <3>3, ConstantsAssumption
    <3>5. LocalDay(t, z[u]) \in Int
      BY <3>3, LocalDayType DEF ZoneMap
    <3> QED BY <3>2, <3>4, <3>5, KeyInType, KeyFacts
  <2> QED BY <2>1, <2>2 DEF Reminders
<1> QED BY <1>0, <1>1, <1>2, <1>3, <1>4, <1>5

(***************************************************************************)
(* Runs.                                                                    *)
(***************************************************************************)
LEMMA IdleRunFacts == IdleRun \in RunType /\ \A d : Backed(IdleRun, d)
<1>1. [u \in Users |-> None] \in ZoneMap
  BY DEF ZoneMap
<1>2. IdleRun \in RunType /\ IdleRun.pc = "idle"
  BY <1>1 DEF IdleRun, RunType, ZoneMap
<1> QED BY <1>2 DEF Backed

LEMMA RunFacts ==
  ASSUME Inv, NEW r \in Runs
  PROVE  /\ run[r] \in RunType /\ Backed(run[r], db) /\ run[r].zone \in ZoneMap
         /\ run[r].now \in Nat /\ run[r].todo \subseteq KeyType /\ run[r].seen \subseteq KeyType
         /\ run[r].phase \in 0..5 /\ db \in DbType
  BY DEF Inv, TypeOK, RunsBacked, RunType, ZoneMap

LEMMA RunStep ==
  ASSUME Inv, NEW r \in Runs, NEW k \in RunType, run' = [run EXCEPT ![r] = k],
         Backed(k, db), db' = db
  PROVE  run' \in [Runs -> RunType] /\ RunsBacked'
<1>1. /\ run' \in [Runs -> RunType] /\ run'[r] = k
      /\ \A q \in Runs \ {r} : run'[q] = run[q]
  BY DEF Inv, TypeOK
<1>2. ASSUME NEW q \in Runs PROVE Backed(run'[q], db)
  <2>1. CASE q = r
    BY <1>1, <2>1
  <2>2. CASE q # r
    BY <1>1, <2>2, RunFacts
  <2> QED BY <2>1, <2>2
<1> QED BY <1>1, <1>2 DEF RunsBacked

\* A step of a run that writes no row.
LEMMA QuietRun ==
  ASSUME Inv, NEW r \in Runs, NEW k \in RunType, run' = [run EXCEPT ![r] = k], Backed(k, db),
         UNCHANGED <<now, zone, db, rows, steady, changes>>,
         ran' \in BOOLEAN, faults' \in Nat
  PROVE  Inv'
<1>1. run' \in [Runs -> RunType] /\ RunsBacked'
  BY RunStep
<1> QED BY <1>1 DEF Inv, TypeOK, NotifiedOnce

LEMMA InitInv == Init => Inv
<1> SUFFICES ASSUME Init PROVE Inv
  OBVIOUS
<1>1. db \in DbType
  BY DEF Init, DbType
<1>2. steady \subseteq KeyType
  BY <1>1, EventKeysType DEF Init, Opening
<1>3. TypeOK
  BY <1>1, <1>2, IdleRunFacts, ConstantsAssumption DEF Init, TypeOK
<1>4. RunsBacked
  BY IdleRunFacts DEF Init, RunsBacked
<1>5. NotifiedOnce
  BY DEF Init, NotifiedOnce
<1> QED BY <1>3, <1>4, <1>5 DEF Inv

LEMMA StartRunInv == ASSUME Inv, NEW r \in Runs, StartRun(r) PROVE Inv'
<1> DEFINE due == DueKeys(db, now, zone)
           k == [IdleRun EXCEPT !.pc = "publish", !.now = now, !.zone = zone, !.seen = due]
<1>1. run' = [run EXCEPT ![r] = k]
  BY DEF StartRun
<1>2. now \in Nat /\ zone \in [Users -> Zones \cup {None}] /\ due \subseteq KeyType
  BY DueKeysType DEF Inv, TypeOK
<1> HIDE DEF due
<1>3. IdleRun.todo = {}
  BY DEF IdleRun
<1>4. /\ k \in RunType /\ k.pc = "publish" /\ k.now = now /\ k.zone = zone /\ k.seen = due
      /\ k.todo = {}
  BY <1>2, <1>3, IdleRunFacts DEF RunType
<1> HIDE DEF k
<1>5. Backed(k, db)
  BY <1>4 DEF Backed, due
<1> QED BY <1>1, <1>4, <1>5, QuietRun DEF StartRun, Inv, TypeOK

LEMMA NextPhaseInv == ASSUME Inv, NEW r \in Runs, NextPhase(r) PROVE Inv'
<1>1. CASE run[r].phase = 5
  <2>1. run' = [run EXCEPT ![r] = IdleRun]
    BY <1>1 DEF NextPhase
  <2> QED BY <2>1, IdleRunFacts, QuietRun DEF NextPhase, Inv, TypeOK
<1>2. CASE run[r].phase # 5
  <2> DEFINE o == run[r]
             todo == KeysOf(Phases[o.phase + 1], db, o.now, o.zone)
             k == [o EXCEPT !.phase = o.phase + 1, !.todo = todo]
  <2>1. run' = [run EXCEPT ![r] = k] /\ o.pc = "publish"
    BY <1>2 DEF NextPhase
  <2>2. o.phase + 1 \in 1..5
    BY <1>2, RunFacts
  <2>3. /\ o \in RunType /\ Backed(o, db) /\ o.zone \in ZoneMap /\ o.now \in Nat
        /\ db \in DbType
    BY RunFacts
  <2> HIDE DEF o
  <2>4. /\ todo \subseteq KeyType
        /\ \A key \in todo : key.kind \in Reminders => key \in DueKeys(db, o.now, o.zone)
    BY <2>2, <2>3, PhaseKeys
  <2> HIDE DEF todo
  <2>5. o.phase + 1 \in 0..5
    BY <2>2
  <2>6. /\ k \in RunType /\ k.pc = o.pc /\ k.now = o.now /\ k.zone = o.zone /\ k.seen = o.seen
        /\ k.todo = todo
    BY <2>3, <2>4, <2>5 DEF RunType
  <2> HIDE DEF k
  <2>7. Backed(k, db)
    BY <2>1, <2>3, <2>4, <2>6 DEF Backed
  <2> QED BY <2>1, <2>6, <2>7, QuietRun DEF NextPhase, Inv, TypeOK
<1> QED BY <1>1, <1>2

\* A key leaves what is to be done.
LEMMA Fewer ==
  ASSUME Inv, NEW r \in Runs, NEW key, run[r].pc = "publish"
  PROVE  LET k == [run[r] EXCEPT !.todo = run[r].todo \ {key}]
         IN  k \in RunType /\ Backed(k, db)
<1> DEFINE o == run[r]
           todo == o.todo \ {key}
           k == [o EXCEPT !.todo = todo]
<1>1. o \in RunType /\ Backed(o, db) /\ o.pc = "publish" /\ todo \subseteq KeyType
  BY RunFacts
<1>2. todo \subseteq o.todo
  OBVIOUS
<1> HIDE DEF o, todo
<1>3. /\ k \in RunType /\ k.pc = o.pc /\ k.now = o.now /\ k.zone = o.zone /\ k.seen = o.seen
      /\ k.todo = todo
  BY <1>1 DEF RunType
<1> HIDE DEF k
<1>4. Backed(k, db)
  BY <1>1, <1>2, <1>3 DEF Backed
<1> QED BY <1>3, <1>4 DEF k, o, todo

LEMMA CheckExistingInv ==
  ASSUME Inv, NEW r \in Runs, NEW key \in run[r].todo, CheckExisting(r, key) PROVE Inv'
<1>1. CASE key \in Sent
  <2>1. run' = [run EXCEPT ![r] = [run[r] EXCEPT !.todo = run[r].todo \ {key}]]
    BY <1>1 DEF CheckExisting
  <2>2. /\ [run[r] EXCEPT !.todo = run[r].todo \ {key}] \in RunType
        /\ Backed([run[r] EXCEPT !.todo = run[r].todo \ {key}], db)
    BY Fewer DEF CheckExisting
  <2> QED BY <2>1, <2>2, QuietRun DEF CheckExisting, Inv, TypeOK
<1>2. CASE key \notin Sent
  <2> DEFINE o == run[r]
             todo == o.todo \ {key}
             k == [o EXCEPT !.todo = todo, !.pc = "insert", !.cur = key]
  <2>1. run' = [run EXCEPT ![r] = k]
    BY <1>2 DEF CheckExisting
  <2>2. /\ o \in RunType /\ Backed(o, db) /\ o.pc = "publish" /\ todo \subseteq KeyType
        /\ key \in KeyType /\ key \in o.todo
    BY RunFacts DEF CheckExisting
  <2>3. todo \subseteq o.todo
    OBVIOUS
  <2> HIDE DEF o, todo
  <2>4. /\ k \in RunType /\ k.pc = "insert" /\ k.now = o.now /\ k.zone = o.zone
        /\ k.seen = o.seen /\ k.todo = todo /\ k.cur = key
    BY <2>2 DEF RunType
  <2> HIDE DEF k
  <2>5. Backed(k, db)
    BY <2>2, <2>3, <2>4 DEF Backed
  <2> QED BY <2>1, <2>4, <2>5, QuietRun DEF CheckExisting, Inv, TypeOK
<1> QED BY <1>1, <1>2

LEMMA NothingToSayInv ==
  ASSUME Inv, NEW r \in Runs, NEW key \in run[r].todo, NothingToSay(r, key) PROVE Inv'
<1>1. /\ [run[r] EXCEPT !.todo = run[r].todo \ {key}] \in RunType
      /\ Backed([run[r] EXCEPT !.todo = run[r].todo \ {key}], db)
  BY Fewer DEF NothingToSay
<1> QED BY <1>1, QuietRun DEF NothingToSay, Inv, TypeOK

\* A run goes on without the key it was about to publish.
LEMMA NextKey ==
  ASSUME Inv, NEW r \in Runs, run[r].pc # "idle"
  PROVE  LET k == [run[r] EXCEPT !.pc = "publish", !.cur = None]
         IN  k \in RunType /\ Backed(k, db)
<1> DEFINE o == run[r]
           k == [o EXCEPT !.pc = "publish", !.cur = None]
<1>1. o \in RunType /\ Backed(o, db) /\ o.pc # "idle"
  BY RunFacts
<1> HIDE DEF o
<1>2. /\ k \in RunType /\ k.pc = "publish" /\ k.now = o.now /\ k.zone = o.zone
      /\ k.seen = o.seen /\ k.todo = o.todo
  BY <1>1 DEF RunType
<1> HIDE DEF k
<1>3. Backed(k, db)
  BY <1>1, <1>2 DEF Backed
<1> QED BY <1>2, <1>3 DEF k, o

LEMMA InsertInv == ASSUME Inv, NEW r \in Runs, Insert(r) PROVE Inv'
<1>1. run' \in [Runs -> RunType] /\ RunsBacked'
  <2>1. /\ [run[r] EXCEPT !.pc = "publish", !.cur = None] \in RunType
        /\ Backed([run[r] EXCEPT !.pc = "publish", !.cur = None], db)
    BY NextKey DEF Insert
  <2> QED BY <2>1, RunStep DEF Insert
<1>2. CASE run[r].cur \in Sent
  <2>1. rows' = rows
    BY <1>2 DEF Insert
  <2> QED BY <1>1, <2>1 DEF Insert, Inv, TypeOK, NotifiedOnce
<1>3. CASE run[r].cur \notin Sent
  <2> DEFINE key == run[r].cur
  <2>1. rows' = rows \cup {Row(key)} /\ \A n \in rows : n.key # key
    BY <1>3 DEF Insert, Sent
  <2>2. key \in KeyType
    BY RunFacts DEF Backed, Insert
  <2> HIDE DEF key
  <2>3. {n \in rows : n.key = key} = {}
    BY <2>1
  <2>4. Row(key) = [key |-> key, nr |-> 0]
    BY <2>3, FS_EmptySet DEF Row
  <2>5. Row(key) \in [key : KeyType, nr : Nat] /\ Row(key).key = key
    BY <2>2, <2>4
  <2>6. rows' \subseteq [key : KeyType, nr : Nat]
    BY <2>1, <2>5 DEF Inv, TypeOK
  <2>7. NotifiedOnce'
    BY <2>1, <2>5 DEF Inv, NotifiedOnce
  <2> QED BY <1>1, <2>6, <2>7 DEF Insert, Inv, TypeOK
<1> QED BY <1>2, <1>3

LEMMA RunFailsInv == ASSUME Inv, NEW r \in Runs, RunFails(r) PROVE Inv'
<1>1. faults' \in Nat
  BY DEF RunFails, Inv, TypeOK
<1>2. CASE run[r].phase = 5 /\ run[r].pc = "insert"
  <2>1. run' = [run EXCEPT ![r] = [run[r] EXCEPT !.pc = "publish", !.cur = None]]
    BY <1>2 DEF RunFails
  <2>2. /\ [run[r] EXCEPT !.pc = "publish", !.cur = None] \in RunType
        /\ Backed([run[r] EXCEPT !.pc = "publish", !.cur = None], db)
    BY NextKey DEF RunFails
  <2> QED BY <1>1, <2>1, <2>2, QuietRun DEF RunFails, Inv, TypeOK
<1>3. CASE ~(run[r].phase = 5 /\ run[r].pc = "insert")
  <2>1. run' = [run EXCEPT ![r] = IdleRun]
    BY <1>3 DEF RunFails
  <2> QED BY <1>1, <2>1, IdleRunFacts, QuietRun DEF RunFails, Inv, TypeOK
<1> QED BY <1>2, <1>3

(***************************************************************************)
(* Members and the clock.                                                   *)
(***************************************************************************)
LEMMA MembersDoInv ==
  ASSUME Inv, NEW zone2 \in ZoneMap, NEW db2 \in DbType, MembersDo(zone2, db2)
  PROVE  Inv'
<1> DEFINE more(o) == o.seen \cup DueKeys(db2, o.now, o.zone)
           after(o) == IF o.pc = "idle" THEN o ELSE [o EXCEPT !.seen = more(o)]
<1>1. run' = [r \in Runs |-> after(run[r])] /\ db' = db2 /\ zone' = zone2
  BY DEF MembersDo
<1>2. ASSUME NEW r \in Runs
      PROVE  after(run[r]) \in RunType /\ Backed(after(run[r]), db2)
  <2> DEFINE o == run[r]
             seen == more(o)
             k == [o EXCEPT !.seen = seen]
  <2>1. o \in RunType /\ Backed(o, db) /\ o.seen \subseteq KeyType
    BY RunFacts
  <2>2. seen \subseteq KeyType
    BY <2>1, DueKeysType
  <2>3. o.seen \subseteq seen /\ DueKeys(db2, o.now, o.zone) \subseteq seen
    OBVIOUS
  <2>4. CASE o.pc = "idle"
    BY <2>1, <2>4 DEF Backed
  <2>5. CASE o.pc # "idle"
    <3>1. after(o) = k
      BY <2>5
    <3> HIDE DEF o, seen, more
    <3>2. /\ k \in RunType /\ k.pc = o.pc /\ k.now = o.now /\ k.zone = o.zone
          /\ k.todo = o.todo /\ k.cur = o.cur /\ k.seen = seen
      BY <2>1, <2>2 DEF RunType
    <3> HIDE DEF k
    <3>3. Backed(k, db2)
      BY <2>1, <2>3, <2>5, <3>2 DEF Backed
    <3> HIDE DEF after
    <3> QED BY <3>1, <3>2, <3>3 DEF o
  <2> QED BY <2>4, <2>5
<1> HIDE DEF after
<1>3. run' \in [Runs -> RunType] /\ RunsBacked'
  BY <1>1, <1>2 DEF RunsBacked
<1>4. steady' \subseteq KeyType /\ changes' \in Nat
  BY DEF MembersDo, Inv, TypeOK
<1>5. db' \in DbType /\ zone' \in [Users -> Zones \cup {None}]
  BY <1>1 DEF ZoneMap
<1>6. now' \in Nat /\ ran' \in BOOLEAN /\ faults' \in Nat /\ NotifiedOnce'
      /\ rows' \subseteq [key : KeyType, nr : Nat]
  BY DEF MembersDo, Inv, TypeOK, NotifiedOnce
<1> QED BY <1>3, <1>4, <1>5, <1>6 DEF Inv, TypeOK

LEMMA SetRsvpInv ==
  ASSUME Inv, NEW e \in Events, NEW u \in Users, NEW a \in {"none", "going", "declined"},
         SetRsvp(e, u, a)
  PROVE  Inv'
<1>1. db \in DbType /\ zone \in ZoneMap
  BY DEF Inv, TypeOK, ZoneMap
<1> DEFINE answer == [db.answer EXCEPT ![<<e, u>>] = a]
<1>2. answer \in [Events \X Users -> {"none", "going", "maybe", "declined"}]
  BY <1>1 DEF DbType
<1> HIDE DEF answer
<1>3. [db EXCEPT !.answer = answer] \in DbType
  BY <1>1, <1>2 DEF DbType
<1>4. MembersDo(zone, [db EXCEPT !.answer = answer])
  BY DEF SetRsvp, answer
<1> QED BY <1>1, <1>3, <1>4, MembersDoInv

LEMMA SetMembershipInv ==
  ASSUME Inv, NEW u \in Users, NEW m \in {"accepted", "left"}, SetMembership(u, m)
  PROVE  Inv'
<1>1. db \in DbType /\ zone \in ZoneMap
  BY DEF Inv, TypeOK, ZoneMap
<1> DEFINE member == [db.member EXCEPT ![u] = m]
<1>2. member \in [Users -> {"pending", "accepted", "left"}]
  BY <1>1 DEF DbType
<1> HIDE DEF member
<1>3. [db EXCEPT !.member = member] \in DbType
  BY <1>1, <1>2 DEF DbType
<1>4. MembersDo(zone, [db EXCEPT !.member = member])
  BY DEF SetMembership, member
<1> QED BY <1>1, <1>3, <1>4, MembersDoInv

LEMMA SetDateInv ==
  ASSUME Inv, NEW e \in Events, NEW date \in Dates, SetDate(e, date)
  PROVE  Inv'
<1>1. db \in DbType /\ zone \in ZoneMap
  BY DEF Inv, TypeOK, ZoneMap
<1> DEFINE dates == [db.date EXCEPT ![e] = date]
<1>2. dates \in [Events -> Dates]
  BY <1>1 DEF DbType
<1> HIDE DEF dates
<1>3. [db EXCEPT !.date = dates] \in DbType
  BY <1>1, <1>2 DEF DbType
<1>4. MembersDo(zone, [db EXCEPT !.date = dates])
  BY DEF SetDate, dates
<1> QED BY <1>1, <1>3, <1>4, MembersDoInv

LEMMA SetZoneInv ==
  ASSUME Inv, NEW u \in Users, NEW z \in Zones \cup {None}, SetZone(u, z)
  PROVE  Inv'
<1>1. db \in DbType /\ [zone EXCEPT ![u] = z] \in ZoneMap
  BY DEF Inv, TypeOK, ZoneMap
<1> QED BY <1>1, MembersDoInv DEF SetZone

LEMMA TickInv == ASSUME Inv, Tick PROVE Inv'
<1>1. now' \in Nat
  <2>1. now \in Nat /\ Step \in Nat /\ now' = now + Step
    BY ConstantsAssumption DEF Tick, Inv, TypeOK
  <2> QED BY <2>1
<1>2. Opening(now + Step) \subseteq KeyType
  BY EventKeysType DEF Opening, Inv, TypeOK
<1>3. steady' \subseteq KeyType
  BY <1>2 DEF Tick, Inv, TypeOK
<1> QED BY <1>1, <1>3 DEF Tick, Inv, TypeOK, RunsBacked, NotifiedOnce

LEMMA NextInv == Inv /\ [Next]_vars => Inv'
<1> SUFFICES ASSUME Inv, [Next]_vars PROVE Inv'
  OBVIOUS
<1>1. ASSUME NEW r \in Runs, StartRun(r) PROVE Inv'
  BY <1>1, StartRunInv
<1>2. ASSUME NEW r \in Runs, NextPhase(r) PROVE Inv'
  BY <1>2, NextPhaseInv
<1>3. ASSUME NEW r \in Runs, NEW k \in run[r].todo, CheckExisting(r, k) PROVE Inv'
  BY <1>3, CheckExistingInv
<1>4. ASSUME NEW r \in Runs, NEW k \in run[r].todo, NothingToSay(r, k) PROVE Inv'
  BY <1>4, NothingToSayInv
<1>5. ASSUME NEW r \in Runs, Insert(r) PROVE Inv'
  BY <1>5, InsertInv
<1>6. ASSUME NEW r \in Runs, RunFails(r) PROVE Inv'
  BY <1>6, RunFailsInv
<1>7. ASSUME NEW e \in Events, NEW u \in Users, NEW a \in {"none", "going", "declined"},
             SetRsvp(e, u, a)
      PROVE  Inv'
  BY <1>7, SetRsvpInv
<1>8. ASSUME NEW e \in Events, NEW date \in Dates, SetDate(e, date) PROVE Inv'
  BY <1>8, SetDateInv
<1>9. ASSUME NEW u \in Users, NEW m \in {"accepted", "left"}, SetMembership(u, m) PROVE Inv'
  BY <1>9, SetMembershipInv
<1>10. ASSUME NEW u \in Users, NEW z \in Zones \cup {None}, SetZone(u, z) PROVE Inv'
  BY <1>10, SetZoneInv
<1>11. CASE Tick
  BY <1>11, TickInv
<1>12. CASE UNCHANGED vars
  BY <1>12 DEF vars, Inv, TypeOK, RunsBacked, NotifiedOnce
<1> QED BY <1>1, <1>2, <1>3, <1>4, <1>5, <1>6, <1>7, <1>8, <1>9, <1>10, <1>11, <1>12 DEF Next

LEMMA Invariance == Spec => []Inv
  BY InitInv, NextInv, PTL DEF Spec

(***************************************************************************)
(* No reminder is lost.  Cron has a run started in every step of the clock; *)
(* for a reminder that has been wanted since it opened, the runs of its     *)
(* hour are counted: each still carries it, has sent it, or has failed.     *)
(***************************************************************************)
\* The phase whose query asks for the reminder.
PhaseOf(k) == IF k.kind = "rsvp" THEN 2 ELSE 3

\* The run will reach or has reached the key's phase with the key to publish.
Carries(o, k, z) ==
  /\ o.pc # "idle" /\ o.zone[k.user] = z
  /\ OpensAt(k, z) <= o.now /\ o.now < OpensAt(k, z) + 60
  /\ \/ o.phase < PhaseOf(k)
     \/ o.phase = PhaseOf(k) /\ (k \in o.todo \/ (o.pc = "insert" /\ o.cur = k))

\* The runs that carry it.
Carriers(k) == {r \in Runs : Carries(run[r], k, zone[k.user])}

\* The part of the hour of the reminder for which runs have been started.
Until(k) == LET t == now + (IF ran THEN Step ELSE 0)
                e == OpensAt(k, zone[k.user]) + 60
            IN  IF t < e THEN t ELSE e

\* Every step of the hour so far has a failure or a run that carries the reminder.
Covered(k) ==
  /\ k \in EventKeys(db)
  /\ zone[k.user] \in Zones
  /\ OpensAt(k, zone[k.user]) <= now
  /\ (faults + Cardinality(Carriers(k))) * Step >= Until(k) - OpensAt(k, zone[k.user])

Active == {r \in Runs : run[r].pc # "idle"}

\* The invariant: what is wanted and not sent is covered.
SteadyCovered ==
  /\ IsFiniteSet(Active) /\ faults <= MaxFaults
  /\ \A r \in Active : run[r].now <= now
  /\ \A k \in steady \ Sent : Covered(k)

(***************************************************************************)
(* The reference and the queries agree on the hour.                         *)
(***************************************************************************)
LEMMA DivMod ==
  ASSUME NEW x \in Int, NEW q \in Int, 1440 * q <= x, x < 1440 * q + 1440
  PROVE  x \div 1440 = q /\ x % 1440 = x - 1440 * q
  OBVIOUS

LEMMA EventKeyFacts ==
  ASSUME NEW d \in DbType, NEW k \in EventKeys(d)
  PROVE  /\ k.kind \in Reminders /\ k.user \in Users /\ k.about \in Events
         /\ k.day = d.date[k.about] /\ k.day \in Nat
         /\ k = Key(k.kind, k.user, k.about, k.day)
         /\ IF k.kind = "rsvp" THEN RsvpWanted(d, k.about, k.user)
                               ELSE TodayWanted(d, k.about, k.user)
<1>1. PICK kind \in {"rsvp", "today"}, p \in Events \X Users :
        /\ k = Key(kind, p[2], p[1], d.date[p[1]])
        /\ IF k.kind = "rsvp" THEN RsvpWanted(d, k.about, k.user)
                              ELSE TodayWanted(d, k.about, k.user)
  BY DEF EventKeys
<1>2. k.kind = kind /\ k.user = p[2] /\ k.about = p[1] /\ k.day = d.date[p[1]]
  BY <1>1, KeyFacts
<1>3. d.date \in [Events -> Dates] /\ Dates \subseteq Nat /\ p[1] \in Events /\ p[2] \in Users
  BY ConstantsAssumption DEF DbType
<1>4. d.date[p[1]] \in Nat
  BY <1>3
<1> QED BY <1>1, <1>2, <1>3, <1>4 DEF Reminders

\* In the hour after a reminder opens, its query asks for it: the local day
\* and minute are those of the target, and the days the query looks at in UTC
\* include the event's, in every zone.
LEMMA RsvpHour ==
  ASSUME NEW t \in Nat, NEW z \in Zones, NEW day \in Nat,
         1440 * (day - 1) + 1080 - z <= t, t < 1440 * (day - 1) + 1080 - z + 60
  PROVE  RsvpDue(day, t, z) /\ RsvpWindow(day, t)
<1>1. z \in -720 .. 840 /\ z # None
  BY ConstantsAssumption
<1>2. (t + z) \div 1440 = day - 1 /\ (t + z) % 1440 = (t + z) - 1440 * (day - 1)
  BY <1>1, DivMod
<1>3. LocalDay(t, z) = day - 1 /\ 1080 <= LocalMinute(t, z) /\ LocalMinute(t, z) < 1140
  BY <1>1, <1>2 DEF LocalDay, LocalMinute
<1>4. t \div 1440 \in {day - 2, day - 1, day}
  BY <1>1
<1>5. At(18, 0) = 1080
  BY DEF At
<1> QED BY <1>1, <1>3, <1>4, <1>5 DEF RsvpDue, RsvpWindow, IsDueAtLocalTime, Day

LEMMA TodayHour ==
  ASSUME NEW t \in Nat, NEW z \in Zones, NEW day \in Nat,
         1440 * day + 540 - z <= t, t < 1440 * day + 540 - z + 60
  PROVE  TodayDue(day, t, z) /\ TodayWindow(day, t)
<1>1. z \in -720 .. 840 /\ z # None
  BY ConstantsAssumption
<1>2. (t + z) \div 1440 = day /\ (t + z) % 1440 = (t + z) - 1440 * day
  BY <1>1, DivMod
<1>3. LocalDay(t, z) = day /\ 540 <= LocalMinute(t, z) /\ LocalMinute(t, z) < 600
  BY <1>1, <1>2 DEF LocalDay, LocalMinute
<1>4. t \div 1440 \in {day - 1, day}
  BY <1>1
<1>5. At(9, 0) = 540
  BY DEF At
<1> QED BY <1>1, <1>3, <1>4, <1>5 DEF TodayDue, TodayWindow, IsDueAtLocalTime, Day

LEMMA OpensAtType ==
  ASSUME NEW d \in DbType, NEW k \in EventKeys(d), NEW z \in Zones
  PROVE  /\ OpensAt(k, z) \in Int
         /\ OpensAt(k, z) = IF k.kind = "rsvp" THEN 1440 * (k.day - 1) + 1080 - z
                                              ELSE 1440 * k.day + 540 - z
<1>1. z \in Int /\ k.day \in Nat
  BY EventKeyFacts, ConstantsAssumption
<1> QED BY <1>1 DEF OpensAt, At

LEMMA QueryAsks ==
  ASSUME NEW d \in DbType, NEW k \in EventKeys(d), NEW t \in Nat, NEW z \in ZoneMap,
         z[k.user] \in Zones,
         OpensAt(k, z[k.user]) <= t, t < OpensAt(k, z[k.user]) + 60
  PROVE  k \in KeysOf(Phases[PhaseOf(k)], d, t, z)
<1>1. /\ k.kind \in Reminders /\ k.user \in Users /\ k.about \in Events
      /\ k.day = d.date[k.about] /\ k.day \in Nat
      /\ k = Key(k.kind, k.user, k.about, k.day)
  BY EventKeyFacts
<1> DEFINE p == <<k.about, k.user>>
<1>2. p \in Events \X Users /\ p[1] = k.about /\ p[2] = k.user
  BY <1>1
<1>3. CASE k.kind = "rsvp"
  <2>1. RsvpDue(k.day, t, z[k.user]) /\ RsvpWindow(k.day, t)
    BY <1>1, <1>3, OpensAtType, RsvpHour
  <2>2. RsvpWanted(d, k.about, k.user)
    BY <1>3, EventKeyFacts
  <2>3. k \in RsvpKeys(d, t, z)
    <3>1. RsvpWanted(d, p[1], p[2]) /\ RsvpWindow(d.date[p[1]], t) /\ RsvpDue(d.date[p[1]], t, z[p[2]])
      BY <1>1, <1>2, <2>1, <2>2
    <3>2. k = Key("rsvp", p[2], p[1], d.date[p[1]])
      BY <1>1, <1>2, <1>3
    <3> HIDE DEF p
    <3> QED BY <1>2, <3>1, <3>2 DEF RsvpKeys
  <2>4. Phases[2] = "rsvp"
    BY DEF Phases
  <2>5. KeysOf(Phases[2], d, t, z) = RsvpKeys(d, t, z)
    BY <2>4 DEF KeysOf
  <2> QED BY <1>3, <2>3, <2>5 DEF PhaseOf
<1>4. CASE k.kind = "today"
  <2>1. TodayDue(k.day, t, z[k.user]) /\ TodayWindow(k.day, t)
    BY <1>1, <1>4, OpensAtType, TodayHour
  <2>2. TodayWanted(d, k.about, k.user)
    BY <1>4, EventKeyFacts
  <2>3. k \in TodayKeys(d, t, z)
    <3>1. TodayWanted(d, p[1], p[2]) /\ TodayWindow(d.date[p[1]], t) /\ TodayDue(d.date[p[1]], t, z[p[2]])
      BY <1>1, <1>2, <2>1, <2>2
    <3>2. k = Key("today", p[2], p[1], d.date[p[1]])
      BY <1>1, <1>2, <1>4
    <3> HIDE DEF p
    <3> QED BY <1>2, <3>1, <3>2 DEF TodayKeys
  <2>4. Phases[3] = "today"
    BY DEF Phases
  <2>5. KeysOf(Phases[3], d, t, z) = TodayKeys(d, t, z)
    BY <2>4 DEF KeysOf
  <2> QED BY <1>4, <2>3, <2>5 DEF PhaseOf
<1> QED BY <1>1, <1>3, <1>4 DEF Reminders

(***************************************************************************)
(* Counting the runs of the hour.                                           *)
(***************************************************************************)
LEMMA AtLeastAsMuch ==
  ASSUME NEW a \in Nat, NEW b \in Nat, NEW u \in Int, NEW v \in Int,
         a * Step >= u, b >= a, v <= u
  PROVE  b * Step >= v
<1>1. Step \in Nat
  BY ConstantsAssumption
<1>2. PICK n \in Nat : b = a + n
  BY b - a \in Nat
<1>3. b * Step = a * Step + n * Step /\ a * Step \in Int /\ n * Step >= 0
  BY <1>1, <1>2
<1> QED BY <1>1, <1>3

LEMMA OneMore ==
  ASSUME NEW a \in Nat, NEW b \in Nat, NEW u \in Int, NEW v \in Int,
         a * Step >= u, b >= a + 1, v <= u + Step
  PROVE  b * Step >= v
<1>1. Step \in Nat /\ a + 1 \in Nat
  BY ConstantsAssumption
<1>2. (a + 1) * Step = a * Step + Step /\ a * Step \in Int
  BY <1>1
<1>3. (a + 1) * Step >= v
  BY <1>1, <1>2
<1> QED BY <1>1, <1>3, AtLeastAsMuch

LEMMA CarriersFinite ==
  ASSUME IsFiniteSet(Active), NEW k
  PROVE  IsFiniteSet(Carriers(k)) /\ Cardinality(Carriers(k)) \in Nat
<1>1. Carriers(k) \in SUBSET Active
  BY DEF Carriers, Carries, Active
<1>2. IsFiniteSet(Carriers(k))
  BY <1>1, FS_Subset
<1> QED BY <1>2, FS_CardinalityType

LEMMA SteadyFacts ==
  ASSUME Inv, SteadyCovered, NEW k \in steady, k \notin Sent
  PROVE  /\ Covered(k) /\ k \in EventKeys(db) /\ db \in DbType
         /\ zone[k.user] \in Zones /\ zone \in ZoneMap /\ k.user \in Users
         /\ k.kind \in Reminders
         /\ OpensAt(k, zone[k.user]) \in Int /\ OpensAt(k, zone[k.user]) <= now
         /\ now \in Nat /\ Step \in Nat /\ Until(k) \in Int /\ faults \in Nat
         /\ Cardinality(Carriers(k)) \in Nat
         /\ (faults + Cardinality(Carriers(k))) * Step >= Until(k) - OpensAt(k, zone[k.user])
<1>1. /\ Covered(k) /\ k \in EventKeys(db) /\ db \in DbType
      /\ zone[k.user] \in Zones /\ zone \in ZoneMap /\ now \in Nat /\ faults \in Nat
      /\ ran \in BOOLEAN
  BY DEF Inv, TypeOK, SteadyCovered, Covered, ZoneMap
<1>2. k.user \in Users /\ k.kind \in Reminders
  BY <1>1, EventKeyFacts
<1>3. OpensAt(k, zone[k.user]) \in Int
  BY <1>1, OpensAtType
<1>4. Until(k) \in Int /\ Step \in Nat
  BY <1>1, <1>3, ConstantsAssumption DEF Until
<1>5. Cardinality(Carriers(k)) \in Nat
  BY CarriersFinite DEF SteadyCovered
<1> QED BY <1>1, <1>2, <1>3, <1>4, <1>5 DEF Covered

\* A step of the run r, which may carry less only if it fails or has sent.
LEMMA RunCovers ==
  ASSUME Inv, Inv', SteadyCovered, NEW r \in Runs, NEW o, run' = [run EXCEPT ![r] = o],
         UNCHANGED <<now, ran, zone, db, steady>>,
         run[r].pc # "idle", o.pc # "idle" => o.now = run[r].now,
         Sent \subseteq Sent', faults' <= MaxFaults,
         \/ faults' = faults + 1
         \/ /\ faults' = faults
            /\ \A k \in steady \ Sent' : Carries(run[r], k, zone[k.user])
                                        => Carries(o, k, zone[k.user])
  PROVE  SteadyCovered'
<1>1. run'[r] = o /\ \A q \in Runs \ {r} : run'[q] = run[q]
  BY DEF Inv, TypeOK
<1>2. Active' \in SUBSET Active /\ IsFiniteSet(Active)
  BY <1>1 DEF Active, SteadyCovered
<1>3. IsFiniteSet(Active')
  BY <1>2, FS_Subset
<1>4. \A q \in Active' : run'[q].now <= now'
  BY <1>1, <1>2 DEF SteadyCovered, Active
<1>5. ASSUME NEW k \in steady' \ Sent' PROVE Covered(k)'
  <2>1. k \in steady /\ k \notin Sent
    OBVIOUS
  <2> DEFINE z == zone[k.user]
             C == Carriers(k)
             D == {q \in Runs : Carries(run'[q], k, z)}
  <2>2. D = Carriers(k)'
    BY DEF Carriers
  <2>3. IsFiniteSet(D) /\ Cardinality(D) \in Nat
    <3>1. D \in SUBSET Active'
      BY DEF Active, Carries
    <3>2. IsFiniteSet(D)
      BY <1>3, <3>1, FS_Subset
    <3> QED BY <3>2, FS_CardinalityType
  <2>4. IsFiniteSet(C) /\ Cardinality(C) \in Nat
    BY <1>2, CarriersFinite
  <2>5. faults' + Cardinality(D) >= faults + Cardinality(C)
    <3>1. CASE faults' = faults + 1
      <4>1. C \ {r} \in SUBSET D
        BY <1>1 DEF Carriers
      <4>2. Cardinality(C \ {r}) <= Cardinality(D)
        BY <2>3, <4>1, FS_Subset
      <4>3. Cardinality(C \ {r}) = IF r \in C THEN Cardinality(C) - 1 ELSE Cardinality(C)
        BY <2>4, FS_RemoveElement
      <4>4. Cardinality(C \ {r}) \in Nat
        BY <2>4, FS_RemoveElement, FS_CardinalityType
      <4> HIDE DEF C, D
      <4> QED BY <2>1, <2>3, <2>4, <3>1, <4>2, <4>3, <4>4, SteadyFacts
    <3>2. CASE faults' = faults /\ \A x \in steady \ Sent' :
                 Carries(run[r], x, zone[x.user]) => Carries(o, x, zone[x.user])
      <4>1. ASSUME NEW q \in C PROVE q \in D
        <5>1. q \in Runs /\ Carries(run[q], k, z)
          BY DEF Carriers
        <5>2. Carries(run'[q], k, z)
          BY <1>1, <2>1, <3>2, <5>1
        <5> QED BY <5>1, <5>2
      <4>2. C \in SUBSET D
        BY <4>1
      <4>3. Cardinality(C) <= Cardinality(D)
        BY <2>3, <4>2, FS_Subset
      <4> HIDE DEF C, D
      <4> QED BY <2>1, <2>3, <2>4, <3>2, <4>3, SteadyFacts
    <3> QED BY <3>1, <3>2
  <2>6. Until(k)' = Until(k)
    BY DEF Until
  <2>7. faults' \in Nat
    BY DEF Inv, TypeOK
  <2>8. (faults' + Cardinality(D)) * Step >= Until(k) - OpensAt(k, z)
    <3> DEFINE a == faults + Cardinality(C)
               b == faults' + Cardinality(D)
               u == Until(k) - OpensAt(k, z)
    <3>1. a \in Nat /\ b \in Nat /\ u \in Int /\ a * Step >= u /\ b >= a /\ u <= u
      BY <2>1, <2>3, <2>4, <2>5, <2>7, SteadyFacts
    <3> HIDE DEF a, b, u
    <3>2. b * Step >= u
      BY <3>1, AtLeastAsMuch
    <3> QED BY <3>2 DEF b, u
  <2>9. k \in EventKeys(db) /\ z \in Zones /\ OpensAt(k, z) <= now
    BY <2>1, SteadyFacts
  <2> HIDE DEF D
  <2> QED BY <2>2, <2>6, <2>8, <2>9 DEF Covered
<1> QED BY <1>3, <1>4, <1>5 DEF SteadyCovered

LEMMA InitCovers == Init => SteadyCovered
<1> SUFFICES ASSUME Init PROVE SteadyCovered
  OBVIOUS
<1>1. Inv
  BY InitInv
<1>2. Active = {}
  BY DEF Active, Init, IdleRun
<1>3. IsFiniteSet(Active)
  BY <1>2, FS_EmptySet
<1>4. ASSUME NEW k \in steady \ Sent PROVE Covered(k)
  <2>1. k \in EventKeys(db) /\ zone[k.user] # None /\ OpensAt(k, zone[k.user]) = now
    BY DEF Init, Opening
  <2>2. db \in DbType /\ zone \in ZoneMap /\ now \in Nat /\ faults = 0 /\ ran = FALSE
    BY <1>1 DEF Inv, TypeOK, ZoneMap, Init
  <2>3. zone[k.user] \in Zones
    BY <2>1, <2>2, EventKeyFacts DEF ZoneMap
  <2>4. Until(k) - OpensAt(k, zone[k.user]) = 0
    BY <2>1, <2>2 DEF Until
  <2>5. Cardinality(Carriers(k)) \in Nat
    BY <1>3, CarriersFinite
  <2>6. (faults + Cardinality(Carriers(k))) * Step >= 0
    BY <2>2, <2>5, ConstantsAssumption
  <2> QED BY <2>1, <2>2, <2>3, <2>4, <2>6 DEF Covered
<1>5. faults <= MaxFaults
  BY ConstantsAssumption DEF Init
<1> QED BY <1>2, <1>3, <1>4, <1>5 DEF SteadyCovered

LEMMA StartRunCovers ==
  ASSUME Inv, Inv', SteadyCovered, NEW r \in Runs, StartRun(r) PROVE SteadyCovered'
<1> DEFINE o == [IdleRun EXCEPT !.pc = "publish", !.now = now, !.zone = zone,
                                !.seen = DueKeys(db, now, zone)]
<1>1. /\ run'[r] = o /\ \A q \in Runs \ {r} : run'[q] = run[q]
      /\ run[r].pc = "idle"
  BY DEF StartRun, Inv, TypeOK
<1>2. o.pc = "publish" /\ o.now = now /\ o.zone = zone /\ o.phase = 0
  BY DEF IdleRun
<1> HIDE DEF o
<1>3. Active' = Active \cup {r} /\ IsFiniteSet(Active')
  <2>1. Active' = Active \cup {r}
    BY <1>1, <1>2 DEF Active
  <2> QED BY <2>1, FS_AddElement DEF SteadyCovered
<1>4. \A q \in Active' : run'[q].now <= now'
  <2>1. now \in Nat /\ now' = now
    BY DEF StartRun, Inv, TypeOK
  <2> QED BY <1>1, <1>2, <1>3, <2>1 DEF SteadyCovered, Active
<1>5. ASSUME NEW k \in steady' \ Sent' PROVE Covered(k)'
  <2> DEFINE z == zone[k.user]
             e == OpensAt(k, z)
             C == Carriers(k)
             D == {q \in Runs : Carries(run'[q], k, z)}
  <2>1. k \in steady /\ k \notin Sent
    BY DEF StartRun, Sent
  <2>2. zone' = zone /\ db' = db /\ now' = now /\ faults' = faults /\ ran' = TRUE
    BY DEF StartRun
  <2>3. /\ k \in EventKeys(db) /\ z \in Zones /\ e \in Int /\ e <= now /\ now \in Nat
        /\ Step \in Nat /\ Until(k) \in Int /\ faults \in Nat /\ k.kind \in Reminders
        /\ (faults + Cardinality(C)) * Step >= Until(k) - e
    BY <2>1, SteadyFacts
  <2>4. D = Carriers(k)'
    BY <2>2 DEF Carriers
  <2>5. IsFiniteSet(C) /\ Cardinality(C) \in Nat
    BY CarriersFinite DEF SteadyCovered
  <2>6. IsFiniteSet(D) /\ Cardinality(D) \in Nat
    <3>1. D \in SUBSET Active'
      BY DEF Active, Carries
    <3>2. IsFiniteSet(D)
      BY <1>3, <3>1, FS_Subset
    <3> QED BY <3>2, FS_CardinalityType
  <2>7. r \notin C /\ C \subseteq D
    BY <1>1 DEF Carriers, Carries
  <2>8. (faults + Cardinality(D)) * Step >= Until(k)' - e
    <3> DEFINE a == faults + Cardinality(C)
               b == faults + Cardinality(D)
               u == Until(k) - e
               v == Until(k)' - e
    <3>1. Until(k)' = (IF now + Step < e + 60 THEN now + Step ELSE e + 60)
          /\ Until(k) = (IF ran THEN (IF now + Step < e + 60 THEN now + Step ELSE e + 60)
                                ELSE (IF now < e + 60 THEN now ELSE e + 60))
      BY <2>2, <2>3 DEF Until
    <3> HIDE DEF e
    <3>2. v \in Int /\ u \in Int /\ v <= u + Step
      BY <2>3, <3>1
    <3>3. a \in Nat /\ b \in Nat /\ a * Step >= u
      BY <2>3, <2>5, <2>6
    <3>4. CASE now < e + 60
      <4>1. r \in D
        <5>1. 0 < PhaseOf(k)
          BY DEF PhaseOf
        <5> QED BY <1>1, <1>2, <2>3, <3>4, <5>1 DEF Carries, e
      <4>2. C \cup {r} \in SUBSET D
        BY <2>7, <4>1
      <4>3. Cardinality(C \cup {r}) = Cardinality(C) + 1
        BY <2>5, <2>7, FS_AddElement
      <4>4. Cardinality(C \cup {r}) <= Cardinality(D)
        BY <2>6, <4>2, FS_Subset
      <4>5. b >= a + 1
        <5> HIDE DEF C, D
        <5> QED BY <2>3, <2>5, <2>6, <4>3, <4>4
      <4> HIDE DEF a, b, u, v
      <4>6. b * Step >= v
        BY <3>2, <3>3, <4>5, OneMore
      <4> QED BY <4>6 DEF b, v
    <3>5. CASE ~(now < e + 60)
      <4>1. v <= u
        BY <2>3, <3>1, <3>5
      <4>2. Cardinality(C) <= Cardinality(D)
        BY <2>6, <2>7, FS_Subset
      <4>3. b >= a
        <5> HIDE DEF C, D
        <5> QED BY <2>3, <2>5, <2>6, <4>2
      <4> HIDE DEF a, b, u, v
      <4>4. b * Step >= v
        BY <3>2, <3>3, <4>1, <4>3, AtLeastAsMuch
      <4> QED BY <4>4 DEF b, v
    <3> QED BY <3>4, <3>5
  <2> HIDE DEF D
  <2> QED BY <2>2, <2>3, <2>4, <2>8 DEF Covered
<1>6. faults' <= MaxFaults
  BY DEF StartRun, SteadyCovered
<1> QED BY <1>3, <1>4, <1>5, <1>6 DEF SteadyCovered

LEMMA NextPhaseCovers ==
  ASSUME Inv, Inv', SteadyCovered, NEW r \in Runs, NextPhase(r) PROVE SteadyCovered'
<1> DEFINE o == run[r]
           todo == KeysOf(Phases[o.phase + 1], db, o.now, o.zone)
           p == IF o.phase = 5 THEN IdleRun ELSE [o EXCEPT !.phase = o.phase + 1, !.todo = todo]
<1>1. run' = [run EXCEPT ![r] = p] /\ o.pc = "publish" /\ o.todo = {}
  BY DEF NextPhase
<1>2. /\ o \in RunType /\ o.phase \in 0..5 /\ o.now \in Nat /\ o.zone \in ZoneMap
      /\ db \in DbType
  BY RunFacts
<1> HIDE DEF o
<1>3. IF o.phase = 5 THEN p = IdleRun
      ELSE p.pc = o.pc /\ p.now = o.now /\ p.zone = o.zone /\ p.phase = o.phase + 1
           /\ p.todo = todo /\ p.cur = o.cur
  BY <1>2 DEF RunType
<1>4. IdleRun.pc = "idle"
  BY DEF IdleRun
<1> HIDE DEF p
<1>5. ASSUME NEW k \in steady, k \notin Sent, Carries(o, k, zone[k.user])
      PROVE  Carries(p, k, zone[k.user])
  <2>1. k \in EventKeys(db) /\ zone[k.user] \in Zones
    BY <1>5, SteadyFacts
  <2>2. PhaseOf(k) \in {2, 3} /\ o.phase < PhaseOf(k)
    BY <1>1, <1>5 DEF Carries, PhaseOf
  <2>3. /\ o.zone[k.user] = zone[k.user] /\ OpensAt(k, zone[k.user]) <= o.now
        /\ o.now < OpensAt(k, zone[k.user]) + 60
    BY <1>5 DEF Carries
  <2>4. o.phase + 1 = PhaseOf(k) => k \in todo
    BY <1>2, <2>1, <2>3, QueryAsks
  <2>5. p.pc = "publish" /\ p.now = o.now /\ p.zone = o.zone /\ p.phase = o.phase + 1
        /\ p.todo = todo
    BY <1>1, <1>2, <1>3, <2>2
  <2>6. p.phase < PhaseOf(k) \/ (p.phase = PhaseOf(k) /\ k \in p.todo)
    BY <1>2, <2>2, <2>4, <2>5
  <2> HIDE DEF todo
  <2> QED BY <2>3, <2>5, <2>6 DEF Carries
<1>6. Sent' = Sent /\ faults' = faults
  BY DEF NextPhase, Sent
<1>7. p.pc # "idle" => p.now = o.now
  BY <1>3, <1>4
<1> QED BY <1>1, <1>5, <1>6, <1>7, RunCovers DEF NextPhase, SteadyCovered, o

LEMMA CheckExistingCovers ==
  ASSUME Inv, Inv', SteadyCovered, NEW r \in Runs, NEW key \in run[r].todo, CheckExisting(r, key)
  PROVE  SteadyCovered'
<1> DEFINE o == run[r]
           todo == o.todo \ {key}
           p == IF key \in Sent THEN [o EXCEPT !.todo = todo]
                ELSE [o EXCEPT !.todo = todo, !.pc = "insert", !.cur = key]
<1>1. run' = [run EXCEPT ![r] = p] /\ o.pc = "publish"
  BY DEF CheckExisting
<1>2. o \in RunType
  BY RunFacts
<1> HIDE DEF o
<1>3. /\ p.pc = (IF key \in Sent THEN "publish" ELSE "insert") /\ p.now = o.now
      /\ p.zone = o.zone /\ p.phase = o.phase /\ p.todo = todo
      /\ key \notin Sent => p.cur = key
  BY <1>1, <1>2 DEF RunType
<1> HIDE DEF p
<1>4. ASSUME NEW k \in steady, k \notin Sent, Carries(o, k, zone[k.user])
      PROVE  Carries(p, k, zone[k.user])
  BY <1>1, <1>3, <1>4 DEF Carries
<1>5. Sent' = Sent /\ faults' = faults
  BY DEF CheckExisting, Sent
<1> QED BY <1>1, <1>3, <1>4, <1>5, RunCovers DEF CheckExisting, SteadyCovered, o

LEMMA NothingToSayCovers ==
  ASSUME Inv, Inv', SteadyCovered, NEW r \in Runs, NEW key \in run[r].todo, NothingToSay(r, key)
  PROVE  SteadyCovered'
<1> DEFINE o == run[r]
           todo == o.todo \ {key}
           p == [o EXCEPT !.todo = todo]
<1>1. run' = [run EXCEPT ![r] = p] /\ o.pc = "publish" /\ key.kind \in {"digest", "contextual"}
  BY DEF NothingToSay
<1>2. o \in RunType
  BY RunFacts
<1> HIDE DEF o
<1>3. /\ p.pc = "publish" /\ p.now = o.now /\ p.zone = o.zone /\ p.phase = o.phase
      /\ p.todo = todo
  BY <1>1, <1>2 DEF RunType
<1> HIDE DEF p
<1>4. ASSUME NEW k \in steady, k \notin Sent, Carries(o, k, zone[k.user])
      PROVE  Carries(p, k, zone[k.user])
  <2>1. k # key
    BY <1>1, <1>4, SteadyFacts DEF Reminders
  <2> QED BY <1>1, <1>3, <1>4, <2>1 DEF Carries
<1>5. Sent' = Sent /\ faults' = faults
  BY DEF NothingToSay, Sent
<1> QED BY <1>1, <1>3, <1>4, <1>5, RunCovers DEF NothingToSay, SteadyCovered, o

LEMMA InsertCovers ==
  ASSUME Inv, Inv', SteadyCovered, NEW r \in Runs, Insert(r) PROVE SteadyCovered'
<1> DEFINE o == run[r]
           p == [o EXCEPT !.pc = "publish", !.cur = None]
<1>1. run' = [run EXCEPT ![r] = p] /\ o.pc = "insert" /\ o.cur \in Sent'
  <2>1. Row(o.cur).key = o.cur
    BY DEF Row
  <2> QED BY <2>1 DEF Insert, Sent
<1>2. o \in RunType
  BY RunFacts
<1> HIDE DEF o
<1>3. /\ p.pc = "publish" /\ p.now = o.now /\ p.zone = o.zone /\ p.phase = o.phase
      /\ p.todo = o.todo
  BY <1>2 DEF RunType
<1> HIDE DEF p
<1>4. ASSUME NEW k \in steady, k \notin Sent', Carries(o, k, zone[k.user])
      PROVE  Carries(p, k, zone[k.user])
  BY <1>1, <1>3, <1>4 DEF Carries
<1>5. Sent \subseteq Sent' /\ faults' = faults
  BY DEF Insert, Sent
<1> QED BY <1>1, <1>3, <1>4, <1>5, RunCovers DEF Insert, SteadyCovered, o

LEMMA RunFailsCovers ==
  ASSUME Inv, Inv', SteadyCovered, NEW r \in Runs, RunFails(r) PROVE SteadyCovered'
<1> DEFINE o == run[r]
           p == IF o.phase = 5 /\ o.pc = "insert"
                  THEN [o EXCEPT !.pc = "publish", !.cur = None] ELSE IdleRun
<1>1. run' = [run EXCEPT ![r] = p] /\ o.pc # "idle"
  BY DEF RunFails
<1>2. o \in RunType
  BY RunFacts
<1> HIDE DEF o
<1>3. p.pc # "idle" => p.now = o.now
  BY <1>2 DEF RunType, IdleRun
<1> HIDE DEF p
<1>4. Sent \subseteq Sent' /\ faults' = faults + 1 /\ faults' <= MaxFaults
  BY ConstantsAssumption DEF RunFails, Sent, Inv, TypeOK
<1> QED BY <1>1, <1>3, <1>4, RunCovers DEF RunFails, o

LEMMA MembersDoCovers ==
  ASSUME Inv, Inv', SteadyCovered, NEW zone2, NEW db2, MembersDo(zone2, db2)
  PROVE  SteadyCovered'
<1> DEFINE more(o) == o.seen \cup DueKeys(db2, o.now, o.zone)
<1>1. /\ zone' = zone2 /\ db' = db2 /\ now' = now /\ ran' = ran /\ faults' = faults
      /\ Sent' = Sent
      /\ run' = [r \in Runs |-> IF run[r].pc = "idle" THEN run[r]
                                ELSE [run[r] EXCEPT !.seen = more(run[r])]]
  BY DEF MembersDo, Sent
<1> HIDE DEF more
<1>2. ASSUME NEW r \in Runs
      PROVE  /\ run'[r].pc = run[r].pc /\ run'[r].now = run[r].now /\ run'[r].zone = run[r].zone
             /\ run'[r].phase = run[r].phase /\ run'[r].todo = run[r].todo
             /\ run'[r].cur = run[r].cur
  <2>1. run[r] \in RunType
    BY RunFacts
  <2> QED BY <1>1, <2>1 DEF RunType
<1>3. Active' = Active
  BY <1>2 DEF Active
<1>4. ASSUME NEW k \in steady' \ Sent' PROVE Covered(k)'
  <2>1. k \in steady /\ k \notin Sent /\ k \in EventKeys(db2) /\ zone2[k.user] = zone[k.user]
    BY <1>1 DEF MembersDo
  <2>2. Carriers(k)' = Carriers(k)
    BY <1>1, <1>2, <2>1 DEF Carriers, Carries
  <2>3. Until(k)' = Until(k)
    BY <1>1, <2>1 DEF Until
  <2>4. Covered(k)
    BY <2>1 DEF SteadyCovered
  <2> QED BY <1>1, <2>1, <2>2, <2>3, <2>4 DEF Covered
<1> QED BY <1>1, <1>2, <1>3, <1>4 DEF SteadyCovered, Active

LEMMA TickCovers == ASSUME Inv, Inv', SteadyCovered, Tick PROVE SteadyCovered'
<1>1. /\ ran /\ now' = now + Step /\ ran' = FALSE /\ now \in Nat /\ Step \in Nat
      /\ UNCHANGED <<zone, db, run, faults>> /\ Sent' = Sent
  BY ConstantsAssumption DEF Tick, Inv, TypeOK, Sent
<1>2. Active' = Active /\ \A k : Carriers(k)' = Carriers(k)
  BY <1>1 DEF Active, Carriers
<1>3. \A r \in Active : run[r].now \in Nat
  BY RunFacts DEF Active
<1>4. ASSUME NEW k \in steady' \ Sent' PROVE Covered(k)'
  <2>1. CASE k \in steady
    <3>1. /\ Covered(k) /\ OpensAt(k, zone[k.user]) \in Int
          /\ OpensAt(k, zone[k.user]) <= now
      BY <1>1, <2>1, SteadyFacts
    <3>2. Until(k)' = Until(k)
      BY <1>1, <3>1 DEF Until
    <3> QED BY <1>1, <1>2, <3>1, <3>2 DEF Covered
  <2>2. CASE k \notin steady
    <3>1. k \in Opening(now + Step)
      BY <2>2 DEF Tick
    <3>2. k \in EventKeys(db) /\ zone[k.user] # None /\ OpensAt(k, zone[k.user]) = now'
      BY <1>1, <3>1 DEF Opening
    <3>3. db \in DbType /\ zone \in ZoneMap /\ faults \in Nat
      BY DEF Inv, TypeOK, ZoneMap
    <3>4. zone[k.user] \in Zones
      BY <3>2, <3>3, EventKeyFacts DEF ZoneMap
    <3>5. Until(k)' - OpensAt(k, zone[k.user]) = 0 /\ now' <= now'
      BY <1>1, <3>2 DEF Until
    <3>6. Cardinality(Carriers(k)) \in Nat
      BY CarriersFinite DEF SteadyCovered
    <3>7. (faults + Cardinality(Carriers(k))) * Step >= 0
      BY <1>1, <3>3, <3>6
    <3> QED BY <1>1, <1>2, <3>2, <3>4, <3>5, <3>7 DEF Covered
  <2> QED BY <2>1, <2>2
<1> QED BY <1>1, <1>2, <1>3, <1>4 DEF SteadyCovered

LEMMA NextCovers == Inv /\ Inv' /\ SteadyCovered /\ [Next]_vars => SteadyCovered'
<1> SUFFICES ASSUME Inv, Inv', SteadyCovered, [Next]_vars PROVE SteadyCovered'
  OBVIOUS
<1>1. ASSUME NEW r \in Runs, StartRun(r) PROVE SteadyCovered'
  BY <1>1, StartRunCovers
<1>2. ASSUME NEW r \in Runs, NextPhase(r) PROVE SteadyCovered'
  BY <1>2, NextPhaseCovers
<1>3. ASSUME NEW r \in Runs, NEW k \in run[r].todo, CheckExisting(r, k) PROVE SteadyCovered'
  BY <1>3, CheckExistingCovers
<1>4. ASSUME NEW r \in Runs, NEW k \in run[r].todo, NothingToSay(r, k) PROVE SteadyCovered'
  BY <1>4, NothingToSayCovers
<1>5. ASSUME NEW r \in Runs, Insert(r) PROVE SteadyCovered'
  BY <1>5, InsertCovers
<1>6. ASSUME NEW r \in Runs, RunFails(r) PROVE SteadyCovered'
  BY <1>6, RunFailsCovers
<1>7. ASSUME NEW zone2, NEW db2, MembersDo(zone2, db2) PROVE SteadyCovered'
  BY <1>7, MembersDoCovers
<1>8. CASE Tick
  BY <1>8, TickCovers
<1>9. CASE UNCHANGED vars
  BY <1>9 DEF vars, SteadyCovered, Active, Covered, Carriers, Until, Sent
<1> QED BY <1>1, <1>2, <1>3, <1>4, <1>5, <1>6, <1>7, <1>8, <1>9
        DEF Next, SetRsvp, SetMembership, SetDate, SetZone

(***************************************************************************)
(* Theorems.                                                                *)
(***************************************************************************)
\* Every run, key and answer has its type at all times (runDueAutomations).
THEOREM TypeCorrect == Spec => []TypeOK
<1>1. Inv => TypeOK
  BY DEF Inv
<1> QED BY <1>1, Invariance, PTL

\* No two notifications share a dedupe key, however runs overlap (publish).
THEOREM OnePerKey == Spec => []NotifiedOnce
<1>1. Inv => NotifiedOnce
  BY DEF Inv
<1> QED BY <1>1, Invariance, PTL

\* No reminder is sent that no moment of the run called for (runRsvpReminders,
\* runTodayReminders and the publishes that follow their queries).
THEOREM RemindersWereDue == Spec => ReminderWasDue
<1> DEFINE Justified ==
      \A n \in rows' \ rows :
        n.key.kind \in {"rsvp", "today"} =>
          \E r \in Runs : run'[r] # run[r] /\ n.key \in run[r].seen
<1>1. ASSUME Inv, [Next]_vars PROVE Justified
  <2> SUFFICES ASSUME NEW n \in rows' \ rows, n.key.kind \in {"rsvp", "today"}
               PROVE  \E r \in Runs : run'[r] # run[r] /\ n.key \in run[r].seen
    OBVIOUS
  <2>1. rows' # rows
    OBVIOUS
  <2>2. PICK r \in Runs : Insert(r)
    BY <1>1, <2>1 DEF Next, vars, StartRun, NextPhase, CheckExisting, NothingToSay, RunFails,
                      SetRsvp, SetDate, SetMembership, SetZone, MembersDo, Tick
  <2>3. n = Row(run[r].cur)
    BY <2>2 DEF Insert
  <2>4. n.key = run[r].cur
    BY <2>3 DEF Row
  <2>5. run[r].cur \in run[r].seen
    BY <1>1, <2>2, <2>4, RunFacts DEF Backed, Insert, Reminders
  <2>6. run'[r].pc = "publish" /\ run[r].pc = "insert"
    <3>1. run' = [run EXCEPT ![r] = [run[r] EXCEPT !.pc = "publish", !.cur = None]]
      BY <2>2 DEF Insert
    <3>2. run \in [Runs -> RunType] /\ run[r] \in RunType
      BY <1>1 DEF Inv, TypeOK
    <3>3. [run[r] EXCEPT !.pc = "publish", !.cur = None].pc = "publish"
      BY <3>2 DEF RunType
    <3>4. run'[r] = [run[r] EXCEPT !.pc = "publish", !.cur = None]
      BY <3>1, <3>2
    <3> QED BY <2>2, <3>3, <3>4 DEF Insert
  <2> QED BY <2>4, <2>5, <2>6
<1>2. [Justified]_vars <=> Justified \/ UNCHANGED vars
  OBVIOUS
<1>3. Inv /\ [Next]_vars => [Justified]_vars
  BY <1>1
<1> QED BY <1>3, Invariance, PTL DEF Spec, ReminderWasDue

\* As long as fewer runs fail than fit into an hour, every reminder about an
\* event that is wanted from the moment it opens to the end of its hour is sent
\* by then, in every time zone and however runs overlap and members change
\* (runRsvpReminders, runTodayReminders, IsDueAtLocalTime).
THEOREM RemindersReachMembers ==
  ASSUME MaxFaults * Step < 60 PROVE Spec => []ReminderNotLost
<1>1. Inv /\ SteadyCovered => ReminderNotLost
  <2> SUFFICES ASSUME Inv, SteadyCovered, NEW k \in steady, zone[k.user] # None,
                      now >= OpensAt(k, zone[k.user]) + 60,
                      \A r \in Runs : run[r].pc = "idle",
                      k \notin Sent
               PROVE  FALSE
    BY DEF ReminderNotLost
  <2>1. Carriers(k) = {}
    BY DEF Carriers, Carries
  <2>2. Cardinality(Carriers(k)) = 0
    BY <2>1, FS_EmptySet
  <2>3. /\ OpensAt(k, zone[k.user]) \in Int /\ now \in Nat /\ Step \in Nat /\ faults \in Nat
        /\ faults + 0 = faults
        /\ (faults + 0) * Step >= Until(k) - OpensAt(k, zone[k.user])
    BY <2>2, SteadyFacts
  <2>4. Until(k) = OpensAt(k, zone[k.user]) + 60
    BY <2>3 DEF Until
  <2>5. faults * Step >= 60
    BY <2>3, <2>4
  <2>6. faults <= MaxFaults /\ MaxFaults \in Nat
    BY ConstantsAssumption DEF SteadyCovered
  <2>7. MaxFaults * Step >= 60
    BY <2>3, <2>5, <2>6, AtLeastAsMuch
  <2> QED BY <2>3, <2>6, <2>7
<1> QED BY <1>1, Invariance, InitCovers, NextCovers, PTL DEF Spec
===============================================================================
