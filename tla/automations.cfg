\* One user, two western time zones, one event, one failing run; Sunday 21:00 to Monday 21:00.
CONSTANTS
  None = None
  u1 = u1
  u2 = u2
  e1 = e1
  e2 = e2
  Users = {u1}
  Events = {e1}
  Dates = {8, 9}
  StatusOf <- OneOfEach
  InvitedAt <- Invited
  Prefs <- Evenings
  Zones <- WestZones
  Runs = {r1, r2}
  Step = 30
  RunLength = 30
  Start <- SundayEve
  End <- MondayEve
  MaxChanges = 1
  MaxFaults = 1
SYMMETRY Symmetry
SPECIFICATION Spec
INVARIANTS NotifiedOnce ReminderNotLost
PROPERTY ReminderWasDue
CHECK_DEADLOCK FALSE
