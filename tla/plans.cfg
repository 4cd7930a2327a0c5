\* An owner, one other user and two concurrent calls; three rows read one by one.
CONSTANTS
  o = o
  u1 = u1
  c1 = c1
  c2 = c2
  Owner = o
  Users = {o, u1}
  Calls = {c1, c2}
  None = None
  Patches <- MCPatches
  MaxChanges = 1
  MaxMessages = 1
  Ids = {1, 2, 3}
  Dates = {1, 2}
  Limit = 1
  MaxPageChanges = 2
SYMMETRY Symmetry
SPECIFICATION MCSpec
INVARIANTS RightPeopleTold OneSettingJustifies ExactPlaceForMembers KeptShownOnce
CHECK_DEADLOCK FALSE
