SPECIFICATION MCSpec
CONSTANTS
  Viewer = v
  Author = a
  c1 = c1
  c2 = c2
  g1 = g1
  g2 = g2
  p1 = p1
  p2 = p2
  p3 = p3
  Calls = {c1, c2}
  Readers = {c1}
  Patches <- MCPatches
  MaxChanges = 2
  Places = {p1, p2, p3}
  Requests = {g1, g2}
  NoPlace = NoPlace
  MaxEdits = 2
  MaxMoves = 1
SYMMETRY Symmetry
INVARIANT FollowIsIdempotent
CHECK_DEADLOCK FALSE
