\* Two users and one request at a time.
CONSTANTS
  None = None
  Users = {u1, u2}
  Calls = {c1}
  MaxRequests = 1
SPECIFICATION Spec
INVARIANT RejectedCallLeavesNothing
CHECK_DEADLOCK FALSE
