\* Two users and three concurrent requests; each user files one join request.
CONSTANTS
  None = None
  Users = {u1, u2}
  Calls = {c1, c2, c3}
  MaxRequests = 1
SYMMETRY Symmetry
SPECIFICATION Spec
INVARIANTS CreatorOwns AcceptedIsWilling DecidedOnce InviteOnlyAdmitsInvited
PROPERTY DemotedOnlyByStaleCall
CHECK_DEADLOCK FALSE
