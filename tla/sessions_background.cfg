\* One user, three sessions, three concurrent requests.  Or overlapping calls that
\* retry one delivery, the dispatch endpoint called for ever; or one import, a run
\* of which resolves one of its two places, without crashes.
CONSTANTS
  None = None
  Users = {u1}
  Sessions = {1, 2, 3}
  Calls = {1, 2, 3}
  i1 = i1
  k1 = k1
  k2 = k2
  p1 = p1
  p2 = p2
  q1 = q1
  j1 = j1
  Deliveries = {1, 2}
  Installations = {i1}
  Workers = {w1, w2}
  Syncers = {}
  MAX_SEND_ATTEMPTS = 2
  MAX_SEND_BATCH_SIZE = 1
  MAX_RECEIPT_BATCH_SIZE = 1
  JobLimit = 1
  EndpointLimits = {1}
  RetryLimit = 0
  MaxJobs = 0
  MaxFaults = 0
SPECIFICATION MCSpec
INVARIANTS OneActivePerLogin LoginNotLost ActiveHasUser
PROPERTIES LoginsSpec PendingDrains PollingEnds RetriesConverge
CHECK_DEADLOCK FALSE
