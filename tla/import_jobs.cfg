\* One request at a time and two jobs, two places, one resolve for each run, and
\* one fault when the jobs do not overlap.
CONSTANTS
  None = None
  k1 = k1
  k2 = k2
  p1 = p1
  p2 = p2
  Keys = {k1, k2}
  Places = {p1, p2}
  PlaceOf <- TwoPlaces
  Resolvable = {p1, p2}
  Requests = {q1}
  Jobs = {j1, j2}
  MAX_REMOTE_PLACE_RESOLVES_PER_IMPORT_RUN = 1
  RetryLimit = 1
  MaxFaults = 1
  MaxByHand = 1
SYMMETRY Symmetry
VIEW View
SPECIFICATION MCSpec
INVARIANTS CoveredIsRecorded MatchedWasSaved DeletionStopsJobs ResolveBudget
PROPERTY MatchedStays
CHECK_DEADLOCK FALSE
