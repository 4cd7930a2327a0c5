\* Two replicas and two requests; a waiter gives up the lock after one lost race.
\* Two places, every curation of them, and one write of an admin meanwhile.
CONSTANTS
  None = None
  Replicas = {p1, p2}
  Requests = {r1, r2}
  Kinds = {"autocomplete", "city", "coordinates", "reverse"}
  MaxAttempts = 0
  Places = {1, 2}
  Asked <- MCAsked
  MaxPicks = 1
  MaxCurated = 1
  MaxChanges = 1
SPECIFICATION MCSpec
INVARIANTS OneLoaderUnlessLate FailureStaysLocal CachedCityIsStored
  HiddenStaysHidden NothingTwice PromotedComesFirst
PROPERTY RequestsEnd
CHECK_DEADLOCK FALSE
