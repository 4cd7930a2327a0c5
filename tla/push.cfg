\* Two deliveries, two dispatch calls, a receipt sync; one job, retry and fault.
CONSTANTS
  i1 = i1
  Deliveries = {1, 2}
  Installations = {i1}
  InstallationOf <- OneDevice
  Workers = {w1, w2}
  Syncers = {s1}
  MAX_SEND_ATTEMPTS = 2
  MAX_SEND_BATCH_SIZE = 2
  MAX_RECEIPT_BATCH_SIZE = 2
  Watched = {1}
  JobLimit = 2
  EndpointLimits = {2}
  RetryLimit = 1
  MaxJobs = 1
  MaxFaults = 1
SYMMETRY Symmetry
SPECIFICATION MCSpec
INVARIANTS RetryBudget RevocationTakesEffect DeliveredWasSent
PROPERTY OutboxSpec
CHECK_DEADLOCK FALSE
