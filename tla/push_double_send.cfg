\* Two overlapping dispatch calls and one delivery.
CONSTANTS
  i1 = i1
  Deliveries = {1}
  Installations = {i1}
  InstallationOf <- OneDelivery
  Workers = {w1, w2}
  Syncers = {}
  MAX_SEND_ATTEMPTS = 2
  MAX_SEND_BATCH_SIZE = 1
  MAX_RECEIPT_BATCH_SIZE = 1
  Watched = {}
  JobLimit = 1
  EndpointLimits = {1}
  RetryLimit = 0
  MaxJobs = 1
  MaxFaults = 0
SPECIFICATION MCSpec
INVARIANT OverlappingCallsNeverSendTwice
CHECK_DEADLOCK FALSE
