SPECIFICATION MCSpec
CONSTANTS
  w1 = w1
  w2 = w2
  alice = alice
  Workers <- TwoWorkers
  Admins <- OneAdmin
  MaxAttempts = 1
  Pages = 1
  HomePage = 1
  MaxFaults = 1
  LossyLocks = FALSE
PROPERTIES EvidenceGetsItsState
CHECK_DEADLOCK FALSE
