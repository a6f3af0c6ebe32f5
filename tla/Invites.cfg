SPECIFICATION MCSpec
CONSTANTS
  w1 = w1
  w2 = w2
  alice = alice
  Workers <- TwoWorkers
  Admins <- OneAdmin
  MaxAttempts = 2
  Pages = 1
  HomePage = 1
  MaxFaults = 2
  LossyLocks = TRUE
INVARIANTS CallsOnce
PROPERTIES HonoursContract AcceptedJoins ReceiptSettles
CHECK_DEADLOCK FALSE
