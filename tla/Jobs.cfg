SPECIFICATION MCSpec
CONSTANTS
  i1 = i1
  i2 = i2
  j1 = j1
  j2 = j2
  k1 = k1
  s1 = s1
  w1 = w1
  w2 = w2
  nobody = nobody
  Instances <- TwoInstances
  Jobs <- TwoJobs
  Keys <- OneKey
  KeyOf <- SharedKey
  RetryLimit = 1
  MaxFaults = 2
INVARIANTS RepeatsExplained OneAtATime
PROPERTIES JobsEnd DueWorkCompletes
CHECK_DEADLOCK FALSE
