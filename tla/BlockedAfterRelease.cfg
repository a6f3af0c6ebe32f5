SPECIFICATION FairSpec
CONSTANTS
  s1 = s1
  s2 = s2
  w1 = w1
  w2 = w2
  nobody = nobody
  Nobody = nobody
  Sessions <- OneSession
  Recoverers <- OneRecoverer
  Requests <- TwoRequests
  Operations = {"approve", "confirm", "offboard"}
  Kinds = {"checklist"}
  MaxQty = 1
  MaxAttempts = 1
  MaxTime = 1
  MaxFaults = 0
  Days <- TwoDays
  OperatingDay <- DayOf
PROPERTIES BlockedAutoResume
CHECK_DEADLOCK FALSE
