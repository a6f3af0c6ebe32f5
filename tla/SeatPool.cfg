SPECIFICATION MCSpec
CONSTANTS
  s1 = s1
  s2 = s2
  w1 = w1
  w2 = w2
  nobody = nobody
  Nobody = nobody
  Sessions <- TwoSessions
  Recoverers <- TwoRecoverers
  Requests <- ThreeRequests
  Operations = {"approve", "confirm", "retry", "change", "reject", "mark_not_done", "withdraw", "offboard"}
  Kinds = {"checklist", "invite"}
  MaxQty = 2
  MaxAttempts = 2
  MaxTime = 2
  MaxFaults = 2
  Days <- TwoDays
  OperatingDay <- LongDayOf
INVARIANTS TypeOK ActionMatchesState SeatMatchesState
PROPERTIES FreshTakeFits LifecycleIsLegal RecoveryFits ResumeInOrder RecoveryUsesEverySeat
SYMMETRY Alike
CHECK_DEADLOCK FALSE
