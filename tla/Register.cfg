SPECIFICATION RegisterSpec
CONSTANTS
  n1 = n1
  n2 = n2
  orgX = orgX
  orgY = orgY
  poolA = poolA
  poolB = poolB
  rateA = rateA
  rateB = rateB
  Persons <- TwoPersons
  Companies <- TwoCompanies
  Pools <- TwoPools
  Requests <- ThreeRequests
  Purchased <- OneSeatEach
  Commands <- AllCommands
  MaxDay = 1
  Organizations <- TwoCompanies
  MonthDays <- LastOfMonth
  Runs <- TwoRuns
  RateIds <- TwoRates
  RateRows <- Rows
  Invoices <- TwoInvoices
INVARIANTS SeatsFit MovedOnce DayChargedOnce SplitIsExact RollupStands
PROPERTIES FinalsStand
CHECK_DEADLOCK FALSE
SYMMETRY RegisterSymmetry
