SPECIFICATION MCSpec
CONSTANTS
  n1 = n1
  n2 = n2
  orgX = orgX
  orgY = orgY
  poolA = poolA
  poolB = poolB
  Persons <- TwoPersons
  Companies <- TwoCompanies
  Pools <- TwoPools
  Requests <- ThreeRequests
  Purchased <- OneSeatEach
  Commands <- CompanyMoves
  MaxDay = 2
INVARIANT SeatsFollowHolder
CHECK_DEADLOCK FALSE
