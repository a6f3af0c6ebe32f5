SPECIFICATION MCFairSpec
CONSTANTS
  n1 = n1
  n2 = n2
  orgX = orgX
  orgY = orgY
  poolA = poolA
  poolB = poolB
  Persons <- TwoPersons
  Companies <- TwoCompanies
  Pools <- TwoPools
  Requests <- ThreeRequests
  Purchased <- OneSeatEach
  Commands <- AccountMoves
  MaxDay = 2
PROPERTY RemovalsEnd
CHECK_DEADLOCK FALSE
