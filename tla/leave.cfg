SPECIFICATION Suite
CONSTANTS
  MinutesPerDay = 8
  Leave = {l1, l2}
  Flight = {f1, f2}
  LastDay = 2
  MaxMinutes = 2
  Entitlement = {0, 2}
  DefaultEntitlement = 2
  Scheduled <- TwoDays
  PeriodEnd = 1
  CoordinatorSerializes = TRUE
  l1 = l1
SYMMETRY Symmetry
INVARIANTS
  BalanceFollowsRequests
  ApprovedLeaveCounts
PROPERTIES
  ChecksHoldUntilWritten
  PostgresKeepsLeave
CHECK_DEADLOCK FALSE
