SPECIFICATION Suite
CONSTANTS
  Correction = {k1, k2, k3}
  Flight = {h1, h2}
  MaxTime = 4
  CoordinatorSerializes = TRUE
  EmployeesEdit = TRUE
  LegacyClients = TRUE
  RequestsStop = TRUE
  MeasuredCodes = {"LATE_ARRIVAL"}
  NoKey = NoKey
  NoHandler = NoHandler
SYMMETRY Symmetry
INVARIANTS
  EffectsMatchDecisions
  DaysAreSettled
  ApprovalsStay
PROPERTIES
  ReviewsSpareLockedDays
  PageTellsTheTruth
CHECK_DEADLOCK FALSE
