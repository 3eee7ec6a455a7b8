SPECIFICATION Suite
CONSTANTS
  TicksPerMinute = 2
  MinutesPerDay = 3
  RegularDay = 2
  Increment = 2
  MaximumShift = 3
  Shift <- OvernightShift
  MaxEvents = 4
  MaxTick = 8
  MeasuredCodes = {}
  none = none
INVARIANT TimeIsCounted
PROPERTY MoneyAddsUp
CHECK_DEADLOCK FALSE
