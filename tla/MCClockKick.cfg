SPECIFICATION ClockSpec
CONSTANTS
  Windows = FALSE
  Field = 4
  DmaTime = 2
  DecMax = 2
  MaxWrites = 2
INVARIANTS
  WakesInTime
