SPECIFICATION ClockFairSpec
CONSTANTS
  Windows = TRUE
  Field = 4
  DmaTime = 2
  DecMax = 2
  MaxWrites = 2
INVARIANTS
  ClockInv
PROPERTY Taken
