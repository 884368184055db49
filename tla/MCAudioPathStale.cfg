SPECIFICATION AudioSpec
CONSTANTS
  BootLen = 2
  Patience = 3
  LateMax = 4
  Target = 3
  MaxQueue = 4
PROPERTY GivesUpLate
