SPECIFICATION FairSpec
CONSTANTS
  Size = 5
  HighMark = 2
  LowMark = 1
  Slack = 1
  Half = 2
  MaxBursts = 8
INVARIANTS
  FifoInv
  StopsOnlyThere
  NotWrittenOver
  LineRaised
PROPERTY AllRead
