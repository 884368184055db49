SPECIFICATION FairSpec
CHECK_DEADLOCK FALSE
CONSTANTS
  Thread = {t1, t2}
  Peekers = {t1, t2}
  Copiers = {}
  Null = null
  FramesAhead = 1
  QueueMax = 2
  MaxCommands = 1
PROPERTIES
  ReadBackEnds
