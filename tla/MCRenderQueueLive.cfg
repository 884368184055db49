SPECIFICATION FairSpec
CONSTANTS
  Thread = {t1, t2}
  Peekers = {}
  Copiers = {t1}
  Null = null
  FramesAhead = 1
  QueueMax = 2
  MaxCommands = 2
PROPERTIES
  DrawDoneTold
  ReadBackEnds
