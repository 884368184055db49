SPECIFICATION FairSpec
CONSTANTS
  Block = {b1, b2, b3}
  Null = null
  Latency = 2
INVARIANTS
  IpcInv
  NotInsideTheCall
PROPERTIES
  AllReplied
