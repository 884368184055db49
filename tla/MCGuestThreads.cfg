SPECIFICATION FairSpec
CONSTANTS
  Ctx = {main, a, b}
  Main = main
  Host = {h0, h1, h2}
  MainHost = h0
  Idle = idle
  Null = null
  MaxDepth = 2
  RecreateOwn = FALSE
INVARIANTS
  StackInv
  ThreadsInv
  HandlerFindsItsContext
  StartsAnew
PROPERTIES
  ImplementsSingleCore
  HandoffCompletes
  RetiredEnds
