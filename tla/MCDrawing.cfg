SPECIFICATION Spec
CONSTANTS
  NMap = 2
  Addr = {a}
  Outside = out
  Value = {v, w}
  Prim = {triangles}
  Flags = {plain, colour}
  MaxCopies = 1
  MaxRec = 2
  MaxPieces = 2
  Size = {1, 2}
  ColorSize = {3}
  NColor = 1
  NTex = 1
  VtxBytes = 5
  Quarter = 16
  MaxVerts = 2
  MaxFlight = 6
  BurstLen = 3
  VSizes = {1, 2}
  MaxCount = 1
  MaxOwed = 2
INVARIANTS
  ParsedAsSent
  TexturesRight
  GxInv
  InStep
  NotOverwritten
