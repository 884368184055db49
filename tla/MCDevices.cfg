SPECIFICATION DevicesSpec
CONSTANTS
  Thread = {t1, t2}
  NChan = 1
  Callback = {f}
  Null = null
  DoneMax = 2
  Settle = 1
  Horizon = 2
  MaxRequests = 3
  Button = {b}
  Port = {p1, p2}
  Device = {"VI", "PE", "DSP", "EXI", "DI", "SI", "IPC"}
  Dir = {tmp, d}
  Leaf = {l}
  Tmp = tmp
  Value = {z}
  Zero = z
  MaxLen = 2
  MaxFd = 2
INVARIANTS
  FsInv
  PadInv
  HeardLatest
  RegInv
PROPERTIES
  AllOrNothing
  GoneAfterHere
  TruthIsTold
  AllAnswered
