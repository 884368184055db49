SPECIFICATION Spec
CONSTANTS
  BootLen = 2
  Patience = 3
  LateMax = 4
  Target = 3
  MaxQueue = 4
  N = 4
  MsPerFrame = 3
  One = 4
  Ratios = {3, 9}
  Tracks <- MCTracks
  MaxFed = 40
INVARIANTS
  AudioInv
  SkipsNoFrame
  VoiceInv
PROPERTIES
  BlocksKeepComing
  StartsOnTime
