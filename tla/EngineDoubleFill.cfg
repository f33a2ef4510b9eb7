SPECIFICATION Spec
CONSTANTS
  Pieces = {p1}
  Blocks = {b1}
  Peers = {x}
  Fillers = {f1, f2}
  MultiThreaded = TRUE
  Deselected = {}
  OnDisk = {}
  Restored = {}
  EndgameDivisor = 1
  kEndgamePieceThreshold = 2
  kEndgameFanout = 6
  kTailBlocksPerPeer = 2
  MaxFaults = 0
  MaxDisconnects = 0
INVARIANTS CompletedCountsHave
CHECK_DEADLOCK FALSE
