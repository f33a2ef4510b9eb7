SPECIFICATION Spec
CONSTANTS
  Pieces = {p1, p2}
  Blocks = {b1}
  Peers = {x}
  Fillers = {f1}
  MultiThreaded = FALSE
  Deselected = {}
  OnDisk = {}
  Restored = {p1}
  EndgameDivisor = 1
  kEndgamePieceThreshold = 2
  kEndgameFanout = 6
  kTailBlocksPerPeer = 2
  MaxFaults = 1
  MaxDisconnects = 0
INVARIANTS CompletedCountsHave
PROPERTY ImplementsLifecycle
CHECK_DEADLOCK FALSE
