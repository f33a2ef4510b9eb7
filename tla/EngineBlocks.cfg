SPECIFICATION Spec
CONSTANTS
  Pieces = {p1}
  Blocks = {b1, b2}
  Peers = {x}
  Fillers = {f1}
  MultiThreaded = FALSE
  Deselected = {}
  OnDisk = {}
  Restored = {p1}
  EndgameDivisor = 1
  kEndgamePieceThreshold = 2
  kEndgameFanout = 6
  kTailBlocksPerPeer = 2
  MaxFaults = 2
  MaxDisconnects = 1
INVARIANTS HaveIsGood PiecesCovered
CHECK_DEADLOCK FALSE
