SPECIFICATION Spec
CONSTANTS
  Pieces = {p1}
  Blocks = {b1}
  Peers = {x, y}
  Fillers = {f1}
  MultiThreaded = TRUE
  Deselected = {}
  OnDisk = {}
  Restored = {}
  EndgameDivisor = 1
  kEndgamePieceThreshold = 2
  kEndgameFanout = 6
  kTailBlocksPerPeer = 2
  MaxFaults = 0
  MaxDisconnects = 0
SYMMETRY PeerSymmetry
INVARIANTS PiecesCovered
CHECK_DEADLOCK FALSE
