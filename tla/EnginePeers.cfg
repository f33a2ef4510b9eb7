SPECIFICATION Spec
CONSTANTS
  Pieces = {p1, p2}
  Blocks = {b1}
  Peers = {x, y}
  Fillers = {f1}
  MultiThreaded = FALSE
  Deselected = {}
  OnDisk = {p2}
  Restored = {}
  EndgameDivisor = 1
  kEndgamePieceThreshold = 2
  kEndgameFanout = 6
  kTailBlocksPerPeer = 2
  MaxFaults = 2
  MaxDisconnects = 0
SYMMETRY PeerSymmetry
INVARIANTS PiecesCovered
CHECK_DEADLOCK FALSE
