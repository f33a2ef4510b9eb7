SPECIFICATION MCSpec
CONSTANTS
  Writers = {w1, w2}
  MaxSends = 3
  Holders = {h1, h2}
SYMMETRY Alike
INVARIANTS
  KeystreamFollowsWire KeystreamsAligned WithinLimits BannedStayOut
  
PROPERTIES
  ImplementsChannel StartIsAuthentic
CHECK_DEADLOCK FALSE
