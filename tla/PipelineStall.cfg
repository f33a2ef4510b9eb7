SPECIFICATION Spec
CONSTANTS
  Requests = {r1, r2}
  ShortRequests = {}
  BLOCK_SIZE = 2
  ShortSize = 1
  MaxOutstanding = 2
  MAX_PIPELINE_BUFFER = 3
  WordSize = 64
SYMMETRY RequestSymmetry
INVARIANTS NoSilentStall
CHECK_DEADLOCK FALSE
