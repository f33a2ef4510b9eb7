SPECIFICATION Spec
CONSTANTS
  Requests = {r1, r2, s1}
  ShortRequests = {s1}
  BLOCK_SIZE = 2
  ShortSize = 1
  MaxOutstanding = 2
  MAX_PIPELINE_BUFFER = 3
  WordSize = 64
SYMMETRY RequestSymmetry
INVARIANTS WorkConserving SlotsBacked
CHECK_DEADLOCK FALSE
