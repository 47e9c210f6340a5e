SPECIFICATION Spec
CONSTANTS
  w1 = w1
  w2 = w2
  Worker = {w1, w2}
  MaxNum = 2
  ChunkSize = 2
  Requests <- MCRequests
  MaxRequests = 2
  Troubles = {}
  MaxTroubles = 0
PROPERTIES
  ServedAgain
