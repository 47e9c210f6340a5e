SPECIFICATION Spec
CONSTANTS
  w1 = w1
  w2 = w2
  Worker = {w1}
  MaxNum = 2
  ChunkSize = 2
  Requests <- MCRequests
  MaxRequests = 1
  Troubles = {"stop"}
  MaxTroubles = 1
PROPERTIES
  AlwaysServed
