SPECIFICATION Spec
CONSTANTS
  w1 = w1
  w2 = w2
  Worker = {w1, w2}
  MaxNum = 2
  ChunkSize = 2
  Requests <- MCRequests
  MaxRequests = 2
  Troubles = {"block", "redis", "expiry", "stop"}
  MaxTroubles = 1
INVARIANTS
  RescanTypeOK
  ProgressHonest
  NothingLost
  RangesSound
  ChunkExclusive
PROPERTIES
  Served
