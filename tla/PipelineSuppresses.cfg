\* On Cosmos DB an event is taken for one of another application and dropped.
SPECIFICATION Spec
CONSTANTS
  b1 = b1
  b2 = b2
  w1 = w1
  w2 = w2
  t1 = t1
  t2 = t2
  Batch = {b1, b2}
  Worker = {w1}
  Garbage = {}
  None = None
  Backend = "cosmos"
  Event <- Namesakes
  Oversize = {}
  MaxEvents = 1
  RecordsMax = 1
  MaxReceive = 2
  ChunkSize = 1
  Faults = {}
INVARIANT NoSilentLoss
CHECK_DEADLOCK FALSE
