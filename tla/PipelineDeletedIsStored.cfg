\* A failed write to the operational store does not bring the message back.
SPECIFICATION Spec
CONSTANTS
  b1 = b1
  b2 = b2
  w1 = w1
  w2 = w2
  t1 = t1
  t2 = t2
  Batch = {b1}
  Worker = {w1}
  Garbage = {}
  None = None
  Backend = "dynamo"
  Event <- TwoEvents
  Oversize = {}
  MaxEvents = 2
  RecordsMax = 1
  MaxReceive = 2
  ChunkSize = 1
  Faults = {"store"}
INVARIANT DeletedIsStored
CHECK_DEADLOCK FALSE
