\* Lambda + SQS + DynamoDB: invocations of up to two records, chunks of one
\* put, crashes and every failure of a call that changes something.
SPECIFICATION Spec
CONSTANTS
  b1 = b1
  b2 = b2
  w1 = w1
  w2 = w2
  t1 = t1
  t2 = t2
  Batch = {b1, b2}
  Worker = {w1, w2}
  Garbage = {}
  None = None
  Backend = "dynamo"
  Event <- TwoEvents
  Oversize = {}
  MaxEvents = 2
  RecordsMax = 2
  MaxReceive = 2
  ChunkSize = 1
  Faults = {"raw", "queue", "reply", "store", "crash"}
SYMMETRY Symmetry
INVARIANTS TypeOK PointerHasBatch AcceptedIsDurable RowsComeFromBatches OneRowPerEvent NoSilentLoss
CHECK_DEADLOCK FALSE
