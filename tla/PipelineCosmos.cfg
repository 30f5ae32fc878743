\* Functions + Storage Queue + Cosmos DB: one message for each invocation, which
\* may outlive its lease; bulk writes that fail in part; an eventId at two times, in
\* one batch or in two, and an event whose batch the processor's validation rejects.
SPECIFICATION Spec
CONSTANTS
  b1 = b1
  b2 = b2
  w1 = w1
  w2 = w2
  t1 = t1
  t2 = t2
  Batch = {b1, b2}
  Worker = {w1, w2}
  Garbage = {}
  None = None
  Backend = "cosmos"
  Event <- TwoTimes
  Oversize <- SecondEvent
  MaxEvents = 2
  RecordsMax = 1
  MaxReceive = 2
  ChunkSize = 1
  Faults = {"check", "store", "overlap"}
SYMMETRY Symmetry
INVARIANTS OneRowPerId NoSilentLoss
PROPERTY ImplementsDurableLog
CHECK_DEADLOCK FALSE
