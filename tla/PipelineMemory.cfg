\* The in-memory store, with an eventId in two applications and in several batches,
\* and a batch that the processor's validation rejects.
SPECIFICATION Spec
CONSTANTS
  b1 = b1
  b2 = b2
  w1 = w1
  w2 = w2
  t1 = t1
  t2 = t2
  Batch = {b1, b2}
  Worker = {w1, w2}
  Garbage = {}
  None = None
  Backend = "memory"
  Event <- FourEvents
  Oversize <- ThirdEvent
  MaxEvents = 2
  RecordsMax = 2
  MaxReceive = 2
  ChunkSize = 1
  Faults = {}
PROPERTY FirstWriteIsFinal
INVARIANT LostOnlyToNamesake
CHECK_DEADLOCK FALSE
