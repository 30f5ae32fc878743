\* Lambda and SQS, with fairness: an unparseable message shares invocations with
\* good ones, reads of the raw batch fail and invocations crash; every message
\* leaves the queue all the same, and every 202 is followed up.
SPECIFICATION FairSpec
CONSTANTS
  b1 = b1
  b2 = b2
  w1 = w1
  w2 = w2
  t1 = t1
  t2 = t2
  Batch = {b1, b2}
  Worker = {w1}
  Garbage = {"junk"}
  None = None
  Backend = "dynamo"
  Event <- OneEvent
  Oversize = {}
  MaxEvents = 1
  RecordsMax = 2
  MaxReceive = 2
  ChunkSize = 1
  Faults = {"fetch", "crash"}
PROPERTIES QueueDrains AcceptedSettles
CHECK_DEADLOCK FALSE
