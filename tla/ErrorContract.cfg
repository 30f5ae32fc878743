\* Azure Functions answers most mistakes in a query's parameters with 500.
SPECIFICATION Spec
CONSTANTS
  None = None
  Value <- Values
  maxPropertyDepth = 2
  maxKeysPerLevel = 2
  maxArrayLength = 2
  maxStringLength = 2
  minEventsPerBatch = 1
  maxEventsPerBatch = 2
  maxPayloadSize = 17
  Retention = 6
  Second = 2
  Platform = {"express", "lambda", "azure"}
  Post <- NoPosts
  Query <- Mistakes
  FirstNow = 4
  LastNow = 4
  BulkTime = 1
INVARIANT QueryMistakesAre400
CHECK_DEADLOCK FALSE
