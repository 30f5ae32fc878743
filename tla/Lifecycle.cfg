\* Every limit exceeded at every level, sessions in each place, events that are
\* too old or become so, on the three platforms.
SPECIFICATION Spec
CONSTANTS
  None = None
  Value <- Values
  maxPropertyDepth = 2
  maxKeysPerLevel = 2
  maxArrayLength = 2
  maxStringLength = 2
  minEventsPerBatch = 1
  maxEventsPerBatch = 2
  maxPayloadSize = 17
  Retention = 6
  Second = 2
  Platform = {"express", "lambda", "azure"}
  Post <- Posts
  Query <- Queries
  FirstNow = 4
  LastNow = 10
  BulkTime = 1
INVARIANTS TypeOK OnlyValidIsStored SecondValidationAgrees SessionFindable AnswerIsTheEvent ExpiresOnItsDay YoungBatchIsStored FourHundredIsFinal
CHECK_DEADLOCK FALSE
