\* The limit of a DynamoDB query counts the rows the filter removes.
SPECIFICATION Spec
CONSTANTS
  None = None
  Adapter = {"dynamo"}
  Event <- Events
  Request <- FilteredQuery
  Part <- Parts
  Limit = 1
  ReadCap = 9
  Unit <- Units
  Minute = 4
  Milli = 2
  Window = 6
  FirstNow = 5
  LastNow = 5
INVARIANT PagingIsComplete
CHECK_DEADLOCK FALSE
