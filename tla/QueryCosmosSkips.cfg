\* The continuation token stands behind the extra event that was fetched.
SPECIFICATION Spec
CONSTANTS
  None = None
  Adapter = {"cosmos"}
  Event <- Events
  Request <- PlainQuery
  Part <- Parts
  Limit = 1
  ReadCap = 9
  Unit <- Units
  Minute = 4
  Milli = 2
  Window = 6
  FirstNow = 5
  LastNow = 5
INVARIANT PagingIsComplete
CHECK_DEADLOCK FALSE
