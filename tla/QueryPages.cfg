\* Paging by key while events arrive and expire.
SPECIFICATION FairSpec
CONSTANTS
  None = None
  Adapter = {"memory", "cosmos", "dynamo"}
  Event <- Events
  Request <- Queries
  Part <- Parts
  Limit = 1
  ReadCap = 9
  Unit <- Units
  Minute = 4
  Milli = 2
  Window = 6
  FirstNow = 5
  LastNow = 7
INVARIANTS TypeOK NoEventTwice PagesInOrder MatchesIfPlain NothingSkipped PagesAreFull
PROPERTIES PagingEnds ImplementsWalk
CHECK_DEADLOCK FALSE
