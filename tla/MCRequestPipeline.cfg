SPECIFICATION FairSpec
CONSTANTS
  MaxChunks = 2
  MaxSize = 1
  MaxBody = 1
  Retries = 2
  MaxStale = 1
INVARIANTS
  StoredIsOrigin
  HeaderFitsBody
PROPERTY
  RequestEnds
CHECK_DEADLOCK FALSE
