\* The background services of a node, one at a time.
SPECIFICATION Spec

CONSTANTS
  Nodes = {n1, n2, n3}
  Keys = {"scan", "d"}
  NoOwner = NoOwner

INVARIANTS
  TokensFollowOrder
  LocksFollowScan
  StatusTrue
  OneFetchPerSegment
  CountersHold
  Recorded
  ListedAreGone
PROPERTIES
  LeaseKept
  DeliveredInOrder
  TasksSettle
  AnswersSettle

\* Warm tasks, log entries and purge requests come to an end.
CHECK_DEADLOCK FALSE
