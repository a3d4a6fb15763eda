\* Who waits is answered: coalesced misses, held players, probed origins.
SPECIFICATION ProgressSpec
CONSTANTS
  Requests = {r1, r2, r3}
  None = None
  Verdicts = {TRUE, FALSE}
CHECK_DEADLOCK FALSE
INVARIANTS
  LeaderOwnsEntry
  OnlyUncacheableOrphans
  WindowConsistent
  NoLostWakeup
  AnswerHasTarget
PROPERTIES
  EveryRequestEnds
  RequestsAnswered
  
