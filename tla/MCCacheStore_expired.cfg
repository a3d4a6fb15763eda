SPECIFICATION Spec
CONSTANTS
  Keys = {k1}
  Puts = {p1}
  Gets = {g1}
  Purges = {}
  Kinds = {}
  None = None
  Ttls = {1}
  Swr = 2
  TagBuffer = 1
  MaxTime = 3
  MaxFaults = 0
CHECK_DEADLOCK FALSE
INVARIANT
  ExpiredIsNone
