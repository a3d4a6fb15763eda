SPECIFICATION Spec
CONSTANTS
  Keys = {k1}
  Puts = {p1, p2}
  Gets = {g1}
  Purges = {d1}
  Kinds = {"url", "tag", "site"}
  None = None
  Ttls = {1}
  Swr = 1
  TagBuffer = 1
  MaxTime = 2
  MaxFaults = 1
SYMMETRY Symmetry
CHECK_DEADLOCK FALSE
INVARIANTS
  PurgedStaysGone
  NeverOlderThanMeta
