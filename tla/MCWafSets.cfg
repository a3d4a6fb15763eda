\* Three reloads over three addresses; a thread keeps one set before it evicts.
SPECIFICATION Spec

CONSTANTS
  Addresses = {1, 2, 3}
  Threads = {t1, t2}
  Limit = 1
  MaxConfigs = 3

INVARIANT FreshSets

\* Once MaxConfigs are loaded no reload is left.
CHECK_DEADLOCK FALSE
