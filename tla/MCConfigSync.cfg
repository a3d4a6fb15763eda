SPECIFICATION FairSpec
CONSTANTS
  Sites = {s1}
  Good = {g1, g2}
  Foreign = Foreign
  Broken = Broken
  Absent = Absent
  Other = Other
  Reloads = {l1}
  MaxRev = 3
  MaxDrops = 1
  Compacts = TRUE
CHECK_DEADLOCK FALSE
INVARIANTS
  SerialReloadsSafe
PROPERTIES
  ConvergesUnlessCutOff
