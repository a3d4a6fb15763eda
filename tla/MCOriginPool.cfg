SPECIFICATION Spec
CONSTANTS
  Origins = {o1, o2}
  Backups = {o2}
  Requests = {r1, r2}
  None = None
  Retries = 2
  PassiveDown = 2
  PassiveUp = 1
  ProbeDown = 1
  ProbeUp = 1
  Orders = {"config", "override", "panic"}
  MaxFlips = 1
  MaxClosed = 2
  MaxOrders = 1
INVARIANTS
  ConnsAccounted
  FaultTraced
SYMMETRY Symmetry
