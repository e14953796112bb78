SPECIFICATION Spec
CONSTANTS
  Clients = {c1}
  SubBuffer = 2
  MaxRevision = 6
CHECK_DEADLOCK FALSE
INVARIANTS
  RevealIsOnItsWay
PROPERTIES
  RevealEndsTheWait
  WaitsEndWithTheRoom
