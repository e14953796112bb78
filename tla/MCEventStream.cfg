SPECIFICATION Spec
CONSTANTS
  Clients = {c1, c2}
  SubBuffer = 2
  MaxRevision = 3
CHECK_DEADLOCK FALSE
INVARIANTS
  TypeOK
  StreamIsUpToDate
PROPERTIES
  WatchedSpec
  StreamsMoveForward
  ChangesAreShown
  StreamsEnd
  LockIsReleased
