SPECIFICATION Spec
CONSTANTS
  IPs = {a, b, c}
  PerHour = 2
  TicksPerToken = 2
  MaxTime = 4
  PruneAt = 2
SYMMETRY Symmetry
CHECK_DEADLOCK FALSE
INVARIANTS
  GrantsAreBounded
PROPERTIES
  PruningIsInvisible
