SPECIFICATION Spec
CONSTANTS
  Clients = {c1}
  SubBuffer = 2
  MaxRevision = 4
CHECK_DEADLOCK FALSE
INVARIANT
  AnswersTheRoundItFound
