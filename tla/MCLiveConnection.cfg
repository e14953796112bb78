SPECIFICATION Spec
CONSTANTS
  MaxRevision = 2
  Streams = {s1, s2}
  Polls = {p1, p2}
  Buttons = {b1, b2}
  None = None
CHECK_DEADLOCK FALSE
INVARIANTS
  TypeOK
  OneStream
  QuietPages
  LiveMeansDelivered
PROPERTIES
  LateAnswersAreHarmless
  PageCatchesUp
  ExpiryIsNoticed
