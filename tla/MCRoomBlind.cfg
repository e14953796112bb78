SPECIFICATION BothSpec
CONSTANTS
  Pids = {p1, p2, p3}
  Kinds = {"human", "observer"}
  Deck = {v1, v2}
  MaxParticipants = 3
  HistoryLen = 1
  MaxRevision = 9
SYMMETRY Symmetry
CHECK_DEADLOCK FALSE
INVARIANTS
  SnapshotsAreBlind
  EventsAreBlind
  AnswersAreBlind
