SPECIFICATION Spec
CONSTANTS
  Pids = {p1, p2, p3, p4}
  Kinds = {"human", "observer"}
  Deck = {v1, v2}
  MaxParticipants = 3
  HistoryLen = 2
  MaxRevision = 10
SYMMETRY Symmetry
CHECK_DEADLOCK FALSE
INVARIANTS
  TypeOK
  VotesBelongToVoters
  NoMissedAutoReveal
  ResultsAreTheBallots
  SettlementIsCurrent
  HistoryIsRecent
PROPERTIES
  RevealIsFinal
  VerdictIsKept
  ChangesArePublished
  FeedSpec
