SPECIFICATION Spec
CONSTANTS
  Deck <- HugeDeck
  Number <- HugeNumber
  MaxFloat = 17
  Names = {n1, n2}
  HistoryLen = 1
  MaxRounds = 2
  MaxVotes = 2
INVARIANTS
  StatsAreFinite
