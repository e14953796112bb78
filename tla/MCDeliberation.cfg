SPECIFICATION Spec
CONSTANTS
  Deck <- MCDeck
  Number <- MCNumber
  MaxFloat = 100
  Names = {n1, n2}
  HistoryLen = 2
  MaxRounds = 4
  MaxVotes = 4
SYMMETRY Symmetry
INVARIANTS
  TopIsHonest
  MedianSplitsTheVotes
  AwardsAreConsistent
  AccuracyIsAnchored
