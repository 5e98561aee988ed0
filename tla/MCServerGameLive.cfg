\* Liveness at a table of basic AI players, over the rounds of a game with every pass direction.
SPECIFICATION FairSpec
CONSTANTS
  Deck <- SmallDeck
  Deals <- OneDeal
  TricksPerRound = 2
  PassCardCount = 1
  ScoreLimit = 10
  Owners = {1}
  Competitive = FALSE
  PassTicks = 0
  TurnTicks = 1
  ScoringTicks = 2
  AiPassTicks = 0
  AiPlayTicks = 0
  NotSeen = NotSeen
INVARIANTS
  PointsAddUp
PROPERTIES
  GameEnds
