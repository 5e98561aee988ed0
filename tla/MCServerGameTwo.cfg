\* Two human players whose commands, drops and returns interleave, with competitive AI
\* players, whose play may be any that is legal, and the queen of spades, over one round.
SPECIFICATION ClockSpec
CONSTANTS
  Deck <- QueenDeck
  Deals <- QueenDeals
  TricksPerRound = 2
  PassCardCount = 1
  ScoreLimit = 1
  Owners = {1, 2}
  Competitive = TRUE
  PassTicks = 1
  TurnTicks = 2
  ScoringTicks = 2
  AiPassTicks = 0
  AiPlayTicks = 1
  NotSeen = NotSeen
INVARIANTS
  EveryCardOnce
PROPERTIES
  ConfirmedPassIsKept
  TricksAreSeenWhole
  ClientsUpToDate
  NobodyIsCutShort
  RulesKept
