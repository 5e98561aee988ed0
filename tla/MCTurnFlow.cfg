\* A player at the second seat, over a round of two tricks with one rogue.
SPECIFICATION FairSpec
CONSTANTS
  MySeat = 1
  Winners = {0, 1}
  Passers = {0, 1}
  TricksPerRound = 2
  MaxRounds = 1
  MaxRogues = 1
  MaxRepeats = 1
  STATE_QUEUE_CAP = 3
  Reconnecting = FALSE
PROPERTIES
  CardsShownInOrder
  TurnIsOffered
