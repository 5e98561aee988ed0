SPECIFICATION Spec
CONSTANTS
  Deck <- Cards
  TricksPerRound = 3
  PassCardCount = 1
  ScoreLimit = 20
  Defs <- AllDefs
  MaxInventory = 3
  ContractDefs <- AllContracts
  GroupSize = 2
  DraftRounds = 2
  Pools <- ThePools
  LateTrick = 1
  MoonScore = 6
  Owners = {1}
  Starts <- TheStarts
  Amounts = {1}
  Careless = FALSE
INVARIANTS
  PairsStayWhole
  SlotsMatchHands
  ContractsSeeEveryTrick
PROPERTIES
  TransmutationsAreKept
  LeadsAreObeyed
  PointsAreAccounted
