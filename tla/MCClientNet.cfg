SPECIFICATION FairSpec
CONSTANTS
  NoCard = NoCard
  NoDraft = NoDraft
  NoGame = NoGame
  Story <- MCShortStory
  JoinSeats = {1, 2}
  Prompt = {1, 2, 3}
  Moves <- MCMoves
  Transmuted = "t"
  STATE_QUEUE_CAP = 2
  PASS_CONFIRM_QUEUE_MAX = 4
  RECONNECT_MAX_ATTEMPTS = 2
  RECONNECT_MAX_DELAY = 2
  MaxRooms = 2
  MaxBreaks = 1
  MaxStarts = 2
INVARIANTS
  ViewsAreInOrder
  SeenFromTheSeat
  OthersStayHidden
  TokenOpensTheSeat
PROPERTIES
  ArrangementIsKept
  ReconnectionEnds
CHECK_DEADLOCK FALSE
