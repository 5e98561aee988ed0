\* Safety: two clients, two connections, one room.
SPECIFICATION Spec
CONSTANTS
  c1 = c1
  c2 = c2
  k1 = k1
  k2 = k2
  Clients = {c1, c2}
  Codes = {k1}
  NoToken = NoToken
  NoCode = NoCode
  NoClient = NoClient
  NoInfo = NoInfo
  NoTicket = NoTicket
  NumSeats = 2
  Conns = {0, 1}
  Rooms = {0}
  GraceTicks = 2
  EloTicks = 2
  InboxCap = 1
  MaxSessions = 2
SYMMETRY MCSymmetry
INVARIANTS
  InfoNamesItsSeat
  CountIsExact
  SeatsFitThePhase
PROPERTIES
  GraceIsHonoured
  SeatReturnsToItsOwner
  ResultBeforeClose
  RoomsLiveTheirLife
CHECK_DEADLOCK FALSE
