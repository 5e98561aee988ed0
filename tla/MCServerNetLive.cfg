\* Liveness: one client and one connection.
SPECIFICATION FairSpec
CONSTANTS
  c1 = c1
  c2 = c2
  k1 = k1
  k2 = k2
  Clients = {c1}
  Codes = {k1, k2}
  NoToken = NoToken
  NoCode = NoCode
  NoClient = NoClient
  NoInfo = NoInfo
  NoTicket = NoTicket
  NumSeats = 2
  Conns = {0}
  Rooms = {0, 1}
  GraceTicks = 2
  EloTicks = 2
  InboxCap = 2
  MaxSessions = 2
INVARIANTS
  CodesAreUnique
PROPERTIES
  FinishedRoomsClose
  DroppedSeatsResolve
CHECK_DEADLOCK FALSE
