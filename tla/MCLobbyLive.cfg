\* Liveness: one client, and a game server that need not answer and may lose its connection.
SPECIFICATION FairSpec
CONSTANTS
  c1 = c1
  c2 = c2
  g1 = g1
  k1 = k1
  k2 = k2
  Clients = {c1}
  Servers = {g1}
  Conns = {0, 1}
  Codes = {k1, k2}
  QueueSlots = {0, 1}
  MatchSize = 2
  MaxMatches = 2
  MaxPending = 2
  MaxRooms = 1
  NoEntry = NoEntry
  NoServer = NoServer
  NoRow = NoRow
  NoPeer = NoPeer
  NoInfo = NoInfo
  InboxCap = 1
  MaxRequests = 2
  MaxClientDrops = 0
  MaxServerDrops = 1
  MaxExpiries = 1
  MaxRoomEvents = 2
  MaxCleanups = 0
  Outsiders = TRUE

PROPERTIES
  RequestsAreAnswered
INVARIANTS
  LinkIsRegistered
