\* Two clients, one of which may go away, and room codes that are drawn again.
SPECIFICATION Spec
CONSTANTS
  c1 = c1
  c2 = c2
  g1 = g1
  k1 = k1
  k2 = k2
  Clients = {c1, c2}
  Servers = {g1}
  Conns = {0, 1, 2}
  Codes = {k1, k2}
  QueueSlots = {0, 1}
  MatchSize = 2
  MaxMatches = 2
  MaxPending = 2
  MaxRooms = 1
  NoEntry = NoEntry
  NoServer = NoServer
  NoRow = NoRow
  NoPeer = NoPeer
  NoInfo = NoInfo
  InboxCap = 1
  MaxRequests = 2
  MaxClientDrops = 1
  MaxServerDrops = 0
  MaxExpiries = 0
  MaxRoomEvents = 0
  MaxCleanups = 1
  Outsiders = FALSE
SYMMETRY MCSymmetry
INVARIANTS
  WaitersAreTracked
  QueueNeverFills
  CodesNameOneRequest
