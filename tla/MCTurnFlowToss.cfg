\* PassStaysOpen as pass_phase.c:609 says it, for a player who is not at the server's first seat.
SPECIFICATION Spec
CONSTANTS
  MySeat = 1
  Winners = {1}
  Passers = {0, 1}
  TricksPerRound = 1
  MaxRounds = 1
  MaxRogues = 0
  MaxRepeats = 0
  STATE_QUEUE_CAP = 3
  Reconnecting = FALSE
INVARIANT PassStaysOpen
