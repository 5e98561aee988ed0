SPECIFICATION FairSpec
CONSTANTS
  NET_RINGBUF_CAPACITY = 4
  FRAME_HEADER_SIZE = 1
  MAX_MSG_SIZE = 2
  Messages <- MCMessages
  Length <- MCLength
  Malformed <- MCMalformed
  StreamRoom = 3
  MaxSent = 4
CHECK_DEADLOCK FALSE
INVARIANT FieldsArrive
PROPERTIES
  IsAChannel
  WellFormedTrafficArrives
