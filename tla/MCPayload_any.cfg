\* Three messages of any kind, and four changes of the settings on their way.
CONSTANTS
  ADDR_WIDTH = 2
  MAX_PAYLOAD_LEN = 5
  BYTE = 8
  PACKET_BUFFER_SIZE = 1
  FifoDepth = 2
  MaxMessages = 3
  MaxChanges = 4
  UsedBefore = FALSE
  Lengths <- MCLengths
  Sizes <- MCSizes
  Garbage <- MCGarbage
SPECIFICATION Spec
INVARIANTS
  TypeOK
  NoStrayBytes
  MessagesIntact
\* nothing is left to do once the bounds are reached
CHECK_DEADLOCK FALSE
