\* rf24_stopListening flushes the FIFO under the interrupt thread.
CONSTANTS
  FifoDepth = 2
  MaxPackets = 2
  MaxSends = 1
  PACKET_BUFFER_SIZE = 2
  UsedBefore = FALSE
  Dynamic = TRUE
  Faults = {}
  Calls = {"startListening", "stopListening"}
SPECIFICATION Spec
INVARIANT OnlyReceivedPackets
CHECK_DEADLOCK FALSE
