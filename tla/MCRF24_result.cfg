\* The interrupt thread takes the flag rf24_write waits for.
CONSTANTS
  FifoDepth = 2
  MaxPackets = 1
  MaxSends = 3
  PACKET_BUFFER_SIZE = 2
  UsedBefore = FALSE
  Dynamic = TRUE
  Faults = {}
  Calls = {"powerUp", "write"}
SPECIFICATION Spec
PROPERTY ResultIsDelivery
CHECK_DEADLOCK FALSE
