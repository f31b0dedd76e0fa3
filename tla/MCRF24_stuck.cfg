\* Sending while the radio listens leaves a received packet in the chip.
CONSTANTS
  FifoDepth = 2
  MaxPackets = 2
  MaxSends = 2
  PACKET_BUFFER_SIZE = 2
  UsedBefore = FALSE
  Dynamic = TRUE
  Faults = {}
  Calls = {"startListening", "recv", "send"}
SPECIFICATION FairSpec
PROPERTY TrafficIsRetrieved
CHECK_DEADLOCK FALSE
