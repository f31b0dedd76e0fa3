\* An application that only receives, and invalid widths.
CONSTANTS
  FifoDepth = 3
  MaxPackets = 4
  MaxSends = 1
  PACKET_BUFFER_SIZE = 2
  UsedBefore = FALSE
  Dynamic = TRUE
  Faults = {"width"}
  Calls <- ReceiverCalls
SPECIFICATION FairSpec
INVARIANT NoStuckInterrupt
PROPERTY InterruptServed
\* tsq_remove blocks when no further packet arrives
CHECK_DEADLOCK FALSE
