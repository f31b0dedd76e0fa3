\* An application that receives and sends while the radio listens.
CONSTANTS
  FifoDepth = 3
  MaxPackets = 4
  MaxSends = 3
  PACKET_BUFFER_SIZE = 2
  UsedBefore = TRUE
  Dynamic = TRUE
  Faults <- AllFaults
  Calls <- EchoCalls
SPECIFICATION Spec
INVARIANTS
  TypeOK
  QueueExistsBeforeUse
  ListeningMeansReceiving
  OneSuccessPerAck
PROPERTY InOrderSpec
\* the process exits when there is no SPI device
CHECK_DEADLOCK FALSE
