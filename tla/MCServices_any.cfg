\* Calls of the application and packets received, with failing transfers.
CONSTANTS
  Users <- MCUsers
  Starter = "app"
  Clients <- MCUsers
  Monitor = "monitor"
  Values <- MCValues
  Faults = {"open", "transfer"}
  Amounts = {1}
  WORD = 8
  Starts <- MCStarts
  LongIsWord = TRUE
  Largest = 3
  Beyond = 1
  Timeout = 2
  MaxWait = 3
  MaxCalls = 2
  MaxPackets = 1
SPECIFICATION FairSpec
INVARIANTS
  TypeOK
  NothingLost
  WaitsItsTimeout
  HoldersMoveOn
PROPERTIES
  BusSpec
  ConsistentRates
  StatsSpec
  CallsEnd
\* the process exits without an SPI device
CHECK_DEADLOCK FALSE
