\* Every call, on a chip that is not a +.
SPECIFICATION Spec
CONSTANTS
  PVariant = FALSE
  Calls <- AllCalls
  Sizes <- MCSizes
  Pipes <- MCPipes
  Retries <- MCRetries
  Channels <- MCChannels
INVARIANTS
  TypeOK
  DynamicPayloadsWork
  SettingsKept
