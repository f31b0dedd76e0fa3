\* Every call, two peers that share bytes.
SPECIFICATION Spec
CONSTANTS
  Byte <- MCByte
  Peers <- Neighbours
  Arrays <- OwnArrays
  Widths <- MCWidths
  Calls <- AllCalls
INVARIANTS
  TypeOK
  AnswersArrive
  SendsWhereAsked
VIEW WithoutOtherPipes
