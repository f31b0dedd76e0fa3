\* rf24_startListening a second time.
SPECIFICATION Spec
CONSTANTS
  Byte <- MCByte
  Peers <- Neighbours
  Arrays <- OwnArrays
  Widths <- MCWidths
  Calls <- AllCalls
PROPERTY Pipe0Restored
