--------------------------- MODULE MCRF24Address ---------------------------
(***************************************************************************)
(* TLC instances of RF24Address: two peers that agree in their first three *)
(* bytes, one of which reads the same backwards, and the mirror image of   *)
(* the other.                                                              *)
(***************************************************************************)
EXTENDS RF24Address

A      == <<1, 2, 3, 4, 5>>
Even   == <<1, 2, 3, 2, 1>>
Mirror == <<5, 4, 3, 2, 1>>
Own    == <<6, 7, 8, 9, 10>>

MCByte   == 0 .. 10
MCWidths == {2, 3, 6}

AllCalls ==
  {"resetcfg", "setAddressWidth", "startListening", "stopListening", "send",
   "write", "autoACKPacket", "setRXAddressOnPipe"}

Neighbours   == {A, Even}
MirrorImages == {A, Mirror}
OwnArrays    == {Own}

(* Pipe 0 and pipes 2 to 5 are written and nothing else depends on them.   *)
WithoutOtherPipes ==
  <<up, addr_width, transmit_address, tx_addr, fresh, sent,
    pipe1_address, rx_addr[1], pipe1_width, array>>
=============================================================================
