---------------------------- MODULE MCRF24Config ----------------------------
(***************************************************************************)
(* TLC instances of RF24Config: every call, and arguments at the ends of   *)
(* their ranges and just beyond.                                           *)
(***************************************************************************)
EXTENDS RF24Config

AllCalls ==
  {"resetcfg", "setAddressWidth", "setDataRate", "setDataRateError",
   "setPALevel", "setCRCLength", "powerDown", "powerUp", "startListening",
   "send", "setRetries", "setPayloadSize", "setRXAddressOnPipe",
   "setAutoAckOnAll", "setAutoAckOnPipe", "enableDynamicPayloads",
   "enableAckPayload", "setChannel", "autoACKPacket"}

MCSizes   == {0, 33}
MCPipes   == {1}
MCRetries == {15}
MCChannels == {128}
=============================================================================
