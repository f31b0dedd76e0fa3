------------------------------- MODULE NRF24 -------------------------------
(***************************************************************************)
(* The nRF24L01 radio as rf24.c sees it over SPI, the CE pin and the IRQ   *)
(* pin: the two bits of CONFIG that choose its mode, the three interrupt   *)
(* flags of STATUS, the receive and transmit FIFOs and the latch in which  *)
(* the kernel keeps a falling edge of the IRQ pin until poll() reports it. *)
(* The chip is not part of the repository; this is the behaviour rf24.c    *)
(* and nRF24L01.h rely on.                                                 *)
(*                                                                         *)
(* Packets are numbered in the order in which the radio accepts them, and  *)
(* payloads in the order in which the driver writes them.                  *)
(***************************************************************************)
EXTENDS Naturals, Sequences, FiniteSets

CONSTANTS
  FifoDepth,   \* the payloads each FIFO of the chip holds
  MaxPackets   \* bound: the packets that arrive in a behaviour

ASSUME NRF24Assumption ==
  /\ FifoDepth \in Nat \ {0}
  /\ MaxPackets \in Nat

Flags == {"RX_DR", "TX_DS", "MAX_RT"}
Modes == {"PWR_UP", "PRIM_RX"}

VARIABLES
  config,   \* the bits of Modes that are set in CONFIG
  ce,       \* the CE pin is high
  status,   \* the interrupt flags; the IRQ pin is low while there is one
  rxFifo,   \* numbers of the received packets, the oldest first
  txFifo,   \* numbers of the payloads to send, the oldest first
  air,      \* the payload that is being sent, or 0
  edge,     \* a falling edge of the IRQ pin that poll() has not reported
  arrived,  \* how many packets the radio has accepted
  acked     \* the payloads that were sent and acknowledged

fifos    == <<rxFifo, txFifo, air>>
pins     == <<config, ce>>
history  == <<arrived, acked>>
chipVars == <<config, ce, status, rxFifo, txFifo, air, edge, arrived, acked>>

-----------------------------------------------------------------------------
(* What the driver does to the chip.                                       *)

WriteConfig(bits) ==
  /\ config' = bits
  /\ UNCHANGED <<ce, status, edge, history, fifos>>

(* Writing a flag to STATUS clears it. *)
WriteStatus(flags) ==
  /\ status' = status \ flags
  /\ UNCHANGED <<pins, edge, history, fifos>>

(* CE high in transmit mode starts with the oldest payload; MAX_RT has to   *)
(* be cleared before the chip sends again.                                 *)
Transmits == "PWR_UP" \in config /\ "PRIM_RX" \notin config /\ "MAX_RT" \notin status

CeHigh ==
  /\ ce' = TRUE
  /\ air' = IF air = 0 /\ Transmits /\ txFifo # <<>> THEN Head(txFifo) ELSE air
  /\ UNCHANGED <<config, status, edge, history, rxFifo, txFifo>>

CeLow ==
  /\ ce' = FALSE
  /\ UNCHANGED <<config, status, edge, history, fifos>>

FlushRx ==
  /\ rxFifo' = <<>>
  /\ UNCHANGED <<pins, status, edge, history, txFifo, air>>

FlushTx ==
  /\ txFifo' = <<>>
  /\ UNCHANGED <<pins, status, edge, history, rxFifo, air>>

(* A full FIFO ignores the payload. *)
WriteTxFifo(payload) ==
  /\ txFifo' = IF Len(txFifo) < FifoDepth THEN Append(txFifo, payload) ELSE txFifo
  /\ UNCHANGED <<pins, status, edge, history, rxFifo, air>>

(* What R_RX_PAYLOAD reads: the oldest packet, or, when there is none, bytes *)
(* that are no packet's, here packet 0.                                    *)
OldestPacket == IF rxFifo = <<>> THEN 0 ELSE Head(rxFifo)

ReadRxFifo ==
  /\ rxFifo' = IF rxFifo = <<>> THEN rxFifo ELSE Tail(rxFifo)
  /\ UNCHANGED <<pins, status, edge, history, txFifo, air>>

(* poll() returns and read() rearms the latch. *)
TakeEdge ==
  /\ edge
  /\ edge' = FALSE
  /\ UNCHANGED <<pins, status, history, fifos>>

-----------------------------------------------------------------------------
(* What the chip does by itself.  A flag that is raised while another one   *)
(* is set makes no falling edge, for the pin is low already.               *)

Raise(flag) ==
  /\ status' = status \cup {flag}
  /\ edge' = (edge \/ status = {})

(* In receive mode the radio accepts a packet while it has room for it. *)
Arrive ==
  /\ ce /\ Modes \subseteq config
  /\ Len(rxFifo) < FifoDepth
  /\ arrived < MaxPackets
  /\ arrived' = arrived + 1
  /\ rxFifo' = Append(rxFifo, arrived + 1)
  /\ Raise("RX_DR")
  /\ UNCHANGED <<pins, txFifo, air, acked>>

(* While CE stays high the next payload follows. *)
Launch ==
  /\ ce /\ Transmits
  /\ air = 0 /\ txFifo # <<>>
  /\ air' = Head(txFifo)
  /\ UNCHANGED <<pins, status, edge, history, rxFifo, txFifo>>

Acknowledged ==
  /\ air # 0
  /\ air' = 0
  /\ txFifo' = IF txFifo # <<>> /\ Head(txFifo) = air THEN Tail(txFifo) ELSE txFifo
  /\ acked' = acked \cup {air}
  /\ Raise("TX_DS")
  /\ UNCHANGED <<pins, rxFifo, arrived>>

(* The retries are used up; the payload stays in the FIFO. *)
GiveUp ==
  /\ air # 0
  /\ air' = 0
  /\ Raise("MAX_RT")
  /\ UNCHANGED <<pins, rxFifo, txFifo, history>>

(* The mode changes under a transmission: it may end without a result. *)
Abandon ==
  /\ air # 0
  /\ "PRIM_RX" \in config \/ "PWR_UP" \notin config
  /\ air' = 0
  /\ UNCHANGED <<pins, status, edge, history, rxFifo, txFifo>>

Chip == Arrive \/ Launch \/ Acknowledged \/ GiveUp \/ Abandon
=============================================================================
