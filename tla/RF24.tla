-------------------------------- MODULE RF24 --------------------------------
(***************************************************************************)
(* The driver rf24.c at work: one application thread that calls the API,   *)
(* the interrupt thread that rf24_init_radio starts, the chip, and the     *)
(* queue of received packets between the two threads.                      *)
(*                                                                         *)
(* The threads share the SPI bus, whose mutex makes one command a step     *)
(* (spi_enable to spi_disable), so each step below is one SPI command or   *)
(* one write to the CE pin; only the application thread writes CONFIG,     *)
(* whose read-modify-write is one step therefore.  app and isr say which   *)
(* command comes next: sd_ setDefaults, sl_ rf24_startListening,           *)
(* st_ rf24_stopListening, tx_ transmit_payload, wr_ rf24_write.           *)
(*                                                                         *)
(* packets is the queue of tsqueue.c with its calls atomic, as TSQueue     *)
(* shows them to be.  Addresses, payload bytes, the other registers and    *)
(* the statistics are left out.                                            *)
(***************************************************************************)
EXTENDS NRF24

CONSTANTS
  Calls,               \* the API functions that the application calls
  Faults,              \* what can fail: "spi", "gpio", "malloc", "width"
  UsedBefore,          \* an earlier process used the radio
  Dynamic,             \* rf24_enableDynamicPayloads was called
  PACKET_BUFFER_SIZE,
  MaxSends             \* bound: the payloads that the application sends

API == {"startListening", "stopListening", "send", "write", "recv", "recvBlock",
        "getStatus", "powerDown", "powerUp", "resetcfg"}

ASSUME RF24Assumption ==
  /\ Calls \subseteq API
  /\ Faults \subseteq {"spi", "gpio", "malloc", "width"}
  /\ UsedBefore \in BOOLEAN
  /\ Dynamic \in BOOLEAN
  /\ PACKET_BUFFER_SIZE \in Nat \ {0}
  /\ MaxSends \in Nat

VARIABLES
  app,        \* the next step of the application thread
  op,         \* the API function it is in, or was in last
  listening,
  created,    \* "no" before tsq_create returns, then "queue" or "null"
  packets,    \* the numbers of the packets in the queue, the oldest first
  isr,        \* the next step of the interrupt thread
  tx_ok,      \* what rf24_peekStatus told the interrupt thread
  sends,      \* how many payloads the application has sent
  successes,  \* the payloads for which rf24_write returned TRUE
  last        \* the packet the application received last, or 0

appVars == <<app, op, listening, sends, successes, last>>
isrVars == <<isr, tx_ok>>
vars    == <<chipVars, appVars, isrVars, created, packets>>

(* The process starts, on a radio that was just powered or that an earlier  *)
(* process left in any state: listening, sending, with packets and flags.  *)
Init ==
  /\ IF UsedBefore
     THEN /\ config \in SUBSET Modes
          /\ ce \in BOOLEAN
          /\ status \in SUBSET Flags
          /\ rxFifo \in {<<>>, <<1>>}
          /\ txFifo \in {<<>>, <<1>>}
          /\ air \in {txFifo[i] : i \in DOMAIN txFifo} \cup {0}
     ELSE /\ config = {} /\ ce = FALSE /\ status = {}
          /\ rxFifo = <<>> /\ txFifo = <<>> /\ air = 0
  /\ arrived = 1
  /\ sends = 1
  /\ edge = FALSE
  /\ acked = {}
  /\ app = "in_spi"
  /\ op = "init"
  /\ listening = FALSE
  /\ created = "no"
  /\ packets = <<>>
  /\ isr = "none"
  /\ tx_ok = FALSE
  /\ successes = {}
  /\ last = 0

-----------------------------------------------------------------------------
(* The application thread.                                                 *)

Go(from, to) ==
  /\ app = from
  /\ app' = to
  /\ UNCHANGED <<op, created, packets, isrVars>>

Keep == UNCHANGED <<listening, sends, successes, last>>

(* Without the SPI device rf24_init_radio returns 0 and its callers exit.   *)
SpiInit ==
  /\ \/ Go("in_spi", "sd_disable")
     \/ "spi" \in Faults /\ Go("in_spi", "exit")
  /\ UNCHANGED chipVars /\ Keep

(* rf24_resetcfg: RST_CFG sets both mode bits.  Then setDefaults.          *)
ResetConfig ==
  Go("sd_reset", "sd_disable") /\ WriteConfig(Modes) /\ Keep

(* Wrong: the radio is configured while it may receive. *)
DefaultsEnabled ==
  Go("sd_disable", "sd_status") /\ UNCHANGED chipVars /\ Keep

DefaultsDisable ==
  Go("sd_disable", "sd_status") /\ CeLow /\ Keep

DefaultsStatus ==
  Go("sd_status", "sd_flush_rx") /\ WriteStatus(Flags) /\ Keep

(* Wrong: the packets of an earlier process stay. *)
DefaultsKeepRx ==
  Go("sd_flush_rx", "sd_flush_tx") /\ UNCHANGED chipVars /\ Keep

DefaultsFlushRx ==
  Go("sd_flush_rx", "sd_flush_tx") /\ FlushRx /\ Keep

DefaultsFlushTx ==
  /\ Go("sd_flush_tx", IF op = "init" THEN "in_thread" ELSE "idle")
  /\ FlushTx
  /\ listening' = FALSE
  /\ UNCHANGED <<sends, successes, last>>

(* The interrupt thread runs before its queue exists. *)
CreateThread ==
  /\ app = "in_thread"
  /\ app' = "in_queue"
  /\ isr' = "setup"
  /\ UNCHANGED <<chipVars, op, created, packets, tx_ok>> /\ Keep

(* tsq_create returns NULL when malloc fails, and nobody looks: the call of *)
(* rf24_init_radio succeeds.                                               *)
CreateQueue ==
  /\ app = "in_queue"
  /\ app' = "idle"
  /\ \/ created' = "queue"
     \/ "malloc" \in Faults /\ created' = "null"
  /\ packets' = <<>>
  /\ UNCHANGED <<chipVars, op, isrVars>> /\ Keep

rf24_init_radio ==
  \/ SpiInit
  \/ CreateThread
  \/ CreateQueue

setDefaults ==
  \/ ResetConfig
  \/ DefaultsDisable
  \/ DefaultsStatus
  \/ DefaultsFlushRx
  \/ DefaultsFlushTx

(* The first step of an API function. *)
FirstStep(call) ==
  CASE call = "startListening"        -> "sl_config"
    [] call = "stopListening"         -> "st_disable"
    [] call \in {"send", "write"}     -> IF listening THEN "tx_disable" ELSE "tx_config"
    [] call \in {"recv", "recvBlock"} -> "remove"
    [] call = "resetcfg"              -> "sd_reset"
    [] OTHER                          -> call

Invoke ==
  /\ app = "idle"
  /\ \E call \in Calls :
       /\ call \in {"send", "write"} => sends < MaxSends
       /\ op' = call
       /\ app' = FirstStep(call)
  /\ UNCHANGED <<chipVars, created, packets, isrVars>> /\ Keep

(* Where transmit_payload returns to. *)
Transmitted == IF op = "write" THEN "wr_observe" ELSE "idle"

ListenConfig ==
  Go("sl_config", "sl_status") /\ WriteConfig(config \cup Modes) /\ Keep

ListenStatus ==
  Go("sl_status", "sl_enable") /\ WriteStatus(Flags) /\ Keep

ListenEnable ==
  /\ Go("sl_enable", Transmitted)
  /\ CeHigh
  /\ listening' = TRUE
  /\ UNCHANGED <<sends, successes, last>>

rf24_startListening == ListenConfig \/ ListenStatus \/ ListenEnable

StopDisable ==
  Go("st_disable", "st_flush_tx") /\ CeLow /\ Keep

StopFlushTx ==
  Go("st_flush_tx", "st_flush_rx") /\ FlushTx /\ Keep

StopFlushRx ==
  /\ Go("st_flush_rx", "idle")
  /\ FlushRx
  /\ listening' = FALSE
  /\ UNCHANGED <<sends, successes, last>>

rf24_stopListening == StopDisable \/ StopFlushTx \/ StopFlushRx

TransmitDisable ==
  Go("tx_disable", "tx_config") /\ CeLow /\ Keep

TransmitConfig ==
  Go("tx_config", "tx_payload") /\ WriteConfig(config \ {"PRIM_RX"}) /\ Keep

TransmitPayload ==
  /\ Go("tx_payload", "tx_enable")
  /\ WriteTxFifo(sends + 1)
  /\ sends' = sends + 1
  /\ UNCHANGED <<listening, successes, last>>

TransmitEnable ==
  Go("tx_enable", "tx_pulse") /\ CeHigh /\ Keep

(* Wrong: the radio is left in transmit mode. *)
TransmitPulseOnly ==
  /\ Go("tx_pulse", Transmitted)
  /\ CeLow
  /\ Keep

(* The end of the pulse, and of transmit_payload unless it has to listen.  *)
TransmitPulse ==
  /\ Go("tx_pulse", IF listening THEN "sl_config" ELSE Transmitted)
  /\ CeLow
  /\ Keep

transmit_payload ==
  \/ TransmitDisable
  \/ TransmitConfig
  \/ TransmitPayload
  \/ TransmitEnable
  \/ TransmitPulse

(* The polling loop of rf24_write ends with a flag or by the clock; the     *)
(* steps that only poll again change nothing.                              *)
WriteObserve ==
  /\ status \cap {"TX_DS", "MAX_RT"} # {}
  /\ Go("wr_observe", "wr_status")
  /\ UNCHANGED chipVars /\ Keep

WriteTimeout ==
  /\ status \cap {"TX_DS", "MAX_RT"} = {}
  /\ Go("wr_observe", "wr_status")
  /\ UNCHANGED chipVars /\ Keep

(* Wrong: the flags are read as rf24_peekStatus reads them. *)
WriteClearNothing ==
  Go("wr_clear", "idle") /\ UNCHANGED chipVars /\ Keep

(* rf24_getStatus reads the flags with the first byte of a command and      *)
(* clears them with the second; the radio may raise one in between.        *)
WriteResult ==
  /\ Go("wr_status", "wr_clear")
  /\ successes' = IF "TX_DS" \in status THEN successes \cup {sends} ELSE successes
  /\ UNCHANGED <<chipVars, listening, sends, last>>

WriteClear ==
  Go("wr_clear", "idle") /\ WriteStatus(Flags) /\ Keep

rf24_write == WriteObserve \/ WriteTimeout \/ WriteResult \/ WriteClear

(* rf24_recv and rf24_recvfrom: with block they wait in tsq_remove. *)
ReceivePacket ==
  /\ created = "queue"
  /\ app = "remove" /\ packets # <<>>
  /\ app' = "idle"
  /\ last' = Head(packets)
  /\ packets' = Tail(packets)
  /\ UNCHANGED <<chipVars, op, created, isrVars, listening, sends, successes>>

ReceiveNothing ==
  /\ created = "queue"
  /\ op # "recvBlock" /\ packets = <<>>
  /\ Go("remove", "idle")
  /\ UNCHANGED chipVars /\ Keep

rf24_recv == ReceivePacket \/ ReceiveNothing

rf24_getStatus ==
  Go("getStatus", "idle") /\ WriteStatus(Flags) /\ Keep

rf24_powerDown ==
  Go("powerDown", "idle") /\ WriteConfig(config \ {"PWR_UP"}) /\ Keep

rf24_powerUp ==
  Go("powerUp", "idle") /\ WriteConfig(config \cup {"PWR_UP"}) /\ Keep

App ==
  \/ rf24_init_radio
  \/ setDefaults
  \/ rf24_startListening
  \/ rf24_stopListening
  \/ transmit_payload
  \/ rf24_write
  \/ rf24_recv
  \/ rf24_getStatus
  \/ rf24_powerDown
  \/ rf24_powerUp

-----------------------------------------------------------------------------
(* The interrupt thread.                                                   *)

IsrGo(from, to) ==
  /\ isr = from
  /\ isr' = to
  /\ UNCHANGED <<appVars, created>>

(* The first poll() on a sysfs file returns at once. *)
setup_isr_thread ==
  \/ /\ IsrGo("setup", "poll")
     /\ edge' = TRUE
     /\ UNCHANGED <<pins, status, history, fifos, packets, tx_ok>>
  \/ /\ "gpio" \in Faults
     /\ IsrGo("setup", "dead")
     /\ UNCHANGED <<chipVars, packets, tx_ok>>

radio_isr_thread ==
  \/ /\ IsrGo("poll", "peek")
     /\ TakeEdge
     /\ UNCHANGED <<packets, tx_ok>>
  \/ /\ "gpio" \in Faults
     /\ IsrGo("poll", "dead")
     /\ UNCHANGED <<chipVars, packets, tx_ok>>

(* Where retrieve_packets returns to. *)
Retrieved(ok) == IF ok THEN "tx_ds" ELSE "poll"

rf24_peekStatus ==
  /\ IsrGo("peek", IF "RX_DR" \in status
                   THEN "fifo"
                   ELSE Retrieved("TX_DS" \in status))
  /\ tx_ok' = ("TX_DS" \in status)
  /\ UNCHANGED <<chipVars, packets>>

(* The condition of the loop in retrieve_packets. *)
is_rx_fifo_empty ==
  /\ IsrGo("fifo", IF rxFifo = <<>> THEN "clear"
                   ELSE IF Dynamic THEN "width" ELSE "read")
  /\ UNCHANGED <<chipVars, packets, tx_ok>>

(* The width of the oldest packet may be read as more than 32 bytes. *)
get_dyn_payload_len ==
  /\ \/ IsrGo("width", "read")
     \/ "width" \in Faults /\ IsrGo("width", "flush")
  /\ UNCHANGED <<chipVars, packets, tx_ok>>

(* Wrong: retrieve_packets returns when it has flushed. *)
flush_rxReturn ==
  /\ IsrGo("flush", Retrieved(tx_ok))
  /\ FlushRx
  /\ UNCHANGED <<packets, tx_ok>>

flush_rx ==
  /\ IsrGo("flush", "fifo")
  /\ FlushRx
  /\ UNCHANGED <<packets, tx_ok>>

(* Wrong: the queue takes any number of packets. *)
ReadPacketUnbounded ==
  /\ created = "queue"
  /\ IsrGo("read", "fifo")
  /\ packets' = Append(packets, OldestPacket)
  /\ ReadRxFifo
  /\ UNCHANGED tx_ok

(* A packet that finds the queue full is dropped. *)
ReadPacket ==
  /\ created = "queue"
  /\ IsrGo("read", "fifo")
  /\ packets' = IF Len(packets) < PACKET_BUFFER_SIZE
                THEN Append(packets, OldestPacket)
                ELSE packets
  /\ ReadRxFifo
  /\ UNCHANGED tx_ok

MallocFails ==
  /\ "malloc" \in Faults
  /\ IsrGo("read", Retrieved(tx_ok))
  /\ UNCHANGED <<chipVars, packets, tx_ok>>

(* Wrong: another flag is cleared. *)
ClearOtherFlag ==
  /\ IsrGo("clear", Retrieved(tx_ok))
  /\ WriteStatus({"TX_DS"})
  /\ UNCHANGED <<packets, tx_ok>>

ClearRxDr ==
  /\ IsrGo("clear", Retrieved(tx_ok))
  /\ WriteStatus({"RX_DR"})
  /\ UNCHANGED <<packets, tx_ok>>

retrieve_packets ==
  \/ is_rx_fifo_empty
  \/ get_dyn_payload_len
  \/ flush_rx
  \/ ReadPacket
  \/ MallocFails
  \/ ClearRxDr

ClearTxDs ==
  /\ IsrGo("tx_ds", "poll")
  /\ WriteStatus({"TX_DS"})
  /\ UNCHANGED <<packets, tx_ok>>

(* Not between the two bytes of the application's command.                  *)
process_radio_interrupt ==
  /\ app # "wr_clear"
  /\ rf24_peekStatus \/ retrieve_packets \/ ClearTxDs

Isr == setup_isr_thread \/ radio_isr_thread \/ process_radio_interrupt

-----------------------------------------------------------------------------

(* packets is the null pointer until tsq_create has returned a queue.  A    *)
(* call on it takes the mutex at an address that is not mapped, which ends  *)
(* the process; the interrupt thread has read its packet by then.          *)
UseNullQueue ==
  /\ created # "queue"
  /\ \/ app = "remove" /\ UNCHANGED chipVars
     \/ app # "wr_clear" /\ isr = "read" /\ ReadRxFifo
  /\ app' = "crashed"
  /\ isr' = "dead"
  /\ UNCHANGED <<op, created, packets, tx_ok>> /\ Keep

Radio == Chip /\ UNCHANGED <<appVars, isrVars, created, packets>>

Next == Invoke \/ App \/ Isr \/ UseNullQueue \/ Radio

Spec == Init /\ [][Next]_vars

(* Both threads are scheduled, a transmission ends in one way or another,  *)
(* and neither faults nor calls nor arrivals have to happen.               *)
FairSpec ==
  /\ Spec
  /\ WF_vars(App)
  /\ WF_vars(Isr /\ isr' # "dead")
  /\ WF_vars(Radio /\ air' # air)
-----------------------------------------------------------------------------
AppSteps ==
  {"in_spi", "exit", "in_thread", "in_queue", "crashed", "idle", "remove",
   "getStatus", "powerDown", "powerUp",
   "sd_reset", "sd_disable", "sd_status", "sd_flush_rx", "sd_flush_tx",
   "sl_config", "sl_status", "sl_enable",
   "st_disable", "st_flush_tx", "st_flush_rx",
   "tx_disable", "tx_config", "tx_payload", "tx_enable", "tx_pulse",
   "wr_observe", "wr_status", "wr_clear"}

IsrSteps ==
  {"none", "setup", "dead", "poll", "peek", "fifo", "width", "flush", "read",
   "clear", "tx_ds"}

TypeOK ==
  /\ config \subseteq Modes
  /\ ce \in BOOLEAN
  /\ status \subseteq Flags
  /\ rxFifo \in Seq(1 .. arrived) /\ Len(rxFifo) <= FifoDepth
  /\ txFifo \in Seq(1 .. sends) /\ Len(txFifo) <= FifoDepth
  /\ air \in 0 .. sends
  /\ edge \in BOOLEAN
  /\ arrived \in Nat
  /\ acked \subseteq 1 .. sends
  /\ app \in AppSteps
  /\ op \in API \cup {"init"}
  /\ listening \in BOOLEAN
  /\ created \in {"no", "queue", "null"}
  /\ packets \in Seq(0 .. arrived) /\ Len(packets) <= PACKET_BUFFER_SIZE
  /\ isr \in IsrSteps
  /\ tx_ok \in BOOLEAN
  /\ sends \in Nat
  /\ successes \subseteq 1 .. sends
  /\ last \in 0 .. arrived

(* rf24_init_radio starts the interrupt thread before it creates the queue, *)
(* and the thread's first poll() returns at once.  It must not get to       *)
(* tsq_add before tsq_create has returned, and it finds a queue there       *)
(* unless malloc failed: then it finds NULL (rf24.c, 456-457).             *)
QueueExistsBeforeUse ==
  isr \in {"fifo", "width", "flush", "read", "clear"} =>
    /\ created # "no"
    /\ "malloc" \notin Faults => created = "queue"

(* Between two calls the flag listening tells what the driver last made of  *)
(* the radio: CE is high and the chip in receive mode, although rf24_send   *)
(* and rf24_write leave that mode on their way, and powered, unless the     *)
(* application calls rf24_powerDown, which leaves the flag alone (rf24.c,   *)
(* 484-487); and CE is low otherwise.                                      *)
ListeningMeansReceiving ==
  app = "idle" =>
    /\ ce = listening
    /\ listening => "PRIM_RX" \in config
    /\ listening /\ "powerDown" \notin Calls => "PWR_UP" \in config

(* rf24_write does not report one acknowledgement twice, however the        *)
(* interrupt thread interferes and though the status is read and cleared   *)
(* by different bytes of a command (rf24.c, 559, 571-576).                  *)
OneSuccessPerAck == Cardinality(successes) <= Cardinality(acked)

(* An application that does not flush the FIFO under the interrupt thread   *)
(* gets packets in order, each at most once, and none that did not arrive   *)
(* since rf24_init_radio.                                                  *)
Pending ==
  {packets[i] : i \in DOMAIN packets}
  \cup (IF created # "no" THEN {rxFifo[i] : i \in DOMAIN rxFifo} ELSE {})

InOrder == INSTANCE LossyFifo WITH pending <- Pending
InOrderSpec == InOrder!Spec

(* A low IRQ pin makes no further edge.  When the application only receives, *)
(* the interrupt thread never sleeps next to one.                          *)
NoStuckInterrupt ==
  isr = "poll" => status = {} \/ edge

(* Then a received packet does get the interrupt thread to run, and it ends *)
(* with the flag cleared.                                                  *)
InterruptServed == "RX_DR" \in status ~> "RX_DR" \notin status

-----------------------------------------------------------------------------
(* What the comments of the code say and the code does not do.             *)

(* rf24.h, 103, of rf24_write: "True if the payload was delivered           *)
(* successfully false if not".  The interrupt thread clears TX_DS too, and *)
(* TX_DS may tell of an earlier payload.                                   *)
ResultIsDelivery ==
  [][WriteResult => (sends \in successes' <=> sends \in acked)]_vars

(* rf24.h, 121, of rf24_recv: "Return the last payload received".  The FIFO *)
(* may be flushed between the look at it and the read.                     *)
OnlyReceivedPackets == \A i \in DOMAIN packets : packets[i] # 0

(* rf24.h, 75-76, of rf24_startListening: "Call isAvailable() to check for  *)
(* incoming traffic, and read() to get it".  A packet may stay in the chip *)
(* for good: its flag is cleared unread, or there is no edge for it.       *)
TrafficIsRetrieved == rxFifo # <<>> ~> rxFifo = <<>>
=============================================================================
