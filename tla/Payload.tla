------------------------------ MODULE Payload ------------------------------
(***************************************************************************)
(* How many bytes, and whose, travel from one application to another: the  *)
(* framing in rf24.c and the lengths it computes in uint8_t.               *)
(*                                                                         *)
(* The sender calls rf24_send, which puts an address in front of the data, *)
(* or rf24_write, which does not.  The receiver can answer with the        *)
(* payload of an acknowledgement.  Both have an interrupt thread that      *)
(* moves what was received to a queue, while their applications change the *)
(* size of payloads.  Bytes are counted, not listed: a payload starts with *)
(* data bytes that the caller gave and goes on with zeroes up to its width.*)
(* The radio's modes and flags and a malloc that fails are in RF24, the     *)
(* contents of addresses in RF24Address.                                   *)
(***************************************************************************)
EXTENDS Naturals, Sequences

CONSTANTS
  ADDR_WIDTH,
  MAX_PAYLOAD_LEN,
  PACKET_BUFFER_SIZE,
  FifoDepth,     \* the payloads each FIFO of the chip holds
  BYTE,          \* a uint8_t is less
  Lengths,       \* the lengths of what applications send
  Sizes,         \* the payload sizes that they set
  UsedBefore,    \* an earlier process used the radios
  Garbage,       \* what R_RX_PL_WID may read when there is no width to read
  MaxMessages,   \* bound: the messages in a behaviour
  MaxChanges     \* bound: the calls in a behaviour that change settings

ASSUME PayloadAssumption ==
  /\ ADDR_WIDTH \in Nat \ {0}
  /\ MAX_PAYLOAD_LEN \in Nat /\ ADDR_WIDTH < MAX_PAYLOAD_LEN
  /\ BYTE \in Nat /\ MAX_PAYLOAD_LEN < BYTE
  /\ PACKET_BUFFER_SIZE \in Nat \ {0}
  /\ FifoDepth \in Nat \ {0}
  /\ Lengths \subseteq 0 .. BYTE - 1
  /\ Sizes \subseteq 0 .. BYTE - 1
  /\ UsedBefore \in BOOLEAN
  /\ Garbage \subseteq 0 .. BYTE - 1
  /\ MaxMessages \in Nat
  /\ MaxChanges \in Nat

Nodes == {"sender", "receiver"}
Features == {"EN_DPL", "EN_ACK_PAY"}
Calls == {"send", "write", "ack"}

VARIABLES
  payload_len,       \* of each node's driver
  dyn_payloads_set,
  app,               \* where each application is, between two commands of a call
  feature,           \* FEATURE in each node's chip
  dynpd,             \* the pipes of DYNPD: pipe 0 transmits, pipe 1 receives
  rx_pw,             \* RX_PW of the receiver's pipe
  txFifo,            \* the receiver's holds the payloads of acknowledgements
  rxFifo,
  isr,               \* where each interrupt thread is, and the width it has read
  packets,
  messages,          \* how many messages there were
  changes,           \* how many changes of the settings
  torn               \* the FIFO was flushed since the width was read

drivers == <<payload_len, dyn_payloads_set, app>>
chips   == <<feature, dynpd, rx_pw>>
queues  == <<isr, packets, torn>>
counts  == <<messages, changes>>
vars    == <<drivers, chips, queues, txFifo, rxFifo, counts>>

Lesser(a, b) == IF a < b THEN a ELSE b

(* Sums and differences in uint8_t. *)
Plus(a, b)  == IF a + b < BYTE THEN a + b ELSE a + b - BYTE
Minus(a, b) == IF b <= a THEN a - b ELSE a + BYTE - b

(* What R_RX_PAYLOAD reads when there is no payload. *)
NoFrame ==
  [msg |-> 0, call |-> "write", len |-> 0, size |-> 0, exact |-> FALSE,
   data |-> 0, width |-> 0]

(* The bytes the driver means to send for a message. *)
Given(f) == IF f.call = "send" THEN ADDR_WIDTH + f.len ELSE f.len

(* A width, and where it comes from: the chip, or MAX_PAYLOAD_LEN, or       *)
(* nowhere.                                                                *)
Width(len, source) == [len |-> len, source |-> source]

NoWidth == Width(0, "fixed")

(* An interrupt thread looks for a payload ("fifo"), reads its width        *)
(* ("width"), and reads it ("read") or flushes ("flush").                  *)
At(place, width) == [at |-> place, len |-> width.len, source |-> width.source]

Packet(frame, width, tornNow) ==
  [frame |-> frame, len |-> width.len, source |-> width.source, torn |-> tornNow]

Init ==
  /\ payload_len = [n \in Nodes |-> 0]
  /\ dyn_payloads_set = [n \in Nodes |-> FALSE]
  /\ app = [n \in Nodes |-> "idle"]
  /\ IF UsedBefore
     THEN /\ feature \in [Nodes -> SUBSET Features]
          /\ rx_pw \in 0 .. MAX_PAYLOAD_LEN
     ELSE feature = [n \in Nodes |-> {}] /\ rx_pw = 0
  /\ dynpd = [n \in Nodes |-> {}]
  /\ txFifo = [n \in Nodes |-> <<>>]
  /\ rxFifo = [n \in Nodes |-> <<>>]
  /\ isr = [n \in Nodes |-> At("fifo", NoWidth)]
  /\ packets = [n \in Nodes |-> <<>>]
  /\ messages = 0
  /\ changes = 0
  /\ torn = [n \in Nodes |-> FALSE]

-----------------------------------------------------------------------------
(* Settings.                                                               *)

Idle(n) == app[n] = "idle"

Change(n) ==
  /\ Idle(n)
  /\ changes < MaxChanges
  /\ changes' = changes + 1
  /\ UNCHANGED messages

(* Wrong: any size is taken. *)
SetSizeUncapped(n) ==
  /\ Change(n)
  /\ \E size \in Sizes : payload_len' = [payload_len EXCEPT ![n] = size]
  /\ UNCHANGED <<dyn_payloads_set, app, chips, queues, txFifo, rxFifo>>

rf24_setPayloadSize(n) ==
  /\ Change(n)
  /\ \E size \in Sizes :
       payload_len' = [payload_len EXCEPT ![n] = Lesser(size, MAX_PAYLOAD_LEN)]
  /\ UNCHANGED <<dyn_payloads_set, app, chips, queues, txFifo, rxFifo>>

(* A pipe gets the size of the moment it is opened. *)
rf24_setRXAddressOnPipe ==
  /\ Change("receiver")
  /\ rx_pw' = payload_len["receiver"]
  /\ UNCHANGED <<drivers, feature, dynpd, queues, txFifo, rxFifo>>

(* rf24_enableDynamicPayloads, first in the chip and then in the driver. *)
EnableInChip(n) ==
  /\ Change(n)
  /\ app' = [app EXCEPT ![n] = "dynamic"]
  /\ feature' = [feature EXCEPT ![n] = @ \cup {"EN_DPL"}]
  /\ dynpd' = [dynpd EXCEPT ![n] = {0, 1}]
  /\ UNCHANGED <<payload_len, dyn_payloads_set, rx_pw, queues, txFifo, rxFifo>>

EnableInDriver(n) ==
  /\ app[n] = "dynamic"
  /\ app' = [app EXCEPT ![n] = "idle"]
  /\ dyn_payloads_set' = [dyn_payloads_set EXCEPT ![n] = TRUE]
  /\ payload_len' = [payload_len EXCEPT ![n] = MAX_PAYLOAD_LEN]
  /\ UNCHANGED <<chips, queues, txFifo, rxFifo, counts>>

rf24_enableDynamicPayloads(n) == EnableInChip(n) \/ EnableInDriver(n)

(* One of the two features is enough for it to leave FEATURE alone. *)
rf24_enableAckPayload(n) ==
  /\ Change(n)
  /\ feature' = [feature EXCEPT ![n] = IF @ = {} THEN Features ELSE @]
  /\ dynpd' = [dynpd EXCEPT ![n] = @ \cup {0}]
  /\ UNCHANGED <<drivers, rx_pw, queues, txFifo, rxFifo>>

(* Both FIFOs: CE is low, so that nothing comes or goes between the two     *)
(* commands, and the interrupt thread does not use the transmit FIFO.      *)
Flush(n) ==
  /\ txFifo' = [txFifo EXCEPT ![n] = <<>>]
  /\ rxFifo' = [rxFifo EXCEPT ![n] = <<>>]
  /\ torn' = [torn EXCEPT ![n] = TRUE]

(* Neither FEATURE nor the driver's variables are reset. *)
ResetDynpd(n) ==
  /\ Change(n)
  /\ app' = [app EXCEPT ![n] = "reset"]
  /\ dynpd' = [dynpd EXCEPT ![n] = {}]
  /\ UNCHANGED <<payload_len, dyn_payloads_set, feature, rx_pw, queues, txFifo, rxFifo>>

ResetFifos(n) ==
  /\ app[n] = "reset"
  /\ app' = [app EXCEPT ![n] = "idle"]
  /\ Flush(n)
  /\ UNCHANGED <<payload_len, dyn_payloads_set, chips, isr, packets, counts>>

rf24_resetcfg(n) == ResetDynpd(n) \/ ResetFifos(n)

rf24_stopListening(n) ==
  /\ Change(n)
  /\ Flush(n)
  /\ UNCHANGED <<drivers, chips, isr, packets>>

-----------------------------------------------------------------------------
(* Sending.                                                                *)

(* The chip sends and receives payloads of any length. *)
Dynamic(n) ==
  /\ "EN_DPL" \in feature[n]
  /\ (IF n = "sender" THEN 0 ELSE 1) \in dynpd[n]

(* A full FIFO ignores a payload, and one of no bytes is none. *)
Put(n, f) ==
  txFifo' = [txFifo EXCEPT ![n] =
               IF f.width > 0 /\ Len(@) < FifoDepth THEN Append(@, f) ELSE @]

(* Wrong: the buffer is read as far as the payload goes. *)
write_payloadWhole(call, len, given) ==
  Put("sender",
      [msg |-> messages + 1, call |-> call, len |-> len,
       size |-> payload_len["sender"],
       exact |-> dyn_payloads_set["sender"] /\ Dynamic("sender"),
       data |-> payload_len["sender"], width |-> payload_len["sender"]])

(* len bytes were asked for and given are written, as payload_len allows;  *)
(* blank_len is computed in uint8_t.                                       *)
write_payload(call, len, given) ==
  LET data_len  == Lesser(given, payload_len["sender"])
      blank_len == IF dyn_payloads_set["sender"] THEN 0
                   ELSE Minus(payload_len["sender"], data_len)
  IN Put("sender",
         [msg |-> messages + 1, call |-> call, len |-> len,
          size |-> payload_len["sender"],
          exact |-> dyn_payloads_set["sender"] /\ Dynamic("sender"),
          data |-> data_len, width |-> data_len + blank_len])

Message(n) ==
  /\ Idle(n)
  /\ messages < MaxMessages
  /\ messages' = messages + 1
  /\ UNCHANGED <<drivers, chips, queues, rxFifo, changes>>

(* Wrong: the address is not counted. *)
rf24_sendUnframed ==
  /\ Message("sender")
  /\ \E len \in Lengths :
       /\ len <= MAX_PAYLOAD_LEN
       /\ write_payload("send", len, Plus(ADDR_WIDTH, len))

(* Longer messages are refused, which changes nothing. *)
rf24_send ==
  /\ Message("sender")
  /\ \E len \in Lengths :
       /\ len <= MAX_PAYLOAD_LEN - ADDR_WIDTH
       /\ write_payload("send", len, Plus(ADDR_WIDTH, len))

rf24_write ==
  /\ Message("sender")
  /\ \E len \in Lengths : write_payload("write", len, len)

rf24_writeAckPayload ==
  /\ Message("receiver")
  /\ \E len \in Lengths :
       LET data_len == Lesser(len, MAX_PAYLOAD_LEN)
       IN Put("receiver",
              [msg |-> messages + 1, call |-> "ack", len |-> len,
               size |-> MAX_PAYLOAD_LEN, exact |-> TRUE,
               data |-> data_len, width |-> data_len])

-----------------------------------------------------------------------------
(* The radios: the oldest payload of the sender, once the receiver has room *)
(* for it and expects its width, and with it an acknowledgement and the     *)
(* payload that waits to go back.  Failed transmissions change nothing      *)
(* here: the payload stays in the FIFO.  CE is low during a reset.         *)

Accepts(f) ==
  /\ Dynamic("sender") = Dynamic("receiver")
  /\ ~Dynamic("receiver") => f.width = rx_pw

AckPayload ==
  /\ \A n \in Nodes : Dynamic(n) /\ "EN_ACK_PAY" \in feature[n]
  /\ txFifo["receiver"] # <<>>
  /\ Len(rxFifo["sender"]) < FifoDepth

Exchange ==
  /\ \A n \in Nodes : app[n] # "reset"
  /\ txFifo["sender"] # <<>>
  /\ Accepts(Head(txFifo["sender"]))
  /\ Len(rxFifo["receiver"]) < FifoDepth
  /\ rxFifo' = [n \in Nodes |->
       IF n = "receiver" THEN Append(rxFifo[n], Head(txFifo["sender"]))
       ELSE IF AckPayload THEN Append(rxFifo[n], Head(txFifo["receiver"]))
       ELSE rxFifo[n]]
  /\ txFifo' = [n \in Nodes |->
       IF n = "sender" \/ AckPayload THEN Tail(txFifo[n]) ELSE txFifo[n]]
  /\ UNCHANGED <<drivers, chips, queues, counts>>

-----------------------------------------------------------------------------
(* Receiving.                                                              *)

(* A round of retrieve_packets: the look at FIFO_STATUS, the width, and the *)
(* payload are a command each, and the application has its own in between. *)
FindPayload(n) ==
  /\ isr[n].at = "fifo"
  /\ rxFifo[n] # <<>>
  /\ isr' = [isr EXCEPT ![n] = At("width", NoWidth)]
  /\ UNCHANGED <<drivers, chips, torn, packets, txFifo, rxFifo, counts>>

(* R_RX_PL_WID reads the width of the oldest payload only where there is    *)
(* one and the chip keeps widths.                                          *)
WidthsRead(n) ==
  IF ~dyn_payloads_set[n] THEN {Width(MAX_PAYLOAD_LEN, "fixed")}
  ELSE IF Dynamic(n) /\ rxFifo[n] # <<>> THEN {Width(Head(rxFifo[n]).width, "chip")}
  ELSE {Width(len, "nowhere") : len \in Garbage}

ReadWidth(n) ==
  /\ isr[n].at = "width"
  /\ \E width \in WidthsRead(n) :
       isr' = [isr EXCEPT ![n] = IF width.len > MAX_PAYLOAD_LEN
                                 THEN At("flush", NoWidth)
                                 ELSE At("read", width)]
  /\ torn' = [torn EXCEPT ![n] = FALSE]
  /\ UNCHANGED <<drivers, chips, packets, txFifo, rxFifo, counts>>

flush_rx(n) ==
  /\ isr[n].at = "flush"
  /\ rxFifo' = [rxFifo EXCEPT ![n] = <<>>]
  /\ isr' = [isr EXCEPT ![n] = At("fifo", NoWidth)]
  /\ UNCHANGED <<drivers, chips, torn, packets, txFifo, counts>>

Oldest(n) == IF rxFifo[n] = <<>> THEN NoFrame ELSE Head(rxFifo[n])

(* read_payload and tsq_add; a full queue drops the packet. *)
ReadPayload(n) ==
  /\ isr[n].at = "read"
  /\ packets' = [packets EXCEPT ![n] =
       IF Len(@) < PACKET_BUFFER_SIZE
       THEN Append(@, Packet(Oldest(n), isr[n], torn[n]))
       ELSE @]
  /\ rxFifo' = [rxFifo EXCEPT ![n] = IF @ = <<>> THEN @ ELSE Tail(@)]
  /\ isr' = [isr EXCEPT ![n] = At("fifo", NoWidth)]
  /\ UNCHANGED <<drivers, chips, torn, txFifo, counts>>

(* What rf24_recv and rf24_recvfrom do with a packet and a buffer of some   *)
(* size: they copy the bytes after the address, as many as the packet has  *)
(* with its address, and return a uint8_t.                                 *)
Copied(p, size) == Lesser(p.len, size)
Returned(p)     == Minus(p.len, ADDR_WIDTH)

rf24_recv(n) ==
  /\ Idle(n)
  /\ packets[n] # <<>>
  /\ packets' = [packets EXCEPT ![n] = Tail(@)]
  /\ UNCHANGED <<drivers, chips, isr, torn, txFifo, rxFifo, counts>>

-----------------------------------------------------------------------------

Settings(n) ==
  \/ rf24_setPayloadSize(n)
  \/ rf24_enableDynamicPayloads(n)
  \/ rf24_enableAckPayload(n)
  \/ rf24_resetcfg(n)
  \/ rf24_stopListening(n)

retrieve_packets(n) ==
  \/ FindPayload(n)
  \/ ReadWidth(n)
  \/ flush_rx(n)
  \/ ReadPayload(n)

Next ==
  \/ rf24_setRXAddressOnPipe
  \/ rf24_send
  \/ rf24_write
  \/ rf24_writeAckPayload
  \/ Exchange
  \/ \E n \in Nodes : Settings(n) \/ retrieve_packets(n) \/ rf24_recv(n)

Spec == Init /\ [][Next]_vars
-----------------------------------------------------------------------------

Frame ==
  [msg : Nat, call : Calls, len : 0 .. BYTE - 1, size : 0 .. MAX_PAYLOAD_LEN,
   exact : BOOLEAN, data : 0 .. MAX_PAYLOAD_LEN, width : 0 .. MAX_PAYLOAD_LEN]

Sources == {"fixed", "chip", "nowhere"}
Places  == {"fifo", "width", "flush", "read"}

Received ==
  [frame : Frame, len : 0 .. MAX_PAYLOAD_LEN, source : Sources, torn : BOOLEAN]

(* The FIFOs and the queue hold no more than fits, and no payload is wider  *)
(* than the chip can carry, whatever the lengths in uint8_t.               *)
TypeOK ==
  /\ payload_len \in [Nodes -> 0 .. MAX_PAYLOAD_LEN]
  /\ dyn_payloads_set \in [Nodes -> BOOLEAN]
  /\ app \in [Nodes -> {"idle", "dynamic", "reset"}]
  /\ feature \in [Nodes -> SUBSET Features]
  /\ dynpd \in [Nodes -> SUBSET {0, 1}]
  /\ rx_pw \in 0 .. MAX_PAYLOAD_LEN
  /\ txFifo \in [Nodes -> Seq(Frame)]
  /\ rxFifo \in [Nodes -> Seq(Frame)]
  /\ isr \in [Nodes -> [at : Places, len : 0 .. MAX_PAYLOAD_LEN, source : Sources]]
  /\ packets \in [Nodes -> Seq(Received)]
  /\ messages \in Nat
  /\ changes \in Nat
  /\ torn \in [Nodes -> BOOLEAN]
  /\ \A n \in Nodes :
       /\ Len(txFifo[n]) <= FifoDepth
       /\ Len(rxFifo[n]) <= FifoDepth
       /\ Len(packets[n]) <= PACKET_BUFFER_SIZE

(* No payload carries a byte from beyond the caller's buffer, and none is   *)
(* cut off that would have fit (rf24.c, 160-166).                          *)
NoStrayBytes ==
  \A n \in Nodes :
    \A i \in DOMAIN txFifo[n] :
      LET f == txFifo[n][i]
      IN /\ f.data <= Given(f)
         /\ f.data < Given(f) => f.data = f.size
         /\ f.data <= f.width

(* The width with which a packet was read is that of its payload, or more:  *)
(* it is none that the chip did not have to tell, and none of a payload    *)
(* that was flushed before the packet was read.                            *)
Trusted(p) == p.source = "fixed" \/ (p.source = "chip" /\ ~p.torn)

(* What rf24_send accepted while payloads had their full size reaches the   *)
(* caller of rf24_recv in front of its buffer, as far as the buffer goes,  *)
(* though it travelled behind an address and with zeroes after it, and      *)
(* settings changed on its way.  Where both ends use dynamic payloads the  *)
(* length returned is the length sent, and the copy is longer than that by *)
(* an address and no more.  Excepted are packets whose width the code got  *)
(* from a chip without dynamic payloads or with an empty FIFO, and those   *)
(* whose FIFO the application flushed after the width was read.            *)
MessagesIntact ==
  \A n \in Nodes : \A i \in DOMAIN packets[n] :
    LET p == packets[n][i]
        f == p.frame
    IN f.call = "send" /\ f.size = MAX_PAYLOAD_LEN /\ Trusted(p)
         => /\ f.data = ADDR_WIDTH + f.len
            /\ \A size \in 0 .. BYTE - 1 : Copied(p, size) >= Lesser(f.len, size)
            /\ f.exact /\ p.source = "chip" =>
                 /\ Returned(p) = f.len
                 /\ \A size \in 0 .. BYTE - 1 :
                      Copied(p, size) = Lesser(ADDR_WIDTH + f.len, size)

=============================================================================
