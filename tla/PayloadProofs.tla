--------------------------- MODULE PayloadProofs ---------------------------
(***************************************************************************)
(* Payload for every size of addresses, payloads, FIFOs and queue: what    *)
(* rf24_send accepted arrives in front of the caller's buffer, and no      *)
(* payload carries a byte that the caller did not give.                    *)
(***************************************************************************)
EXTENDS Payload, SequenceTheorems, TLAPS

(* A payload has what was given, as far as its size allows, and no zeroes   *)
(* where both driver and chip know its length.                             *)
Sound(f) ==
  /\ f.data = Lesser(Given(f), f.size)
  /\ f.data <= f.width
  /\ f.exact => f.width = f.data
  /\ f.call = "send" => f.len <= MAX_PAYLOAD_LEN - ADDR_WIDTH

SoundFrame == {f \in Frame : Sound(f)}

(* A packet was read as long as its payload is, or longer. *)
Read(p) ==
  /\ p.frame \in SoundFrame
  /\ p.source = "fixed" => p.len = MAX_PAYLOAD_LEN
  /\ p.source = "chip" /\ ~p.torn => p.len = p.frame.width

SoundPacket == {p \in Received : Read(p)}

(* The width that an interrupt thread holds is that of the payload it will  *)
(* read next, unless the FIFO was flushed.                                 *)
WidthHeld(n) ==
  isr[n].at = "read" =>
    /\ isr[n].source = "fixed" => isr[n].len = MAX_PAYLOAD_LEN
    /\ isr[n].source = "chip" /\ ~torn[n] =>
         rxFifo[n] # <<>> /\ isr[n].len = Head(rxFifo[n]).width

Fifos ==
  /\ txFifo \in [Nodes -> Seq(SoundFrame)]
  /\ rxFifo \in [Nodes -> Seq(SoundFrame)]
  /\ \A n \in Nodes : Len(txFifo[n]) <= FifoDepth /\ Len(rxFifo[n]) <= FifoDepth

Queue ==
  /\ packets \in [Nodes -> Seq(SoundPacket)]
  /\ \A n \in Nodes : Len(packets[n]) <= PACKET_BUFFER_SIZE

Drivers ==
  /\ payload_len \in [Nodes -> 0 .. MAX_PAYLOAD_LEN]
  /\ dyn_payloads_set \in [Nodes -> BOOLEAN]
  /\ app \in [Nodes -> {"idle", "dynamic", "reset"}]

Chips ==
  /\ feature \in [Nodes -> SUBSET Features]
  /\ dynpd \in [Nodes -> SUBSET {0, 1}]
  /\ rx_pw \in 0 .. MAX_PAYLOAD_LEN

Threads ==
  /\ isr \in [Nodes -> [at : Places, len : 0 .. MAX_PAYLOAD_LEN, source : Sources]]
  /\ torn \in [Nodes -> BOOLEAN]
  /\ \A n \in Nodes : WidthHeld(n)

Counts == messages \in Nat /\ changes \in Nat

Inv == Fifos /\ Queue /\ Drivers /\ Chips /\ Threads /\ Counts

-----------------------------------------------------------------------------
(* What the invariant says.                                                *)

LEMMA InvType == Inv => TypeOK
<1> SUFFICES ASSUME Inv PROVE TypeOK
  OBVIOUS
<1>1. SoundFrame \subseteq Frame /\ SoundPacket \subseteq Received
  BY DEF SoundFrame, SoundPacket
<1>2. Seq(SoundFrame) \subseteq Seq(Frame) /\ Seq(SoundPacket) \subseteq Seq(Received)
  BY <1>1
<1>3. QED
  BY <1>2 DEF Inv, TypeOK, Fifos, Queue, Drivers, Chips, Threads, Counts

LEMMA GivenType ==
  ASSUME NEW f \in Frame
  PROVE  Given(f) \in Nat
BY PayloadAssumption DEF Given, Frame

LEMMA SoundNoStray ==
  ASSUME NEW f \in SoundFrame
  PROVE  /\ f.data <= Given(f)
         /\ f.data < Given(f) => f.data = f.size
         /\ f.data <= f.width
<1>1. f \in Frame /\ Sound(f)
  BY DEF SoundFrame
<1>2. Given(f) \in Nat /\ f.size \in Nat /\ f.data \in Nat
  BY <1>1, GivenType, PayloadAssumption DEF Frame
<1>3. QED
  BY <1>1, <1>2 DEF Sound, Lesser

LEMMA InvNoStray == Inv => NoStrayBytes
<1> SUFFICES ASSUME Inv, NEW n \in Nodes, NEW i \in DOMAIN txFifo[n]
             PROVE  LET f == txFifo[n][i]
                    IN /\ f.data <= Given(f)
                       /\ f.data < Given(f) => f.data = f.size
                       /\ f.data <= f.width
  BY DEF NoStrayBytes
<1>1. txFifo[n][i] \in SoundFrame
  BY DEF Inv, Fifos
<1>2. QED
  BY <1>1, SoundNoStray

(* All the arithmetic of a packet that rf24_send sent. *)
LEMMA SoundIntact ==
  ASSUME NEW p \in SoundPacket,
         p.frame.call = "send", p.frame.size = MAX_PAYLOAD_LEN, Trusted(p)
  PROVE  /\ p.frame.data = ADDR_WIDTH + p.frame.len
         /\ \A size \in 0 .. BYTE - 1 : Copied(p, size) >= Lesser(p.frame.len, size)
         /\ p.frame.exact /\ p.source = "chip" =>
              /\ Returned(p) = p.frame.len
              /\ \A size \in 0 .. BYTE - 1 :
                   Copied(p, size) = Lesser(ADDR_WIDTH + p.frame.len, size)
<1> DEFINE f == p.frame
<1>1. /\ p \in Received /\ Read(p)
      /\ f \in Frame /\ Sound(f)
  BY DEF SoundPacket, Received, Read, SoundFrame
<1>2. /\ f.len \in Nat /\ f.data \in Nat /\ f.width \in 0 .. MAX_PAYLOAD_LEN
      /\ p.len \in Nat
  BY <1>1, PayloadAssumption DEF Frame, Received
<1>3. Given(f) = ADDR_WIDTH + f.len
  BY DEF Given
<1>4. f.len <= MAX_PAYLOAD_LEN - ADDR_WIDTH
  BY <1>1 DEF Sound
<1>5. f.data = ADDR_WIDTH + f.len
  BY <1>1, <1>2, <1>3, <1>4, PayloadAssumption DEF Sound, Lesser
<1>6. p.source = "fixed" \/ (p.source = "chip" /\ ~p.torn)
  BY DEF Trusted
<1>7. p.len >= f.width
  BY <1>1, <1>2, <1>6, PayloadAssumption DEF Read
<1>8. p.len >= ADDR_WIDTH + f.len
  BY <1>1, <1>2, <1>5, <1>7, PayloadAssumption DEF Sound
<1>9. ASSUME NEW size \in 0 .. BYTE - 1
      PROVE  Copied(p, size) >= Lesser(f.len, size)
  BY <1>2, <1>8, PayloadAssumption DEF Copied, Lesser
<1>10. ASSUME f.exact, p.source = "chip"
       PROVE  /\ Returned(p) = f.len
              /\ \A size \in 0 .. BYTE - 1 :
                   Copied(p, size) = Lesser(ADDR_WIDTH + f.len, size)
  <2>1. p.len = ADDR_WIDTH + f.len
    BY <1>1, <1>5, <1>6, <1>10 DEF Read, Sound
  <2>2. Returned(p) = f.len
    BY <1>2, <2>1, PayloadAssumption DEF Returned, Minus
  <2>3. QED
    BY <2>1, <2>2 DEF Copied
<1>11. QED
  BY <1>5, <1>9, <1>10

LEMMA InvIntact == Inv => MessagesIntact
<1> SUFFICES ASSUME Inv, NEW n \in Nodes, NEW i \in DOMAIN packets[n]
             PROVE  LET p == packets[n][i]
                        f == p.frame
                    IN f.call = "send" /\ f.size = MAX_PAYLOAD_LEN /\ Trusted(p)
                         => /\ f.data = ADDR_WIDTH + f.len
                            /\ \A size \in 0 .. BYTE - 1 :
                                 Copied(p, size) >= Lesser(f.len, size)
                            /\ f.exact /\ p.source = "chip" =>
                                 /\ Returned(p) = f.len
                                 /\ \A size \in 0 .. BYTE - 1 :
                                      Copied(p, size) = Lesser(ADDR_WIDTH + f.len, size)
  BY DEF MessagesIntact
<1>1. packets[n][i] \in SoundPacket
  BY DEF Inv, Queue
<1>2. QED
  BY <1>1, SoundIntact

-----------------------------------------------------------------------------
(* Sequences that grow and shrink.                                         *)

LEMMA Appended ==
  ASSUME NEW S, NEW s \in Seq(S), NEW e \in S
  PROVE  /\ Append(s, e) \in Seq(S)
         /\ Len(Append(s, e)) = Len(s) + 1
         /\ Append(s, e) # << >>
         /\ s # << >> => Head(Append(s, e)) = Head(s)
BY AppendProperties

LEMMA Tailed ==
  ASSUME NEW S, NEW s \in Seq(S), s # << >>
  PROVE  /\ Head(s) \in S
         /\ Tail(s) \in Seq(S)
         /\ Len(Tail(s)) = Len(s) - 1
         /\ Len(s) \in Nat
OBVIOUS

LEMMA EmptySound ==
  ASSUME NEW S
  PROVE  << >> \in Seq(S) /\ Len(<< >>) = 0
OBVIOUS

(* A sound payload may be put into a FIFO. *)
LEMMA PutSound ==
  ASSUME Fifos, NEW n \in Nodes, NEW f \in SoundFrame, Put(n, f), UNCHANGED rxFifo
  PROVE  Fifos'
<1>1. txFifo[n] \in Seq(SoundFrame) /\ Len(txFifo[n]) \in Nat
  BY DEF Fifos
<1>2. txFifo' \in [Nodes -> Seq(SoundFrame)]
  BY <1>1, Appended DEF Put, Fifos
<1>3. Len(txFifo'[n]) <= FifoDepth
  BY <1>1, Appended, PayloadAssumption DEF Put, Fifos
<1>4. \A m \in Nodes : Len(txFifo'[m]) <= FifoDepth
  BY <1>3 DEF Put, Fifos
<1>5. QED
  BY <1>2, <1>4 DEF Fifos

(* Who leaves the widths, the flushes and the receive FIFOs alone leaves    *)
(* the interrupt threads what they have.                                   *)
LEMMA ThreadsKept ==
  ASSUME Threads, UNCHANGED <<isr, torn, rxFifo>>
  PROVE  Threads'
BY DEF Threads, WidthHeld

-----------------------------------------------------------------------------
(* Initially.                                                              *)

LEMMA NoFrameSound == NoFrame \in SoundFrame
BY PayloadAssumption DEF NoFrame, SoundFrame, Frame, Sound, Given, Lesser, Calls

LEMMA InitInv == Init => Inv
<1> SUFFICES ASSUME Init PROVE Inv
  OBVIOUS
<1>1. Fifos /\ Queue
  BY EmptySound, PayloadAssumption DEF Init, Fifos, Queue
<1>2. Drivers /\ Chips /\ Counts
  BY PayloadAssumption DEF Init, Drivers, Chips, Counts, Features
<1>3. Threads
  BY PayloadAssumption DEF Init, Threads, WidthHeld, At, NoWidth, Width, Sources, Places
<1>4. QED
  BY <1>1, <1>2, <1>3 DEF Inv

-----------------------------------------------------------------------------
(* Settings.                                                               *)

LEMMA LesserType ==
  ASSUME NEW a \in Nat, NEW b \in Nat
  PROVE  /\ Lesser(a, b) \in 0 .. a
         /\ Lesser(a, b) \in 0 .. b
BY DEF Lesser

LEMMA SizeInv ==
  ASSUME Inv, NEW n \in Nodes, rf24_setPayloadSize(n)
  PROVE  Inv'
<1>1. \A size \in Sizes : Lesser(size, MAX_PAYLOAD_LEN) \in 0 .. MAX_PAYLOAD_LEN
  BY LesserType, PayloadAssumption
<1>2. Drivers'
  BY <1>1 DEF rf24_setPayloadSize, Inv, Drivers
<1>3. Threads'
  BY ThreadsKept DEF rf24_setPayloadSize, queues, Inv
<1>4. Counts'
  BY DEF rf24_setPayloadSize, Change, Inv, Counts
<1>5. QED
  BY <1>2, <1>3, <1>4
  DEF rf24_setPayloadSize, chips, queues, Inv, Fifos, Queue, Chips

LEMMA OpenInv ==
  ASSUME Inv, rf24_setRXAddressOnPipe
  PROVE  Inv'
<1>1. Chips'
  BY DEF rf24_setRXAddressOnPipe, Inv, Chips, Drivers, Nodes
<1>2. Threads'
  BY ThreadsKept DEF rf24_setRXAddressOnPipe, queues, Inv
<1>3. Counts'
  BY DEF rf24_setRXAddressOnPipe, Change, Inv, Counts
<1>4. QED
  BY <1>1, <1>2, <1>3
  DEF rf24_setRXAddressOnPipe, drivers, queues, Inv, Fifos, Queue, Drivers

LEMMA EnableInv ==
  ASSUME Inv, NEW n \in Nodes, rf24_enableDynamicPayloads(n)
  PROVE  Inv'
<1>1. CASE EnableInChip(n)
  <2>1. Chips' /\ Drivers'
    BY <1>1 DEF EnableInChip, Inv, Chips, Drivers, Features
  <2>2. Threads'
    BY <1>1, ThreadsKept DEF EnableInChip, queues, Inv
  <2>3. Counts'
    BY <1>1 DEF EnableInChip, Change, Inv, Counts
  <2>4. QED
    BY <1>1, <2>1, <2>2, <2>3 DEF EnableInChip, queues, Inv, Fifos, Queue
<1>2. CASE EnableInDriver(n)
  <2>1. Drivers'
    BY <1>2, PayloadAssumption DEF EnableInDriver, Inv, Drivers
  <2>2. Threads'
    BY <1>2, ThreadsKept DEF EnableInDriver, queues, Inv
  <2>3. QED
    BY <1>2, <2>1, <2>2
    DEF EnableInDriver, chips, queues, counts, Inv, Fifos, Queue, Chips, Counts
<1>3. QED
  BY <1>1, <1>2 DEF rf24_enableDynamicPayloads

LEMMA AckPayloadInv ==
  ASSUME Inv, NEW n \in Nodes, rf24_enableAckPayload(n)
  PROVE  Inv'
<1>1. Chips'
  BY DEF rf24_enableAckPayload, Inv, Chips
<1>2. Threads'
  BY ThreadsKept DEF rf24_enableAckPayload, queues, Inv
<1>3. Counts'
  BY DEF rf24_enableAckPayload, Change, Inv, Counts
<1>4. QED
  BY <1>1, <1>2, <1>3
  DEF rf24_enableAckPayload, drivers, queues, Inv, Fifos, Queue, Drivers

(* What was read before a flush is marked. *)
LEMMA FlushInv ==
  ASSUME Inv, NEW n \in Nodes, Flush(n), UNCHANGED isr
  PROVE  Fifos' /\ Threads'
<1>1. Fifos'
  BY EmptySound, PayloadAssumption DEF Flush, Inv, Fifos
<1>2. \A m \in Nodes : WidthHeld(m)'
  BY DEF Flush, Inv, Threads, WidthHeld
<1>3. Threads'
  BY <1>2 DEF Flush, Inv, Threads
<1>4. QED
  BY <1>1, <1>3

LEMMA ResetInv ==
  ASSUME Inv, NEW n \in Nodes, rf24_resetcfg(n)
  PROVE  Inv'
<1>1. CASE ResetDynpd(n)
  <2>1. Drivers' /\ Chips' /\ Counts'
    BY <1>1 DEF ResetDynpd, Change, Inv, Drivers, Chips, Counts
  <2>2. Threads'
    BY <1>1, ThreadsKept DEF ResetDynpd, queues, Inv
  <2>3. QED
    BY <1>1, <2>1, <2>2 DEF ResetDynpd, queues, Inv, Fifos, Queue
<1>2. CASE ResetFifos(n)
  <2>1. Fifos' /\ Threads'
    BY <1>2, FlushInv DEF ResetFifos
  <2>2. QED
    BY <1>2, <2>1 DEF ResetFifos, chips, counts, Inv, Drivers, Chips, Counts, Queue
<1>3. QED
  BY <1>1, <1>2 DEF rf24_resetcfg

LEMMA StopInv ==
  ASSUME Inv, NEW n \in Nodes, rf24_stopListening(n)
  PROVE  Inv'
<1>1. Fifos' /\ Threads'
  BY FlushInv DEF rf24_stopListening
<1>2. Drivers' /\ Chips' /\ Queue' /\ Counts'
  BY DEF rf24_stopListening, Change, drivers, chips, Inv, Drivers, Chips, Queue, Counts
<1>3. QED
  BY <1>1, <1>2 DEF Inv

-----------------------------------------------------------------------------
(* Sending.                                                                *)

(* The payload that write_payload makes of given bytes is sound, for the    *)
(* subtraction in uint8_t does not wrap around.                            *)
LEMMA WriteInv ==
  ASSUME Inv, Message("sender"), NEW call \in Calls, NEW len \in 0 .. BYTE - 1,
         NEW given \in Nat, write_payload(call, len, given),
         given = IF call = "send" THEN ADDR_WIDTH + len ELSE len,
         call = "send" => len <= MAX_PAYLOAD_LEN - ADDR_WIDTH
  PROVE  Fifos'
<1> DEFINE size  == payload_len["sender"]
           data  == Lesser(given, size)
           blank == IF dyn_payloads_set["sender"] THEN 0 ELSE Minus(size, data)
           exact == dyn_payloads_set["sender"] /\ Dynamic("sender")
           f     == [msg |-> messages + 1, call |-> call, len |-> len, size |-> size,
                     exact |-> exact, data |-> data, width |-> data + blank]
<1>1. size \in 0 .. MAX_PAYLOAD_LEN /\ messages + 1 \in Nat
  BY DEF Inv, Drivers, Counts, Nodes
<1> HIDE DEF size
<1>2. data \in 0 .. size
  <2>1. size \in Nat
    BY <1>1, PayloadAssumption
  <2>2. QED
    BY <2>1, LesserType
<1>3. /\ data + blank \in 0 .. MAX_PAYLOAD_LEN
      /\ data <= data + blank
      /\ dyn_payloads_set["sender"] => data + blank = data
  BY <1>1, <1>2, PayloadAssumption DEF Minus
<1>4. exact \in BOOLEAN
  BY DEF Inv, Drivers, Nodes
<1> HIDE DEF size, data, blank, exact
<1>5. f \in Frame
  BY <1>1, <1>2, <1>3, <1>4, PayloadAssumption DEF Frame
<1>6. Given(f) = given
  BY DEF Given
<1>7. f.exact => f.width = f.data
  BY <1>3 DEF exact
<1>8. f.data = Lesser(Given(f), f.size)
  BY <1>6 DEF data
<1>9. f \in SoundFrame
  BY <1>3, <1>5, <1>7, <1>8 DEF SoundFrame, Sound
<1>10. Put("sender", f)
  BY DEF write_payload, size, data, blank, exact
<1>11. QED
  BY <1>9, <1>10, PutSound DEF Message, Inv, Nodes

(* Beside the FIFO a message changes nothing but its number. *)
LEMMA MessageInv ==
  ASSUME Inv, NEW n \in Nodes, Message(n)
  PROVE  Queue' /\ Drivers' /\ Chips' /\ Threads' /\ Counts'
<1>1. Threads'
  BY ThreadsKept DEF Message, queues, Inv
<1>2. QED
  BY <1>1 DEF Message, drivers, chips, queues, Inv, Queue, Drivers, Chips, Counts

LEMMA SendInv ==
  ASSUME Inv, rf24_send
  PROVE  Inv'
<1>1. PICK len \in Lengths :
        /\ len <= MAX_PAYLOAD_LEN - ADDR_WIDTH
        /\ write_payload("send", len, Plus(ADDR_WIDTH, len))
  BY DEF rf24_send
<1>2. Message("sender")
  BY DEF rf24_send
<1>3. len \in 0 .. BYTE - 1
  BY PayloadAssumption
<1>4. Plus(ADDR_WIDTH, len) = ADDR_WIDTH + len /\ Plus(ADDR_WIDTH, len) \in Nat
  BY <1>1, <1>3, PayloadAssumption DEF Plus
<1>5. Fifos'
  BY <1>1, <1>2, <1>3, <1>4, WriteInv DEF Calls
<1>6. QED
  BY <1>2, <1>5, MessageInv DEF Inv, Nodes

LEMMA WriteRawInv ==
  ASSUME Inv, rf24_write
  PROVE  Inv'
<1>1. PICK len \in Lengths : write_payload("write", len, len)
  BY DEF rf24_write
<1>2. Message("sender")
  BY DEF rf24_write
<1>3. len \in 0 .. BYTE - 1 /\ len \in Nat
  BY PayloadAssumption
<1>4. Fifos'
  BY <1>1, <1>2, <1>3, WriteInv DEF Calls
<1>5. QED
  BY <1>2, <1>4, MessageInv DEF Inv, Nodes

LEMMA WriteAckInv ==
  ASSUME Inv, rf24_writeAckPayload
  PROVE  Inv'
<1> DEFINE data(len) == Lesser(len, MAX_PAYLOAD_LEN)
           f(len)    == [msg |-> messages + 1, call |-> "ack", len |-> len,
                         size |-> MAX_PAYLOAD_LEN, exact |-> TRUE,
                         data |-> data(len), width |-> data(len)]
<1>1. PICK len \in Lengths : Put("receiver", f(len))
  BY DEF rf24_writeAckPayload
<1>2. Message("receiver")
  BY DEF rf24_writeAckPayload
<1>3. len \in 0 .. BYTE - 1 /\ len \in Nat
  BY PayloadAssumption
<1>4. data(len) \in 0 .. MAX_PAYLOAD_LEN
  BY <1>3, LesserType, PayloadAssumption
<1>5. messages + 1 \in Nat
  BY DEF Inv, Counts
<1>6. f(len) \in SoundFrame
  BY <1>3, <1>4, <1>5, PayloadAssumption
  DEF SoundFrame, Sound, Frame, Calls, Given
<1>7. Fifos'
  BY <1>1, <1>2, <1>6, PutSound DEF Message, Inv, Nodes
<1>8. QED
  BY <1>2, <1>7, MessageInv DEF Inv, Nodes

-----------------------------------------------------------------------------
(* The radios: what is added to a receive FIFO leaves its head where it is. *)

LEMMA ExchangeInv ==
  ASSUME Inv, Exchange
  PROVE  Inv'
<1> DEFINE there == Head(txFifo["sender"])
           back  == Head(txFifo["receiver"])
<1>1. /\ txFifo["sender"] \in Seq(SoundFrame) /\ txFifo["receiver"] \in Seq(SoundFrame)
      /\ rxFifo["sender"] \in Seq(SoundFrame) /\ rxFifo["receiver"] \in Seq(SoundFrame)
  BY DEF Inv, Fifos, Nodes
<1>2. there \in SoundFrame /\ (AckPayload => back \in SoundFrame)
  BY <1>1, Tailed DEF Exchange, AckPayload
<1>3. \A n \in Nodes :
        /\ txFifo'[n] \in Seq(SoundFrame)
        /\ Len(txFifo'[n]) <= FifoDepth
  <2>1. TAKE n \in Nodes
  <2>2. /\ txFifo[n] \in Seq(SoundFrame) /\ Len(txFifo[n]) \in Nat
        /\ Len(txFifo[n]) <= FifoDepth
    BY DEF Inv, Fifos
  <2>3. CASE n = "sender" \/ AckPayload
    <3>1. txFifo[n] # << >> /\ txFifo'[n] = Tail(txFifo[n])
      BY <2>3 DEF Exchange, AckPayload, Nodes
    <3>2. QED
      BY <2>2, <3>1, Tailed, PayloadAssumption
  <2>4. CASE ~(n = "sender" \/ AckPayload)
    BY <2>2, <2>4 DEF Exchange
  <2>5. QED
    BY <2>3, <2>4
<1>4. \A n \in Nodes :
        \/ rxFifo'[n] = rxFifo[n]
        \/ Len(rxFifo[n]) < FifoDepth /\ \E f \in SoundFrame : rxFifo'[n] = Append(rxFifo[n], f)
  BY <1>2 DEF Exchange, AckPayload, Nodes
<1>5. \A n \in Nodes :
        /\ rxFifo'[n] \in Seq(SoundFrame)
        /\ Len(rxFifo'[n]) <= FifoDepth
        /\ rxFifo[n] # << >> => rxFifo'[n] # << >> /\ Head(rxFifo'[n]) = Head(rxFifo[n])
  <2>1. TAKE n \in Nodes
  <2>2. /\ rxFifo[n] \in Seq(SoundFrame) /\ Len(rxFifo[n]) \in Nat
        /\ Len(rxFifo[n]) <= FifoDepth
    BY DEF Inv, Fifos
  <2>3. CASE rxFifo'[n] = rxFifo[n]
    BY <2>2, <2>3
  <2>4. CASE Len(rxFifo[n]) < FifoDepth
             /\ \E f \in SoundFrame : rxFifo'[n] = Append(rxFifo[n], f)
    <3>1. PICK f \in SoundFrame : rxFifo'[n] = Append(rxFifo[n], f)
      BY <2>4
    <3>2. QED
      BY <2>2, <2>4, <3>1, Appended, PayloadAssumption
  <2>5. QED
    BY <1>4, <2>3, <2>4
<1>6. Fifos'
  BY <1>3, <1>5 DEF Exchange, Fifos
<1>7. UNCHANGED <<isr, torn>>
  BY DEF Exchange, queues
<1>8. \A n \in Nodes : WidthHeld(n)'
  BY <1>5, <1>7 DEF Inv, Threads, WidthHeld
<1>9. Threads'
  BY <1>7, <1>8 DEF Inv, Threads
<1>10. QED
  BY <1>6, <1>9
  DEF Exchange, drivers, chips, queues, counts, Inv, Queue, Drivers, Chips, Counts

-----------------------------------------------------------------------------
(* Receiving.                                                              *)

(* A thread that holds no width may be at any place. *)
LEMMA NoWidthType ==
  ASSUME NEW place \in Places
  PROVE  At(place, NoWidth) \in [at : Places, len : 0 .. MAX_PAYLOAD_LEN, source : Sources]
BY PayloadAssumption DEF At, NoWidth, Width, Sources

LEMMA FindInv ==
  ASSUME Inv, NEW n \in Nodes, FindPayload(n)
  PROVE  Inv'
<1>1. \A m \in Nodes : WidthHeld(m)'
  BY DEF FindPayload, Inv, Threads, WidthHeld, At
<1>2. "width" \in Places
  BY DEF Places
<1>3. Threads'
  BY <1>1, <1>2, NoWidthType DEF FindPayload, Inv, Threads
<1>4. QED
  BY <1>3
  DEF FindPayload, drivers, chips, counts, Inv, Fifos, Queue, Drivers, Chips, Counts

(* The width that was read is the oldest payload's, if the chip has one.    *)
LEMMA ReadWidthInv ==
  ASSUME Inv, NEW n \in Nodes, ReadWidth(n)
  PROVE  Inv'
<1>1. PICK width \in WidthsRead(n) :
        isr' = [isr EXCEPT ![n] = IF width.len > MAX_PAYLOAD_LEN
                                  THEN At("flush", NoWidth)
                                  ELSE At("read", width)]
  BY DEF ReadWidth
<1>2. rxFifo[n] # << >> => Head(rxFifo[n]) \in Frame
  BY Tailed DEF Inv, Fifos, SoundFrame
<1>3. PICK len \in Nat, source \in Sources :
        /\ width = Width(len, source)
        /\ source = "fixed" => len = MAX_PAYLOAD_LEN
        /\ source = "chip" => rxFifo[n] # << >> /\ len = Head(rxFifo[n]).width
  <2>1. \/ width = Width(MAX_PAYLOAD_LEN, "fixed")
        \/ rxFifo[n] # << >> /\ width = Width(Head(rxFifo[n]).width, "chip")
        \/ \E len \in Garbage : width = Width(len, "nowhere")
    BY Zenon DEF WidthsRead
  <2>2. {"fixed", "chip", "nowhere"} \subseteq Sources
    BY DEF Sources
  <2>3. CASE width = Width(MAX_PAYLOAD_LEN, "fixed")
    BY <2>2, <2>3, PayloadAssumption
  <2>4. CASE rxFifo[n] # << >> /\ width = Width(Head(rxFifo[n]).width, "chip")
    <3>1. Head(rxFifo[n]).width \in Nat
      BY <1>2, <2>4, PayloadAssumption DEF Frame
    <3>2. QED
      BY <2>2, <2>4, <3>1
  <2>5. CASE \E len \in Garbage : width = Width(len, "nowhere")
    <3>1. Garbage \subseteq Nat
      BY PayloadAssumption
    <3>2. QED
      BY <2>2, <2>5, <3>1
  <2>6. QED
    BY <2>1, <2>3, <2>4, <2>5
<1>4. torn' = [torn EXCEPT ![n] = FALSE] /\ UNCHANGED rxFifo
  BY DEF ReadWidth
<1>5. /\ isr'[n] \in [at : Places, len : 0 .. MAX_PAYLOAD_LEN, source : Sources]
      /\ WidthHeld(n)'
  <2>1. CASE width.len > MAX_PAYLOAD_LEN
    <3>1. isr'[n] = At("flush", NoWidth)
      BY <1>1, <2>1 DEF Inv, Threads
    <3>2. "flush" \in Places
      BY DEF Places
    <3>3. QED
      BY <3>1, <3>2, NoWidthType DEF WidthHeld, At
  <2>2. CASE ~(width.len > MAX_PAYLOAD_LEN)
    <3>1. isr'[n] = [at |-> "read", len |-> len, source |-> source]
      BY <1>1, <1>3, <2>2 DEF Inv, Threads, At, Width
    <3>2. len \in 0 .. MAX_PAYLOAD_LEN
      BY <1>3, <2>2, PayloadAssumption DEF Width
    <3>3. "read" \in Places
      BY DEF Places
    <3>4. QED
      BY <1>3, <1>4, <3>1, <3>2, <3>3 DEF WidthHeld
  <2>3. QED
    BY <2>1, <2>2
<1>6. ASSUME NEW m \in Nodes, m # n PROVE WidthHeld(m)'
  BY <1>1, <1>4, <1>6 DEF Inv, Threads, WidthHeld
<1>7. isr' \in [Nodes -> [at : Places, len : 0 .. MAX_PAYLOAD_LEN, source : Sources]]
  BY <1>1, <1>5 DEF Inv, Threads
<1>8. Threads'
  BY <1>4, <1>5, <1>6, <1>7 DEF Inv, Threads
<1>9. QED
  BY <1>8
  DEF ReadWidth, drivers, chips, counts, Inv, Fifos, Queue, Drivers, Chips, Counts

LEMMA FlushRxInv ==
  ASSUME Inv, NEW n \in Nodes, flush_rx(n)
  PROVE  Inv'
<1>1. \A m \in Nodes : WidthHeld(m)'
  <2>1. isr'[n].at = "fifo"
    BY DEF flush_rx, Inv, Threads, At
  <2>2. WidthHeld(n)'
    BY <2>1 DEF WidthHeld
  <2>3. ASSUME NEW m \in Nodes, m # n PROVE WidthHeld(m)'
    <3>1. UNCHANGED <<isr[m], torn[m], rxFifo[m]>>
      BY <2>3 DEF flush_rx, Inv, Threads, Fifos
    <3>2. QED
      BY <3>1 DEF Inv, Threads, WidthHeld
  <2>4. QED
    BY <2>2, <2>3
<1>2. "fifo" \in Places
  BY DEF Places
<1>3. Threads'
  BY <1>1, <1>2, NoWidthType DEF flush_rx, Inv, Threads
<1>4. Fifos'
  BY EmptySound, PayloadAssumption DEF flush_rx, Inv, Fifos
<1>5. QED
  BY <1>3, <1>4
  DEF flush_rx, drivers, chips, counts, Inv, Queue, Drivers, Chips, Counts

LEMMA ReadPayloadInv ==
  ASSUME Inv, NEW n \in Nodes, ReadPayload(n)
  PROVE  Inv'
<1> DEFINE p == Packet(Oldest(n), isr[n], torn[n])
<1>1. /\ rxFifo[n] \in Seq(SoundFrame) /\ Len(rxFifo[n]) \in Nat
      /\ Len(rxFifo[n]) <= FifoDepth
      /\ packets[n] \in Seq(SoundPacket) /\ Len(packets[n]) \in Nat
      /\ isr[n] \in [at : Places, len : 0 .. MAX_PAYLOAD_LEN, source : Sources]
      /\ torn[n] \in BOOLEAN /\ WidthHeld(n) /\ isr[n].at = "read"
  BY DEF ReadPayload, Inv, Fifos, Queue, Threads
<1>2. Oldest(n) \in SoundFrame
  BY <1>1, Tailed, NoFrameSound DEF Oldest
<1>3. p \in SoundPacket
  <2>1. p \in Received
    BY <1>1, <1>2 DEF Packet, Received, SoundFrame
  <2>2. p.source = "fixed" => p.len = MAX_PAYLOAD_LEN
    BY <1>1 DEF Packet, WidthHeld
  <2>3. p.source = "chip" /\ ~p.torn => p.len = p.frame.width
    BY <1>1 DEF Packet, WidthHeld, Oldest
  <2>4. p.frame \in SoundFrame
    BY <1>2 DEF Packet
  <2>5. QED
    BY <2>1, <2>2, <2>3, <2>4 DEF SoundPacket, Read
<1> HIDE DEF p
<1>4. packets' = [packets EXCEPT ![n] =
         IF Len(packets[n]) < PACKET_BUFFER_SIZE THEN Append(packets[n], p) ELSE packets[n]]
  BY DEF ReadPayload, p
<1>5. Queue'
  <2>1. packets'[n] \in Seq(SoundPacket) /\ Len(packets'[n]) <= PACKET_BUFFER_SIZE
    BY <1>1, <1>3, <1>4, Appended, PayloadAssumption DEF Inv, Queue
  <2>2. QED
    BY <1>4, <2>1 DEF Inv, Queue
<1>6. Fifos'
  <2>1. rxFifo'[n] \in Seq(SoundFrame) /\ Len(rxFifo'[n]) <= FifoDepth
    BY <1>1, Tailed, PayloadAssumption DEF ReadPayload, Inv, Fifos
  <2>2. QED
    BY <2>1 DEF ReadPayload, Inv, Fifos
<1>7. Threads'
  <2>1. \A m \in Nodes : WidthHeld(m)'
    BY <1>1 DEF ReadPayload, Inv, Threads, WidthHeld, At
  <2>2. "fifo" \in Places
    BY DEF Places
  <2>3. QED
    BY <2>1, <2>2, NoWidthType DEF ReadPayload, Inv, Threads
<1>8. QED
  BY <1>5, <1>6, <1>7 DEF ReadPayload, drivers, chips, counts, Inv, Drivers, Chips, Counts

LEMMA RecvInv ==
  ASSUME Inv, NEW n \in Nodes, rf24_recv(n)
  PROVE  Inv'
<1>1. packets[n] \in Seq(SoundPacket) /\ packets[n] # << >>
  BY DEF rf24_recv, Inv, Queue
<1>2. packets'[n] \in Seq(SoundPacket) /\ Len(packets'[n]) <= PACKET_BUFFER_SIZE
  BY <1>1, Tailed, PayloadAssumption DEF rf24_recv, Inv, Queue
<1>3. Queue'
  BY <1>2 DEF rf24_recv, Inv, Queue
<1>4. Threads'
  BY ThreadsKept DEF rf24_recv, Inv
<1>5. QED
  BY <1>3, <1>4
  DEF rf24_recv, drivers, chips, counts, Inv, Fifos, Drivers, Chips, Counts

-----------------------------------------------------------------------------

LEMMA NextInv == Inv /\ [Next]_vars => Inv'
<1> SUFFICES ASSUME Inv, [Next]_vars PROVE Inv'
  OBVIOUS
<1>1. ASSUME NEW n \in Nodes, Settings(n) PROVE Inv'
  BY <1>1, SizeInv, EnableInv, AckPayloadInv, ResetInv, StopInv DEF Settings
<1>2. ASSUME NEW n \in Nodes, retrieve_packets(n) PROVE Inv'
  BY <1>2, FindInv, ReadWidthInv, FlushRxInv, ReadPayloadInv DEF retrieve_packets
<1>3. ASSUME NEW n \in Nodes, rf24_recv(n) PROVE Inv'
  BY <1>3, RecvInv
<1>4. CASE UNCHANGED vars
  <2>1. UNCHANGED <<drivers, chips, queues, counts, txFifo, rxFifo>>
    BY <1>4 DEF vars
  <2>2. Threads'
    BY <2>1, ThreadsKept DEF queues, Inv
  <2>3. QED
    BY <2>1, <2>2
    DEF drivers, chips, queues, counts, Inv, Fifos, Queue, Drivers, Chips, Counts
<1>5. QED
  BY <1>1, <1>2, <1>3, <1>4, OpenInv, SendInv, WriteRawInv, WriteAckInv, ExchangeInv
  DEF Next

LEMMA AlwaysInv == Spec => []Inv
BY InitInv, NextInv, PTL DEF Spec

(* Neither the chip's FIFOs nor the queue hold more than fits, and no       *)
(* payload is wider than the chip can carry, for all sizes and lengths.    *)
THEOREM TypeCorrect == Spec => []TypeOK
BY AlwaysInv, InvType, PTL

(* write_payload and rf24_writeAckPayload do not read beyond the caller's   *)
(* buffer, and cut off only what does not fit.                             *)
THEOREM NothingStrays == Spec => []NoStrayBytes
BY AlwaysInv, InvNoStray, PTL

(* A message of rf24_send that had room reaches rf24_recv whole, through    *)
(* fixed and dynamic payloads and the changes between them, and with its   *)
(* length where both ends know it, when its packet was read with a width   *)
(* that was its payload's: not one that the chip did not have, nor one     *)
(* that a flush made another payload's (rf24.c, 727-736).                  *)
THEOREM MessagesArriveIntact == Spec => []MessagesIntact
BY AlwaysInv, InvIntact, PTL
=============================================================================
