----------------------------- MODULE RF24Proofs -----------------------------
(***************************************************************************)
(* RF24 for every number of packets and payloads, FIFOs and queues of any  *)
(* size, and all calls and faults.                                         *)
(***************************************************************************)
EXTENDS RF24, SequenceTheorems, FiniteSetTheorems, TLAPS

ChipTypes ==
  /\ config \subseteq Modes
  /\ ce \in BOOLEAN
  /\ status \subseteq Flags
  /\ rxFifo \in Seq(1 .. arrived) /\ Len(rxFifo) <= FifoDepth
  /\ txFifo \in Seq(1 .. sends) /\ Len(txFifo) <= FifoDepth
  /\ air \in 0 .. sends
  /\ edge \in BOOLEAN
  /\ arrived \in Nat
  /\ acked \subseteq 1 .. sends
  /\ sends \in Nat

AppTypes ==
  /\ app \in AppSteps
  /\ op \in API \cup {"init"}
  /\ listening \in BOOLEAN
  /\ created \in {"no", "queue", "null"}
  /\ successes \subseteq 1 .. sends
  /\ last \in 0 .. arrived

IsrTypes ==
  /\ packets \in Seq(0 .. arrived) /\ Len(packets) <= PACKET_BUFFER_SIZE
  /\ isr \in IsrSteps
  /\ tx_ok \in BOOLEAN

LEMMA TypeParts == TypeOK <=> ChipTypes /\ AppTypes /\ IsrTypes
BY DEF TypeOK, ChipTypes, AppTypes, IsrTypes

-----------------------------------------------------------------------------
(* Sequences of numbers: the two FIFOs and the queue. *)

LEMMA AppendFacts ==
  ASSUME NEW m \in Nat, NEW n \in Nat, m <= n, NEW k \in Nat,
         NEW s \in Seq(k .. m), NEW x \in k .. n
  PROVE  Append(s, x) \in Seq(k .. n) /\ Len(Append(s, x)) = Len(s) + 1
<1>1. k .. m \subseteq k .. n
  OBVIOUS
<1>2. s \in Seq(k .. n)
  BY <1>1, SeqMonotonic
<1>3. QED BY <1>2

LEMMA Grows ==
  ASSUME NEW m \in Nat, NEW n \in Nat, m <= n, NEW k \in Nat,
         NEW s \in Seq(k .. m)
  PROVE  s \in Seq(k .. n)
<1>1. k .. m \subseteq k .. n
  OBVIOUS
<1>2. QED BY <1>1, SeqMonotonic

LEMMA TailFacts ==
  ASSUME NEW S, NEW s \in Seq(S), s # <<>>
  PROVE  /\ Head(s) \in S /\ Tail(s) \in Seq(S)
         /\ Len(Tail(s)) = Len(s) - 1 /\ Len(s) \in Nat \ {0}
BY HeadTailProperties, EmptySeq

-----------------------------------------------------------------------------
(* The commands of the chip and what it does by itself. *)

(* Everything the driver does to the chip but write a payload. *)
Command ==
  \/ \E bits \in SUBSET Modes : WriteConfig(bits)
  \/ \E flags \in SUBSET Flags : WriteStatus(flags)
  \/ CeHigh \/ CeLow \/ FlushRx \/ FlushTx \/ ReadRxFifo \/ TakeEdge
  \/ UNCHANGED chipVars

(* What a command may do, whichever it is. *)
Effect ==
  /\ arrived' = arrived /\ acked' = acked
  /\ config' \subseteq Modes /\ ce' \in BOOLEAN /\ status' \subseteq status /\ edge' \in BOOLEAN
  /\ rxFifo' = rxFifo \/ rxFifo' = <<>> \/ (rxFifo # <<>> /\ rxFifo' = Tail(rxFifo))
  /\ txFifo' = txFifo \/ txFifo' = <<>>
  /\ air' = air \/ (txFifo # <<>> /\ air' = Head(txFifo))

LEMMA CommandEffect ==
  ASSUME ChipTypes, Command
  PROVE  Effect
<1> USE DEF ChipTypes, Effect
<1>1. ASSUME NEW bits \in SUBSET Modes, WriteConfig(bits) PROVE Effect
  BY <1>1 DEF WriteConfig, fifos, history
<1>2. ASSUME NEW flags \in SUBSET Flags, WriteStatus(flags) PROVE Effect
  BY <1>2 DEF WriteStatus, fifos, history, pins
<1>3. CASE CeHigh
  <2>1. /\ ce' = TRUE /\ UNCHANGED <<config, status, edge, arrived, acked, rxFifo, txFifo>>
        /\ air' = air \/ (txFifo # <<>> /\ air' = Head(txFifo))
    BY <1>3 DEF CeHigh, history
  <2>2. QED BY <2>1
<1>4. CASE CeLow
  BY <1>4 DEF CeLow, fifos, history
<1>5. CASE FlushRx
  BY <1>5 DEF FlushRx, pins, history
<1>6. CASE FlushTx
  BY <1>6 DEF FlushTx, pins, history
<1>7. CASE ReadRxFifo
  BY <1>7 DEF ReadRxFifo, pins, history
<1>8. CASE TakeEdge
  BY <1>8 DEF TakeEdge, fifos, pins, history
<1>9. CASE UNCHANGED chipVars
  BY <1>9 DEF chipVars
<1>10. QED
  BY <1>1, <1>2, <1>3, <1>4, <1>5, <1>6, <1>7, <1>8, <1>9 DEF Command

LEMMA CommandTypes ==
  ASSUME ChipTypes, Command, sends' = sends
  PROVE  ChipTypes' /\ arrived' = arrived
<1>1. Effect
  BY CommandEffect
<1>2. rxFifo' \in Seq(1 .. arrived) /\ Len(rxFifo') <= FifoDepth
  <2>1. CASE rxFifo' = rxFifo
    BY <2>1 DEF ChipTypes
  <2>2. CASE rxFifo' = <<>>
    BY <2>2, NRF24Assumption
  <2>3. CASE rxFifo # <<>> /\ rxFifo' = Tail(rxFifo)
    BY <2>3, TailFacts, NRF24Assumption DEF ChipTypes
  <2>4. QED BY <1>1, <2>1, <2>2, <2>3 DEF Effect
<1>3. txFifo' \in Seq(1 .. sends) /\ Len(txFifo') <= FifoDepth
  <2>1. CASE txFifo' = txFifo
    BY <2>1 DEF ChipTypes
  <2>2. CASE txFifo' = <<>>
    BY <2>2, NRF24Assumption
  <2>3. QED BY <1>1, <2>1, <2>2 DEF Effect
<1>4. air' \in 0 .. sends
  <2>1. CASE air' = air
    BY <2>1 DEF ChipTypes
  <2>2. CASE txFifo # <<>> /\ air' = Head(txFifo)
    <3>1. air' \in 1 .. sends
      BY <2>2, TailFacts DEF ChipTypes
    <3>2. QED BY <3>1 DEF ChipTypes
  <2>3. QED BY <1>1, <2>1, <2>2 DEF Effect
<1>5. QED BY <1>1, <1>2, <1>3, <1>4 DEF ChipTypes, Effect

LEMMA ChipStepTypes ==
  ASSUME ChipTypes, Chip, sends' = sends
  PROVE  ChipTypes' /\ arrived <= arrived'
<1>1. CASE Arrive
  <2>1. /\ arrived' = arrived + 1 /\ rxFifo' = Append(rxFifo, arrived + 1)
        /\ Len(rxFifo) < FifoDepth
        /\ status' = status \cup {"RX_DR"} /\ edge' = (edge \/ status = {})
        /\ UNCHANGED <<config, ce, txFifo, air, acked>>
    BY <1>1 DEF Arrive, Raise, pins
  <2>2. rxFifo' \in Seq(1 .. arrived') /\ Len(rxFifo') = Len(rxFifo) + 1
    BY <2>1, AppendFacts DEF ChipTypes
  <2>3. Len(rxFifo) \in Nat
    BY DEF ChipTypes
  <2>4. QED BY <2>1, <2>2, <2>3, NRF24Assumption DEF ChipTypes, Flags
<1>2. CASE Launch
  <2>1. /\ txFifo # <<>> /\ air' = Head(txFifo)
        /\ UNCHANGED <<config, ce, status, edge, arrived, acked, rxFifo, txFifo>>
    BY <1>2 DEF Launch, pins, history
  <2>2. QED BY <2>1, TailFacts DEF ChipTypes
<1>3. CASE Acknowledged
  <2>1. /\ air # 0 /\ air' = 0 /\ acked' = acked \cup {air}
        /\ status' = status \cup {"TX_DS"} /\ edge' = (edge \/ status = {})
        /\ txFifo' = txFifo \/ (txFifo # <<>> /\ txFifo' = Tail(txFifo))
        /\ UNCHANGED <<config, ce, rxFifo, arrived>>
    BY <1>3 DEF Acknowledged, Raise, pins
  <2>2. txFifo' \in Seq(1 .. sends) /\ Len(txFifo') <= FifoDepth
    <3>1. CASE txFifo' = txFifo
      BY <3>1 DEF ChipTypes
    <3>2. CASE txFifo # <<>> /\ txFifo' = Tail(txFifo)
      BY <3>2, TailFacts, NRF24Assumption DEF ChipTypes
    <3>3. QED BY <2>1, <3>1, <3>2
  <2>3. QED BY <2>1, <2>2 DEF ChipTypes, Flags
<1>4. CASE GiveUp
  BY <1>4 DEF GiveUp, Raise, pins, history, ChipTypes, Flags
<1>5. CASE Abandon
  BY <1>5 DEF Abandon, pins, history, ChipTypes
<1>6. QED BY <1>1, <1>2, <1>3, <1>4, <1>5 DEF Chip
-----------------------------------------------------------------------------
(* Type correctness.  rf24_write adds the number of the payload it sent,    *)
(* which is why sends must not be 0.                                       *)
TypeInv == TypeOK /\ sends > 0

LEMMA InitTypes == Init => TypeInv
<1> SUFFICES ASSUME Init PROVE TypeInv
  OBVIOUS
<1>1. /\ arrived = 1 /\ sends = 1 /\ edge = FALSE /\ acked = {}
      /\ app = "in_spi" /\ op = "init" /\ listening = FALSE /\ created = "no"
      /\ packets = <<>> /\ isr = "none" /\ tx_ok = FALSE /\ successes = {} /\ last = 0
  BY DEF Init
<1>2. /\ config \subseteq Modes /\ ce \in BOOLEAN /\ status \subseteq Flags
      /\ rxFifo \in {<<>>, <<1>>} /\ txFifo \in {<<>>, <<1>>}
      /\ air \in {txFifo[i] : i \in DOMAIN txFifo} \cup {0}
  <2>1. CASE UsedBefore
    BY <2>1 DEF Init
  <2>2. CASE ~UsedBefore
    BY <2>2 DEF Init
  <2>3. QED BY <2>1, <2>2
<1>3. ASSUME NEW s, s = <<>> \/ s = << 1 >> PROVE s \in Seq(1 .. 1) /\ Len(s) \in {0, 1}
  <2>1. CASE s = <<>>
    BY <2>1
  <2>2. CASE s = <<1>>
    BY <2>2
  <2>3. QED BY <1>3, <2>1, <2>2
<1>4. air \in 0 .. 1
  <2>1. CASE txFifo = <<>>
    BY <1>2, <2>1
  <2>2. CASE txFifo = <<1>>
    BY <1>2, <2>2
  <2>3. QED BY <1>2, <2>1, <2>2
<1>5. ChipTypes
  <2>1. arrived = 1 /\ sends = 1 /\ acked = {}
    BY <1>1
  <2>2. edge \in BOOLEAN
    BY <1>1
  <2>3. config \subseteq Modes /\ ce \in BOOLEAN /\ status \subseteq Flags
    BY <1>2
  <2>4. rxFifo \in Seq(1 .. arrived) /\ Len(rxFifo) <= FifoDepth
    <3>1. rxFifo \in Seq(1 .. 1) /\ Len(rxFifo) \in {0, 1}
      BY <1>2, <1>3
    <3>2. QED BY <2>1, <3>1, NRF24Assumption
  <2>5. txFifo \in Seq(1 .. sends) /\ Len(txFifo) <= FifoDepth
    <3>1. txFifo \in Seq(1 .. 1) /\ Len(txFifo) \in {0, 1}
      BY <1>2, <1>3
    <3>2. QED BY <2>1, <3>1, NRF24Assumption
  <2>6. QED BY <1>4, <2>1, <2>2, <2>3, <2>4, <2>5 DEF ChipTypes
<1>6. AppTypes
  <2>1. listening \in BOOLEAN /\ created \in {"no", "queue", "null"}
    BY <1>1
  <2>2. app \in AppSteps /\ op \in API \cup {"init"}
    BY <1>1 DEF AppSteps
  <2>3. successes \subseteq 1 .. sends
    BY <1>1
  <2>4. last \in 0 .. arrived
    BY <1>1
  <2>5. QED BY <2>1, <2>2, <2>3, <2>4 DEF AppTypes
<1>7. IsrTypes
  <2>1. packets = <<>>
    BY <1>1
  <2>2. packets \in Seq(0 .. arrived) /\ Len(packets) <= PACKET_BUFFER_SIZE
    BY <2>1, RF24Assumption
  <2>3. isr \in IsrSteps
    BY <1>1 DEF IsrSteps
  <2>4. tx_ok \in BOOLEAN
    BY <1>1
  <2>5. QED BY <2>2, <2>3, <2>4 DEF IsrTypes
<1>8. sends > 0
  BY <1>1
<1>9. QED BY <1>5, <1>6, <1>7, <1>8, TypeParts DEF TypeInv

(* A step of the application thread that gives the chip a command.          *)
LEMMA AppCommand ==
  ASSUME TypeInv, Command,
         UNCHANGED <<sends, isrVars>>,
         packets' = packets \/ packets' = <<>> \/ (packets # <<>> /\ packets' = Tail(packets)),
         app' \in AppSteps, op' \in API \cup {"init"},
         listening' \in BOOLEAN, created' \in {"no", "queue", "null"},
         successes' \subseteq successes \cup {sends},
         last' \in 0 .. arrived
  PROVE  TypeInv'
<1>1. ChipTypes /\ AppTypes /\ IsrTypes /\ sends > 0
  BY TypeParts DEF TypeInv
<1> UNCHANGED <<sends, isr, tx_ok>>
  BY DEF isrVars
<1>2. ChipTypes' /\ arrived' = arrived
  BY <1>1, CommandTypes
<1> HIDE DEF Command
<1>3. AppTypes'
  BY <1>1, <1>2 DEF AppTypes, ChipTypes
<1>4. packets' \in Seq(0 .. arrived) /\ Len(packets') <= PACKET_BUFFER_SIZE
  <2>1. CASE packets' = packets
    BY <1>1, <2>1 DEF IsrTypes
  <2>2. CASE packets' = <<>>
    BY <2>2, RF24Assumption
  <2>3. CASE packets # <<>> /\ packets' = Tail(packets)
    BY <1>1, <2>3, TailFacts, RF24Assumption DEF IsrTypes
  <2>4. QED BY <2>1, <2>2, <2>3
<1>5. IsrTypes'
  BY <1>1, <1>2, <1>4 DEF IsrTypes, isrVars
<1>6. sends' > 0
  BY <1>1
<1>7. QED BY <1>2, <1>3, <1>5, <1>6, TypeParts DEF TypeInv, TypeOK, ChipTypes, AppTypes, IsrTypes

(* The usual step: it moves the thread and leaves the rest alone.           *)
LEMMA AppMove ==
  ASSUME TypeInv, Command, UNCHANGED <<op, created, packets, isrVars, sends, successes, last>>,
         app' \in AppSteps, listening' \in BOOLEAN
  PROVE  TypeInv'
<1>1. /\ op' \in API \cup {"init"} /\ created' \in {"no", "queue", "null"}
      /\ last' \in 0 .. arrived /\ successes' \subseteq successes \cup {sends}
  BY DEF TypeInv, TypeOK
<1>2. QED BY <1>1, AppCommand

LEMMA Move ==
  ASSUME TypeInv, Command, NEW from, NEW to \in AppSteps, Go(from, to), Keep
  PROVE  TypeInv'
<1>1. listening' \in BOOLEAN
  BY DEF TypeInv, TypeOK, Keep
<1>2. QED BY <1>1, AppMove DEF Go, Keep

LEMMA ConfigCommand ==
  ASSUME TypeInv,
         NEW bits \in {config \cup Modes, config \ {"PRIM_RX"}, config \ {"PWR_UP"},
                      config \cup {"PWR_UP"}},
         WriteConfig(bits)
  PROVE  Command
<1>1. config \subseteq Modes
  BY DEF TypeInv, TypeOK
<1>2. bits \in SUBSET Modes
  BY <1>1 DEF Modes
<1>3. QED BY <1>2 DEF Command

LEMMA Returns == Transmitted \in AppSteps
BY DEF Transmitted, AppSteps

LEMMA SetupTypes ==
  ASSUME TypeInv, rf24_init_radio \/ setDefaults
  PROVE  TypeInv'
<1> USE DEF Command, AppSteps
<1>1. CASE SpiInit
  <2>1. Go("in_spi", "sd_disable") \/ Go("in_spi", "exit")
    BY <1>1 DEF SpiInit
  <2>2. Keep /\ UNCHANGED chipVars
    BY <1>1 DEF SpiInit
  <2>3. QED BY <2>1, <2>2, Move
<1>2. CASE CreateThread
  <2>1. /\ app' = "in_queue" /\ isr' = "setup"
        /\ UNCHANGED <<chipVars, op, created, packets, tx_ok, listening, sends, successes, last>>
    BY <1>2 DEF CreateThread, Keep
  <2>2. QED BY <2>1 DEF TypeInv, TypeOK, chipVars, IsrSteps
<1>3. CASE CreateQueue
  <2>1. /\ app' = "idle" /\ created' \in {"queue", "null"} /\ packets' = <<>>
        /\ UNCHANGED <<chipVars, op, isrVars, listening, sends, successes, last>>
    BY <1>3 DEF CreateQueue, Keep
  <2>2. /\ op' \in API \cup {"init"} /\ listening' \in BOOLEAN /\ last' \in 0 .. arrived
    BY <2>1 DEF TypeInv, TypeOK
  <2>3. QED BY <2>1, <2>2, AppCommand
<1>4. CASE ResetConfig
  BY <1>4, Move DEF ResetConfig
<1>5. CASE DefaultsDisable
  BY <1>5, Move DEF DefaultsDisable
<1>6. CASE DefaultsStatus
  BY <1>6, Move DEF DefaultsStatus
<1>7. CASE DefaultsFlushRx
  BY <1>7, Move DEF DefaultsFlushRx
<1>8. CASE DefaultsFlushTx
  <2>1. app' \in {"in_thread", "idle"} /\ listening' = FALSE
    BY <1>8 DEF DefaultsFlushTx, Go
  <2>2. FlushTx /\ UNCHANGED <<op, created, packets, isrVars, sends, successes, last>>
    BY <1>8 DEF DefaultsFlushTx, Go
  <2>3. QED BY <2>1, <2>2, AppMove
<1>9. QED
  BY <1>1, <1>2, <1>3, <1>4, <1>5, <1>6, <1>7, <1>8 DEF rf24_init_radio, setDefaults

LEMMA InvokeTypes ==
  ASSUME TypeInv, Invoke
  PROVE  TypeInv'
<1>1. PICK call \in Calls : op' = call /\ app' = FirstStep(call)
  BY DEF Invoke
<1>2. call \in API
  BY RF24Assumption
<1>3. FirstStep(call) \in AppSteps
  BY <1>2 DEF API, FirstStep, AppSteps
<1>4. /\ UNCHANGED <<chipVars, created, packets, isrVars, listening, sends, successes, last>>
  BY DEF Invoke, Keep
<1>5. /\ app' \in AppSteps /\ op' \in API \cup {"init"} /\ listening' \in BOOLEAN
      /\ created' \in {"no", "queue", "null"} /\ last' \in 0 .. arrived
      /\ successes' \subseteq successes \cup {sends}
  BY <1>1, <1>2, <1>3, <1>4 DEF TypeInv, TypeOK
<1>6. Command
  BY <1>4 DEF Command
<1>7. QED BY <1>4, <1>5, <1>6, AppCommand

LEMMA ListenTypes ==
  ASSUME TypeInv, rf24_startListening \/ rf24_stopListening
  PROVE  TypeInv'
<1> USE DEF Command, AppSteps
<1>1. CASE ListenConfig
  BY <1>1, ConfigCommand, Move DEF ListenConfig
<1>2. CASE ListenStatus
  BY <1>2, Move DEF ListenStatus
<1>3. CASE ListenEnable
  <2>1. app' \in AppSteps /\ listening' = TRUE
    BY <1>3, Returns DEF ListenEnable, Go
  <2>2. CeHigh /\ UNCHANGED <<op, created, packets, isrVars, sends, successes, last>>
    BY <1>3 DEF ListenEnable, Go
  <2>3. QED BY <2>1, <2>2, AppMove
<1>4. CASE StopDisable
  BY <1>4, Move DEF StopDisable
<1>5. CASE StopFlushTx
  BY <1>5, Move DEF StopFlushTx
<1>6. CASE StopFlushRx
  <2>1. app' \in AppSteps /\ listening' = FALSE
    BY <1>6 DEF StopFlushRx, Go
  <2>2. FlushRx /\ UNCHANGED <<op, created, packets, isrVars, sends, successes, last>>
    BY <1>6 DEF StopFlushRx, Go
  <2>3. QED BY <2>1, <2>2, AppMove
<1>7. QED
  BY <1>1, <1>2, <1>3, <1>4, <1>5, <1>6 DEF rf24_startListening, rf24_stopListening

LEMMA TransmitTypes ==
  ASSUME TypeInv, transmit_payload
  PROVE  TypeInv'
<1> USE DEF Command, AppSteps
<1>1. CASE TransmitDisable
  BY <1>1, Move DEF TransmitDisable
<1>2. CASE TransmitConfig
  BY <1>2, ConfigCommand, Move DEF TransmitConfig
<1>3. CASE TransmitEnable
  BY <1>3, Move DEF TransmitEnable
<1>4. CASE TransmitPulse
  <2> DEFINE next == IF listening THEN "sl_config" ELSE Transmitted
  <2>1. Go("tx_pulse", next) /\ CeLow /\ Keep
    BY <1>4 DEF TransmitPulse
  <2>2. next \in AppSteps
    BY Returns
  <2>3. QED BY <2>1, <2>2, Move
<1>5. CASE TransmitPayload
  <2>1. ChipTypes /\ AppTypes /\ IsrTypes /\ sends > 0
    BY TypeParts DEF TypeInv
  <2>2. /\ txFifo' = IF Len(txFifo) < FifoDepth THEN Append(txFifo, sends + 1) ELSE txFifo
        /\ UNCHANGED <<config, ce, status, edge, arrived, acked, rxFifo, air>>
    BY <1>5 DEF TransmitPayload, WriteTxFifo, pins, history
  <2>3. /\ sends' = sends + 1 /\ app' = "tx_enable"
        /\ UNCHANGED <<op, created, packets, isr, tx_ok, listening, successes, last>>
    BY <1>5 DEF TransmitPayload, Go, isrVars
  <2>4. txFifo' \in Seq(1 .. sends') /\ Len(txFifo') <= FifoDepth
    <3>1. CASE Len(txFifo) < FifoDepth
      <4>1. txFifo' = Append(txFifo, sends + 1)
        BY <2>2, <3>1
      <4>2. Append(txFifo, sends + 1) \in Seq(1 .. (sends + 1))
        BY <2>1, AppendFacts DEF ChipTypes
      <4>3. Len(Append(txFifo, sends + 1)) = Len(txFifo) + 1 /\ Len(txFifo) \in Nat
        BY <2>1, AppendFacts DEF ChipTypes
      <4>4. QED BY <2>3, <3>1, <4>1, <4>2, <4>3, NRF24Assumption
    <3>2. CASE ~(Len(txFifo) < FifoDepth)
      <4>1. txFifo' = txFifo
        BY <2>2, <3>2
      <4>2. txFifo \in Seq(1 .. (sends + 1))
        BY <2>1, Grows DEF ChipTypes
      <4>3. QED BY <2>1, <2>3, <4>1, <4>2 DEF ChipTypes
    <3>3. QED BY <3>1, <3>2
  <2>5. ChipTypes'
    BY <2>1, <2>2, <2>3, <2>4 DEF ChipTypes
  <2>6. AppTypes'
    BY <2>1, <2>2, <2>3 DEF AppTypes, ChipTypes
  <2>7. IsrTypes'
    BY <2>1, <2>2, <2>3 DEF IsrTypes
  <2>8. sends' > 0
    BY <2>1, <2>3 DEF ChipTypes
  <2>9. QED BY <2>5, <2>6, <2>7, <2>8, TypeParts DEF TypeInv, TypeOK, ChipTypes, AppTypes, IsrTypes
<1>6. QED BY <1>1, <1>2, <1>3, <1>4, <1>5 DEF transmit_payload

LEMMA CallTypes ==
  ASSUME TypeInv,
         rf24_write \/ rf24_recv \/ rf24_getStatus \/ rf24_powerDown \/ rf24_powerUp
  PROVE  TypeInv'
<1> USE DEF Command, AppSteps
<1>1. CASE WriteObserve
  BY <1>1, Move DEF WriteObserve
<1>2. CASE WriteTimeout
  BY <1>2, Move DEF WriteTimeout
<1>3. CASE rf24_getStatus
  BY <1>3, Move DEF rf24_getStatus
<1>4. CASE rf24_powerDown
  BY <1>4, ConfigCommand, Move DEF rf24_powerDown
<1>5. CASE rf24_powerUp
  BY <1>5, ConfigCommand, Move DEF rf24_powerUp
<1>6. CASE WriteResult
  <2>1. /\ app' = "wr_clear" /\ UNCHANGED chipVars /\ successes' \subseteq successes \cup {sends}
        /\ UNCHANGED <<op, created, packets, isrVars, listening, sends, last>>
    BY <1>6 DEF WriteResult, Go
  <2>2. /\ op' \in API \cup {"init"} /\ listening' \in BOOLEAN /\ created' \in {"no", "queue", "null"}
        /\ last' \in 0 .. arrived
    BY <2>1 DEF TypeInv, TypeOK
  <2>3. QED BY <2>1, <2>2, AppCommand
<1>7. CASE ReceivePacket
  <2>1. /\ packets # <<>> /\ app' = "idle" /\ last' = Head(packets) /\ packets' = Tail(packets)
        /\ UNCHANGED <<chipVars, op, created, isrVars, listening, sends, successes>>
    BY <1>7 DEF ReceivePacket
  <2>2. last' \in 0 .. arrived
    BY <2>1, TailFacts DEF TypeInv, TypeOK
  <2>3. /\ op' \in API \cup {"init"} /\ listening' \in BOOLEAN /\ created' \in {"no", "queue", "null"}
        /\ successes' \subseteq successes \cup {sends}
    BY <2>1 DEF TypeInv, TypeOK
  <2>4. QED BY <2>1, <2>2, <2>3, AppCommand
<1>8. CASE ReceiveNothing
  BY <1>8, Move DEF ReceiveNothing
<1>9. CASE WriteClear
  BY <1>9, Move DEF WriteClear
<1>10. QED
  BY <1>1, <1>2, <1>3, <1>4, <1>5, <1>6, <1>7, <1>8, <1>9 DEF rf24_write, rf24_recv

(* A step of the interrupt thread that gives the chip a command.            *)
LEMMA IsrCommand ==
  ASSUME TypeInv, Command, UNCHANGED <<appVars, created, packets>>,
         isr' \in IsrSteps, tx_ok' \in BOOLEAN
  PROVE  TypeInv'
<1>1. ChipTypes /\ AppTypes /\ IsrTypes /\ sends > 0
  BY TypeParts DEF TypeInv
<1> UNCHANGED <<app, op, listening, sends, successes, last, created, packets>>
  BY DEF appVars
<1>2. ChipTypes' /\ arrived' = arrived
  BY <1>1, CommandTypes
<1>3. AppTypes'
  BY <1>1, <1>2 DEF AppTypes
<1>4. IsrTypes'
  BY <1>1, <1>2 DEF IsrTypes
<1>5. QED BY <1>1, <1>2, <1>3, <1>4, TypeParts DEF TypeInv, TypeOK, ChipTypes, AppTypes, IsrTypes

LEMMA IsrMove ==
  ASSUME TypeInv, Command, NEW from, NEW to \in IsrSteps, IsrGo(from, to),
         UNCHANGED <<packets, tx_ok>>
  PROVE  TypeInv'
<1>1. isr' \in IsrSteps /\ UNCHANGED <<appVars, created, packets>>
  BY DEF IsrGo
<1>2. tx_ok' \in BOOLEAN
  BY DEF TypeInv, TypeOK
<1>3. QED BY <1>1, <1>2, IsrCommand

LEMMA Oldest ==
  ASSUME TypeInv
  PROVE  OldestPacket \in 0 .. arrived
<1>1. rxFifo \in Seq(1 .. arrived) /\ arrived \in Nat
  BY DEF TypeInv, TypeOK
<1>2. CASE rxFifo = <<>>
  BY <1>1, <1>2 DEF OldestPacket
<1>3. CASE rxFifo # <<>>
  <2>1. OldestPacket = Head(rxFifo) /\ Head(rxFifo) \in 1 .. arrived
    BY <1>1, <1>3, TailFacts DEF OldestPacket
  <2>2. QED BY <1>1, <2>1
<1>4. QED BY <1>2, <1>3

LEMMA ReadTypes ==
  ASSUME TypeInv, ReadPacket
  PROVE  TypeInv'
<1>1. ChipTypes /\ AppTypes /\ IsrTypes /\ sends > 0
  BY TypeParts DEF TypeInv
<1>2. /\ isr' = "fifo" /\ ReadRxFifo
      /\ UNCHANGED <<app, op, listening, sends, successes, last, created, tx_ok>>
  BY DEF ReadPacket, IsrGo, appVars
<1>3. ChipTypes' /\ arrived' = arrived
  BY <1>1, <1>2, CommandTypes DEF Command
<1>4. packets' \in Seq(0 .. arrived) /\ Len(packets') <= PACKET_BUFFER_SIZE
  <2>1. CASE Len(packets) < PACKET_BUFFER_SIZE
    <3>1. packets' = Append(packets, OldestPacket)
      BY <2>1 DEF ReadPacket
    <3>2. packets' \in Seq(0 .. arrived) /\ Len(packets') = Len(packets) + 1
      BY <1>1, <3>1, Oldest, AppendProperties DEF IsrTypes
    <3>3. Len(packets) \in Nat
      BY <1>1 DEF IsrTypes
    <3>4. QED BY <2>1, <3>2, <3>3, RF24Assumption
  <2>2. CASE ~(Len(packets) < PACKET_BUFFER_SIZE)
    BY <1>1, <2>2 DEF ReadPacket, IsrTypes
  <2>3. QED BY <2>1, <2>2
<1>5. AppTypes'
  BY <1>1, <1>2, <1>3 DEF AppTypes
<1>6. IsrTypes'
  BY <1>1, <1>2, <1>3, <1>4 DEF IsrTypes, IsrSteps
<1>7. QED BY <1>1, <1>2, <1>3, <1>5, <1>6, TypeParts DEF TypeInv, TypeOK, ChipTypes, AppTypes, IsrTypes

LEMMA IsrStepTypes ==
  ASSUME TypeInv, Isr
  PROVE  TypeInv'
<1> USE DEF IsrSteps
<1>1. CASE setup_isr_thread
  <2>1. /\ isr' \in {"poll", "dead"} /\ edge' \in BOOLEAN
        /\ UNCHANGED <<config, ce, status, rxFifo, txFifo, air, arrived, acked, packets, tx_ok,
                       app, op, listening, sends, successes, last, created>>
    <3>1. edge \in BOOLEAN
      BY DEF TypeInv, TypeOK
    <3>2. QED BY <1>1, <3>1 DEF setup_isr_thread, IsrGo, appVars, chipVars, pins, history, fifos
  <2>2. QED BY <2>1 DEF TypeInv, TypeOK
<1>2. CASE radio_isr_thread
  <2>1. CASE IsrGo("poll", "peek") /\ TakeEdge /\ UNCHANGED <<packets, tx_ok>>
    BY <2>1, IsrMove DEF Command
  <2>2. CASE IsrGo("poll", "dead") /\ UNCHANGED <<chipVars, packets, tx_ok>>
    <3>1. Command
      BY <2>2 DEF Command
    <3>2. QED BY <2>2, <3>1, IsrMove
  <2>3. QED BY <1>2, <2>1, <2>2 DEF radio_isr_thread
<1>3. CASE rf24_peekStatus
  <2>1. isr' \in IsrSteps
    BY <1>3 DEF rf24_peekStatus, IsrGo, Retrieved
  <2>2. tx_ok' \in BOOLEAN
    <3>1. tx_ok' = ("TX_DS" \in status)
      BY <1>3 DEF rf24_peekStatus
    <3>2. ("TX_DS" \in status) \in BOOLEAN
      OBVIOUS
    <3>3. QED BY <3>1, <3>2, Zenon
  <2>3. Command
    BY <1>3 DEF rf24_peekStatus, Command
  <2>4. UNCHANGED <<appVars, created, packets>>
    BY <1>3 DEF rf24_peekStatus, IsrGo
  <2>5. QED BY <2>1, <2>2, <2>3, <2>4, IsrCommand
<1>4. CASE is_rx_fifo_empty
  <2> DEFINE next == IF rxFifo = <<>> THEN "clear" ELSE IF Dynamic THEN "width" ELSE "read"
  <2>1. IsrGo("fifo", next) /\ UNCHANGED chipVars /\ UNCHANGED <<packets, tx_ok>>
    BY <1>4 DEF is_rx_fifo_empty
  <2>2. next \in IsrSteps
    OBVIOUS
  <2>3. QED BY <2>1, <2>2, IsrMove DEF Command
<1>5. CASE get_dyn_payload_len
  <2>1. IsrGo("width", "read") \/ IsrGo("width", "flush")
    BY <1>5 DEF get_dyn_payload_len
  <2>2. UNCHANGED chipVars /\ UNCHANGED <<packets, tx_ok>>
    BY <1>5 DEF get_dyn_payload_len
  <2>3. QED BY <2>1, <2>2, IsrMove DEF Command
<1>6. CASE flush_rx
  BY <1>6, IsrMove DEF flush_rx, Command
<1>7. CASE ReadPacket
  BY <1>7, ReadTypes
<1>8. Retrieved(tx_ok) \in IsrSteps
  BY DEF Retrieved
<1>9. CASE MallocFails
  BY <1>8, <1>9, IsrMove DEF MallocFails, Command
<1>10. CASE ClearRxDr
  BY <1>8, <1>10, IsrMove DEF ClearRxDr, Command, Flags
<1>11. CASE ClearTxDs
  BY <1>11, IsrMove DEF ClearTxDs, Command, Flags
<1>12. QED
  BY <1>1, <1>2, <1>3, <1>4, <1>5, <1>6, <1>7, <1>9, <1>10, <1>11
  DEF Isr, process_radio_interrupt, retrieve_packets

LEMMA RadioTypes ==
  ASSUME TypeInv, Radio
  PROVE  TypeInv'
<1>1. ChipTypes /\ AppTypes /\ IsrTypes /\ sends > 0
  BY TypeParts DEF TypeInv
<1>2. /\ Chip
      /\ UNCHANGED <<app, op, listening, sends, successes, last, isr, tx_ok, created, packets>>
  BY DEF Radio, appVars, isrVars
<1>3. ChipTypes' /\ arrived <= arrived' /\ arrived \in Nat /\ arrived' \in Nat
  <2>1. ChipTypes' /\ arrived <= arrived'
    BY <1>1, <1>2, ChipStepTypes
  <2>2. QED BY <1>1, <2>1 DEF ChipTypes
<1>4. AppTypes'
  BY <1>1, <1>2, <1>3 DEF AppTypes
<1>5. packets' \in Seq(0 .. arrived') /\ Len(packets') <= PACKET_BUFFER_SIZE
  BY <1>1, <1>2, <1>3, Grows DEF IsrTypes
<1>6. IsrTypes'
  BY <1>1, <1>2, <1>5 DEF IsrTypes
<1>7. QED BY <1>1, <1>2, <1>3, <1>4, <1>6, TypeParts DEF TypeInv, TypeOK, ChipTypes, AppTypes, IsrTypes

(* The end of a process whose queue is NULL. *)
LEMMA NullUse ==
  ASSUME UseNullQueue
  PROVE  /\ created # "queue" /\ (app = "remove" \/ isr = "read")
         /\ app # "wr_clear" /\ app' = "crashed" /\ isr' = "dead"
         /\ UNCHANGED <<op, created, packets, tx_ok, listening, sends, successes, last>>
         /\ Command
BY DEF UseNullQueue, Keep, Command

LEMMA NullTypes ==
  ASSUME TypeInv, UseNullQueue
  PROVE  TypeInv'
<1>1. ChipTypes /\ AppTypes /\ IsrTypes /\ sends > 0
  BY TypeParts DEF TypeInv
<1>2. ChipTypes' /\ arrived' = arrived
  BY <1>1, NullUse, CommandTypes
<1>3. AppTypes' /\ IsrTypes'
  BY <1>1, <1>2, NullUse DEF AppTypes, IsrTypes, AppSteps, IsrSteps
<1>4. TypeOK' /\ sends' > 0
  BY <1>1, <1>2, <1>3, NullUse DEF TypeOK, ChipTypes, AppTypes, IsrTypes
<1>5. QED BY <1>4 DEF TypeInv

LEMMA NextTypes ==
  ASSUME TypeInv, [Next]_vars
  PROVE  TypeInv'
<1>1. CASE Invoke
  BY <1>1, InvokeTypes
<1>2. CASE App
  BY <1>2, SetupTypes, ListenTypes, TransmitTypes, CallTypes DEF App
<1>3. CASE Isr
  BY <1>3, IsrStepTypes
<1>4. CASE Radio
  BY <1>4, RadioTypes
<1>5. CASE UseNullQueue
  BY <1>5, NullTypes
<1>6. CASE UNCHANGED vars
  BY <1>6 DEF vars, chipVars, appVars, isrVars, TypeInv, TypeOK
<1>7. QED BY <1>1, <1>2, <1>3, <1>4, <1>5, <1>6 DEF Next

LEMMA TypesKept == Spec => []TypeInv
BY InitTypes, NextTypes, PTL DEF Spec

(* The FIFOs and the queue never hold more than fits, and what is in them   *)
(* was received or sent, whichever calls, faults and arrivals there are.   *)
THEOREM TypeCorrect == Spec => []TypeOK
<1>1. TypeInv => TypeOK
  BY DEF TypeInv
<1>2. QED BY <1>1, TypesKept, PTL

-----------------------------------------------------------------------------
(* The interrupt thread and the chip leave the pins and the application      *)
(* thread alone; only they set flags again.                                *)
LEMMA IsrKeeps ==
  ASSUME Isr
  PROVE  UNCHANGED <<config, ce, app, op, listening, sends, successes, last, created>>
<1> USE DEF IsrGo, appVars, pins
<1>1. CASE setup_isr_thread
  BY <1>1 DEF setup_isr_thread, chipVars
<1>2. CASE radio_isr_thread
  BY <1>2 DEF radio_isr_thread, TakeEdge, chipVars
<1>3. CASE rf24_peekStatus
  BY <1>3 DEF rf24_peekStatus, chipVars
<1>4. CASE is_rx_fifo_empty \/ get_dyn_payload_len \/ MallocFails
  BY <1>4 DEF is_rx_fifo_empty, get_dyn_payload_len, MallocFails, chipVars
<1>5. CASE flush_rx
  BY <1>5 DEF flush_rx, FlushRx
<1>6. CASE ReadPacket
  BY <1>6 DEF ReadPacket, ReadRxFifo
<1>7. CASE ClearRxDr \/ ClearTxDs
  BY <1>7 DEF ClearRxDr, ClearTxDs, WriteStatus
<1>8. QED
  BY <1>1, <1>2, <1>3, <1>4, <1>5, <1>6, <1>7
  DEF Isr, process_radio_interrupt, retrieve_packets

LEMMA RadioKeeps ==
  ASSUME Radio
  PROVE  UNCHANGED <<config, ce, app, op, listening, sends, successes, last, isr, tx_ok,
                     created, packets>>
<1>1. Arrive \/ Launch \/ Acknowledged \/ GiveUp \/ Abandon
  BY DEF Radio, Chip
<1>2. UNCHANGED <<config, ce>>
  BY <1>1 DEF Arrive, Launch, Acknowledged, GiveUp, Abandon, pins
<1>3. QED BY <1>2 DEF Radio, appVars, isrVars

-----------------------------------------------------------------------------
(* What the application thread knows of the pins, step by step: outside of  *)
(* the functions that change the mode listening is right; setDefaults and  *)
(* rf24_stopListening hold CE low; rf24_startListening has set both mode   *)
(* bits before it raises CE, and only rf24_powerDown clears PWR_UP.        *)
Quiet ==
  {"idle", "remove", "getStatus", "powerDown", "powerUp", "sd_reset", "st_disable",
   "wr_observe", "wr_status", "wr_clear"}

Stopped ==
  {"sd_status", "sd_flush_rx", "sd_flush_tx", "in_thread", "in_queue", "st_flush_tx",
   "st_flush_rx"}

Receives ==
  /\ "PRIM_RX" \in config
  /\ "powerDown" \notin Calls => "PWR_UP" \in config

ListeningInv ==
  /\ app = "powerDown" => "powerDown" \in Calls
  /\ app \in Quiet => ce = listening /\ (listening => Receives)
  /\ app \in Stopped => ce = FALSE
  /\ app \in {"in_thread", "in_queue"} => listening = FALSE
  /\ app \in {"sl_status", "sl_enable"} => Receives

LEMMA ListeningStep ==
  ASSUME TypeInv, ListeningInv, [Next]_vars
  PROVE  ListeningInv'
<1> USE DEF ListeningInv, Quiet, Stopped, Go, Keep, Receives
<1>1. CASE rf24_init_radio
  <2>1. CASE SpiInit
    BY <2>1 DEF SpiInit
  <2>2. CASE CreateThread
    BY <2>2 DEF CreateThread, chipVars
  <2>3. CASE CreateQueue
    BY <2>3 DEF CreateQueue, chipVars
  <2>4. QED BY <1>1, <2>1, <2>2, <2>3 DEF rf24_init_radio
<1>2. CASE setDefaults
  <2>1. CASE ResetConfig
    BY <2>1 DEF ResetConfig, WriteConfig
  <2>2. CASE DefaultsDisable
    BY <2>2 DEF DefaultsDisable, CeLow
  <2>3. CASE DefaultsStatus
    BY <2>3 DEF DefaultsStatus, WriteStatus, pins
  <2>4. CASE DefaultsFlushRx
    BY <2>4 DEF DefaultsFlushRx, FlushRx, pins
  <2>5. CASE DefaultsFlushTx
    BY <2>5 DEF DefaultsFlushTx, FlushTx, pins
  <2>6. QED BY <1>2, <2>1, <2>2, <2>3, <2>4, <2>5 DEF setDefaults
<1>3. CASE Invoke
  <2>1. app = "idle" /\ UNCHANGED <<config, ce, listening>>
    BY <1>3 DEF Invoke, chipVars
  <2>2. PICK call \in Calls : app' = FirstStep(call)
    BY <1>3 DEF Invoke
  <2>3. /\ app' \in {"sl_config", "st_disable", "tx_disable", "tx_config", "remove", "sd_reset",
                     "getStatus", "powerDown", "powerUp"}
        /\ app' = "powerDown" => call = "powerDown"
    <3>1. call \in API
      BY RF24Assumption
    <3>2. QED BY <2>2, <3>1 DEF API, FirstStep
  <2>4. QED BY <2>1, <2>2, <2>3
<1>4. CASE rf24_startListening
  <2>1. CASE ListenConfig
    BY <2>1 DEF ListenConfig, WriteConfig, Modes
  <2>2. CASE ListenStatus
    BY <2>2 DEF ListenStatus, WriteStatus, pins
  <2>3. CASE ListenEnable
    BY <2>3 DEF ListenEnable, CeHigh, Transmitted
  <2>4. QED BY <1>4, <2>1, <2>2, <2>3 DEF rf24_startListening
<1>5. CASE rf24_stopListening
  <2>1. CASE StopDisable
    BY <2>1 DEF StopDisable, CeLow
  <2>2. CASE StopFlushTx
    BY <2>2 DEF StopFlushTx, FlushTx, pins
  <2>3. CASE StopFlushRx
    BY <2>3 DEF StopFlushRx, FlushRx, pins
  <2>4. QED BY <1>5, <2>1, <2>2, <2>3 DEF rf24_stopListening
<1>6. CASE transmit_payload
  <2>1. CASE TransmitDisable
    BY <2>1 DEF TransmitDisable
  <2>2. CASE TransmitConfig
    BY <2>2 DEF TransmitConfig
  <2>3. CASE TransmitPayload
    BY <2>3 DEF TransmitPayload
  <2>4. CASE TransmitEnable
    BY <2>4 DEF TransmitEnable
  <2>5. CASE TransmitPulse
    <3>1. ce' = FALSE /\ listening' = listening /\ listening \in BOOLEAN
      BY <2>5 DEF TransmitPulse, CeLow, TypeInv, TypeOK
    <3>2. CASE listening
      BY <2>5, <3>2 DEF TransmitPulse
    <3>3. CASE ~listening
      <4>1. app' \in {"idle", "wr_observe"}
        BY <2>5, <3>3 DEF TransmitPulse, Transmitted
      <4>2. listening' = FALSE
        BY <3>1, <3>3
      <4>3. QED BY <3>1, <4>1, <4>2
    <3>4. QED BY <3>2, <3>3
  <2>6. QED BY <1>6, <2>1, <2>2, <2>3, <2>4, <2>5 DEF transmit_payload
<1>7. CASE rf24_write
  BY <1>7 DEF rf24_write, WriteObserve, WriteTimeout, WriteResult, WriteClear, WriteStatus, chipVars, pins
<1>8. CASE rf24_recv
  BY <1>8 DEF rf24_recv, ReceivePacket, ReceiveNothing, chipVars
<1>9. CASE rf24_getStatus
  BY <1>9 DEF rf24_getStatus, WriteStatus, pins
<1>10. CASE rf24_powerDown \/ rf24_powerUp
  BY <1>10 DEF rf24_powerDown, rf24_powerUp, WriteConfig
<1>11. CASE Isr \/ Radio \/ UNCHANGED vars
  <2>1. UNCHANGED <<config, ce, app, listening>>
    BY <1>11, IsrKeeps, RadioKeeps DEF vars, chipVars, appVars
  <2>2. QED BY <2>1
<1>12. CASE UseNullQueue
  BY <1>12, NullUse
<1>13. QED
  BY <1>1, <1>2, <1>3, <1>4, <1>5, <1>6, <1>7, <1>8, <1>9, <1>10, <1>11, <1>12 DEF Next, App

(* Between two calls the flag listening tells what the driver last made of  *)
(* the radio, although sending leaves receive mode on its way and whatever  *)
(* the interrupt thread does meanwhile; an application that does not call   *)
(* rf24_powerDown has a powered receiver then.                             *)
THEOREM ListeningIsRight == Spec => []ListeningMeansReceiving
<1>1. Init => ListeningInv
  BY DEF Init, ListeningInv, Quiet, Stopped
<1>2. ListeningInv => ListeningMeansReceiving
  BY DEF ListeningInv, Quiet, Receives, ListeningMeansReceiving
<1>3. QED BY <1>1, <1>2, ListeningStep, TypesKept, PTL DEF Spec

-----------------------------------------------------------------------------
(* The start of rf24_init_radio.  From setDefaults on CE is low, so that no *)
(* packet arrives; with the flags cleared and the FIFO flushed after that, *)
(* the first run of the interrupt thread finds nothing to retrieve.        *)
Cleared == {"sd_flush_rx", "sd_flush_tx", "in_thread", "in_queue"}
Flushed == Cleared \ {"sd_flush_rx"}

StartInv ==
  created = "no" =>
    /\ app \in {"in_spi", "exit", "sd_disable", "sd_status"} \cup Cleared
    /\ op = "init"
    /\ app # "in_queue" => isr = "none"
    /\ isr \in {"none", "setup", "dead", "poll", "peek", "tx_ds"}
    /\ app \in Cleared => "RX_DR" \notin status
    /\ app \in Flushed => rxFifo = <<>>

LEMMA StartIsr ==
  ASSUME StartInv, ListeningInv, Isr
  PROVE  StartInv'
<1> SUFFICES ASSUME created' = "no" PROVE StartInv'
  BY DEF StartInv
<1>1. created = "no" /\ UNCHANGED <<app, op, created>>
  BY IsrKeeps
<1>2. /\ app \in {"in_spi", "exit", "sd_disable", "sd_status"} \cup Cleared
      /\ op = "init"
      /\ app # "in_queue" => isr = "none"
      /\ isr \in {"none", "setup", "dead", "poll", "peek", "tx_ds"}
      /\ app \in Cleared => "RX_DR" \notin status
      /\ app \in Flushed => rxFifo = <<>>
  BY <1>1 DEF StartInv
<1>3. isr # "none"
  BY DEF Isr, setup_isr_thread, radio_isr_thread, process_radio_interrupt, rf24_peekStatus,
         retrieve_packets, is_rx_fifo_empty, get_dyn_payload_len, flush_rx, ReadPacket,
         MallocFails, ClearRxDr, ClearTxDs, IsrGo
<1>4. app = "in_queue" /\ "RX_DR" \notin status /\ rxFifo = <<>>
  BY <1>2, <1>3 DEF Cleared, Flushed
<1>5. setup_isr_thread \/ radio_isr_thread \/ rf24_peekStatus \/ ClearTxDs
  BY <1>2 DEF Isr, process_radio_interrupt, retrieve_packets, is_rx_fifo_empty,
              get_dyn_payload_len, flush_rx, ReadPacket, MallocFails, ClearRxDr, IsrGo
<1>6. isr' \in {"poll", "dead", "peek", "tx_ds"}
  BY <1>4, <1>5 DEF setup_isr_thread, radio_isr_thread, rf24_peekStatus, ClearTxDs, IsrGo, Retrieved
<1>7. status' \subseteq status /\ rxFifo' = rxFifo
  <2>1. CASE setup_isr_thread
    BY <2>1 DEF setup_isr_thread, chipVars, fifos
  <2>2. CASE radio_isr_thread
    BY <2>2 DEF radio_isr_thread, TakeEdge, chipVars, fifos
  <2>3. CASE rf24_peekStatus
    BY <2>3 DEF rf24_peekStatus, chipVars
  <2>4. CASE ClearTxDs
    BY <2>4 DEF ClearTxDs, WriteStatus, fifos
  <2>5. QED BY <1>5, <2>1, <2>2, <2>3, <2>4
<1>8. QED BY <1>1, <1>2, <1>4, <1>6, <1>7 DEF StartInv, Cleared, Flushed

LEMMA StartRadio ==
  ASSUME StartInv, ListeningInv, Radio
  PROVE  StartInv'
<1> SUFFICES ASSUME created = "no" PROVE StartInv'
  BY RadioKeeps DEF StartInv
<1>1. UNCHANGED <<app, op, isr, created>>
  BY RadioKeeps
<1>2. CASE app \in Cleared
  <2>1. ~Arrive
    BY <1>2 DEF Arrive, ListeningInv, Stopped, Cleared
  <2>2. Launch \/ Acknowledged \/ GiveUp \/ Abandon
    BY <2>1 DEF Radio, Chip
  <2>3. rxFifo' = rxFifo /\ ("RX_DR" \in status' => "RX_DR" \in status)
    BY <2>2 DEF Launch, Acknowledged, GiveUp, Abandon, Raise, history
  <2>4. QED BY <1>1, <2>3 DEF StartInv
<1>3. CASE app \notin Cleared
  BY <1>1, <1>3 DEF StartInv, Flushed
<1>4. QED BY <1>2, <1>3

LEMMA StartStep ==
  ASSUME TypeInv, ListeningInv, StartInv, [Next]_vars
  PROVE  StartInv'
<1> USE DEF Go, Keep, isrVars, Cleared, Flushed
<1>1. CASE rf24_init_radio
  <2>1. CASE SpiInit
    BY <2>1 DEF SpiInit, StartInv
  <2>2. CASE CreateThread
    BY <2>2 DEF CreateThread, StartInv, chipVars
  <2>3. CASE CreateQueue
    BY <2>3 DEF CreateQueue, StartInv
  <2>4. QED BY <1>1, <2>1, <2>2, <2>3 DEF rf24_init_radio
<1>2. CASE setDefaults
  <2>1. CASE ResetConfig
    BY <2>1 DEF ResetConfig, StartInv
  <2>2. CASE DefaultsDisable
    BY <2>2 DEF DefaultsDisable, StartInv
  <2>3. CASE DefaultsStatus
    BY <2>3 DEF DefaultsStatus, WriteStatus, StartInv, Flags
  <2>4. CASE DefaultsFlushRx
    BY <2>4 DEF DefaultsFlushRx, FlushRx, StartInv
  <2>5. CASE DefaultsFlushTx
    BY <2>5 DEF DefaultsFlushTx, FlushTx, StartInv
  <2>6. QED BY <1>2, <2>1, <2>2, <2>3, <2>4, <2>5 DEF setDefaults
<1>3. CASE \/ Invoke \/ rf24_startListening \/ rf24_stopListening \/ transmit_payload
           \/ rf24_write \/ rf24_recv \/ rf24_getStatus \/ rf24_powerDown \/ rf24_powerUp
  <2>1. created' = created
    BY <1>3
    DEF Invoke, rf24_startListening, ListenConfig, ListenStatus, ListenEnable,
        rf24_stopListening, StopDisable, StopFlushTx, StopFlushRx,
        transmit_payload, TransmitDisable, TransmitConfig, TransmitPayload, TransmitEnable,
        TransmitPulse, rf24_write, WriteObserve, WriteTimeout, WriteResult, WriteClear,
        rf24_recv, ReceivePacket, ReceiveNothing, rf24_getStatus, rf24_powerDown, rf24_powerUp
  <2>2. app \notin {"in_spi", "exit", "sd_disable", "sd_status"} \cup Cleared
    BY <1>3
    DEF Invoke, rf24_startListening, ListenConfig, ListenStatus, ListenEnable,
        rf24_stopListening, StopDisable, StopFlushTx, StopFlushRx,
        transmit_payload, TransmitDisable, TransmitConfig, TransmitPayload, TransmitEnable,
        TransmitPulse, rf24_write, WriteObserve, WriteTimeout, WriteResult, WriteClear,
        rf24_recv, ReceivePacket, ReceiveNothing, rf24_getStatus, rf24_powerDown, rf24_powerUp
  <2>3. QED BY <2>1, <2>2 DEF StartInv
<1>4. CASE Isr
  BY <1>4, StartIsr
<1>5. CASE Radio
  BY <1>5, StartRadio
<1>6. CASE UNCHANGED vars
  BY <1>6 DEF vars, chipVars, appVars, isrVars, StartInv
<1>7. CASE UseNullQueue
  BY <1>7, NullUse DEF StartInv
<1>8. QED BY <1>1, <1>2, <1>3, <1>4, <1>5, <1>6, <1>7 DEF Next, App

LEMMA StartKept == Spec => [](TypeInv /\ ListeningInv /\ StartInv)
<1>1. Init => ListeningInv /\ StartInv
  BY DEF Init, ListeningInv, Quiet, Stopped, StartInv, Cleared, Flushed
<1>2. QED BY <1>1, TypesKept, ListeningStep, StartStep, PTL DEF Spec

(* The pointer stays NULL only when malloc failed. *)
NullInv == created = "null" => "malloc" \in Faults

LEMMA NullStep ==
  ASSUME NullInv, [Next]_vars
  PROVE  NullInv'
<1> USE DEF NullInv, Go, Keep
<1>1. CASE Invoke \/ rf24_init_radio
  BY <1>1 DEF Invoke, rf24_init_radio, SpiInit, CreateThread, CreateQueue
<1>2. CASE setDefaults
  BY <1>2 DEF setDefaults, ResetConfig, DefaultsDisable, DefaultsStatus, DefaultsFlushRx,
              DefaultsFlushTx
<1>3. CASE rf24_startListening \/ rf24_stopListening \/ transmit_payload
  BY <1>3 DEF rf24_startListening, ListenConfig, ListenStatus, ListenEnable,
              rf24_stopListening, StopDisable, StopFlushTx, StopFlushRx,
              transmit_payload, TransmitDisable, TransmitConfig, TransmitPayload,
              TransmitEnable, TransmitPulse
<1>4. CASE rf24_write \/ rf24_recv \/ rf24_getStatus \/ rf24_powerDown \/ rf24_powerUp
  BY <1>4 DEF rf24_write, WriteObserve, WriteTimeout, WriteResult, WriteClear, rf24_recv,
              ReceivePacket, ReceiveNothing, rf24_getStatus, rf24_powerDown, rf24_powerUp
<1>5. CASE Isr \/ Radio \/ UseNullQueue \/ UNCHANGED vars
  <2>1. created' = created
    BY <1>5, IsrKeeps, RadioKeeps, NullUse DEF vars
  <2>2. QED BY <2>1
<1>6. QED
  BY <1>1, <1>2, <1>3, <1>4, <1>5 DEF Next, App

(* Although the interrupt thread is started first and is told of an         *)
(* interrupt at once, it does not touch the queue before tsq_create has    *)
(* returned; and unless malloc failed there, it finds a queue.             *)
THEOREM QueueExists == Spec => []QueueExistsBeforeUse
<1>1. Init => NullInv
  BY DEF Init, NullInv
<1>2. TypeInv /\ StartInv /\ NullInv => QueueExistsBeforeUse
  BY DEF StartInv, NullInv, QueueExistsBeforeUse, TypeInv, TypeOK
<1>3. QED BY <1>1, <1>2, StartKept, NullStep, PTL DEF Spec

-----------------------------------------------------------------------------
(* Payloads and their acknowledgements.                                    *)

(* All that changes the chip, but new payloads and what it does by itself.  *)
LEMMA AppEffect ==
  ASSUME TypeInv, Invoke \/ App
  PROVE  Effect \/ TransmitPayload
<1>1. ChipTypes
  BY TypeParts DEF TypeInv
<1>2. ASSUME Command PROVE Effect
  BY <1>1, <1>2, CommandEffect
<1>3. ASSUME UNCHANGED chipVars PROVE Effect
  BY <1>2, <1>3 DEF Command
<1>4. ASSUME NEW bits \in {config \cup Modes, config \ {"PRIM_RX"}, config \ {"PWR_UP"},
                          config \cup {"PWR_UP"}},
             WriteConfig(bits)
      PROVE  Effect
  BY <1>2, <1>4, ConfigCommand
<1>5. CASE rf24_init_radio \/ Invoke \/ rf24_recv
  <2>1. UNCHANGED chipVars
    BY <1>5 DEF rf24_init_radio, SpiInit, CreateThread, CreateQueue, Invoke, rf24_recv,
                ReceivePacket, ReceiveNothing
  <2>2. QED BY <1>3, <2>1
<1>6. CASE setDefaults
  <2>1. Command
    BY <1>6 DEF setDefaults, ResetConfig, DefaultsDisable, DefaultsStatus, DefaultsFlushRx,
                DefaultsFlushTx, Command
  <2>2. QED BY <1>2, <2>1
<1>7. CASE rf24_startListening \/ rf24_stopListening
  <2>1. CASE ListenConfig
    BY <1>4, <2>1 DEF ListenConfig
  <2>2. CASE ListenStatus \/ ListenEnable \/ rf24_stopListening
    <3>1. Command
      BY <2>2 DEF ListenStatus, ListenEnable, rf24_stopListening, StopDisable, StopFlushTx,
                  StopFlushRx, Command
    <3>2. QED BY <1>2, <3>1
  <2>3. QED BY <1>7, <2>1, <2>2 DEF rf24_startListening
<1>8. CASE transmit_payload
  <2>1. CASE TransmitConfig
    BY <1>4, <2>1 DEF TransmitConfig
  <2>2. CASE TransmitDisable \/ TransmitEnable \/ TransmitPulse
    <3>1. Command
      BY <2>2 DEF TransmitDisable, TransmitEnable, TransmitPulse, Command
    <3>2. QED BY <1>2, <3>1
  <2>3. QED BY <1>8, <2>1, <2>2 DEF transmit_payload
<1>9. CASE rf24_write \/ rf24_getStatus
  <2>1. Command
    <3>1. CASE WriteObserve \/ WriteTimeout \/ WriteResult
      BY <3>1 DEF WriteObserve, WriteTimeout, WriteResult, Command
    <3>2. CASE WriteClear \/ rf24_getStatus
      BY <3>2 DEF WriteClear, rf24_getStatus, Command
    <3>3. QED BY <1>9, <3>1, <3>2 DEF rf24_write
  <2>2. QED BY <1>2, <2>1
<1>10. CASE rf24_powerDown \/ rf24_powerUp
  BY <1>4, <1>10 DEF rf24_powerDown, rf24_powerUp
<1>11. QED
  BY <1>5, <1>6, <1>7, <1>8, <1>9, <1>10 DEF App

LEMMA IsrEffect ==
  ASSUME TypeInv, Isr
  PROVE  Effect
<1>1. ChipTypes
  BY TypeParts DEF TypeInv
<1>2. ASSUME Command PROVE Effect
  BY <1>1, <1>2, CommandEffect
<1>3. ASSUME UNCHANGED chipVars PROVE Effect
  BY <1>2, <1>3 DEF Command
<1>4. CASE setup_isr_thread
  <2>1. /\ edge' = TRUE \/ edge' = edge
        /\ UNCHANGED <<config, ce, status, rxFifo, txFifo, air, arrived, acked>>
    BY <1>4 DEF setup_isr_thread, chipVars, pins, history, fifos
  <2>2. QED BY <1>1, <2>1 DEF Effect, ChipTypes
<1>5. CASE radio_isr_thread
  <2>1. TakeEdge \/ UNCHANGED chipVars
    BY <1>5 DEF radio_isr_thread
  <2>2. QED BY <1>2, <2>1 DEF Command
<1>6. CASE rf24_peekStatus
  BY <1>3, <1>6 DEF rf24_peekStatus
<1>7. CASE is_rx_fifo_empty \/ get_dyn_payload_len \/ MallocFails
  <2>1. UNCHANGED chipVars
    BY <1>7 DEF is_rx_fifo_empty, get_dyn_payload_len, MallocFails
  <2>2. QED BY <1>3, <2>1
<1>8. CASE flush_rx
  BY <1>2, <1>8 DEF flush_rx, Command
<1>9. CASE ReadPacket
  BY <1>2, <1>9 DEF ReadPacket, Command
<1>10. CASE ClearRxDr \/ ClearTxDs
  BY <1>2, <1>10 DEF ClearRxDr, ClearTxDs, Command, Flags
<1>11. QED
  BY <1>4, <1>5, <1>6, <1>7, <1>8, <1>9, <1>10
  DEF Isr, process_radio_interrupt, retrieve_packets

LEMMA StepEffect ==
  ASSUME TypeInv, [Next]_vars
  PROVE  Effect \/ TransmitPayload \/ Radio
<1>1. CASE UNCHANGED vars
  <2>1. Command
    BY <1>1 DEF vars, Command
  <2>2. QED BY <2>1, TypeParts, CommandEffect DEF TypeInv
<1>2. CASE UseNullQueue
  BY <1>2, NullUse, TypeParts, CommandEffect DEF TypeInv
<1>3. QED BY <1>1, <1>2, AppEffect, IsrEffect DEF Next

(* Payloads are sent in the order of their numbers, and one that was        *)
(* acknowledged is not sent again.                                         *)
Numbered ==
  /\ \A i, j \in 1 .. Len(txFifo) : i < j => txFifo[i] < txFifo[j]
  /\ air # 0 => \A i \in 1 .. Len(txFifo) : air <= txFifo[i]
  /\ air # 0 => \A a \in acked : a < air
  /\ \A a \in acked : \A i \in 1 .. Len(txFifo) : a < txFifo[i]

LEMMA NumberedEffect ==
  ASSUME TypeInv, Numbered, Effect
  PROVE  Numbered'
<1>1. txFifo \in Seq(1 .. sends) /\ air \in 0 .. sends /\ acked \subseteq 1 .. sends /\ sends \in Nat
  BY DEF TypeInv, TypeOK
<1>2. acked' = acked
  BY DEF Effect
<1>3. CASE txFifo' = <<>>
  <2>1. Len(txFifo') = 0
    BY <1>3
  <2>2. air' # 0 => \A a \in acked : a < air'
    <3>1. CASE air' = air
      BY <3>1 DEF Numbered
    <3>2. CASE txFifo # <<>> /\ air' = Head(txFifo)
      <4>1. air' = txFifo[1] /\ 1 \in 1 .. Len(txFifo)
        BY <1>1, <3>2, TailFacts
      <4>2. QED BY <4>1 DEF Numbered
    <3>3. QED BY <3>1, <3>2 DEF Effect
  <2>3. QED BY <1>2, <2>1, <2>2 DEF Numbered
<1>4. CASE txFifo' = txFifo /\ air' = air
  BY <1>2, <1>4 DEF Numbered
<1>5. CASE txFifo' = txFifo /\ txFifo # <<>> /\ air' = Head(txFifo)
  <2>1. air' = txFifo[1] /\ 1 \in 1 .. Len(txFifo) /\ Len(txFifo) \in Nat
    BY <1>1, <1>5, TailFacts
  <2>2. \A i \in 1 .. Len(txFifo) : air' <= txFifo[i]
    <3> SUFFICES ASSUME NEW i \in 1 .. Len(txFifo) PROVE txFifo[1] <= txFifo[i]
      BY <2>1
    <3>1. txFifo[1] \in Nat /\ txFifo[i] \in Nat
      BY <1>1, <2>1
    <3>2. CASE i = 1
      BY <3>1, <3>2
    <3>3. CASE i # 1
      BY <2>1, <3>1, <3>3 DEF Numbered
    <3>4. QED BY <3>2, <3>3
  <2>3. \A a \in acked : a < air'
    BY <2>1 DEF Numbered
  <2>4. QED BY <1>2, <1>5, <2>2, <2>3 DEF Numbered
<1>6. QED BY <1>3, <1>4, <1>5 DEF Effect

LEMMA NumberedTransmit ==
  ASSUME TypeInv, Numbered, TransmitPayload
  PROVE  Numbered'
<1>1. txFifo \in Seq(1 .. sends) /\ air \in 0 .. sends /\ acked \subseteq 1 .. sends /\ sends \in Nat
  BY DEF TypeInv, TypeOK
<1>2. /\ txFifo' = IF Len(txFifo) < FifoDepth THEN Append(txFifo, sends + 1) ELSE txFifo
      /\ air' = air /\ acked' = acked
  BY DEF TransmitPayload, WriteTxFifo, history
<1>3. CASE txFifo' = txFifo
  BY <1>2, <1>3 DEF Numbered
<1>4. CASE txFifo' = Append(txFifo, sends + 1)
  <2> DEFINE n == Len(txFifo)
  <2>1. n \in Nat /\ Len(txFifo') = n + 1
    BY <1>1, <1>4
  <2>2. \A i \in 1 .. n : txFifo'[i] = txFifo[i] /\ txFifo[i] \in 1 .. sends
    BY <1>1, <1>4
  <2>3. txFifo'[n + 1] = sends + 1
    BY <1>1, <1>4
  <2> HIDE DEF n
  <2>4. \A i \in 1 .. n + 1 : i \in 1 .. n \/ i = n + 1
    BY <2>1
  <2>5. \A i, j \in 1 .. n : i < j => txFifo[i] < txFifo[j]
    BY DEF Numbered, n
  <2>6. ASSUME NEW i \in 1 .. n + 1, NEW j \in 1 .. n + 1, i < j
        PROVE  txFifo'[i] < txFifo'[j]
    <3>1. i \in 1 .. n
      BY <2>1, <2>6
    <3>2. CASE j \in 1 .. n
      BY <2>2, <2>5, <2>6, <3>1, <3>2
    <3>3. CASE j = n + 1
      BY <1>1, <2>2, <2>3, <3>1, <3>3
    <3>4. QED BY <2>4, <3>2, <3>3
  <2>7. ASSUME air # 0, NEW i \in 1 .. n + 1
        PROVE  air <= txFifo'[i]
    <3>1. CASE i \in 1 .. n
      BY <2>2, <2>7, <3>1 DEF Numbered, n
    <3>2. CASE i = n + 1
      BY <1>1, <2>3, <3>2
    <3>3. QED BY <2>4, <3>1, <3>2
  <2>8. ASSUME NEW a \in acked, NEW i \in 1 .. n + 1
        PROVE  a < txFifo'[i]
    <3>1. CASE i \in 1 .. n
      BY <2>2, <3>1 DEF Numbered, n
    <3>2. CASE i = n + 1
      BY <1>1, <2>3, <3>2
    <3>3. QED BY <2>4, <3>1, <3>2
  <2>9. air' # 0 => \A a \in acked' : a < air'
    BY <1>2 DEF Numbered
  <2>10. QED BY <1>2, <2>1, <2>6, <2>7, <2>8, <2>9 DEF Numbered
<1>5. QED BY <1>2, <1>3, <1>4

LEMMA NumberedRadio ==
  ASSUME TypeInv, Numbered, Radio
  PROVE  Numbered'
<1>1. txFifo \in Seq(1 .. sends) /\ air \in 0 .. sends /\ acked \subseteq 1 .. sends /\ sends \in Nat
  BY DEF TypeInv, TypeOK
<1>2. CASE Arrive
  BY <1>2 DEF Arrive, Numbered
<1>3. CASE Launch
  <2>1. Effect
    BY <1>3 DEF Launch, Effect, pins, history, TypeInv, TypeOK
  <2>2. QED BY <2>1, NumberedEffect
<1>4. CASE Acknowledged
  <2>1. air # 0 /\ air' = 0 /\ acked' = acked \cup {air}
    BY <1>4 DEF Acknowledged
  <2>2. CASE txFifo # <<>> /\ Head(txFifo) = air
    <3>1. txFifo' = Tail(txFifo)
      BY <1>4, <2>2 DEF Acknowledged
    <3>2. /\ Len(txFifo) \in Nat \ {0} /\ Len(txFifo') = Len(txFifo) - 1
          /\ txFifo[1] = air
      BY <1>1, <2>2, <3>1, TailFacts
    <3>3. \A i \in 1 .. Len(txFifo') : i + 1 \in 1 .. Len(txFifo) /\ txFifo'[i] = txFifo[i + 1]
      BY <1>1, <2>2, <3>1, <3>2
    <3>4. \A i \in 1 .. Len(txFifo') : air < txFifo'[i]
      BY <3>2, <3>3 DEF Numbered
    <3>5. \A i, j \in 1 .. Len(txFifo') : i < j => txFifo'[i] < txFifo'[j]
      BY <3>2, <3>3 DEF Numbered
    <3>6. \A a \in acked : \A i \in 1 .. Len(txFifo') : a < txFifo'[i]
      BY <3>3 DEF Numbered
    <3>7. QED BY <2>1, <3>4, <3>5, <3>6 DEF Numbered
  <2>3. CASE ~(txFifo # <<>> /\ Head(txFifo) = air)
    <3>1. txFifo' = txFifo
      BY <1>4, <2>3 DEF Acknowledged
    <3>2. \A i \in 1 .. Len(txFifo) : air < txFifo[i]
      <4> SUFFICES ASSUME NEW i \in 1 .. Len(txFifo) PROVE air < txFifo[i]
        OBVIOUS
      <4>1. txFifo # <<>> /\ txFifo[1] \in Nat /\ txFifo[i] \in Nat /\ 1 \in 1 .. Len(txFifo)
        BY <1>1
      <4>2. txFifo[1] # air /\ air <= txFifo[1]
        BY <1>1, <2>1, <2>3, <4>1 DEF Numbered
      <4>3. i = 1 \/ txFifo[1] < txFifo[i]
        BY <4>1 DEF Numbered
      <4>4. QED BY <1>1, <4>1, <4>2, <4>3
    <3>3. QED BY <2>1, <3>1, <3>2 DEF Numbered
  <2>4. QED BY <2>2, <2>3
<1>5. CASE GiveUp \/ Abandon
  BY <1>5 DEF GiveUp, Abandon, history, Numbered
<1>6. QED BY <1>2, <1>3, <1>4, <1>5 DEF Radio, Chip

LEMMA NumberedStep ==
  ASSUME TypeInv, Numbered, [Next]_vars
  PROVE  Numbered'
BY StepEffect, NumberedEffect, NumberedTransmit, NumberedRadio

LEMMA NumberedInit == Init => Numbered
<1> SUFFICES ASSUME Init PROVE Numbered
  OBVIOUS
<1>1. acked = {} /\ txFifo \in {<<>>, <<1>>} /\ air \in {0, 1}
  <2>1. CASE UsedBefore
    <3>1. txFifo \in {<<>>, <<1>>} /\ air \in {txFifo[i] : i \in DOMAIN txFifo} \cup {0}
      BY <2>1 DEF Init
    <3>2. CASE txFifo = <<>>
      BY <3>1, <3>2 DEF Init
    <3>3. CASE txFifo = <<1>>
      BY <3>1, <3>3 DEF Init
    <3>4. QED BY <3>1, <3>2, <3>3
  <2>2. CASE ~UsedBefore
    BY <2>2 DEF Init
  <2>3. QED BY <2>1, <2>2
<1>2. CASE txFifo = <<>>
  BY <1>1, <1>2 DEF Numbered
<1>3. CASE txFifo = <<1>>
  BY <1>1, <1>3 DEF Numbered
<1>4. QED BY <1>1, <1>2, <1>3

(* Until setDefaults clears the flags TX_DS may be left over; no write has  *)
(* returned by then.  After that an acknowledgement not yet reported is    *)
(* what a set TX_DS stands for, unless rf24_getStatus has just read it.    *)
Early ==
  app \in {"in_spi", "exit"} \/ (op = "init" /\ app \in {"sd_disable", "sd_status"})

Unreported == IF "TX_DS" \in status /\ app \notin {"wr_clear", "crashed"} THEN 1 ELSE 0

AckInv ==
  /\ app = "in_spi" => op = "init"
  /\ app = "sd_reset" => op # "init"
  /\ Early => successes = {}
  /\ ~Early => Cardinality(successes) + Unreported <= Cardinality(acked)

LEMMA Counted ==
  ASSUME NEW n \in Nat, NEW S, S \subseteq 1 .. n
  PROVE  IsFiniteSet(S) /\ Cardinality(S) \in Nat
<1>1. IsFiniteSet(1 .. n)
  BY FS_Interval
<1>2. IsFiniteSet(S)
  BY <1>1, FS_Subset
<1>3. QED BY <1>2, FS_CardinalityType

LEMMA EarlySteps ==
  ASSUME AckInv, [Next]_vars
  PROVE  /\ (app = "in_spi" => op = "init")' /\ (app = "sd_reset" => op # "init")'
         /\ Early' => Early
         /\ Early /\ ~Early' => DefaultsStatus \/ UseNullQueue
         /\ successes' = successes \/ (WriteResult /\ ~Early)
         /\ app = "wr_clear" => app' = app \/ WriteClear
         /\ app' = "wr_clear" => app' = app \/ WriteResult
<1> USE DEF Early, Go, Keep
<1>1. app = "in_spi" => op = "init"
  BY DEF AckInv
<1>2. app = "sd_reset" => op # "init"
  BY DEF AckInv
<1>3. CASE rf24_init_radio
  BY <1>1, <1>3 DEF rf24_init_radio, SpiInit, CreateThread, CreateQueue
<1>4. CASE setDefaults
  BY <1>2, <1>4 DEF setDefaults, ResetConfig, DefaultsDisable, DefaultsStatus,
                    DefaultsFlushRx, DefaultsFlushTx
<1>5. CASE Invoke
  <2>1. PICK call \in Calls : op' = call /\ app' = FirstStep(call)
    BY <1>5 DEF Invoke
  <2>2. call \in API
    BY RF24Assumption
  <2>3. op' # "init" /\ app' \notin {"in_spi", "exit", "wr_clear"}
    BY <2>1, <2>2 DEF API, FirstStep
  <2>4. successes' = successes
    BY <1>5 DEF Invoke
  <2>5. QED BY <2>3, <2>4, <1>5 DEF Invoke
<1>6. CASE rf24_startListening \/ rf24_stopListening
  BY <1>6 DEF rf24_startListening, ListenConfig, ListenStatus, ListenEnable, Transmitted,
              rf24_stopListening, StopDisable, StopFlushTx, StopFlushRx
<1>7. CASE transmit_payload
  BY <1>7 DEF transmit_payload, TransmitDisable, TransmitConfig, TransmitPayload, TransmitEnable,
              TransmitPulse, Transmitted
<1>8. CASE rf24_write
  BY <1>8 DEF rf24_write, WriteObserve, WriteTimeout, WriteResult, WriteClear
<1>9. CASE rf24_recv \/ rf24_getStatus \/ rf24_powerDown \/ rf24_powerUp
  BY <1>9 DEF rf24_recv, ReceivePacket, ReceiveNothing, rf24_getStatus, rf24_powerDown, rf24_powerUp
<1>10. CASE Isr \/ Radio \/ UNCHANGED vars
  <2>1. UNCHANGED <<app, op, successes>>
    BY <1>10, IsrKeeps, RadioKeeps DEF vars, appVars
  <2>2. QED BY <1>1, <1>2, <2>1
<1>11. CASE UseNullQueue
  BY <1>1, <1>2, <1>11, NullUse
<1>12. QED
  BY <1>3, <1>4, <1>5, <1>6, <1>7, <1>8, <1>9, <1>10, <1>11 DEF Next, App

(* A process that has ended makes no further call. *)
LEMMA CrashIsFinal ==
  ASSUME app = "crashed", [Next]_vars
  PROVE  app' = app
<1> USE DEF Go
<1>1. ~App
  <2>1. ~(rf24_init_radio \/ setDefaults \/ rf24_startListening \/ rf24_stopListening)
    BY DEF rf24_init_radio, SpiInit, CreateThread, CreateQueue, setDefaults, ResetConfig,
           DefaultsDisable, DefaultsStatus, DefaultsFlushRx, DefaultsFlushTx,
           rf24_startListening, ListenConfig, ListenStatus, ListenEnable,
           rf24_stopListening, StopDisable, StopFlushTx, StopFlushRx
  <2>2. ~(transmit_payload \/ rf24_write \/ rf24_recv)
    BY DEF transmit_payload, TransmitDisable, TransmitConfig, TransmitPayload, TransmitEnable,
           TransmitPulse, rf24_write, WriteObserve, WriteTimeout, WriteResult, WriteClear,
           rf24_recv, ReceivePacket, ReceiveNothing
  <2>3. ~(rf24_getStatus \/ rf24_powerDown \/ rf24_powerUp)
    BY DEF rf24_getStatus, rf24_powerDown, rf24_powerUp
  <2>4. QED BY <2>1, <2>2, <2>3 DEF App
<1>2. ~Invoke
  BY DEF Invoke
<1>3. CASE UseNullQueue
  BY <1>3, NullUse
<1>4. CASE Isr \/ Radio \/ UNCHANGED vars
  BY <1>4, IsrKeeps, RadioKeeps DEF vars, appVars
<1>5. QED BY <1>1, <1>2, <1>3, <1>4 DEF Next

LEMMA AckStep ==
  ASSUME TypeInv, Numbered, AckInv, [Next]_vars
  PROVE  AckInv'
<1>1. /\ (app = "in_spi" => op = "init")' /\ (app = "sd_reset" => op # "init")'
      /\ Early' => Early
      /\ Early /\ ~Early' => DefaultsStatus \/ UseNullQueue
      /\ successes' = successes \/ (WriteResult /\ ~Early)
      /\ app = "wr_clear" => app' = app \/ WriteClear
      /\ app' = "wr_clear" => app' = app \/ WriteResult
  BY EarlySteps
<1>2. CASE Early'
  <2>1. successes' = {}
    BY <1>1, <1>2 DEF AckInv
  <2>2. QED BY <1>1, <1>2, <2>1 DEF AckInv
<1>3. TypeInv'
  BY NextTypes
<1>4. /\ Cardinality(successes) \in Nat /\ Cardinality(acked) \in Nat
      /\ Cardinality(acked') \in Nat /\ IsFiniteSet(successes) /\ IsFiniteSet(acked)
  <2>1. /\ successes \subseteq 1 .. sends /\ acked \subseteq 1 .. sends /\ sends \in Nat
        /\ acked' \subseteq 1 .. sends' /\ sends' \in Nat
    BY <1>3 DEF TypeInv, TypeOK
  <2>2. QED BY <2>1, Counted
<1>5. ~Early => Cardinality(successes) + Unreported <= Cardinality(acked)
  BY DEF AckInv
<1>6. CASE Early /\ ~Early'
  <2>1. acked' = acked /\ (status' = status \ Flags \/ app' = "crashed")
    <3>1. CASE DefaultsStatus
      BY <3>1 DEF DefaultsStatus, WriteStatus, history
    <3>2. CASE UseNullQueue
      BY <3>2, NullUse, TypeParts, CommandEffect DEF TypeInv, Effect
    <3>3. QED BY <1>1, <1>6, <3>1, <3>2
  <2>2. Unreported' = 0
    BY <2>1 DEF Unreported, Flags
  <2>3. successes' = {}
    BY <1>1, <1>6 DEF AckInv
  <2>4. Cardinality(successes') = 0
    BY <2>3, FS_EmptySet
  <2>5. QED BY <1>1, <1>4, <1>6, <2>1, <2>2, <2>4 DEF AckInv
<1>7. CASE ~Early /\ WriteResult
  <2>1. app = "wr_status" /\ app' = "wr_clear" /\ acked' = acked
    BY <1>7 DEF WriteResult, Go, chipVars
  <2>2. Unreported' = 0
    BY <2>1 DEF Unreported
  <2>3. CASE "TX_DS" \in status
    <3>1. successes' = successes \cup {sends}
      BY <1>7, <2>3 DEF WriteResult
    <3>2. Cardinality(successes') \in {Cardinality(successes), Cardinality(successes) + 1}
      <4>1. CASE sends \in successes
        <5>1. successes' = successes
          BY <3>1, <4>1
        <5>2. QED BY <5>1
      <4>2. CASE sends \notin successes
        BY <1>4, <3>1, <4>2, FS_AddElement
      <4>3. QED BY <4>1, <4>2
    <3>3. Unreported = 1
      BY <2>1, <2>3 DEF Unreported
    <3>4. Cardinality(successes') + Unreported' <= Cardinality(acked')
      BY <1>4, <1>5, <1>7, <2>1, <2>2, <3>2, <3>3
    <3>5. QED BY <1>1, <1>7, <3>4 DEF AckInv
  <2>4. CASE "TX_DS" \notin status
    <3>1. successes' = successes
      BY <1>7, <2>4 DEF WriteResult
    <3>2. Unreported = 0
      BY <2>4 DEF Unreported
    <3>3. Cardinality(successes') + Unreported' <= Cardinality(acked')
      BY <1>4, <1>5, <1>7, <2>1, <2>2, <3>1, <3>2
    <3>4. QED BY <1>1, <1>7, <3>3 DEF AckInv
  <2>5. QED BY <2>3, <2>4
<1>8. CASE ~Early /\ ~Early' /\ successes' = successes
  <2>1. SUFFICES Cardinality(successes) + Unreported' <= Cardinality(acked')
    BY <1>1, <1>8 DEF AckInv
  <2>2. CASE Radio /\ Acknowledged
    <3>1. air # 0 /\ acked' = acked \cup {air}
      BY <2>2 DEF Acknowledged
    <3>2. air \notin acked
      <4>1. air \in Nat
        BY DEF TypeInv, TypeOK
      <4>2. \A a \in acked : a < air
        BY <3>1 DEF Numbered
      <4>3. QED BY <4>1, <4>2
    <3>3. Cardinality(acked') = Cardinality(acked) + 1
      BY <1>4, <3>1, <3>2, FS_AddElement
    <3>4. Unreported' \in {0, 1} /\ Unreported \in {0, 1}
      BY DEF Unreported
    <3>5. QED BY <1>4, <1>5, <1>8, <3>3, <3>4
  <2>3. CASE ~(Radio /\ Acknowledged)
    <3>1. acked' = acked /\ ("TX_DS" \in status' => "TX_DS" \in status)
      <4>1. CASE Effect
        BY <4>1 DEF Effect
      <4>2. CASE TransmitPayload
        BY <4>2 DEF TransmitPayload, WriteTxFifo, history
      <4>3. CASE Radio
        BY <2>3, <4>3 DEF Radio, Chip, Arrive, Launch, GiveUp, Abandon, Raise, history
      <4>4. QED BY <4>1, <4>2, <4>3, StepEffect
    <3>2. Unreported' <= Unreported
      <4>1. CASE app = "wr_clear" /\ WriteClear
        BY <4>1 DEF Unreported, WriteClear, WriteStatus, Flags
      <4>2. CASE app' = app \/ (app # "wr_clear" /\ app # "crashed")
        BY <3>1, <4>2 DEF Unreported
      <4>3. app = "crashed" => app' = app
        BY CrashIsFinal
      <4>4. QED BY <1>1, <4>1, <4>2, <4>3
    <3>3. Unreported' \in {0, 1} /\ Unreported \in {0, 1}
      BY DEF Unreported
    <3>4. QED BY <1>4, <1>5, <1>8, <3>1, <3>2, <3>3
  <2>4. QED BY <2>2, <2>3
<1>9. QED BY <1>1, <1>2, <1>6, <1>7, <1>8

(* However the interrupt thread interferes, and whatever flags an earlier   *)
(* process left, rf24_write returns TRUE at most once per acknowledgement. *)
THEOREM WritesDoNotOverreport == Spec => []OneSuccessPerAck
<1>1. Init => AckInv
  BY DEF Init, AckInv, Early
<1>2. TypeInv /\ AckInv => OneSuccessPerAck
  <2> SUFFICES ASSUME TypeInv, AckInv PROVE OneSuccessPerAck
    OBVIOUS
  <2>1. Cardinality(successes) \in Nat /\ Cardinality(acked) \in Nat
    <3>1. successes \subseteq 1 .. sends /\ acked \subseteq 1 .. sends /\ sends \in Nat
      BY DEF TypeInv, TypeOK
    <3>2. QED BY <3>1, Counted
  <2>2. CASE Early
    <3>1. Cardinality(successes) = 0
      BY <2>2, FS_EmptySet DEF AckInv
    <3>2. QED BY <2>1, <3>1 DEF OneSuccessPerAck
  <2>3. CASE ~Early
    <3>1. Unreported \in {0, 1}
      BY DEF Unreported
    <3>2. QED BY <2>1, <2>3, <3>1 DEF AckInv, OneSuccessPerAck
  <2>4. QED BY <2>2, <2>3
<1>3. QED BY <1>1, <1>2, AckStep, NumberedInit, NumberedStep, TypesKept, PTL DEF Spec

-----------------------------------------------------------------------------
(* Packets reach the application in order.                                 *)

Elements(s) == {s[i] : i \in DOMAIN s}
Increasing(s) == \A i, j \in DOMAIN s : i < j => s[i] < s[j]

LEMMA TailIncreases ==
  ASSUME NEW s \in Seq(Nat), s # <<>>, Increasing(s)
  PROVE  /\ Increasing(Tail(s)) /\ Elements(s) = {Head(s)} \cup Elements(Tail(s))
         /\ \A x \in Elements(Tail(s)) : Head(s) < x
         /\ Head(s) \in Nat
<1> DEFINE n == Len(s)  t == Tail(s)
<1>1. n \in Nat \ {0} /\ DOMAIN s = 1 .. n /\ Head(s) = s[1] /\ Head(s) \in Nat
  BY TailFacts
<1>2. t \in Seq(Nat) /\ DOMAIN t = 1 .. (n - 1) /\ \A i \in 1 .. (n - 1) : t[i] = s[i + 1]
  BY HeadTailProperties
<1> HIDE DEF n, t
<1>3. \A i \in 1 .. (n - 1) : i + 1 \in 1 .. n
  BY <1>1
<1>4. ASSUME NEW i \in 1 .. (n - 1), NEW j \in 1 .. (n - 1), i < j PROVE t[i] < t[j]
  <2>1. i + 1 \in DOMAIN s /\ j + 1 \in DOMAIN s /\ i + 1 < j + 1
    BY <1>1, <1>3, <1>4
  <2>2. s[i + 1] < s[j + 1]
    BY <2>1 DEF Increasing
  <2>3. QED BY <1>2, <2>2
<1>5. ASSUME NEW i \in 1 .. (n - 1) PROVE Head(s) < t[i]
  <2>1. 1 \in DOMAIN s /\ i + 1 \in DOMAIN s /\ 1 < i + 1
    BY <1>1, <1>3
  <2>2. s[1] < s[i + 1]
    BY <2>1 DEF Increasing
  <2>3. QED BY <1>1, <1>2, <2>2
<1>6. Elements(s) = {Head(s)} \cup Elements(t)
  <2>1. ASSUME NEW i \in 1 .. n PROVE s[i] \in {Head(s)} \cup Elements(t)
    <3>1. CASE i = 1
      BY <1>1, <3>1
    <3>2. CASE i # 1
      <4>1. i - 1 \in 1 .. (n - 1) /\ s[i] = t[i - 1]
        BY <1>1, <1>2, <3>2
      <4>2. QED BY <1>2, <4>1 DEF Elements
    <3>3. QED BY <3>1, <3>2
  <2>2. Head(s) \in Elements(s)
    BY <1>1 DEF Elements
  <2>3. ASSUME NEW i \in 1 .. (n - 1) PROVE t[i] \in Elements(s)
    BY <1>1, <1>2, <1>3 DEF Elements
  <2>4. QED BY <1>1, <1>2, <2>1, <2>2, <2>3 DEF Elements
<1>7. QED BY <1>1, <1>2, <1>4, <1>5, <1>6 DEF Increasing, Elements, t

LEMMA AppendIncreases ==
  ASSUME NEW s \in Seq(Nat), NEW x \in Nat, Increasing(s), \A y \in Elements(s) : y < x
  PROVE  Increasing(Append(s, x)) /\ Elements(Append(s, x)) = Elements(s) \cup {x}
<1> DEFINE n == Len(s)  t == Append(s, x)
<1>1. n \in Nat /\ DOMAIN s = 1 .. n /\ DOMAIN t = 1 .. (n + 1)
  OBVIOUS
<1>2. t[n + 1] = x /\ \A i \in 1 .. n : t[i] = s[i]
  OBVIOUS
<1> HIDE DEF n, t
<1>3. \A i \in 1 .. (n + 1) : i \in 1 .. n \/ i = n + 1
  BY <1>1
<1>4. \A i \in 1 .. n : i \in 1 .. (n + 1)
  BY <1>1
<1>5. ASSUME NEW i \in 1 .. (n + 1), NEW j \in 1 .. (n + 1), i < j PROVE t[i] < t[j]
  <2>1. i \in 1 .. n
    BY <1>1, <1>5
  <2>2. CASE j \in 1 .. n
    BY <1>1, <1>2, <1>5, <2>1, <2>2 DEF Increasing
  <2>3. CASE j = n + 1
    <3>1. s[i] \in Elements(s)
      BY <1>1, <2>1 DEF Elements
    <3>2. QED BY <1>2, <2>1, <2>3, <3>1
  <2>4. QED BY <1>3, <2>2, <2>3
<1>6. Elements(t) = Elements(s) \cup {x}
  <2>1. ASSUME NEW i \in 1 .. (n + 1) PROVE t[i] \in Elements(s) \cup {x}
    BY <1>1, <1>2, <1>3 DEF Elements
  <2>2. ASSUME NEW i \in 1 .. n PROVE s[i] \in Elements(t)
    BY <1>1, <1>2, <1>4 DEF Elements
  <2>3. x \in Elements(t)
    <3>1. n + 1 \in 1 .. (n + 1)
      BY <1>1
    <3>2. QED BY <1>1, <1>2, <3>1 DEF Elements
  <2>4. QED BY <1>1, <2>1, <2>2, <2>3 DEF Elements
<1>7. QED BY <1>1, <1>5, <1>6 DEF Increasing, t

(* Between tsq_create and the end of the process no call flushes the FIFO   *)
(* under the interrupt thread, so that the packet it looked at is there    *)
(* when it reads; and what waits in the queue is older than what waits in  *)
(* the chip.                                                               *)
NeverFlushes == Calls \cap {"stopListening", "resetcfg"} = {}

Flushing ==
  {"in_spi", "in_thread", "in_queue", "sd_reset", "sd_disable", "sd_status", "sd_flush_rx",
   "sd_flush_tx", "st_disable", "st_flush_tx", "st_flush_rx"}

Ordered ==
  /\ Increasing(packets) /\ Increasing(rxFifo)
  /\ \A x \in Elements(packets) \cup Elements(rxFifo) : last < x
  /\ \A x \in Elements(packets), y \in Elements(rxFifo) : x < y

OrderInv ==
  /\ created = "no" => packets = <<>> /\ last = 0
  /\ created # "no" => /\ app \notin Flushing
                       /\ isr \in {"width", "read"} => rxFifo # <<>>
                       /\ Ordered

Mapped == [InOrder!Next]_<<arrived, Pending, last>>

LEMMA SomeLost ==
  ASSUME arrived' = arrived, last' = last, Pending' \subseteq Pending
  PROVE  Mapped
BY DEF Mapped, InOrder!Next, InOrder!Lose

LEMMA PendingIs ==
  Pending = Elements(packets) \cup (IF created # "no" THEN Elements(rxFifo) ELSE {})
BY DEF Pending, Elements

LEMMA NumbersOnly ==
  ASSUME TypeInv
  PROVE  /\ packets \in Seq(Nat) /\ rxFifo \in Seq(Nat) /\ last \in Nat /\ arrived \in Nat
         /\ \A x \in Elements(rxFifo) : x \in 1 .. arrived
         /\ \A x \in Elements(packets) : x \in 0 .. arrived
<1>1. /\ rxFifo \in Seq(1 .. arrived) /\ packets \in Seq(0 .. arrived)
      /\ last \in 0 .. arrived /\ arrived \in Nat
  BY DEF TypeInv, TypeOK
<1>2. 1 .. arrived \subseteq Nat /\ 0 .. arrived \subseteq Nat
  BY <1>1
<1>3. packets \in Seq(Nat) /\ rxFifo \in Seq(Nat)
  BY <1>1, <1>2, SeqMonotonic
<1>4. QED BY <1>1, <1>3 DEF Elements

LEMMA RadioArrives ==
  ASSUME Radio
  PROVE  \/ Arrive
         \/ UNCHANGED <<rxFifo, arrived>>
BY DEF Radio, Chip, Launch, Acknowledged, GiveUp, Abandon, history

(* Before the queue exists nothing is pending. *)
LEMMA OrderStart ==
  ASSUME TypeInv, StartInv, OrderInv, created = "no", [Next]_vars
  PROVE  OrderInv' /\ Mapped
<1>1. packets = <<>> /\ last = 0 /\ Pending = {}
  BY PendingIs DEF OrderInv, Elements
<1>2. CASE CreateQueue
  <2>1. /\ app = "in_queue" /\ app' = "idle" /\ created' # "no" /\ packets' = <<>>
        /\ UNCHANGED <<rxFifo, arrived, isr, last>>
    BY <1>2 DEF CreateQueue, chipVars, isrVars, Keep
  <2>2. rxFifo = <<>> /\ isr \notin {"width", "read"}
    BY <2>1 DEF StartInv, Flushed, Cleared
  <2>3. OrderInv'
    BY <2>1, <2>2 DEF OrderInv, Ordered, Flushing, Elements, Increasing
  <2>4. Pending' = {}
    BY <2>1, <2>2 DEF Pending
  <2>5. QED BY <1>1, <2>1, <2>3, <2>4, SomeLost
<1>3. ASSUME UNCHANGED <<created, packets, last>>
      PROVE  OrderInv' /\ Pending' = {}
  BY <1>1, <1>3 DEF OrderInv, Pending
<1>4. CASE Radio
  <2>1. OrderInv' /\ Pending' = {} /\ last' = last
    BY <1>3, <1>4, RadioKeeps
  <2>2. CASE Arrive
    <3>1. arrived' = arrived + 1
      BY <2>2 DEF Arrive
    <3>2. QED BY <1>1, <2>1, <3>1 DEF Mapped, InOrder!Next, InOrder!Miss
  <2>3. CASE UNCHANGED <<rxFifo, arrived>>
    BY <1>1, <2>1, <2>3, SomeLost
  <2>4. QED BY <1>4, <2>2, <2>3, RadioArrives
<1>5. CASE ~CreateQueue /\ ~Radio
  <2>1. UNCHANGED <<created, packets, last>>
    <3>1. /\ app \in {"in_spi", "exit", "sd_disable", "sd_status"} \cup Cleared
          /\ isr \in {"none", "setup", "dead", "poll", "peek", "tx_ds"}
      BY DEF StartInv
    <3>2. CASE Isr
      <4>1. setup_isr_thread \/ radio_isr_thread \/ rf24_peekStatus \/ ClearTxDs
        BY <3>1, <3>2 DEF Isr, process_radio_interrupt, retrieve_packets, is_rx_fifo_empty,
                    get_dyn_payload_len, flush_rx, ReadPacket, MallocFails, ClearRxDr, IsrGo
      <4>2. packets' = packets
        BY <4>1 DEF setup_isr_thread, radio_isr_thread, rf24_peekStatus, ClearTxDs
      <4>3. QED BY <3>2, <4>2, IsrKeeps
    <3>3. CASE UNCHANGED vars
      BY <3>3 DEF vars, appVars
    <3>4. CASE SpiInit \/ CreateThread \/ setDefaults
      BY <3>4 DEF SpiInit, CreateThread, setDefaults, ResetConfig, DefaultsDisable,
                  DefaultsStatus, DefaultsFlushRx, DefaultsFlushTx, Go, Keep
    <3>5. ~(\/ Invoke \/ rf24_startListening \/ rf24_stopListening \/ transmit_payload
            \/ rf24_write \/ rf24_recv \/ rf24_getStatus \/ rf24_powerDown \/ rf24_powerUp)
      BY <3>1
      DEF Cleared, Go, Invoke, rf24_startListening, ListenConfig, ListenStatus, ListenEnable,
          rf24_stopListening, StopDisable, StopFlushTx, StopFlushRx,
          transmit_payload, TransmitDisable, TransmitConfig, TransmitPayload, TransmitEnable,
          TransmitPulse, rf24_write, WriteObserve, WriteTimeout, WriteResult, WriteClear,
          rf24_recv, ReceivePacket, ReceiveNothing, rf24_getStatus, rf24_powerDown, rf24_powerUp
    <3>6. ~UseNullQueue
      BY <3>1, NullUse DEF Cleared
    <3>7. QED
      BY <1>5, <3>2, <3>3, <3>4, <3>5, <3>6 DEF Next, App, rf24_init_radio
  <2>2. arrived' = arrived
    BY <1>5, StepEffect DEF Effect, TransmitPayload, WriteTxFifo, history
  <2>3. QED BY <1>1, <1>3, <2>1, <2>2, SomeLost
<1>6. QED BY <1>2, <1>4, <1>5

LEMMA OrderRadio ==
  ASSUME TypeInv, OrderInv, created # "no", Radio
  PROVE  OrderInv' /\ Mapped
<1>1. UNCHANGED <<app, isr, last, created, packets>>
  BY RadioKeeps
<1>2. CASE Arrive
  <2> DEFINE n == arrived + 1
  <2>1. arrived' = n /\ rxFifo' = Append(rxFifo, n)
    BY <1>2 DEF Arrive
  <2>2. /\ packets \in Seq(Nat) /\ rxFifo \in Seq(Nat) /\ last \in 0 .. arrived /\ arrived \in Nat
        /\ \A x \in Elements(packets) \cup Elements(rxFifo) : x \in 0 .. arrived
    BY NumbersOnly DEF TypeInv, TypeOK
  <2>3. n \in Nat /\ last < n /\ \A x \in Elements(packets) \cup Elements(rxFifo) : x < n
    BY <2>2
  <2>4. Increasing(rxFifo') /\ Elements(rxFifo') = Elements(rxFifo) \cup {n}
    BY <2>1, <2>2, <2>3, AppendIncreases DEF OrderInv, Ordered
  <2>5. rxFifo' # <<>>
    <3>1. Elements(rxFifo') # {}
      BY <2>4
    <3>2. QED BY <3>1 DEF Elements
  <2>6. OrderInv'
    BY <1>1, <2>3, <2>4, <2>5 DEF OrderInv, Ordered
  <2>7. Pending' = Pending \cup {n}
    <3>1. Pending' = Elements(packets') \cup (IF created' # "no" THEN Elements(rxFifo') ELSE {})
      BY DEF Pending, Elements
    <3>2. QED BY <1>1, <2>4, <3>1, PendingIs
  <2>8. QED BY <1>1, <2>1, <2>6, <2>7 DEF Mapped, InOrder!Next, InOrder!Arrive
<1>3. CASE UNCHANGED <<rxFifo, arrived>>
  <2>1. OrderInv'
    BY <1>1, <1>3 DEF OrderInv, Ordered
  <2>2. Pending' = Pending
    BY <1>1, <1>3 DEF Pending
  <2>3. QED BY <1>1, <1>3, <2>1, <2>2, SomeLost
<1>4. QED BY <1>2, <1>3, RadioArrives

(* The interrupt thread takes packets from the chip to the queue, or drops  *)
(* them.                                                                   *)
LEMMA OrderIsr ==
  ASSUME TypeInv, OrderInv, created # "no", Isr
  PROVE  OrderInv' /\ Mapped
<1>1. UNCHANGED <<app, last, created>>
  BY IsrKeeps
<1>2. app \notin Flushing /\ (isr \in {"width", "read"} => rxFifo # <<>>) /\ Ordered
  BY DEF OrderInv
<1>3. /\ packets \in Seq(Nat) /\ rxFifo \in Seq(Nat)
      /\ \A x \in Elements(rxFifo) : x \in Nat
  <2>1. \A x \in Elements(rxFifo) : x \in 1 .. arrived
    BY NumbersOnly
  <2>2. QED BY <2>1, NumbersOnly
<1>4. ASSUME UNCHANGED <<packets, rxFifo, arrived>>, isr' \in {"width", "read"} => rxFifo # <<>>
      PROVE  OrderInv' /\ Mapped
  <2>1. OrderInv'
    BY <1>1, <1>2, <1>4 DEF OrderInv, Ordered
  <2>2. Pending' = Pending
    BY <1>1, <1>4 DEF Pending
  <2>3. QED BY <1>1, <1>4, <2>1, <2>2, SomeLost
<1>5. CASE setup_isr_thread \/ radio_isr_thread \/ rf24_peekStatus \/ MallocFails
           \/ ClearRxDr \/ ClearTxDs
  <2>1. UNCHANGED <<packets, rxFifo, arrived>>
    <3>1. CASE setup_isr_thread
      BY <3>1 DEF setup_isr_thread, chipVars, fifos, history
    <3>2. CASE radio_isr_thread
      BY <3>2 DEF radio_isr_thread, TakeEdge, chipVars, fifos, history
    <3>3. CASE rf24_peekStatus \/ MallocFails
      BY <3>3 DEF rf24_peekStatus, MallocFails, chipVars
    <3>4. CASE ClearRxDr \/ ClearTxDs
      BY <3>4 DEF ClearRxDr, ClearTxDs, WriteStatus, fifos, history
    <3>5. QED BY <1>5, <3>1, <3>2, <3>3, <3>4
  <2>2. isr' \notin {"width", "read"}
    BY <1>5 DEF setup_isr_thread, radio_isr_thread, rf24_peekStatus, MallocFails, ClearRxDr,
                ClearTxDs, IsrGo, Retrieved
  <2>3. QED BY <1>4, <2>1, <2>2
<1>6. CASE is_rx_fifo_empty \/ get_dyn_payload_len
  <2>1. UNCHANGED <<packets, rxFifo, arrived>>
    BY <1>6 DEF is_rx_fifo_empty, get_dyn_payload_len, chipVars
  <2>2. isr' \in {"width", "read"} => rxFifo # <<>>
    BY <1>2, <1>6 DEF is_rx_fifo_empty, get_dyn_payload_len, IsrGo
  <2>3. QED BY <1>4, <2>1, <2>2
<1>7. CASE flush_rx
  <2>1. rxFifo' = <<>> /\ isr' = "fifo" /\ UNCHANGED <<packets, arrived>>
    BY <1>7 DEF flush_rx, FlushRx, IsrGo, history
  <2>2. Elements(rxFifo') = {} /\ Increasing(rxFifo')
    BY <2>1 DEF Elements, Increasing
  <2>3. OrderInv'
    BY <1>1, <1>2, <2>1, <2>2 DEF OrderInv, Ordered
  <2>4. Pending' \subseteq Pending
    BY <1>1, <2>1 DEF Pending
  <2>5. QED BY <1>1, <2>1, <2>3, <2>4, SomeLost
<1>8. CASE ReadPacket
  <2> DEFINE p == Head(rxFifo)
  <2>1. rxFifo # <<>> /\ isr' = "fifo"
    BY <1>2, <1>8 DEF ReadPacket, IsrGo
  <2>2. rxFifo' = Tail(rxFifo) /\ arrived' = arrived
    BY <1>8, <2>1 DEF ReadPacket, ReadRxFifo, history
  <2>3. packets' \in {packets, Append(packets, p)}
    BY <1>8, <2>1 DEF ReadPacket, OldestPacket
  <2>4. /\ Increasing(rxFifo') /\ Elements(rxFifo) = {p} \cup Elements(rxFifo')
        /\ p \in Nat /\ \A x \in Elements(rxFifo') : p < x
    BY <1>2, <1>3, <2>1, <2>2, TailIncreases DEF Ordered
  <2>5. \A x \in Elements(packets) : x < p
    BY <1>2, <2>4 DEF Ordered
  <2>6. Increasing(packets') /\ Elements(packets') \subseteq Elements(packets) \cup {p}
    <3>1. CASE packets' = packets
      BY <1>2, <3>1 DEF Ordered
    <3>2. CASE packets' = Append(packets, p)
      BY <1>2, <1>3, <2>4, <2>5, <3>2, AppendIncreases DEF Ordered
    <3>3. QED BY <2>3, <3>1, <3>2
  <2>7. Ordered'
    <3>1. \A x \in Elements(packets') \cup Elements(rxFifo') : last < x
      BY <1>2, <2>4, <2>6 DEF Ordered
    <3>2. \A x \in Elements(packets'), y \in Elements(rxFifo') : x < y
      BY <1>2, <2>4, <2>6 DEF Ordered
    <3>3. QED BY <1>1, <2>4, <2>6, <3>1, <3>2 DEF Ordered
  <2>8. OrderInv'
    BY <1>1, <1>2, <2>1, <2>7 DEF OrderInv
  <2>9. Pending' \subseteq Pending
    <3>1. Pending' = Elements(packets') \cup (IF created' # "no" THEN Elements(rxFifo') ELSE {})
      BY DEF Pending, Elements
    <3>2. QED BY <1>1, <2>4, <2>6, <3>1, PendingIs
  <2>10. QED BY <1>1, <2>2, <2>8, <2>9, SomeLost
<1>9. QED
  BY <1>5, <1>6, <1>7, <1>8 DEF Isr, process_radio_interrupt, retrieve_packets

(* A call keeps the FIFO, and rf24_recv takes the oldest packet.            *)
LEMMA OrderApp ==
  ASSUME TypeInv, NeverFlushes, OrderInv, created # "no", Invoke \/ App
  PROVE  OrderInv' /\ Mapped
<1>1. app \notin Flushing /\ (isr \in {"width", "read"} => rxFifo # <<>>) /\ Ordered
  BY DEF OrderInv
<1>2. ~rf24_init_radio /\ ~setDefaults /\ ~rf24_stopListening
  BY <1>1 DEF Flushing, Go, rf24_init_radio, SpiInit, CreateThread, CreateQueue, setDefaults,
              ResetConfig, DefaultsDisable, DefaultsStatus, DefaultsFlushRx, DefaultsFlushTx,
              rf24_stopListening, StopDisable, StopFlushTx, StopFlushRx
<1>3. app' \notin Flushing /\ UNCHANGED <<isr, created, rxFifo, arrived>>
  <2>1. CASE Invoke
    <3>1. PICK call \in Calls : app' = FirstStep(call)
      BY <2>1 DEF Invoke
    <3>2. call \in API \ {"stopListening", "resetcfg"}
      BY RF24Assumption DEF NeverFlushes
    <3>3. app' \notin Flushing
      BY <3>1, <3>2 DEF API, FirstStep, Flushing
    <3>4. QED BY <2>1, <3>3 DEF Invoke, chipVars, isrVars
  <2>2. CASE rf24_startListening
    BY <2>2 DEF rf24_startListening, ListenConfig, ListenStatus, ListenEnable, WriteConfig,
                WriteStatus, CeHigh, Go, Transmitted, Flushing, isrVars, fifos, history
  <2>3. CASE transmit_payload
    <3>1. app' \notin Flushing /\ UNCHANGED <<isr, created>>
      BY <2>3 DEF transmit_payload, TransmitDisable, TransmitConfig, TransmitPayload,
                  TransmitEnable, TransmitPulse, Go, Transmitted, Flushing, isrVars
    <3>2. CASE TransmitDisable \/ TransmitPulse
      BY <3>1, <3>2 DEF TransmitDisable, TransmitPulse, CeLow, fifos, history
    <3>3. CASE TransmitConfig
      BY <3>1, <3>3 DEF TransmitConfig, WriteConfig, fifos, history
    <3>4. CASE TransmitPayload
      BY <3>1, <3>4 DEF TransmitPayload, WriteTxFifo, history
    <3>5. CASE TransmitEnable
      BY <3>1, <3>5 DEF TransmitEnable, CeHigh, history
    <3>6. QED BY <2>3, <3>2, <3>3, <3>4, <3>5 DEF transmit_payload
  <2>4. CASE rf24_write \/ rf24_getStatus
    <3>1. CASE WriteObserve \/ WriteTimeout \/ WriteResult
      BY <3>1 DEF WriteObserve, WriteTimeout, WriteResult, Go, Flushing, isrVars, chipVars
    <3>2. CASE WriteClear
      BY <3>2 DEF WriteClear, WriteStatus, Go, Flushing, isrVars, fifos, history
    <3>3. CASE rf24_getStatus
      BY <3>3 DEF rf24_getStatus, WriteStatus, Go, Flushing, isrVars, fifos, history
    <3>4. QED BY <2>4, <3>1, <3>2, <3>3 DEF rf24_write
  <2>5. CASE rf24_recv
    BY <2>5 DEF rf24_recv, ReceivePacket, ReceiveNothing, Go, Flushing, isrVars, chipVars
  <2>6. CASE rf24_powerDown \/ rf24_powerUp
    BY <2>6 DEF rf24_powerDown, rf24_powerUp, WriteConfig, Go, Flushing, isrVars, fifos, history
  <2>7. QED BY <1>2, <2>1, <2>2, <2>3, <2>4, <2>5, <2>6 DEF App
<1>4. CASE ReceivePacket
  <2>1. packets # <<>> /\ last' = Head(packets) /\ packets' = Tail(packets)
    BY <1>4 DEF ReceivePacket
  <2>2. packets \in Seq(Nat)
    BY NumbersOnly
  <2>3. /\ Increasing(packets') /\ Elements(packets) = {last'} \cup Elements(packets')
        /\ \A x \in Elements(packets') : last' < x
    BY <1>1, <2>1, <2>2, TailIncreases DEF Ordered
  <2>4. \A y \in Elements(rxFifo) : last' < y
    BY <1>1, <2>3 DEF Ordered
  <2>5. Ordered'
    BY <1>1, <1>3, <2>3, <2>4 DEF Ordered
  <2>6. OrderInv'
    BY <1>1, <1>3, <2>5 DEF OrderInv
  <2>7. Pending = Elements(packets) \cup Elements(rxFifo)
    BY PendingIs
  <2>8. Pending' = Elements(packets') \cup Elements(rxFifo)
    BY <1>3 DEF Pending, Elements
  <2>9. last' \in Nat /\ last' \notin Elements(packets') \cup Elements(rxFifo)
    <3>1. last' \in Nat
      BY <2>1, <2>2, TailFacts
    <3>2. QED BY <2>3, <2>4, <3>1
  <2>10. \A x \in Pending : last' <= x
    <3>1. \A x \in Pending : x \in Nat
      <4>1. \A x \in Elements(packets) \cup Elements(rxFifo) : x \in 0 .. arrived
        BY NumbersOnly
      <4>2. QED BY <2>7, <4>1
    <3>2. \A x \in Pending : x = last' \/ last' < x
      BY <2>3, <2>4, <2>7
    <3>3. QED BY <2>9, <3>1, <3>2
  <2>11. last' \in Pending /\ Pending' = Pending \ {last'}
    BY <2>3, <2>7, <2>8, <2>9
  <2>12. QED BY <1>3, <2>6, <2>10, <2>11 DEF Mapped, InOrder!Next, InOrder!Deliver
<1>5. CASE ~ReceivePacket
  <2>1. UNCHANGED <<packets, last>>
    BY <1>2, <1>5 DEF App, Invoke, rf24_startListening, ListenConfig, ListenStatus, ListenEnable,
        transmit_payload, TransmitDisable, TransmitConfig, TransmitPayload, TransmitEnable,
        TransmitPulse, rf24_write, WriteObserve, WriteTimeout, WriteResult, WriteClear, rf24_recv,
        ReceiveNothing, rf24_getStatus, rf24_powerDown, rf24_powerUp, Go, Keep
  <2>2. OrderInv'
    BY <1>1, <1>3, <2>1 DEF OrderInv, Ordered
  <2>3. Pending' = Pending
    BY <1>3, <2>1 DEF Pending
  <2>4. QED BY <1>3, <2>1, <2>2, <2>3, SomeLost
<1>6. QED BY <1>4, <1>5

(* A process that ends delivers no more; the packet just read is lost. *)
LEMMA OrderNull ==
  ASSUME TypeInv, OrderInv, created # "no", UseNullQueue
  PROVE  OrderInv' /\ Mapped
<1>1. /\ app' = "crashed" /\ isr' = "dead"
      /\ UNCHANGED <<created, packets, last>>
  BY NullUse
<1>2. /\ arrived' = arrived
      /\ rxFifo' = rxFifo \/ (rxFifo # <<>> /\ rxFifo' = Tail(rxFifo))
  BY DEF UseNullQueue, ReadRxFifo, chipVars, history
<1>3. rxFifo \in Seq(Nat) /\ Ordered
  BY NumbersOnly DEF OrderInv
<1>4. Increasing(rxFifo') /\ Elements(rxFifo') \subseteq Elements(rxFifo)
  <2>1. CASE rxFifo' = rxFifo
    BY <1>3, <2>1 DEF Ordered
  <2>2. CASE rxFifo # <<>> /\ rxFifo' = Tail(rxFifo)
    BY <1>3, <2>2, TailIncreases DEF Ordered
  <2>3. QED BY <1>2, <2>1, <2>2
<1>5. OrderInv'
  <2>1. Ordered'
    BY <1>1, <1>3, <1>4 DEF Ordered
  <2>2. QED BY <1>1, <2>1 DEF OrderInv, Flushing
<1>6. Pending' \subseteq Pending
  <2>1. Pending' = Elements(packets') \cup (IF created' # "no" THEN Elements(rxFifo') ELSE {})
    BY DEF Pending, Elements
  <2>2. QED BY <1>1, <1>4, <2>1, PendingIs
<1>7. QED BY <1>1, <1>2, <1>5, <1>6, SomeLost

LEMMA OrderInit == Init => InOrder!Init /\ OrderInv
<1> SUFFICES ASSUME Init PROVE InOrder!Init /\ OrderInv
  OBVIOUS
<1>1. /\ arrived = 1 /\ app = "in_spi" /\ created = "no" /\ packets = <<>> /\ last = 0
  BY DEF Init
<1>2. Pending = {}
  BY <1>1 DEF Pending
<1>3. QED BY <1>1, <1>2 DEF InOrder!Init, OrderInv

LEMMA OrderStep ==
  ASSUME NeverFlushes, TypeInv, StartInv, OrderInv, [Next]_vars
  PROVE  OrderInv' /\ Mapped
<1>1. CASE created = "no"
  BY <1>1, OrderStart
<1>2. CASE created # "no" /\ (Invoke \/ App)
  BY <1>2, OrderApp
<1>3. CASE created # "no" /\ Isr
  BY <1>3, OrderIsr
<1>4. CASE created # "no" /\ Radio
  BY <1>4, OrderRadio
<1>5. CASE UNCHANGED vars
  <2>1. UNCHANGED <<app, isr, created, packets, rxFifo, arrived, last>>
    BY <1>5 DEF vars, chipVars, appVars, isrVars
  <2>2. OrderInv'
    BY <2>1 DEF OrderInv, Ordered
  <2>3. Pending' = Pending
    BY <2>1 DEF Pending
  <2>4. QED BY <2>1, <2>2, <2>3, SomeLost
<1>6. CASE created # "no" /\ UseNullQueue
  BY <1>6, OrderNull
<1>7. QED BY <1>1, <1>2, <1>3, <1>4, <1>5, <1>6 DEF Next

(* The driver implements LossyFifo for an application that does not flush   *)
(* the FIFO while the interrupt thread runs: the packets it gets are ones   *)
(* that arrived after tsq_create, in their order, none of them twice.      *)
THEOREM PacketsInOrder ==
  ASSUME NeverFlushes
  PROVE  Spec => InOrderSpec
<1> USE DEF Mapped
<1>1. TypeInv /\ StartInv /\ OrderInv /\ [Next]_vars
      => OrderInv' /\ [InOrder!Next]_<<arrived, Pending, last>>
  BY OrderStep
<1>2. QED BY <1>1, OrderInit, StartKept, PTL DEF Spec, InOrderSpec, InOrder!Spec

(* What the comment of rf24_recv says does hold for such an application:    *)
(* every packet in the queue is one the radio has received, for any fault, *)
(* whatever an earlier process left and however the two threads interleave. *)
THEOREM OnlyPacketsAreQueued ==
  ASSUME NeverFlushes
  PROVE  Spec => []OnlyReceivedPackets
<1>1. TypeInv /\ StartInv /\ OrderInv /\ [Next]_vars => OrderInv'
  BY OrderStep
<1>2. TypeInv /\ OrderInv => OnlyReceivedPackets
  <2> SUFFICES ASSUME TypeInv, OrderInv, NEW i \in DOMAIN packets
               PROVE  packets[i] # 0
    BY DEF OnlyReceivedPackets
  <2>1. last \in Nat /\ packets[i] \in Elements(packets)
    BY NumbersOnly DEF Elements
  <2>2. CASE created # "no"
    BY <2>1, <2>2 DEF OrderInv, Ordered
  <2>3. CASE created = "no"
    BY <2>3 DEF OrderInv
  <2>4. QED BY <2>2, <2>3
<1>3. QED BY <1>1, <1>2, OrderInit, StartKept, PTL DEF Spec

-----------------------------------------------------------------------------
(* No interrupt is lost on an application that only receives.              *)

OnlyReceives ==
  /\ Calls \cap {"send", "write"} = {}
  /\ "malloc" \notin Faults
  /\ ~UsedBefore

(* Without payloads RX_DR is the only flag, so that clearing it raises the  *)
(* IRQ pin, and the next packet makes an edge.                             *)
EdgeInv ==
  /\ txFifo = <<>> /\ air = 0 /\ status \subseteq {"RX_DR"}
  /\ app \notin {"tx_disable", "tx_config", "tx_payload", "tx_enable", "tx_pulse"}
  /\ tx_ok = FALSE /\ isr # "tx_ds"
  /\ isr = "poll" => status = {} \/ edge

LEMMA AppKeepsEdge ==
  ASSUME Invoke \/ App
  PROVE  edge' = edge /\ tx_ok' = tx_ok /\ isr' \in {isr, "setup"}
<1> USE DEF Go, isrVars
<1>1. CASE Invoke
  BY <1>1 DEF Invoke, chipVars
<1>2. CASE rf24_init_radio
  BY <1>2 DEF rf24_init_radio, SpiInit, CreateThread, CreateQueue, chipVars
<1>3. CASE setDefaults
  BY <1>3 DEF setDefaults, ResetConfig, DefaultsDisable, DefaultsStatus, DefaultsFlushRx,
              DefaultsFlushTx, WriteConfig, CeLow, WriteStatus, FlushRx, FlushTx
<1>4. CASE rf24_startListening
  BY <1>4 DEF rf24_startListening, ListenConfig, ListenStatus, ListenEnable, WriteConfig,
              WriteStatus, CeHigh
<1>5. CASE rf24_stopListening
  BY <1>5 DEF rf24_stopListening, StopDisable, StopFlushTx, StopFlushRx, CeLow, FlushTx, FlushRx
<1>6. CASE transmit_payload
  BY <1>6 DEF transmit_payload, TransmitDisable, TransmitConfig, TransmitPayload, TransmitEnable,
              TransmitPulse, WriteConfig, WriteTxFifo, CeHigh, CeLow
<1>7. CASE rf24_write
  BY <1>7 DEF rf24_write, WriteObserve, WriteTimeout, WriteResult, WriteClear, WriteStatus, chipVars
<1>8. CASE rf24_recv
  BY <1>8 DEF rf24_recv, ReceivePacket, ReceiveNothing, chipVars
<1>9. CASE rf24_getStatus \/ rf24_powerDown \/ rf24_powerUp
  BY <1>9 DEF rf24_getStatus, rf24_powerDown, rf24_powerUp, WriteStatus, WriteConfig
<1>10. QED
  BY <1>1, <1>2, <1>3, <1>4, <1>5, <1>6, <1>7, <1>8, <1>9 DEF App

LEMMA EdgeApp ==
  ASSUME OnlyReceives, TypeInv, EdgeInv, Invoke \/ App
  PROVE  EdgeInv'
<1>1. app' \notin {"tx_disable", "tx_config", "tx_payload", "tx_enable", "tx_pulse"}
  <2>1. CASE Invoke
    <3>1. PICK call \in Calls : app' = FirstStep(call)
      BY <2>1 DEF Invoke
    <3>2. call \in API \ {"send", "write"}
      BY RF24Assumption DEF OnlyReceives
    <3>3. QED BY <3>1, <3>2 DEF API, FirstStep
  <2>2. ~transmit_payload
    BY DEF EdgeInv, transmit_payload, TransmitDisable, TransmitConfig, TransmitPayload,
           TransmitEnable, TransmitPulse, Go
  <2>3. CASE App
    BY <2>2, <2>3
    DEF App, rf24_init_radio, SpiInit, CreateThread, CreateQueue, setDefaults, ResetConfig,
        DefaultsDisable, DefaultsStatus, DefaultsFlushRx, DefaultsFlushTx,
        rf24_startListening, ListenConfig, ListenStatus, ListenEnable, Transmitted,
        rf24_stopListening, StopDisable, StopFlushTx, StopFlushRx,
        rf24_write, WriteObserve, WriteTimeout, WriteResult, WriteClear, rf24_recv, ReceivePacket,
        ReceiveNothing, rf24_getStatus, rf24_powerDown, rf24_powerUp, Go
  <2>4. QED BY <2>1, <2>3
<1>2. Effect
  <2>1. ~TransmitPayload
    BY DEF EdgeInv, TransmitPayload, Go
  <2>2. QED BY <2>1, AppEffect
<1>3. txFifo' = <<>> /\ air' = 0 /\ status' \subseteq status
  BY <1>2, EmptySeq DEF Effect, EdgeInv
<1>4. edge' = edge /\ tx_ok' = tx_ok /\ isr' \in {isr, "setup"}
  BY AppKeepsEdge
<1>5. QED BY <1>1, <1>3, <1>4 DEF EdgeInv

LEMMA EdgeIsr ==
  ASSUME OnlyReceives, TypeInv, EdgeInv, Isr
  PROVE  EdgeInv'
<1>1. app' = app
  BY IsrKeeps
<1>2. txFifo' = <<>> /\ air' = 0 /\ status' \subseteq status
  BY IsrEffect, EmptySeq DEF Effect, EdgeInv
<1>3. CASE setup_isr_thread
  BY <1>1, <1>2, <1>3 DEF EdgeInv, setup_isr_thread, IsrGo
<1>4. CASE radio_isr_thread
  BY <1>1, <1>2, <1>4 DEF EdgeInv, radio_isr_thread, IsrGo
<1>5. CASE rf24_peekStatus
  <2>1. "TX_DS" \notin status /\ status' = status /\ edge' = edge
    BY <1>5 DEF EdgeInv, rf24_peekStatus, chipVars
  <2>2. tx_ok' = FALSE
    <3>1. tx_ok' = ("TX_DS" \in status)
      BY <1>5 DEF rf24_peekStatus
    <3>2. ("TX_DS" \in status) = FALSE
      BY <2>1
    <3>3. QED BY <3>1, <3>2, Zenon
  <2>3. isr' = IF "RX_DR" \in status THEN "fifo" ELSE "poll"
    BY <1>5, <2>1 DEF rf24_peekStatus, IsrGo, Retrieved
  <2>4. QED BY <1>1, <1>2, <2>1, <2>2, <2>3 DEF EdgeInv
<1>6. CASE is_rx_fifo_empty \/ get_dyn_payload_len \/ flush_rx \/ ReadPacket
  <2>1. tx_ok' = tx_ok /\ isr' \in {"clear", "width", "read", "flush", "fifo"}
    BY <1>6 DEF is_rx_fifo_empty, get_dyn_payload_len, flush_rx, ReadPacket, IsrGo
  <2>2. QED BY <1>1, <1>2, <2>1 DEF EdgeInv
<1>7. ~MallocFails /\ ~ClearTxDs
  BY DEF OnlyReceives, EdgeInv, MallocFails, ClearTxDs, IsrGo
<1>8. CASE ClearRxDr
  <2>1. tx_ok' = FALSE /\ isr' = "poll" /\ status' = status \ {"RX_DR"}
    BY <1>8 DEF EdgeInv, ClearRxDr, IsrGo, Retrieved, WriteStatus
  <2>2. QED BY <1>1, <1>2, <2>1 DEF EdgeInv
<1>9. QED
  BY <1>3, <1>4, <1>5, <1>6, <1>7, <1>8 DEF Isr, process_radio_interrupt, retrieve_packets

LEMMA EdgeRadio ==
  ASSUME OnlyReceives, TypeInv, EdgeInv, Radio
  PROVE  EdgeInv'
<1>1. UNCHANGED <<app, isr, tx_ok>>
  BY RadioKeeps
<1>2. CASE Arrive
  BY <1>1, <1>2 DEF EdgeInv, Arrive, Raise
<1>3. ~Launch /\ ~Acknowledged /\ ~GiveUp /\ ~Abandon
  BY DEF EdgeInv, Launch, Acknowledged, GiveUp, Abandon
<1>4. QED BY <1>2, <1>3 DEF Radio, Chip

(* The interrupt thread never sleeps next to a low IRQ pin, which makes no  *)
(* further edge, if nothing is sent and memory does not run out.     *)
THEOREM NoInterruptIsLost ==
  ASSUME OnlyReceives
  PROVE  Spec => []NoStuckInterrupt
<1>1. Init => EdgeInv
  BY DEF OnlyReceives, Init, EdgeInv
<1>2. TypeInv /\ EdgeInv /\ [Next]_vars => EdgeInv'
  <2> SUFFICES ASSUME TypeInv, EdgeInv, [Next]_vars PROVE EdgeInv'
    OBVIOUS
  <2>1. CASE UNCHANGED vars
    BY <2>1 DEF vars, chipVars, appVars, isrVars, EdgeInv
  <2>2. CASE UseNullQueue
    <3>1. UNCHANGED <<tx_ok>> /\ app' = "crashed" /\ isr' = "dead"
      BY <2>2, NullUse
    <3>2. txFifo' = <<>> /\ air' = 0 /\ status' \subseteq status
      BY <2>2, NullUse, TypeParts, CommandEffect, EmptySeq DEF TypeInv, Effect, EdgeInv
    <3>3. QED BY <3>1, <3>2 DEF EdgeInv
  <2>3. QED BY <2>1, <2>2, EdgeApp, EdgeIsr, EdgeRadio DEF Next
<1>3. EdgeInv => NoStuckInterrupt
  BY DEF EdgeInv, NoStuckInterrupt
<1>4. QED BY <1>1, <1>2, <1>3, TypesKept, PTL DEF Spec

=============================================================================
