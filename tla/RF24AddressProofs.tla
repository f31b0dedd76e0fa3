------------------------- MODULE RF24AddressProofs -------------------------
(***************************************************************************)
(* RF24Address for every set of addresses and all its calls, the changes   *)
(* of the width and back included: at the chip's width, which is five      *)
(* bytes, pipe 1 has the address that the packets carry, and when no       *)
(* peer's address is another one's read backwards, TX_ADDR is the address  *)
(* that was asked for.                                                     *)
(***************************************************************************)
EXTENDS RF24Address, TLAPS

(* No peer's address is another one's read backwards, its own excepted.    *)
NoMirrorImages ==
  \A a, b \in Peers : Holds(a, b, ADDR_WIDTH) => Holds(a, a, ADDR_WIDTH)

Width ==
  /\ addr_width \in IF up THEN 3 .. 5 ELSE {0}
  /\ fresh => up

(* What was written at the chip's width, which is the present one: TX_ADDR  *)
(* holds some peer's address and transmit_address the same one, forwards   *)
(* or backwards.                                                           *)
CacheOf(peer) ==
  /\ Holds(tx_addr, peer, addr_width)
  /\ Same(transmit_address, peer) \/ Holds(transmit_address, peer, addr_width)

Cache ==
  NoMirrorImages /\ fresh /\ addr_width = ADDR_WIDTH =>
    /\ \E peer \in Peers : CacheOf(peer)
    /\ SendsWhereAsked

Types ==
  /\ up \in BOOLEAN /\ listening \in BOOLEAN /\ fresh \in BOOLEAN
  /\ transmit_address \in Address /\ pipe0_address \in Address
  /\ pipe1_address \in Address /\ tx_addr \in Address /\ array \in Address
  /\ pipe0_asked \in Address /\ sent \in Address
  /\ rx_addr \in [0 .. 5 -> Address \cup Byte]
  /\ rx_addr[0] \in Address /\ rx_addr[1] \in Address
  /\ \A p \in 2 .. 5 : rx_addr[p] \in Byte
  /\ pipe0_status \subseteq {"SET", "AUTO_ACKED"}
  /\ pipe1_width \in {0} \cup 3 .. 5

Inv == Types /\ Width /\ Cache /\ AnswersArrive

-----------------------------------------------------------------------------
(* The loops over an array. *)

LEMMA LoopsTyped ==
  ASSUME addr_width \in 3 .. 5, NEW a \in Address, NEW b \in Address
  PROVE  reverse_address(a) \in Address /\ Copied(a, b) \in Address
<1>1. \A i \in Index : i <= addr_width => addr_width + 1 - i \in Index
  BY DEF Index, ADDR_WIDTH
<1>2. reverse_address(a) \in Address
  BY <1>1 DEF reverse_address, Address
<1>3. Copied(a, b) \in Address
  BY DEF Copied, Address
<1>4. QED BY <1>2, <1>3

LEMMA Loops ==
  ASSUME addr_width \in 3 .. 5, NEW a \in Address, NEW b \in Address
  PROVE  /\ Same(Copied(a, b), b)
         /\ Holds(reverse_address(a), a, addr_width)
         /\ Same(a, b) => Holds(reverse_address(a), b, addr_width)
         /\ Holds(a, b, addr_width) => Same(reverse_address(a), b)
<1>1. \A i \in Index : i <= addr_width =>
        /\ addr_width + 1 - i \in Index
        /\ addr_width + 1 - i <= addr_width
        /\ addr_width + 1 - (addr_width + 1 - i) = i
  BY DEF Index, ADDR_WIDTH
<1>2. Same(Copied(a, b), b)
  BY DEF Same, Copied
<1>3. \A i \in Index : i <= addr_width => reverse_address(a)[i] = a[addr_width + 1 - i]
  BY DEF reverse_address
<1>4. Holds(reverse_address(a), a, addr_width)
  BY <1>3 DEF Holds
<1>5. Same(a, b) => Holds(reverse_address(a), b, addr_width)
  BY <1>1, <1>3 DEF Same, Holds
<1>6. Holds(a, b, addr_width) => Same(reverse_address(a), b)
  BY <1>1, <1>3 DEF Same, Holds
<1>7. QED BY <1>2, <1>4, <1>5, <1>6

(* Holds looks at the first bytes of both. *)
LEMMA FirstBytes ==
  ASSUME addr_width \in 3 .. 5,
         NEW a \in Address, NEW b \in Address, NEW c \in Address, Same(a, b)
  PROVE  /\ Same(b, a)
         /\ Holds(b, c, addr_width) => Holds(a, c, addr_width)
         /\ Holds(c, b, addr_width) => Holds(c, a, addr_width)
<1>1. \A i \in Index : i <= addr_width =>
        addr_width + 1 - i \in Index /\ addr_width + 1 - i <= addr_width
  BY DEF Index, ADDR_WIDTH
<1>2. QED BY <1>1 DEF Same, Holds

LEMMA ZeroIsAnAddress ==
  Zero \in Address
BY RF24AddressAssumption DEF Zero, Address

-----------------------------------------------------------------------------
LEMMA Initially ==
  Init => Inv
<1> SUFFICES ASSUME Init PROVE Inv
  OBVIOUS
<1>1. PICK a \in Arrays, b \in Arrays :
        rx_addr = [p \in 0 .. 5 |-> IF p = 0 THEN a ELSE IF p = 1 THEN b ELSE b[1]]
  BY DEF Init
<1>2. a \in Address /\ b \in Address /\ b[1] \in Byte
  BY RF24AddressAssumption DEF Address, Index, ADDR_WIDTH
<1>3. /\ rx_addr \in [0 .. 5 -> Address \cup Byte]
      /\ rx_addr[0] \in Address /\ rx_addr[1] \in Address
      /\ \A p \in 2 .. 5 : rx_addr[p] \in Byte
  BY <1>1, <1>2
<1>4. Types
  BY <1>3, ZeroIsAnAddress, RF24AddressAssumption DEF Init, Types
<1>5. Width /\ Cache
  BY DEF Init, Width, Cache
<1>6. pipe1_width # ADDR_WIDTH
  BY DEF Init, ADDR_WIDTH
<1>7. AnswersArrive
  BY <1>6 DEF AnswersArrive
<1>8. QED BY <1>4, <1>5, <1>7 DEF Inv

(* Listening again, or not, changes nothing but pipe 0. *)
LEMMA Listening ==
  ASSUME Types, addr_width \in 3 .. 5,
         RestorePipe0 \/ UNCHANGED <<pipe0_address, rx_addr>>
  PROVE  /\ pipe0_address' \in Address
         /\ rx_addr' \in [0 .. 5 -> Address \cup Byte]
         /\ rx_addr'[0] \in Address
         /\ \A p \in 1 .. 5 : rx_addr'[p] = rx_addr[p]
<1>1. CASE RestorePipe0
  <2>1. pipe0_address' \in Address
    BY <1>1, LoopsTyped DEF RestorePipe0, Types
  <2>2. rx_addr' = [rx_addr EXCEPT ![0] = Copied(rx_addr[0], pipe0_address')]
    BY <1>1 DEF RestorePipe0
  <2>3. Copied(rx_addr[0], pipe0_address') \in Address
    BY <2>1, LoopsTyped DEF Types
  <2>4. QED BY <2>1, <2>2, <2>3 DEF Types
<1>2. CASE UNCHANGED <<pipe0_address, rx_addr>>
  BY <1>2 DEF Types
<1>3. QED BY <1>1, <1>2

(* The register is found written: a send goes where it was asked to go.    *)
LEMMA FoundWritten ==
  ASSUME NoMirrorImages, Types, addr_width \in 3 .. 5, addr_width = ADDR_WIDTH,
         NEW peer \in Peers, CacheOf(peer),
         NEW address \in Peers, Same(address, transmit_address)
  PROVE  Holds(tx_addr, address, addr_width)
<1>1. /\ address \in Address /\ peer \in Address
      /\ transmit_address \in Address /\ tx_addr \in Address
  BY RF24AddressAssumption DEF Types
<1>2. CASE Same(transmit_address, peer)
  <2>1. Same(address, peer)
    BY <1>2 DEF Same
  <2>2. QED BY <1>1, <2>1, FirstBytes DEF CacheOf
<1>3. CASE Holds(transmit_address, peer, addr_width)
  <2>1. Holds(address, peer, addr_width)
    BY <1>1, <1>3, FirstBytes
  <2>2. Holds(address, address, addr_width)
    BY <2>1 DEF NoMirrorImages
  <2>3. \A i \in Index : i <= addr_width =>
          /\ tx_addr[i] = peer[addr_width + 1 - i]
          /\ address[i] = peer[addr_width + 1 - i]
          /\ address[i] = address[addr_width + 1 - i]
    BY <2>1, <2>2 DEF CacheOf, Holds
  <2>4. QED BY <2>3 DEF Holds
<1>4. QED BY <1>2, <1>3 DEF CacheOf

(* The register is written. *)
LEMMA Written ==
  ASSUME Types, addr_width \in 3 .. 5, NEW address \in Peers, setTXAddress(address)
  PROVE  /\ fresh' = TRUE
         /\ transmit_address' \in Address /\ tx_addr' \in Address
         /\ Holds(transmit_address', address, addr_width)
         /\ Holds(tx_addr', address, addr_width)
<1> DEFINE copy == Copied(transmit_address, address)
<1>1. address \in Address /\ copy \in Address /\ Same(copy, address)
  BY RF24AddressAssumption, LoopsTyped, Loops DEF Types
<1>2. fresh' = TRUE /\ transmit_address' = reverse_address(copy)
  BY DEF setTXAddress
<1>3. transmit_address' \in Address
  BY <1>1, <1>2, LoopsTyped
<1>4. Holds(transmit_address', address, addr_width)
  BY <1>1, <1>2, Loops
<1>5. tx_addr' = Copied(tx_addr, transmit_address')
  BY DEF setTXAddress
<1>6. tx_addr' \in Address /\ Same(tx_addr', transmit_address')
  BY <1>3, <1>5, LoopsTyped, Loops DEF Types
<1>7. Holds(tx_addr', address, addr_width)
  BY <1>1, <1>3, <1>4, <1>6, FirstBytes
<1>8. QED BY <1>2, <1>3, <1>4, <1>6, <1>7

LEMMA SendKeeps ==
  ASSUME Inv, NEW address \in Peers, rf24_send(address)
  PROVE  Inv'
<1>1. addr_width \in 3 .. 5 /\ up /\ address \in Address
  BY RF24AddressAssumption DEF Inv, Width, rf24_send, Call
<1>2. RestorePipe0 \/ UNCHANGED <<pipe0_address, rx_addr>>
  BY DEF rf24_send, transmit_payload
<1>3. /\ sent' = address
      /\ UNCHANGED <<up, addr_width, listening, pipe1_address, pipe0_status, array,
                     pipe0_asked, pipe1_width>>
  BY DEF rf24_send, transmit_payload, Call
<1>4. /\ fresh' \in BOOLEAN /\ transmit_address' \in Address /\ tx_addr' \in Address
      /\ NoMirrorImages /\ fresh' /\ addr_width = ADDR_WIDTH =>
           /\ Holds(tx_addr', address, addr_width)
           /\ \/ Same(transmit_address', address)
              \/ Holds(transmit_address', address, addr_width)
  <2>1. CASE Same(address, transmit_address)
    <3>1. UNCHANGED <<transmit_address, tx_addr, fresh>>
      BY <2>1 DEF rf24_send
    <3>2. Same(transmit_address, address)
      BY <2>1 DEF Same
    <3>3. NoMirrorImages /\ fresh /\ addr_width = ADDR_WIDTH =>
            Holds(tx_addr, address, addr_width)
      BY <1>1, <2>1, FoundWritten DEF Inv, Cache
    <3>4. QED BY <3>1, <3>2, <3>3 DEF Inv, Types, Same, Holds
  <2>2. CASE ~Same(address, transmit_address)
    <3>1. setTXAddress(address)
      BY <2>2 DEF rf24_send
    <3>2. QED BY <1>1, <3>1, Written DEF Inv
  <2>3. QED BY <2>1, <2>2
<1>5. Types'
  BY <1>1, <1>2, <1>3, <1>4, Listening DEF Inv, Types
<1>6. NoMirrorImages /\ fresh' /\ addr_width = ADDR_WIDTH => SendsWhereAsked'
  BY <1>3, <1>4 DEF SendsWhereAsked, Holds
<1>7. NoMirrorImages /\ fresh' /\ addr_width = ADDR_WIDTH => CacheOf(address)'
  BY <1>3, <1>4 DEF CacheOf, Same, Holds
<1>8. AnswersArrive'
  BY <1>1, <1>2, <1>3, Listening DEF Inv, AnswersArrive, Holds
<1>9. Width'
  BY <1>1, <1>3 DEF Inv, Width
<1>10. Cache'
  BY <1>3, <1>6, <1>7 DEF Cache, NoMirrorImages, Holds
<1>11. QED BY <1>5, <1>8, <1>9, <1>10 DEF Inv

LEMMA AutoAckKeeps ==
  ASSUME Inv, rf24_autoACKPacket
  PROVE  Inv'
<1>1. addr_width \in 3 .. 5 /\ up
  BY DEF Inv, Width, rf24_autoACKPacket, Call
<1>2. /\ transmit_address' = reverse_address(transmit_address)
      /\ transmit_address' \in Address
  BY <1>1, LoopsTyped DEF Inv, Types, rf24_autoACKPacket
<1>3. Copied(rx_addr[0], transmit_address') \in Address
  BY <1>1, <1>2, LoopsTyped DEF Inv, Types
<1>4. /\ rx_addr' = [rx_addr EXCEPT ![0] = Copied(rx_addr[0], transmit_address')]
      /\ pipe0_status' = pipe0_status \cup {"AUTO_ACKED"}
      /\ UNCHANGED <<up, addr_width, listening, pipe0_address, pipe1_address, tx_addr,
                     array, fresh, asked>>
  BY DEF rf24_autoACKPacket, Call
<1>5. /\ rx_addr' \in [0 .. 5 -> Address \cup Byte]
      /\ rx_addr'[0] \in Address
      /\ \A p \in 1 .. 5 : rx_addr'[p] = rx_addr[p]
  BY <1>3, <1>4 DEF Inv, Types
<1>6. Types'
  BY <1>2, <1>4, <1>5 DEF Inv, Types, asked
<1>7. Cache'
  <2> SUFFICES ASSUME NoMirrorImages, fresh, addr_width = ADDR_WIDTH
               PROVE  (\E peer \in Peers : CacheOf(peer)') /\ SendsWhereAsked'
    BY <1>1, <1>4 DEF Cache, NoMirrorImages, Holds
  <2>1. PICK peer \in Peers : CacheOf(peer)
    BY DEF Inv, Cache
  <2>2. \/ Same(transmit_address', peer)
        \/ Holds(transmit_address', peer, addr_width)
    BY <1>1, <1>2, <2>1, Loops, RF24AddressAssumption DEF CacheOf, Inv, Types
  <2>3. CacheOf(peer)'
    BY <1>4, <2>1, <2>2 DEF CacheOf, Same, Holds
  <2>4. SendsWhereAsked'
    BY <1>4 DEF Inv, Cache, SendsWhereAsked, Holds, asked
  <2>5. QED BY <2>3, <2>4
<1>8. AnswersArrive'
  BY <1>4, <1>5 DEF Inv, AnswersArrive, Holds, asked
<1>9. Width'
  BY <1>4 DEF Inv, Width
<1>10. QED BY <1>6, <1>7, <1>8, <1>9 DEF Inv

(* What is not touched stays where it was. *)
LEMMA TransmitUntouched ==
  ASSUME Inv, UNCHANGED <<up, addr_width, transmit_address, tx_addr, fresh, sent>>
  PROVE  Width' /\ Cache'
BY DEF Inv, Width, Cache, CacheOf, SendsWhereAsked, NoMirrorImages, Same, Holds

LEMMA OpenKeeps ==
  ASSUME Inv, NEW address \in Address, NEW pipe \in 0 .. 5,
         rf24_setRXAddressOnPipe(address, pipe)
  PROVE  Inv'
<1>1. addr_width \in 3 .. 5 /\ up
  BY DEF Inv, Width, rf24_setRXAddressOnPipe, Call
<1>2. UNCHANGED <<up, addr_width, listening, transmit_address, tx_addr, fresh, sent>>
  BY DEF rf24_setRXAddressOnPipe, Call
<1>3. reverse_address(address) \in Address
  BY <1>1, LoopsTyped
<1>4. Width' /\ Cache'
  BY <1>2, TransmitUntouched
<1>5. CASE pipe = 0 /\ OpenPipe0(address)
  <2>1. /\ array' \in Address /\ pipe0_address' \in Address /\ pipe0_asked' = address
        /\ pipe0_status' = {"SET"}
        /\ UNCHANGED <<pipe1_address, pipe1_width>>
    BY <1>1, <1>3, <1>5, LoopsTyped DEF OpenPipe0, Inv, Types
  <2>2. rx_addr' = [rx_addr EXCEPT ![0] = Copied(rx_addr[0], array')]
    BY <1>5 DEF OpenPipe0
  <2>3. Copied(rx_addr[0], array') \in Address
    BY <1>1, <2>1, LoopsTyped DEF Inv, Types
  <2>4. Types'
    BY <1>2, <2>1, <2>2, <2>3 DEF Inv, Types
  <2>5. rx_addr'[1] = rx_addr[1]
    BY <2>2 DEF Inv, Types
  <2>6. AnswersArrive'
    BY <2>1, <2>5 DEF Inv, AnswersArrive, Holds
  <2>7. QED BY <1>4, <2>4, <2>6 DEF Inv
<1>6. CASE pipe = 1 /\ OpenPipe1(address)
  <2>1. /\ array' = reverse_address(address)
        /\ pipe1_address' = Copied(pipe1_address, address)
        /\ pipe1_width' = addr_width
        /\ rx_addr' = [rx_addr EXCEPT ![1] = Copied(rx_addr[1], array')]
        /\ UNCHANGED <<pipe0_status, pipe0_address, pipe0_asked>>
    BY <1>6 DEF OpenPipe1
  <2>2. /\ pipe1_address' \in Address /\ Same(pipe1_address', address)
        /\ Copied(rx_addr[1], array') \in Address
        /\ Same(Copied(rx_addr[1], array'), array')
    BY <1>1, <1>3, <2>1, LoopsTyped, Loops DEF Inv, Types
  <2>3. rx_addr'[1] = Copied(rx_addr[1], array')
    BY <2>1 DEF Inv, Types
  <2>4. Types'
    BY <1>1, <1>2, <1>3, <2>1, <2>2 DEF Inv, Types
  <2>5. Holds(array', address, addr_width)
    BY <1>1, <2>1, Loops
  <2>6. Holds(rx_addr'[1], address, addr_width)
    BY <1>1, <1>3, <2>1, <2>2, <2>3, <2>5, FirstBytes
  <2>7. Holds(rx_addr'[1], pipe1_address', addr_width)
    BY <1>1, <2>2, <2>3, <2>6, FirstBytes
  <2>8. AnswersArrive'
    BY <2>1, <2>7 DEF AnswersArrive, Holds
  <2>9. QED BY <1>4, <2>4, <2>8 DEF Inv
<1>7. CASE pipe \in 2 .. 5 /\ OpenOtherPipe(address, pipe)
  <2>1. /\ rx_addr' = [rx_addr EXCEPT ![pipe] = address[addr_width]]
        /\ array' = address
        /\ UNCHANGED <<pipe0_status, pipe0_address, pipe0_asked, pipe1_address, pipe1_width>>
    BY <1>7 DEF OpenOtherPipe
  <2>2. address[addr_width] \in Byte
    BY <1>1 DEF Address, Index, ADDR_WIDTH
  <2>3. Types'
    BY <1>2, <1>7, <2>1, <2>2 DEF Inv, Types
  <2>4. rx_addr'[1] = rx_addr[1]
    BY <1>7, <2>1 DEF Inv, Types
  <2>5. AnswersArrive'
    BY <2>1, <2>4 DEF Inv, AnswersArrive, Holds
  <2>6. QED BY <1>4, <2>3, <2>5 DEF Inv
<1>8. QED BY <1>5, <1>6, <1>7 DEF rf24_setRXAddressOnPipe

(* Another width makes the cache stale, and the same width does not.       *)
LEMMA WidthKeeps ==
  ASSUME Inv, NEW width \in 3 .. 5, SetWidth(width), up' = TRUE,
         listening' \in BOOLEAN,
         UNCHANGED <<transmit_address, pipe0_address, pipe1_address, pipe0_status,
                     tx_addr, rx_addr, array, asked>>
  PROVE  Inv'
<1>1. addr_width' = width /\ fresh' = (fresh /\ width = addr_width)
  BY DEF SetWidth
<1>2. Types'
  BY <1>1 DEF Inv, Types, asked
<1>3. Width'
  BY <1>1 DEF Width
<1>4. AnswersArrive'
  BY DEF Inv, AnswersArrive, Holds, asked
<1>5. Cache'
  <2>1. CASE ~fresh'
    BY <2>1 DEF Cache
  <2>2. CASE fresh'
    <3>1. fresh /\ addr_width' = addr_width
      BY <1>1, <2>2
    <3>2. QED
      BY <3>1 DEF Inv, Cache, CacheOf, SendsWhereAsked, NoMirrorImages, Same, Holds, asked
  <2>3. QED BY <2>1, <2>2
<1>6. QED BY <1>2, <1>3, <1>4, <1>5 DEF Inv

LEMMA Step ==
  ASSUME Inv, [Next]_vars
  PROVE  Inv'
<1>1. CASE UNCHANGED <<up, addr_width, transmit_address, pipe1_address, pipe0_status,
                       tx_addr, array, fresh, asked>>
           /\ listening' \in BOOLEAN
           /\ up /\ (RestorePipe0 \/ UNCHANGED <<pipe0_address, rx_addr>>)
  <2>1. addr_width \in 3 .. 5
    BY <1>1 DEF Inv, Width
  <2>2. Types'
    BY <1>1, <2>1, Listening DEF Inv, Types, asked
  <2>3. AnswersArrive'
    BY <1>1, <2>1, Listening DEF Inv, AnswersArrive, Holds, asked
  <2>4. Width' /\ Cache'
    BY <1>1, TransmitUntouched DEF asked
  <2>5. QED BY <2>2, <2>3, <2>4 DEF Inv
<1>2. CASE UNCHANGED vars
  <2>1. Types' /\ AnswersArrive'
    BY <1>2 DEF vars, driver, asked, Inv, Types, AnswersArrive, Holds
  <2>2. Width' /\ Cache'
    BY <1>2, TransmitUntouched DEF vars, driver, asked
  <2>3. QED BY <2>1, <2>2 DEF Inv
<1>3. CASE Next
  <2>1. CASE rf24_init_radio
    <3>1. up' = TRUE /\ setDefaults
      BY <2>1 DEF rf24_init_radio
    <3>2. PICK width \in 3 .. 5 : SetWidth(width)
      BY <3>1 DEF setDefaults
    <3>3. QED BY <3>1, <3>2, WidthKeeps DEF setDefaults
  <2>2. CASE rf24_resetcfg
    <3>1. up' = TRUE /\ setDefaults
      BY <2>2 DEF rf24_resetcfg, Call, Inv, Types
    <3>2. PICK width \in 3 .. 5 : SetWidth(width)
      BY <3>1 DEF setDefaults
    <3>3. QED BY <3>1, <3>2, WidthKeeps DEF setDefaults
  <2>3. CASE \E width \in Widths : rf24_setAddressWidth(width)
    <3>1. PICK width \in 3 .. 5 : rf24_setAddressWidth(width)
      BY <2>3 DEF rf24_setAddressWidth
    <3>2. up' = TRUE /\ listening' \in BOOLEAN
      BY <3>1 DEF rf24_setAddressWidth, Call, Inv, Types
    <3>3. QED BY <3>1, <3>2, WidthKeeps DEF rf24_setAddressWidth
  <2>4. CASE rf24_startListening
    BY <1>1, <2>4 DEF rf24_startListening, Call
  <2>5. CASE rf24_stopListening
    BY <1>1, <2>5 DEF rf24_stopListening, Call
  <2>6. CASE \E address \in Peers : rf24_send(address)
    BY <2>6, SendKeeps
  <2>7. CASE rf24_write
    BY <1>1, <2>7 DEF rf24_write, Call, transmit_payload, Inv, Types, asked
  <2>8. CASE rf24_autoACKPacket
    BY <2>8, AutoAckKeeps
  <2>9. CASE \E address \in Arrays \cup {array}, pipe \in 0 .. 5 :
               rf24_setRXAddressOnPipe(address, pipe)
    <3>1. Arrays \cup {array} \subseteq Address
      BY RF24AddressAssumption DEF Inv, Types
    <3>2. QED BY <2>9, <3>1, OpenKeeps
  <2>10. QED
    BY <1>3, <2>1, <2>2, <2>3, <2>4, <2>5, <2>6, <2>7, <2>8, <2>9 DEF Next
<1>4. QED BY <1>2, <1>3

LEMMA Invariance ==
  Spec => []Inv
<1>1. Inv /\ [Next]_vars => Inv'
  BY Step
<1>2. QED BY <1>1, Initially, PTL DEF Spec

(* The comparison in rf24_send may save the SPI call (rf24.c, 527-537):     *)
(* at the chip's width TX_ADDR is the address asked for, byte for byte.    *)
THEOREM PayloadsGoWhereAsked ==
  ASSUME NoMirrorImages
  PROVE  Spec => []SendsWhereAsked
<1>1. Inv => SendsWhereAsked
  BY DEF Inv, Cache, SendsWhereAsked
<1>2. QED BY <1>1, Invariance, PTL

(* The five bytes of the address in a packet are those that the chip has   *)
(* for pipe 1, when it was opened at the chip's width (rf24.c, 270-287 and *)
(* 530).                                                                   *)
THEOREM AnswersDoArrive ==
  Spec => []AnswersArrive
<1>1. Inv => AnswersArrive
  BY DEF Inv
<1>2. QED BY <1>1, Invariance, PTL

(* Every array and register holds five bytes, whichever bytes are copied.  *)
THEOREM AddressesTyped ==
  Spec => []TypeOK
<1>1. Inv => TypeOK
  BY DEF Inv, Types, Width, TypeOK
<1>2. QED BY <1>1, Invariance, PTL
=============================================================================
