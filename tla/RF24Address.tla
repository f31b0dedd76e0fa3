---------------------------- MODULE RF24Address ----------------------------
(***************************************************************************)
(* The addresses of rf24.c: the arrays in which the driver remembers them, *)
(* the chip's address registers, and the array from which the application  *)
(* opens pipes.  The API takes the most significant byte first, the chip   *)
(* the least significant, and reverse_address turns an array around in its *)
(* own place, the application's included.                                  *)
(*                                                                         *)
(* The chip's own address width is 5 throughout: rf24_setAddressWidth      *)
(* writes its argument to AW, which is 0x01, the address of EN_AA (a write *)
(* that RF24Config has), and nothing writes SETUP_AW.  The chip matches    *)
(* and sends all five bytes of an address, and what the driver writes of a *)
(* shorter one leaves the others as they were.                             *)
(*                                                                         *)
(* Only the application thread touches this state, so a call is one step;  *)
(* what a call does to the modes, the FIFOs and the other registers is in  *)
(* RF24 and RF24Config.                                                    *)
(***************************************************************************)
EXTENDS Naturals

CONSTANTS
  Byte,
  Peers,   \* the addresses the application sends to
  Arrays,  \* what it fills its array with to open a pipe
  Widths,  \* arguments of rf24_setAddressWidth
  Calls    \* the API functions that it calls

ADDR_WIDTH == 5
Index      == 1 .. ADDR_WIDTH
Address    == [Index -> Byte]
Zero       == [i \in Index |-> 0]   \* a global array before it is written

ASSUME RF24AddressAssumption ==
  /\ 0 \in Byte
  /\ Peers \subseteq Address
  /\ Arrays \subseteq Address
  /\ Widths \subseteq 0 .. 255

VARIABLES
  up,                \* rf24_init_radio has returned
  addr_width, listening,
  transmit_address, pipe0_address, pipe1_address,
  pipe0_status,      \* the set of its bits, SET and AUTO_ACKED
  tx_addr,           \* TX_ADDR
  rx_addr,           \* RX_ADDR_P0 and RX_ADDR_P1, and the one byte of the others
  array,             \* the application's array
  fresh,             \* transmit_address was written, and at the present width
  pipe0_asked,       \* the address that pipe 0 was opened with last
  pipe1_width,       \* addr_width when pipe 1 was opened last, or 0
  sent               \* the address that rf24_send was called with last

driver == <<addr_width, listening, transmit_address, pipe0_address, pipe1_address,
            pipe0_status>>
asked  == <<pipe0_asked, pipe1_width, sent>>
vars   == <<up, driver, tx_addr, rx_addr, array, fresh, asked>>

-----------------------------------------------------------------------------
(* Wrong: all five bytes, whatever the width. *)
ReverseAll(address) == [i \in Index |-> address[ADDR_WIDTH + 1 - i]]

reverse_address(address) ==
  [i \in Index |-> IF i <= addr_width THEN address[addr_width + 1 - i] ELSE address[i]]

(* memcpy of addr_width bytes, and a register write of as many: what is    *)
(* behind them stays, in the array and in the chip.                        *)
Copied(to, from) == [i \in Index |-> IF i <= addr_width THEN from[i] ELSE to[i]]

(* memcmp of addr_width bytes. *)
Same(a, b) == \A i \in Index : i <= addr_width => a[i] = b[i]

(* The registers have their reset values or what an earlier process wrote. *)
Init ==
  /\ up = FALSE
  /\ addr_width = 0
  /\ listening = FALSE
  /\ transmit_address = Zero /\ pipe0_address = Zero /\ pipe1_address = Zero
  /\ pipe0_status = {}
  /\ tx_addr \in Peers
  /\ \E a, b \in Arrays : rx_addr = [p \in 0 .. 5 |-> IF p = 0 THEN a ELSE IF p = 1 THEN b ELSE b[1]]
  /\ array \in Arrays
  /\ fresh = FALSE
  /\ pipe0_asked = Zero
  /\ pipe1_width = 0
  /\ sent = Zero

SetWidth(width) ==
  /\ addr_width' = width
  /\ fresh' = (fresh /\ width = addr_width)

setDefaults ==
  /\ SetWidth(5)
  /\ listening' = FALSE
  /\ UNCHANGED <<transmit_address, pipe0_address, pipe1_address, pipe0_status,
                 tx_addr, rx_addr, array, asked>>

rf24_init_radio ==
  /\ ~up
  /\ up' = TRUE
  /\ setDefaults

Call(name) == up /\ name \in Calls /\ UNCHANGED up

rf24_resetcfg == Call("resetcfg") /\ setDefaults

(* Wrong: any width is taken. *)
SetAddressWidthUnchecked(width) ==
  /\ Call("setAddressWidth")
  /\ SetWidth(width)
  /\ UNCHANGED <<listening, transmit_address, pipe0_address, pipe1_address,
                 pipe0_status, tx_addr, rx_addr, array, asked>>

(* The driver's width, and not the chip's. *)
rf24_setAddressWidth(width) ==
  /\ Call("setAddressWidth")
  /\ width \in 3 .. 5
  /\ SetWidth(width)
  /\ UNCHANGED <<listening, transmit_address, pipe0_address, pipe1_address,
                 pipe0_status, tx_addr, rx_addr, array, asked>>

(* Wrong: the register gets what the array held before. *)
setTXAddressStale(address) ==
  /\ transmit_address' = reverse_address(Copied(transmit_address, address))
  /\ tx_addr' = Copied(tx_addr, transmit_address)
  /\ fresh' = TRUE

setTXAddress(address) ==
  /\ transmit_address' = reverse_address(Copied(transmit_address, address))
  /\ tx_addr' = Copied(tx_addr, transmit_address')
  /\ fresh' = TRUE

(* The condition for restoring pipe 0's address is a constant: it always    *)
(* happens, and each time the array is turned around.                      *)
RestorePipe0 ==
  /\ pipe0_address' = reverse_address(pipe0_address)
  /\ rx_addr' = [rx_addr EXCEPT ![0] = Copied(@, pipe0_address')]

rf24_startListening ==
  /\ Call("startListening")
  /\ RestorePipe0
  /\ listening' = TRUE
  /\ UNCHANGED <<addr_width, transmit_address, pipe1_address, pipe0_status,
                 tx_addr, array, fresh, asked>>

rf24_stopListening ==
  /\ Call("stopListening")
  /\ listening' = FALSE
  /\ UNCHANGED <<addr_width, transmit_address, pipe0_address, pipe1_address,
                 pipe0_status, tx_addr, rx_addr, array, fresh, asked>>

(* transmit_payload, which listens again if it did before. *)
transmit_payload ==
  /\ IF listening THEN RestorePipe0 ELSE UNCHANGED <<pipe0_address, rx_addr>>
  /\ UNCHANGED <<addr_width, listening, pipe1_address, pipe0_status, array,
                 pipe0_asked, pipe1_width>>

(* The register is written unless transmit_address holds the address. *)
rf24_send(address) ==
  /\ Call("send")
  /\ IF Same(address, transmit_address)
     THEN UNCHANGED <<transmit_address, tx_addr, fresh>>
     ELSE setTXAddress(address)
  /\ sent' = address
  /\ transmit_payload

rf24_write ==
  /\ Call("write")
  /\ transmit_payload
  /\ UNCHANGED <<transmit_address, tx_addr, fresh, sent>>

(* What it writes to RX_PW_P0 is in RF24Config. *)
rf24_autoACKPacket ==
  /\ Call("autoACKPacket")
  /\ transmit_address' = reverse_address(transmit_address)
  /\ rx_addr' = [rx_addr EXCEPT ![0] = Copied(@, transmit_address')]
  /\ pipe0_status' = pipe0_status \cup {"AUTO_ACKED"}
  /\ UNCHANGED <<addr_width, listening, pipe0_address, pipe1_address, tx_addr,
                 array, fresh, asked>>

OpenPipe0(address) ==
  /\ pipe0_status' = {"SET"}
  /\ pipe0_address' = Copied(pipe0_address, address)
  /\ pipe0_asked' = address
  /\ array' = reverse_address(address)
  /\ rx_addr' = [rx_addr EXCEPT ![0] = Copied(@, array')]
  /\ UNCHANGED <<pipe1_address, pipe1_width>>

(* Wrong: the address is remembered after it was turned around. *)
OpenPipe1Reversed(address) ==
  /\ array' = reverse_address(address)
  /\ pipe1_address' = Copied(pipe1_address, array')
  /\ rx_addr' = [rx_addr EXCEPT ![1] = Copied(@, array')]
  /\ pipe1_width' = addr_width
  /\ UNCHANGED <<pipe0_status, pipe0_address, pipe0_asked>>

OpenPipe1(address) ==
  /\ pipe1_address' = Copied(pipe1_address, address)
  /\ array' = reverse_address(address)
  /\ rx_addr' = [rx_addr EXCEPT ![1] = Copied(@, array')]
  /\ pipe1_width' = addr_width
  /\ UNCHANGED <<pipe0_status, pipe0_address, pipe0_asked>>

(* Only the least significant byte; pipe234_lsb is never read. *)
OpenOtherPipe(address, pipe) ==
  /\ rx_addr' = [rx_addr EXCEPT ![pipe] = address[addr_width]]
  /\ array' = address
  /\ UNCHANGED <<pipe0_status, pipe0_address, pipe0_asked, pipe1_address, pipe1_width>>

rf24_setRXAddressOnPipe(address, pipe) ==
  /\ Call("setRXAddressOnPipe")
  /\ \/ pipe = 0 /\ OpenPipe0(address)
     \/ pipe = 1 /\ OpenPipe1(address)
     \/ pipe \in 2 .. 5 /\ OpenOtherPipe(address, pipe)
  /\ UNCHANGED <<addr_width, listening, transmit_address, tx_addr, fresh, sent>>

(* To open a pipe the application fills its array, or takes it as it is. *)
Next ==
  \/ rf24_init_radio
  \/ rf24_resetcfg
  \/ \E width \in Widths : rf24_setAddressWidth(width)
  \/ rf24_startListening
  \/ rf24_stopListening
  \/ \E address \in Peers : rf24_send(address)
  \/ rf24_write
  \/ rf24_autoACKPacket
  \/ \E address \in Arrays \cup {array}, pipe \in 0 .. 5 :
       rf24_setRXAddressOnPipe(address, pipe)

Spec == Init /\ [][Next]_vars
-----------------------------------------------------------------------------
TypeOK ==
  /\ up \in BOOLEAN /\ listening \in BOOLEAN
  /\ addr_width \in {0} \cup 3 .. 5
  /\ {transmit_address, pipe0_address, pipe1_address, tx_addr, array, pipe0_asked,
      sent, rx_addr[0], rx_addr[1]} \subseteq Address
  /\ \A p \in 2 .. 5 : rx_addr[p] \in Byte
  /\ pipe0_status \subseteq {"SET", "AUTO_ACKED"}
  /\ fresh \in BOOLEAN
  /\ pipe1_width \in {0} \cup 3 .. 5

(* A register holds the first bytes of an address, the last of them first. *)
Holds(register, address, width) ==
  \A i \in Index : i <= width => register[i] = address[width + 1 - i]

(* rf24_send compares with the array that it turned around itself, and      *)
(* rf24_autoACKPacket turns it around again; whether it then writes the    *)
(* register or not, TX_ADDR is the address that was asked for, all five    *)
(* bytes of it.  It takes addresses of which none is another one read      *)
(* backwards, and a comparison with what was written at the present width: *)
(* not with the zeros of the start, nor with an address of another width.  *)
(* Nothing is said while the driver's width is 3 or 4: then TX_ADDR keeps  *)
(* upper bytes of an earlier address, and the chip sends to all five.      *)
SendsWhereAsked ==
  fresh /\ addr_width = ADDR_WIDTH => Holds(tx_addr, sent, ADDR_WIDTH)

(* A peer that answers to the address in a packet, the five bytes of        *)
(* pipe1_address (530), reaches pipe 1 of the sender if that was opened    *)
(* last with the width at 5, whatever array it was opened from and however *)
(* the width changes after.  It says that the chip has what the driver     *)
(* remembers and not that this is what the application meant: from an      *)
(* array that an earlier call turned around, both have it backwards.       *)
AnswersArrive ==
  pipe1_width = ADDR_WIDTH => Holds(rx_addr[1], pipe1_address, ADDR_WIDTH)

-----------------------------------------------------------------------------
(* What a comment of the code says and the code does not do.               *)

(* rf24.c, 469: "If PIPE0's addr has been set and then changed by an        *)
(* autoACK, restore it".  What is restored is read backwards every second  *)
(* time.                                                                   *)
Pipe0Restored ==
  [][rf24_startListening /\ {"SET", "AUTO_ACKED"} \subseteq pipe0_status
     => Holds(rx_addr'[0], pipe0_asked, addr_width)]_vars
=============================================================================
