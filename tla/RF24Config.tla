----------------------------- MODULE RF24Config -----------------------------
(***************************************************************************)
(* The configuration that rf24.c keeps in the chip's registers and in its  *)
(* own variables.  A register is the set of its bits that are 1, so that   *)
(* the read-modify-writes of the code are set operations; bits that the    *)
(* code never changes are left out.  Only the application thread writes    *)
(* these registers, so a call is one step.                                 *)
(*                                                                         *)
(* Registers that hold addresses are in RF24Address, the FIFOs and flags   *)
(* in NRF24.                                                               *)
(***************************************************************************)
EXTENDS Naturals, FiniteSets

CONSTANTS
  PVariant,  \* the chip is an nRF24L01+
  Calls,     \* the API functions that the application calls
  Sizes,     \* arguments of rf24_setPayloadSize
  Pipes,     \* arguments of the functions of one pipe, some of 0 .. 5
  Retries,   \* arguments of rf24_setRetries
  Channels   \* arguments of rf24_setChannel

MAX_PAYLOAD_LEN == 32
MAX_CHANNEL == 127
AllPipes == 0 .. 5

Rates   == {"250KBPS", "1MBPS", "2MBPS"}
Levels  == {"MIN", "LOW", "HIGH", "MAX"}    \* RF24_PA_ERROR is taken for MAX
Lengths == {"DISABLED", "CRC_8", "CRC_16"}

ASSUME RF24ConfigAssumption ==
  /\ PVariant \in BOOLEAN
  /\ Sizes \subseteq 0 .. 255
  /\ Pipes \subseteq AllPipes
  /\ Retries \subseteq 0 .. 255
  /\ Channels \subseteq 0 .. 255

Asked == [rate : Rates, level : Levels, crc : Lengths, dynamic : BOOLEAN]

CRC_BITS == {"EN_CRC", "CRCO"}
RF_DR    == {"RF_DR_LOW", "RF_DR_HIGH"}
RF_PWR   == {"RF_PWR_LOW", "RF_PWR_HIGH"}
RST_CFG  == CRC_BITS \cup {"PWR_UP", "PRIM_RX"}

VARIABLES
  config, en_aa, en_rxaddr, rf_ch, setup_retr, rf_setup, feature, dynpd, rx_pw,
  activated,         \* the chip lets FEATURE and DYNPD be written
  payload_len, dyn_payloads_set, p_variant, wide_band,
  up,                \* rf24_init_radio has returned
  asked              \* what the application asked for last, or the defaults:
                     \* the settings, and dynamic payloads since the last reset

registers == <<config, en_aa, en_rxaddr, rf_ch, setup_retr, rf_setup, feature, dynpd,
               rx_pw, activated>>
globals   == <<payload_len, dyn_payloads_set, p_variant, wide_band, up>>
vars      == <<registers, globals, asked>>

Lesser(m, n) == IF m < n THEN m ELSE n

(* The bits of a byte. *)
Bits(byte) == {i \in 0 .. 7 : (byte \div 2 ^ i) % 2 = 1}

(* The chip when the process starts: after power-on, or as an earlier       *)
(* process left it that used this driver and was killed at any moment.     *)
Init ==
  /\ config \in SUBSET RST_CFG
  /\ en_aa \in {AllPipes, Bits(5) \cap AllPipes}
  /\ setup_retr \in {3, 95}
  /\ rf_ch \in {2, 76}
  /\ rf_setup \in SUBSET (RF_DR \cup RF_PWR)
  /\ ~(RF_DR \subseteq rf_setup)
  /\ PVariant \/ "RF_DR_LOW" \notin rf_setup
  /\ activated \in {PVariant, TRUE}
  /\ feature \in {{}, {"EN_DPL"}, {"EN_DPL", "EN_ACK_PAY"}}
  /\ activated \/ feature = {}
  /\ dynpd \in {{}, {0}, AllPipes}
  /\ feature = {} => dynpd = {}
  /\ \/ en_rxaddr = {0, 1} /\ rx_pw = [p \in AllPipes |-> 0]
     \/ en_rxaddr = AllPipes /\ rx_pw = [p \in AllPipes |-> MAX_PAYLOAD_LEN]
  /\ payload_len = 0
  /\ dyn_payloads_set = FALSE
  /\ p_variant = FALSE
  /\ wide_band = FALSE
  /\ up = FALSE
  /\ asked = [rate |-> "1MBPS", level |-> "MAX", crc |-> "CRC_16", dynamic |-> FALSE]

-----------------------------------------------------------------------------
(* Fields of the shared registers.                                         *)

(* A chip that is not a + has no low-rate bit. *)
Stored(setup) == IF PVariant THEN setup ELSE setup \ {"RF_DR_LOW"}

RateBits(rate) ==
  IF rate = "250KBPS" THEN {"RF_DR_LOW"}
  ELSE IF rate = "2MBPS" THEN {"RF_DR_HIGH"}
  ELSE {}

(* Wrong: the old rate's bit stays. *)
WithRateAdded(setup, rate) == Stored(setup \cup RateBits(rate))

WithRate(setup, rate) == Stored((setup \ RF_DR) \cup RateBits(rate))

LevelBits(level) ==
  IF level = "MIN" THEN {}
  ELSE IF level = "LOW" THEN {"RF_PWR_LOW"}
  ELSE IF level = "HIGH" THEN {"RF_PWR_HIGH"}
  ELSE RF_PWR

WithLevel(setup, level) == Stored((setup \ RF_PWR) \cup LevelBits(level))

CrcBits(length) ==
  IF length = "DISABLED" THEN {}
  ELSE IF length = "CRC_8" THEN {"EN_CRC"}
  ELSE CRC_BITS

WithCrc(bits, length) == (bits \ CRC_BITS) \cup CrcBits(length)

rf24_getDataRate ==
  LET dr == rf_setup \cap RF_DR
  IN  IF dr = {"RF_DR_LOW"} THEN "250KBPS"
      ELSE IF dr = {} THEN "1MBPS"
      ELSE IF dr = {"RF_DR_HIGH"} THEN "2MBPS"
      ELSE "ERROR"

rf24_getPALevel ==
  LET power == rf_setup \cap RF_PWR
  IN  IF power = RF_PWR THEN "MAX"
      ELSE IF power = {"RF_PWR_HIGH"} THEN "HIGH"
      ELSE IF power = {"RF_PWR_LOW"} THEN "LOW"
      ELSE "MIN"

(* Any other bits are read as DISABLED. *)
rf24_getCRCLength ==
  LET bits == config \cap CRC_BITS
  IN  IF bits = {"EN_CRC"} THEN "CRC_8"
      ELSE IF bits = CRC_BITS THEN "CRC_16"
      ELSE "DISABLED"

-----------------------------------------------------------------------------
(* rf24_setAddressWidth writes the width to the register that AW names,     *)
(* and AW is 1, the number of EN_AA.                                       *)
WriteAddressWidth(width) == en_aa' = Bits(width) \cap AllPipes

(* A chip that is not activated ignores the write. *)
WriteDynpd(pipes) == dynpd' = IF activated' THEN pipes ELSE dynpd

(* The rate is set to 250 kbps and read back to find out what the chip is. *)
setDefaults(bits) ==
  LET probe == WithRate(WithLevel(rf_setup, "MAX"), "250KBPS")
  IN  /\ setup_retr' = 95      \* ARD_1500u | ARC_15
      /\ p_variant' = (p_variant \/ "RF_DR_LOW" \in probe)
      /\ rf_setup' = WithRate(probe, "1MBPS")
      /\ config' = WithCrc(bits, "CRC_16")
      /\ wide_band' = FALSE
      /\ rf_ch' = Lesser(76, MAX_CHANNEL)
      /\ WriteAddressWidth(5)
      /\ asked' = [rate |-> "1MBPS", level |-> "MAX", crc |-> "CRC_16", dynamic |-> FALSE]
      /\ UNCHANGED <<en_rxaddr, feature, rx_pw, activated, payload_len, dyn_payloads_set>>
      /\ WriteDynpd({})

rf24_init_radio ==
  /\ ~up
  /\ setDefaults(config)
  /\ up' = TRUE

Call(name) == up /\ name \in Calls

rf24_resetcfg ==
  /\ Call("resetcfg")
  /\ setDefaults(RST_CFG)
  /\ UNCHANGED up

rf24_setAddressWidth(width) ==
  /\ Call("setAddressWidth")
  /\ width \in 3 .. 5
  /\ WriteAddressWidth(width)
  /\ UNCHANGED <<config, en_rxaddr, rf_ch, setup_retr, rf_setup, feature, dynpd, rx_pw,
                 activated, globals, asked>>

rf24_setDataRate(rate) ==
  /\ Call("setDataRate")
  /\ rf_setup' = WithRate(rf_setup, rate)
  /\ wide_band' = (rate = "2MBPS")
  /\ asked' = [asked EXCEPT !.rate = rate]
  /\ UNCHANGED <<config, en_aa, en_rxaddr, rf_ch, setup_retr, feature, dynpd, rx_pw,
                 activated, payload_len, dyn_payloads_set, p_variant, up>>

(* For RF24_ERROR it returns between the two assignments. *)
SetDataRateError ==
  /\ Call("setDataRateError")
  /\ wide_band' = FALSE
  /\ UNCHANGED <<registers, payload_len, dyn_payloads_set, p_variant, up, asked>>

rf24_setPALevel(level) ==
  /\ Call("setPALevel")
  /\ rf_setup' = WithLevel(rf_setup, level)
  /\ asked' = [asked EXCEPT !.level = level]
  /\ UNCHANGED <<config, en_aa, en_rxaddr, rf_ch, setup_retr, feature, dynpd, rx_pw,
                 activated, globals>>

rf24_setCRCLength(length) ==
  /\ Call("setCRCLength")
  /\ config' = WithCrc(config, length)
  /\ asked' = [asked EXCEPT !.crc = length]
  /\ UNCHANGED <<en_aa, en_rxaddr, rf_ch, setup_retr, rf_setup, feature, dynpd, rx_pw,
                 activated, globals>>

(* rf24_powerDown, rf24_powerUp, rf24_startListening and transmit_payload   *)
(* change the mode bits of CONFIG, each in its own way.                    *)
SetMode(name, bits) ==
  /\ Call(name)
  /\ config' = bits
  /\ UNCHANGED <<en_aa, en_rxaddr, rf_ch, setup_retr, rf_setup, feature, dynpd, rx_pw,
                 activated, globals, asked>>

Mode ==
  \/ SetMode("powerDown", config \ {"PWR_UP"})
  \/ SetMode("powerUp", config \cup {"PWR_UP"})
  \/ SetMode("startListening", config \cup {"PWR_UP", "PRIM_RX"})
  \/ SetMode("send", config \ {"PRIM_RX"})

rf24_setChannel(channel) ==
  /\ Call("setChannel")
  /\ rf_ch' = Lesser(channel, MAX_CHANNEL)
  /\ UNCHANGED <<config, en_aa, en_rxaddr, setup_retr, rf_setup, feature, dynpd,
                 rx_pw, activated, globals, asked>>

(* ARD is 16 and ARC is 1: the delay is shifted out of the byte. *)
rf24_setRetries(delay, count) ==
  /\ Call("setRetries")
  /\ setup_retr' = ((delay % 16) * 65536 + (count % 16) * 2) % 256
  /\ UNCHANGED <<config, en_aa, en_rxaddr, rf_ch, rf_setup, feature, dynpd, rx_pw,
                 activated, globals, asked>>

(* Wrong: no upper limit. *)
SetPayloadSizeUncapped(size) ==
  /\ Call("setPayloadSize")
  /\ payload_len' = size
  /\ UNCHANGED <<registers, dyn_payloads_set, p_variant, wide_band, up, asked>>

rf24_setPayloadSize(size) ==
  /\ Call("setPayloadSize")
  /\ payload_len' = Lesser(size, MAX_PAYLOAD_LEN)
  /\ UNCHANGED <<registers, dyn_payloads_set, p_variant, wide_band, up, asked>>

(* The pipe's payload width is set when it is opened. *)
rf24_setRXAddressOnPipe(pipe) ==
  /\ Call("setRXAddressOnPipe")
  /\ rx_pw' = [rx_pw EXCEPT ![pipe] = payload_len]
  /\ en_rxaddr' = en_rxaddr \cup {pipe}
  /\ UNCHANGED <<config, en_aa, rf_ch, setup_retr, rf_setup, feature, dynpd,
                 activated, globals, asked>>

(* Pipe 0 is to take the acknowledgement of a payload; its address is in    *)
(* RF24Address.                                                            *)
rf24_autoACKPacket ==
  /\ Call("autoACKPacket")
  /\ rx_pw' = [rx_pw EXCEPT ![0] = Lesser(payload_len, MAX_PAYLOAD_LEN)]
  /\ UNCHANGED <<config, en_aa, en_rxaddr, rf_ch, setup_retr, rf_setup, feature, dynpd,
                 activated, globals, asked>>

SetAutoAck(pipes) ==
  /\ en_aa' = pipes
  /\ UNCHANGED <<config, en_rxaddr, rf_ch, setup_retr, rf_setup, feature, dynpd, rx_pw,
                 activated, globals, asked>>

rf24_setAutoAckOnAll(enable) ==
  /\ Call("setAutoAckOnAll")
  /\ SetAutoAck(IF enable THEN AllPipes ELSE {})

(* Switching off keeps the pipe's bit where the code means to clear it. *)
rf24_setAutoAckOnPipe(pipe, enable) ==
  /\ Call("setAutoAckOnPipe")
  /\ SetAutoAck(IF enable THEN en_aa \cup {pipe} ELSE en_aa \cap {pipe})

(* Wrong: ACTIVATE is sent without a look at what the chip lets through. *)
EnableFeaturesBlindly(wanted) ==
  /\ activated' = (PVariant \/ ~activated)
  /\ feature' = IF activated' THEN wanted ELSE {}

(* The bits are written when none of them is set, once more after ACTIVATE  *)
(* when the first time had no effect.  ACTIVATE toggles, and a + chip does *)
(* not need it.                                                            *)
EnableFeatures(wanted) ==
  IF feature \cap wanted # {}
  THEN UNCHANGED <<feature, activated>>
  ELSE /\ activated' = TRUE
       /\ feature' = IF activated THEN feature \cup wanted ELSE wanted

rf24_enableDynamicPayloads ==
  /\ Call("enableDynamicPayloads")
  /\ EnableFeatures({"EN_DPL"})
  /\ WriteDynpd(AllPipes)
  /\ dyn_payloads_set' = TRUE
  /\ payload_len' = 32
  /\ asked' = [asked EXCEPT !.dynamic = TRUE]
  /\ UNCHANGED <<config, en_aa, en_rxaddr, rf_ch, setup_retr, rf_setup, rx_pw,
                 p_variant, wide_band, up>>

rf24_enableAckPayload ==
  /\ Call("enableAckPayload")
  /\ EnableFeatures({"EN_ACK_PAY", "EN_DPL"})
  /\ WriteDynpd(dynpd \cup {0})
  /\ UNCHANGED <<config, en_aa, en_rxaddr, rf_ch, setup_retr, rf_setup, rx_pw, globals, asked>>

Next ==
  \/ rf24_init_radio
  \/ rf24_resetcfg
  \/ \E width \in 0 .. 6 : rf24_setAddressWidth(width)
  \/ \E rate \in Rates : rf24_setDataRate(rate)
  \/ SetDataRateError
  \/ \E level \in Levels : rf24_setPALevel(level)
  \/ \E length \in Lengths : rf24_setCRCLength(length)
  \/ Mode
  \/ \E channel \in Channels : rf24_setChannel(channel)
  \/ \E delay, count \in Retries : rf24_setRetries(delay, count)
  \/ \E size \in Sizes : rf24_setPayloadSize(size)
  \/ \E pipe \in Pipes : rf24_setRXAddressOnPipe(pipe)
  \/ rf24_autoACKPacket
  \/ \E enable \in BOOLEAN :
       \/ rf24_setAutoAckOnAll(enable)
       \/ \E pipe \in Pipes : rf24_setAutoAckOnPipe(pipe, enable)
  \/ rf24_enableDynamicPayloads
  \/ rf24_enableAckPayload

Spec == Init /\ [][Next]_vars
-----------------------------------------------------------------------------
TypeOK ==
  /\ config \subseteq RST_CFG
  /\ en_aa \subseteq AllPipes
  /\ en_rxaddr \subseteq AllPipes
  /\ rf_ch \in 0 .. MAX_CHANNEL
  /\ setup_retr \in 0 .. 255
  /\ rf_setup \subseteq RF_DR \cup RF_PWR
  /\ feature \subseteq {"EN_DPL", "EN_ACK_PAY"}
  /\ dynpd \subseteq AllPipes
  /\ rx_pw \in [AllPipes -> 0 .. MAX_PAYLOAD_LEN]
  /\ payload_len \in 0 .. MAX_PAYLOAD_LEN
  /\ activated \in BOOLEAN /\ dyn_payloads_set \in BOOLEAN /\ p_variant \in BOOLEAN
  /\ wide_band \in BOOLEAN /\ up \in BOOLEAN
  /\ asked \in Asked

(* The fields that share RF_SETUP and CONFIG do not disturb one another,    *)
(* whatever an earlier process left there and however the mode changes:    *)
(* the getters tell what was asked for last, except that 250 kbps fails on *)
(* a chip that is not a +.  p_variant is true to the chip, and wide_band to *)
(* the rate except that it is lost with RF24_ERROR.                        *)
SettingsKept ==
  up =>
    /\ rf24_getDataRate = IF asked.rate = "250KBPS" /\ ~PVariant THEN "1MBPS" ELSE asked.rate
    /\ rf24_getPALevel = asked.level
    /\ rf24_getCRCLength = asked.crc
    /\ wide_band => asked.rate = "2MBPS"
    /\ p_variant = PVariant

(* After rf24_enableDynamicPayloads, and whatever is called then, every     *)
(* pipe of the chip has dynamic payloads, the feature they need is on and  *)
(* the driver knows it, although a chip may ignore the registers until      *)
(* ACTIVATE, which is a toggle, and an earlier process may have sent it     *)
(* (rf24.c, 592-606).  Without that call since rf24_init_radio or           *)
(* rf24_resetcfg only pipe 0 can have them, for acknowledgement payloads;   *)
(* dyn_payloads_set says nothing then, for rf24_resetcfg leaves it TRUE     *)
(* when it clears DYNPD "to match dyn_payloads_set" (422-423).             *)
DynamicPayloadsWork ==
  /\ dynpd # {} => activated /\ "EN_DPL" \in feature
  /\ up => IF asked.dynamic
           THEN dyn_payloads_set /\ dynpd = AllPipes
           ELSE dynpd \subseteq {0}

=============================================================================
