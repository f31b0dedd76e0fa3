-------------------------- MODULE RF24ConfigProofs --------------------------
(***************************************************************************)
(* What RF24Config keeps, for every chip and all arguments: the settings   *)
(* the application asked for, and dynamic payloads that the chip has on.   *)
(***************************************************************************)
EXTENDS RF24Config, TLAPS

(* A chip that is not a + never shows the low-rate bit, and p_variant says  *)
(* nothing before the radio was probed.                                    *)
Chip ==
  /\ rf_setup \subseteq RF_DR \cup RF_PWR
  /\ ~PVariant => "RF_DR_LOW" \notin rf_setup
  /\ ~up => p_variant = FALSE
  /\ asked \in Asked

SettingsInv == Chip /\ SettingsKept

(* FEATURE is written only on an activated chip, and never without EN_DPL;  *)
(* a chip that is not activated has no dynamic pipe.                       *)
FeatureInv ==
  /\ activated \in BOOLEAN /\ asked \in Asked
  /\ feature = {} \/ (activated /\ "EN_DPL" \in feature)
  /\ DynamicPayloadsWork

-----------------------------------------------------------------------------
(* The fields of RF_SETUP: what is written to one is read back, the other   *)
(* is not touched (rf24.c, 293-343).                                      *)

LEMMA RateField ==
  ASSUME NEW setup, NEW rate \in Rates,
         setup \subseteq RF_DR \cup RF_PWR
  PROVE  /\ WithRate(setup, rate) \subseteq RF_DR \cup RF_PWR
         /\ WithRate(setup, rate) \cap RF_DR = Stored(RateBits(rate))
         /\ WithRate(setup, rate) \cap RF_PWR = setup \cap RF_PWR
         /\ ~PVariant => "RF_DR_LOW" \notin WithRate(setup, rate)
BY RF24ConfigAssumption DEF WithRate, Stored, RateBits, Rates, RF_DR, RF_PWR

LEMMA LevelField ==
  ASSUME NEW setup, NEW level \in Levels,
         setup \subseteq RF_DR \cup RF_PWR,
         ~PVariant => "RF_DR_LOW" \notin setup
  PROVE  /\ WithLevel(setup, level) \subseteq RF_DR \cup RF_PWR
         /\ WithLevel(setup, level) \cap RF_PWR = LevelBits(level)
         /\ WithLevel(setup, level) \cap RF_DR = setup \cap RF_DR
         /\ ~PVariant => "RF_DR_LOW" \notin WithLevel(setup, level)
BY RF24ConfigAssumption DEF WithLevel, Stored, LevelBits, Levels, RF_DR, RF_PWR

LEMMA CrcField ==
  ASSUME NEW bits, NEW length \in Lengths
  PROVE  WithCrc(bits, length) \cap CRC_BITS = CrcBits(length)
BY DEF WithCrc, CrcBits, Lengths, CRC_BITS

(* What the getters return depends on their own field alone. *)
LEMMA Getters ==
  ASSUME NEW rate \in Rates, NEW level \in Levels
  PROVE  /\ rf_setup \cap RF_DR = Stored(RateBits(rate))
              => rf24_getDataRate = IF rate = "250KBPS" /\ ~PVariant THEN "1MBPS" ELSE rate
         /\ rf_setup \cap RF_PWR = LevelBits(level) => rf24_getPALevel = level
<1>1. rf_setup \cap RF_DR = Stored(RateBits(rate))
        => rf24_getDataRate = IF rate = "250KBPS" /\ ~PVariant THEN "1MBPS" ELSE rate
  <2>1. CASE rate = "250KBPS" BY <2>1 DEF rf24_getDataRate, Stored, RateBits
  <2>2. CASE rate = "1MBPS"   BY <2>2 DEF rf24_getDataRate, Stored, RateBits
  <2>3. CASE rate = "2MBPS"   BY <2>3 DEF rf24_getDataRate, Stored, RateBits
  <2>4. QED BY <2>1, <2>2, <2>3 DEF Rates
<1>2. rf_setup \cap RF_PWR = LevelBits(level) => rf24_getPALevel = level
  BY DEF rf24_getPALevel, LevelBits, Levels, RF_PWR
<1>3. QED BY <1>1, <1>2

-----------------------------------------------------------------------------
(* The call that resets the settings, from whatever was there before.      *)
LEMMA DefaultsEstablish ==
  ASSUME Chip, p_variant \in {FALSE, PVariant}, NEW bits, setDefaults(bits), up'
  PROVE  SettingsInv'
<1> DEFINE level == WithLevel(rf_setup, "MAX")
           probe == WithRate(level, "250KBPS")
<1>1. /\ level \subseteq RF_DR \cup RF_PWR
      /\ level \cap RF_PWR = LevelBits("MAX")
  BY LevelField DEF Chip, Levels
<1>2. /\ probe \subseteq RF_DR \cup RF_PWR
      /\ probe \cap RF_DR = Stored(RateBits("250KBPS"))
      /\ probe \cap RF_PWR = LevelBits("MAX")
  BY <1>1, RateField DEF Rates
<1>3. rf_setup' = WithRate(probe, "1MBPS")
  BY DEF setDefaults
<1>4. /\ rf_setup' \subseteq RF_DR \cup RF_PWR
      /\ rf_setup' \cap RF_DR = Stored(RateBits("1MBPS"))
      /\ rf_setup' \cap RF_PWR = LevelBits("MAX")
      /\ ~PVariant => "RF_DR_LOW" \notin rf_setup'
  <2>. HIDE DEF probe
  <2>. QED BY <1>2, <1>3, RateField DEF Rates
<1>5. "RF_DR_LOW" \in probe <=> PVariant
  <2>1. "RF_DR_LOW" \in probe <=> "RF_DR_LOW" \in probe \cap RF_DR
    BY DEF RF_DR
  <2>2. "RF_DR_LOW" \in Stored(RateBits("250KBPS")) <=> PVariant
    BY RF24ConfigAssumption DEF Stored, RateBits
  <2>. HIDE DEF probe
  <2>. QED BY <1>2, <2>1, <2>2
<1>6. p_variant' = PVariant
  <2>1. p_variant' = (p_variant \/ "RF_DR_LOW" \in probe)
    BY DEF setDefaults
  <2>. HIDE DEF probe
  <2>. QED BY <1>5, <2>1, RF24ConfigAssumption
<1>7. /\ asked' = [rate |-> "1MBPS", level |-> "MAX", crc |-> "CRC_16", dynamic |-> FALSE]
      /\ wide_band' = FALSE
      /\ config' = WithCrc(bits, "CRC_16")
  BY DEF setDefaults
<1>8. /\ asked'.rate = "1MBPS" /\ asked'.level = "MAX" /\ asked'.crc = "CRC_16"
      /\ asked' \in Asked
  BY <1>7 DEF Chip, Asked, Rates, Levels, Lengths
<1>9. Chip'
  BY <1>4, <1>8 DEF Chip
<1>10. rf24_getDataRate' = "1MBPS" /\ rf24_getPALevel' = "MAX"
  <2>1. rf24_getDataRate' = "1MBPS"
    BY <1>4 DEF rf24_getDataRate, Stored, RateBits
  <2>2. rf24_getPALevel' = "MAX"
    BY <1>4 DEF rf24_getPALevel, LevelBits
  <2>. QED BY <2>1, <2>2
<1>11. rf24_getCRCLength' = "CRC_16"
  <2>1. config' \cap CRC_BITS = CrcBits("CRC_16")
    BY <1>7, CrcField DEF Lengths
  <2>. QED BY <2>1 DEF rf24_getCRCLength, CrcBits, CRC_BITS
<1>12. SettingsKept'
  BY <1>6, <1>7, <1>8, <1>10, <1>11 DEF SettingsKept
<1>. QED BY <1>9, <1>12 DEF SettingsInv

-----------------------------------------------------------------------------
(* A step that changes none of the settings. *)
LEMMA SettingsUntouched ==
  ASSUME SettingsInv, up' = up, rf_setup' = rf_setup, wide_band' => wide_band,
         p_variant' = p_variant, config' \cap CRC_BITS = config \cap CRC_BITS,
         asked' \in Asked, asked'.rate = asked.rate, asked'.level = asked.level,
         asked'.crc = asked.crc
  PROVE  SettingsInv'
<1>1. /\ rf24_getDataRate' = rf24_getDataRate /\ rf24_getPALevel' = rf24_getPALevel
      /\ rf24_getCRCLength' = rf24_getCRCLength
  BY DEF rf24_getDataRate, rf24_getPALevel, rf24_getCRCLength
<1>2. Chip'
  BY DEF SettingsInv, Chip
<1>3. SettingsKept'
  BY <1>1 DEF SettingsInv, SettingsKept
<1>4. QED BY <1>2, <1>3 DEF SettingsInv

LEMMA SettingsInitially ==
  Init => SettingsInv
<1> SUFFICES ASSUME Init PROVE SettingsInv
  OBVIOUS
<1>1. asked \in Asked
  BY DEF Init, Asked, Rates, Levels, Lengths
<1>2. Chip
  BY <1>1 DEF Init, Chip
<1>3. SettingsKept
  BY DEF Init, SettingsKept
<1>4. QED BY <1>2, <1>3 DEF SettingsInv

(* Every call keeps the settings. *)
LEMMA SettingsStep ==
  ASSUME SettingsInv, [Next]_vars
  PROVE  SettingsInv'
<1>1. Chip /\ SettingsKept /\ asked \in Asked
  BY DEF SettingsInv, Chip
<1>2. CASE rf24_init_radio
  <2>1. p_variant \in {FALSE, PVariant}
    BY <1>1, <1>2 DEF rf24_init_radio, Chip
  <2>2. setDefaults(config) /\ up'
    BY <1>2 DEF rf24_init_radio
  <2>3. QED BY <1>1, <2>1, <2>2, DefaultsEstablish
<1>3. CASE rf24_resetcfg
  <2>1. p_variant \in {FALSE, PVariant}
    BY <1>1, <1>3 DEF rf24_resetcfg, Call, SettingsKept
  <2>2. setDefaults(RST_CFG) /\ up'
    BY <1>3 DEF rf24_resetcfg, Call
  <2>3. QED BY <1>1, <2>1, <2>2, DefaultsEstablish
<1>4. ASSUME NEW rate \in Rates, rf24_setDataRate(rate)
      PROVE  SettingsInv'
  <2>1. /\ rf_setup' = WithRate(rf_setup, rate) /\ wide_band' = (rate = "2MBPS")
        /\ asked' = [asked EXCEPT !.rate = rate]
        /\ UNCHANGED <<config, p_variant, up>> /\ up
    BY <1>4 DEF rf24_setDataRate, Call
  <2>2. /\ asked' \in Asked /\ asked'.rate = rate
        /\ asked'.level = asked.level /\ asked'.crc = asked.crc
    BY <1>1, <2>1 DEF Asked
  <2>3. /\ rf_setup' \subseteq RF_DR \cup RF_PWR
        /\ rf_setup' \cap RF_DR = Stored(RateBits(rate))
        /\ rf_setup' \cap RF_PWR = rf_setup \cap RF_PWR
        /\ ~PVariant => "RF_DR_LOW" \notin rf_setup'
    BY <1>1, <2>1, RateField DEF Chip
  <2>4. Chip'
    BY <1>1, <2>1, <2>2, <2>3 DEF Chip
  <2>5. rf24_getDataRate' = IF rate = "250KBPS" /\ ~PVariant THEN "1MBPS" ELSE rate
    <3>1. CASE rate = "250KBPS" BY <2>3, <3>1 DEF rf24_getDataRate, Stored, RateBits
    <3>2. CASE rate = "1MBPS"   BY <2>3, <3>2 DEF rf24_getDataRate, Stored, RateBits
    <3>3. CASE rate = "2MBPS"   BY <2>3, <3>3 DEF rf24_getDataRate, Stored, RateBits
    <3>4. QED BY <3>1, <3>2, <3>3 DEF Rates
  <2>6. rf24_getPALevel' = rf24_getPALevel /\ rf24_getCRCLength' = rf24_getCRCLength
    BY <2>1, <2>3 DEF rf24_getPALevel, rf24_getCRCLength
  <2>7. SettingsKept'
    BY <1>1, <2>1, <2>2, <2>5, <2>6 DEF SettingsKept
  <2>8. QED BY <2>4, <2>7 DEF SettingsInv
<1>5. ASSUME NEW level \in Levels, rf24_setPALevel(level)
      PROVE  SettingsInv'
  <2>1. /\ rf_setup' = WithLevel(rf_setup, level)
        /\ asked' = [asked EXCEPT !.level = level]
        /\ UNCHANGED <<config, p_variant, wide_band, up>> /\ up
    BY <1>5 DEF rf24_setPALevel, Call, globals
  <2>2. /\ asked' \in Asked /\ asked'.level = level
        /\ asked'.rate = asked.rate /\ asked'.crc = asked.crc
    BY <1>1, <2>1 DEF Asked
  <2>3. /\ rf_setup' \subseteq RF_DR \cup RF_PWR
        /\ rf_setup' \cap RF_PWR = LevelBits(level)
        /\ rf_setup' \cap RF_DR = rf_setup \cap RF_DR
        /\ ~PVariant => "RF_DR_LOW" \notin rf_setup'
    BY <1>1, <2>1, LevelField DEF Chip
  <2>4. Chip'
    BY <1>1, <2>1, <2>2, <2>3 DEF Chip
  <2>5. rf24_getPALevel' = level
    BY <2>3 DEF rf24_getPALevel, LevelBits, Levels, RF_PWR
  <2>6. rf24_getDataRate' = rf24_getDataRate /\ rf24_getCRCLength' = rf24_getCRCLength
    BY <2>1, <2>3 DEF rf24_getDataRate, rf24_getCRCLength
  <2>7. SettingsKept'
    BY <1>1, <2>1, <2>2, <2>5, <2>6 DEF SettingsKept
  <2>8. QED BY <2>4, <2>7 DEF SettingsInv
<1>6. ASSUME NEW length \in Lengths, rf24_setCRCLength(length)
      PROVE  SettingsInv'
  <2>1. /\ config' = WithCrc(config, length)
        /\ asked' = [asked EXCEPT !.crc = length]
        /\ UNCHANGED <<rf_setup, p_variant, wide_band, up>> /\ up
    BY <1>6 DEF rf24_setCRCLength, Call, globals
  <2>2. /\ asked' \in Asked /\ asked'.crc = length
        /\ asked'.rate = asked.rate /\ asked'.level = asked.level
    BY <1>1, <2>1 DEF Asked
  <2>3. rf24_getCRCLength' = length
    <3>1. config' \cap CRC_BITS = CrcBits(length)
      BY <2>1, CrcField
    <3>. QED BY <3>1 DEF rf24_getCRCLength, CrcBits, CRC_BITS, Lengths
  <2>4. rf24_getDataRate' = rf24_getDataRate /\ rf24_getPALevel' = rf24_getPALevel
    BY <2>1 DEF rf24_getDataRate, rf24_getPALevel
  <2>5. Chip'
    BY <1>1, <2>1, <2>2 DEF Chip
  <2>6. SettingsKept'
    BY <1>1, <2>1, <2>2, <2>3, <2>4 DEF SettingsKept
  <2>7. QED BY <2>5, <2>6 DEF SettingsInv
<1>7. CASE Mode
  <2>1. config' \cap CRC_BITS = config \cap CRC_BITS
    BY <1>7 DEF Mode, SetMode, CRC_BITS
  <2>2. UNCHANGED <<rf_setup, globals, asked>>
    BY <1>7 DEF Mode, SetMode
  <2>3. QED BY <1>1, <2>1, <2>2, SettingsUntouched DEF globals
<1>8. ASSUME NEW size \in Sizes, rf24_setPayloadSize(size)
      PROVE  SettingsInv'
  <2>1. UNCHANGED <<rf_setup, config, wide_band, p_variant, up, asked>>
    BY <1>8 DEF rf24_setPayloadSize, registers
  <2>2. QED BY <1>1, <2>1, SettingsUntouched
<1>9. CASE UNCHANGED <<config, rf_setup, wide_band, p_variant, up, asked>>
  BY <1>1, <1>9, SettingsUntouched
<1>10. CASE UNCHANGED vars
  BY <1>9, <1>10 DEF vars, registers, globals
<1>11. CASE Next
  <2>1. CASE \E width \in 0 .. 6 : rf24_setAddressWidth(width)
    BY <1>9, <2>1 DEF rf24_setAddressWidth, globals
  <2>2. CASE SetDataRateError
    <3>1. ~wide_band' /\ UNCHANGED <<config, rf_setup, p_variant, up, asked>>
      BY <2>2 DEF SetDataRateError, registers
    <3>2. QED BY <1>1, <3>1, SettingsUntouched
  <2>3. CASE \E delay, count \in Retries : rf24_setRetries(delay, count)
    BY <1>9, <2>3 DEF rf24_setRetries, globals
  <2>4. CASE rf24_autoACKPacket \/ \E pipe \in Pipes : rf24_setRXAddressOnPipe(pipe)
    BY <1>9, <2>4 DEF rf24_autoACKPacket, rf24_setRXAddressOnPipe, globals
  <2>5. CASE \E enable \in BOOLEAN :
               \/ rf24_setAutoAckOnAll(enable)
               \/ \E pipe \in Pipes : rf24_setAutoAckOnPipe(pipe, enable)
    BY <1>9, <2>5 DEF rf24_setAutoAckOnAll, rf24_setAutoAckOnPipe, SetAutoAck, globals
  <2>9. CASE \E channel \in Channels : rf24_setChannel(channel)
    BY <1>9, <2>9 DEF rf24_setChannel, globals
  <2>6. CASE rf24_enableDynamicPayloads
    <3>1. /\ UNCHANGED <<config, rf_setup, wide_band, p_variant, up>>
          /\ asked' = [asked EXCEPT !.dynamic = TRUE]
      BY <2>6 DEF rf24_enableDynamicPayloads
    <3>2. /\ asked' \in Asked /\ asked'.rate = asked.rate
          /\ asked'.level = asked.level /\ asked'.crc = asked.crc
      BY <1>1, <3>1 DEF Asked
    <3>3. QED BY <1>1, <3>1, <3>2, SettingsUntouched
  <2>7. CASE rf24_enableAckPayload
    BY <1>9, <2>7 DEF rf24_enableAckPayload, globals
  <2>8. QED
    BY <1>2, <1>3, <1>4, <1>5, <1>6, <1>7, <1>8, <1>11,
       <2>1, <2>2, <2>3, <2>4, <2>5, <2>6, <2>7, <2>9 DEF Next
<1>12. QED BY <1>10, <1>11

(* The settings survive every sequence of calls: what was asked for last is *)
(* what the getters tell, on either chip (rf24.c, 293-357, 390-441).        *)
THEOREM SettingsAreKept ==
  Spec => []SettingsKept
<1>1. SettingsInv => SettingsKept
  BY DEF SettingsInv
<1>2. SettingsInv /\ [Next]_vars => SettingsInv'
  BY SettingsStep
<1>3. QED BY <1>1, <1>2, SettingsInitially, PTL DEF Spec

-----------------------------------------------------------------------------
(* Dynamic payloads.                                                       *)

LEMMA FeatureInitially ==
  Init => FeatureInv
<1> SUFFICES ASSUME Init PROVE FeatureInv
  OBVIOUS
<1>1. activated \in BOOLEAN
  BY RF24ConfigAssumption DEF Init
<1>2. feature = {} \/ (activated /\ "EN_DPL" \in feature)
  BY DEF Init
<1>3. DynamicPayloadsWork
  BY <1>2 DEF Init, DynamicPayloadsWork
<1>4. asked \in Asked
  BY DEF Init, Asked, Rates, Levels, Lengths
<1>5. QED BY <1>1, <1>2, <1>3, <1>4 DEF FeatureInv

(* ACTIVATE is sent at the right moment, whatever the chip has seen before. *)
LEMMA FeaturesOn ==
  ASSUME FeatureInv, NEW wanted, "EN_DPL" \in wanted, EnableFeatures(wanted)
  PROVE  activated' = TRUE /\ "EN_DPL" \in feature'
<1>1. CASE feature \cap wanted # {}
  BY <1>1 DEF FeatureInv, EnableFeatures
<1>2. CASE feature \cap wanted = {}
  BY <1>2 DEF FeatureInv, EnableFeatures
<1>3. QED BY <1>1, <1>2

LEMMA FeatureStep ==
  ASSUME FeatureInv, [Next]_vars
  PROVE  FeatureInv'
<1>1. ASSUME UNCHANGED <<activated, feature, dynpd, dyn_payloads_set, up>>,
             asked' \in Asked, asked'.dynamic = asked.dynamic
      PROVE  FeatureInv'
  BY <1>1 DEF FeatureInv, DynamicPayloadsWork
<1>2. ASSUME NEW bits, setDefaults(bits)
      PROVE  FeatureInv'
  <2>1. /\ UNCHANGED <<activated, feature, dyn_payloads_set>> /\ WriteDynpd({})
        /\ asked' = [rate |-> "1MBPS", level |-> "MAX", crc |-> "CRC_16", dynamic |-> FALSE]
    BY <1>2 DEF setDefaults
  <2>2. asked' \in Asked /\ asked'.dynamic = FALSE
    BY <2>1 DEF Asked, Rates, Levels, Lengths
  <2>3. dynpd' = {}
    <3>1. CASE activated
      BY <2>1, <3>1 DEF WriteDynpd
    <3>2. CASE ~activated
      BY <2>1, <3>2 DEF WriteDynpd, FeatureInv, DynamicPayloadsWork
    <3>3. QED BY <3>1, <3>2
  <2>4. QED BY <2>1, <2>2, <2>3 DEF FeatureInv, DynamicPayloadsWork
<1>3. CASE rf24_init_radio
  BY <1>2, <1>3 DEF rf24_init_radio
<1>4. CASE rf24_resetcfg
  BY <1>2, <1>4 DEF rf24_resetcfg
<1>5. CASE rf24_enableDynamicPayloads
  <2>1. EnableFeatures({"EN_DPL"})
    BY <1>5 DEF rf24_enableDynamicPayloads
  <2>2. activated' = TRUE /\ "EN_DPL" \in feature'
    BY <2>1, FeaturesOn
  <2>3. asked' \in Asked /\ asked'.dynamic = TRUE /\ dyn_payloads_set' = TRUE
    BY <1>5 DEF rf24_enableDynamicPayloads, FeatureInv, Asked
  <2>4. dynpd' = AllPipes
    BY <1>5, <2>2 DEF rf24_enableDynamicPayloads, WriteDynpd
  <2>5. QED BY <2>2, <2>3, <2>4 DEF FeatureInv, DynamicPayloadsWork
<1>6. CASE rf24_enableAckPayload
  <2>1. EnableFeatures({"EN_ACK_PAY", "EN_DPL"})
    BY <1>6 DEF rf24_enableAckPayload
  <2>2. activated' = TRUE /\ "EN_DPL" \in feature'
    BY <2>1, FeaturesOn
  <2>3. UNCHANGED <<dyn_payloads_set, up, asked>> /\ up /\ dynpd' = dynpd \cup {0}
    BY <1>6, <2>2 DEF rf24_enableAckPayload, globals, Call, WriteDynpd
  <2>4. asked.dynamic => dynpd' = AllPipes
    BY <2>3 DEF FeatureInv, DynamicPayloadsWork, AllPipes
  <2>5. QED BY <2>2, <2>3, <2>4 DEF FeatureInv, DynamicPayloadsWork
<1>7. CASE UNCHANGED vars
  BY <1>1, <1>7 DEF vars, registers, globals, FeatureInv
<1>8. CASE Next
  <2>1. CASE \E width \in 0 .. 6 : rf24_setAddressWidth(width)
    BY <1>1, <2>1 DEF rf24_setAddressWidth, globals, FeatureInv
  <2>2. CASE SetDataRateError
    BY <1>1, <2>2 DEF SetDataRateError, registers, FeatureInv
  <2>3. CASE \E delay, count \in Retries : rf24_setRetries(delay, count)
    BY <1>1, <2>3 DEF rf24_setRetries, globals, FeatureInv
  <2>4. CASE rf24_autoACKPacket \/ \E pipe \in Pipes : rf24_setRXAddressOnPipe(pipe)
    BY <1>1, <2>4 DEF rf24_autoACKPacket, rf24_setRXAddressOnPipe, globals, FeatureInv
  <2>5. CASE \E enable \in BOOLEAN :
               \/ rf24_setAutoAckOnAll(enable)
               \/ \E pipe \in Pipes : rf24_setAutoAckOnPipe(pipe, enable)
    BY <1>1, <2>5 DEF rf24_setAutoAckOnAll, rf24_setAutoAckOnPipe, SetAutoAck, globals,
                     FeatureInv
  <2>12. CASE \E channel \in Channels : rf24_setChannel(channel)
    BY <1>1, <2>12 DEF rf24_setChannel, globals, FeatureInv
  <2>6. CASE \E rate \in Rates : rf24_setDataRate(rate)
    BY <1>1, <2>6 DEF rf24_setDataRate, FeatureInv, Asked
  <2>7. CASE \E level \in Levels : rf24_setPALevel(level)
    BY <1>1, <2>7 DEF rf24_setPALevel, globals, FeatureInv, Asked
  <2>8. CASE \E length \in Lengths : rf24_setCRCLength(length)
    BY <1>1, <2>8 DEF rf24_setCRCLength, globals, FeatureInv, Asked
  <2>9. CASE Mode
    BY <1>1, <2>9 DEF Mode, SetMode, globals, FeatureInv
  <2>10. CASE \E size \in Sizes : rf24_setPayloadSize(size)
    BY <1>1, <2>10 DEF rf24_setPayloadSize, registers, FeatureInv
  <2>11. QED
    BY <1>3, <1>4, <1>5, <1>6, <1>8, <2>1, <2>2, <2>3, <2>4, <2>5, <2>6, <2>7,
       <2>8, <2>9, <2>10, <2>12 DEF Next
<1>9. QED BY <1>7, <1>8

(* From rf24_enableDynamicPayloads to the next reset the chip has the       *)
(* feature and every pipe on, whatever it was and whatever it has seen,    *)
(* and without that call at most pipe 0 (rf24.c, 422-423, 592-623).        *)
THEOREM DynamicPayloadsAreOn ==
  Spec => []DynamicPayloadsWork
<1>1. FeatureInv => DynamicPayloadsWork
  BY DEF FeatureInv
<1>2. FeatureInv /\ [Next]_vars => FeatureInv'
  BY FeatureStep
<1>3. QED BY <1>1, <1>2, FeatureInitially, PTL DEF Spec

-----------------------------------------------------------------------------
(* Types.                                                                  *)

LEMMA DefaultsTyped ==
  ASSUME TypeOK, NEW bits \in SUBSET RST_CFG, setDefaults(bits), up' \in BOOLEAN
  PROVE  TypeOK'
<1> DEFINE probe == WithRate(WithLevel(rf_setup, "MAX"), "250KBPS")
<1>1. /\ config' \subseteq RST_CFG
      /\ rf_setup' \subseteq RF_DR \cup RF_PWR
  BY DEF setDefaults, TypeOK, WithCrc, CrcBits, WithRate, WithLevel, Stored,
         RateBits, LevelBits, RST_CFG, CRC_BITS, RF_DR, RF_PWR
<1>2. /\ en_aa' \subseteq AllPipes /\ en_rxaddr' \subseteq AllPipes
      /\ dynpd' \subseteq AllPipes
  BY DEF setDefaults, TypeOK, WriteAddressWidth, WriteDynpd
<1>3. rf_ch' \in 0 .. MAX_CHANNEL /\ setup_retr' \in 0 .. 255
  BY DEF setDefaults, MAX_CHANNEL, Lesser
<1>4. /\ activated' \in BOOLEAN /\ dyn_payloads_set' \in BOOLEAN /\ p_variant' \in BOOLEAN
      /\ wide_band' \in BOOLEAN /\ up' \in BOOLEAN
  <2>1. p_variant' \in BOOLEAN
    <3> HIDE DEF probe
    <3>1. p_variant' = (p_variant \/ "RF_DR_LOW" \in probe)
      BY DEF setDefaults, probe
    <3>2. QED BY <3>1
  <2>2. wide_band' = FALSE /\ activated' = activated
        /\ dyn_payloads_set' = dyn_payloads_set
    BY DEF setDefaults
  <2>3. QED BY <2>1, <2>2 DEF TypeOK
<1>5. asked' \in Asked
  BY DEF setDefaults, Asked, Rates, Levels, Lengths
<1>6. UNCHANGED <<feature, rx_pw, payload_len>>
  BY DEF setDefaults
<1>7. QED BY <1>1, <1>2, <1>3, <1>4, <1>5, <1>6 DEF TypeOK

LEMMA TypesInitially == Init => TypeOK
<1> SUFFICES ASSUME Init PROVE TypeOK
  OBVIOUS
<1>1. /\ config \subseteq RST_CFG /\ rf_setup \subseteq RF_DR \cup RF_PWR
      /\ feature \subseteq {"EN_DPL", "EN_ACK_PAY"}
  BY DEF Init
<1>2. /\ en_aa \subseteq AllPipes /\ en_rxaddr \subseteq AllPipes
      /\ dynpd \subseteq AllPipes
  BY DEF Init, AllPipes
<1>3. rf_ch \in 0 .. MAX_CHANNEL /\ setup_retr \in 0 .. 255
  BY DEF Init, MAX_CHANNEL
<1>4. rx_pw \in [AllPipes -> 0 .. MAX_PAYLOAD_LEN] /\ payload_len \in 0 .. MAX_PAYLOAD_LEN
  BY DEF Init, MAX_PAYLOAD_LEN
<1>5. /\ activated \in BOOLEAN /\ dyn_payloads_set \in BOOLEAN /\ p_variant \in BOOLEAN
      /\ wide_band \in BOOLEAN /\ up \in BOOLEAN
  BY RF24ConfigAssumption DEF Init
<1>6. asked \in Asked
  BY DEF Init, Asked, Rates, Levels, Lengths
<1>7. QED BY <1>1, <1>2, <1>3, <1>4, <1>5, <1>6 DEF TypeOK

LEMMA TypesStep ==
  ASSUME TypeOK, [Next]_vars
  PROVE  TypeOK'
<1>1. CASE rf24_init_radio
  BY <1>1, DefaultsTyped DEF rf24_init_radio, TypeOK
<1>2. CASE rf24_resetcfg
  BY <1>2, DefaultsTyped DEF rf24_resetcfg, TypeOK
<1>3. ASSUME NEW width \in 0 .. 6, rf24_setAddressWidth(width) PROVE TypeOK'
  BY <1>3 DEF rf24_setAddressWidth, WriteAddressWidth, globals, TypeOK
<1>4. ASSUME NEW rate \in Rates, rf24_setDataRate(rate) PROVE TypeOK'
  <2>1. rf_setup' \subseteq RF_DR \cup RF_PWR
    BY <1>4 DEF rf24_setDataRate, TypeOK, WithRate, Stored, RateBits, RF_DR
  <2>2. wide_band' \in BOOLEAN /\ asked' \in Asked
    BY <1>4 DEF rf24_setDataRate, TypeOK, Asked
  <2>3. QED BY <1>4, <2>1, <2>2 DEF rf24_setDataRate, TypeOK
<1>5. CASE SetDataRateError
  BY <1>5 DEF SetDataRateError, registers, TypeOK
<1>6. ASSUME NEW level \in Levels, rf24_setPALevel(level) PROVE TypeOK'
  <2>1. rf_setup' \subseteq RF_DR \cup RF_PWR
    BY <1>6 DEF rf24_setPALevel, TypeOK, WithLevel, Stored, LevelBits, RF_PWR
  <2>2. asked' \in Asked
    BY <1>6 DEF rf24_setPALevel, TypeOK, Asked
  <2>3. QED BY <1>6, <2>1, <2>2 DEF rf24_setPALevel, globals, TypeOK
<1>7. ASSUME NEW length \in Lengths, rf24_setCRCLength(length) PROVE TypeOK'
  <2>1. config' \subseteq RST_CFG
    BY <1>7 DEF rf24_setCRCLength, TypeOK, WithCrc, CrcBits, RST_CFG, CRC_BITS
  <2>2. asked' \in Asked
    BY <1>7 DEF rf24_setCRCLength, TypeOK, Asked
  <2>3. QED BY <1>7, <2>1, <2>2 DEF rf24_setCRCLength, globals, TypeOK
<1>8. CASE Mode
  <2>1. config' \subseteq RST_CFG
    BY <1>8 DEF Mode, SetMode, TypeOK, RST_CFG
  <2>2. UNCHANGED <<en_aa, en_rxaddr, rf_ch, setup_retr, rf_setup, feature, dynpd,
                    rx_pw, activated, globals, asked>>
    BY <1>8 DEF Mode, SetMode
  <2>3. QED BY <2>1, <2>2 DEF globals, TypeOK
<1>9. ASSUME NEW channel \in Channels, rf24_setChannel(channel) PROVE TypeOK'
  <2>1. rf_ch' \in 0 .. MAX_CHANNEL
    BY <1>9, RF24ConfigAssumption DEF rf24_setChannel, Lesser, MAX_CHANNEL
  <2>2. QED BY <1>9, <2>1 DEF rf24_setChannel, globals, TypeOK
<1>10. ASSUME NEW delay \in Retries, NEW count \in Retries, rf24_setRetries(delay, count)
       PROVE  TypeOK'
  <2>1. setup_retr' \in 0 .. 255
    BY <1>10, RF24ConfigAssumption DEF rf24_setRetries
  <2>2. QED BY <1>10, <2>1 DEF rf24_setRetries, globals, TypeOK
<1>11. ASSUME NEW size \in Sizes, rf24_setPayloadSize(size) PROVE TypeOK'
  <2>1. payload_len' \in 0 .. MAX_PAYLOAD_LEN
    BY <1>11, RF24ConfigAssumption DEF rf24_setPayloadSize, Lesser, MAX_PAYLOAD_LEN
  <2>2. QED BY <1>11, <2>1 DEF rf24_setPayloadSize, registers, TypeOK
<1>12. ASSUME NEW pipe \in Pipes, rf24_setRXAddressOnPipe(pipe) PROVE TypeOK'
  BY <1>12, RF24ConfigAssumption DEF rf24_setRXAddressOnPipe, globals, TypeOK
<1>20. CASE rf24_autoACKPacket
  <2>1. Lesser(payload_len, MAX_PAYLOAD_LEN) \in 0 .. MAX_PAYLOAD_LEN
    BY DEF TypeOK, Lesser, MAX_PAYLOAD_LEN
  <2>2. rx_pw' \in [AllPipes -> 0 .. MAX_PAYLOAD_LEN]
    BY <1>20, <2>1 DEF rf24_autoACKPacket, TypeOK
  <2>3. QED BY <1>20, <2>2 DEF rf24_autoACKPacket, globals, TypeOK
<1>13. ASSUME NEW enable \in BOOLEAN, rf24_setAutoAckOnAll(enable) PROVE TypeOK'
  BY <1>13 DEF rf24_setAutoAckOnAll, SetAutoAck, globals, TypeOK
<1>14. ASSUME NEW enable \in BOOLEAN, NEW pipe \in Pipes, rf24_setAutoAckOnPipe(pipe, enable)
       PROVE  TypeOK'
  BY <1>14, RF24ConfigAssumption DEF rf24_setAutoAckOnPipe, SetAutoAck, globals, TypeOK
<1>15. ASSUME NEW wanted \in SUBSET {"EN_DPL", "EN_ACK_PAY"}, EnableFeatures(wanted)
       PROVE  feature' \subseteq {"EN_DPL", "EN_ACK_PAY"} /\ activated' \in BOOLEAN
  BY <1>15 DEF EnableFeatures, TypeOK
<1>16. CASE rf24_enableDynamicPayloads
  <2>1. feature' \subseteq {"EN_DPL", "EN_ACK_PAY"} /\ activated' \in BOOLEAN
    BY <1>15, <1>16 DEF rf24_enableDynamicPayloads
  <2>2. dynpd' \subseteq AllPipes /\ payload_len' \in 0 .. MAX_PAYLOAD_LEN
    BY <1>16 DEF rf24_enableDynamicPayloads, WriteDynpd, TypeOK, MAX_PAYLOAD_LEN
  <2>3. asked' \in Asked
    BY <1>16 DEF rf24_enableDynamicPayloads, TypeOK, Asked
  <2>4. QED BY <1>16, <2>1, <2>2, <2>3 DEF rf24_enableDynamicPayloads, TypeOK
<1>17. CASE rf24_enableAckPayload
  <2>1. feature' \subseteq {"EN_DPL", "EN_ACK_PAY"} /\ activated' \in BOOLEAN
    BY <1>15, <1>17 DEF rf24_enableAckPayload
  <2>2. dynpd' \subseteq AllPipes
    BY <1>17 DEF rf24_enableAckPayload, WriteDynpd, TypeOK, AllPipes
  <2>3. QED BY <1>17, <2>1, <2>2 DEF rf24_enableAckPayload, globals, TypeOK
<1>18. CASE UNCHANGED vars
  BY <1>18 DEF vars, registers, globals, TypeOK
<1>19. QED
  BY <1>1, <1>2, <1>3, <1>4, <1>5, <1>6, <1>7, <1>8, <1>9, <1>10, <1>11, <1>12,
     <1>13, <1>14, <1>16, <1>17, <1>18, <1>20 DEF Next

(* No call leaves a value that its register or variable cannot hold,        *)
(* whatever arguments it is given (rf24.c, 293-461, 592-652).              *)
THEOREM TypeCorrect == Spec => []TypeOK
BY TypesInitially, TypesStep, PTL DEF Spec
=============================================================================
