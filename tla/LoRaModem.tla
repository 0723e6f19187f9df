------------------------------- MODULE LoRaModem -------------------------------
(***************************************************************************)
(* LoRa.c: what LoRa_begin, LoRa_receive and LoRa_end write into the       *)
(* registers of the modem, and LoRa_calculate_packet_t.                    *)
(*                                                                         *)
(* A session is begin, receive, end; main repeats it for ever with one     *)
(* configuration.  A register is a byte.  What the chip holds after a      *)
(* reset is not assumed, so the masks of the read-modify-writes matter.    *)
(* When spiOpen fails every later transfer fails, and changes nothing.     *)
(***************************************************************************)
EXTENDS Integers, Bitwise

CONSTANTS
  Configs,     \* the configurations (Modem_cfg, and tx.data.size)
  ResetBytes   \* what a register may hold after a reset

Bool == {0, 1}
RFO == \h70
PA_BOOST == \hf0
LORA_MODE == \h80
STDBY_MODE == \h01
RXCONT_MODE == \h05

\* Enumerations as their index: bw 0..9, sf 7..12, ecr 1..4; freq as
\* <<q, r>>, which stands for 15625 * q + r Hz.
Config == [bw : 0..9, sf : 7..12, ecr : 1..4, implicitHeader : Bool, CRC : Bool,
           outPower : 0..17 \cup {20}, powerOutPin : {RFO, PA_BOOST},
           preambleLen : Nat, AGC : Bool, OCP : 0..255,
           freq : Nat \X (0..15624), payloadLen : 0..255, size : 0..255]

ASSUME ConfigsAssumption == Configs \subseteq Config /\ ResetBytes \subseteq 0..255

Registers == {"OP_MODE", "FR_MSB", "FR_MID", "FR_LSB", "PA_CONFIG", "PA_DAC", "OCP",
              "MODEM_CONFIG_1", "MODEM_CONFIG_2", "MODEM_CONFIG_3",
              "PREAMBLE_MSB", "PREAMBLE_LSB"}

VARIABLES
  cfg,            \* modem.eth
  phase,          \* "ended", "begun" or "receiving"
  spid,           \* did spiOpen succeed?
  reg,            \* the chip's registers
  payloadSymbNb   \* the result of LoRa_calculate_packet_t

modemVars == <<cfg, phase, spid, reg, payloadSymbNb>>

ModemInit ==
  /\ cfg \in Configs
  /\ phase = "ended" /\ spid = FALSE
  /\ \E b \in ResetBytes : reg = [r \in Registers |-> b]
  /\ payloadSymbNb = 0
-------------------------------------------------------------------------------
\* The bytes that the setters write.

Clamp(x, lo, hi) == IF x < lo THEN lo ELSE IF x > hi THEN hi ELSE x
ByteOf(n, k) == (n \div 2^(8 * k)) % 256

\* A mutant: a coding rate that clears the header bit.
MutantModemConfig1(old, c) == ((((old | c.implicitHeader) & \hf0) | (c.ecr * 2)) & \h0f) | (c.bw * 16)

\* Lines 53-70; lora_set_tx_power has switched the protection off before.
lora_set_ocp(old, OCP) ==
  IF OCP = 0 THEN old & \hdf
  ELSE IF OCP <= 120 THEN (Clamp(OCP, 50, 120) - 45) \div 5 + \h20
  ELSE (Clamp(OCP, 130, 255) + 30) \div 10 + \h20

\* lora_set_tx_power, lines 80-101: PA_CONFIG and PA_DAC.
PaConfig(power, pin) ==
  IF pin = RFO THEN pin | Clamp(power, 0, 15)
  ELSE IF power = 20 THEN pin | (power - 2)
  ELSE pin | (Clamp(power, 2, 17) - 2)
PaDac(power, pin) == IF pin = PA_BOOST /\ power = 20 THEN \h87 ELSE \h84

\* Lines 341-347, 337-339 and 333-335, in the order of LoRa_begin.
ModemConfig1(old, c) ==
  LET header == IF c.implicitHeader = 1 THEN old | \h01 ELSE old & \hfe
      coded == (header & \hf1) | (c.ecr * 2)
  IN (coded & \h0f) | (c.bw * 16)

\* Lines 321-331.
ModemConfig2(old, c) ==
  LET spread == (old & \h0f) | (c.sf * 16)
  IN IF c.CRC = 1 THEN (spread & \hfb) | 4 ELSE spread & \hfb

\* Lines 349-351: 524288 / 32 MHz = 256 / 15625, rounded up.
Frf(freq) == 256 * freq[1] + (256 * freq[2] + 15624) \div 15625

\* Lines 363-368.
PreambleLen(n) == Clamp(n, 6, 65535)

\* The registers after lines 15-48, from what the reset left.
Configured(old, c) ==
  LET afterTxPower == \h1f
      frf == Frf(c.freq)
      preamble == PreambleLen(c.preambleLen)
  IN [old EXCEPT
       !["OP_MODE"] = ((old["OP_MODE"] & \hf8) & \h7f) | LORA_MODE,
       !["MODEM_CONFIG_1"] = ModemConfig1(old["MODEM_CONFIG_1"], c),
       !["MODEM_CONFIG_2"] = ModemConfig2(old["MODEM_CONFIG_2"], c),
       !["MODEM_CONFIG_3"] = c.AGC * 4,
       !["PA_CONFIG"] = PaConfig(c.outPower, c.powerOutPin),
       !["PA_DAC"] = PaDac(c.outPower, c.powerOutPin),
       !["OCP"] = lora_set_ocp(afterTxPower, c.OCP),
       !["FR_MSB"] = ByteOf(frf, 2), !["FR_MID"] = ByteOf(frf, 1), !["FR_LSB"] = ByteOf(frf, 0),
       !["PREAMBLE_MSB"] = ByteOf(preamble, 1), !["PREAMBLE_LSB"] = ByteOf(preamble, 0)]
-------------------------------------------------------------------------------
\* LoRa_calculate_packet_t.
BW_VAL == <<7800, 10400, 15600, 20800, 31250, 41700, 62500, 125000, 250000, 500000>>

\* Lines 269-270: a symbol lasts longer than 16 ms.
LowDataRateOptimize(c) == IF 2^c.sf * 1000 > 16 * BW_VAL[c.bw + 1] THEN 1 ELSE 0

\* Lines 262-267 and 273-276.
TmpPoly(c) ==
  LET payload == IF c.implicitHeader = 1 THEN c.payloadLen ELSE c.size
      poly == 8 * payload - 4 * c.sf + 28 + 16 - 20 * c.implicitHeader
  IN IF poly < 0 THEN 0 ELSE poly

\* Line 277.
PayloadSymbNb(c, on) ==
  LET bits == 4 * (c.sf - 2 * on)
  IN 8 + ((TmpPoly(c) + bits - 1) \div bits) * (4 + c.ecr)

\* Lines 167-173.
SetLowDataRate(old, on) == (old & \hf7) | (on * 8)

\* The mode bits of OP_MODE: lines 296-302.
SetMode(old, mode) == (old & \hf8) | mode
-------------------------------------------------------------------------------
\* LoRa_begin: reset the chip, open the SPI handle and configure.
LoRa_begin ==
  /\ phase = "ended" /\ phase' = "begun"
  /\ \E b \in ResetBytes, ok \in BOOLEAN :
       LET old == [r \in Registers |-> b]
       IN spid' = ok /\ reg' = IF ok THEN Configured(old, cfg) ELSE old
  /\ UNCHANGED <<cfg, payloadSymbNb>>

\* LoRa_receive: lines 149-165.
LoRa_receive ==
  /\ phase = "begun" /\ phase' = "receiving"
  /\ LET on == LowDataRateOptimize(cfg)
         standby == SetMode(reg["OP_MODE"], STDBY_MODE)
     IN /\ payloadSymbNb' = PayloadSymbNb(cfg, on)
        /\ reg' = IF spid THEN [reg EXCEPT
                                  !["MODEM_CONFIG_3"] = SetLowDataRate(@, on),
                                  !["OP_MODE"] = SetMode(standby, RXCONT_MODE)]
                  ELSE reg
  /\ UNCHANGED <<cfg, spid>>

\* LoRa_end: lines 231-240.
LoRa_end ==
  /\ phase = "receiving" /\ phase' = "ended"
  /\ reg' = IF spid THEN [reg EXCEPT !["OP_MODE"] = SetMode(@, STDBY_MODE)] ELSE reg
  /\ spid' = FALSE
  /\ UNCHANGED <<cfg, payloadSymbNb>>

ModemNext == LoRa_begin \/ LoRa_receive \/ LoRa_end
ModemSpec == ModemInit /\ [][ModemNext]_modemVars
-------------------------------------------------------------------------------
\* The chip's reading of its registers (SX1276 data sheet).

\* The current limit in mA, 0 when the protection is off.
CurrentLimit ==
  LET trim == reg["OCP"] % 32
  IN IF (reg["OCP"] \div 32) % 2 = 0 THEN 0
     ELSE IF trim <= 15 THEN 45 + 5 * trim
     ELSE Clamp(10 * trim - 30, 130, 240)

\* The output power in dBm; MaxPower is 7 on both pins, so 15 dBm on RFO.
OutputPower ==
  LET level == reg["PA_CONFIG"] % 16
  IN IF reg["PA_CONFIG"] < \h80 THEN level
     ELSE 2 + level + IF reg["PA_DAC"] = \h87 THEN 3 ELSE 0

Listening == phase = "receiving" /\ spid
-------------------------------------------------------------------------------
\* Properties.

\* The setters of MODEM_CONFIG_1 and _2 do not undo one another: whatever the
\* chip held before, it listens with the header mode, coding rate, bandwidth,
\* spreading factor and CRC that were asked for, in continuous LoRa receive mode.
FrameFormatAgreed ==
  Listening =>
    /\ reg["OP_MODE"] >= LORA_MODE /\ reg["OP_MODE"] % 8 = RXCONT_MODE
    /\ reg["MODEM_CONFIG_1"] = 16 * cfg.bw + 2 * cfg.ecr + cfg.implicitHeader
    /\ reg["MODEM_CONFIG_2"] \div 16 = cfg.sf
    /\ (reg["MODEM_CONFIG_2"] \div 4) % 2 = cfg.CRC

\* lora_set_tx_power switches the current protection off, but a chip that
\* listens has it on again, within 10 mA of what was asked for (50 mA at least,
\* although LoRa.h:146 starts the range at 45 mA).
CurrentLimited ==
  Listening => IF cfg.OCP = 0 THEN CurrentLimit = 0
               ELSE CurrentLimit - Clamp(cfg.OCP, 50, 240) \in (-9)..9

\* Up to 17 dBm (15 on RFO) the chip gets the power that was asked for.  For OP20 on PA_BOOST it
\* gets 7 dBm and not the "Max 20dBm power" of line 90: 18 does not fit into the field of four bits.
PowerReached ==
  Listening =>
    OutputPower = CASE cfg.powerOutPin = RFO -> Clamp(cfg.outPower, 0, 15)
                    [] cfg.outPower = 20 -> 7
                    [] OTHER -> Clamp(cfg.outPower, 2, 17)

\* The three frequency bytes, most significant first, are the first multiple of
\* the synthesiser's step (32 MHz / 2^19) that is not below the frequency.
FrequencyReached ==
  Listening =>
    LET frf == 65536 * reg["FR_MSB"] + 256 * reg["FR_MID"] + reg["FR_LSB"]
        above == 15625 * (frf - 256 * cfg.freq[1]) - 256 * cfg.freq[2]
    IN above \in 0..15624

\* The preamble register holds the length asked for, within 6..65535, although
\* the code swaps its bytes by hand.
PreambleReached ==
  Listening => 256 * reg["PREAMBLE_MSB"] + reg["PREAMBLE_LSB"] = Clamp(cfg.preambleLen, 6, 65535)

\* All four: a chip that listens reads its registers as what was asked for.
SettingsReached == CurrentLimited /\ PowerReached /\ FrequencyReached /\ PreambleReached

\* The low data rate bit is set exactly for symbols above 16 ms, and setting it
\* leaves the gain control bit, written by LoRa_begin, alone.
SlowSymbolsOptimised ==
  Listening =>
    reg["MODEM_CONFIG_3"] = 4 * cfg.AGC + 8 * LowDataRateOptimize(cfg)

\* The symbols of a packet are the fewest whole coding blocks that hold its bits.
SymbolsSuffice ==
  phase = "receiving" =>
    LET on == LowDataRateOptimize(cfg)
        blocks == (payloadSymbNb - 8) \div (4 + cfg.ecr)
        capacity(n) == 4 * (cfg.sf - 2 * on) * n
    IN /\ payloadSymbNb = 8 + blocks * (4 + cfg.ecr)
       /\ capacity(blocks) >= TmpPoly(cfg)
       /\ blocks > 0 => capacity(blocks - 1) < TmpPoly(cfg)

\* Both: the receiver's timing fits its symbols and packets.
TimingSound == SlowSymbolsOptimised /\ SymbolsSuffice
===============================================================================
