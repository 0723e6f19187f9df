------------------------------- MODULE Rf24Driver ------------------------------
(***************************************************************************)
(* The driver of the nRF24L01+ (RF24.cpp): which pipes it listens and      *)
(* writes on, what its write calls report, and its configuration bytes.    *)
(* The chip is the environment: its two FIFOs, acknowledged transmission,  *)
(* and a brown-out that takes it back to its reset values.                 *)
(*                                                                         *)
(* The application keeps to RF24.h: it opens the writing pipe and writes   *)
(* only when it is not listening, and calls begin again when the driver    *)
(* has detected a failure.                                                 *)
(***************************************************************************)
EXTENDS Integers, Sequences, TLC, Bitwise

CONSTANTS
  PipeAddresses,   \* of pipes; NoAddress is one whose first byte is 0
  NoAddress,
  FIFO,        \* 3 in the chip
  MaxPayloads, \* bound: payloads the application writes
  MaxResets,   \* bound: brown-outs
  Channels, Levels   \* the arguments of setChannel and setPALevel

Rates == {"1MBPS", "2MBPS", "250KBPS"}

VARIABLES
  rf,       \* the driver's fields and the chip's, see Chip and Driver
  api,      \* what the application uses: "write", "fast" or "settings"
  role,     \* "rx" after startListening, "tx" after stopListening, "standby" when
            \* begin or closeReadingPipe(0) came after that
  wcall,    \* the call that is running: [op, n]
  fresh,    \* does pipe 0 still have the address of the writing pipe?
  outcome,  \* for each payload: "none", "true", "false", "queued" (writeFast)
  acked,    \* the payloads the chip saw acknowledged
  taken,    \* queued payloads that were taken from the FIFO, and by what
  resets, lostConfig,   \* brown-outs, and has there been one since begin?
  asked     \* the settings asked for

rf24Vars == <<rf, api, role, wcall, fresh, outcome, acked, taken, resets, lostConfig, asked>>

\* The chip after power on (data sheet), and the constructor.
Chip == [PRIM_RX |-> FALSE, PWR_UP |-> FALSE, rx0 |-> "reset", tx |-> "reset", en |-> {0, 1},
         feature |-> {}, flags |-> {}, txFifo |-> <<>>, rxFifo |-> <<>>]
Driver == [ce |-> FALSE, pipe0 |-> NoAddress, dynamic |-> FALSE, failure |-> FALSE]

NoCall == [op |-> "none", n |-> 0]
Listens == rf.ce /\ rf.PRIM_RX /\ rf.PWR_UP
-------------------------------------------------------------------------------
\* The driver's functions, on its fields and the chip's registers r.

powerUp(r) == [r EXCEPT !.PWR_UP = TRUE]
powerDown(r) == [r EXCEPT !.ce = FALSE, !.PWR_UP = FALSE]
flush_tx(r) == [r EXCEPT !.txFifo = <<>>]
flush_rx(r) == [r EXCEPT !.rxFifo = <<>>]
ClearFlags(r) == [r EXCEPT !.flags = {}]
closeReadingPipe(r, p) == [r EXCEPT !.en = @ \ {p}]

\* openReadingPipe: the address of pipe 0 is also kept in the driver.
openReadingPipe(r, p, a) ==
  [r EXCEPT !.en = @ \cup {p}, !.pipe0 = IF p = 0 THEN a ELSE @, !.rx0 = IF p = 0 THEN a ELSE @]

\* openWritingPipe: pipe 0 receives the acknowledgements.
openWritingPipe(r, a) == [r EXCEPT !.rx0 = a, !.tx = a]

AckPayloadsFlushed(r) == IF "EN_ACK_PAY" \in r.feature THEN flush_tx(r) ELSE r

MutantStartListening(r) == ClearFlags([powerUp(r) EXCEPT !.PRIM_RX = TRUE, !.ce = TRUE])

startListening(r) ==
  LET s == ClearFlags([powerUp(r) EXCEPT !.PRIM_RX = TRUE, !.ce = TRUE])
      t == IF r.pipe0 # NoAddress THEN [s EXCEPT !.rx0 = r.pipe0] ELSE closeReadingPipe(s, 0)
  IN AckPayloadsFlushed(t)

stopListening(r) == [AckPayloadsFlushed([r EXCEPT !.ce = FALSE]) EXCEPT !.PRIM_RX = FALSE, !.en = @ \cup {0}]

\* enableDynamicPayloads, enableAckPayload and disableDynamicPayloads.
enableDynamicPayloads(r) ==
  [r EXCEPT !.feature = @ \cup {"EN_DPL"}, !.dynamic = TRUE]
enableAckPayload(r) ==
  [r EXCEPT !.feature = @ \cup {"EN_DPL", "EN_ACK_PAY"}, !.dynamic = TRUE]
disableDynamicPayloads(r) == [r EXCEPT !.feature = {}, !.dynamic = FALSE]

\* begin, but for the configuration bytes: pipes and addresses stay.
begin(r) ==
  powerUp([flush_tx(flush_rx(ClearFlags(disableDynamicPayloads(r)))) EXCEPT
             !.ce = FALSE, !.PRIM_RX = FALSE])

\* write_payload, and startFastWrite with ce(HIGH).
startFastWrite(r, n) ==
  [r EXCEPT !.txFifo = IF Len(@) < FIFO THEN Append(@, n) ELSE @, !.ce = TRUE]
-------------------------------------------------------------------------------
\* The configuration bytes.

Bit(k) == 2^k
RF_DR_LOW == 5
RF_DR_HIGH == 3
EN_CRC == 3
CRCO == 2
IsSet(byte, k) == (byte & Bit(k)) # 0

\* A chip that is not the plus variant has no RF_DR_LOW.
RfSetup(b, byte) == [b EXCEPT !.setup = IF b.plus THEN byte ELSE byte & (255 - Bit(RF_DR_LOW))]

\* setDataRate writes it, and reads it back; getDataRate.
RateByte(b, speed) ==
  (b.setup & (255 - Bit(RF_DR_LOW) - Bit(RF_DR_HIGH)))
    | (CASE speed = "250KBPS" -> Bit(RF_DR_LOW) [] speed = "2MBPS" -> Bit(RF_DR_HIGH) [] OTHER -> 0)
RateVerified(b, speed) == RfSetup(b, RateByte(b, speed)).setup = RateByte(b, speed)
getDataRate(b) ==
  LET dr == b.setup & (Bit(RF_DR_LOW) | Bit(RF_DR_HIGH))
  IN IF dr = Bit(RF_DR_LOW) THEN "250KBPS" ELSE IF dr = Bit(RF_DR_HIGH) THEN "2MBPS" ELSE "1MBPS"

\* setPALevel, getPALevel; an invalid level is the largest.
PALevelByte(b, level) == (b.setup & \hf8) | (IF level > 3 THEN 7 ELSE 2 * level + 1)
getPALevel(b) == (b.setup & 6) \div 2

setChannel(b, c) == [b EXCEPT !.channel = IF c < 125 THEN c ELSE 125]

\* setCRCLength, disableCRC and getCRCLength; 0, 1 or 2 bytes.
setCRCLength(b, length) ==
  [b EXCEPT !.config = (@ & (255 - Bit(CRCO) - Bit(EN_CRC)))
                       | (CASE length = 0 -> 0 [] length = 1 -> Bit(EN_CRC)
                            [] length = 2 -> Bit(EN_CRC) | Bit(CRCO))]
disableCRC(b) == [b EXCEPT !.config = @ & (255 - Bit(EN_CRC))]
getCRCLength(b) ==
  IF IsSet(b.config, EN_CRC) \/ b.aa # 0 THEN IF IsSet(b.config, CRCO) THEN 2 ELSE 1 ELSE 0

\* maskIRQ: the bits of RX_DR, TX_DS and MAX_RT.
maskIRQ(b, mask) == [b EXCEPT !.config = (@ & (255 - 112)) | (16 * mask)]

\* setAutoAck, for all pipes and for one.
setAutoAck(b, on) == [b EXCEPT !.aa = IF on THEN \h3f ELSE 0]
setAutoAckPipe(b, p, on) == [b EXCEPT !.aa = IF on THEN @ | Bit(p) ELSE @ & (255 - Bit(p))]

setRetries(b, delay, count) == [b EXCEPT !.retr = ((delay & 15) * 16) | (count & 15)]

\* setAddressWidth, of 3, 4 or 5 bytes.
setAddressWidth(b, w) == [b EXCEPT !.aw = (w - 2) % 4, !.width = ((w - 2) % 4) + 2]

\* The bytes begin leaves, from reset values (SETUP 0x0e or 0x0f).
BeginBytes(plus) ==
  LET reset == [plus |-> plus, setup |-> \h0e, config |-> \h0c, channel |-> 2, aa |-> \h3f,
                retr |-> 3, aw |-> 3, width |-> 5, p_variant |-> FALSE]
      slow == RfSetup(reset, RateByte(reset, "250KBPS"))
      b == [slow EXCEPT !.p_variant = RateVerified(reset, "250KBPS")]
  IN [setRetries(setChannel(RfSetup(b, RateByte(b, "1MBPS")), 76), 5, 15) EXCEPT !.config = @ | 2]
-------------------------------------------------------------------------------
Rf24Init ==
  /\ api \in {"write", "fast", "settings"} /\ role = "tx" /\ wcall = NoCall /\ fresh = FALSE
  /\ \E plus \in IF api = "settings" THEN BOOLEAN ELSE {TRUE} :
       rf = begin(Chip @@ Driver) @@ [bytes |-> BeginBytes(plus)]
  /\ outcome = [n \in 1..MaxPayloads |-> "none"] /\ acked = {} /\ taken = {} /\ resets = 0 /\ lostConfig = FALSE
  /\ asked = [rate |-> "1MBPS", pa |-> getPALevel(rf.bytes), crc |-> 2, mask |-> 0]

\* A begin, a change of role or a brown-out empties the FIFO; the driver does not know.
InFifo(r) == {r.txFifo[i] : i \in DOMAIN r.txFifo}
Discards(by) ==
  /\ taken' = taken \cup {<<n, by>> : n \in {m \in InFifo(rf) \ InFifo(rf') : outcome[m] = "queued"}}
  /\ UNCHANGED outcome
NoCallMade == wcall = NoCall /\ UNCHANGED <<api, wcall, acked, resets, asked>>
Traffic == api # "settings"

Listen ==
  /\ Traffic /\ NoCallMade /\ UNCHANGED lostConfig
  /\ \/ rf' = startListening(rf) /\ role' = "rx" /\ fresh' = (fresh /\ rf.pipe0 = NoAddress)
     \/ rf' = stopListening(rf) /\ role' = "tx" /\ UNCHANGED fresh
  /\ Discards("role")

OpenPipes ==
  /\ Traffic /\ NoCallMade /\ UNCHANGED <<lostConfig, outcome, taken>>
  /\ \/ /\ role # "rx" /\ \E a \in PipeAddresses : rf' = openWritingPipe(rf, a)
        /\ fresh' = (role = "tx") /\ UNCHANGED role
     \/ \E a \in PipeAddresses \cup {NoAddress}, p \in {0, 1} :
          rf' = openReadingPipe(rf, p, a) /\ fresh' = (fresh /\ p = 1) /\ UNCHANGED role
     \/ /\ rf' = closeReadingPipe(rf, 0) /\ fresh' = FALSE
        /\ role' = IF role = "tx" THEN "standby" ELSE role

Features ==
  /\ Traffic /\ NoCallMade /\ role # "rx" /\ UNCHANGED <<role, fresh, lostConfig, outcome, taken>>
  /\ rf' \in {enableDynamicPayloads(rf), enableAckPayload(rf), disableDynamicPayloads(rf)}

Power ==
  /\ Traffic /\ NoCallMade /\ rf' \in {powerUp(rf), powerDown(rf)} /\ UNCHANGED <<role, fresh, lostConfig, outcome, taken>>

\* The recovery of RF24.h (line 678), or any other begin.
Begin ==
  /\ Traffic /\ NoCallMade /\ rf' = [begin(rf) EXCEPT !.failure = FALSE] /\ role' = "standby" /\ fresh' = FALSE
  /\ lostConfig' = FALSE /\ Discards("begin")

\* read, when available: the payload, and all the flags are cleared.
Read ==
  /\ Traffic /\ NoCallMade /\ rf.rxFifo # <<>> /\ rf' = ClearFlags([rf EXCEPT !.rxFifo = Tail(@)])
  /\ UNCHANGED <<role, fresh, lostConfig, outcome, taken>>

Written == {n \in DOMAIN outcome : outcome[n] # "none"}
NextPayload == 1 + (IF Written = {} THEN 0 ELSE CHOOSE n \in Written : \A m \in Written : m <= n)
MayWrite == role # "rx" /\ ~rf.failure /\ (rf.PWR_UP \/ lostConfig) /\ NextPayload <= MaxPayloads
KeptByWrites == UNCHANGED <<api, role, fresh, taken, resets, lostConfig, asked>>

\* write: the payload goes out and the call waits for TX_DS or MAX_RT.
WriteBegins ==
  /\ api = "write" /\ wcall = NoCall /\ MayWrite
  /\ rf' = startFastWrite(rf, NextPayload) /\ wcall' = [op |-> "write", n |-> NextPayload]
  /\ UNCHANGED <<outcome, acked>> /\ KeptByWrites

\* The end of write: a payload that has failed is flushed.
Finished(r) ==
  LET s == [ClearFlags(r) EXCEPT !.ce = FALSE] IN IF "MAX_RT" \in r.flags THEN flush_tx(s) ELSE s

WriteEnds ==
  /\ wcall.op = "write" /\ rf.flags \cap {"TX_DS", "MAX_RT"} # {}
  /\ rf' = Finished(rf) /\ wcall' = NoCall
  /\ outcome' = [outcome EXCEPT ![wcall.n] = IF "MAX_RT" \in rf.flags THEN "false" ELSE "true"]
  /\ UNCHANGED acked /\ KeptByWrites

CanTransmit == /\ rf.ce /\ ~rf.PRIM_RX /\ rf.PWR_UP /\ rf.txFifo # <<>> /\ "MAX_RT" \notin rf.flags

\* The 95 ms of the failure handling are over: more than all retries take.
WriteFails ==
  /\ wcall # NoCall /\ ~CanTransmit /\ "MAX_RT" \notin rf.flags
  /\ IF wcall.op = "standby" THEN rf.txFifo # <<>> ELSE "TX_DS" \notin rf.flags
  /\ rf' = [rf EXCEPT !.failure = TRUE] /\ wcall' = NoCall
  /\ outcome' = IF wcall.op = "write" THEN [outcome EXCEPT ![wcall.n] = "false"] ELSE outcome
  /\ UNCHANGED acked /\ KeptByWrites

Full == Len(rf.txFifo) = FIFO

\* writeFast: when the FIFO is full, 0 after a failed retry (the flag is
\* cleared so that the chip goes on) or when it stays full for 95 ms;
\* otherwise the payload is queued.
WriteFast ==
  /\ api = "fast" /\ wcall = NoCall /\ MayWrite /\ UNCHANGED <<wcall, acked>> /\ KeptByWrites
  /\ \/ /\ Full /\ "MAX_RT" \in rf.flags /\ UNCHANGED outcome
        /\ rf' = [rf EXCEPT !.flags = @ \ {"MAX_RT"}]
     \/ /\ Full /\ "MAX_RT" \notin rf.flags /\ ~CanTransmit /\ UNCHANGED outcome
        /\ rf' = [rf EXCEPT !.failure = TRUE]
     \/ /\ ~Full /\ rf' = startFastWrite(rf, NextPayload)
        /\ outcome' = [outcome EXCEPT ![NextPayload] = "queued"]

\* txStandBy: wait for an empty FIFO; at MAX_RT give up and flush, at once or
\* (with a timeout) after further retries.
StandByBegins ==
  /\ api = "fast" /\ wcall = NoCall /\ role # "rx" /\ ~rf.failure /\ wcall' = [op |-> "standby", n |-> 0]
  /\ UNCHANGED <<rf, outcome, acked>> /\ KeptByWrites

QueuedAs(result) == [n \in DOMAIN outcome |-> IF outcome[n] = "queued" THEN result ELSE outcome[n]]

txStandBy ==
  /\ wcall.op = "standby" /\ UNCHANGED acked /\ KeptByWrites
  /\ \/ /\ rf.txFifo = <<>> /\ rf' = [rf EXCEPT !.ce = FALSE] /\ wcall' = NoCall
        /\ outcome' = QueuedAs("true")
     \/ /\ rf.txFifo # <<>> /\ "MAX_RT" \in rf.flags /\ wcall' = NoCall /\ outcome' = QueuedAs("false")
        /\ rf' = flush_tx([rf EXCEPT !.flags = @ \ {"MAX_RT"}, !.ce = FALSE])
     \/ /\ rf.txFifo # <<>> /\ "MAX_RT" \in rf.flags /\ UNCHANGED <<wcall, outcome>>
        /\ rf' = [rf EXCEPT !.flags = @ \ {"MAX_RT"}, !.ce = TRUE]

\* One setter after the other.
Settings ==
  /\ api = "settings" /\ wcall = NoCall
  /\ LET b == rf.bytes
     IN \E c \in
          {[b |-> RfSetup(b, RateByte(b, s)),
            k |-> [asked EXCEPT !.rate = IF RateVerified(b, s) THEN s ELSE "1MBPS"]] : s \in Rates}
          \cup {[b |-> RfSetup(b, PALevelByte(b, l)), k |-> [asked EXCEPT !.pa = IF l > 3 THEN 3 ELSE l]] : l \in Levels}
          \cup {[b |-> setCRCLength(b, l), k |-> [asked EXCEPT !.crc = l]] : l \in 0..2}
          \cup {[b |-> disableCRC(b), k |-> [asked EXCEPT !.crc = 0]]}
          \cup {[b |-> maskIRQ(b, m), k |-> [asked EXCEPT !.mask = m]] : m \in 0..7}
          \cup {[b |-> x, k |-> asked] : x \in {setChannel(b, ch) : ch \in Channels}
                   \cup {setAutoAck(b, on) : on \in BOOLEAN} \cup {setAutoAckPipe(b, 1, on) : on \in BOOLEAN}
                   \cup {setRetries(b, 17, 2)} \cup {setAddressWidth(b, w) : w \in 3..5}} :
          rf' = [rf EXCEPT !.bytes = c.b] /\ asked' = c.k
  /\ UNCHANGED <<api, role, wcall, fresh, outcome, acked, taken, resets, lostConfig>>
-------------------------------------------------------------------------------
\* The chip.

ChipKeeps == UNCHANGED <<api, role, wcall, fresh, outcome, taken, resets, lostConfig, asked>>

\* A payload is acknowledged on pipe 0, or all its retries fail.
Transmits ==
  /\ CanTransmit /\ ChipKeeps
  /\ \/ /\ 0 \in rf.en /\ rf.rx0 = rf.tx /\ acked' = acked \cup {Head(rf.txFifo)}
        /\ rf' = [rf EXCEPT !.txFifo = Tail(@), !.flags = @ \cup {"TX_DS"}]
     \/ rf' = [rf EXCEPT !.flags = @ \cup {"MAX_RT"}] /\ UNCHANGED acked

Receives ==
  /\ Listens /\ rf.en # {} /\ Len(rf.rxFifo) < 1 /\ ChipKeeps /\ UNCHANGED acked
  /\ rf' = [rf EXCEPT !.rxFifo = Append(@, 0), !.flags = @ \cup {"RX_DR"}]

BrownOut ==
  /\ Traffic /\ resets < MaxResets /\ resets' = resets + 1 /\ lostConfig' = TRUE
  /\ rf' = Chip @@ rf /\ Discards("brown-out") /\ UNCHANGED <<api, role, wcall, fresh, acked, asked>>

Rf24Next ==
  \/ Listen \/ OpenPipes \/ Features \/ Power \/ Begin \/ Read \/ WriteBegins \/ WriteEnds
  \/ WriteFails \/ WriteFast \/ StandByBegins \/ txStandBy \/ Settings
  \/ Transmits \/ Receives \/ BrownOut
Rf24Spec == Rf24Init /\ [][Rf24Next]_rf24Vars
-------------------------------------------------------------------------------
\* Properties.

\* While the chip listens, pipe 0 is closed or has the address it was opened for
\* reading with, and not one of openWritingPipe; and when the application has
\* stopped listening, acknowledgements of the writing pipe can be received,
\* although startListening closes pipe 0 or gives it another address.
PipesKept ==
  ~lostConfig =>
    /\ Listens /\ 0 \in rf.en => rf.rx0 = rf.pipe0
    /\ role = "tx" /\ fresh => 0 \in rf.en /\ rf.rx0 = rf.tx
    /\ rf.dynamic <=> "EN_DPL" \in rf.feature

\* "True if the payload was delivered successfully and an ACK was received":
\* write reports success only for a payload that was acknowledged, over
\* failures, brown-outs and new beginnings; txStandBy for those that were
\* acknowledged and those that left the FIFO by a begin, a change of role or a
\* brown-out, since an empty FIFO is all it looks at.
WriteTruthful ==
  \A n \in DOMAIN outcome : outcome[n] = "true" =>
    n \in acked \/ (api = "fast" /\ \E by \in {"role", "begin", "brown-out"} : <<n, by>> \in taken)

\* The setters of a byte do not undo one another: data rate, power level, CRC
\* and interrupt mask are the last that were asked for (CRC is on with auto
\* acknowledge), and the bits of power and role stay as begin left them.
Rf24SettingsKept ==
  LET b == rf.bytes
  IN /\ getDataRate(b) = asked.rate /\ getPALevel(b) = asked.pa
     /\ getCRCLength(b) = asked.crc \/ (asked.crc = 0 /\ b.aa # 0)
     /\ b.config \div 16 = asked.mask /\ b.config % 4 = 2
     /\ b.p_variant = b.plus /\ b.width = b.aw + 2 /\ b.channel <= 125

Rf24Sound == PipesKept /\ WriteTruthful /\ Rf24SettingsKept
================================================================================
