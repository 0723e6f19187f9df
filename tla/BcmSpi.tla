-------------------------------- MODULE BcmSpi --------------------------------
(***************************************************************************)
(* The polled transfers of bcm2835.c over SPI0 and over the auxiliary      *)
(* SPI1.  The processor tests one status bit at a time while the hardware  *)
(* shifts bytes out of the transmit FIFO and the slave's bytes into the    *)
(* receive FIFO.  The k-th byte of a call is k, the slave answers 100 + k. *)
(***************************************************************************)
EXTENDS Integers, Sequences, SequencesExt

CONSTANTS
  SpiLengths,   \* the lengths of transfers
  SpiFifo,      \* bytes of a FIFO of SPI0 (16), and words of a FIFO of SPI1 (4)
  MaxTransfers, \* calls in a row
  Speeds        \* the clock rates asked of SPI1, in Hz

ASSUME SpiAssumption ==
  /\ SpiLengths \subseteq 1 .. 99 /\ SpiFifo \in Nat \ {0, 1} /\ MaxTransfers \in Nat
  /\ Speeds \subseteq Nat \ {0}

CORE_CLK_HZ == 250000000
AUX_SPI_CLOCK_MIN == 30500
AUX_SPI_CLOCK_MAX == 125000000
AUX_SPI_CNTL0_SPEED_MAX == 4095

VARIABLES
  spi,       \* the call: its routine, the place in it, its length and counts, its two buffers
  txFifo,    \* the FIFOs of SPI0, of bytes
  rxFifo,
  auxTx,     \* the FIFOs of SPI1, of words: sequences of up to three bytes
  auxRx,
  wire,      \* ghost: what went over the bus in this call
  csReg,     \* SPI0_CS: the bits of the control register that are one
  csAsked,   \* ghost: the data mode, chip select and polarity last asked for
  spiOrder,  \* bcm2835_spi_bit_order is LSBFIRST
  divider,   \* spi1_speed, and the rate it was computed for
  transfers  \* calls made

spiVars == <<spi, txFifo, rxFifo, auxTx, auxRx, wire, csReg, csAsked, spiOrder, divider, transfers>>

SpiIdle == [call |-> "none", at |-> "idle", len |-> 0, TXCnt |-> 0, RXCnt |-> 0, buf |-> <<>>, rbuf |-> <<>>]

SpiInit ==
  /\ spi = SpiIdle
  /\ txFifo = <<>> /\ rxFifo = <<>> /\ auxTx = <<>> /\ auxRx = <<>> /\ wire = <<>>
  /\ csReg = {} /\ csAsked = [mode |-> 0, chip |-> 0, active |-> {}]
  /\ spiOrder \in BOOLEAN
  /\ divider = [rate |-> 0, value |-> 0]
  /\ transfers = 0

\* bcm2835_correct_order by bcm2835_byte_reverse_table: the eight bits in reverse.
Reversed(b) == LET bit(i) == (b \div 2^i) % 2 IN
  bit(0) * 128 + bit(1) * 64 + bit(2) * 32 + bit(3) * 16 + bit(4) * 8 + bit(5) * 4 + bit(6) * 2 + bit(7)
correct_order(b) == IF spiOrder THEN Reversed(b) ELSE b

Payload(len) == [k \in 1 .. len |-> k]
Answer(k) == 100 + k
Blank3(len) == [k \in 1 .. len |-> 0]

\* CS_CLEAR before TA is set: what an earlier call left in the FIFOs is gone.
Cleared(fifo) == <<>>

\* The control register: chip select in bits 0 and 1, phase and polarity of the clock in 2 and 3,
\* TA in bit 7, the polarity of chip select n in bit 21 + n.  Each call writes its own bits.
TA == 7
SetField(reg, value, mask) == (reg \ mask) \cup (value \cap mask)
ModeBits(mode) == {2 + i : i \in {j \in 0 .. 1 : (mode \div 2^j) % 2 = 1}}
ChipBits(chip) == {i \in 0 .. 1 : (chip \div 2^i) % 2 = 1}
SetControl(reg, asked) ==
  /\ spi.at = "idle" /\ transfers < MaxTransfers
  /\ csReg' = reg /\ csAsked' = asked
  /\ UNCHANGED <<spi, txFifo, rxFifo, wire, spiOrder, divider, transfers, auxTx, auxRx>>
bcm2835_spi_setDataMode(mode) == SetControl(SetField(csReg, ModeBits(mode), {2, 3}), [csAsked EXCEPT !.mode = mode])
bcm2835_spi_chipSelect(chip) == SetControl(SetField(csReg, ChipBits(chip), {0, 1}), [csAsked EXCEPT !.chip = chip])
bcm2835_spi_setChipSelectPolarity(chip, active) ==
  SetControl(SetField(csReg, IF active THEN {21 + chip} ELSE {}, {21 + chip}),
             [csAsked EXCEPT !.active = IF active THEN @ \cup {chip} ELSE @ \ {chip}])

StartSpi(call, at, len) ==
  /\ spi.at = "idle" /\ transfers < MaxTransfers
  /\ transfers' = transfers + 1
  /\ spi' = [SpiIdle EXCEPT !.call = call, !.at = at, !.len = len, !.buf = Payload(len), !.rbuf = Blank3(len)]
  /\ txFifo' = Cleared(txFifo) /\ rxFifo' = Cleared(rxFifo) /\ wire' = <<>>
  /\ csReg' = csReg \cup {TA}
  /\ UNCHANGED <<spiOrder, divider, auxTx, auxRx, csAsked>>

bcm2835_spi_transfer == StartSpi("transfer", "one", 1)
bcm2835_spi_transfernb(len) == StartSpi("transfernb", "tx", len)
bcm2835_spi_transfern(len) == StartSpi("transfern", "tx", len)
bcm2835_spi_writenb(len) == StartSpi("writenb", "wait", len)
bcm2835_spi_write == StartSpi("write", "word", 2)
bcm2835_spi_setBitOrder(lsbFirst) ==
  /\ spi.at = "idle" /\ transfers < MaxTransfers /\ spiOrder' = lsbFirst
  /\ spi' = SpiIdle /\ wire' = <<>>
  /\ UNCHANGED <<txFifo, rxFifo, divider, transfers, auxTx, auxRx, csAsked, csReg>>

SPI0 == spi.call \in {"transfer", "transfernb", "transfern", "writenb", "write"}
AuxCall == spi.call \in {"aux_writenb", "aux_transfernb"}
TXD == Len(txFifo) < SpiFifo
RXD == rxFifo # <<>>
DONE == txFifo = <<>>

\* A call in place reads what is to be sent, and stores what came, in one buffer.
InPlace == spi.call = "transfern"
Stored(byte) ==
  IF InPlace THEN [spi EXCEPT !.buf[spi.RXCnt + 1] = byte, !.rbuf[spi.RXCnt + 1] = byte, !.RXCnt = @ + 1]
  ELSE [spi EXCEPT !.rbuf[spi.RXCnt + 1] = byte, !.RXCnt = @ + 1]

\* The hardware stops while the receive FIFO is full.
ShiftByte ==
  /\ SPI0 /\ txFifo # <<>> /\ Len(rxFifo) < SpiFifo
  /\ wire' = Append(wire, Head(txFifo))
  /\ txFifo' = Tail(txFifo)
  /\ rxFifo' = Append(rxFifo, Answer(Len(wire) + 1))
  /\ UNCHANGED <<spi, spiOrder, divider, transfers, auxTx, auxRx, csAsked, csReg>>

\* transfernb fills while there is room, then empties, until both counts are reached.
FillTx ==
  /\ spi.at = "tx"
  /\ IF TXD /\ spi.TXCnt < spi.len
     THEN /\ txFifo' = Append(txFifo, correct_order(spi.buf[spi.TXCnt + 1]))
          /\ spi' = [spi EXCEPT !.TXCnt = @ + 1]
     ELSE spi' = [spi EXCEPT !.at = "rx"] /\ UNCHANGED txFifo
  /\ UNCHANGED <<rxFifo, wire, spiOrder, divider, transfers, auxTx, auxRx, csAsked, csReg>>
EmptyRx ==
  /\ spi.at = "rx"
  /\ IF RXD /\ spi.RXCnt < spi.len
     THEN spi' = Stored(correct_order(Head(rxFifo))) /\ rxFifo' = Tail(rxFifo)
     ELSE /\ spi' = [spi EXCEPT !.at = IF spi.TXCnt < spi.len \/ spi.RXCnt < spi.len THEN "tx" ELSE "done"]
          /\ UNCHANGED rxFifo
  /\ UNCHANGED <<txFifo, wire, spiOrder, divider, transfers, auxTx, auxRx, csAsked, csReg>>

\* writenb waits for room, sends a byte and throws away what came.
SendOne ==
  /\ spi.at = "wait" /\ TXD
  /\ txFifo' = Append(txFifo, correct_order(spi.buf[spi.TXCnt + 1]))
  /\ spi' = [spi EXCEPT !.TXCnt = @ + 1, !.at = "drain"]
  /\ UNCHANGED <<rxFifo, wire, spiOrder, divider, transfers, auxTx, auxRx, csAsked, csReg>>
Drain ==
  /\ spi.at = "drain"
  /\ IF RXD THEN rxFifo' = Tail(rxFifo) /\ UNCHANGED spi
     ELSE /\ spi' = [spi EXCEPT !.at = IF spi.TXCnt < spi.len THEN "wait" ELSE "done"]
          /\ UNCHANGED rxFifo
  /\ UNCHANGED <<txFifo, wire, spiOrder, divider, transfers, auxTx, auxRx, csAsked, csReg>>

\* transfer sends one byte; write sends its two without looking between them, in no other order.
SendWord ==
  /\ spi.at \in {"one", "word"} /\ TXD
  /\ txFifo' = IF spi.at = "one" THEN Append(txFifo, correct_order(spi.buf[1])) ELSE txFifo \o spi.buf
  /\ spi' = [spi EXCEPT !.TXCnt = spi.len, !.at = "done"]
  /\ UNCHANGED <<rxFifo, wire, spiOrder, divider, transfers, auxTx, auxRx, csAsked, csReg>>

\* DONE: the transmit FIFO is empty.  transfer reads its one byte; writenb goes on draining.
AwaitDone ==
  /\ spi.at = "done" /\ SPI0
  /\ \/ DONE /\ spi.call = "transfer" /\ RXD /\ rxFifo' = Tail(rxFifo)
             /\ spi' = [Stored(correct_order(Head(rxFifo))) EXCEPT !.at = "idle"]
     \/ DONE /\ spi.call # "transfer" /\ spi' = [spi EXCEPT !.at = "idle"] /\ UNCHANGED rxFifo
     \/ ~DONE /\ spi.call = "writenb" /\ RXD /\ rxFifo' = Tail(rxFifo) /\ UNCHANGED spi
  /\ csReg' = IF DONE THEN csReg \ {TA} ELSE csReg
  /\ UNCHANGED <<txFifo, wire, spiOrder, divider, transfers, auxTx, auxRx, csAsked>>

(***************************************************************************)
(* SPI1: words of up to three bytes.                                       *)
(***************************************************************************)
\* The slowest and fastest rates, a divider rounded up to stay below the rate, twelve bits.
CalcClockDivider(rate) ==
  LET speed == IF rate < AUX_SPI_CLOCK_MIN THEN AUX_SPI_CLOCK_MIN
               ELSE IF rate > AUX_SPI_CLOCK_MAX THEN AUX_SPI_CLOCK_MAX ELSE rate
      value == (CORE_CLK_HZ + 2 * speed - 1) \div (2 * speed) - 1
  IN IF value > AUX_SPI_CNTL0_SPEED_MAX THEN AUX_SPI_CNTL0_SPEED_MAX ELSE value
bcm2835_aux_spi_setClockDivider(rate) ==
  /\ spi.at = "idle" /\ transfers < MaxTransfers
  /\ divider' = [rate |-> rate, value |-> CalcClockDivider(rate)]
  /\ UNCHANGED <<spi, txFifo, rxFifo, auxTx, auxRx, wire, spiOrder, transfers, csAsked, csReg>>

AuxRoom == Len(auxTx) < SpiFifo
AuxData == auxRx # <<>>
AuxQuiet == auxTx = <<>>
WordLen(left) == IF left < 3 THEN left ELSE 3
NextWord == SubSeq(spi.buf, spi.TXCnt + 1, spi.TXCnt + WordLen(spi.len - spi.TXCnt))

\* Neither routine clears the FIFOs; both leave them empty.
StartAux(call, at, len) ==
  /\ spi.at = "idle" /\ transfers < MaxTransfers
  /\ transfers' = transfers + 1
  /\ spi' = [SpiIdle EXCEPT !.call = call, !.at = at, !.len = len, !.buf = Payload(len), !.rbuf = Blank3(len)]
  /\ wire' = <<>>
  /\ UNCHANGED <<auxTx, auxRx, spiOrder, divider, txFifo, rxFifo, csAsked, csReg>>

\* A call of more words than a FIFO holds is not made (see the README).
AuxLengths == {len \in SpiLengths : len <= 3 * SpiFifo}
bcm2835_aux_spi_writenb(len) == StartAux("aux_writenb", "auxwait", len)
bcm2835_aux_spi_transfernb(len) == StartAux("aux_transfernb", "auxtx", len)

ShiftWord ==
  /\ AuxCall /\ auxTx # <<>> /\ Len(auxRx) < SpiFifo
  /\ wire' = wire \o Head(auxTx)
  /\ auxTx' = Tail(auxTx)
  /\ auxRx' = Append(auxRx, [i \in 1 .. Len(Head(auxTx)) |-> Answer(Len(wire) + i)])
  /\ UNCHANGED <<spi, spiOrder, divider, transfers, txFifo, rxFifo, csAsked, csReg>>

\* writenb: a word, then wait until the unit is not busy, then one read of the io register.
AuxSend ==
  /\ spi.at = "auxwait" /\ AuxRoom
  /\ auxTx' = Append(auxTx, NextWord)
  /\ spi' = [spi EXCEPT !.TXCnt = @ + Len(NextWord), !.at = "auxbusy"]
  /\ UNCHANGED <<auxRx, wire, spiOrder, divider, transfers, txFifo, rxFifo, csAsked, csReg>>
AuxDiscard ==
  /\ spi.at = "auxbusy" /\ AuxQuiet
  /\ auxRx' = Tail(auxRx)
  /\ spi' = [spi EXCEPT !.at = IF spi.TXCnt < spi.len THEN "auxwait" ELSE "idle"]
  /\ UNCHANGED <<auxTx, wire, spiOrder, divider, transfers, txFifo, rxFifo, csAsked, csReg>>

\* transfernb: fill while there is room; read while there is something; read while it is not busy.
AuxFill ==
  /\ spi.at = "auxtx"
  /\ IF AuxRoom /\ spi.TXCnt < spi.len
     THEN auxTx' = Append(auxTx, NextWord) /\ spi' = [spi EXCEPT !.TXCnt = @ + Len(NextWord)]
     ELSE spi' = [spi EXCEPT !.at = "auxrx"] /\ UNCHANGED auxTx
  /\ UNCHANGED <<auxRx, wire, spiOrder, divider, transfers, txFifo, rxFifo, csAsked, csReg>>

\* An empty receive FIFO reads as zeros.
IoRegister == IF AuxData THEN Head(auxRx) ELSE <<0, 0, 0>>
RestOfFifo == IF AuxData THEN Tail(auxRx) ELSE <<>>
WordStored ==
  LET count == WordLen(spi.len - spi.RXCnt) IN
  [spi EXCEPT !.RXCnt = @ + count,
              !.rbuf = [k \in 1 .. spi.len |-> IF k \in spi.RXCnt + 1 .. spi.RXCnt + count THEN IoRegister[k - spi.RXCnt] ELSE @[k]]]
AuxRead ==
  /\ spi.at \in {"auxrx", "auxidle"}
  /\ IF spi.RXCnt < spi.len /\ (IF spi.at = "auxrx" THEN AuxData ELSE AuxQuiet)
     THEN spi' = WordStored /\ auxRx' = RestOfFifo
     ELSE /\ spi' = [spi EXCEPT !.at = CASE spi.at = "auxrx" -> "auxidle"
                                         [] spi.TXCnt < spi.len \/ spi.RXCnt < spi.len -> "auxtx"
                                         [] OTHER -> "idle"]
          /\ UNCHANGED auxRx
  /\ UNCHANGED <<auxTx, wire, spiOrder, divider, transfers, txFifo, rxFifo, csAsked, csReg>>

SpiNext ==
  \/ bcm2835_spi_transfer \/ bcm2835_spi_write
  \/ \E len \in SpiLengths : bcm2835_spi_transfernb(len) \/ bcm2835_spi_transfern(len) \/ bcm2835_spi_writenb(len)
  \/ \E len \in AuxLengths : bcm2835_aux_spi_writenb(len) \/ bcm2835_aux_spi_transfernb(len)
  \/ \E lsbFirst \in BOOLEAN : bcm2835_spi_setBitOrder(lsbFirst)
  \/ \E rate \in Speeds : bcm2835_aux_spi_setClockDivider(rate)
  \/ \E mode \in {0, 2} : bcm2835_spi_setDataMode(mode)
  \/ \E chip \in {0, 1} : bcm2835_spi_chipSelect(chip)
  \/ \E active \in BOOLEAN : bcm2835_spi_setChipSelectPolarity(1, active)
  \/ ShiftByte \/ ShiftWord
  \/ FillTx \/ EmptyRx \/ SendOne \/ Drain \/ SendWord \/ AwaitDone
  \/ AuxSend \/ AuxDiscard \/ AuxFill \/ AuxRead

(***************************************************************************)
(* Properties                                                              *)
(***************************************************************************)
Ordered(byte) == IF AuxCall \/ spi.call = "write" THEN byte ELSE correct_order(byte)

SentInOrder == \A k \in 1 .. Len(wire) : wire[k] = Ordered(k)
ReturnedWhole ==
  spi.at = "idle" /\ transfers > 0 /\ spi.call # "none" =>
    /\ Len(wire) = spi.len
    /\ spi.call \in {"transfer", "transfernb", "transfern", "aux_transfernb"} =>
         \A k \in 1 .. spi.len : spi.rbuf[k] = Ordered(Answer(k))
NeverStalled ==
  /\ SPI0 /\ txFifo # <<>> /\ Len(rxFifo) = SpiFifo => spi.at \notin {"wait", "one", "word"} /\ (spi.at = "done" => spi.call = "writenb")
  /\ AuxCall /\ auxTx # <<>> /\ Len(auxRx) = SpiFifo => spi.at \notin {"auxwait", "auxbusy"}
ControlKept ==
  csReg = ModeBits(csAsked.mode) \cup ChipBits(csAsked.chip) \cup {21 + chip : chip \in csAsked.active}
            \cup (IF SPI0 /\ spi.at # "idle" THEN {TA} ELSE {})
RateRespected ==
  divider.rate >= 30518 => CORE_CLK_HZ <= 2 * divider.rate * (divider.value + 1)

\* However the processor's tests of the status bits fall between the shifts of the hardware, the
\* bytes of a call go out once and in order - also when the answers are stored over them in the same
\* buffer - all of them have gone and the answers are whole when the call returns, nothing an
\* earlier call left behind is taken for an answer, and no call waits for a unit that has stopped
\* because its receive FIFO is full; the transfers and
\* the settings leave each other's bits of the control register alone, and SPI1 is never clocked
\* faster than asked.
SpiSound == (spi.at # "idle" => SentInOrder) /\ ReturnedWhole /\ NeverStalled /\ ControlKept /\ RateRespected
===============================================================================
