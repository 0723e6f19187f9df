------------------------------ MODULE Rf24Wire ------------------------------
(***************************************************************************)
(* The SPI frames of the RF24 driver and what the radio chip makes of      *)
(* them.  RF24.cpp builds each frame twice: in a buffer that goes out in   *)
(* one transfer on the gateway (RF24_LINUX), and byte by byte on the nodes *)
(* (Arduino).  A node sends payloads, the gateway reads them, with buffers *)
(* longer or shorter than the payload size the two have in common.         *)
(***************************************************************************)
EXTENDS Naturals, Sequences, SequencesExt

CONSTANTS
  PayloadSizes,   \* payload_size of both radios
  BufferSizes,    \* lengths the callers give
  MaxPayloadsSent,\* payloads
  MaxFrame        \* the size of spi_txbuff and spi_rxbuff

ASSUME Rf24WireAssumption ==
  /\ PayloadSizes \subseteq Nat \ {0} /\ BufferSizes \subseteq Nat /\ MaxPayloadsSent \in Nat
  /\ \A n \in PayloadSizes : n + 1 <= MaxFrame

VARIABLES
  link,     \* payload_size and dynamic_payloads_enabled, of both radios
  airFifo,  \* payloads in the receiver's FIFO
  address,  \* RX_ADDR_P0, a register of several bytes
  buffers,  \* spi_txbuff and spi_rxbuff of the gateway, with what earlier frames left in them
  sentBy,   \* the payloads the node's caller gave, not yet read
  handedTo, \* the last read: what the gateway's caller asked for, got, and should have got
  sentCount

wireVars == <<link, airFifo, address, buffers, sentBy, handedTo, sentCount>>

R_REGISTER == 0
W_REGISTER == 32
R_RX_PAYLOAD == 97
W_TX_PAYLOAD == 160
R_RX_PL_WID == 96
FLUSH_RX == 226
RF24_NOP == 255
REGISTER_MASK == 32   \* modulo, the mask 0x1F
RX_ADDR_P0 == 10
RxStatus == 14        \* the byte the chip answers a command with
Undriven == 254       \* what the chip sends when it has no more

Command(op, reg) == op + (reg % REGISTER_MASK)
Nops(n) == [i \in 1..n |-> RF24_NOP]
Zeros(n) == [i \in 1..n |-> 0]
Smaller(a, b) == IF a < b THEN a ELSE b
FirstBytes(s, n) == SubSeq(s, 1, Smaller(n, Len(s)))

Rf24WireInit ==
  /\ link \in [size : PayloadSizes, dynamic : BOOLEAN]
  /\ airFifo = <<>> /\ address = <<0, 0>> /\ sentBy = <<>> /\ sentCount = 0
  /\ buffers = [tx |-> Zeros(MaxFrame), rx |-> Zeros(MaxFrame)]
  /\ handedTo = [asked |-> 0, got |-> <<>>, sent |-> <<>>]

-----------------------------------------------------------------------------
(* The chip answers each byte of a frame while it receives it.             *)

ChipAnswer(frame) ==
  LET command == frame[1]
      out == IF command = R_RX_PAYLOAD THEN (IF airFifo = <<>> THEN <<>> ELSE Head(airFifo))
             ELSE IF command = R_RX_PL_WID THEN <<IF airFifo = <<>> THEN 0 ELSE Len(Head(airFifo))>>
             ELSE IF command = R_REGISTER + RX_ADDR_P0 THEN address ELSE <<>>
  IN [i \in 1..Len(frame) |-> IF i = 1 THEN RxStatus ELSE IF i - 1 <= Len(out) THEN out[i - 1] ELSE Undriven]

\* A payload is gone from the FIFO once it was read.
FifoAfter(frame) == IF frame[1] = FLUSH_RX THEN <<>>
                    ELSE IF frame[1] = R_RX_PAYLOAD /\ airFifo # <<>> THEN Tail(airFifo) ELSE airFifo

\* What a frame of the node puts on the air: a static payload has the size set, with anything in
\* the bytes the frame did not write.
OnAir(frame) == LET data == Tail(frame)
                IN IF link.dynamic THEN data ELSE FirstBytes(data \o [i \in 1..link.size |-> Undriven], link.size)

-----------------------------------------------------------------------------
(* The driver.  Both builds send the command, then the data.               *)

\* The gateway fills spi_txbuff and sends its first bytes; the rest keeps what was there.
Filled(old, frame) == [i \in 1..Len(old) |-> IF i <= Len(frame) THEN frame[i] ELSE old[i]]
LinuxFrame(frame) == SubSeq(Filled(buffers.tx, frame), 1, Len(frame))

\* _SPI.transfernb, between beginTransaction and endTransaction: the answer lands in spi_rxbuff
Transferred(frame) == [tx |-> Filled(buffers.tx, frame), rx |-> Filled(buffers.rx, ChipAnswer(LinuxFrame(frame)))]

Blanks(data_len) == IF link.dynamic THEN 0 ELSE link.size - data_len

WrittenLength(len) == Smaller(len, link.size)

\* RF24::write_payload of the node
write_payload(buf) ==
  LET n == WrittenLength(Len(buf))
      frame == <<W_TX_PAYLOAD>> \o FirstBytes(buf, n) \o Zeros(Blanks(n))
  IN /\ sentCount < MaxPayloadsSent
     /\ link.dynamic => n > 0
     /\ airFifo' = Append(airFifo, OnAir(frame))
     /\ sentBy' = Append(sentBy, FirstBytes(buf, n))
     /\ sentCount' = sentCount + 1
     /\ UNCHANGED <<link, address, buffers, handedTo>>

\* RF24::read_payload of the gateway: data_len bytes behind the status are copied out
read_payload(len) ==
  LET n == WrittenLength(len)
      frame == <<R_RX_PAYLOAD>> \o Nops(n + Blanks(n))
      done == Transferred(frame)
  IN /\ airFifo # <<>>
     /\ buffers' = done
     /\ airFifo' = FifoAfter(frame)
     /\ handedTo' = [asked |-> n, got |-> SubSeq(done.rx, 2, n + 1), sent |-> Head(sentBy)]
     /\ sentBy' = Tail(sentBy)
     /\ UNCHANGED <<link, address, sentCount>>

\* RF24::getDynamicPayloadSize; more than the chip can hold is a corrupt FIFO, which is flushed
getDynamicPayloadSize ==
  LET done == Transferred(<<R_RX_PL_WID, RF24_NOP>>)
  IN /\ link.dynamic /\ airFifo # <<>>
     /\ buffers' = done
     /\ IF done.rx[2] > 32 THEN airFifo' = FifoAfter(<<FLUSH_RX>>) /\ sentBy' = <<>> ELSE UNCHANGED <<airFifo, sentBy>>
     /\ UNCHANGED <<link, address, handedTo, sentCount>>

\* RF24::write_register, of one byte or several, least significant first
write_register(bytes) ==
  LET frame == <<Command(W_REGISTER, RX_ADDR_P0)>> \o bytes
  IN /\ address' = Tail(LinuxFrame(frame)) \o SubSeq(address, Len(bytes) + 1, Len(address))
     /\ buffers' = Transferred(frame)
     /\ UNCHANGED <<link, airFifo, sentBy, handedTo, sentCount>>

\* RF24::read_register
read_register(n) ==
  LET done == Transferred(<<Command(R_REGISTER, RX_ADDR_P0)>> \o Nops(n))
  IN /\ buffers' = done
     /\ handedTo' = [asked |-> n, got |-> SubSeq(done.rx, 2, n + 1), sent |-> FirstBytes(address, n)]
     /\ UNCHANGED <<link, airFifo, address, sentBy, sentCount>>

\* RF24::spiTrans, of a command without data
spiTrans(command) ==
  /\ airFifo' = FifoAfter(<<command>>)
  /\ sentBy' = IF airFifo' = <<>> THEN <<>> ELSE sentBy
  /\ UNCHANGED <<link, address, buffers, handedTo, sentCount>>

\* The caller's bytes differ from payload to payload.
CallerBuffer(len) == [i \in 1..len |-> 10 * (sentCount + 1) + i]

Rf24WireNext ==
  \/ \E len \in BufferSizes : write_payload(CallerBuffer(len)) \/ read_payload(len)
  \/ getDynamicPayloadSize
  \/ \E n \in 1..2 : write_register([i \in 1..n |-> 200 + i]) \/ read_register(n)
  \/ \E command \in {FLUSH_RX, RF24_NOP} : spiTrans(command)

-----------------------------------------------------------------------------

(* What the gateway's caller reads is what the node's caller wrote: as     *)
(* many of its bytes as both ask for, then the padding zeros of a static   *)
(* payload, and of a dynamic one nothing of an earlier frame; payloads are *)
(* read one by one, none twice and none skipped, whatever lengths are      *)
(* asked for; and a register reads as it was written.                      *)
Rf24WireSound ==
  /\ Len(handedTo.got) = handedTo.asked
  /\ \A i \in DOMAIN handedTo.got :
       handedTo.got[i] = IF i <= Len(handedTo.sent) THEN handedTo.sent[i]
                         ELSE IF link.dynamic THEN Undriven ELSE 0
  /\ Len(airFifo) = Len(sentBy)
  /\ \A i \in DOMAIN airFifo : FirstBytes(airFifo[i], Len(sentBy[i])) = sentBy[i]
=============================================================================
