-------------------------------- MODULE BcmI2c --------------------------------
(***************************************************************************)
(* The polled I2C transfers of bcm2835.c over a BSC unit: the processor    *)
(* fills or empties the FIFO and tests one status bit at a time, the unit  *)
(* moves bytes, sets DONE and the error bits, which stay until they are    *)
(* written.  The k-th byte of a call is k, the slave answers 100 + k.      *)
(***************************************************************************)
EXTENDS Integers, Sequences

CONSTANTS
  I2cLengths,   \* the lengths of transfers
  BscFifo,      \* BCM2835_BSC_FIFO_SIZE, 16
  MaxI2cCalls   \* calls in a row

ASSUME I2cAssumption == I2cLengths \subseteq Nat \ {0} /\ BscFifo \in Nat \ {0} /\ MaxI2cCalls \in Nat

VARIABLES
  i2c,      \* the call: which, the place in it, i and remaining, its buffer, its reason
  bsc,      \* the unit: its FIFO, DONE, ERR, CLKT and TA, the bytes left of its transfer and its
            \* direction; next: the length of a read started while a write goes on
  moved,    \* ghost: bytes the slave took, and bytes it gave, in this call
  i2cCalls  \* calls made

i2cVars == <<i2c, bsc, moved, i2cCalls>>

I2cInit ==
  /\ i2c = [call |-> "none", at |-> "idle", i |-> 0, remaining |-> 0, cmds |-> 0, len |-> 0, buf |-> <<>>, reason |-> "none"]
  /\ bsc = [fifo |-> <<>>, DONE |-> FALSE, ERR |-> FALSE, CLKT |-> FALSE, TA |-> FALSE, left |-> 0, read |-> FALSE, next |-> 0]
  /\ moved = [taken |-> <<>>, given |-> 0]
  /\ i2cCalls = 0

\* Mutant: what the last transfer left in the status is not cleared.
MutantClearStatus(unit) == [unit EXCEPT !.fifo = <<>>]

\* CLEAR_1 in the control register, and ones written to the three bits of the status.
ClearStatus(unit) == [unit EXCEPT !.fifo = <<>>, !.DONE = FALSE, !.ERR = FALSE, !.CLKT = FALSE]

\* The FIFO is filled before the start as far as it goes.
Populated(len) == IF len < BscFifo THEN len ELSE BscFifo
Started(unit, len, read) == [unit EXCEPT !.TA = TRUE, !.left = len, !.read = read]

\* A call begins when the unit is at rest (see the README).
StartI2c(call, at, cmds, len) ==
  /\ i2c.at = "idle" /\ i2cCalls < MaxI2cCalls /\ ~bsc.TA
  /\ i2cCalls' = i2cCalls + 1
  /\ moved' = [taken |-> <<>>, given |-> 0]
  /\ i2c' = [call |-> call, at |-> at, i |-> Populated(cmds), remaining |-> IF call = "write" THEN cmds - Populated(cmds) ELSE len,
             cmds |-> cmds, len |-> len, buf |-> [k \in 1 .. len |-> 0], reason |-> "none"]
  /\ bsc' = IF call = "read" THEN Started(ClearStatus(bsc), len, TRUE)
            ELSE [Started(ClearStatus(bsc), cmds, FALSE) EXCEPT !.fifo = [k \in 1 .. Populated(cmds) |-> k]]
bcm2835_i2c_write(len) == StartI2c("write", "sending", len, 0)
bcm2835_i2c_read(len) == StartI2c("read", "reading", 0, len)
bcm2835_i2c_read_register_rs(len) == StartI2c("read_register_rs", "poll", 1, len)
\* Commands past the FIFO are never written to it: remaining and i are set anew for the read.
bcm2835_i2c_write_read_rs(cmds, len) == StartI2c("write_read_rs", "poll", cmds, len)

(***************************************************************************)
(* The unit (external).  A read started while a write goes on follows it   *)
(* without a stop; an error ends both.                                     *)
(***************************************************************************)
Ended(unit) == [unit EXCEPT !.TA = FALSE, !.DONE = TRUE, !.left = 0, !.next = 0]
AfterByte(unit) ==
  CASE unit.left > 1 -> [unit EXCEPT !.left = @ - 1]
    [] unit.left <= 1 /\ unit.next > 0 -> [unit EXCEPT !.left = unit.next, !.next = 0, !.read = TRUE, !.fifo = <<>>]
    [] OTHER -> Ended(unit)
ByteOut ==
  /\ bsc.TA /\ ~bsc.read /\ bsc.fifo # <<>>
  /\ moved' = [moved EXCEPT !.taken = Append(@, Head(bsc.fifo))]
  /\ bsc' = AfterByte([bsc EXCEPT !.fifo = Tail(@)])
  /\ UNCHANGED <<i2c, i2cCalls>>
ByteIn ==
  /\ bsc.TA /\ bsc.read /\ Len(bsc.fifo) < BscFifo
  /\ moved' = [moved EXCEPT !.given = @ + 1]
  /\ bsc' = AfterByte([bsc EXCEPT !.fifo = Append(@, 101 + moved.given)])
  /\ UNCHANGED <<i2c, i2cCalls>>
\* The commands that fitted the FIFO are out, and the length of the write is that of the read by
\* now: the unit goes on with the read (it may also stretch the clock, until CLKT or for ever).
CommandsRunOut ==
  /\ bsc.TA /\ ~bsc.read /\ bsc.fifo = <<>> /\ bsc.next > 0
  /\ bsc' = [bsc EXCEPT !.left = bsc.next, !.next = 0, !.read = TRUE]
  /\ UNCHANGED <<i2c, moved, i2cCalls>>
BusError ==
  /\ bsc.TA
  /\ \E nack \in BOOLEAN : bsc' = Ended([bsc EXCEPT !.ERR = @ \/ nack, !.CLKT = @ \/ ~nack])
  /\ UNCHANGED <<i2c, moved, i2cCalls>>

(***************************************************************************)
(* The processor.                                                          *)
(***************************************************************************)
\* write: until DONE, a byte whenever there is room.
Sending ==
  /\ i2c.at = "sending"
  /\ IF bsc.DONE THEN i2c' = [i2c EXCEPT !.at = "reason"] /\ UNCHANGED bsc
     ELSE /\ i2c.remaining > 0 /\ Len(bsc.fifo) < BscFifo
          /\ bsc' = [bsc EXCEPT !.fifo = Append(@, i2c.i + 1)]
          /\ i2c' = [i2c EXCEPT !.i = @ + 1, !.remaining = @ - 1]
  /\ UNCHANGED <<moved, i2cCalls>>

\* The transfers with a repeated start wait for TA, or for the DONE of a stage that was missed,
\* and start the read; DONE is not cleared before it.
RepeatedStart ==
  /\ i2c.at = "poll" /\ (bsc.TA \/ bsc.DONE)
  /\ i2c' = [i2c EXCEPT !.at = "reading", !.i = 0]
  /\ bsc' = IF bsc.TA THEN [bsc EXCEPT !.next = i2c.len] ELSE Started(bsc, i2c.len, TRUE)
  /\ UNCHANGED <<moved, i2cCalls>>

\* Until DONE, and after it until the FIFO is empty, a byte whenever there is one.
Reading ==
  /\ i2c.at = "reading"
  /\ IF i2c.remaining > 0 /\ bsc.read /\ bsc.fifo # <<>>
     THEN /\ i2c' = [i2c EXCEPT !.buf[i2c.len - i2c.remaining + 1] = Head(bsc.fifo), !.remaining = @ - 1]
          /\ bsc' = [bsc EXCEPT !.fifo = Tail(@)]
     ELSE bsc.DONE /\ i2c' = [i2c EXCEPT !.at = "reason"] /\ UNCHANGED bsc
  /\ UNCHANGED <<moved, i2cCalls>>

\* The error bits come before a count that was not reached; the last write goes to the control
\* register, so that DONE stays set in the status.
Reason ==
  /\ i2c.at = "reason"
  /\ i2c' = [i2c EXCEPT !.at = "idle",
                        !.reason = CASE bsc.ERR -> "ERROR_NACK" [] ~bsc.ERR /\ bsc.CLKT -> "ERROR_CLKT"
                                     [] ~bsc.ERR /\ ~bsc.CLKT /\ i2c.remaining > 0 -> "ERROR_DATA" [] OTHER -> "OK"]
  /\ UNCHANGED <<bsc, moved, i2cCalls>>

I2cNext ==
  \/ \E len \in I2cLengths :
       \/ bcm2835_i2c_write(len) \/ bcm2835_i2c_read(len) \/ bcm2835_i2c_read_register_rs(len)
       \/ \E cmds \in I2cLengths : bcm2835_i2c_write_read_rs(cmds, len)
  \/ ByteOut \/ ByteIn \/ CommandsRunOut \/ BusError
  \/ Sending \/ RepeatedStart \/ Reading \/ Reason
I2cBusSpec == I2cInit /\ [][I2cNext]_i2cVars

(***************************************************************************)
(* Properties                                                              *)
(***************************************************************************)
\* A transfer is reported as done only when the slave took every byte, in order, and every byte it
\* gave is in the buffer, however the tests of the status fall between the steps of the unit,
\* whatever bits an earlier transfer left set, and also when the whole first stage was missed.  Of
\* the commands of a combined transfer only those that fit the FIFO are promised.
I2cSound ==
  i2c.reason = "OK" =>
    /\ moved.taken = [k \in 1 .. (IF i2c.call = "write" THEN i2c.cmds ELSE Populated(i2c.cmds)) |-> k]
    /\ i2c.buf = [k \in 1 .. i2c.len |-> 100 + k]
===============================================================================
