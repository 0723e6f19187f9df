------------------------------ MODULE UartClient ------------------------------
(***************************************************************************)
(* The UART (Bluetooth) client: main and timer_handler of ClientUART.c,    *)
(* with serialOpen1 and serialDataAvail1 of wiringSerial1.c, its copy of   *)
(* timer.c, and the node that sends (bluetooth_master.ino).                *)
(*                                                                         *)
(* Every 500 ms SIGALRM closes and reopens the port, whatever main is      *)
(* doing.  The kernel delivers it to main's thread, so a run of the        *)
(* handler is one step between two steps of main.                          *)
(***************************************************************************)
EXTENDS Integers, Sequences, FiniteSets, IntervalTimer

CONSTANTS
  UartFds,    \* the descriptors 0, 1, ... that may be open
  UartIds,    \* the "id" fields of the frames that arrive
  MaxRx       \* bound: half frames in the port's input queue

ASSUME UartAssumption == UartFds \subseteq Nat

idBlue == 97
NoDesc == -1

VARIABLES
  uartPc,     \* main's place
  uartFd,     \* the global fd; 0 until the port has been opened
  uartOpened, \* what main's own serialOpen1 returned, before it is stored
  desc,       \* what each descriptor is: "free", "other", "tty" or "hung"
  present,    \* does /dev/ttyS0 exist?
  rx,         \* the port's input queue
  sent,       \* the node: the half frame it sent last
  uartMsg,    \* what the last read() put into msg
  uartOut     \* the last text given to publish_mess

uartPort == <<desc, present, rx, sent>>
uartOwn == <<uartPc, uartFd, uartOpened, uartPort, uartMsg, uartOut>>
uartVars == <<uartOwn, timerVars>>

\* A frame of 46 bytes travels as two halves; msg holds 50 bytes, so a read()
\* takes two halves at most, and only two halves are more than 41 bytes.
NoHalf == [id |-> 0, n |-> 0, half |-> 2]

\* Descriptor 0 is standard input, as in any process.
UartInit ==
  /\ uartPc = "arm" /\ uartFd = 0 /\ uartOpened = NoDesc
  /\ desc = [d \in UartFds |-> IF d = 0 THEN "other" ELSE "free"]
  /\ present = TRUE /\ rx = <<>> /\ sent = NoHalf
  /\ uartMsg = <<>> /\ uartOut = <<>>
  /\ TimerInit
-------------------------------------------------------------------------------
\* The port and the node.

Lowest(free) == CHOOSE d \in free : \A e \in free : d <= e
IsPort(d) == d \in UartFds /\ desc[d] \in {"tty", "hung"}
PortOpen == \E d \in UartFds : desc[d] = "tty"

\* The node sends the two halves of a frame in turn.  What arrives while nobody
\* has the port open is lost.  n tells a frame from the next one.
UartSend ==
  /\ Len(rx) < MaxRx
  /\ IF sent.half = 1 THEN sent' = [sent EXCEPT !.half = 2]
     ELSE \E id \in UartIds : sent' = [id |-> id, n |-> 1 - sent.n, half |-> 1]
  /\ rx' = IF PortOpen THEN Append(rx, sent') ELSE <<>>
  /\ UNCHANGED <<uartPc, uartFd, uartOpened, desc, present, uartMsg, uartOut, timerVars>>

\* The device goes away: open descriptors hang up.  It may come back.
UartUnplug ==
  /\ present /\ present' = FALSE
  /\ desc' = [d \in UartFds |-> IF desc[d] = "tty" THEN "hung" ELSE desc[d]]
  /\ rx' = <<>>
  /\ UNCHANGED <<uartPc, uartFd, uartOpened, sent, uartMsg, uartOut, timerVars>>

UartPlug ==
  /\ ~present /\ present' = TRUE
  /\ UNCHANGED <<uartPc, uartFd, uartOpened, desc, rx, sent, uartMsg, uartOut, timerVars>>

\* close(d) on the descriptor table t; the last one to go empties the queue.
Closed(t, d) == IF d \in UartFds THEN [t EXCEPT ![d] = "free"] ELSE t

\* serialOpen1 on the table t: open() takes the lowest free descriptor or
\* fails, and TCSAFLUSH drops what is in the queue.
serialOpen1(t) ==
  LET free == {d \in UartFds : t[d] = "free"}
  IN IF present /\ free # {}
     THEN [fd |-> Lowest(free), desc |-> [t EXCEPT ![Lowest(free)] = "tty"], rx |-> <<>>]
     ELSE [fd |-> NoDesc, desc |-> t,
           rx |-> IF \E d \in UartFds : t[d] = "tty" THEN rx ELSE <<>>]
-------------------------------------------------------------------------------
\* main.

UartGoto(from, to) == uartPc = from /\ uartPc' = to

UartArm ==
  /\ UartGoto("arm", "install") /\ StartArm("timer_handler")
  /\ UNCHANGED <<uartFd, uartOpened, uartPort, uartMsg, uartOut>>

UartInstall ==
  /\ UartGoto("install", "open") /\ StartInstall
  /\ UNCHANGED <<uartFd, uartOpened, uartPort, uartMsg, uartOut>>

\* Lines 134-136: the call, and the store of its result.
UartOpen ==
  /\ UartGoto("open", "store")
  /\ LET o == serialOpen1(desc)
     IN uartOpened' = o.fd /\ desc' = o.desc /\ rx' = o.rx
  /\ UNCHANGED <<uartFd, present, sent, uartMsg, uartOut, timerVars>>

UartStore ==
  /\ UartGoto("store", "avail")
  /\ uartFd' = uartOpened /\ uartOpened' = NoDesc
  /\ UNCHANGED <<uartPort, uartMsg, uartOut, timerVars>>

\* Line 138: the loop runs unless serialDataAvail1 returns 0; on a descriptor
\* that does not work it returns -1.
DataAvail == ~(IsPort(uartFd) /\ desc[uartFd] = "tty") \/ rx # <<>>

UartAvail ==
  /\ DataAvail /\ UartGoto("avail", "read")
  /\ UNCHANGED <<uartFd, uartOpened, uartPort, uartMsg, uartOut, timerVars>>

\* Line 160: nothing to read; sleep and look again.
UartSleep ==
  /\ \/ ~DataAvail /\ UartGoto("avail", "sleep")
     \/ UartGoto("sleep", "avail")
  /\ UNCHANGED <<uartFd, uartOpened, uartPort, uartMsg, uartOut, timerVars>>

\* Mutants: a handler that keeps its descriptor to itself, and a read that
\* appends to what msg held.
MutantHandler(o) == desc' = o.desc /\ rx' = o.rx /\ UNCHANGED uartFd
MutantReadInto(chunk) == uartMsg' = IF Len(uartMsg) = 1 THEN uartMsg \o chunk ELSE chunk

\* Lines 140-141: msg is cleared before the read().
ReadInto(chunk) == uartMsg' = chunk

\* read(): what is there, up to the size of msg; an error, a hang-up, a timeout
\* and an interrupted call all give no bytes.
UartRead ==
  /\ UartGoto("read", "check")
  /\ LET k == IF IsPort(uartFd) /\ desc[uartFd] = "tty"
              THEN IF Len(rx) < 2 THEN Len(rx) ELSE 2
              ELSE 0
     IN ReadInto(SubSeq(rx, 1, k)) /\ rx' = SubSeq(rx, k + 1, Len(rx))
  /\ UNCHANGED <<uartFd, uartOpened, desc, present, sent, uartOut, timerVars>>

\* json_tokener_parse finds an object only if msg starts with one and has all
\* of it; otherwise the id is 0.
ParsedId(m) == IF Len(m) = 2 /\ m[1].half = 1 /\ m[2].half = 2 THEN m[1].id ELSE 0

\* Lines 143-155: more than 41 bytes, and the id of the Bluetooth node.
UartCheck ==
  /\ UartGoto("check", "avail")
  /\ uartOut' = IF Len(uartMsg) = 2 /\ ParsedId(uartMsg) = idBlue THEN uartMsg ELSE uartOut
  /\ UNCHANGED <<uartFd, uartOpened, uartPort, uartMsg, timerVars>>

HandlerStores(o) == desc' = o.desc /\ rx' = o.rx /\ uartFd' = o.fd

\* timer_handler, lines 54-61, between any two steps of main once its handler
\* is installed (the first 500 ms cannot pass before that).
UartAlarm ==
  /\ AlarmCalls("timer_handler")
  /\ HandlerStores(serialOpen1(Closed(desc, uartFd)))
  /\ UNCHANGED <<uartPc, uartOpened, present, sent, uartMsg, uartOut, timerVars>>

UartMain == UartArm \/ UartInstall \/ UartOpen \/ UartStore \/ UartAvail \/ UartSleep
            \/ UartRead \/ UartCheck
UartNext == UartMain \/ UartAlarm \/ UartSend \/ UartUnplug \/ UartPlug
UartFairness == WF_uartVars(UartMain) /\ WF_uartVars(UartAlarm)
UartSpec == UartInit /\ [][UartNext]_uartVars /\ UartFairness
-------------------------------------------------------------------------------
\* Properties.

\* However often the handler closes and reopens, the process never holds more
\* than two descriptors of the port: the one in fd, and at most one that was
\* lost when the first alarm came between main's serialOpen1 and its store to
\* fd (line 134).
PortDescriptorsBounded == Cardinality({d \in UartFds : IsPort(d)}) <= 2

\* main never asks or reads anything but the serial port, although the handler
\* closes descriptor 0 when it comes before main's first open, and changes fd
\* between the test (line 138) and the read (line 141).
MainUsesPort ==
  uartPc \in {"avail", "read", "check", "sleep"} => uartFd = NoDesc \/ IsPort(uartFd)

\* Both: the port's descriptors are kept track of.
PortKept == PortDescriptorsBounded /\ MainUsesPort

\* What is published on data_bl is one frame of the Bluetooth node, and never
\* the first half of one with the second half of another, although a reopen may
\* drop a half at any moment and a device may disappear in the middle.
NoSplicedFrame ==
  uartOut # <<>> => /\ uartOut[1].id = idBlue
                    /\ uartOut[1].n = uartOut[2].n /\ uartOut[1].id = uartOut[2].id

\* Both: main reads whole frames of the port it has open, whatever the alarm
\* closes and reopens under it.
PortSound == PortKept /\ NoSplicedFrame

\* A port that hung up, or could not be opened, is working again in the end, or
\* the device is away.
PortRecovers ==
  (uartPc \in {"avail", "read", "check", "sleep"} /\ ~(IsPort(uartFd) /\ desc[uartFd] = "tty"))
    ~> ((IsPort(uartFd) /\ desc[uartFd] = "tty") \/ ~present)
===============================================================================
