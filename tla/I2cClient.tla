------------------------------ MODULE I2cClient ------------------------------
(***************************************************************************)
(* The I2C client: main, sendRequestToNode, threadfunction2, timer_handler *)
(* and scan_address of clientI2C.c, with its copy of timer.c.              *)
(*                                                                         *)
(* Two threads share one bus descriptor, one timer and one mutex.  SIGALRM *)
(* interrupts main, so its handler's steps and main's do not overlap, but  *)
(* both overlap with the thread's.  A scan takes less than the 500 ms to   *)
(* the next SIGALRM, so handlers do not nest.                              *)
(***************************************************************************)
EXTENDS Integers, IntervalTimer

CONSTANTS
  MaxBusFds   \* how often /dev/i2c-0 can be opened (RLIMIT_NOFILE)

NodeAddress == 9      \* SLAVE_ADDR of I2Cuser.ino
OtherAddress == 127   \* where a scan leaves the descriptor
Undetected == 200
NoBus == -1

VARIABLES
  mainPc,    \* main's place
  handlerPc, \* the place in timer_handler, "none" when it does not run
  threadPc,  \* the place of threadfunction2, "none" before it is created
  mutexsum,  \* the lock word: "free" or "locked"
  address, a, var,  \* the globals of those names
  flag,      \* scan_address: has it seen a node?
  busFds,    \* how often the device has been opened; it is never closed
  bus,       \* the global fd: the number of the last open, or NoBus
  slave,     \* the slave address set on bus
  node,      \* is the node on the bus?
  killed     \* has SIGALRM ended the process?

i2cData == <<address, a, var, flag, busFds, bus, slave, node, killed>>
i2cOwn == <<mainPc, handlerPc, threadPc, mutexsum, i2cData>>
i2cVars == <<i2cOwn, timerVars>>

I2cInit ==
  /\ mainPc = "arm" /\ handlerPc = "none" /\ threadPc = "none"
  /\ mutexsum = "free"  \* a static mutex is zero, which is an unlocked one
  /\ address = -1 /\ a = 0 /\ var = 0 /\ flag = FALSE
  /\ busFds = 1 /\ bus = 1 /\ slave = 0
  /\ node = FALSE /\ killed = FALSE
  /\ TimerInit

\* The test of lines 127 and 276.
Unknown(addr) == addr > 128 \/ addr < 0

\* An address the driver accepts; a transfer works if the node is there.
Acceptable(addr) == bus # NoBus /\ addr >= 0 /\ addr < 128
Answers == bus # NoBus /\ node /\ slave = NodeAddress
-------------------------------------------------------------------------------
\* main, while no handler has interrupted it.

MainGoto(from, to) ==
  /\ mainPc = from /\ mainPc' = to
  /\ handlerPc = "none" /\ ~killed
  /\ UNCHANGED <<handlerPc, threadPc>>

\* Lines 271-275.
I2cArm ==
  /\ MainGoto("arm", "install") /\ StartArm("timer_handler")
  /\ UNCHANGED <<mutexsum, i2cData>>

I2cInstall ==
  /\ MainGoto("install", "wait") /\ StartInstall
  /\ UNCHANGED <<mutexsum, i2cData>>

\* Lines 276-291: spin until a scan has found an address, then start the thread.
I2cCreate ==
  /\ ~Unknown(address)
  /\ mainPc = "wait" /\ mainPc' = "init" /\ handlerPc = "none" /\ ~killed
  /\ threadPc' = "top"
  /\ UNCHANGED <<handlerPc, mutexsum, i2cData, timerVars>>

\* Line 293: initialised when the thread may already hold it.
I2cInitMutex ==
  /\ MainGoto("init", "poll") /\ mutexsum' = "free"
  /\ UNCHANGED <<i2cData, timerVars>>

\* Lines 295-313 and 234: every second a request.
I2cRequest ==
  /\ MainGoto("poll", "ioctl")
  /\ mutexsum = "free" /\ mutexsum' = "locked"
  /\ UNCHANGED <<i2cData, timerVars>>

\* Lines 235-237: address the node.
I2cIoctl ==
  /\ MainGoto("ioctl", IF Acceptable(address) THEN "write" ELSE "open")
  /\ mutexsum' = "free"
  /\ slave' = IF Acceptable(address) THEN address ELSE slave
  /\ UNCHANGED <<address, a, var, flag, busFds, bus, node, killed, timerVars>>

\* Lines 247-256: what goes out does not matter here, nor to whom.
I2cWrite ==
  /\ MainGoto("write", "poll") /\ mutexsum = "free"
  /\ UNCHANGED <<mutexsum, i2cData, timerVars>>

\* open() without a close() of the old descriptor.
Reopen ==
  IF busFds < MaxBusFds THEN busFds' = busFds + 1 /\ bus' = busFds + 1 /\ slave' = 0
                        ELSE busFds' = busFds /\ bus' = NoBus /\ slave' = 0

\* Lines 239-242, under the lock.
I2cOpen ==
  /\ MainGoto("open", "poll") /\ mutexsum = "free"
  /\ Reopen /\ a' = 0
  /\ UNCHANGED <<mutexsum, address, var, flag, node, killed, timerVars>>
-------------------------------------------------------------------------------
\* timer_handler and scan_address, in main's place.

\* SIGALRM: the first 500 ms cannot pass within a start_timer.
I2cAlarm ==
  /\ handlerPc = "none" /\ ~killed
  /\ mainPc # "install" /\ threadPc \notin {"install", "lostInstall"}
  /\ \/ /\ AlarmCalls("timer_handler")
        /\ handlerPc' = "scan" /\ var' = var + 1 /\ flag' = FALSE
        /\ UNCHANGED killed
     \/ /\ AlarmKills /\ killed' = TRUE
        /\ UNCHANGED <<handlerPc, var, flag>>
  /\ UNCHANGED <<mainPc, threadPc, mutexsum, address, a, busFds, bus, slave, node, timerVars>>

\* Lines 57-62: after five scans the sixth gives up at once.
ScanGivesUp ==
  /\ handlerPc = "scan" /\ var > 5
  /\ var' = 0 /\ handlerPc' = "scanned"
  /\ UNCHANGED <<mainPc, threadPc, mutexsum, address, a, flag, busFds, bus, slave, node, killed, timerVars>>

\* Lines 65-77, up to the node's address, which sets address at once ...
ScanNode ==
  /\ handlerPc = "scan" /\ var <= 5
  /\ handlerPc' = "scanRest"
  /\ IF bus # NoBus /\ node
     THEN address' = NodeAddress /\ flag' = TRUE /\ slave' = NodeAddress
     ELSE slave' = (IF bus = NoBus THEN slave ELSE NodeAddress) /\ UNCHANGED <<address, flag>>
  /\ UNCHANGED <<mainPc, threadPc, mutexsum, a, var, busFds, bus, node, killed, timerVars>>

\* ... and from there to the end.
ScanRest ==
  /\ handlerPc = "scanRest" /\ handlerPc' = "scanned"
  /\ slave' = IF bus = NoBus THEN slave ELSE OtherAddress
  /\ UNCHANGED <<mainPc, threadPc, mutexsum, address, a, var, flag, busFds, bus, node, killed, timerVars>>

\* Lines 81-89 and 222-224: the result goes into address, read again if found.
ScanReturns ==
  /\ handlerPc = "scanned"
  /\ address' = IF flag THEN address ELSE Undetected
  /\ handlerPc' = IF address' < 128 /\ address' > 0 THEN "disarm" ELSE "none"
  /\ UNCHANGED <<mainPc, threadPc, mutexsum, a, var, flag, busFds, bus, slave, node, killed, timerVars>>

\* Line 227: stop_timer.
HandlerStop ==
  /\ \/ handlerPc = "disarm" /\ handlerPc' = "restore" /\ StopDisarm
     \/ handlerPc = "restore" /\ handlerPc' = "none" /\ StopRestore
  /\ UNCHANGED <<mainPc, threadPc, mutexsum, i2cData>>

Handler == ScanGivesUp \/ ScanNode \/ ScanRest \/ ScanReturns \/ HandlerStop
-------------------------------------------------------------------------------
\* threadfunction2.

ThreadGoto(from, to) ==
  /\ threadPc = from /\ threadPc' = to /\ ~killed
  /\ UNCHANGED <<mainPc, handlerPc>>

MutantSearchOn == UNCHANGED timerVars

SearchOn == StartArm("timer_handler")

\* Lines 127-139: look for a node, or stop looking.
ThreadTimer ==
  /\ \/ Unknown(address) /\ ThreadGoto("top", "install") /\ SearchOn
     \/ ~Unknown(address) /\ ThreadGoto("top", "restore") /\ StopDisarm
     \/ ThreadGoto("install", "lock") /\ StartInstall
     \/ ThreadGoto("restore", "lock") /\ StopRestore
  /\ UNCHANGED <<mutexsum, i2cData>>

\* Lines 143-145 and 174-176: lock, read, unlock.
ThreadLock ==
  /\ mutexsum = "free" /\ mutexsum' = "locked"
  /\ ThreadGoto("lock", "read") \/ ThreadGoto("lockLoop", "readLoop")
  /\ UNCHANGED <<i2cData, timerVars>>

MutantUnlock == UNCHANGED mutexsum

\* pthread_mutex_unlock, whoever holds it.
Unlock == mutexsum' = "free"

ThreadRead ==
  /\ \/ ThreadGoto("read", IF Answers THEN "found" ELSE "lost")
     \/ ThreadGoto("readLoop", IF Answers THEN "while" ELSE "clear")
  /\ Unlock
  /\ UNCHANGED <<i2cData, timerVars>>

\* Lines 152-158: under the lock, forget the address and search again.
ThreadLost ==
  /\ ThreadGoto("lost", "lostArm")
  /\ mutexsum = "free" /\ mutexsum' = "locked"
  /\ a' = 0 /\ address' = -1
  /\ UNCHANGED <<var, flag, busFds, bus, slave, node, killed, timerVars>>

ThreadSearch ==
  /\ \/ ThreadGoto("lostArm", "lostInstall") /\ SearchOn /\ UNCHANGED mutexsum
     \/ ThreadGoto("lostInstall", "while") /\ StartInstall /\ Unlock
  /\ UNCHANGED i2cData

\* Lines 164-166 and 183-186.
ThreadFlag ==
  /\ mutexsum = "free"
  /\ \/ ThreadGoto("found", "while") /\ a' = 1
     \/ ThreadGoto("clear", "while") /\ a' = 0
  /\ UNCHANGED <<mutexsum, address, var, flag, busFds, bus, slave, node, killed, timerVars>>

\* Line 169, and the sleep of line 214.
ThreadWhile ==
  /\ ThreadGoto("while", IF a = 1 THEN "lockLoop" ELSE "top")
  /\ UNCHANGED <<mutexsum, i2cData, timerVars>>

\* The node is plugged and unplugged.
NodeMoves ==
  /\ ~killed /\ node' = ~node
  /\ UNCHANGED <<mainPc, handlerPc, threadPc, mutexsum, address, a, var, flag, busFds, bus, slave, killed, timerVars>>

I2cMain == I2cArm \/ I2cInstall \/ I2cCreate \/ I2cInitMutex \/ I2cRequest \/ I2cIoctl
           \/ I2cWrite \/ I2cOpen
I2cThread == ThreadTimer \/ ThreadLock \/ ThreadRead \/ ThreadLost \/ ThreadSearch
             \/ ThreadFlag \/ ThreadWhile
I2cNext == I2cMain \/ I2cAlarm \/ Handler \/ I2cThread \/ NodeMoves

\* Threads are scheduled, and main takes the lock once a second, so that the
\* thread is not kept out of it for ever.  A thread that starts the timer again
\* and again does so every two seconds, so a SIGALRM comes in between.
I2cFairness ==
  /\ SF_i2cVars(I2cMain) /\ SF_i2cVars(I2cThread)
  /\ WF_i2cVars(Handler) /\ SF_i2cVars(I2cAlarm)
I2cSpec == I2cInit /\ [][I2cNext]_i2cVars /\ I2cFairness
-------------------------------------------------------------------------------
\* Properties.

\* The lock word says locked only while a thread is between its lock and its
\* unlock, although it is initialised when the thread may hold it (line 293),
\* and either thread may then unlock what the other has locked.
MutexNeverStuck ==
  mutexsum = "locked" => mainPc = "ioctl"
                         \/ threadPc \in {"read", "readLoop", "lostArm", "lostInstall"}

\* As long as no address is known the bus is scanned again, whatever the
\* handler's stop_timer and the thread's start_timer and stop_timer do to each
\* other; the one way out is a SIGALRM that ends the process.
SearchGoesOn ==
  (threadPc # "none" /\ Unknown(address)) ~> (~Unknown(address) \/ handlerPc # "none" \/ killed)
===============================================================================
