---------------------------- MODULE RadioScheduler ----------------------------
(***************************************************************************)
(* The LoRa/RF24 receiver process: main, rx_f and the timer handlers of    *)
(* lora_rf24_receive.cpp, with the LoRa_begin/receive/end session, the     *)
(* receive interrupt of LoRa.c and the timer of timer.c.                   *)
(*                                                                         *)
(* main visits six windows in turn; in windows 1, 3, 5 it listens on an    *)
(* RF24 module, in 2 and 4 on a LoRa module, all behind one multiplexer.   *)
(* Concurrent with main: SIGALRM, pigpio's interrupt thread, and one       *)
(* callback thread per LoRa packet, which nobody joins.                    *)
(***************************************************************************)
EXTENDS Naturals, FiniteSets, IntervalTimer

CONSTANTS
  Threads,  \* callback threads that may run at the same time (bound)
  LoraIds,  \* the "id" fields of received LoRa packets, 0 if there is none
  RfIds,    \* the same for RF24 frames
  MaxCount  \* bound: countLora stops there; only countLora > 2 is ever tested

idLora == 95
idRF24 == 96
NoPacket == 1000
Windows == 0..5
RfWindows == {1, 3, 5}
LoraWindows == {2, 4}

\* Ids are those the nodes send; NoPacket is none of them.
ASSUME IdsAssumption ==
  /\ LoraIds \subseteq Nat \ {NoPacket}
  /\ RfIds \subseteq Nat \ {NoPacket}
  /\ MaxCount \in Nat /\ MaxCount >= 3

\* The multiplexer inputs <<gpio_A, gpio_B, gpio_C>> of each window.
MuxOf == [w \in Windows |-> CASE w = 1 -> <<1, 1, 1>> [] w = 2 -> <<1, 0, 0>>
                              [] w = 3 -> <<1, 1, 0>> [] w = 4 -> <<0, 1, 0>>
                              [] w = 5 -> <<1, 0, 1>> [] OTHER -> <<0, 0, 0>>]

VARIABLES
  pc, select,      \* main's place and the current window
  mux, gpio_26,    \* the multiplexer inputs and its enable line
  radio,           \* is the RF24 module listening?
  spid,            \* the modem's SPI handle: "closed", "open" or "failed"
  isr,             \* is rxDoneISRf installed?
  isrpc,           \* the interrupt thread: "idle" or "busy" in rxDoneISRf
  chip,            \* the packet in the modem's FIFO, or NoPacket
  lorabuff,        \* the receive buffer all callbacks share
  cb,              \* each callback thread's place: "none" or in rx_f
  loaded,          \* what each callback thread has loaded and not yet stored
  count, countLora,\* the counters that end the windows
  reg,             \* what main has loaded and not yet stored
  pubmsg,          \* the buffer its payload points to
  parsed_json,     \* the "id" field of the object it points to
  idNode,          \* the id it points to
  checkResponse,   \* the id that was found; main and the callbacks share all four
  frame,           \* the id of the RF24 frame in nrfbuff
  calm,            \* had every callback ended when main read that frame?
  rfSent           \* frames published on data_rf in this window

gpio == <<mux, gpio_26>>
modem == <<spid, isr, isrpc, chip, lorabuff>>
callbacks == <<cb, loaded>>
rf == <<radio, frame, calm, rfSent, reg>>
globals == <<pubmsg, parsed_json, idNode, checkResponse>>
shared == <<count, countLora, globals>>
vars == <<pc, select, gpio, modem, callbacks, rf, shared, timerVars>>

Init ==
  /\ pc = "switch" /\ select = 0
  /\ mux = MuxOf[0] /\ gpio_26 = 0
  /\ radio = FALSE /\ spid = "closed" /\ isr = FALSE /\ isrpc = "idle"
  /\ chip = NoPacket /\ lorabuff = 0
  /\ cb = [t \in Threads |-> "none"] /\ loaded = [t \in Threads |-> 0]
  /\ count = 0 /\ countLora = 0 /\ reg = 0
  /\ pubmsg = "none" /\ parsed_json = 0 /\ idNode = 0 /\ checkResponse = 0
  /\ frame = 0 /\ calm = FALSE /\ rfSent = 0
  /\ TimerInit
-------------------------------------------------------------------------------
\* main.

Goto(from, to) == pc = from /\ pc' = to

\* Case 0 does nothing.
Skip ==
  /\ select = 0 /\ Goto("switch", "next")
  /\ UNCHANGED <<select, gpio, modem, callbacks, rf, shared, timerVars>>

\* Line 865.
NextWindow == (select + 1) % 6

Advance ==
  /\ Goto("next", "switch")
  /\ select' = NextWindow
  /\ UNCHANGED <<gpio, modem, callbacks, rf, shared, timerVars>>

\* Lines 683-686, 756-758, 824-826: only window 1 writes gpio_26 itself.
RfSelect ==
  /\ select \in RfWindows /\ Goto("switch", "rfBegin")
  /\ mux' = MuxOf[select]
  /\ gpio_26' = IF select = 1 THEN 1 ELSE gpio_26
  /\ UNCHANGED <<select, modem, callbacks, rf, shared, timerVars>>

\* Lines 688-690, 760-762, 828-830.
RfListen ==
  /\ Goto("rfBegin", "arm")
  /\ radio' = TRUE /\ rfSent' = 0
  /\ UNCHANGED <<select, gpio, modem, callbacks, frame, calm, reg, shared, timerVars>>

\* Lines 726-729, 795-798.
LoraSelect ==
  /\ select \in LoraWindows /\ Goto("switch", "loraBegin")
  /\ mux' = MuxOf[select] /\ gpio_26' = 0
  /\ UNCHANGED <<select, modem, callbacks, rf, shared, timerVars>>

\* LoRa_begin: reset and spiOpen; main ignores a failure to open.
LoRa_begin ==
  /\ Goto("loraBegin", "loraReceive")
  /\ spid' \in {"open", "failed"} /\ chip' = NoPacket
  /\ UNCHANGED <<select, gpio, isr, isrpc, lorabuff, callbacks, rf, shared, timerVars>>

\* LoRa_receive: install the interrupt handler, then receive continuously.
LoRa_receive ==
  /\ Goto("loraReceive", "arm")
  /\ isr' = TRUE
  /\ UNCHANGED <<select, gpio, spid, isrpc, chip, lorabuff, callbacks, rf, shared, timerVars>>

\* start_timer(2000, ...), the same in every window.
TimerArm ==
  /\ Goto("arm", "install")
  /\ StartArm(IF select \in RfWindows THEN "timer_handler" ELSE "timer_handler_lora")
  /\ UNCHANGED <<select, gpio, modem, callbacks, rf, shared>>

TimerInstall ==
  /\ Goto("install", IF select \in RfWindows THEN "rfLoop" ELSE "loraLoop")
  /\ StartInstall
  /\ UNCHANGED <<select, gpio, modem, callbacks, rf, shared>>

\* Mutants: a window of five frames; a frame without an id keeps the last one.
MutantQuotaOpen == count <= 4
MutantParse(id) == parsed_json' = IF id = 0 THEN parsed_json ELSE id

\* The condition of the receive loop, lines 697, 769 and 837.
QuotaOpen == count < 4

\* Lines 697-702: a frame is available; main reads it into nrfbuff.
RfRead ==
  /\ QuotaOpen /\ Goto("rfLoop", "rfParse")
  /\ frame' \in RfIds /\ calm' = (\A t \in Threads : cb[t] = "none")
  /\ UNCHANGED <<select, gpio, modem, callbacks, radio, rfSent, reg, shared, timerVars>>

\* json_tokener_parse, lines 703, 775, 843 and 581.
Parse(id) == parsed_json' = id

RfParse ==
  /\ Goto("rfParse", "rfGet") /\ Parse(frame)
  /\ UNCHANGED <<select, gpio, modem, callbacks, rf, count, countLora, pubmsg, idNode, checkResponse, timerVars>>

\* A load of a global that another thread may store to before main goes on.
RfLoad(from, to, global) ==
  /\ Goto(from, to) /\ reg' = global
  /\ UNCHANGED <<select, gpio, modem, callbacks, radio, frame, calm, rfSent, shared, timerVars>>

\* Lines 704, 776, 844: json_object_object_get_ex(parsed_json, "id", &idNode).
RfGet == RfLoad("rfGet", "rfNode", parsed_json)
RfNode ==
  /\ Goto("rfNode", "rfInt") /\ idNode' = reg /\ reg' = 0
  /\ UNCHANGED <<select, gpio, modem, callbacks, radio, frame, calm, rfSent, count, countLora,
                 pubmsg, parsed_json, checkResponse, timerVars>>

\* Lines 705, 777, 845: checkResponse = json_object_get_int(idNode).
RfInt == RfLoad("rfInt", "rfResponse", idNode)
RfResponse ==
  /\ Goto("rfResponse", "rfCheck") /\ checkResponse' = reg /\ reg' = 0
  /\ UNCHANGED <<select, gpio, modem, callbacks, radio, frame, calm, rfSent, count, countLora,
                 pubmsg, parsed_json, idNode, timerVars>>

\* Lines 708-711 and 549-552: publish_mess fills in pubmsg ...
RfFill ==
  /\ checkResponse = idRF24 /\ Goto("rfCheck", "rfPublish")
  /\ pubmsg' = "nrfbuff"
  /\ UNCHANGED <<select, gpio, modem, callbacks, rf, count, countLora, parsed_json, idNode,
                 checkResponse, timerVars>>

RfIgnore ==
  /\ checkResponse # idRF24 /\ Goto("rfCheck", "rfLoop")
  /\ UNCHANGED <<select, gpio, modem, callbacks, rf, shared, timerVars>>

\* ... and line 553 publishes what pubmsg says by then, on data_rf.
RfPublish ==
  /\ Goto("rfPublish", "rfCount")
  /\ rfSent' = rfSent + 1
  /\ UNCHANGED <<select, gpio, modem, callbacks, radio, frame, calm, reg, shared, timerVars>>

\* count++ (line 712): its store overwrites what SIGALRM stored since its load.
RfCount == RfLoad("rfCount", "rfStore", count)
RfStore ==
  /\ Goto("rfStore", "rfLoop")
  /\ count' = reg + 1 /\ reg' = 0
  /\ UNCHANGED <<select, gpio, modem, callbacks, radio, frame, calm, rfSent, countLora, globals, timerVars>>

RfLoopEnd ==
  /\ ~QuotaOpen /\ Goto("rfLoop", "disarm")
  /\ UNCHANGED <<select, gpio, modem, callbacks, rf, shared, timerVars>>

\* Lines 739-745.
LoraLoopEnd ==
  /\ countLora > 2 /\ Goto("loraLoop", "disarm")
  /\ UNCHANGED <<select, gpio, modem, callbacks, rf, shared, timerVars>>

\* stop_timer().
TimerDisarm ==
  /\ Goto("disarm", "restore")
  /\ StopDisarm
  /\ UNCHANGED <<select, gpio, modem, callbacks, rf, shared>>

TimerRestore ==
  /\ Goto("restore", "reset")
  /\ StopRestore
  /\ UNCHANGED <<select, gpio, modem, callbacks, rf, shared>>

\* Lines 717, 786, 857.
ResetRf == count' = 0

\* The same for countLora: lines 747 and 816.
ResetCount ==
  /\ pc = "reset"
  /\ IF select \in RfWindows
     THEN pc' = "rfEnd" /\ ResetRf /\ UNCHANGED countLora
     ELSE pc' = "loraEnd" /\ countLora' = 0 /\ UNCHANGED count
  /\ UNCHANGED <<select, gpio, modem, callbacks, rf, globals, timerVars>>

MutantPowerDown == UNCHANGED radio

\* Lines 718-720, 787-789, 858-860: stopListening, closeReadingPipe, powerDown.
PowerDown == radio' = FALSE

RfEnd ==
  /\ Goto("rfEnd", "next")
  /\ PowerDown /\ gpio_26' = 0
  /\ UNCHANGED <<select, mux, modem, callbacks, frame, calm, rfSent, reg, shared, timerVars>>

\* LoRa_end: LoRa_stop_receive cancels the interrupt thread ...
LoRa_stop_receive ==
  /\ Goto("loraEnd", "loraClose")
  /\ isr' = FALSE
  /\ UNCHANGED <<select, gpio, spid, isrpc, chip, lorabuff, callbacks, rf, shared, timerVars>>

MutantRemoveISR == TRUE

\* gpioSetISRFunc(..., NULL) returns when the interrupt thread has ended.
RemoveISRReturns == isrpc = "idle"

\* Lines 749 and 818: the next RF24 window relies on it.
Reenable == gpio_26' = 1

\* ... and joins it; then spiClose, and lines 749 and 818 of main.
LoraClose ==
  /\ RemoveISRReturns /\ Goto("loraClose", "next")
  /\ spid' = "closed" /\ Reenable
  /\ UNCHANGED <<select, mux, isr, isrpc, chip, lorabuff, callbacks, rf, shared, timerVars>>
-------------------------------------------------------------------------------
\* LoRa.c's interrupt and rx_f.
mainVars == <<pc, select, gpio, rf, count, timerVars>>

\* A packet arrives while the modem listens.
Packet ==
  /\ isr /\ spid = "open" /\ chip = NoPacket
  /\ chip' \in LoraIds
  /\ UNCHANGED <<mainVars, spid, isr, isrpc, lorabuff, callbacks, countLora, globals>>

\* rxDoneISRf, line 190: the interrupt thread starts to talk to the modem.
RxDone ==
  /\ isr /\ isrpc = "idle" /\ chip # NoPacket
  /\ isrpc' = "busy"
  /\ UNCHANGED <<mainVars, spid, isr, chip, lorabuff, callbacks, countLora, globals>>

\* Lines 191-206: the packet goes into the buffer that all callbacks share,
\* and a new thread t starts rx_f.
RxSpawn(t) ==
  /\ isrpc = "busy" /\ cb[t] = "none"
  /\ lorabuff' = chip /\ chip' = NoPacket /\ isrpc' = "idle"
  /\ cb' = [cb EXCEPT ![t] = "start"]
  /\ UNCHANGED <<mainVars, spid, isr, loaded, countLora, globals>>

\* Line 206 fails, unnoticed: the threads are neither joined nor detached, so
\* they run out.
RxNoThread ==
  /\ isrpc = "busy"
  /\ lorabuff' = chip /\ chip' = NoPacket /\ isrpc' = "idle"
  /\ UNCHANGED <<mainVars, spid, isr, callbacks, countLora, globals>>

\* LoRa_stop_receive cancels the thread before or after it has read the packet.
RxCancelled ==
  /\ isrpc = "busy" /\ ~isr
  /\ isrpc' = "idle" /\ lorabuff' \in {lorabuff, chip}
  /\ UNCHANGED <<mainVars, spid, isr, chip, callbacks, countLora, globals>>

CbGoto(t, from, to) == cb[t] = from /\ cb' = [cb EXCEPT ![t] = to]

\* A load in rx_f of what another thread may store to before this one goes on.
CbLoad(t, from, to, global) ==
  /\ CbGoto(t, from, to) /\ loaded' = [loaded EXCEPT ![t] = global]
  /\ UNCHANGED <<mainVars, modem, countLora, globals>>

\* rx_f, line 580: publish_mess fills in pubmsg and publishes on data_lora.
CbPublish(t) ==
  /\ CbGoto(t, "start", "parse") /\ pubmsg' = "lorabuff"
  /\ UNCHANGED <<mainVars, modem, loaded, countLora, parsed_json, idNode, checkResponse>>

\* Line 581: the object is that of the packet the buffer holds by now.
CbParse(t) ==
  \/ CbLoad(t, "parse", "parsed", lorabuff)
  \/ /\ CbGoto(t, "parsed", "get") /\ Parse(loaded[t])
     /\ loaded' = [loaded EXCEPT ![t] = 0]
     /\ UNCHANGED <<mainVars, modem, countLora, pubmsg, idNode, checkResponse>>

\* Line 582.
CbGet(t) ==
  \/ CbLoad(t, "get", "node", parsed_json)
  \/ /\ CbGoto(t, "node", "int") /\ idNode' = loaded[t]
     /\ loaded' = [loaded EXCEPT ![t] = 0]
     /\ UNCHANGED <<mainVars, modem, countLora, pubmsg, parsed_json, checkResponse>>

\* Line 583.
CbInt(t) ==
  \/ CbLoad(t, "int", "response", idNode)
  \/ /\ CbGoto(t, "response", "check") /\ checkResponse' = loaded[t]
     /\ loaded' = [loaded EXCEPT ![t] = 0]
     /\ UNCHANGED <<mainVars, modem, countLora, pubmsg, parsed_json, idNode>>

\* Line 586, and the load of countLora++.
CbCheck(t) ==
  \/ checkResponse = idLora /\ CbLoad(t, "check", "count", countLora)
  \/ /\ checkResponse # idLora /\ CbGoto(t, "check", "none")
     /\ UNCHANGED <<mainVars, modem, loaded, countLora, globals>>

\* Line 588, the store; the send() of lines 589-595 changes nothing here.
CbCount(t) ==
  /\ CbGoto(t, "count", "none")
  /\ countLora' = IF loaded[t] < MaxCount THEN loaded[t] + 1 ELSE MaxCount
  /\ loaded' = [loaded EXCEPT ![t] = 0]
  /\ UNCHANGED <<mainVars, modem, globals>>

Callback(t) == CbPublish(t) \/ CbParse(t) \/ CbGet(t) \/ CbInt(t) \/ CbCheck(t) \/ CbCount(t)
-------------------------------------------------------------------------------
\* SIGALRM.  Between setitimer() and sigaction() of start_timer the two
\* seconds cannot pass.
AlarmDue == itimer /\ pc # "install"

MutantTimeOut == count' = 3

\* timer_handler, lines 568-572.
TimeOut == count' = 6

\* The handlers of both kinds of window, lines 568-577.
Alarm ==
  /\ AlarmDue
  /\ \/ AlarmCalls("timer_handler") /\ TimeOut /\ UNCHANGED countLora
     \/ AlarmCalls("timer_handler_lora") /\ countLora' = 3 /\ UNCHANGED count
  /\ UNCHANGED <<pc, select, gpio, modem, callbacks, rf, globals, timerVars>>

MainStep ==
  \/ Skip \/ Advance \/ RfSelect \/ RfListen \/ LoraSelect \/ LoRa_begin \/ LoRa_receive
  \/ TimerArm \/ TimerInstall \/ RfParse \/ RfGet \/ RfNode \/ RfInt \/ RfResponse
  \/ RfFill \/ RfIgnore \/ RfPublish \/ RfCount \/ RfStore \/ RfLoopEnd
  \/ LoraLoopEnd \/ TimerDisarm \/ TimerRestore \/ ResetCount \/ RfEnd
  \/ LoRa_stop_receive \/ LoraClose

Next ==
  \/ MainStep \/ RfRead \/ Packet \/ RxDone \/ RxNoThread \/ RxCancelled \/ Alarm
  \/ \E t \in Threads : RxSpawn(t) \/ Callback(t)

\* main, the interrupt and the callbacks are scheduled; the timer is periodic.
Fairness ==
  /\ WF_vars(MainStep)
  /\ WF_vars(Alarm)
  /\ WF_vars(RxDone)
  /\ \A t \in Threads : WF_vars(RxSpawn(t)) /\ WF_vars(Callback(t))

Spec == Init /\ [][Next]_vars /\ Fairness
-------------------------------------------------------------------------------
\* Properties.

\* Types; select never leaves the six windows.
TypeOK ==
  /\ pc \in {"switch", "next", "rfBegin", "loraBegin", "loraReceive", "arm", "install",
             "rfLoop", "rfParse", "rfGet", "rfNode", "rfInt", "rfResponse", "rfCheck",
             "rfPublish", "rfCount", "rfStore", "loraLoop", "disarm", "restore",
             "reset", "rfEnd", "loraEnd", "loraClose"}
  /\ select \in Windows
  /\ mux \in {MuxOf[w] : w \in Windows} /\ gpio_26 \in {0, 1}
  /\ radio \in BOOLEAN /\ isr \in BOOLEAN
  /\ spid \in {"closed", "open", "failed"} /\ isrpc \in {"idle", "busy"}
  /\ chip \in Nat /\ lorabuff \in Nat /\ frame \in Nat /\ calm \in BOOLEAN
  /\ pubmsg \in {"none", "nrfbuff", "lorabuff"}
  /\ parsed_json \in Nat /\ idNode \in Nat /\ checkResponse \in Nat
  /\ cb \in [Threads -> {"none", "start", "parse", "parsed", "get", "node", "int", "response",
                          "check", "count"}]
  /\ loaded \in [Threads -> Nat]
  /\ count \in Nat /\ countLora \in Nat /\ reg \in Nat /\ rfSent \in Nat
  /\ TimerTypeOK

\* The modules share the multiplexer: while one listens it is the selected one,
\* the enable line has its level, and the other kind is off.  Windows 3 and 5
\* do not set gpio_26; they rely on what the window before left behind.
OneModuleListens ==
  /\ radio => mux = MuxOf[select] /\ select \in RfWindows /\ gpio_26 = 1 /\ ~isr
  /\ isr => mux = MuxOf[select] /\ select \in LoraWindows /\ gpio_26 = 0 /\ ~radio

\* The interrupt thread only ever uses an open SPI handle: LoRa_end removes the
\* interrupt, and so waits for its thread, before it closes the handle.
InterruptUsesOpenSpi == isrpc = "busy" => spid = "open"

\* Both: the bus and the lines the modules share are used by one of them at a
\* time, by the interrupt thread too.
ModulesExclude == OneModuleListens /\ InterruptUsesOpenSpi

\* SIGALRM never meets the default disposition: stop_timer disarms before it
\* restores, and start_timer's disposition is still there when it fires.
NeverKilled == ~(AlarmDue /\ AlarmKills)

\* An RF24 window starts with its whole quota: a SIGALRM that comes late in the
\* window before cannot leave its 6 in count, since that is reset after
\* stop_timer.
RfQuotaFresh == select \in RfWindows /\ pc \in {"switch", "rfBegin", "arm", "install"} => count = 0

\* At most 4 frames are published in one RF24 window, although count++ and the
\* handler's store race and either may be lost, and the next window has its own.
RfQuota == rfSent <= 4 /\ RfQuotaFresh

\* What goes out on data_rf is a frame of an RF24 node, if main read it when no
\* callback was left: none can start any more, since LoRa_end has removed the
\* interrupt and waited for its thread.  A callback that has outlived its LoRa
\* window may put anything on data_rf: main and rx_f share pubmsg, parsed_json,
\* idNode and checkResponse without a lock.
OnlyRfFramesPublished ==
  [][rfSent' = rfSent + 1 /\ calm => frame = idRF24 /\ pubmsg = "nrfbuff"]_vars

\* Every window comes round again: neither a silent channel, nor endless
\* traffic, nor a timeout lost in a race stops the rotation.
RotationGoesOn == \A w \in Windows : []<>(select = w)

\* The receiver implements the rotation it promises.
Rotation == INSTANCE RadioRotation WITH
  turn <- select,
  served <- pc \notin {"switch", "rfBegin", "loraBegin", "loraReceive"},
  active <- IF radio THEN "rf" ELSE IF isr THEN "lora" ELSE "none"
RotationRefined == Rotation!Spec
===============================================================================
