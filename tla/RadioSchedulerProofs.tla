-------------------------- MODULE RadioSchedulerProofs --------------------------
(***************************************************************************)
(* Theorems about RadioScheduler, for any number of callback threads and   *)
(* any packet and frame ids.                                               *)
(***************************************************************************)
EXTENDS RadioScheduler, TLAPS

\* Where main is while the module of its window is open, and the timer runs.
TimerPlaces == {"arm", "install", "disarm", "restore", "reset"}
RfFrame == {"rfParse", "rfGet", "rfNode", "rfInt", "rfResponse", "rfCheck", "rfPublish"}
RfLoop == RfFrame \cup {"rfLoop", "rfCount", "rfStore"}
RfOpen == RfLoop \cup {"rfEnd"}
LoraOpen == {"loraLoop", "loraEnd"}

\* main's place determines the kind of window and which module is open.
PlaceInv ==
  /\ pc \in RfOpen \cup {"rfBegin"} => select \in RfWindows
  /\ pc \in LoraOpen \cup {"loraBegin", "loraReceive", "loraClose"} => select \in LoraWindows
  /\ pc \in TimerPlaces => select \in RfWindows \cup LoraWindows
  /\ radio <=> pc \in RfOpen \/ (pc \in TimerPlaces /\ select \in RfWindows)
  /\ isr <=> pc \in LoraOpen \/ (pc \in TimerPlaces /\ select \in LoraWindows)

\* The multiplexer and its enable line; windows 3 and 5 inherit gpio_26 = 1.
GpioInv ==
  /\ pc \notin {"switch", "next"} => mux = MuxOf[select]
  /\ pc = "switch" /\ select \in {3, 5} => gpio_26 = 1
  /\ pc = "next" /\ select \in LoraWindows => gpio_26 = 1
  /\ pc \notin {"switch", "next"} /\ select \in RfWindows => gpio_26 = 1
  /\ pc \notin {"switch", "next"} /\ select \in LoraWindows => gpio_26 = 0

\* A packet in the FIFO, and the interrupt thread at work, mean an open handle.
SpiInv ==
  /\ isr \/ pc = "loraReceive" => (chip # NoPacket => spid = "open")
  /\ isrpc = "busy" => spid = "open" /\ (isr \/ pc = "loraClose")

\* The timer runs only while its handler is installed or about to be, and calls
\* the handler of the window's kind.
TimerInv ==
  /\ old_handler = "kill"
  /\ itimer => pc \in RfLoop \cup {"install", "loraLoop", "disarm"}
  /\ disposition = "handler" <=> pc \in RfLoop \cup {"loraLoop", "disarm", "restore"}
  /\ itimer /\ select \in LoraWindows => timer_func = "timer_handler_lora"

\* count is 0 outside the receive loop, and in it counts the frames published,
\* unless SIGALRM has set it to 6.
QuotaInv ==
  /\ select \notin RfWindows \/ pc \in {"switch", "rfBegin", "arm", "install", "rfEnd", "next"}
       => count = 0
  /\ rfSent <= 4
  /\ pc \in {"arm", "install"} /\ select \in RfWindows => rfSent = 0
  /\ pc \in RfFrame \cup {"rfLoop"} /\ count < 4 => rfSent = count
  /\ pc \in RfFrame => rfSent <= 3
  /\ pc = "rfCount" /\ count < 4 => rfSent = count + 1
  /\ pc = "rfStore" /\ reg < 4 => rfSent = reg + 1

\* If no callback was left when main read its frame, none comes before main has
\* published it, and each global that main loads holds what main has stored.
CalmInv ==
  /\ pc \in RfFrame /\ calm => \A t \in Threads : cb[t] = "none"
  /\ calm => /\ pc = "rfGet" => parsed_json = frame
             /\ pc \in {"rfNode", "rfResponse"} => reg = frame
             /\ pc = "rfInt" => idNode = frame
             /\ pc = "rfCheck" => checkResponse = frame
             /\ pc = "rfPublish" => frame = idRF24 /\ pubmsg = "nrfbuff"

RadioInv == TypeOK /\ PlaceInv /\ GpioInv /\ SpiInv /\ TimerInv /\ QuotaInv /\ CalmInv

\* The types are kept by every step.
LEMMA TypeStep == TypeOK /\ [Next]_vars => TypeOK'
<1> SUFFICES ASSUME TypeOK, [Next]_vars PROVE TypeOK'
  OBVIOUS
<1> USE IdsAssumption DEF TypeOK, TimerTypeOK, Windows, RfWindows, LoraWindows, gpio, modem,
        callbacks, rf, shared, globals, timerVars, Goto
<1>1. CASE Skip
  BY <1>1 DEF Skip
<1>2. CASE Advance
  <2>1. select' \in Windows
    BY <1>2 DEF Advance, NextWindow
  <2> QED
    BY <1>2, <2>1 DEF Advance
<1>3. CASE RfSelect
  <2>1. mux' \in {MuxOf[w] : w \in Windows}
    BY <1>3 DEF RfSelect
  <2> QED
    BY <1>3, <2>1 DEF RfSelect
<1>4. CASE LoraSelect
  <2>1. mux' \in {MuxOf[w] : w \in Windows}
    BY <1>4 DEF LoraSelect
  <2> QED
    BY <1>4, <2>1 DEF LoraSelect
<1>5. CASE RfListen
  BY <1>5 DEF RfListen
<1>6. CASE RfRead
  BY <1>6 DEF RfRead
<1>7. CASE RfFill \/ RfPublish
  BY <1>7 DEF RfFill, RfPublish
<1>8. CASE RfIgnore
  BY <1>8 DEF RfIgnore
<1>9. CASE RfCount \/ RfStore
  BY <1>9 DEF RfCount, RfLoad, RfStore
<1>10. CASE RfLoopEnd
  BY <1>10 DEF RfLoopEnd
<1>11. CASE RfEnd
  <2>1. radio' \in BOOLEAN /\ UNCHANGED <<isr, calm, itimer>>
    BY <1>11 DEF RfEnd, PowerDown
  <2> QED
    BY <1>11, <2>1 DEF RfEnd, PowerDown
<1>12. CASE LoRa_begin
  BY <1>12 DEF LoRa_begin, NoPacket
<1>13. CASE LoRa_receive
  BY <1>13 DEF LoRa_receive
<1>14. CASE LoraLoopEnd
  BY <1>14 DEF LoraLoopEnd
<1>15. CASE LoRa_stop_receive
  <2>1. isr' \in BOOLEAN /\ UNCHANGED <<radio, calm, itimer>>
    BY <1>15 DEF LoRa_stop_receive
  <2> QED
    BY <1>15, <2>1 DEF LoRa_stop_receive
<1>16. CASE LoraClose
  BY <1>16 DEF LoraClose, Reenable
<1>17. CASE TimerArm
  BY <1>17 DEF TimerArm, StartArm
<1>18. CASE TimerInstall
  BY <1>18 DEF TimerInstall, StartInstall
<1>19. CASE TimerDisarm
  <2>1. itimer' \in BOOLEAN /\ UNCHANGED <<radio, calm, isr>>
    BY <1>19 DEF TimerDisarm, StopDisarm
  <2> QED
    BY <1>19, <2>1 DEF TimerDisarm, StopDisarm
<1>20. CASE TimerRestore
  BY <1>20 DEF TimerRestore, StopRestore
<1>21. CASE ResetCount
  BY <1>21 DEF ResetCount, ResetRf
<1>22. CASE Packet
  BY <1>22 DEF Packet, mainVars
<1>23. CASE RxDone
  BY <1>23 DEF RxDone, mainVars
<1>24. CASE Alarm
  BY <1>24 DEF Alarm, TimeOut
<1>25. CASE UNCHANGED vars
  BY <1>25 DEF vars
<1>26. CASE \E t \in Threads : RxSpawn(t)
  BY <1>26 DEF RxSpawn, mainVars, NoPacket
<1>27. CASE \E t \in Threads : CbPublish(t) \/ CbParse(t)
  BY <1>27 DEF CbPublish, CbParse, CbLoad, Parse, CbGoto, mainVars
<1>28. CASE \E t \in Threads : CbGet(t) \/ CbInt(t)
  BY <1>28 DEF CbGet, CbInt, CbLoad, CbGoto, mainVars
<1>29. CASE \E t \in Threads : CbCheck(t) \/ CbCount(t)
  BY <1>29 DEF CbCheck, CbCount, CbLoad, CbGoto, mainVars
<1>30. CASE RxNoThread \/ RxCancelled
  BY <1>30 DEF RxNoThread, RxCancelled, mainVars, NoPacket
<1>31. CASE RfParse \/ RfGet \/ RfNode
  BY <1>31 DEF RfParse, Parse, RfGet, RfLoad, RfNode
<1>32. CASE RfInt \/ RfResponse
  BY <1>32 DEF RfInt, RfLoad, RfResponse
<1> QED
  BY <1>1, <1>2, <1>3, <1>4, <1>5, <1>6, <1>7, <1>8, <1>9, <1>10, <1>11, <1>12, <1>13, <1>14, <1>15,
     <1>16, <1>17, <1>18, <1>19, <1>20, <1>21, <1>22, <1>23, <1>24, <1>25, <1>26, <1>27, <1>28,
     <1>29, <1>30, <1>31, <1>32
  DEF Next, MainStep, Callback

\* main's work on one frame, inside the receive loop.
FrameStep ==
  \/ RfRead \/ RfParse \/ RfGet \/ RfNode \/ RfInt \/ RfResponse
  \/ RfFill \/ RfIgnore \/ RfPublish \/ RfCount \/ RfStore

LEMMA FrameSteps ==
  FrameStep => /\ pc \in RfLoop /\ pc' \in RfLoop
               /\ UNCHANGED <<select, mux, gpio_26, radio, modem, timerVars>>
BY DEF FrameStep, RfRead, RfParse, RfGet, RfNode, RfInt, RfResponse, RfFill, RfIgnore, RfPublish,
       RfCount, RfLoad, RfStore, Goto, RfLoop, RfFrame, rf, gpio

\* What the other threads and SIGALRM leave alone.
LEMMA OtherSteps ==
  [Next]_vars => \/ MainStep \/ RfRead
                 \/ /\ UNCHANGED <<pc, select, mux, gpio_26, radio, frame, calm, rfSent, reg, timerVars, isr>>
                    /\ Alarm \/ UNCHANGED count
                    /\ \/ Packet \/ RxDone \/ RxNoThread \/ RxCancelled \/ \E t \in Threads : RxSpawn(t)
                       \/ UNCHANGED modem
<1> SUFFICES ASSUME [Next]_vars, ~MainStep, ~RfRead
             PROVE  /\ UNCHANGED <<pc, select, mux, gpio_26, radio, frame, calm, rfSent, reg, timerVars, isr>>
                    /\ Alarm \/ UNCHANGED count
                    /\ \/ Packet \/ RxDone \/ RxNoThread \/ RxCancelled \/ \E t \in Threads : RxSpawn(t)
                       \/ UNCHANGED modem
  OBVIOUS
<1> USE DEF mainVars, gpio, rf, modem
<1>1. CASE Packet \/ RxDone \/ RxNoThread \/ RxCancelled \/ \E t \in Threads : RxSpawn(t)
  BY <1>1 DEF Packet, RxDone, RxNoThread, RxCancelled, RxSpawn
<1>2. CASE Alarm
  BY <1>2 DEF Alarm
<1>3. ASSUME NEW t \in Threads, Callback(t) PROVE UNCHANGED <<mainVars, modem>>
  BY <1>3 DEF Callback, CbLoad, CbPublish, CbParse, CbGet, CbInt, CbCheck, CbCount
<1>4. CASE UNCHANGED vars
  BY <1>4 DEF vars, shared
<1> QED
  BY <1>1, <1>2, <1>3, <1>4 DEF Next

\* main opens and closes the modules at fixed places of a window.
LEMMA PlaceStep == TypeOK /\ PlaceInv /\ [Next]_vars => PlaceInv'
<1> SUFFICES ASSUME TypeOK, PlaceInv, [Next]_vars PROVE PlaceInv'
  OBVIOUS
<1> USE DEF PlaceInv, TimerPlaces, RfFrame, RfLoop, RfOpen, LoraOpen, RfWindows, LoraWindows, Windows, gpio, modem,
        callbacks, rf, Goto
<1>0. CASE FrameStep
  BY <1>0, FrameSteps
<1>1. CASE (MainStep \/ RfRead) /\ ~FrameStep
  BY <1>1 DEF MainStep, FrameStep, Skip, Advance, NextWindow, RfSelect, LoraSelect, RfListen,
      RfLoopEnd, RfEnd, PowerDown, LoRa_begin, LoRa_receive,
      LoraLoopEnd, LoRa_stop_receive, LoraClose, TimerArm, TimerInstall, TimerDisarm,
      TimerRestore, ResetCount, TypeOK
<1>2. CASE UNCHANGED <<pc, select, radio, isr>>
  BY <1>2
<1> QED
  BY <1>0, <1>1, <1>2, OtherSteps

\* The enable line is right in windows 3 and 5 because 2 and 4 leave it at 1.
LEMMA GpioStep == TypeOK /\ PlaceInv /\ GpioInv /\ [Next]_vars => GpioInv'
<1> SUFFICES ASSUME TypeOK, PlaceInv, GpioInv, [Next]_vars PROVE GpioInv'
  OBVIOUS
<1> USE DEF PlaceInv, GpioInv, TimerPlaces, RfFrame, RfLoop, RfOpen, LoraOpen, RfWindows, LoraWindows, Windows,
        gpio, Goto
<1>0. CASE FrameStep
  BY <1>0, FrameSteps
<1>1. CASE (MainStep \/ RfRead) /\ ~FrameStep
  BY <1>1 DEF MainStep, FrameStep, Skip, Advance, NextWindow, RfSelect, LoraSelect, RfListen,
      RfLoopEnd, RfEnd, LoRa_begin, LoRa_receive,
      LoraLoopEnd, LoRa_stop_receive, LoraClose, TimerArm, TimerInstall, TimerDisarm,
      TimerRestore, ResetCount, Reenable, TypeOK
<1>2. CASE UNCHANGED <<pc, select, gpio>>
  BY <1>2
<1> QED
  BY <1>0, <1>1, <1>2, OtherSteps

\* The handle is closed only after the interrupt thread has ended.
LEMMA SpiStep == TypeOK /\ PlaceInv /\ SpiInv /\ [Next]_vars => SpiInv'
<1> SUFFICES ASSUME TypeOK, PlaceInv, SpiInv, [Next]_vars PROVE SpiInv'
  OBVIOUS
<1> USE DEF PlaceInv, SpiInv, TimerPlaces, RfFrame, RfLoop, RfOpen, LoraOpen, RfWindows, LoraWindows, Windows,
        modem, Goto, NoPacket
<1>0. CASE FrameStep
  BY <1>0, FrameSteps
<1>1. CASE (MainStep \/ RfRead) /\ ~FrameStep
  BY <1>1 DEF MainStep, FrameStep, Skip, Advance, NextWindow, RfSelect, LoraSelect, RfListen,
      RfLoopEnd, RfEnd, LoRa_begin, LoRa_receive,
      LoraLoopEnd, LoRa_stop_receive, LoraClose, TimerArm, TimerInstall, TimerDisarm,
      TimerRestore, ResetCount, RemoveISRReturns, TypeOK
<1>2. CASE Packet \/ RxDone \/ RxNoThread \/ RxCancelled \/ \E t \in Threads : RxSpawn(t)
  BY <1>2 DEF Packet, RxDone, RxSpawn, RxNoThread, RxCancelled, mainVars
<1>3. CASE UNCHANGED <<pc, modem>>
  BY <1>3
<1> QED
  BY <1>0, <1>1, <1>2, <1>3, OtherSteps

\* Timer and handler are switched on and off in the order that is safe.
LEMMA TimerStep == TypeOK /\ PlaceInv /\ TimerInv /\ [Next]_vars => TimerInv'
<1> SUFFICES ASSUME TypeOK, PlaceInv, TimerInv, [Next]_vars PROVE TimerInv'
  OBVIOUS
<1> USE DEF PlaceInv, TimerInv, TimerPlaces, RfFrame, RfLoop, RfOpen, LoraOpen, RfWindows, LoraWindows, Windows,
        timerVars, Goto
<1>0. CASE FrameStep
  BY <1>0, FrameSteps
<1>1. CASE (MainStep \/ RfRead) /\ ~FrameStep
  BY <1>1 DEF MainStep, FrameStep, Skip, Advance, NextWindow, RfSelect, LoraSelect, RfListen,
      RfLoopEnd, RfEnd, LoRa_begin, LoRa_receive,
      LoraLoopEnd, LoRa_stop_receive, LoraClose, TimerArm, TimerInstall, TimerDisarm,
      TimerRestore, ResetCount, StartArm, StartInstall,
      StopDisarm, StopRestore, TypeOK, TimerTypeOK
<1>2. CASE UNCHANGED <<pc, select, timerVars>>
  BY <1>2
<1> QED
  BY <1>0, <1>1, <1>2, OtherSteps

\* Whatever SIGALRM stores, no more than 4 frames pass in a window, and the next
\* window starts from 0.
LEMMA QuotaStep == TypeOK /\ PlaceInv /\ TimerInv /\ QuotaInv /\ [Next]_vars => QuotaInv'
<1> SUFFICES ASSUME TypeOK, PlaceInv, TimerInv, QuotaInv, [Next]_vars PROVE QuotaInv'
  OBVIOUS
<1> USE DEF PlaceInv, QuotaInv, TimerPlaces, RfFrame, RfLoop, RfOpen, LoraOpen, RfWindows, LoraWindows, Windows,
        rf, shared, Goto
<1>0. CASE FrameStep
  <2>1. count \in Nat /\ rfSent \in Nat /\ reg \in Nat
    BY DEF TypeOK
  <2>2. select \in RfWindows /\ select' = select /\ pc' \in RfLoop
    BY <1>0, FrameSteps
  <2>3. CASE RfRead
    BY <2>1, <2>2, <2>3 DEF RfRead, QuotaOpen
  <2>4. CASE RfParse \/ RfGet \/ RfNode \/ RfInt \/ RfResponse \/ RfFill \/ RfIgnore
    <3>1. pc \in RfFrame /\ pc' \in RfFrame \cup {"rfLoop"} /\ UNCHANGED <<count, rfSent>>
      BY <2>4 DEF RfParse, RfGet, RfNode, RfInt, RfResponse, RfFill, RfIgnore, RfLoad
    <3> QED
      BY <2>1, <2>2, <3>1
  <2>5. CASE RfPublish \/ RfCount \/ RfStore
    BY <2>1, <2>2, <2>5 DEF RfPublish, RfCount, RfLoad, RfStore
  <2> QED
    BY <1>0, <2>3, <2>4, <2>5 DEF FrameStep
<1>1. CASE (MainStep \/ RfRead) /\ ~FrameStep
  BY <1>1 DEF MainStep, FrameStep, Skip, Advance, NextWindow, RfSelect, LoraSelect, RfListen,
      RfLoopEnd, RfEnd, LoRa_begin, LoRa_receive,
      LoraLoopEnd, LoRa_stop_receive, LoraClose, TimerArm, TimerInstall, TimerDisarm,
      TimerRestore, ResetCount, QuotaOpen, ResetRf, TypeOK
<1>2. CASE Alarm
  BY <1>2 DEF Alarm, AlarmDue, AlarmCalls, TimeOut, TimerInv, TypeOK
<1>3. CASE UNCHANGED <<pc, select, rf, count>>
  BY <1>3
<1> QED
  BY <1>0, <1>1, <1>2, <1>3, OtherSteps

\* Callbacks start only from the interrupt, which is off in an RF24 window.
LEMMA CalmStep == TypeOK /\ PlaceInv /\ SpiInv /\ CalmInv /\ [Next]_vars => CalmInv'
<1> SUFFICES ASSUME TypeOK, PlaceInv, SpiInv, CalmInv, [Next]_vars PROVE CalmInv'
  OBVIOUS
<1> USE DEF CalmInv, RfFrame, Goto
<1>1. CASE Skip \/ Advance \/ RfSelect \/ RfListen \/ LoraSelect \/ LoRa_begin \/ LoRa_receive
           \/ TimerArm \/ TimerInstall \/ RfIgnore \/ RfPublish \/ RfCount \/ RfStore \/ RfLoopEnd
           \/ LoraLoopEnd \/ TimerDisarm \/ TimerRestore \/ ResetCount \/ RfEnd
           \/ LoRa_stop_receive \/ LoraClose
  <2>1. pc' \notin RfFrame
    BY <1>1 DEF Skip, Advance, RfSelect, LoraSelect, RfListen, RfIgnore, RfPublish, RfLoad, RfCount,
        RfStore, RfLoopEnd, RfEnd, LoRa_begin, LoRa_receive, LoraLoopEnd, LoRa_stop_receive,
        LoraClose, TimerArm, TimerInstall, TimerDisarm, TimerRestore, ResetCount
  <2> QED
    BY <2>1
<1>2. CASE RfRead
  BY <1>2 DEF RfRead, callbacks
<1>3. CASE RfParse \/ RfGet \/ RfNode \/ RfInt \/ RfResponse \/ RfFill
  BY <1>3 DEF RfParse, Parse, RfGet, RfLoad, RfNode, RfInt, RfResponse, RfFill, callbacks, rf, shared, globals
<1>4. CASE Packet \/ RxDone \/ RxNoThread \/ RxCancelled \/ Alarm
  BY <1>4 DEF Packet, RxDone, RxNoThread, RxCancelled, Alarm, mainVars, rf, globals, callbacks
<1>5. ASSUME NEW t \in Threads, RxSpawn(t) PROVE CalmInv'
  <2>1. pc \notin RfFrame /\ pc' = pc
    BY <1>5 DEF RxSpawn, mainVars, SpiInv, PlaceInv, LoraOpen, TimerPlaces
  <2> QED
    BY <2>1
<1>6. ASSUME NEW t \in Threads, Callback(t) PROVE CalmInv'
  <2>1. cb[t] # "none" /\ UNCHANGED <<pc, calm>>
    BY <1>6 DEF Callback, CbLoad, CbPublish, CbParse, CbGet, CbInt, CbCheck, CbCount, CbGoto, mainVars, rf
  <2>2. ~(pc \in RfFrame /\ calm)
    BY <2>1
  <2> QED
    BY <2>1, <2>2
<1>7. CASE UNCHANGED vars
  BY <1>7 DEF vars, rf, shared, globals, callbacks
<1> QED
  BY <1>1, <1>2, <1>3, <1>4, <1>5, <1>6, <1>7 DEF Next, MainStep

\* The inductive invariant.
LEMMA RadioInvariant == Spec => []RadioInv
<1>1. Init => RadioInv
  <2> SUFFICES ASSUME Init PROVE RadioInv
    OBVIOUS
  <2>1. TypeOK
    <3>1. mux \in {MuxOf[w] : w \in Windows}
      BY DEF Init, Windows
    <3>2. /\ cb \in [Threads -> {"none", "start", "parse", "parsed", "get", "node", "int", "response",
                                "check", "count"}]
          /\ loaded \in [Threads -> Nat]
      BY DEF Init
    <3>3. TimerTypeOK
      BY DEF Init, TimerInit, TimerTypeOK
    <3>4. select \in Windows /\ chip \in Nat
      BY DEF Init, Windows, NoPacket
    <3>5. radio \in BOOLEAN /\ isr \in BOOLEAN /\ calm \in BOOLEAN
      BY DEF Init
    <3> QED
      BY <3>1, <3>2, <3>3, <3>4, <3>5 DEF Init, TypeOK
  <2>2. PlaceInv /\ GpioInv /\ SpiInv /\ TimerInv
    BY DEF Init, TimerInit, PlaceInv, GpioInv, SpiInv, TimerInv, RfWindows, LoraWindows,
        TimerPlaces, RfFrame, RfLoop, RfOpen, LoraOpen
  <2>3. QuotaInv /\ CalmInv
    BY DEF Init, QuotaInv, CalmInv, RfFrame
  <2> QED
    BY <2>1, <2>2, <2>3 DEF RadioInv
<1>2. RadioInv /\ [Next]_vars => RadioInv'
  BY TypeStep, PlaceStep, GpioStep, SpiStep, TimerStep, QuotaStep, CalmStep DEF RadioInv
<1> QED
  BY <1>1, <1>2, PTL DEF Spec

\* Every variable keeps its type.
THEOREM RadioTypeCorrect == Spec => []TypeOK
  BY RadioInvariant, PTL DEF RadioInv

\* One module listens at a time, the one the multiplexer selects with the enable
\* line at its level, and rxDoneISRf never transfers over a closed or failed SPI
\* handle.
THEOREM ModulesExclusive == Spec => []ModulesExclude
<1>1. RadioInv => OneModuleListens
  BY DEF RadioInv, PlaceInv, GpioInv, OneModuleListens, TypeOK, TimerPlaces, RfFrame, RfLoop, RfOpen, LoraOpen,
      RfWindows, LoraWindows
<1>2. RadioInv => InterruptUsesOpenSpi
  BY DEF RadioInv, SpiInv, InterruptUsesOpenSpi
<1> QED
  BY <1>1, <1>2, RadioInvariant, PTL DEF ModulesExclude

\* SIGALRM never comes when it would kill the process.
THEOREM AlarmsHandled == Spec => []NeverKilled
<1>1. RadioInv => NeverKilled
  BY DEF RadioInv, TimerInv, RfFrame, RfLoop, NeverKilled, AlarmDue, AlarmKills
<1> QED
  BY <1>1, RadioInvariant, PTL

\* An RF24 window publishes at most 4 frames, and starts with that quota.
THEOREM RfWindowQuota == Spec => []RfQuota
<1>1. RadioInv => RfQuota
  BY DEF RadioInv, QuotaInv, RfQuota, RfQuotaFresh
<1> QED
  BY <1>1, RadioInvariant, PTL

\* What main read after the last callback had ended goes out on data_rf only if it
\* came from an RF24 node, and it is what goes out, for any number of threads.
THEOREM RfFramesOnly == Spec => OnlyRfFramesPublished
<1>1. RadioInv /\ [Next]_vars =>
        [rfSent' = rfSent + 1 /\ calm => frame = idRF24 /\ pubmsg = "nrfbuff"]_vars
  <2>0. (RadioInv => rfSent \in Nat) /\ (RfListen => rfSent' = 0)
    BY DEF RadioInv, TypeOK, RfListen
  <2> SUFFICES ASSUME RadioInv, Next, rfSent' = rfSent + 1, calm
               PROVE  frame = idRF24 /\ pubmsg = "nrfbuff"
    BY DEF vars
  <2>1. rfSent' # rfSent
    BY <2>0
  <2>2. RfPublish \/ RfListen
    <3>1. MainStep \/ RfRead
      BY <2>1, OtherSteps
    <3>2. CASE FrameStep
      BY <2>1, <3>2 DEF FrameStep, RfRead, RfParse, RfGet, RfNode, RfInt, RfResponse, RfFill, RfIgnore,
          RfLoad, RfCount, RfStore, rf
    <3>3. CASE ~FrameStep
      BY <2>1, <3>1, <3>3 DEF MainStep, FrameStep, Skip, Advance, RfSelect, LoraSelect, RfLoopEnd, RfEnd, LoRa_begin,
          LoRa_receive, LoraLoopEnd, LoRa_stop_receive, LoraClose, TimerArm, TimerInstall,
          TimerDisarm, TimerRestore, ResetCount, rf
    <3> QED
      BY <3>2, <3>3
  <2>3. ~RfListen
    BY <2>0
  <2> QED
    BY <2>2, <2>3 DEF RfPublish, Goto, RadioInv, CalmInv
<1> QED
  BY <1>1, RadioInvariant, PTL DEF Spec, OnlyRfFramesPublished
-------------------------------------------------------------------------------
\* Each step of the receiver is a step of the rotation or leaves it alone.
LEMMA RotationStep == RadioInv /\ [Next]_vars => [Rotation!Next]_(Rotation!vars)
<1> SUFFICES ASSUME RadioInv, [Next]_vars PROVE [Rotation!Next]_(Rotation!vars)
  OBVIOUS
<1> USE DEF RadioInv, PlaceInv, TypeOK, TimerPlaces, RfFrame, RfLoop, RfOpen, LoraOpen, RfWindows, LoraWindows,
        Windows, modem, rf, Goto, Rotation!vars
<1>1. CASE Skip \/ RfListen \/ LoRa_receive
  BY <1>1 DEF Skip, RfListen, LoRa_receive, Rotation!Next, Rotation!Open, Rotation!Kind
<1>2. CASE RfEnd \/ LoRa_stop_receive
  BY <1>2 DEF RfEnd, PowerDown, LoRa_stop_receive, Rotation!Next, Rotation!Close
<1>3. CASE Advance
  BY <1>3 DEF Advance, NextWindow, Rotation!Next, Rotation!Advance
<1>4. CASE \/ RfSelect \/ LoraSelect \/ LoRa_begin \/ TimerArm \/ TimerInstall \/ RfLoopEnd
           \/ LoraLoopEnd \/ TimerDisarm \/ TimerRestore \/ ResetCount \/ LoraClose
  BY <1>4 DEF RfSelect, LoraSelect, LoRa_begin, TimerArm, TimerInstall, RfLoopEnd, LoraLoopEnd,
      TimerDisarm, TimerRestore, ResetCount, LoraClose
<1>6. CASE FrameStep
  BY <1>6, FrameSteps
<1>5. CASE UNCHANGED <<pc, select, radio, isr>>
  BY <1>5
<1> QED
  BY <1>1, <1>2, <1>3, <1>4, <1>5, <1>6, OtherSteps DEF MainStep, FrameStep

\* The receiver implements the rotation: it opens one module per window, closes
\* it before it advances, and advances in the fixed cycle.
THEOREM RotationSafe == Spec => Rotation!Init /\ [][Rotation!Next]_(Rotation!vars)
<1>1. Init => Rotation!Init
  BY DEF Init, Rotation!Init
<1> QED
  BY <1>1, RotationStep, RadioInvariant, PTL DEF Spec
===============================================================================
