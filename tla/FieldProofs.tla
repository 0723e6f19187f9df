------------------------------ MODULE FieldProofs ------------------------------
(***************************************************************************)
(* Theorems about the programs around the gateway, for any descriptors,    *)
(* browsers and bounds that their assumptions allow.                       *)
(***************************************************************************)
EXTENDS UartClient, I2cClient, WebServer, SpiClient, ProofBasics, FiniteSetTheorems

-------------------------------------------------------------------------------
\* The UART client.

Half == [id : UartIds \cup {0}, n : {0, 1}, half : {1, 2}]
Ports == {d \in UartFds : IsPort(d)}

UartTypeOK ==
  /\ uartPc \in {"arm", "install", "open", "store", "avail", "read", "check", "sleep"}
  /\ uartFd \in UartFds \cup {NoDesc, 0} /\ uartOpened \in UartFds \cup {NoDesc}
  /\ desc \in [UartFds -> {"free", "other", "tty", "hung"}] /\ present \in BOOLEAN
  /\ rx \in Seq(Half) /\ sent \in Half /\ uartMsg \in Seq(Half) /\ uartOut \in Seq(Half)

\* Until main has opened the port, every open descriptor of it is the handler's,
\* and 0 is standard input; no handler runs before it is installed.
BeforeOpen ==
  uartPc \in {"arm", "install", "open"} =>
    /\ Ports \subseteq {uartFd}
    /\ uartFd \in {NoDesc, 0} \/ IsPort(uartFd)
    /\ uartFd = 0 /\ 0 \in UartFds => desc[0] # "free"

\* Between main's open and its store both have one, and not the same.
BeforeStore ==
  uartPc = "store" =>
    /\ Ports \subseteq {uartFd, uartOpened}
    /\ uartOpened # NoDesc => IsPort(uartOpened) /\ uartOpened # uartFd

\* After the store one may have been lost; it is never closed.
AfterStore ==
  uartPc \in {"avail", "read", "check", "sleep"} =>
    /\ uartFd = NoDesc \/ IsPort(uartFd)
    /\ \E l \in UartFds \cup {NoDesc} : Ports \subseteq {l, uartFd}

\* A first half is followed by the second half of the same frame.
Paired(s) ==
  \A i \in 1..(Len(s) - 1) : s[i].half = 1 =>
    s[i + 1].half = 2 /\ s[i + 1].id = s[i].id /\ s[i + 1].n = s[i].n

\* The input queue is the last part of what the node has sent.
QueueIsSuffix == Paired(rx) /\ (rx # <<>> => rx[Len(rx)] = sent)

\* The inductive invariant of the UART client.
UartInv ==
  /\ UartTypeOK /\ BeforeOpen /\ BeforeStore /\ AfterStore
  /\ QueueIsSuffix /\ Paired(uartMsg) /\ NoSplicedFrame

\* open() returns a descriptor that was free, or fails.
LEMMA LowestIsFree ==
  ASSUME NEW free \in SUBSET UartFds, free # {}
  PROVE  Lowest(free) \in free
<1>1. \E d \in free : \A e \in free : d <= e
  BY UartAssumption, LeastElement
<1> QED
  BY <1>1 DEF Lowest

\* What serialOpen1 does to the descriptor table and the queue.
LEMMA SerialOpenFacts ==
  ASSUME NEW t \in [UartFds -> {"free", "other", "tty", "hung"}]
  PROVE  LET o == serialOpen1(t)
         IN /\ o.desc \in [UartFds -> {"free", "other", "tty", "hung"}]
            /\ o.rx \in {rx, <<>>}
            /\ \/ o.fd = NoDesc /\ o.desc = t
               \/ /\ o.fd \in UartFds /\ t[o.fd] = "free"
                  /\ o.desc = [t EXCEPT ![o.fd] = "tty"]
<1> DEFINE free == {d \in UartFds : t[d] = "free"}
<1>1. CASE present /\ free # {}
  <2>1. Lowest(free) \in free
    BY <1>1, LowestIsFree
  <2> HIDE DEF free
  <2>2. serialOpen1(t) = [fd |-> Lowest(free), desc |-> [t EXCEPT ![Lowest(free)] = "tty"],
                          rx |-> <<>>]
    BY <1>1 DEF serialOpen1, free
  <2>3. Lowest(free) \in UartFds /\ t[Lowest(free)] = "free"
    BY <2>1 DEF free
  <2> QED
    BY <2>2, <2>3
<1>2. CASE ~(present /\ free # {})
  BY <1>2 DEF serialOpen1
<1> QED
  BY <1>1, <1>2

\* The invariant holds initially.
LEMMA UartInvInit == UartInit => UartInv
<1> SUFFICES ASSUME UartInit PROVE UartInv
  OBVIOUS
<1> USE DEF UartInit, NoDesc
<1>1. UartTypeOK
  BY DEF UartTypeOK, Half, NoHalf
<1>2. Ports = {}
  BY DEF Ports, IsPort
<1> QED
  BY <1>1, <1>2 DEF UartInv, BeforeOpen, BeforeStore, AfterStore, QueueIsSuffix, Paired,
                    NoSplicedFrame

\* Steps that touch no descriptor leave the ports what they are.
LEMMA PortsSame == (desc' = desc) => (Ports' = Ports /\ \A d : IsPort(d)' = IsPort(d))
BY DEF Ports, IsPort

\* A part of the queue that ends where the queue ends is a part of what was sent.
LEMMA PairedParts ==
  ASSUME NEW s \in Seq(Half), Paired(s), NEW k \in 0..Len(s)
  PROVE  /\ SubSeq(s, 1, k) \in Seq(Half) /\ SubSeq(s, k + 1, Len(s)) \in Seq(Half)
         /\ Paired(SubSeq(s, 1, k)) /\ Paired(SubSeq(s, k + 1, Len(s)))
         /\ SubSeq(s, k + 1, Len(s)) # <<>> =>
              SubSeq(s, k + 1, Len(s))[Len(SubSeq(s, k + 1, Len(s)))] = s[Len(s)]
<1>1. /\ Len(SubSeq(s, 1, k)) = k
      /\ \A i \in 1..k : SubSeq(s, 1, k)[i] = s[i]
      /\ SubSeq(s, 1, k) \in Seq(Half)
  OBVIOUS
<1>2. /\ Len(SubSeq(s, k + 1, Len(s))) = Len(s) - k
      /\ \A i \in 1..(Len(s) - k) : SubSeq(s, k + 1, Len(s))[i] = s[k + i]
      /\ SubSeq(s, k + 1, Len(s)) \in Seq(Half)
  OBVIOUS
<1>3. Paired(SubSeq(s, 1, k))
  BY <1>1 DEF Paired
<1>4. Paired(SubSeq(s, k + 1, Len(s)))
  <2> DEFINE t == SubSeq(s, k + 1, Len(s))
  <2>1. Len(t) = Len(s) - k /\ \A i \in 1..(Len(s) - k) : t[i] = s[k + i]
    BY <1>2
  <2> HIDE DEF t
  <2>2. ASSUME NEW i \in 1..(Len(t) - 1), t[i].half = 1
        PROVE  t[i + 1].half = 2 /\ t[i + 1].id = t[i].id /\ t[i + 1].n = t[i].n
    <3>1. /\ k + i \in 1..(Len(s) - 1) /\ k + (i + 1) = (k + i) + 1
          /\ i \in 1..(Len(s) - k) /\ i + 1 \in 1..(Len(s) - k)
      BY <2>1
    <3>2. t[i] = s[k + i] /\ t[i + 1] = s[(k + i) + 1]
      BY <2>1, <3>1
    <3> QED
      BY <2>2, <3>1, <3>2 DEF Paired
  <2>3. Paired(t)
    BY <2>2 DEF Paired
  <2> QED
    BY <2>3 DEF t
<1>5. SubSeq(s, k + 1, Len(s)) # <<>> =>
         SubSeq(s, k + 1, Len(s))[Len(SubSeq(s, k + 1, Len(s)))] = s[Len(s)]
  <2> SUFFICES ASSUME SubSeq(s, k + 1, Len(s)) # <<>>
               PROVE  SubSeq(s, k + 1, Len(s))[Len(s) - k] = s[Len(s)]
    BY <1>2
  <2>1. Len(s) - k \in 1..(Len(s) - k)
    BY <1>2
  <2> QED
    BY <1>2, <2>1
<1> QED
  BY <1>1, <1>2, <1>3, <1>4, <1>5

\* The handler closes and reopens: between any two steps of main.
LEMMA UartAlarmKeeps == UartInv /\ UartAlarm => UartInv'
<1> SUFFICES ASSUME UartInv, UartAlarm PROVE UartInv'
  OBVIOUS
<1> DEFINE t == Closed(desc, uartFd)
           o == serialOpen1(t)
<1> USE DEF UartInv
<1>1. t \in [UartFds -> {"free", "other", "tty", "hung"}]
  BY DEF UartTypeOK, Closed
<1>2. desc' = o.desc /\ rx' = o.rx /\ uartFd' = o.fd
      /\ UNCHANGED <<uartPc, uartOpened, present, sent, uartMsg, uartOut>>
  BY DEF UartAlarm, HandlerStores
<1>3. /\ o.desc \in [UartFds -> {"free", "other", "tty", "hung"}]
      /\ o.rx \in {rx, <<>>}
      /\ \/ o.fd = NoDesc /\ o.desc = t
         \/ /\ o.fd \in UartFds /\ t[o.fd] = "free"
            /\ o.desc = [t EXCEPT ![o.fd] = "tty"]
  BY <1>1, SerialOpenFacts
<1>4. \A d \in UartFds : d # uartFd => t[d] = desc[d]
  BY DEF Closed, UartTypeOK
<1>5. uartFd \in UartFds => t[uartFd] = "free"
  BY DEF Closed, UartTypeOK
<1> HIDE DEF t, o
<1>6. UartTypeOK'
  <2>1. rx' \in Seq(Half)
    <3>1. rx \in Seq(Half) /\ <<>> \in Seq(Half)
      BY DEF UartTypeOK
    <3>2. rx' = rx \/ rx' = <<>>
      BY <1>2, <1>3
    <3> QED
      BY <3>1, <3>2
  <2>2. uartFd' \in UartFds \cup {NoDesc, 0}
    BY <1>2, <1>3
  <2>3. desc' \in [UartFds -> {"free", "other", "tty", "hung"}]
    BY <1>2, <1>3
  <2> QED
    BY <1>2, <2>1, <2>2, <2>3 DEF UartTypeOK
<1>7. uartFd' = NoDesc \/ IsPort(uartFd)'
  BY <1>2, <1>3 DEF IsPort
<1>8. \A d \in UartFds : d \in Ports' => d = uartFd' \/ (d \in Ports /\ d # uartFd)
  BY <1>1, <1>2, <1>3, <1>4, <1>5 DEF Ports, IsPort
<1>9. \A d \in UartFds : d \in Ports /\ d # uartFd => IsPort(d)' /\ d # uartFd'
  BY <1>1, <1>2, <1>3, <1>4, UartAssumption DEF Ports, IsPort, NoDesc
<1>10. BeforeOpen'
  <2> SUFFICES ASSUME uartPc \in {"arm", "install", "open"}
               PROVE  /\ Ports' \subseteq {uartFd'}
                      /\ uartFd' \in {NoDesc, 0} \/ IsPort(uartFd)'
                      /\ uartFd' = 0 /\ 0 \in UartFds => desc'[0] # "free"
    BY <1>2 DEF BeforeOpen
  <2>1. Ports' \subseteq {uartFd'}
    BY <1>8 DEF BeforeOpen, Ports
  <2> QED
    BY <1>7, <2>1 DEF IsPort, NoDesc
<1>11. BeforeStore'
  <2> SUFFICES ASSUME uartPc = "store"
               PROVE  /\ Ports' \subseteq {uartFd', uartOpened}
                      /\ uartOpened # NoDesc => IsPort(uartOpened)' /\ uartOpened # uartFd'
    BY <1>2 DEF BeforeStore
  <2>1. Ports' \subseteq {uartFd', uartOpened}
    BY <1>8 DEF BeforeStore, Ports
  <2>2. ASSUME uartOpened # NoDesc
        PROVE  IsPort(uartOpened)' /\ uartOpened # uartFd'
    <3>1. uartOpened \in Ports /\ uartOpened # uartFd
      BY <2>2 DEF BeforeStore, Ports, IsPort
    <3>2. uartOpened \in UartFds /\ uartOpened' = uartOpened
      BY <1>2, <3>1 DEF Ports
    <3>3. \A d \in UartFds : d \in Ports /\ d # uartFd =>
             desc'[d] \in {"tty", "hung"} /\ d # uartFd'
      BY <1>9 DEF IsPort
    <3> QED
      BY <3>1, <3>2, <3>3 DEF IsPort
  <2> QED
    BY <2>1, <2>2
<1>12. AfterStore'
  <2> SUFFICES ASSUME uartPc \in {"avail", "read", "check", "sleep"}
               PROVE  \E l \in UartFds \cup {NoDesc} : Ports' \subseteq {l, uartFd'}
    BY <1>2, <1>7 DEF AfterStore
  <2>1. PICK l \in UartFds \cup {NoDesc} : Ports \subseteq {l, uartFd}
    BY DEF AfterStore
  <2> QED
    BY <1>8, <2>1 DEF Ports
<1>13. QueueIsSuffix'
  <2>1. (rx' = rx \/ rx' = <<>>) /\ sent' = sent
    BY <1>2, <1>3
  <2>2. CASE rx' = rx
    BY <2>1, <2>2 DEF QueueIsSuffix, Paired
  <2>3. CASE rx' = <<>>
    BY <2>3 DEF QueueIsSuffix, Paired
  <2> QED
    BY <2>1, <2>2, <2>3
<1> QED
  BY <1>2, <1>6, <1>10, <1>11, <1>12, <1>13 DEF NoSplicedFrame, Paired

\* main's own open and store.
LEMMA UartOpenKeeps == UartInv /\ UartOpen => UartInv'
<1> SUFFICES ASSUME UartInv, UartOpen PROVE UartInv'
  OBVIOUS
<1> DEFINE o == serialOpen1(desc)
<1> USE DEF UartInv
<1>1. uartOpened' = o.fd /\ desc' = o.desc /\ rx' = o.rx /\ uartPc = "open" /\ uartPc' = "store"
      /\ UNCHANGED <<uartFd, present, sent, uartMsg, uartOut>>
  BY DEF UartOpen, UartGoto
<1>2. /\ o.desc \in [UartFds -> {"free", "other", "tty", "hung"}]
      /\ o.rx \in {rx, <<>>}
      /\ \/ o.fd = NoDesc /\ o.desc = desc
         \/ /\ o.fd \in UartFds /\ desc[o.fd] = "free"
            /\ o.desc = [desc EXCEPT ![o.fd] = "tty"]
  BY SerialOpenFacts DEF UartTypeOK
<1> HIDE DEF o
<1>3. UartTypeOK'
  <2>1. rx' \in Seq(Half)
    <3>1. rx \in Seq(Half) /\ <<>> \in Seq(Half)
      BY DEF UartTypeOK
    <3>2. rx' = rx \/ rx' = <<>>
      BY <1>1, <1>2
    <3> QED
      BY <3>1, <3>2
  <2>2. uartOpened' \in UartFds \cup {NoDesc}
    BY <1>1, <1>2
  <2>3. desc' \in [UartFds -> {"free", "other", "tty", "hung"}]
    BY <1>1, <1>2
  <2> QED
    BY <1>1, <2>1, <2>2, <2>3 DEF UartTypeOK
<1>4. Ports' \subseteq {uartFd, uartOpened'}
  BY <1>1, <1>2 DEF BeforeOpen, Ports, IsPort, UartTypeOK
<1>5. uartOpened' # NoDesc => IsPort(uartOpened)' /\ uartOpened' # uartFd
  BY <1>1, <1>2 DEF BeforeOpen, IsPort, UartTypeOK
<1>6. QueueIsSuffix'
  BY <1>1, <1>2 DEF QueueIsSuffix, Paired
<1> QED
  BY <1>1, <1>3, <1>4, <1>5, <1>6 DEF BeforeOpen, BeforeStore, AfterStore, NoSplicedFrame, Paired

\* main stores the new descriptor after the handler may have closed the old one.
LEMMA UartStoreKeeps == UartInv /\ UartStore => UartInv'
<1> SUFFICES ASSUME UartInv, UartStore PROVE UartInv'
  OBVIOUS
<1> USE DEF UartInv
<1>1. uartPc = "store" /\ uartPc' = "avail" /\ uartFd' = uartOpened /\ uartOpened' = NoDesc
      /\ UNCHANGED <<desc, present, rx, sent, uartMsg, uartOut>>
  BY DEF UartStore, UartGoto, uartPort
<1>2. UartTypeOK'
  BY <1>1 DEF UartTypeOK
<1>3. AfterStore'
  <2>1. uartFd' = NoDesc \/ IsPort(uartFd)'
    BY <1>1 DEF BeforeStore, IsPort
  <2>2. \E l \in UartFds \cup {NoDesc} : Ports' \subseteq {l, uartFd'}
    <3>1. Ports' \subseteq {uartFd, uartFd'}
      BY <1>1 DEF BeforeStore, Ports, IsPort
    <3>2. CASE uartFd \in UartFds \cup {NoDesc}
      BY <3>1, <3>2
    <3>3. CASE uartFd \notin UartFds \cup {NoDesc}
      BY <3>1, <3>3 DEF Ports
    <3> QED
      BY <3>2, <3>3
  <2> QED
    BY <2>1, <2>2 DEF AfterStore
<1> QED
  BY <1>1, <1>2, <1>3 DEF BeforeOpen, BeforeStore, QueueIsSuffix, NoSplicedFrame, Paired

\* main's read: a part of the queue, and the rest stays.
LEMMA UartReadKeeps == UartInv /\ UartRead => UartInv'
<1> SUFFICES ASSUME UartInv, UartRead PROVE UartInv'
  OBVIOUS
<1> USE DEF UartInv
<1>1. PICK k \in 0..Len(rx) : uartMsg' = SubSeq(rx, 1, k) /\ rx' = SubSeq(rx, k + 1, Len(rx))
  <2>1. Len(rx) \in Nat
    BY DEF UartTypeOK
  <2> DEFINE k == IF IsPort(uartFd) /\ desc[uartFd] = "tty"
                  THEN IF Len(rx) < 2 THEN Len(rx) ELSE 2
                  ELSE 0
  <2>2. k \in 0..Len(rx)
    BY <2>1
  <2>3. uartMsg' = SubSeq(rx, 1, k) /\ rx' = SubSeq(rx, k + 1, Len(rx))
    BY DEF UartRead, ReadInto
  <2> HIDE DEF k
  <2> QED
    BY <2>2, <2>3
<1>2. uartPc = "read" /\ uartPc' = "check" /\ UNCHANGED <<uartFd, uartOpened, desc, present, sent, uartOut>>
  BY DEF UartRead, UartGoto
<1>3. /\ uartMsg' \in Seq(Half) /\ rx' \in Seq(Half)
      /\ Paired(uartMsg)' /\ QueueIsSuffix'
  <2>1. rx \in Seq(Half) /\ Paired(rx) /\ (rx # <<>> => rx[Len(rx)] = sent)
    BY DEF UartTypeOK, QueueIsSuffix
  <2>2. /\ uartMsg' \in Seq(Half) /\ rx' \in Seq(Half) /\ Paired(uartMsg') /\ Paired(rx')
        /\ rx' # <<>> => rx'[Len(rx')] = rx[Len(rx)]
    BY <1>1, <2>1, PairedParts
  <2>3. rx' # <<>> => rx # <<>>
    BY <1>1
  <2>4. rx' # <<>> => rx'[Len(rx')] = sent'
    BY <1>2, <2>1, <2>2, <2>3
  <2>5. Paired(uartMsg)' /\ Paired(rx)'
    BY <2>2 DEF Paired
  <2> QED
    BY <2>2, <2>4, <2>5 DEF QueueIsSuffix
<1>4. UartTypeOK'
  BY <1>2, <1>3 DEF UartTypeOK
<1>5. Ports' = Ports /\ IsPort(uartFd)' = IsPort(uartFd)
  BY <1>2 DEF Ports, IsPort
<1> QED
  BY <1>2, <1>3, <1>4, <1>5 DEF BeforeOpen, BeforeStore, AfterStore, NoSplicedFrame

\* main's check, which publishes.
LEMMA UartCheckKeeps == UartInv /\ UartCheck => UartInv'
<1> SUFFICES ASSUME UartInv, UartCheck PROVE UartInv'
  OBVIOUS
<1> USE DEF UartInv
<1>1. uartPc = "check" /\ uartPc' = "avail"
      /\ UNCHANGED <<uartFd, uartOpened, desc, present, rx, sent, uartMsg>>
      /\ uartOut' = IF Len(uartMsg) = 2 /\ ParsedId(uartMsg) = idBlue THEN uartMsg ELSE uartOut
  BY DEF UartCheck, UartGoto, uartPort
<1>2. UartTypeOK'
  BY <1>1 DEF UartTypeOK
<1>3. Ports' = Ports /\ IsPort(uartFd)' = IsPort(uartFd)
  BY <1>1 DEF Ports, IsPort
<1>4. NoSplicedFrame'
  <2>1. CASE Len(uartMsg) = 2 /\ ParsedId(uartMsg) = idBlue
    <3>1. uartMsg[1].half = 1 /\ uartMsg[2].half = 2 /\ uartMsg[1].id = idBlue
      BY <2>1 DEF ParsedId, idBlue
    <3>2. uartMsg[2].id = uartMsg[1].id /\ uartMsg[2].n = uartMsg[1].n
      <4>1. 1 \in 1..(Len(uartMsg) - 1)
        BY <2>1
      <4> QED
        BY <3>1, <4>1 DEF Paired
    <3> QED
      BY <1>1, <2>1, <3>1, <3>2 DEF NoSplicedFrame
  <2>2. CASE ~(Len(uartMsg) = 2 /\ ParsedId(uartMsg) = idBlue)
    BY <1>1, <2>2 DEF NoSplicedFrame
  <2> QED
    BY <2>1, <2>2
<1> QED
  BY <1>1, <1>2, <1>3, <1>4 DEF BeforeOpen, BeforeStore, AfterStore, QueueIsSuffix, Paired

\* The node sends the other half of a frame, or the first half of the next.
LEMMA UartSendKeeps == UartInv /\ UartSend => UartInv'
<1> SUFFICES ASSUME UartInv, UartSend PROVE UartInv'
  OBVIOUS
<1> USE DEF UartInv
<1>1. UNCHANGED <<uartPc, uartFd, uartOpened, desc, present, uartMsg, uartOut>>
      /\ rx' = IF PortOpen THEN Append(rx, sent') ELSE <<>>
  BY DEF UartSend
<1>2. sent' \in Half /\ (sent.half = 1 => sent'.half = 2 /\ sent'.id = sent.id /\ sent'.n = sent.n)
  <2>1. sent \in [id : UartIds \cup {0}, n : {0, 1}, half : {1, 2}]
    BY DEF UartTypeOK, Half
  <2>2. CASE sent.half = 1
    <3>1. sent' = [sent EXCEPT !.half = 2]
      BY <2>2 DEF UartSend
    <3> QED
      BY <2>1, <2>2, <3>1 DEF Half
  <2>3. CASE sent.half # 1
    <3>1. PICK id \in UartIds : sent' = [id |-> id, n |-> 1 - sent.n, half |-> 1]
      BY <2>3 DEF UartSend
    <3> QED
      BY <2>1, <2>3, <3>1 DEF Half
  <2> QED
    BY <2>2, <2>3
<1>3. rx' \in Seq(Half) /\ QueueIsSuffix'
  <2>1. CASE PortOpen
    <3>1. rx \in Seq(Half) /\ rx' = Append(rx, sent')
      BY <1>1, <2>1 DEF UartTypeOK
    <3>2. Len(rx') = Len(rx) + 1 /\ rx' \in Seq(Half) /\ rx'[Len(rx')] = sent'
          /\ \A i \in 1..Len(rx) : rx'[i] = rx[i]
      BY <1>2, <3>1
    <3>3. ASSUME NEW i \in 1..(Len(rx') - 1), rx'[i].half = 1
          PROVE  rx'[i + 1].half = 2 /\ rx'[i + 1].id = rx'[i].id /\ rx'[i + 1].n = rx'[i].n
      <4>0. Len(rx) \in Nat
        BY <3>1
      <4>1. CASE i = Len(rx)
        <5>1. rx # <<>> /\ rx'[i] = rx[Len(rx)] /\ rx'[i + 1] = sent'
          BY <3>1, <3>2, <4>1
        <5> QED
          BY <1>2, <3>3, <5>1 DEF QueueIsSuffix
      <4>2. CASE i # Len(rx)
        <5>1. i \in 1..(Len(rx) - 1) /\ rx'[i] = rx[i] /\ rx'[i + 1] = rx[i + 1]
          BY <3>2, <4>0, <4>2
        <5> QED
          BY <3>3, <5>1 DEF QueueIsSuffix, Paired
      <4> QED
        BY <4>1, <4>2
    <3> QED
      BY <3>2, <3>3 DEF QueueIsSuffix, Paired
  <2>2. CASE ~PortOpen
    BY <1>1, <2>2 DEF QueueIsSuffix, Paired
  <2> QED
    BY <2>1, <2>2
<1>4. UartTypeOK'
  BY <1>1, <1>2, <1>3 DEF UartTypeOK
<1>5. Ports' = Ports /\ IsPort(uartFd)' = IsPort(uartFd) /\ IsPort(uartOpened)' = IsPort(uartOpened)
  BY <1>1 DEF Ports, IsPort
<1> QED
  BY <1>1, <1>3, <1>4, <1>5 DEF BeforeOpen, BeforeStore, AfterStore, NoSplicedFrame, Paired

\* The device goes away and comes back: a port stays a port.
LEMMA UartPlugKeeps == UartInv /\ (UartUnplug \/ UartPlug) => UartInv'
<1> SUFFICES ASSUME UartInv, UartUnplug \/ UartPlug PROVE UartInv'
  OBVIOUS
<1> USE DEF UartInv
<1>1. UNCHANGED <<uartPc, uartFd, uartOpened, sent, uartMsg, uartOut>> /\ rx' \in {rx, <<>>}
      /\ present' \in BOOLEAN
  BY DEF UartUnplug, UartPlug
<1>2. desc' \in [UartFds -> {"free", "other", "tty", "hung"}]
      /\ \A d \in UartFds : (desc'[d] \in {"tty", "hung"} <=> desc[d] \in {"tty", "hung"})
                            /\ (desc[d] # "free" => desc'[d] # "free")
  BY DEF UartUnplug, UartPlug, UartTypeOK
<1>3. Ports' = Ports /\ IsPort(uartFd)' = IsPort(uartFd) /\ IsPort(uartOpened)' = IsPort(uartOpened)
  BY <1>1, <1>2 DEF Ports, IsPort
<1>4. UartTypeOK'
  <2>1. rx' \in Seq(Half)
    <3>1. rx \in Seq(Half) /\ <<>> \in Seq(Half)
      BY DEF UartTypeOK
    <3>2. rx' = rx \/ rx' = <<>>
      BY <1>1
    <3> QED
      BY <3>1, <3>2
  <2> QED
    BY <1>1, <1>2, <2>1 DEF UartTypeOK
<1>5. QueueIsSuffix'
  <2>1. CASE rx' = rx
    BY <1>1, <2>1 DEF QueueIsSuffix, Paired
  <2>2. CASE rx' = <<>>
    <3>1. Paired(<<>>)
      BY DEF Paired
    <3>2. Paired(rx')
      BY <2>2, <3>1
    <3> QED
      BY <2>2, <3>2 DEF QueueIsSuffix, Paired
  <2> QED
    BY <1>1, <2>1, <2>2
<1>6. BeforeOpen'
  BY <1>1, <1>2, <1>3 DEF BeforeOpen
<1>7. BeforeStore' /\ AfterStore'
  BY <1>1, <1>3 DEF BeforeStore, AfterStore
<1>8. Paired(uartMsg)' /\ NoSplicedFrame'
  BY <1>1 DEF NoSplicedFrame, Paired
<1> QED
  BY <1>4, <1>5, <1>6, <1>7, <1>8

\* Every step of main, the handler, the node and the device preserves the invariant.
LEMMA UartInvStep == UartInv /\ [UartNext]_uartVars => UartInv'
<1> SUFFICES ASSUME UartInv, [UartNext]_uartVars PROVE UartInv'
  OBVIOUS
<1>1. CASE UartArm \/ UartInstall \/ UartAvail \/ UartSleep \/ UNCHANGED uartVars
  <2>1. UNCHANGED <<uartFd, uartOpened, desc, present, rx, sent, uartMsg, uartOut>>
    BY <1>1 DEF UartArm, UartInstall, UartAvail, UartSleep, uartVars, uartOwn, uartPort
  <2>2. \/ uartPc' = uartPc
        \/ uartPc \in {"arm", "install"} /\ uartPc' \in {"install", "open"}
        \/ uartPc \in {"avail", "sleep"} /\ uartPc' \in {"avail", "sleep", "read"}
    BY <1>1 DEF UartArm, UartInstall, UartAvail, UartSleep, UartGoto, uartVars, uartOwn
  <2>3. UartTypeOK'
    BY <2>1, <2>2 DEF UartInv, UartTypeOK
  <2>4. Ports' = Ports /\ IsPort(uartFd)' = IsPort(uartFd) /\ IsPort(uartOpened)' = IsPort(uartOpened)
    BY <2>1 DEF Ports, IsPort
  <2> QED
    BY <2>1, <2>2, <2>3, <2>4 DEF UartInv, BeforeOpen, BeforeStore, AfterStore, QueueIsSuffix,
                                  NoSplicedFrame, Paired
<1> QED
  BY <1>1, UartAlarmKeeps, UartOpenKeeps, UartStoreKeeps, UartReadKeeps, UartCheckKeeps,
     UartSendKeeps, UartPlugKeeps DEF UartNext, UartMain

\* At most two descriptors of the port are open.
LEMMA UartInvSound == UartInv => PortSound
<1> SUFFICES ASSUME UartInv PROVE PortSound
  OBVIOUS
<1>1. \E p, q : Ports \subseteq {p, q}
  BY DEF UartInv, UartTypeOK, BeforeOpen, BeforeStore, AfterStore
<1>2. PICK p, q : Ports \subseteq {p, q}
  BY <1>1
<1>3. IsFiniteSet({p, q}) /\ Cardinality({p, q}) <= 2 /\ Cardinality({p, q}) \in Nat
  <2>1. IsFiniteSet({p}) /\ Cardinality({p}) = 1
    BY FS_Singleton
  <2>2. IsFiniteSet({p} \cup {q}) /\ (Cardinality({p} \cup {q}) = Cardinality({p})
                                      \/ Cardinality({p} \cup {q}) = Cardinality({p}) + 1)
    BY <2>1, FS_AddElement
  <2>3. {p, q} = {p} \cup {q}
    OBVIOUS
  <2> QED
    BY <2>1, <2>2, <2>3
<1>4. IsFiniteSet(Ports) /\ Cardinality(Ports) \in Nat /\ Cardinality(Ports) <= Cardinality({p, q})
  BY <1>2, <1>3, FS_Subset, FS_CardinalityType
<1>5. PortDescriptorsBounded
  BY <1>3, <1>4 DEF PortDescriptorsBounded, Ports
<1>6. MainUsesPort
  BY DEF UartInv, AfterStore, MainUsesPort
<1> QED
  BY <1>5, <1>6 DEF PortSound, PortKept, UartInv

\* Whatever the alarm closes and reopens under main, at most two descriptors of
\* the serial port are open, main uses no other descriptor, and what it publishes
\* is one whole frame of the Bluetooth node (ClientUART.c, lines 54-61, 134-155).
THEOREM UartPortSound == UartSpec => []PortSound
<1>1. UartInit => UartInv
  BY UartInvInit
<1>2. UartInv /\ [UartNext]_uartVars => UartInv'
  BY UartInvStep
<1>3. UartInv => PortSound
  BY UartInvSound
<1> QED
  BY <1>1, <1>2, <1>3, PTL DEF UartSpec
-------------------------------------------------------------------------------
\* The I2C client.

\* The inductive invariant of the I2C client: there is no thread until main has
\* created it, so that no lock is lost when it begins.
I2cInv ==
  /\ MutexNeverStuck
  /\ mainPc \in {"arm", "install", "wait"} => threadPc = "none"

\* The lock word is left locked by nobody, although main initialises the mutex
\* when the thread may hold it, and each may unlock what the other has locked
\* (clientI2C.c, lines 143-186, 234-256 and 293).
THEOREM I2cMutexNeverStuck == I2cSpec => []MutexNeverStuck
<1>1. I2cInit => I2cInv
  BY DEF I2cInit, I2cInv, MutexNeverStuck
<1>2. I2cInv /\ [I2cNext]_i2cVars => I2cInv'
  <2> SUFFICES ASSUME I2cInv, [I2cNext]_i2cVars PROVE I2cInv'
    OBVIOUS
  <2> USE DEF I2cInv, MutexNeverStuck
  <2>1. CASE I2cArm \/ I2cInstall \/ I2cCreate \/ I2cInitMutex
    BY <2>1 DEF I2cArm, I2cInstall, I2cCreate, I2cInitMutex, MainGoto
  <2>2. CASE I2cRequest \/ I2cIoctl \/ I2cWrite \/ I2cOpen
    BY <2>2 DEF I2cRequest, I2cIoctl, I2cWrite, I2cOpen, MainGoto
  <2>3. CASE I2cAlarm \/ NodeMoves \/ UNCHANGED i2cVars
    BY <2>3 DEF I2cAlarm, NodeMoves, i2cVars, i2cOwn
  <2>4. CASE Handler
    BY <2>4 DEF Handler, ScanGivesUp, ScanNode, ScanRest, ScanReturns, HandlerStop
  <2>5. CASE ThreadTimer \/ ThreadFlag \/ ThreadWhile
    BY <2>5 DEF ThreadTimer, ThreadFlag, ThreadWhile, ThreadGoto
  <2>6. CASE ThreadLock \/ ThreadRead \/ ThreadLost \/ ThreadSearch
    BY <2>6 DEF ThreadLock, ThreadRead, ThreadLost, ThreadSearch, ThreadGoto, Unlock
  <2> QED
    BY <2>1, <2>2, <2>3, <2>4, <2>5, <2>6 DEF I2cNext, I2cMain, I2cThread
<1>3. I2cInv => MutexNeverStuck
  BY DEF I2cInv
<1> QED
  BY <1>1, <1>2, <1>3, PTL DEF I2cSpec
-------------------------------------------------------------------------------
\* The SPI client.

\* The text that has been read is as long as ka says, begins a frame, and is being
\* read if it is not empty.
FramerTypeOK ==
  /\ ka \in Nat /\ flag1 \in {0, 1}
  /\ msgReceive1 \in Seq({"open", "key", "3", "7", "close"})
  /\ Len(msgReceive1) = ka /\ (flag1 = 1 <=> ka > 0)
  /\ ka > 0 => msgReceive1[1] = "open"

StepTypeOK == fresh \in BOOLEAN /\ inStep \in BOOLEAN /\ spilled \in BOOLEAN

SlipTypeOK == spiK \in 1..5 /\ spiSlips \in Nat

\* The text grows past a frame only by slips: each one adds at most a frame.
GrowsBySlips ==
  /\ fresh => ka <= spiK - 1 + 5 * spiSlips
  /\ ~fresh => ka <= spiK + 5 * spiSlips
  /\ spiK = 5 /\ ~fresh => ka = 0

\* Without a slip the text is the beginning of the frame, and the node is at
\* its end, or one further with a character that has not been read.
ReadsInStep ==
  inStep /\ ka > 0 =>
    /\ ka <= 4 /\ spiK = (IF fresh THEN ka + 1 ELSE ka)
    /\ \A i \in 1..ka : msgReceive1[i] = SpiFrame[i]

\* The inductive invariant of the SPI client.
SpiInv ==
  /\ StepTypeOK /\ SlipTypeOK /\ ValueFromOneFrame
  /\ ~spilled => FramerTypeOK /\ ReadsInStep /\ GrowsBySlips

\* The characters of the frame.
LEMMA FrameCharacters ==
  /\ Len(SpiFrame) = 5
  /\ SpiFrame[1] = "open" /\ SpiFrame[2] = "key" /\ SpiFrame[3] = "3" /\ SpiFrame[4] = "7"
  /\ SpiFrame[5] = "close"
  /\ \A k \in 1..5 : SpiFrame[k] \in {"open", "key", "3", "7", "close"}
  /\ \A k \in 1..5 : SpiFrame[k] = "open" <=> k = 1
  /\ \A k \in 1..5 : SpiFrame[k] = "close" <=> k = 5
BY DEF SpiFrame

\* The text with one more character.
LEMMA PlacedFacts ==
  ASSUME FramerTypeOK, NEW c \in {"open", "key", "3", "7", "close"}
  PROVE  /\ Placed(c) \in Seq({"open", "key", "3", "7", "close"})
         /\ Len(Placed(c)) = ka + 1
         /\ \A i \in 1..ka : Placed(c)[i] = msgReceive1[i]
         /\ Placed(c)[ka + 1] = c
<1> DEFINE Alphabet == {"open", "key", "3", "7", "close"}
<1>1. SubSeq(msgReceive1, 1, ka) = msgReceive1
  BY SubSeqFull DEF FramerTypeOK
<1>2. msgReceive1 \in Seq(Alphabet) /\ Len(msgReceive1) = ka /\ c \in Alphabet
  BY DEF FramerTypeOK
<1>3. Placed(c) = msgReceive1 \o <<c>>
  BY <1>1 DEF Placed
<1> HIDE DEF Alphabet
<1>4. /\ Placed(c) \in Seq(Alphabet) /\ Len(Placed(c)) = ka + 1
      /\ \A i \in 1..ka : Placed(c)[i] = msgReceive1[i]
      /\ Placed(c)[ka + 1] = c
  BY <1>2, <1>3
<1> QED
  BY <1>4 DEF Alphabet

\* What the parser makes of a whole frame.
LEMMA WholeFrameParsed ==
  ASSUME NEW text \in Seq({"open", "key", "3", "7", "close"}), Len(text) = 5,
         \A i \in 1..5 : text[i] = SpiFrame[i]
  PROVE  Parsed(text) = Temp
<1> DEFINE v == SubSeq(text, 3, 4)
<1>1. Len(v) = 2 /\ v[1] = "3" /\ v[2] = "7" /\ v \in Seq({"open", "key", "3", "7", "close"})
  BY FrameCharacters
<1>2. v = Temp
  <2>1. Temp \in Seq({"open", "key", "3", "7", "close"}) /\ Len(Temp) = 2 /\ Temp[1] = "3" /\ Temp[2] = "7"
    BY DEF Temp
  <2> HIDE DEF v
  <2>2. \A i \in 1..Len(v) : v[i] = Temp[i]
    BY <1>1, <2>1
  <2> QED
    BY <1>1, <2>1, <2>2, SeqEqual
<1>3. Digits(v)
  BY <1>1 DEF Digits
<1> HIDE DEF v
<1>4. Len(text) > 3 /\ text[1] = "open" /\ text[2] = "key" /\ SubSeq(text, 3, Len(text) - 1) = v
  BY FrameCharacters DEF v
<1> QED
  BY <1>2, <1>3, <1>4 DEF Parsed

\* One character is read into a buffer that has not run over.
LEMMA SpiReadKeeps ==
  ASSUME SpiInv, ~spilled, SpiRead, ~spilled'
  PROVE  FramerTypeOK' /\ ReadsInStep' /\ GrowsBySlips' /\ ValueFromOneFrame'
<1> DEFINE c == SpiFrame[spiK]
<1>0. /\ FramerTypeOK /\ StepTypeOK /\ ReadsInStep /\ ValueFromOneFrame /\ GrowsBySlips
      /\ ka \in Nat /\ flag1 \in {0, 1} /\ (flag1 = 1 <=> ka > 0) /\ Len(msgReceive1) = ka
      /\ (ka > 0 => msgReceive1[1] = "open") /\ spiSlips \in Nat
  BY DEF SpiInv, FramerTypeOK, SlipTypeOK
<1>1. spiK \in 1..5 /\ c \in {"open", "key", "3", "7", "close"} /\ (c = "open" <=> spiK = 1) /\ (c = "close" <=> spiK = 5)
  BY FrameCharacters DEF SpiInv, SlipTypeOK
<1>2. spiK' = spiK /\ Framed(c)
  BY DEF SpiRead
<1>3. /\ fresh' = FALSE /\ inStep' = IF c = "open" /\ ka = 0 THEN fresh ELSE inStep /\ fresh
      /\ spiSlips' = IF fresh THEN spiSlips ELSE spiSlips + 1
  BY DEF SpiRead
<1>4. inStep' => fresh /\ (inStep \/ ka = 0)
  <2>1. fresh \in BOOLEAN /\ inStep \in BOOLEAN
    BY <1>0 DEF StepTypeOK
  <2>2. inStep' \in {fresh, inStep /\ fresh} /\ (ka # 0 => inStep' = (inStep /\ fresh))
    BY <1>3
  <2> QED
    BY <2>1, <2>2, Zenon
<1>8. ka <= spiK + 5 * spiSlips /\ (fresh => ka <= spiK - 1 + 5 * spiSlips)
  BY <1>0, <1>1 DEF GrowsBySlips
<1>9. spiSlips' \in Nat /\ ka + 1 <= spiK + 5 * spiSlips'
  <2>1. CASE fresh
    BY <1>0, <1>1, <1>3, <1>8, <2>1
  <2>2. CASE ~fresh
    BY <1>0, <1>1, <1>3, <1>8, <2>2
  <2> QED
    BY <2>1, <2>2
<1> HIDE DEF c
<1>5. /\ Placed(c) \in Seq({"open", "key", "3", "7", "close"}) /\ Len(Placed(c)) = ka + 1
      /\ \A i \in 1..ka : Placed(c)[i] = msgReceive1[i]
      /\ Placed(c)[ka + 1] = c
  BY <1>0, <1>1, PlacedFacts
<1>6. CASE c = "close" /\ msgReceive1 # <<>> /\ msgReceive1[1] = "open"
  <2>1. ka' = 0 /\ flag1' = 0 /\ msgReceive1' = <<>>
    BY <1>2, <1>6 DEF Framed
  <2>2. FramerTypeOK' /\ ReadsInStep'
    BY <2>1 DEF FramerTypeOK, ReadsInStep
  <2>4. GrowsBySlips'
    BY <1>1, <1>2, <1>3, <1>9, <2>1 DEF GrowsBySlips
  <2>3. ValueFromOneFrame'
    <3>1. CASE Parsed(Placed(c)) = <<>>
      BY <1>0, <1>2, <1>6, <3>1 DEF Framed, ValueFromOneFrame
    <3>2. CASE Parsed(Placed(c)) # <<>>
      <4>1. spiSent' = [value |-> Parsed(Placed(c)), inStep |-> inStep /\ fresh]
        BY <1>2, <1>6, <3>2 DEF Framed
      <4>2. ASSUME inStep, fresh PROVE Parsed(Placed(c)) = Temp
        <5>1. ka > 0
          BY <1>0, <1>6 DEF FramerTypeOK
        <5>2. ka <= 4 /\ spiK = ka + 1 /\ \A i \in 1..ka : msgReceive1[i] = SpiFrame[i]
          BY <1>0, <4>2, <5>1, Zenon DEF ReadsInStep
        <5>3. ka = 4
          BY <1>0, <1>1, <1>6, <5>2
        <5>4. \A i \in 1..5 : Placed(c)[i] = SpiFrame[i]
          BY <1>1, <1>5, <1>6, <5>2, <5>3, FrameCharacters
        <5> QED
          BY <1>5, <5>3, <5>4, WholeFrameParsed
      <4> QED
        BY <4>1, <4>2 DEF ValueFromOneFrame
    <3> QED
      BY <3>1, <3>2
  <2> QED
    BY <2>2, <2>3, <2>4
<1>7. CASE ~(c = "close" /\ msgReceive1 # <<>> /\ msgReceive1[1] = "open")
  <2>0. ka > 0 => c # "close"
    BY <1>0, <1>7
  <2>1. flag1' = (IF c = "open" THEN 1 ELSE flag1) /\ UNCHANGED spiSent
    BY <1>0, <1>2, <1>7 DEF Framed, framer
  <2>2. IF flag1' = 1 THEN msgReceive1' = Placed(c) /\ ka' = ka + 1
                      ELSE UNCHANGED <<msgReceive1, ka>>
    BY <1>0, <1>2, <1>7 DEF Framed, framer
  <2>3. ValueFromOneFrame'
    BY <1>0, <2>1 DEF ValueFromOneFrame
  <2>7. flag1' = 1 => spiK # 5
    <3>1. flag1' = 1 => c = "open" \/ ka > 0
      BY <1>0, <2>1
    <3> QED
      BY <1>1, <2>0, <3>1
  <2>4. FramerTypeOK'
    <3>1. CASE flag1' = 1
      <4>1. Placed(c)[1] = "open"
        <5>1. CASE ka = 0
          BY <1>0, <1>5, <2>1, <3>1, <5>1
        <5>2. CASE ka > 0
          BY <1>0, <1>5, <5>2
        <5> QED
          BY <1>0, <5>1, <5>2
      <4> QED
        BY <1>0, <1>1, <1>2, <1>5, <2>1, <2>2, <3>1, <4>1 DEF FramerTypeOK
    <3>2. CASE flag1' # 1
      BY <1>0, <1>1, <1>2, <2>1, <2>2, <3>2 DEF FramerTypeOK
    <3> QED
      BY <3>1, <3>2
  <2>8. GrowsBySlips'
    <3>1. ka' <= spiK + 5 * spiSlips'
      <4> DEFINE room == spiK + 5 * spiSlips'
      <4>1. room \in Int /\ ka + 1 <= room
        BY <1>1, <1>9
      <4>2. ka \in Nat /\ (ka' = ka \/ ka' = ka + 1)
        BY <1>0, <2>2
      <4> HIDE DEF room
      <4>3. ka' <= room
        BY <4>1, <4>2
      <4> QED
        BY <4>3 DEF room
    <3>2. spiK = 5 => ka' = 0
      BY <1>0, <2>1, <2>2, <2>7
    <3> QED
      BY <1>2, <1>3, <3>1, <3>2 DEF GrowsBySlips
  <2>5. ASSUME inStep', ka' > 0
        PROVE  /\ ka' <= 4 /\ spiK' = ka'
               /\ \A i \in 1..ka' : msgReceive1'[i] = SpiFrame[i]
    <3>1. CASE ka = 0
      <4>1. c = "open"
        BY <1>0, <2>1, <2>2, <2>5, <3>1
      <4>2. ka' = 1 /\ msgReceive1' = Placed(c) /\ spiK = 1
        BY <1>1, <2>1, <2>2, <3>1, <4>1
      <4> QED
        BY <1>2, <1>5, <3>1, <4>1, <4>2, FrameCharacters
    <3>2. CASE ka # 0
      <4>1. inStep /\ fresh
        BY <1>4, <2>5, <3>2, Zenon
      <4>2. ka > 0 /\ ka \in Nat /\ flag1 = 1
        BY <1>0, <3>2
      <4>3. ka <= 4 /\ spiK = ka + 1 /\ \A i \in 1..ka : msgReceive1[i] = SpiFrame[i]
        BY <1>0, <4>1, <4>2, Zenon DEF ReadsInStep
      <4>4. msgReceive1[1] = "open" /\ msgReceive1 # <<>>
        BY <1>0, <4>2, <4>3, FrameCharacters
      <4>5. ka # 4
        BY <1>1, <1>7, <4>3, <4>4
      <4>6. ka' = ka + 1 /\ msgReceive1' = Placed(c)
        BY <2>1, <2>2, <4>2
      <4>7. \A i \in 1..(ka + 1) : Placed(c)[i] = SpiFrame[i]
        BY <1>5, <4>2, <4>3 DEF c
      <4> QED
        BY <1>2, <4>2, <4>3, <4>5, <4>6, <4>7
    <3> QED
      BY <3>1, <3>2
  <2>6. ReadsInStep'
    <3>1. ~fresh'
      BY <1>3
    <3> QED
      BY <2>5, <3>1, Zenon DEF ReadsInStep
  <2> QED
    BY <2>3, <2>4, <2>6, <2>8
<1> QED
  BY <1>6, <1>7

\* The bound of GrowsBySlips when the node goes from place k to place j.
LEMMA RoomAfterShift ==
  ASSUME NEW m \in Nat, NEW s \in Nat, NEW k \in 1..5, NEW j \in 1..5, k # 5 => j = k + 1
  PROVE  /\ m <= k - 1 + 5 * s => m <= j - 1 + 5 * (s + 1)
         /\ m <= k + 5 * s /\ (k = 5 => m = 0) => m <= j - 1 + 5 * s
<1>1. CASE k = 5
  BY <1>1
<1>2. CASE k # 5
  BY <1>2
<1> QED
  BY <1>1, <1>2

\* A character is written past the end: by then two have been lost or doubled.
LEMMA SpillAfterTwoSlips ==
  ASSUME SpiInv, ~spilled, SpiRead, spilled'
  PROVE  spiSlips' >= 2
<1> DEFINE c == SpiFrame[spiK]
<1>1. spiK \in 1..5 /\ spiSlips \in Nat /\ ka \in Nat /\ GrowsBySlips
  BY DEF SpiInv, SlipTypeOK, FramerTypeOK
<1>2. ka >= 10
  <2>1. Framed(c)
    BY DEF SpiRead
  <2>2. ka >= MsgSize
    BY <2>1 DEF Framed, framer
  <2> QED
    BY <1>1, <2>2, MsgSizeAssumption, FrameCharacters
<1>3. spiSlips' = IF fresh THEN spiSlips ELSE spiSlips + 1
  BY DEF SpiRead
<1>4. CASE fresh
  BY <1>1, <1>2, <1>3, <1>4 DEF GrowsBySlips
<1>5. CASE ~fresh
  BY <1>1, <1>2, <1>3, <1>5 DEF GrowsBySlips
<1> QED
  BY <1>4, <1>5

\* A value that was read without a lost or doubled character is the node's,
\* whatever was lost or doubled in earlier frames, as long as the joined frames fit
\* msgReceive1, which they do until a second one (clientSPI.c, lines 120-167).
THEOREM SpiValueFromOneFrame == SpiSpec => []ValueFromOneFrame
<1>1. SpiInit => SpiInv
  <2> SUFFICES ASSUME SpiInit PROVE SpiInv
    OBVIOUS
  <2>1. ka = 0 /\ flag1 = 0 /\ spiK = 1 /\ msgReceive1 = <<>> /\ spiSlips = 0 /\ fresh = FALSE
    BY DEF SpiInit
  <2>2. FramerTypeOK /\ SlipTypeOK
    BY <2>1 DEF FramerTypeOK, SlipTypeOK
  <2>3. ReadsInStep /\ GrowsBySlips
    BY <2>1 DEF ReadsInStep, GrowsBySlips
  <2>4. ValueFromOneFrame /\ StepTypeOK
    BY DEF SpiInit, ValueFromOneFrame, StepTypeOK
  <2> QED
    BY <2>2, <2>3, <2>4 DEF SpiInv
<1>2. SpiInv /\ [SpiNext]_spiVars => SpiInv'
  <2> SUFFICES ASSUME SpiInv, [SpiNext]_spiVars PROVE SpiInv'
    OBVIOUS
  <2>0. /\ StepTypeOK /\ SlipTypeOK /\ ValueFromOneFrame /\ spiK \in 1..5 /\ spiSlips \in Nat
        /\ ~spilled => FramerTypeOK /\ ReadsInStep /\ GrowsBySlips
    BY DEF SpiInv, SlipTypeOK
  <2>1. CASE SpiRequest \/ SpiWrite \/ SpiDetect \/ UNCHANGED spiVars
    <3>1. UNCHANGED <<spiK, fresh, flag1, ka, msgReceive1, spilled, spiSent, spiSlips, inStep>>
      BY <2>1 DEF SpiRequest, SpiWrite, SpiDetect, spiVars, framer
    <3> QED
      BY <2>0, <3>1 DEF SpiInv, FramerTypeOK, StepTypeOK, SlipTypeOK, ReadsInStep,
                        ValueFromOneFrame, GrowsBySlips
  <2>2. CASE NodeShifts
    <3>1. spiK' = (spiK % 5) + 1 /\ UNCHANGED <<flag1, ka, msgReceive1, spiSent, spilled>>
      BY <2>2, FrameCharacters DEF NodeShifts, NextK, framer
    <3>2. /\ fresh' = TRUE /\ inStep' = (inStep /\ ~fresh)
          /\ spiSlips' = IF fresh THEN spiSlips + 1 ELSE spiSlips
      BY <2>2 DEF NodeShifts
    <3>3. spiK' \in 1..5 /\ (spiK <= 4 => spiK' = spiK + 1) /\ (spiK = 5 => spiK' = 1)
      BY <2>0, <3>1
    <3>4. FramerTypeOK => FramerTypeOK'
      BY <3>1 DEF FramerTypeOK
    <3>5. /\ fresh \in BOOLEAN /\ inStep \in BOOLEAN
          /\ StepTypeOK' /\ (inStep' => inStep /\ ~fresh) /\ fresh'
      BY <2>0, <3>1, <3>2 DEF StepTypeOK
    <3>8. spiSlips' \in Nat /\ spiSlips' >= spiSlips
      BY <2>0, <3>2, <3>5
    <3>6. ASSUME ~spilled, inStep', ka' > 0
          PROVE  /\ ka' <= 4 /\ spiK' = ka' + 1
                 /\ \A i \in 1..ka' : msgReceive1'[i] = SpiFrame[i]
      <4>1. inStep /\ ~fresh /\ ka > 0
        BY <3>1, <3>5, <3>6, Zenon
      <4>2. ka <= 4 /\ spiK = ka /\ \A i \in 1..ka : msgReceive1[i] = SpiFrame[i]
        BY <2>0, <3>6, <4>1, Zenon DEF ReadsInStep
      <4> QED
        BY <3>1, <3>3, <4>2
    <3>7. ~spilled => ReadsInStep'
      BY <3>5, <3>6, Zenon DEF ReadsInStep
    <3>12. /\ spiK \in 1..5 /\ spiK' \in 1..5 /\ spiSlips \in Nat
           /\ spiK # 5 => spiK' = spiK + 1
      BY <2>0, <3>3
    <3>9. ASSUME ~spilled PROVE GrowsBySlips'
      <4>1. ka \in Nat /\ ka' = ka /\ GrowsBySlips
        BY <2>0, <3>1, <3>9 DEF FramerTypeOK
      <4>2. CASE fresh
        <5>1. ka <= spiK - 1 + 5 * spiSlips /\ spiSlips' = spiSlips + 1
          BY <3>2, <4>1, <4>2 DEF GrowsBySlips
        <5>2. ka' <= spiK' - 1 + 5 * spiSlips'
          BY <3>12, <4>1, <5>1, RoomAfterShift
        <5> QED
          BY <3>5, <5>2, Zenon DEF GrowsBySlips
      <4>3. CASE ~fresh
        <5>1. ka <= spiK + 5 * spiSlips /\ (spiK = 5 => ka = 0) /\ spiSlips' = spiSlips
          BY <3>2, <4>1, <4>3 DEF GrowsBySlips
        <5>2. ka' <= spiK' - 1 + 5 * spiSlips'
          BY <3>12, <4>1, <5>1, RoomAfterShift
        <5> QED
          BY <3>5, <5>2, Zenon DEF GrowsBySlips
      <4> QED
        BY <4>2, <4>3
    <3>10. ValueFromOneFrame' /\ SlipTypeOK'
      BY <2>0, <3>1, <3>3, <3>8 DEF ValueFromOneFrame, SlipTypeOK
    <3> QED
      BY <2>0, <3>1, <3>4, <3>5, <3>7, <3>9, <3>10 DEF SpiInv
  <2>3. CASE SpiRead
    <3>1. spiK' = spiK /\ spiSlips' \in Nat /\ spiSlips' >= spiSlips
      BY <2>0, <2>3 DEF SpiRead
    <3>2. SlipTypeOK'
      BY <2>0, <3>1 DEF SlipTypeOK
    <3>3. StepTypeOK'
      <4>1. Framed(SpiFrame[spiK]) /\ fresh' = FALSE
        BY <2>3 DEF SpiRead
      <4>2. spilled' \in BOOLEAN
        BY <2>0, <4>1 DEF Framed, framer, StepTypeOK
      <4>3. inStep' \in {fresh, inStep /\ fresh}
        BY <2>3 DEF SpiRead
      <4>4. inStep' \in BOOLEAN
        BY <2>0, <4>3 DEF StepTypeOK
      <4> QED
        BY <4>1, <4>2, <4>4 DEF StepTypeOK
    <3>4. CASE spilled'
      <4>1. spiSlips' >= 2
        <5>1. CASE spilled
          BY <2>0, <3>1, <5>1 DEF ValueFromOneFrame
        <5>2. CASE ~spilled
          BY <2>3, <3>4, <5>2, SpillAfterTwoSlips
        <5> QED
          BY <5>1, <5>2
      <4> QED
        BY <3>2, <3>3, <3>4, <4>1 DEF SpiInv, ValueFromOneFrame
    <3>5. CASE ~spilled'
      <4>1. ~spilled
        <5>1. Framed(SpiFrame[spiK])
          BY <2>3 DEF SpiRead
        <5> QED
          BY <3>5, <5>1 DEF Framed, framer
      <4> QED
        BY <2>3, <3>2, <3>3, <3>5, <4>1, SpiReadKeeps DEF SpiInv
    <3> QED
      BY <3>4, <3>5
  <2> QED
    BY <2>1, <2>2, <2>3 DEF SpiNext
<1>3. SpiInv => ValueFromOneFrame
  BY DEF SpiInv
<1> QED
  BY <1>1, <1>2, <1>3, PTL DEF SpiSpec
-------------------------------------------------------------------------------
\* The web server.

WebTypeOK ==
  /\ allWebClients \in Seq(Browsers) /\ online \subseteq Browsers
  /\ shown \in [Browsers -> Seq(Nat)] /\ missed \in [Browsers -> Seq(Nat)]
  /\ newsSent \in Nat /\ news \in Seq([n : Nat, json : BOOLEAN])

\* No list holds a browser twice.
NoRepeats(list) == \A i, j \in 1..Len(list) : list[i] = list[j] => i = j
InList(b, list) == \E i \in 1..Len(list) : list[i] = b

\* The list is the connected browsers, each once: indexOf always finds the one
\* that leaves, so splice(-1, 1) never removes somebody else.
ListIsOnline ==
  NoRepeats(allWebClients) /\ \A b \in Browsers : b \in online <=> InList(b, allWebClients)

\* The inductive invariant of the web server.
WebInv == WebTypeOK /\ ListIsOnline /\ EveryBrowserServed

\* A list without one of its elements.
LEMMA RemovedFacts ==
  ASSUME NEW S, NEW list \in Seq(S), NEW i \in 1..Len(list)
  PROVE  /\ RemoveAt(list, i) \in Seq(S) /\ Len(RemoveAt(list, i)) = Len(list) - 1
         /\ \A k \in 1..(Len(list) - 1) :
              RemoveAt(list, i)[k] = IF k < i THEN list[k] ELSE list[k + 1]
<1> DEFINE l == SubSeq(list, 1, i - 1)
           r == SubSeq(list, i + 1, Len(list))
<1>1. l \in Seq(S) /\ Len(l) = i - 1 /\ \A k \in 1..(i - 1) : l[k] = list[k]
  OBVIOUS
<1>2. r \in Seq(S) /\ Len(r) = Len(list) - i /\ \A k \in 1..(Len(list) - i) : r[k] = list[i + k]
  OBVIOUS
<1>3. RemoveAt(list, i) = l \o r
  BY DEF RemoveAt
<1> HIDE DEF l, r
<1>4. l \o r \in Seq(S) /\ Len(l \o r) = Len(list) - 1
      /\ \A k \in 1..(Len(list) - 1) : (l \o r)[k] = IF k < i THEN l[k] ELSE r[k - (i - 1)]
  <2>1. l \o r \in Seq(S) /\ Len(l \o r) = Len(l) + Len(r)
        /\ \A k \in 1..(Len(l) + Len(r)) : (l \o r)[k] = IF k <= Len(l) THEN l[k] ELSE r[k - Len(l)]
    BY <1>1, <1>2, ConcatProperties
  <2>2. Len(l) = i - 1 /\ Len(l) + Len(r) = Len(list) - 1
    BY <1>1, <1>2
  <2> QED
    BY <2>1, <2>2
<1>5. ASSUME NEW k \in 1..(Len(list) - 1)
      PROVE  (l \o r)[k] = IF k < i THEN list[k] ELSE list[k + 1]
  <2>1. CASE k < i
    BY <1>1, <1>4, <2>1
  <2>2. CASE ~(k < i)
    <3>1. k - (i - 1) \in 1..(Len(list) - i) /\ i + (k - (i - 1)) = k + 1
      BY <2>2
    <3> QED
      BY <1>2, <1>4, <2>2, <3>1
  <2> QED
    BY <2>1, <2>2
<1> QED
  BY <1>3, <1>4, <1>5

\* A browser that leaves is taken out of the list, and no other.
LEMMA SpliceFacts ==
  ASSUME NEW list \in Seq(Browsers), NoRepeats(list), NEW b \in Browsers, InList(b, list)
  PROVE  /\ Splice(list, b) \in Seq(Browsers) /\ NoRepeats(Splice(list, b))
         /\ \A c \in Browsers : InList(c, Splice(list, b)) <=> (InList(c, list) /\ c # b)
<1>1. PICK i \in 1..Len(list) : list[i] = b
  BY DEF InList
<1>2. \A j \in 1..Len(list) : list[j] = b => j = i
  BY <1>1 DEF NoRepeats
<1> DEFINE IsFirst(x) == list[x] = b /\ \A j \in 1..(x - 1) : list[j] # b
           s == RemoveAt(list, i)
<1>3. IsFirst(i) /\ \A x \in DOMAIN list : IsFirst(x) => x = i
  BY <1>1, <1>2
<1>4. (CHOOSE x \in DOMAIN list : IsFirst(x)) = i
  <2> HIDE DEF IsFirst
  <2>1. i \in DOMAIN list
    OBVIOUS
  <2> QED
    BY <1>3, <2>1
<1>5. Splice(list, b) = s
  <2>1. \E x \in DOMAIN list : list[x] = b
    BY <1>1
  <2>2. Splice(list, b) = RemoveAt(list, CHOOSE x \in DOMAIN list : IsFirst(x))
    BY <2>1, Zenon DEF Splice
  <2> QED
    BY <1>4, <2>2
<1>6. /\ s \in Seq(Browsers) /\ Len(s) = Len(list) - 1
      /\ \A k \in 1..(Len(list) - 1) : s[k] = IF k < i THEN list[k] ELSE list[k + 1]
  BY RemovedFacts
<1> HIDE DEF s
<1>7. NoRepeats(s)
  <2> SUFFICES ASSUME NEW j \in 1..Len(s), NEW k \in 1..Len(s), s[j] = s[k]
               PROVE  j = k
    BY DEF NoRepeats
  <2> DEFINE u == IF j < i THEN j ELSE j + 1
             v == IF k < i THEN k ELSE k + 1
  <2>1. u \in 1..Len(list) /\ v \in 1..Len(list) /\ list[u] = list[v]
    BY <1>6
  <2>2. u = v
    BY <2>1 DEF NoRepeats
  <2> QED
    BY <2>2, <1>6
<1>8. ASSUME NEW c \in Browsers, InList(c, s) PROVE InList(c, list) /\ c # b
  <2>1. PICK k \in 1..Len(s) : s[k] = c
    BY <1>8 DEF InList
  <2> DEFINE u == IF k < i THEN k ELSE k + 1
  <2>2. u \in 1..Len(list) /\ list[u] = c /\ u # i
    BY <1>6, <2>1
  <2> HIDE DEF u
  <2> QED
    BY <1>2, <2>2 DEF InList
<1>9. ASSUME NEW c \in Browsers, InList(c, list), c # b PROVE InList(c, s)
  <2>1. PICK k \in 1..Len(list) : list[k] = c
    BY <1>9 DEF InList
  <2>2. k # i
    BY <1>1, <1>9, <2>1
  <2> DEFINE u == IF k < i THEN k ELSE k - 1
  <2>3. u \in 1..Len(s) /\ s[u] = c
    BY <1>6, <2>1, <2>2
  <2> HIDE DEF u
  <2> QED
    BY <2>3 DEF InList
<1> QED
  BY <1>5, <1>6, <1>7, <1>8, <1>9

\* A message is passed on to every element of the list.
LEMMA WebMessageKeeps == WebInv /\ WebMessage => WebInv'
<1> SUFFICES ASSUME WebInv, WebMessage PROVE WebInv'
  OBVIOUS
<1> DEFINE m == Head(news)
           places(b) == {i \in DOMAIN allWebClients : allWebClients[i] = b}
           times(b) == Cardinality(places(b))
<1>0. WebTypeOK /\ ListIsOnline /\ EveryBrowserServed
  BY DEF WebInv
<1>1. m \in [n : Nat, json : BOOLEAN] /\ news' \in Seq([n : Nat, json : BOOLEAN]) /\ newsSent' = newsSent
  <2> DEFINE News == [n : Nat, json : BOOLEAN]
  <2>1. news \in Seq(News) /\ news # <<>> /\ news' = Tail(news) /\ newsSent' = newsSent
    BY <1>0 DEF WebMessage, WebTypeOK
  <2> HIDE DEF News
  <2>2. Head(news) \in News /\ Tail(news) \in Seq(News)
    BY <2>1, HeadTailProperties
  <2> QED
    BY <2>1, <2>2 DEF News
<1>2. CASE m.json
  <2>1. /\ shown' = [b \in Browsers |-> shown[b] \o [i \in 1..times(b) |-> m.n]]
        /\ missed' = [b \in Browsers |-> IF b \in online THEN Append(missed[b], m.n) ELSE missed[b]]
        /\ UNCHANGED <<allWebClients, online>>
    BY <1>2 DEF WebMessage
  <2>2. ASSUME NEW b \in Browsers
        PROVE  IF b \in online THEN times(b) = 1 ELSE times(b) = 0
    <3>1. CASE b \in online
      <4>1. PICK i \in 1..Len(allWebClients) : allWebClients[i] = b
        BY <1>0, <3>1 DEF ListIsOnline, InList
      <4>2. places(b) = {i}
        <5>1. DOMAIN allWebClients = 1..Len(allWebClients)
          BY <1>0 DEF WebTypeOK
        <5>2. \A j \in 1..Len(allWebClients) : allWebClients[j] = b => j = i
          BY <1>0, <4>1 DEF ListIsOnline, NoRepeats
        <5> QED
          BY <4>1, <5>1, <5>2
      <4> QED
        BY <3>1, <4>2, FS_Singleton
    <3>2. CASE b \notin online
      <4>1. places(b) = {}
        BY <1>0, <3>2 DEF ListIsOnline, InList, WebTypeOK
      <4> QED
        BY <3>2, <4>1, FS_EmptySet
    <3> QED
      BY <3>1, <3>2
  <2> HIDE DEF m, times, places
  <2>3. m.n \in Nat
    BY <1>1
  <2>4. ASSUME NEW b \in Browsers
        PROVE  shown'[b] = IF b \in online THEN Append(shown[b], m.n) ELSE shown[b]
    <3>1. shown[b] \in Seq(Nat)
      BY <1>0 DEF WebTypeOK
    <3>2. shown'[b] = shown[b] \o [i \in 1..times(b) |-> m.n]
      BY <2>1
    <3>3. CASE b \in online
      <4>1. [i \in 1..times(b) |-> m.n] = <<m.n>>
        BY <2>2, <3>3
      <4>2. shown[b] \o <<m.n>> = Append(shown[b], m.n)
        BY <2>3, <3>1
      <4> QED
        BY <3>2, <3>3, <4>1, <4>2
    <3>4. CASE b \notin online
      <4>1. [i \in 1..times(b) |-> m.n] = <<>>
        BY <2>2, <3>4
      <4> QED
        BY <3>1, <3>2, <3>4, <4>1, ConcatEmptySeq
    <3> QED
      BY <3>3, <3>4
  <2>5. shown' \in [Browsers -> Seq(Nat)] /\ missed' \in [Browsers -> Seq(Nat)]
    <3>1. shown' = [b \in Browsers |-> shown'[b]]
      BY <2>1
    <3>2. \A b \in Browsers : shown'[b] \in Seq(Nat)
      <4>1. \A b \in Browsers : shown[b] \in Seq(Nat)
        BY <1>0 DEF WebTypeOK
      <4>2. \A b \in Browsers : Append(shown[b], m.n) \in Seq(Nat)
        BY <2>3, <4>1, AppendProperties
      <4> QED
        BY <2>4, <4>1, <4>2
    <3>3. missed' \in [Browsers -> Seq(Nat)]
      BY <1>0, <2>1, <2>3 DEF WebTypeOK
    <3> QED
      BY <3>1, <3>2, <3>3
  <2>6. EveryBrowserServed'
    BY <1>0, <2>1, <2>4 DEF EveryBrowserServed, WebTypeOK
  <2>7. ListIsOnline'
    BY <1>0, <2>1 DEF ListIsOnline, NoRepeats, InList
  <2>8. WebTypeOK'
    BY <1>0, <1>1, <2>1, <2>5 DEF WebTypeOK
  <2> QED
    BY <2>6, <2>7, <2>8 DEF WebInv
<1>3. CASE ~m.json
  <2>1. allWebClients' = <<>> /\ online' = {} /\ UNCHANGED <<shown, missed>>
    BY <1>3 DEF WebMessage
  <2>2. WebTypeOK'
    BY <1>0, <1>1, <2>1 DEF WebTypeOK
  <2> QED
    BY <2>1, <2>2 DEF WebInv, ListIsOnline, NoRepeats, InList, EveryBrowserServed
<1> QED
  BY <1>2, <1>3

\* A browser connects or leaves.
LEMMA BrowserKeeps ==
  ASSUME WebInv, NEW b \in Browsers, BrowserConnects(b) \/ BrowserLeaves(b)
  PROVE  WebInv'
<1>0. WebTypeOK /\ ListIsOnline /\ EveryBrowserServed
  BY DEF WebInv
<1>1. CASE BrowserConnects(b)
  <2>1. /\ b \notin online /\ online' = online \cup {b} /\ allWebClients' = Append(allWebClients, b)
        /\ shown' = [shown EXCEPT ![b] = <<>>] /\ missed' = [missed EXCEPT ![b] = <<>>]
        /\ UNCHANGED <<news, newsSent>>
    BY <1>1 DEF BrowserConnects
  <2>2. /\ allWebClients' \in Seq(Browsers) /\ Len(allWebClients') = Len(allWebClients) + 1
        /\ \A i \in 1..Len(allWebClients) : allWebClients'[i] = allWebClients[i]
        /\ allWebClients'[Len(allWebClients) + 1] = b /\ Len(allWebClients) \in Nat
    BY <1>0, <2>1 DEF WebTypeOK
  <2>3. WebTypeOK'
    BY <1>0, <2>1, <2>2 DEF WebTypeOK
  <2>4. \A i \in 1..Len(allWebClients) : allWebClients[i] # b
    BY <1>0, <2>1 DEF ListIsOnline, InList
  <2>5. NoRepeats(allWebClients)'
    BY <1>0, <2>2, <2>4 DEF ListIsOnline, NoRepeats
  <2>6. ASSUME NEW c \in Browsers PROVE c \in online' <=> InList(c, allWebClients)'
    <3>1. CASE c = b
      <4>1. Len(allWebClients) + 1 \in 1..Len(allWebClients')
        BY <2>2
      <4> QED
        BY <2>1, <2>2, <3>1, <4>1 DEF InList
    <3>2. CASE c # b
      <4>1. c \in online' <=> c \in online
        BY <2>1, <3>2
      <4>2. InList(c, allWebClients)' <=> InList(c, allWebClients)
        BY <2>2, <3>2 DEF InList
      <4> QED
        BY <1>0, <4>1, <4>2 DEF ListIsOnline
    <3> QED
      BY <3>1, <3>2
  <2>7. ListIsOnline'
    BY <2>5, <2>6 DEF ListIsOnline
  <2>8. EveryBrowserServed'
    BY <1>0, <2>1 DEF EveryBrowserServed, WebTypeOK
  <2> QED
    BY <2>3, <2>7, <2>8 DEF WebInv
<1>2. CASE BrowserLeaves(b)
  <2>1. b \in online /\ online' = online \ {b} /\ allWebClients' = Splice(allWebClients, b)
        /\ UNCHANGED <<shown, missed, news, newsSent>>
    BY <1>2 DEF BrowserLeaves
  <2>2. /\ allWebClients' \in Seq(Browsers) /\ NoRepeats(allWebClients')
        /\ \A c \in Browsers : InList(c, allWebClients') <=> (InList(c, allWebClients) /\ c # b)
    BY <1>0, <2>1, SpliceFacts DEF ListIsOnline, WebTypeOK
  <2>3. WebTypeOK'
    BY <1>0, <2>1, <2>2 DEF WebTypeOK
  <2>4. ListIsOnline'
    BY <1>0, <2>1, <2>2 DEF ListIsOnline, NoRepeats, InList
  <2> QED
    BY <1>0, <2>1, <2>3, <2>4 DEF WebInv, EveryBrowserServed
<1> QED
  BY <1>1, <1>2

\* Whatever browsers come and go, in whatever number, each connected one has
\* been sent what the server received since it connected, once and in order
\* (app.js, lines 42-67).
THEOREM WebEveryBrowserServed == WebSpec => []EveryBrowserServed
<1>1. WebInit => WebInv
  BY DEF WebInit, WebInv, WebTypeOK, ListIsOnline, NoRepeats, InList, EveryBrowserServed
<1>2. WebInv /\ [WebNext]_webVars => WebInv'
  <2> SUFFICES ASSUME WebInv, [WebNext]_webVars PROVE WebInv'
    OBVIOUS
  <2>1. CASE WebConnect \/ WebBrokerLost \/ WebNews \/ UNCHANGED webVars
    <3>1. UNCHANGED <<allWebClients, online, shown, missed>>
      BY <2>1 DEF WebConnect, WebBrokerLost, WebNews, webVars
    <3>2. newsSent' \in Nat /\ news' \in Seq([n : Nat, json : BOOLEAN])
      <4> DEFINE News == [n : Nat, json : BOOLEAN]
      <4>1. newsSent \in Nat /\ news \in Seq(News) /\ <<>> \in Seq(News)
        BY DEF WebInv, WebTypeOK
      <4>2. newsSent' = newsSent \/ newsSent' = newsSent + 1
        BY <2>1 DEF WebConnect, WebBrokerLost, WebNews, webVars
      <4>3. newsSent' \in Nat
        BY <4>1, <4>2
      <4>4. news' = news \/ news' = <<>> \/ \E json \in BOOLEAN : news' = Append(news, [n |-> newsSent', json |-> json])
        BY <2>1 DEF WebConnect, WebBrokerLost, WebNews, webVars
      <4>5. \A json \in BOOLEAN : [n |-> newsSent', json |-> json] \in News
        BY <4>3
      <4> HIDE DEF News
      <4>6. news' \in Seq(News)
        BY <4>1, <4>4, <4>5, AppendProperties
      <4> QED
        BY <4>3, <4>6 DEF News
    <3> QED
      BY <3>1, <3>2 DEF WebInv, WebTypeOK, ListIsOnline, NoRepeats, InList, EveryBrowserServed
  <2>2. CASE WebMessage
    BY <2>2, WebMessageKeeps
  <2>3. ASSUME NEW b \in Browsers, BrowserConnects(b) \/ BrowserLeaves(b) PROVE WebInv'
    BY <2>3, BrowserKeeps
  <2> QED
    BY <2>1, <2>2, <2>3 DEF WebNext
<1>3. WebInv => EveryBrowserServed
  BY DEF WebInv
<1> QED
  BY <1>1, <1>2, <1>3, PTL DEF WebSpec
================================================================================
