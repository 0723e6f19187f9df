-------------------------- MODULE ClientThreadsProofs --------------------------
(***************************************************************************)
(* Proof that a connection of an MQTTClient with callbacks is sound, for   *)
(* any number of connects, timeouts and sockets.                           *)
(***************************************************************************)
EXTENDS ClientThreads, SequenceTheorems, TLAPS

Answers == {"CONNACK", "SUBACK", "UNSUBACK"}
Packets == [type : Answers \cup {"none"}, conn : Nat, ok : BOOLEAN]
Peers == {"unused", "syn", "up", "refused", "open", "gone"}
Sockets == [peer : Peers, conn : Nat, asked : Seq(Answers), in : Seq(Packets)]

AppStates == [pc : {"idle", "wait", "read", "woken", "stop"}, wait : Waits, rc : -1..1,
              pack : Packets, version : {3, 4}]
ClientStates == [state : {"NOT_IN_PROGRESS", "TCP_IN_PROGRESS", "WAIT_FOR_CONNACK"},
                 connected : BOOLEAN, sock : 0..MaxSocket]
RunStates == [pc : {"none", "top", "ready", "dispatch"}, sock : 0..MaxSocket,
              pack : Packets, rc : {-1, 0}]

ThreadsTypeOK ==
  /\ app \in AppStates
  /\ cl \in ClientStates
  /\ mPack \in Packets /\ mRc \in 0..1 /\ sems \in [Waits -> BOOLEAN]
  /\ running \in BOOLEAN /\ tostop \in BOOLEAN
  /\ run \in RunStates
  /\ fds \in [Descriptors -> Sockets]
  /\ conns \in Nat /\ welcomed \subseteq Nat /\ attempts \in Nat /\ cuts \in Nat

\* Where the application's thread is.
Waiting == app.pc \in {"wait", "read", "woken"}
AtConnect == Waiting /\ app.wait = "CONNECT"
AtConnack == Waiting /\ app.wait = "CONNACK"
Connecting == AtConnect \/ AtConnack

Dead(f) == fds[f].peer \in {"refused", "gone"}

\* The thread and the flags that say that it runs.
ThreadInv ==
  /\ running <=> run.pc # "none"
  /\ tostop => app.pc = "stop" /\ running
  /\ (app.pc = "idle" /\ ~cl.connected) => ~running
  /\ (Waiting /\ ~Connecting) => (cl.connected \/ ~running)
  /\ app.pc = "stop" => ~cl.connected

\* The client's socket: there is one while it is connecting or connected.
SocketInv ==
  /\ Connecting => ~cl.connected /\ cl.sock > 0
  /\ cl.connected => cl.sock > 0
  /\ cl.sock > 0 => fds[cl.sock].peer # "unused"
  /\ cl.state = "TCP_IN_PROGRESS" => AtConnect
  /\ cl.state = "WAIT_FOR_CONNACK" => AtConnack
  /\ (run.pc = "dispatch" /\ run.rc # 0) => run.pack = NoPack

\* A wait for TCP that has timed out, or an attempt made when the time has passed.
Doomed == app.pc \in {"read", "woken"} /\ app.wait = "CONNECT" /\ app.rc = -1

\* What connect_state says of the socket while a connect goes on.
StateInv == (Connecting /\ ~Doomed) =>
  /\ sems["CONNECT"] => app.pc = "wait" /\ AtConnect /\ cl.state = "NOT_IN_PROGRESS"
  /\ (AtConnect /\ app.pc # "wait") => cl.state = "NOT_IN_PROGRESS"
  /\ (run.pc = "dispatch" /\ run.rc # 0 /\ run.sock = cl.sock) =>
       \/ cl.state = "TCP_IN_PROGRESS"
       \/ Dead(cl.sock) /\ fds[cl.sock].in = <<>>

\* Where no wait has timed out, the socket is closed or dead when it is left.
UncutInv ==
  /\ \A f \in Descriptors \ {cl.sock} : fds[f].peer \in {"unused", "refused", "gone"}
  /\ ~Connecting => ~sems["CONNECT"]
  /\ (Connecting /\ app.pc # "wait") => app.rc >= 0
  /\ (AtConnect /\ app.pc # "wait" /\ app.rc # 0) => Dead(cl.sock)
  /\ (AtConnect /\ cl.state = "NOT_IN_PROGRESS" /\ mRc # 0) => Dead(cl.sock)
  /\ AtConnack => (cl.state = "WAIT_FOR_CONNACK" \/ Dead(cl.sock))
  /\ (~Connecting /\ ~cl.connected /\ cl.sock > 0) => Dead(cl.sock)

\* In the first call of MQTTClient_connect: the packet being dispatched ...
Reading == IF run.pc = "dispatch" THEN run.pack ELSE NoPack

\* ... and the one CONNACK of the connection, wherever it is.
OwnConnack(p) == p.type = "CONNACK" /\ (p.ok => fds[cl.sock].conn \in welcomed)
OneConnack ==
  /\ mPack # NoPack => OwnConnack(mPack) /\ Reading = NoPack /\ fds[cl.sock].in = <<>>
                         /\ fds[cl.sock].asked = <<>>
  /\ Reading # NoPack => OwnConnack(Reading) /\ fds[cl.sock].in = <<>> /\ fds[cl.sock].asked = <<>>
  /\ fds[cl.sock].in # <<>> =>
       /\ Len(fds[cl.sock].in) = 1 /\ OwnConnack(fds[cl.sock].in[1])
       /\ fds[cl.sock].asked = <<>>
  /\ fds[cl.sock].asked \in {<<>>, <<"CONNACK">>}

\* No CONNACK is under way to m->pack.
Quiet == Reading = NoPack /\ fds[cl.sock].in = <<>> /\ (fds[cl.sock].asked = <<>> \/ Dead(cl.sock))

FirstInv ==
  /\ attempts = 0 => ~cl.connected /\ app.pc = "idle" /\ mPack = NoPack
                   /\ ~sems["CONNECT"] /\ ~sems["CONNACK"]
  /\ cl.connected => fds[cl.sock].conn \in welcomed
  /\ AtConnack => OneConnack /\ (app.pc # "wait" => app.rc <= 0)
  /\ (AtConnect /\ ~Doomed) =>
       /\ mPack = NoPack /\ Reading = NoPack
       /\ fds[cl.sock].in = <<>> /\ fds[cl.sock].asked = <<>>
       /\ app.version = 4 => ~sems["CONNACK"]
  /\ (AtConnack /\ app.pc = "woken" /\ app.pack # NoPack) => OwnConnack(app.pack)
  /\ (AtConnack /\ app.version = 4) =>
       /\ app.pc = "wait" /\ sems["CONNACK"] => Quiet
       /\ app.pc \in {"read", "woken"} /\ app.rc = 0 => Quiet
       /\ app.pc = "woken" /\ app.rc = 0 => app.pack = mPack

ConnectionInv ==
  /\ ThreadsTypeOK /\ ThreadInv /\ SocketInv
  /\ (cuts = 0 \/ attempts <= 1) => StateInv
  /\ cuts = 0 => UncutInv
  /\ attempts <= 1 => FirstInv
-------------------------------------------------------------------------------
\* Types.

\* The absence of a packet has the type of one.
LEMMA NoPackType == NoPack \in Packets
  BY DEF NoPack, Packets

\* So has a descriptor that is not in use.
LEMMA UnusedType == Unused \in Sockets
  <1>1. <<>> \in Seq(Answers) /\ <<>> \in Seq(Packets)
    BY EmptySeq
  <1> QED
    BY <1>1 DEF Unused, Sockets, Peers

\* The types hold before the first call.
LEMMA TypeInit == ThreadsInit => ThreadsTypeOK
<1> SUFFICES ASSUME ThreadsInit PROVE ThreadsTypeOK
  OBVIOUS
<1>1. app \in AppStates
  BY NoPackType DEF ThreadsInit, AppStates, Waits
<1>2. cl \in ClientStates /\ run \in RunStates
  BY NoPackType, ThreadsAssumption DEF ThreadsInit, ClientStates, RunStates
<1>3. fds \in [Descriptors -> Sockets]
  BY UnusedType DEF ThreadsInit
<1>4. sems \in [Waits -> BOOLEAN] /\ running \in BOOLEAN /\ tostop \in BOOLEAN
  BY DEF ThreadsInit
<1>5. /\ mPack \in Packets /\ mRc \in 0..1 /\ conns \in Nat /\ welcomed \subseteq Nat
      /\ attempts \in Nat /\ cuts \in Nat
  BY NoPackType DEF ThreadsInit
<1> QED
  BY <1>1, <1>2, <1>3, <1>4, <1>5 DEF ThreadsTypeOK

\* MQTTClient_closeSession keeps the types.
LEMMA ClosedType ==
  ASSUME ThreadsTypeOK
  PROVE  ClosedCl \in ClientStates /\ ClosedFds \in [Descriptors -> Sockets]
<1>1. ClosedCl \in ClientStates
  BY ThreadsAssumption DEF ThreadsTypeOK, ClientStates, ClosedCl
<1>2. ClosedFds \in [Descriptors -> Sockets]
  BY UnusedType DEF ThreadsTypeOK, ClosedFds
<1> QED
  BY <1>1, <1>2

\* MQTTClient_stop, called by the application's thread, keeps the types.
LEMMA StopType ==
  ASSUME ThreadsTypeOK, StopFromApp
  PROVE  app' \in AppStates
         /\ tostop' \in BOOLEAN
  BY ZenonT(60) DEF ThreadsTypeOK, AppStates, StopFromApp

\* One attempt of MQTTClient_connectURIVersion keeps the types, whether its socket
\* opens or not.
LEMMA AttemptType ==
  ASSUME ThreadsTypeOK, NEW v \in {3, 4}, NEW F \in [Descriptors -> Sockets], NEW e \in BOOLEAN,
         Attempt(v, F, e)
  PROVE  /\ app' \in AppStates
         /\ cl' \in ClientStates
         /\ running' \in BOOLEAN /\ tostop' \in BOOLEAN
         /\ run' \in RunStates
         /\ fds' \in [Descriptors -> Sockets]
         /\ conns' \in Nat
<1> USE DEF ThreadsTypeOK
<1>1. running' = TRUE /\ run' = IF running THEN run ELSE [run EXCEPT !.pc = "top"]
  BY DEF Attempt
<1>2. CASE /\ fds' = F /\ cl' = [ClosedCl EXCEPT !.sock = 0] /\ UNCHANGED conns
           /\ tostop' = TRUE /\ app' = [app EXCEPT !.pc = "stop"]
  BY <1>1, <1>2, ClosedType, ThreadsAssumption DEF AppStates, ClientStates, RunStates
<1>3. CASE \E f \in {f \in Descriptors : F[f].peer = "unused"}, w \in {v, 3} :
             /\ fds' = [F EXCEPT ![f] = NewSocket]
             /\ cl' = [state |-> "TCP_IN_PROGRESS", connected |-> FALSE, sock |-> f]
             /\ conns' = conns + 1
             /\ app' = [app EXCEPT !.pc = IF e THEN "woken" ELSE "wait", !.wait = "CONNECT",
                          !.rc = IF e THEN -1 ELSE @, !.version = w]
             /\ UNCHANGED tostop
  <2>0. PICK f \in {f \in Descriptors : F[f].peer = "unused"}, w \in {v, 3} :
             /\ fds' = [F EXCEPT ![f] = NewSocket]
             /\ cl' = [state |-> "TCP_IN_PROGRESS", connected |-> FALSE, sock |-> f]
             /\ conns' = conns + 1
             /\ app' = [app EXCEPT !.pc = IF e THEN "woken" ELSE "wait", !.wait = "CONNECT",
                          !.rc = IF e THEN -1 ELSE @, !.version = w]
             /\ UNCHANGED tostop
    BY <1>3
  <2>1. NewSocket \in Sockets
    <3>1. <<>> \in Seq(Answers) /\ <<>> \in Seq(Packets) /\ conns + 1 \in Nat
      BY EmptySeq
    <3> QED
      BY <3>1 DEF NewSocket, Sockets, Peers
  <2>2. fds' \in [Descriptors -> Sockets]
    BY <2>0, <2>1
  <2>3. app' \in AppStates
    <3>1. w \in {3, 4}
      OBVIOUS
    <3>2. CASE e
      <4>1. app' = [app EXCEPT !.pc = "woken", !.wait = "CONNECT", !.rc = -1, !.version = w]
        BY <2>0, <3>2
      <4>2. -1 \in -1..1
        OBVIOUS
      <4> QED
        BY <4>1, <4>2, <3>1 DEF Waits, AppStates
    <3>3. CASE ~e
      BY <2>0, <3>1, <3>3 DEF Waits, AppStates
    <3> QED
      BY <3>2, <3>3
  <2>4. cl' \in ClientStates
    BY <2>0, ThreadsAssumption DEF Descriptors, ClientStates
  <2> QED
    BY <1>1, <2>0, <2>2, <2>3, <2>4 DEF RunStates
<1> QED
  BY <1>2, <1>3 DEF Attempt

\* So does a connect that fails, also when it tries again with the other version.
LEMMA FailsType ==
  ASSUME ThreadsTypeOK, NEW e \in BOOLEAN, ConnectFails(e)
  PROVE  /\ app' \in AppStates /\ cl' \in ClientStates /\ running' \in BOOLEAN /\ tostop' \in BOOLEAN
         /\ run' \in RunStates /\ fds' \in [Descriptors -> Sockets] /\ conns' \in Nat
<1>1. CASE app.version = 4
  BY <1>1, ClosedType, AttemptType DEF ConnectFails
<1>2. CASE app.version # 4
  BY <1>2, ClosedType, StopType DEF ConnectFails, ThreadsTypeOK
<1> QED
  BY <1>1, <1>2

\* Every step of the two threads, the network and the broker keeps the types.
LEMMA TypeStep == ThreadsTypeOK /\ [ThreadsNext]_threadVars => ThreadsTypeOK'
<1> SUFFICES ASSUME ThreadsTypeOK, [ThreadsNext]_threadVars PROVE ThreadsTypeOK'
  OBVIOUS
<1>0. /\ app \in AppStates /\ cl \in ClientStates /\ running \in BOOLEAN /\ tostop \in BOOLEAN
      /\ run \in RunStates /\ fds \in [Descriptors -> Sockets] /\ conns \in Nat
      /\ mPack \in Packets /\ mRc \in 0..1 /\ sems \in [Waits -> BOOLEAN]
      /\ welcomed \subseteq Nat /\ attempts \in Nat /\ cuts \in Nat
  BY DEF ThreadsTypeOK
<1> USE NoPackType DEF netVars
<1>1. CASE ConnectCall
  <2>1. attempts' \in Nat /\ UNCHANGED <<mPack, mRc, sems, welcomed, cuts>>
    BY <1>0, <1>1 DEF ConnectCall
  <2> QED
    BY <1>0, <1>1, <2>1, AttemptType DEF ConnectCall, ThreadsTypeOK
<1>2. CASE AfterConnect
  <2>1. UNCHANGED <<mPack, mRc, sems, welcomed, attempts, cuts>>
    BY <1>2 DEF AfterConnect
  <2>2. CASE app.rc # 0 /\ ConnectFails(app.rc < 0)
    <3>1. (app.rc < 0) \in BOOLEAN
      OBVIOUS
    <3> QED
      BY <1>0, <2>1, <2>2, <3>1, FailsType DEF ThreadsTypeOK
  <2>3. CASE /\ cl' = [cl EXCEPT !.state = "WAIT_FOR_CONNACK"]
             /\ fds' = IF fds[cl.sock].peer = "gone" THEN fds
                       ELSE [fds EXCEPT ![cl.sock].asked = <<"CONNACK">>]
             /\ app' = [app EXCEPT !.pc = "wait", !.wait = "CONNACK"]
             /\ UNCHANGED <<running, tostop, run, conns>>
    <3>1. <<"CONNACK">> \in Seq(Answers)
      BY DEF Answers
    <3>2. fds' \in [Descriptors -> Sockets]
      BY <1>0, <2>3, <3>1 DEF Sockets
    <3>3. app' \in AppStates /\ cl' \in ClientStates
      BY <1>0, <2>3 DEF AppStates, ClientStates, Waits
    <3> QED
      BY <1>0, <2>1, <2>3, <3>2, <3>3 DEF ThreadsTypeOK
  <2>4. CASE app.version = 4 /\ Attempt(3, [fds EXCEPT ![cl.sock] = Unused], FALSE)
    <3>1. [fds EXCEPT ![cl.sock] = Unused] \in [Descriptors -> Sockets]
      BY <1>0, UnusedType
    <3> QED
      BY <1>0, <2>1, <2>4, <3>1, AttemptType DEF ThreadsTypeOK
  <2>5. CASE /\ cl' = [cl EXCEPT !.state = "NOT_IN_PROGRESS", !.sock = 0]
             /\ fds' = [fds EXCEPT ![cl.sock] = Unused]
             /\ StopFromApp /\ UNCHANGED <<running, run, conns>>
    <3>0. 0 \in 0..MaxSocket
      BY ThreadsAssumption
    <3>1. cl' \in ClientStates
      BY <1>0, <2>5, <3>0 DEF ClientStates
    <3>2. fds' \in [Descriptors -> Sockets]
      BY <1>0, <2>5, UnusedType
    <3> QED
      BY <1>0, <2>1, <2>5, <3>1, <3>2, StopType DEF ThreadsTypeOK
  <2> QED
    BY <1>2, <2>2, <2>3, <2>4, <2>5 DEF AfterConnect
<1>3. CASE AfterConnack
  <2>1. mPack' \in Packets /\ UNCHANGED <<mRc, sems, welcomed, attempts, cuts>>
    BY <1>0, <1>3 DEF AfterConnack
  <2>2. CASE ConnectFails(app.rc < 0)
    <3>1. (app.rc < 0) \in BOOLEAN
      OBVIOUS
    <3> QED
      BY <1>0, <2>1, <2>2, <3>1, FailsType DEF ThreadsTypeOK
  <2>3. CASE /\ cl' = [cl EXCEPT !.connected = TRUE, !.state = "NOT_IN_PROGRESS"]
             /\ app' = [app EXCEPT !.pc = "idle"] /\ UNCHANGED <<running, tostop, run, fds, conns>>
    <3>1. cl' \in ClientStates /\ app' \in AppStates
      BY <1>0, <2>3 DEF ClientStates, AppStates
    <3> QED
      BY <1>0, <2>1, <2>3, <3>1 DEF ThreadsTypeOK
  <2> QED
    BY <1>3, <2>2, <2>3 DEF AfterConnack
<1>4. CASE \E k \in {"SUBACK", "UNSUBACK"} : AskCall(k)
  <2> PICK k \in {"SUBACK", "UNSUBACK"} : AskCall(k)
    BY <1>4
  <2>1. UNCHANGED <<mPack, mRc, sems, running, run, conns, welcomed, attempts, cuts>>
    BY DEF AskCall
  <2>2. CASE /\ app' = [app EXCEPT !.pc = "wait", !.wait = k]
             /\ fds' = IF fds[cl.sock].peer = "open"
                       THEN [fds EXCEPT ![cl.sock].asked = Append(@, k)] ELSE fds
             /\ UNCHANGED <<cl, tostop>>
    <3>1. app' \in AppStates
      BY <1>0, <2>2 DEF AppStates, Waits
    <3>2. \A f \in Descriptors : Append(fds[f].asked, k) \in Seq(Answers)
      BY <1>0, AppendProperties DEF Sockets, Answers
    <3>3. fds' \in [Descriptors -> Sockets]
      BY <1>0, <2>2, <3>2 DEF Sockets
    <3> QED
      BY <1>0, <2>1, <2>2, <3>1, <3>3 DEF ThreadsTypeOK
  <2>3. CASE cl' = ClosedCl /\ fds' = ClosedFds /\ StopFromApp
    BY <1>0, <2>1, <2>3, ClosedType, StopType DEF ThreadsTypeOK
  <2> QED
    BY <2>2, <2>3 DEF AskCall
<1>5. CASE AfterAck
  <2>1. UNCHANGED <<mRc, sems, running, run, conns, welcomed, attempts, cuts>>
    BY <1>5 DEF AfterAck
  <2>2. CASE /\ mPack' = NoPack /\ app' = [app EXCEPT !.pc = "idle"]
             /\ UNCHANGED <<cl, fds, tostop>>
    <3>1. app' \in AppStates
      BY <1>0, <2>2 DEF AppStates
    <3> QED
      BY <1>0, <2>1, <2>2, <3>1 DEF ThreadsTypeOK
  <2>3. CASE cl' = ClosedCl /\ fds' = ClosedFds /\ StopFromApp /\ UNCHANGED mPack
    BY <1>0, <2>1, <2>3, ClosedType, StopType DEF ThreadsTypeOK
  <2> QED
    BY <1>5, <2>2, <2>3 DEF AfterAck
<1>6. CASE DisconnectCall
  BY <1>0, <1>6, ClosedType, StopType DEF DisconnectCall, ThreadsTypeOK
<1>7. CASE Wake
  <2> DEFINE r == IF app.wait = "CONNECT" THEN mRc ELSE 0
  <2>0. r \in -1..1 /\ app' = [app EXCEPT !.pc = "read", !.rc = r]
    BY <1>0, <1>7 DEF Wake
  <2> HIDE DEF r
  <2>1. app' \in AppStates
    BY <1>0, <2>0 DEF AppStates
  <2>2. sems' \in [Waits -> BOOLEAN]
    BY <1>0, <1>7 DEF Wake
  <2> QED
    BY <1>0, <1>7, <2>1, <2>2 DEF Wake, ThreadsTypeOK
<1>8. CASE WaitEnds
  <2>0. -1 \in -1..1
    OBVIOUS
  <2>1. app' \in AppStates
    BY <1>0, <1>8, <2>0 DEF WaitEnds, AppStates
  <2>2. cuts' \in Nat
    BY <1>0, <1>8 DEF WaitEnds
  <2> QED
    BY <1>0, <1>8, <2>1, <2>2 DEF WaitEnds, ThreadsTypeOK
<1>9. CASE ReadPack \/ StopDone
  <2>1. app' \in AppStates
    BY <1>0, <1>9 DEF ReadPack, StopDone, AppStates
  <2> QED
    BY <1>0, <1>9, <2>1 DEF ReadPack, StopDone, ThreadsTypeOK
<1>10. CASE RunRead
  <2>1. \A f \in Descriptors : fds[f].in # <<>> =>
          Head(fds[f].in) \in Packets /\ Tail(fds[f].in) \in Seq(Packets)
    BY <1>0, HeadTailProperties DEF Sockets
  <2>2. fds' \in [Descriptors -> Sockets]
    BY <1>0, <1>10, <2>1 DEF RunRead, RunStates, Descriptors, Sockets
  <2>3. PICK p \in Packets, r \in {-1, 0} :
          run' = [run EXCEPT !.pc = "dispatch", !.pack = p, !.rc = r]
    <3>1. run.sock > 0 => run.sock \in Descriptors
      BY <1>0 DEF RunStates, Descriptors
    <3> QED
      BY <1>0, <1>10, <2>1, <3>1 DEF RunRead
  <2>4. run' \in RunStates
    BY <1>0, <2>3 DEF RunStates
  <2> QED
    BY <1>0, <1>10, <2>2, <2>4 DEF RunRead, ThreadsTypeOK
<1>11. CASE RunStep
  <2>1. UNCHANGED <<app, conns, welcomed, attempts, cuts>>
    BY <1>11 DEF RunStep
  <2>2. mPack' \in Packets /\ mRc' \in 0..1
    BY <1>0, <1>11 DEF RunStep, RunDispatch, RunStates
  <2>3. sems' \in [Waits -> BOOLEAN]
    BY <1>0, <1>11 DEF RunStep, RunDispatch, Post, GoneBeforeConnack
  <2>4. running' \in BOOLEAN /\ tostop' \in BOOLEAN
    BY <1>0, <1>11 DEF RunStep, RunDispatch, LoopOn, RunEnds
  <2>5. run' \in RunStates
    BY <1>0, <1>11 DEF RunStep, RunDispatch, LoopOn, RunEnds, RunStates
  <2>6. cl' \in ClientStates
    BY <1>0, <1>11, ClosedType DEF RunStep, RunDispatch, GoneBeforeConnack, ClientStates
  <2>7. fds' \in [Descriptors -> Sockets]
    BY <1>0, <1>11, ClosedType DEF RunStep, RunDispatch
  <2> QED
    BY <2>1, <2>2, <2>3, <2>4, <2>5, <2>6, <2>7, <1>0 DEF ThreadsTypeOK
<1>12. CASE RunStops
  <2>1. run' \in RunStates
    BY <1>0, <1>12 DEF RunStops, RunEnds, RunStates
  <2> QED
    BY <1>0, <1>12, <2>1 DEF RunStops, RunEnds, ThreadsTypeOK
<1>13. CASE \E f \in Descriptors \cup {0} : RunSelect(f)
  <2> PICK f \in Descriptors \cup {0} : RunSelect(f)
    BY <1>13
  <2>0. f \in 0..MaxSocket
    BY ThreadsAssumption DEF Descriptors
  <2>1. run' \in RunStates
    BY <1>0, <2>0 DEF RunSelect, RunStates
  <2>2. fds' \in [Descriptors -> Sockets]
    BY <1>0 DEF RunSelect, Sockets, Peers
  <2> QED
    BY <1>0, <2>1, <2>2 DEF RunSelect, ThreadsTypeOK
<1>14. CASE \E f \in Descriptors : TcpAnswer(f)
  <2> PICK f \in Descriptors : TcpAnswer(f)
    BY <1>14
  <2>1. fds' \in [Descriptors -> Sockets]
    BY <1>0 DEF TcpAnswer, Sockets, Peers
  <2> QED
    BY <1>0, <2>1 DEF TcpAnswer, Elsewhere, ThreadsTypeOK
<1>15. CASE \E f \in Descriptors : BrokerAnswer(f)
  <2> PICK f \in Descriptors : BrokerAnswer(f)
    BY <1>15
  <2>1. fds[f] \in Sockets /\ fds[f].asked \in Seq(Answers) /\ fds[f].asked # <<>> /\ fds[f].conn \in Nat
    BY <1>0 DEF BrokerAnswer, Sockets
  <2>2. Head(fds[f].asked) \in Answers /\ Tail(fds[f].asked) \in Seq(Answers)
    BY <2>1, HeadTailProperties
  <2>3. PICK ok \in BOOLEAN :
          /\ fds' = [fds EXCEPT ![f].asked = Tail(@),
                       ![f].in = Append(@, [type |-> Head(fds[f].asked), conn |-> fds[f].conn, ok |-> ok])]
          /\ welcomed' = IF ok THEN welcomed \cup {fds[f].conn} ELSE welcomed
    BY DEF BrokerAnswer
  <2>4. [type |-> Head(fds[f].asked), conn |-> fds[f].conn, ok |-> ok] \in Packets
    BY <2>1, <2>2 DEF Packets
  <2>5. Append(fds[f].in, [type |-> Head(fds[f].asked), conn |-> fds[f].conn, ok |-> ok]) \in Seq(Packets)
    BY <2>1, <2>4, AppendProperties DEF Sockets
  <2>6. fds' \in [Descriptors -> Sockets]
    BY <1>0, <2>2, <2>3, <2>5 DEF Sockets
  <2>7. welcomed' \subseteq Nat
    BY <1>0, <2>1, <2>3
  <2> QED
    BY <1>0, <2>6, <2>7 DEF BrokerAnswer, Elsewhere, ThreadsTypeOK
<1>16. CASE \E f \in Descriptors : PeerCloses(f)
  <2> PICK f \in Descriptors : PeerCloses(f)
    BY <1>16
  <2>0. <<>> \in Seq(Answers)
    BY EmptySeq
  <2>1. fds' \in [Descriptors -> Sockets]
    BY <1>0, <2>0 DEF PeerCloses, Sockets, Peers
  <2> QED
    BY <1>0, <2>1 DEF PeerCloses, Elsewhere, ThreadsTypeOK
<1>17. CASE UNCHANGED threadVars
  BY <1>0, <1>17 DEF threadVars, ThreadsTypeOK
<1> QED
  BY <1>1, <1>2, <1>3, <1>4, <1>5, <1>6, <1>7, <1>8, <1>9, <1>10, <1>11, <1>12, <1>13, <1>14,
     <1>15, <1>16, <1>17
  DEF ThreadsNext, AppCalls, AppGoesOn, RunGoesOn, NetworkAnswers
-------------------------------------------------------------------------------
\* What the parts of the actions do, field by field.

\* An attempt has begun a connection, on socket cl.sock, or ends.
Begun(v, F, e) ==
  /\ cl'.sock \in Descriptors /\ cl'.state = "TCP_IN_PROGRESS" /\ ~cl'.connected
  /\ F[cl'.sock].peer = "unused"
  /\ fds'[cl'.sock] = NewSocket /\ \A f \in Descriptors \ {cl'.sock} : fds'[f] = F[f]
  /\ app'.wait = "CONNECT" /\ app'.version \in {v, 3}
  /\ IF e THEN app'.pc = "woken" /\ app'.rc = -1 ELSE app'.pc = "wait"
  /\ tostop' = tostop
Stopping(F) ==
  /\ cl'.sock = 0 /\ cl'.state = ClosedCl.state /\ cl'.connected = ClosedCl.connected
  /\ fds' = F /\ app'.pc = "stop" /\ tostop'

\* An attempt starts the run thread, and waits for its socket or goes on to stop.
LEMMA AttemptDoes ==
  ASSUME ThreadsTypeOK, NEW v \in {3, 4}, NEW F \in [Descriptors -> Sockets], NEW e \in BOOLEAN,
         Attempt(v, F, e)
  PROVE  /\ running' = TRUE /\ run' = IF running THEN run ELSE [run EXCEPT !.pc = "top"]
         /\ Begun(v, F, e) \/ Stopping(F)
<1>0. app \in AppStates /\ cl \in ClientStates /\ ClosedCl \in ClientStates
  BY ClosedType DEF ThreadsTypeOK
<1>1. running' = TRUE /\ run' = IF running THEN run ELSE [run EXCEPT !.pc = "top"]
  BY DEF Attempt
<1>2. CASE /\ fds' = F /\ cl' = [ClosedCl EXCEPT !.sock = 0] /\ UNCHANGED conns
           /\ tostop' = TRUE /\ app' = [app EXCEPT !.pc = "stop"]
  BY <1>0, <1>1, <1>2 DEF AppStates, ClientStates, Stopping
<1>3. CASE \E f \in {f \in Descriptors : F[f].peer = "unused"}, w \in {v, 3} :
             /\ fds' = [F EXCEPT ![f] = NewSocket]
             /\ cl' = [state |-> "TCP_IN_PROGRESS", connected |-> FALSE, sock |-> f]
             /\ conns' = conns + 1
             /\ app' = [app EXCEPT !.pc = IF e THEN "woken" ELSE "wait", !.wait = "CONNECT",
                          !.rc = IF e THEN -1 ELSE @, !.version = w]
             /\ UNCHANGED tostop
  <2>0. PICK f \in {f \in Descriptors : F[f].peer = "unused"}, w \in {v, 3} :
             /\ fds' = [F EXCEPT ![f] = NewSocket]
             /\ cl' = [state |-> "TCP_IN_PROGRESS", connected |-> FALSE, sock |-> f]
             /\ app' = [app EXCEPT !.pc = IF e THEN "woken" ELSE "wait", !.wait = "CONNECT",
                          !.rc = IF e THEN -1 ELSE @, !.version = w]
             /\ UNCHANGED tostop
    BY <1>3
  <2>1. cl'.sock = f /\ cl'.state = "TCP_IN_PROGRESS" /\ ~cl'.connected
    BY <2>0
  <2>2. fds'[cl'.sock] = NewSocket /\ \A g \in Descriptors \ {cl'.sock} : fds'[g] = F[g]
    BY <2>0, <2>1
  <2>3. /\ app'.wait = "CONNECT" /\ app'.version \in {v, 3}
        /\ IF e THEN app'.pc = "woken" /\ app'.rc = -1 ELSE app'.pc = "wait"
    BY <1>0, <2>0 DEF AppStates
  <2> QED
    BY <1>1, <2>0, <2>1, <2>2, <2>3 DEF Begun
<1> QED
  BY <1>2, <1>3 DEF Attempt

\* MQTTClient_stop, called while a call of the application goes on.
LEMMA StopDoes ==
  ASSUME ThreadsTypeOK, ThreadInv, app.pc # "stop", StopFromApp
  PROVE  \/ running /\ tostop' = TRUE /\ app'.pc = "stop"
         \/ ~running /\ ~tostop /\ tostop' = tostop /\ app'.pc = "idle"
  BY DEF ThreadsTypeOK, AppStates, ThreadInv, StopFromApp

\* MQTTClient_closeSession leaves the client without connection and its socket unused.
LEMMA ClosedDoes ==
  ASSUME ThreadsTypeOK, SocketInv
  PROVE  /\ ClosedCl.connected = FALSE /\ ClosedCl.state = "NOT_IN_PROGRESS"
         /\ IF Closing THEN ClosedCl.sock = 0 ELSE ClosedCl.sock = cl.sock
         /\ IF Closing /\ cl.sock > 0
            THEN /\ ClosedFds[cl.sock] = Unused
                 /\ \A f \in Descriptors \ {cl.sock} : ClosedFds[f] = fds[f]
            ELSE ClosedFds = fds
<1>1. cl \in ClientStates /\ fds \in [Descriptors -> Sockets] /\ (cl.sock > 0 => cl.sock \in Descriptors)
  BY DEF ThreadsTypeOK, ClientStates, Descriptors
<1> QED
  BY <1>1 DEF ClosedCl, ClosedFds, Closing, ClientStates

\* A failed attempt with version 4 is followed by one with version 3.
LEMMA FailsDoes ==
  ASSUME ThreadsTypeOK, ThreadInv, SocketInv, app.pc = "woken", NEW e \in BOOLEAN, ConnectFails(e)
  PROVE  \/ /\ app.version = 4 /\ running' = TRUE
            /\ run' = IF running THEN run ELSE [run EXCEPT !.pc = "top"]
            /\ Begun(3, ClosedFds, e) \/ Stopping(ClosedFds)
         \/ /\ app.version = 3 /\ running' = running /\ run' = run
            /\ cl' = ClosedCl /\ fds' = ClosedFds
            /\ \/ running /\ tostop' = TRUE /\ app'.pc = "stop"
               \/ ~running /\ ~tostop /\ tostop' = tostop /\ app'.pc = "idle"
<1>1. CASE app.version = 4
  BY <1>1, ClosedType, AttemptDoes DEF ConnectFails
<1>2. CASE app.version # 4
  BY <1>2, StopDoes DEF ConnectFails, ThreadsTypeOK, AppStates
<1> QED
  BY <1>1, <1>2

\* The three ways on from the end of TCP connect.
LEMMA AfterConnectDoes ==
  ASSUME ThreadsTypeOK, ThreadInv, SocketInv, AfterConnect
  PROVE  /\ app.pc = "woken" /\ app.wait = "CONNECT" /\ cl.sock \in Descriptors /\ ~cl.connected
         /\ \/ app.rc # 0 /\ ConnectFails(app.rc < 0)
            \/ /\ app.rc = 0 /\ fds[cl.sock].peer # "refused"
               /\ cl' = [cl EXCEPT !.state = "WAIT_FOR_CONNACK"]
               /\ fds' = IF fds[cl.sock].peer = "gone" THEN fds
                         ELSE [fds EXCEPT ![cl.sock].asked = <<"CONNACK">>]
               /\ app' = [app EXCEPT !.pc = "wait", !.wait = "CONNACK"]
               /\ UNCHANGED <<running, tostop, run, conns>>
            \/ /\ app.rc = 0 /\ Dead(cl.sock) /\ app.version = 4 /\ running' = TRUE
               /\ run' = IF running THEN run ELSE [run EXCEPT !.pc = "top"]
               /\ \/ Begun(3, [fds EXCEPT ![cl.sock] = Unused], FALSE)
                  \/ Stopping([fds EXCEPT ![cl.sock] = Unused])
            \/ /\ app.rc = 0 /\ Dead(cl.sock) /\ app.version = 3
               /\ cl'.sock = 0 /\ cl'.state = "NOT_IN_PROGRESS" /\ ~cl'.connected
               /\ fds' = [fds EXCEPT ![cl.sock] = Unused] /\ running' = running /\ run' = run
               /\ \/ running /\ tostop' = TRUE /\ app'.pc = "stop"
                  \/ ~running /\ ~tostop /\ tostop' = tostop /\ app'.pc = "idle"
<1>1. app.pc = "woken" /\ app.wait = "CONNECT"
  BY DEF AfterConnect
<1>2. cl.sock \in Descriptors /\ ~cl.connected
  BY <1>1 DEF SocketInv, Connecting, AtConnect, Waiting, ThreadsTypeOK, ClientStates, Descriptors
<1>3. [fds EXCEPT ![cl.sock] = Unused] \in [Descriptors -> Sockets] /\ cl \in ClientStates
  BY UnusedType DEF ThreadsTypeOK
<1>4. CASE app.version = 4 /\ Attempt(3, [fds EXCEPT ![cl.sock] = Unused], FALSE)
           /\ app.rc = 0 /\ fds[cl.sock].peer \in {"refused", "gone"}
  BY <1>1, <1>2, <1>3, <1>4, AttemptDoes DEF Dead
<1>5. CASE /\ app.version # 4 /\ cl' = [cl EXCEPT !.state = "NOT_IN_PROGRESS", !.sock = 0]
           /\ fds' = [fds EXCEPT ![cl.sock] = Unused]
           /\ StopFromApp /\ UNCHANGED <<running, run, conns>>
           /\ app.rc = 0 /\ fds[cl.sock].peer \in {"refused", "gone"}
  <2>1. app.version = 3
    BY <1>5 DEF ThreadsTypeOK, AppStates
  <2>2. cl'.sock = 0 /\ cl'.state = "NOT_IN_PROGRESS" /\ ~cl'.connected
    BY <1>2, <1>3, <1>5 DEF ClientStates
  <2> QED
    BY <1>1, <1>2, <1>5, <2>1, <2>2, StopDoes DEF Dead
<1> QED
  BY <1>1, <1>2, <1>4, <1>5 DEF AfterConnect

\* The flags and the run thread agree after every step of either thread.
LEMMA ThreadInvStep ==
  ASSUME ThreadsTypeOK, ThreadsTypeOK', ThreadInv, SocketInv, [ThreadsNext]_threadVars
  PROVE  ThreadInv'
<1>0. app \in AppStates /\ app' \in AppStates /\ run \in RunStates /\ run' \in RunStates
      /\ cl \in ClientStates /\ cl' \in ClientStates
      /\ running \in BOOLEAN /\ tostop \in BOOLEAN /\ running' \in BOOLEAN /\ tostop' \in BOOLEAN
      /\ cl.connected \in BOOLEAN /\ cl'.connected \in BOOLEAN
  BY DEF ThreadsTypeOK, ClientStates
<1>c. ClosedCl.connected = FALSE
  BY ClosedDoes
<1>f. ASSUME NEW e \in BOOLEAN, ConnectFails(e), app.pc = "woken", Connecting
      PROVE  ThreadInv'
  BY <1>0, <1>c, <1>f, FailsDoes
  DEF ThreadInv, Waiting, Connecting, AtConnect, AtConnack, RunStates, Begun, Stopping
<1>1. CASE ConnectCall
  <2>1. app.pc = "idle" /\ ~cl.connected /\ Attempt(4, fds, FALSE)
    BY <1>1 DEF ConnectCall
  <2>2. fds \in [Descriptors -> Sockets]
    BY DEF ThreadsTypeOK
  <2>3. /\ running' = TRUE /\ run' = IF running THEN run ELSE [run EXCEPT !.pc = "top"]
        /\ Begun(4, fds, FALSE) \/ Stopping(fds)
    BY <2>1, <2>2, AttemptDoes
  <2> QED
    BY <1>0, <1>c, <2>1, <2>3
    DEF ThreadInv, Waiting, Connecting, AtConnect, AtConnack, RunStates, Begun, Stopping
<1>2. CASE AfterConnect
  <2>1. (app.rc < 0) \in BOOLEAN
    OBVIOUS
  <2>2. Connecting /\ app.pc = "woken"
    BY <1>2 DEF AfterConnect, Connecting, AtConnect, Waiting
  <2> QED
    BY <1>0, <1>2, <1>c, <1>f, <2>1, <2>2, AfterConnectDoes
    DEF ThreadInv, Waiting, Connecting, AtConnect, AtConnack, RunStates, AppStates, ClientStates, Begun, Stopping
<1>3. CASE AfterConnack
  <2>1. (app.rc < 0) \in BOOLEAN
    OBVIOUS
  <2>2. Connecting /\ app.pc = "woken"
    BY <1>3 DEF AfterConnack, Connecting, AtConnack, Waiting
  <2> QED
    BY <1>0, <1>3, <1>f, <2>1, <2>2
    DEF AfterConnack, ThreadInv, Waiting, Connecting, AtConnect, AtConnack, AppStates, ClientStates
<1>4. ASSUME cl' = ClosedCl, StopFromApp, UNCHANGED <<running, run>>, app.pc # "stop"
      PROVE  ThreadInv'
  BY <1>0, <1>c, <1>4, StopDoes DEF ThreadInv, Waiting, Connecting, AtConnect, AtConnack
<1>5. CASE \E k \in {"SUBACK", "UNSUBACK"} : AskCall(k)
  <2> PICK k \in {"SUBACK", "UNSUBACK"} : AskCall(k)
    BY <1>5
  <2> QED
    BY <1>0, <1>4 DEF AskCall, ThreadInv, Waiting, Connecting, AtConnect, AtConnack, AppStates
<1>6. CASE AfterAck
  BY <1>0, <1>4, <1>6 DEF AfterAck, ThreadInv, Waiting, Connecting, AtConnect, AtConnack, AppStates
<1>7. CASE DisconnectCall
  BY <1>4, <1>7 DEF DisconnectCall
<1>8. CASE Wake \/ WaitEnds \/ ReadPack \/ StopDone
  BY <1>0, <1>8
  DEF Wake, WaitEnds, ReadPack, StopDone, ThreadInv, Waiting, Connecting, AtConnect, AtConnack, AppStates
<1>9. CASE RunRead \/ \E f \in Descriptors \cup {0} : RunSelect(f)
  <2>1. run'.pc # "none" /\ run.pc # "none" /\ UNCHANGED <<app, cl, running, tostop>>
    BY <1>0, <1>9 DEF RunRead, RunSelect, RunStates
  <2> QED
    BY <2>1 DEF ThreadInv, Waiting, Connecting, AtConnect, AtConnack
<1>10. CASE RunStep
  <2>1. CASE cl' = ClosedCl /\ RunEnds /\ UNCHANGED app /\ cl.connected
    BY <1>0, <1>c, <2>1
    DEF RunEnds, ThreadInv, SocketInv, Waiting, Connecting, AtConnect, AtConnack, RunStates
  <2>2. CASE cl'.connected = cl.connected /\ LoopOn /\ UNCHANGED app /\ run.pc = "dispatch"
    BY <1>0, <2>2 DEF LoopOn, ThreadInv, Waiting, Connecting, AtConnect, AtConnack, RunStates
  <2> QED
    BY <1>0, <1>10, <2>1, <2>2 DEF RunStep, RunDispatch, OwnSock, GoneBeforeConnack, ClientStates
<1>11. CASE RunStops
  BY <1>0, <1>11 DEF RunStops, RunEnds, ThreadInv, Waiting, Connecting, AtConnect, AtConnack, RunStates
<1>12. CASE NetworkAnswers \/ (\E f \in Descriptors : PeerCloses(f)) \/ UNCHANGED threadVars
  <2>1. UNCHANGED <<app, cl, run, running, tostop>>
    BY <1>12 DEF NetworkAnswers, TcpAnswer, BrokerAnswer, PeerCloses, Elsewhere, threadVars
  <2> QED
    BY <2>1 DEF ThreadInv, Waiting, Connecting, AtConnect, AtConnack
<1> QED
  BY <1>1, <1>2, <1>3, <1>5, <1>6, <1>7, <1>8, <1>9, <1>10, <1>11, <1>12
  DEF ThreadsNext, AppCalls, AppGoesOn, RunGoesOn

\* The broker answers on socket f.
LEMMA BrokerSends ==
  ASSUME ThreadsTypeOK, NEW f \in Descriptors, BrokerAnswer(f)
  PROVE  \E ok \in BOOLEAN :
           LET p == [type |-> Head(fds[f].asked), conn |-> fds[f].conn, ok |-> ok]
           IN /\ fds[f].peer = "open" /\ fds[f].asked # <<>>
              /\ fds'[f] = [fds[f] EXCEPT !.asked = Tail(@), !.in = Append(@, p)]
              /\ \A g \in Descriptors \ {f} : fds'[g] = fds[g]
              /\ welcomed' = IF ok THEN welcomed \cup {fds[f].conn} ELSE welcomed
  BY DEF BrokerAnswer, ThreadsTypeOK, Sockets

\* A client that connects or is connected has an open socket, after every step.
LEMMA SocketInvStep ==
  ASSUME ThreadsTypeOK, ThreadsTypeOK', ThreadInv, SocketInv, [ThreadsNext]_threadVars
  PROVE  SocketInv'
<1>0. app \in AppStates /\ app' \in AppStates /\ run \in RunStates /\ run' \in RunStates
      /\ cl \in ClientStates /\ cl' \in ClientStates
      /\ fds \in [Descriptors -> Sockets] /\ fds' \in [Descriptors -> Sockets]
  BY DEF ThreadsTypeOK
<1>d. \A f \in 0..MaxSocket : f > 0 => f \in Descriptors
  BY DEF Descriptors
<1>s. cl.sock > 0 => cl.sock \in Descriptors
  BY <1>0, <1>d DEF ClientStates
<1>c. ClosedCl.connected = FALSE /\ ClosedCl.state = "NOT_IN_PROGRESS"
  BY ClosedDoes
<1>e. NewSocket.peer # "unused"
  BY DEF NewSocket
<1> DEFINE DispatchInv == (run.pc = "dispatch" /\ run.rc # 0) => run.pack = NoPack
<1>1. ASSUME run' = run \/ run'.pc # "dispatch"
      PROVE  DispatchInv'
  BY <1>1 DEF SocketInv
<1>r. ASSUME run' = IF running THEN run ELSE [run EXCEPT !.pc = "top"]
      PROVE  run' = run \/ run'.pc # "dispatch"
  BY <1>r, <1>0 DEF RunStates
<1> DEFINE PlaceInv ==
      /\ Connecting => ~cl.connected /\ cl.sock > 0
      /\ cl.connected => cl.sock > 0
      /\ cl.sock > 0 => fds[cl.sock].peer # "unused"
      /\ cl.state = "TCP_IN_PROGRESS" => AtConnect
      /\ cl.state = "WAIT_FOR_CONNACK" => AtConnack
<1>q. SocketInv' <=> PlaceInv' /\ DispatchInv'
  BY DEF SocketInv
<1>a. ASSUME NEW v \in {3, 4}, NEW F, NEW e \in BOOLEAN, Begun(v, F, e)
      PROVE  PlaceInv'
  <2>1. cl'.sock > 0 /\ fds'[cl'.sock].peer # "unused"
    BY <1>a, <1>e DEF Begun, Descriptors
  <2>2. app'.pc \in {"wait", "woken"} /\ app'.wait = "CONNECT" /\ ~cl'.connected
        /\ cl'.state = "TCP_IN_PROGRESS"
    BY <1>a DEF Begun
  <2> QED
    BY <2>1, <2>2 DEF Waiting, Connecting, AtConnect, AtConnack
<1>b. ASSUME ~cl'.connected, cl'.state = "NOT_IN_PROGRESS", app'.pc \in {"idle", "stop"},
             cl'.sock > 0 => fds'[cl'.sock].peer # "unused"
      PROVE  PlaceInv'
  BY <1>b DEF Waiting, Connecting, AtConnect, AtConnack
<1>g. ASSUME NEW F, Stopping(F)
      PROVE  PlaceInv'
  BY <1>g, <1>b, <1>c DEF Stopping
<1>h. ASSUME cl' = ClosedCl, fds' = ClosedFds
      PROVE  ~cl'.connected /\ cl'.state = "NOT_IN_PROGRESS"
             /\ (cl'.sock > 0 => fds'[cl'.sock].peer # "unused")
  <2>1. CASE Closing
    BY <1>h, <1>c, <2>1, ClosedDoes
  <2>2. CASE ~Closing
    BY <1>h, <1>c, <2>2, ClosedDoes DEF SocketInv
  <2> QED
    BY <2>1, <2>2
<1>f. ASSUME NEW e \in BOOLEAN, ConnectFails(e), app.pc = "woken"
      PROVE  PlaceInv' /\ DispatchInv'
  <2>1. CASE /\ app.version = 4 /\ running' = TRUE
             /\ run' = IF running THEN run ELSE [run EXCEPT !.pc = "top"]
             /\ Begun(3, ClosedFds, e) \/ Stopping(ClosedFds)
    BY <2>1, <1>1, <1>r, <1>a, <1>g
  <2>2. CASE /\ run' = run /\ cl' = ClosedCl /\ fds' = ClosedFds /\ app'.pc \in {"idle", "stop"}
    BY <2>2, <1>1, <1>b, <1>h
  <2> QED
    BY <1>f, <2>1, <2>2, FailsDoes
<1>2. CASE ConnectCall
  <2>1. /\ run' = IF running THEN run ELSE [run EXCEPT !.pc = "top"]
        /\ Begun(4, fds, FALSE) \/ Stopping(fds)
    BY <1>0, <1>2, AttemptDoes DEF ConnectCall
  <2> QED
    BY <2>1, <1>1, <1>r, <1>a, <1>g, <1>q
<1>3. CASE AfterConnect
  <2>1. (app.rc < 0) \in BOOLEAN
    OBVIOUS
  <2>2. CASE ConnectFails(app.rc < 0) /\ app.pc = "woken"
    BY <2>1, <2>2, <1>f, <1>q
  <2>3. CASE /\ cl' = [cl EXCEPT !.state = "WAIT_FOR_CONNACK"]
             /\ fds' = IF fds[cl.sock].peer = "gone" THEN fds
                       ELSE [fds EXCEPT ![cl.sock].asked = <<"CONNACK">>]
             /\ app' = [app EXCEPT !.pc = "wait", !.wait = "CONNACK"]
             /\ UNCHANGED <<running, tostop, run, conns>>
             /\ cl.sock \in Descriptors /\ ~cl.connected
    <3>1. fds'[cl.sock].peer = fds[cl.sock].peer
      BY <2>3, <1>0 DEF Sockets
    <3>2. app'.pc = "wait" /\ app'.wait = "CONNACK" /\ cl'.sock = cl.sock /\ ~cl'.connected
          /\ cl'.state = "WAIT_FOR_CONNACK" /\ cl.sock > 0
      BY <2>3, <1>0 DEF AppStates, ClientStates, Descriptors
    <3>3. PlaceInv'
      BY <3>1, <3>2 DEF SocketInv, Waiting, Connecting, AtConnect, AtConnack
    <3> QED
      BY <2>3, <3>3, <1>1, <1>q
  <2>4. CASE /\ run' = IF running THEN run ELSE [run EXCEPT !.pc = "top"]
             /\ \/ Begun(3, [fds EXCEPT ![cl.sock] = Unused], FALSE)
                \/ Stopping([fds EXCEPT ![cl.sock] = Unused])
    BY <2>4, <1>1, <1>r, <1>a, <1>g, <1>q
  <2>5. CASE /\ cl'.sock = 0 /\ cl'.state = "NOT_IN_PROGRESS" /\ ~cl'.connected /\ run' = run
             /\ app'.pc \in {"idle", "stop"}
    BY <2>5, <1>1, <1>b, <1>q
  <2> QED
    BY <1>3, <2>2, <2>3, <2>4, <2>5, AfterConnectDoes
<1>4. CASE AfterConnack
  <2>1. (app.rc < 0) \in BOOLEAN
    OBVIOUS
  <2>2. CASE ConnectFails(app.rc < 0) /\ app.pc = "woken"
    BY <2>1, <2>2, <1>f, <1>q
  <2>3. CASE /\ cl' = [cl EXCEPT !.connected = TRUE, !.state = "NOT_IN_PROGRESS"]
             /\ app' = [app EXCEPT !.pc = "idle"] /\ UNCHANGED <<running, tostop, run, fds, conns>>
    <3>1. cl'.sock = cl.sock /\ cl'.state = "NOT_IN_PROGRESS" /\ app'.pc = "idle"
      BY <1>0, <2>3 DEF ClientStates, AppStates
    <3>2. cl.sock > 0
      BY <1>4 DEF AfterConnack, SocketInv, Connecting, AtConnack, Waiting
    <3>3. PlaceInv'
      BY <2>3, <3>1, <3>2 DEF SocketInv, Waiting, Connecting, AtConnect, AtConnack
    <3> QED
      BY <2>3, <3>3, <1>1, <1>q
  <2> QED
    BY <1>4, <2>2, <2>3 DEF AfterConnack
<1>5. CASE \E k \in {"SUBACK", "UNSUBACK"} : AskCall(k)
  <2> PICK k \in {"SUBACK", "UNSUBACK"} : AskCall(k)
    BY <1>5
  <2>1. CASE /\ app' = [app EXCEPT !.pc = "wait", !.wait = k]
             /\ fds' = IF fds[cl.sock].peer = "open"
                       THEN [fds EXCEPT ![cl.sock].asked = Append(@, k)] ELSE fds
             /\ UNCHANGED <<cl, tostop, run>>
    <3>1. cl.sock > 0 => fds'[cl.sock].peer = fds[cl.sock].peer
      BY <2>1, <1>0, <1>s DEF Sockets
    <3>2. app'.pc = "wait" /\ app'.wait = k /\ app.pc = "idle"
      BY <2>1, <1>0 DEF AppStates, AskCall
    <3>3. PlaceInv'
      BY <2>1, <3>1, <3>2 DEF SocketInv, Waiting, Connecting, AtConnect, AtConnack
    <3> QED
      BY <2>1, <3>3, <1>1, <1>q
  <2>2. CASE cl' = ClosedCl /\ fds' = ClosedFds /\ StopFromApp /\ UNCHANGED run
    <3>1. app'.pc \in {"idle", "stop"}
      BY <2>2, StopDoes DEF AskCall
    <3> QED
      BY <2>2, <3>1, <1>1, <1>b, <1>h, <1>q
  <2> QED
    BY <2>1, <2>2 DEF AskCall
<1>6. CASE AfterAck
  <2>1. CASE app' = [app EXCEPT !.pc = "idle"] /\ UNCHANGED <<cl, fds, tostop, run>>
    <3>1. app'.pc = "idle" /\ ~Connecting
      BY <2>1, <1>0, <1>6 DEF AppStates, AfterAck, Connecting, AtConnect, AtConnack
    <3>2. PlaceInv'
      BY <2>1, <3>1 DEF SocketInv, Waiting, Connecting, AtConnect, AtConnack
    <3> QED
      BY <2>1, <3>2, <1>1, <1>q
  <2>2. CASE cl' = ClosedCl /\ fds' = ClosedFds /\ StopFromApp /\ UNCHANGED run
    <3>1. app'.pc \in {"idle", "stop"}
      BY <2>2, <1>6, StopDoes DEF AfterAck
    <3> QED
      BY <2>2, <3>1, <1>1, <1>b, <1>h, <1>q
  <2> QED
    BY <1>6, <2>1, <2>2 DEF AfterAck
<1>7. CASE DisconnectCall
  <2>1. app'.pc \in {"idle", "stop"} /\ cl' = ClosedCl /\ fds' = ClosedFds /\ run' = run
    BY <1>7, StopDoes DEF DisconnectCall
  <2> QED
    BY <2>1, <1>1, <1>b, <1>h, <1>q
<1>8. CASE Wake \/ WaitEnds \/ ReadPack \/ StopDone
  <2>1. (Waiting <=> Waiting') /\ app'.wait = app.wait /\ UNCHANGED <<cl, fds, run>>
    BY <1>0, <1>8 DEF Wake, WaitEnds, ReadPack, StopDone, Waiting, AppStates
  <2>2. PlaceInv'
    BY <2>1 DEF SocketInv, Connecting, AtConnect, AtConnack
  <2> QED
    BY <2>1, <2>2, <1>1, <1>q
<1>n. ASSUME UNCHANGED <<app, cl>>, \A f \in Descriptors : fds[f].peer # "unused" => fds'[f].peer # "unused"
      PROVE  PlaceInv'
  BY <1>n, <1>s DEF SocketInv, Waiting, Connecting, AtConnect, AtConnack
<1>9. CASE RunRead
  <2>1. \A f \in Descriptors : fds'[f].peer = fds[f].peer
    BY <1>0, <1>9 DEF RunRead, Sockets
  <2>2. DispatchInv'
    BY <1>0, <1>9 DEF RunRead, RunStates
  <2> QED
    BY <1>9, <1>n, <2>1, <2>2, <1>q DEF RunRead
<1>10. CASE \E f \in Descriptors \cup {0} : RunSelect(f)
  <2> PICK f \in Descriptors \cup {0} : RunSelect(f)
    BY <1>10
  <2>1. \A g \in Descriptors : fds[g].peer # "unused" => fds'[g].peer # "unused"
    BY <1>0 DEF RunSelect, Sockets
  <2>2. run'.pc = "ready" /\ UNCHANGED <<app, cl>>
    BY <1>0 DEF RunSelect, RunStates
  <2> QED
    BY <1>n, <2>1, <2>2, <1>q
<1>11. CASE RunStep
  <2>0. run'.pc # "dispatch" /\ app' = app
    BY <1>0, <1>11 DEF RunStep, RunDispatch, LoopOn, RunEnds, RunStates
  <2>1. CASE cl' = ClosedCl /\ fds' = ClosedFds /\ cl.connected
    <3>1. ~Connecting
      BY <2>1 DEF SocketInv
    <3> QED
      BY <2>0, <2>1, <3>1, <1>1, <1>h, <1>q DEF Waiting, Connecting, AtConnect, AtConnack
  <2>2. CASE cl' = [cl EXCEPT !.state = "NOT_IN_PROGRESS"] /\ fds' = fds
    <3>1. cl'.sock = cl.sock /\ cl'.connected = cl.connected /\ cl'.state = "NOT_IN_PROGRESS"
      BY <2>2, <1>0 DEF ClientStates
    <3>2. PlaceInv'
      BY <2>0, <2>2, <3>1 DEF SocketInv, Waiting, Connecting, AtConnect, AtConnack
    <3> QED
      BY <2>0, <3>2, <1>1, <1>q
  <2>3. CASE cl' = cl /\ fds' = fds
    BY <2>0, <2>3, <1>n, <1>1, <1>q
  <2> QED
    BY <1>11, <2>1, <2>2, <2>3 DEF RunStep, RunDispatch, GoneBeforeConnack
<1>12. CASE RunStops
  <2>1. run'.pc # "dispatch" /\ UNCHANGED <<app, cl, fds>>
    BY <1>0, <1>12 DEF RunStops, RunEnds, RunStates
  <2> QED
    BY <2>1, <1>1, <1>n, <1>q
<1>13. CASE NetworkAnswers \/ \E f \in Descriptors : PeerCloses(f)
  <2>1. UNCHANGED <<app, cl, run>>
    BY <1>13 DEF NetworkAnswers, TcpAnswer, BrokerAnswer, PeerCloses, Elsewhere
  <2>2. \A g \in Descriptors : fds[g].peer # "unused" => fds'[g].peer # "unused"
    <3>1. CASE \E f \in Descriptors : TcpAnswer(f)
      BY <1>0, <3>1 DEF TcpAnswer, Sockets
    <3>2. CASE \E f \in Descriptors : BrokerAnswer(f)
      <4> PICK f \in Descriptors : BrokerAnswer(f)
        BY <3>2
      <4>1. fds'[f].peer = "open" /\ \A g \in Descriptors \ {f} : fds'[g] = fds[g]
        BY <1>0, BrokerSends DEF Sockets
      <4> QED
        BY <4>1
    <3>3. CASE \E f \in Descriptors : PeerCloses(f)
      BY <1>0, <3>3 DEF PeerCloses, Sockets
    <3> QED
      BY <1>13, <3>1, <3>2, <3>3 DEF NetworkAnswers
  <2> QED
    BY <2>1, <2>2, <1>1, <1>n, <1>q
<1>14. CASE UNCHANGED threadVars
  BY <1>14, <1>1, <1>n, <1>q DEF threadVars
<1> QED
  BY <1>2, <1>3, <1>4, <1>5, <1>6, <1>7, <1>8, <1>9, <1>10, <1>11, <1>12, <1>13, <1>14
  DEF ThreadsNext, AppCalls, AppGoesOn, RunGoesOn

\* The network leaves a socket alone that is dead or not in use.
LEMMA DeadStays ==
  ASSUME ThreadsTypeOK, NEW f \in Descriptors, fds[f].peer \in {"unused", "refused", "gone"},
         NetworkAnswers \/ (\E g \in Descriptors : PeerCloses(g)) \/ (\E g \in Descriptors \cup {0} : RunSelect(g))
  PROVE  fds'[f] = fds[f]
<1>0. fds \in [Descriptors -> Sockets]
  BY DEF ThreadsTypeOK
<1>1. CASE \E g \in Descriptors : TcpAnswer(g)
  BY <1>0, <1>1 DEF TcpAnswer
<1>2. CASE \E g \in Descriptors : BrokerAnswer(g)
  <2> PICK g \in Descriptors : BrokerAnswer(g)
    BY <1>2
  <2>1. fds[g].peer = "open" /\ \A h \in Descriptors \ {g} : fds'[h] = fds[h]
    BY BrokerSends
  <2> QED
    BY <2>1
<1>3. CASE \E g \in Descriptors : PeerCloses(g)
  BY <1>0, <1>3 DEF PeerCloses
<1>4. CASE \E g \in Descriptors \cup {0} : RunSelect(g)
  BY <1>0, <1>4 DEF RunSelect
<1> QED
  BY <1>1, <1>2, <1>3, <1>4 DEF NetworkAnswers

\* The history variables only grow.
LEMMA CountsGrow ==
  ASSUME ThreadsTypeOK, ThreadsTypeOK', [ThreadsNext]_threadVars
  PROVE  (cuts' = 0 => cuts = 0) /\ (attempts' <= 1 => attempts <= 1)
<1>0. cuts \in Nat /\ attempts \in Nat /\ cuts' \in Nat /\ attempts' \in Nat
  BY DEF ThreadsTypeOK
<1>1. CASE ConnectCall
  BY <1>0, <1>1 DEF ConnectCall
<1>2. CASE WaitEnds
  BY <1>0, <1>2 DEF WaitEnds
<1>3. CASE ~ConnectCall /\ ~WaitEnds
  <2>1. UNCHANGED <<cuts, attempts>>
    BY <1>3
    DEF ThreadsNext, AppCalls, AppGoesOn, RunGoesOn, NetworkAnswers, threadVars, DisconnectCall,
        AskCall, Wake, ReadPack, AfterConnect, AfterConnack, AfterAck, StopDone, RunRead, RunStep,
        RunStops, RunSelect, TcpAnswer, BrokerAnswer, PeerCloses, Elsewhere
  <2> QED
    BY <1>0, <2>1
<1> QED
  BY <1>1, <1>2, <1>3

\* connect_state keeps saying of the socket what is so, until a wait times out.
LEMMA StateInvStep ==
  ASSUME ConnectionInv, ThreadsTypeOK', SocketInv', [ThreadsNext]_threadVars,
         cuts' = 0 \/ attempts' <= 1
  PROVE  StateInv'
<1>0. app \in AppStates /\ app' \in AppStates /\ run \in RunStates /\ run' \in RunStates
      /\ cl \in ClientStates /\ cl' \in ClientStates
      /\ fds \in [Descriptors -> Sockets] /\ fds' \in [Descriptors -> Sockets]
      /\ ThreadsTypeOK /\ ThreadInv /\ SocketInv /\ cuts \in Nat /\ attempts \in Nat
      /\ sems \in [Waits -> BOOLEAN]
  BY DEF ConnectionInv, ThreadsTypeOK
<1>2. StateInv
  BY <1>0, CountsGrow DEF ConnectionInv
<1>s. Connecting => cl.sock \in Descriptors
  BY <1>0 DEF SocketInv, ClientStates, Descriptors
<1>s1. Connecting' => cl'.sock \in Descriptors /\ fds'[cl'.sock].peer # "unused"
  BY <1>0 DEF SocketInv, ClientStates, Descriptors
<1>w. (\A k \in Waits : k \in Waits) /\ "CONNECT" \in Waits
  BY DEF Waits
<1>a. ASSUME NEW v, NEW F, NEW e \in BOOLEAN, Begun(v, F, e), UNCHANGED sems,
             ~e => ~sems["CONNECT"]
      PROVE  StateInv'
  BY <1>a DEF Begun, StateInv, Doomed, Connecting, AtConnect, AtConnack, Waiting
<1>i. ASSUME app'.pc \in {"idle", "stop"}
      PROVE  StateInv'
  BY <1>i DEF StateInv, Connecting, AtConnect, AtConnack, Waiting
<1>g. ASSUME NEW F, Stopping(F) PROVE StateInv'
  BY <1>g, <1>i DEF Stopping
<1>f. ASSUME ConnectFails(app.rc < 0), app.pc = "woken", Connecting, UNCHANGED sems
      PROVE  StateInv'
  <2>1. (app.rc < 0) \in BOOLEAN
    OBVIOUS
  <2>2. ~(app.rc < 0) => ~sems["CONNECT"]
    BY <1>f, <1>0, <1>2 DEF StateInv, Doomed, AppStates
  <2>3. CASE Begun(3, ClosedFds, app.rc < 0)
    BY <1>f, <2>1, <2>2, <2>3, <1>a
  <2>4. CASE Stopping(ClosedFds)
    BY <2>4, <1>g
  <2>5. CASE app'.pc \in {"idle", "stop"}
    BY <2>5, <1>i
  <2> QED
    BY <1>f, <1>0, <2>1, <2>3, <2>4, <2>5, FailsDoes
<1>3. CASE ConnectCall
  <2>1. Begun(4, fds, FALSE) \/ Stopping(fds)
    BY <1>0, <1>3, AttemptDoes DEF ConnectCall
  <2>2. ~sems["CONNECT"]
    <3>1. CASE cuts' = 0
      BY <1>0, <1>3, <3>1 DEF ConnectCall, ConnectionInv, UncutInv, Connecting, AtConnect, AtConnack, Waiting
    <3>2. CASE attempts' <= 1
      <4>1. attempts = 0
        BY <1>0, <1>3, <3>2 DEF ConnectCall
      <4> QED
        BY <4>1 DEF ConnectionInv, FirstInv
    <3> QED
      BY <3>1, <3>2
  <2>3. UNCHANGED sems
    BY <1>3 DEF ConnectCall
  <2> QED
    BY <2>1, <2>2, <2>3, <1>a, <1>g
<1>4. CASE AfterConnect
  <2>0. app.pc = "woken" /\ app.wait = "CONNECT" /\ Connecting /\ AtConnect /\ UNCHANGED sems
    BY <1>4 DEF AfterConnect, Connecting, AtConnect, Waiting
  <2>1. CASE ConnectFails(app.rc < 0)
    BY <2>0, <2>1, <1>f
  <2>2. CASE /\ app.rc = 0 /\ fds[cl.sock].peer # "refused"
             /\ cl' = [cl EXCEPT !.state = "WAIT_FOR_CONNACK"]
             /\ fds' = IF fds[cl.sock].peer = "gone" THEN fds
                       ELSE [fds EXCEPT ![cl.sock].asked = <<"CONNACK">>]
             /\ app' = [app EXCEPT !.pc = "wait", !.wait = "CONNACK"]
             /\ UNCHANGED <<running, tostop, run, conns>>
    <3>1. ~Doomed /\ cl.state = "NOT_IN_PROGRESS" /\ ~sems["CONNECT"]
      BY <2>0, <2>2, <1>2 DEF StateInv, Doomed
    <3>2. cl'.sock = cl.sock /\ app'.wait = "CONNACK" /\ app'.pc = "wait"
      BY <1>0, <2>2 DEF ClientStates, AppStates
    <3>3. (run.pc = "dispatch" /\ run.rc # 0 /\ run.sock = cl.sock) =>
            Dead(cl.sock) /\ fds[cl.sock].in = <<>>
      BY <2>0, <3>1, <1>2 DEF StateInv
    <3>4. Dead(cl.sock) => fds' = fds
      BY <2>2 DEF Dead
    <3> QED
      BY <2>0, <2>2, <3>1, <3>2, <3>3, <3>4 DEF StateInv, Doomed, Dead, AtConnect
  <2>3. CASE app.rc = 0 /\ Begun(3, [fds EXCEPT ![cl.sock] = Unused], FALSE)
    <3>1. ~sems["CONNECT"]
      BY <2>0, <2>3, <1>2 DEF StateInv, Doomed
    <3>2. 3 # 4 /\ 3 \in {3, 4}
      OBVIOUS
    <3> QED
      BY <2>0, <2>3, <3>1, <3>2, <1>a, Zenon
  <2>4. CASE Stopping([fds EXCEPT ![cl.sock] = Unused])
    BY <2>4, <1>g
  <2>5. CASE app'.pc \in {"idle", "stop"}
    BY <2>5, <1>i
  <2> QED
    BY <1>0, <1>4, <2>1, <2>2, <2>3, <2>4, <2>5, AfterConnectDoes
<1>5. CASE AfterConnack
  <2>1. app.pc = "woken" /\ Connecting /\ UNCHANGED sems
    BY <1>5 DEF AfterConnack, Connecting, AtConnack, Waiting
  <2>2. app' = [app EXCEPT !.pc = "idle"] => app'.pc = "idle"
    BY <1>0 DEF AppStates
  <2> QED
    BY <1>5, <2>1, <2>2, <1>f, <1>i DEF AfterConnack
<1>6. CASE AfterAck \/ DisconnectCall \/ StopDone
  <2>1. app'.pc \in {"idle", "stop"}
    BY <1>0, <1>6, StopDoes DEF AfterAck, DisconnectCall, StopDone, AppStates
  <2> QED
    BY <2>1, <1>i
<1>7. CASE \E k \in {"SUBACK", "UNSUBACK"} : AskCall(k)
  <2> PICK k \in {"SUBACK", "UNSUBACK"} : AskCall(k)
    BY <1>7
  <2>1. CASE app' = [app EXCEPT !.pc = "wait", !.wait = k]
    <3>1. app'.wait \notin {"CONNECT", "CONNACK"}
      BY <1>0, <2>1 DEF AppStates
    <3> QED
      BY <3>1 DEF StateInv, Connecting, AtConnect, AtConnack
  <2>2. CASE StopFromApp
    <3>1. app'.pc \in {"idle", "stop"}
      BY <1>0, <2>2, StopDoes DEF AskCall
    <3> QED
      BY <3>1, <1>i
  <2> QED
    BY <2>1, <2>2 DEF AskCall
<1>8. CASE Wake
  <2>1. app.pc = "wait" /\ app'.pc = "read" /\ app'.wait = app.wait /\ UNCHANGED <<cl, run, fds>>
    BY <1>0, <1>8 DEF Wake, AppStates
  <2>2. sems[app.wait] /\ sems'["CONNECT"] = IF app.wait = "CONNECT" THEN FALSE ELSE sems["CONNECT"]
    BY <1>0, <1>8, <1>w DEF Wake
  <2> QED
    BY <2>1, <2>2, <1>2 DEF StateInv, Doomed, Connecting, AtConnect, AtConnack, Waiting, Dead
<1>9. CASE WaitEnds
  <2>1. app.pc = "wait" /\ app'.pc = "read" /\ app'.wait = app.wait /\ app'.rc = -1 /\ UNCHANGED <<cl, run, fds, sems>>
    BY <1>0, <1>9 DEF WaitEnds, AppStates
  <2> QED
    BY <2>1, <1>2 DEF StateInv, Doomed, Connecting, AtConnect, AtConnack, Waiting, Dead
<1>10. CASE ReadPack
  <2>1. app.pc = "read" /\ app'.pc = "woken" /\ app'.wait = app.wait /\ app'.rc = app.rc /\ UNCHANGED <<cl, run, fds, sems>>
    BY <1>0, <1>10 DEF ReadPack, AppStates
  <2> QED
    BY <2>1, <1>2 DEF StateInv, Doomed, Connecting, AtConnect, AtConnack, Waiting, Dead
<1>11. CASE RunRead
  <2>1. UNCHANGED <<app, cl, sems>>
    BY <1>11 DEF RunRead
  <2>2. ASSUME Connecting, run'.rc # 0, run'.sock = cl.sock, cl.state # "TCP_IN_PROGRESS"
        PROVE  Dead(cl.sock)' /\ fds'[cl.sock].in = <<>>
    <3>1. run'.sock = run.sock /\ cl.sock > 0
      BY <1>0, <1>11, <1>s, <2>2 DEF RunRead, RunStates, Descriptors
    <3>2. fds[cl.sock].in = <<>> /\ fds[cl.sock].peer \notin {"syn", "up", "open"}
      BY <1>0, <1>11, <2>2, <3>1 DEF RunRead, RunStates
    <3>3. fds' = fds
      BY <1>11, <2>2, <3>1, <3>2 DEF RunRead
    <3> QED
      BY <1>0, <1>s, <2>1, <2>2, <3>1, <3>2, <3>3 DEF Dead, SocketInv, Sockets, Peers
  <2> QED
    BY <2>1, <2>2, <1>2 DEF StateInv, Doomed, Connecting, AtConnect, AtConnack, Waiting
<1>12. CASE RunStops
  <2>1. run'.pc = "none" /\ UNCHANGED <<app, cl, sems>>
    BY <1>0, <1>12 DEF RunStops, RunEnds, RunStates
  <2> QED
    BY <2>1, <1>2 DEF StateInv, Doomed, Connecting, AtConnect, AtConnack, Waiting
<1>13. CASE RunStep
  <2>0. run'.pc # "dispatch" /\ app' = app
    BY <1>0, <1>13 DEF RunStep, RunDispatch, LoopOn, RunEnds, RunStates
  <2>1. CASE cl.connected
    <3>1. ~Connecting
      BY <1>0, <2>1 DEF SocketInv
    <3> QED
      BY <2>0, <3>1 DEF StateInv, Connecting, AtConnect, AtConnack, Waiting
  <2>2. CASE GoneBeforeConnack
    <3>1. AtConnack /\ ~AtConnect
      BY <1>0, <2>2 DEF GoneBeforeConnack, SocketInv, AtConnack, AtConnect
    <3>2. sems'["CONNECT"] = sems["CONNECT"]
      BY <1>0, <2>2, <1>w DEF GoneBeforeConnack, Post
    <3> QED
      BY <2>0, <3>1, <3>2, <1>2 DEF StateInv, Doomed, Connecting, AtConnect, AtConnack, Waiting
  <2>3. CASE /\ run.pack # NoPack /\ Post(run.pack.type) /\ UNCHANGED <<cl, fds, mRc>>
             /\ run.rc = 0
    <3>1. run.pack.type # "CONNECT"
      BY <1>0, <2>3 DEF RunStates, Packets, Answers
    <3>2. sems'["CONNECT"] = sems["CONNECT"]
      BY <1>0, <2>3, <3>1, <1>w DEF Post
    <3> QED
      BY <2>0, <2>3, <3>2, <1>2 DEF StateInv, Doomed, Connecting, AtConnect, AtConnack, Waiting
  <2>4. CASE /\ cl.state = "TCP_IN_PROGRESS" /\ cl' = [cl EXCEPT !.state = "NOT_IN_PROGRESS"]
             /\ Post("CONNECT")
    <3>1. AtConnect
      BY <1>0, <2>4 DEF SocketInv
    <3>2. ~Doomed => app.pc = "wait"
      BY <2>4, <3>1, <1>2 DEF StateInv, Connecting
    <3>3. cl'.state = "NOT_IN_PROGRESS"
      BY <1>0, <2>4 DEF ClientStates
    <3> QED
      BY <2>0, <3>1, <3>2, <3>3 DEF StateInv, Doomed, Connecting, AtConnect, AtConnack, Waiting
  <2>5. CASE UNCHANGED <<cl, sems>>
    BY <2>0, <2>5, <1>2 DEF StateInv, Doomed, Connecting, AtConnect, AtConnack, Waiting
  <2> QED
    BY <1>13, <2>1, <2>2, <2>3, <2>4, <2>5 DEF RunStep, RunDispatch
<1>14. CASE NetworkAnswers \/ (\E f \in Descriptors : PeerCloses(f)) \/ (\E f \in Descriptors \cup {0} : RunSelect(f))
  <2>1. UNCHANGED <<app, cl, sems>> /\ (run' = run \/ run'.pc = "ready")
    BY <1>0, <1>14
    DEF NetworkAnswers, TcpAnswer, BrokerAnswer, PeerCloses, Elsewhere, RunSelect, RunStates
  <2>2. (Connecting /\ Dead(cl.sock)) => fds'[cl.sock] = fds[cl.sock]
    BY <1>0, <1>14, <1>s, DeadStays DEF Dead
  <2> QED
    BY <2>1, <2>2, <1>2 DEF StateInv, Doomed, Connecting, AtConnect, AtConnack, Waiting, Dead
<1>15. CASE UNCHANGED threadVars
  BY <1>15, <1>2 DEF threadVars, StateInv, Doomed, Connecting, AtConnect, AtConnack, Waiting, Dead
<1> QED
  BY <1>3, <1>4, <1>5, <1>6, <1>7, <1>8, <1>9, <1>10, <1>11, <1>12, <1>13, <1>14, <1>15
  DEF ThreadsNext, AppCalls, AppGoesOn, RunGoesOn

\* Where no wait has timed out, every step leaves only dead or closed sockets behind.
LEMMA UncutInvStep ==
  ASSUME ConnectionInv, ThreadsTypeOK', SocketInv', [ThreadsNext]_threadVars, cuts' = 0
  PROVE  UncutInv'
<1>0. app \in AppStates /\ app' \in AppStates /\ run \in RunStates /\ run' \in RunStates
      /\ cl \in ClientStates /\ cl' \in ClientStates
      /\ fds \in [Descriptors -> Sockets] /\ fds' \in [Descriptors -> Sockets]
      /\ ThreadsTypeOK /\ ThreadInv /\ SocketInv
      /\ sems \in [Waits -> BOOLEAN]
  BY DEF ConnectionInv, ThreadsTypeOK
<1>1. cuts = 0 /\ StateInv /\ UncutInv
  BY <1>0, CountsGrow DEF ConnectionInv
<1>2. Connecting => ~Doomed
  BY <1>0, <1>1 DEF UncutInv, Doomed
<1>s. cl.sock > 0 => cl.sock \in Descriptors
  BY <1>0 DEF ClientStates, Descriptors
<1>w. "CONNECT" \in Waits
  BY DEF Waits
<1> DEFINE Idle(F, f) == F[f].peer \in {"unused", "refused", "gone"}
<1>a. ASSUME NEW v, NEW F, Begun(v, F, FALSE), \A f \in Descriptors : Idle(F, f)
      PROVE  UncutInv'
  <2>1. \A f \in Descriptors \ {cl'.sock} : fds'[f] = F[f]
    BY <1>a DEF Begun
  <2>2. app'.pc = "wait" /\ app'.wait = "CONNECT" /\ cl'.state = "TCP_IN_PROGRESS"
    BY <1>a DEF Begun
  <2> QED
    BY <1>a, <2>1, <2>2 DEF UncutInv, Connecting, AtConnect, AtConnack, Waiting
<1>b. ASSUME app'.pc \in {"idle", "stop"}, ~sems'["CONNECT"],
             \A f \in Descriptors : Idle(fds', f)
      PROVE  UncutInv'
  <2>1. cl'.sock > 0 => cl'.sock \in Descriptors /\ fds'[cl'.sock].peer # "unused"
    BY <1>0 DEF ClientStates, Descriptors, SocketInv
  <2>2. cl'.sock > 0 => Dead(cl.sock)'
    BY <1>b, <2>1 DEF Dead
  <2> QED
    BY <1>b, <2>2 DEF UncutInv, Connecting, AtConnect, AtConnack, Waiting
<1>g. ASSUME NEW F, Stopping(F), ~sems'["CONNECT"], \A f \in Descriptors : Idle(F, f)
      PROVE  UncutInv'
  BY <1>g, <1>b DEF Stopping
<1>o. Unused.peer = "unused"
  BY DEF Unused
<1>c. ASSUME Closing \/ cl.sock = 0 \/ Dead(cl.sock)
      PROVE  \A f \in Descriptors : Idle(ClosedFds, f)
  <2>1. \A f \in Descriptors \ {cl.sock} : Idle(fds, f)
    BY <1>1 DEF UncutInv
  <2>2. CASE Closing /\ cl.sock > 0
    BY <1>0, <1>o, <2>1, <2>2, ClosedDoes
  <2>3. CASE ~(Closing /\ cl.sock > 0)
    <3>1. ClosedFds = fds
      BY <1>0, <2>3, ClosedDoes
    <3>2. cl.sock \in Descriptors => cl.sock > 0
      BY DEF Descriptors
    <3>3. cl.sock \in Descriptors => Dead(cl.sock)
      BY <1>c, <2>3, <3>2, <1>0 DEF ClientStates
    <3> QED
      BY <2>1, <3>1, <3>3 DEF Dead
  <2> QED
    BY <2>2, <2>3
<1>f. ASSUME ConnectFails(app.rc < 0), app.pc = "woken", Connecting, UNCHANGED sems,
             Closing \/ Dead(cl.sock)
      PROVE  UncutInv'
  <2>1. (app.rc < 0) = FALSE
    BY <1>f, <1>0, <1>1 DEF UncutInv, AppStates
  <2>2. ~sems'["CONNECT"]
    BY <1>f, <1>1, <1>2 DEF StateInv
  <2>3. \A f \in Descriptors : Idle(ClosedFds, f)
    BY <1>f, <1>c
  <2>4. \/ Begun(3, ClosedFds, FALSE) \/ Stopping(ClosedFds)
        \/ fds' = ClosedFds /\ app'.pc \in {"idle", "stop"}
    BY <1>f, <1>0, <2>1, FailsDoes
  <2>5. CASE fds' = ClosedFds /\ app'.pc \in {"idle", "stop"}
    BY <2>2, <2>3, <2>5, <1>b
  <2> QED
    BY <2>2, <2>3, <2>4, <2>5, <1>a, <1>g
<1>h. ASSUME cl' = ClosedCl, fds' = ClosedFds, StopFromApp, app.pc # "stop", UNCHANGED sems,
             ~Connecting
      PROVE  UncutInv'
  <2>1. ~sems'["CONNECT"] /\ app'.pc \in {"idle", "stop"}
    BY <1>h, <1>0, <1>1, StopDoes DEF UncutInv
  <2>2. Closing \/ cl.sock = 0 \/ Dead(cl.sock)
    BY <1>h, <1>0, <1>1 DEF UncutInv, Closing, ClientStates
  <2> QED
    BY <1>h, <1>b, <1>c, <2>1, <2>2
<1>3. CASE ConnectCall
  <2>0. app.pc = "idle" /\ ~cl.connected /\ ~Connecting /\ UNCHANGED sems
    BY <1>3 DEF ConnectCall, Connecting, AtConnect, AtConnack, Waiting
  <2>1. Begun(4, fds, FALSE) \/ Stopping(fds)
    BY <1>0, <1>3, AttemptDoes DEF ConnectCall
  <2>2. \A f \in Descriptors : Idle(fds, f)
    BY <2>0, <1>1 DEF UncutInv, Dead, Descriptors
  <2>3. ~sems'["CONNECT"]
    BY <2>0, <1>1 DEF UncutInv
  <2> QED
    BY <2>1, <2>2, <2>3, <1>a, <1>g
<1>4. CASE AfterConnect
  <2>0. app.pc = "woken" /\ app.wait = "CONNECT" /\ Connecting /\ AtConnect /\ UNCHANGED sems
    BY <1>4 DEF AfterConnect, Connecting, AtConnect, Waiting
  <2>s. ~sems'["CONNECT"]
    BY <2>0, <1>1, <1>2 DEF StateInv
  <2>u. \A f \in Descriptors : Idle([fds EXCEPT ![cl.sock] = Unused], f)
    BY <1>0, <1>1, <1>o DEF UncutInv
  <2>1. CASE app.rc # 0 /\ ConnectFails(app.rc < 0)
    <3>1. Dead(cl.sock)
      BY <2>0, <2>1, <1>1 DEF UncutInv
    <3> QED
      BY <2>0, <2>1, <3>1, <1>f
  <2>2. CASE /\ app.rc = 0 /\ fds[cl.sock].peer # "refused"
             /\ cl' = [cl EXCEPT !.state = "WAIT_FOR_CONNACK"]
             /\ fds' = IF fds[cl.sock].peer = "gone" THEN fds
                       ELSE [fds EXCEPT ![cl.sock].asked = <<"CONNACK">>]
             /\ app' = [app EXCEPT !.pc = "wait", !.wait = "CONNACK"]
             /\ UNCHANGED <<running, tostop, run, conns>>
    <3>1. cl'.sock = cl.sock /\ app'.wait = "CONNACK" /\ app'.pc = "wait" /\ cl'.state = "WAIT_FOR_CONNACK"
      BY <1>0, <2>2 DEF ClientStates, AppStates
    <3>2. \A f \in Descriptors \ {cl.sock} : fds'[f] = fds[f]
      BY <1>0, <2>2
    <3> QED
      BY <2>s, <3>1, <3>2, <1>1 DEF UncutInv, Connecting, AtConnect, AtConnack, Waiting
  <2>3. CASE Begun(3, [fds EXCEPT ![cl.sock] = Unused], FALSE)
    BY <2>u, <2>3, <1>a
  <2>4. CASE Stopping([fds EXCEPT ![cl.sock] = Unused])
    BY <2>s, <2>u, <2>4, <1>g
  <2>5. CASE app'.pc \in {"idle", "stop"} /\ fds' = [fds EXCEPT ![cl.sock] = Unused]
    BY <2>s, <2>u, <2>5, <1>b
  <2> QED
    BY <1>0, <1>4, <2>1, <2>2, <2>3, <2>4, <2>5, AfterConnectDoes
<1>5. CASE AfterConnack
  <2>0. app.pc = "woken" /\ Connecting /\ AtConnack /\ UNCHANGED sems
    BY <1>5 DEF AfterConnack, Connecting, AtConnack, Waiting
  <2>1. Closing \/ Dead(cl.sock)
    BY <2>0, <1>1 DEF UncutInv, Closing
  <2>2. CASE ConnectFails(app.rc < 0)
    BY <2>0, <2>1, <2>2, <1>f
  <2>3. CASE /\ cl' = [cl EXCEPT !.connected = TRUE, !.state = "NOT_IN_PROGRESS"]
             /\ app' = [app EXCEPT !.pc = "idle"] /\ UNCHANGED <<running, tostop, run, fds, conns>>
    <3>1. cl'.sock = cl.sock /\ cl'.connected /\ app'.pc = "idle"
      BY <1>0, <2>3 DEF ClientStates, AppStates
    <3>2. ~sems'["CONNECT"]
      BY <2>0, <1>1, <1>2 DEF StateInv
    <3> QED
      BY <2>3, <3>1, <3>2, <1>1 DEF UncutInv, Connecting, AtConnect, AtConnack, Waiting
  <2> QED
    BY <1>5, <2>2, <2>3 DEF AfterConnack
<1>6. CASE AfterAck
  <2>0. ~Connecting /\ UNCHANGED sems /\ app.pc = "woken"
    BY <1>6 DEF AfterAck, Connecting, AtConnect, AtConnack
  <2>1. CASE app' = [app EXCEPT !.pc = "idle"] /\ UNCHANGED <<cl, fds, tostop>>
    <3>1. app'.pc = "idle"
      BY <1>0, <2>1 DEF AppStates
    <3> QED
      BY <2>0, <2>1, <3>1, <1>1 DEF UncutInv, Connecting, AtConnect, AtConnack, Waiting, Dead
  <2> QED
    BY <1>6, <2>0, <2>1, <1>h DEF AfterAck
<1>7. CASE DisconnectCall
  BY <1>7, <1>h DEF DisconnectCall, Connecting, AtConnect, AtConnack, Waiting
<1>8. CASE StopDone
  <2>1. app'.pc = "idle" /\ app.pc = "stop" /\ UNCHANGED <<cl, fds, sems>>
    BY <1>0, <1>8 DEF StopDone, AppStates
  <2> QED
    BY <2>1, <1>1 DEF UncutInv, Connecting, AtConnect, AtConnack, Waiting, Dead
<1>9. CASE \E k \in {"SUBACK", "UNSUBACK"} : AskCall(k)
  <2> PICK k \in {"SUBACK", "UNSUBACK"} : AskCall(k)
    BY <1>9
  <2>0. ~Connecting /\ UNCHANGED sems /\ cl.connected /\ app.pc = "idle"
    BY DEF AskCall, Connecting, AtConnect, AtConnack, Waiting
  <2>1. CASE /\ app' = [app EXCEPT !.pc = "wait", !.wait = k] /\ UNCHANGED cl
             /\ fds' = IF fds[cl.sock].peer = "open"
                       THEN [fds EXCEPT ![cl.sock].asked = Append(@, k)] ELSE fds
    <3>1. app'.wait \notin {"CONNECT", "CONNACK"}
      BY <1>0, <2>1 DEF AppStates
    <3>2. \A f \in Descriptors \ {cl.sock} : fds'[f] = fds[f]
      BY <1>0, <2>1
    <3> QED
      BY <2>0, <2>1, <3>1, <3>2, <1>1 DEF UncutInv, Connecting, AtConnect, AtConnack, Waiting
  <2> QED
    BY <2>0, <2>1, <1>h DEF AskCall
<1>10. CASE Wake
  <2>1. app.pc = "wait" /\ app'.pc = "read" /\ app'.wait = app.wait /\ UNCHANGED <<cl, run, fds, mRc>>
        /\ app'.rc = IF app.wait = "CONNECT" THEN mRc ELSE 0
    BY <1>0, <1>10 DEF Wake, AppStates
  <2>2. sems[app.wait] /\ sems'["CONNECT"] = IF app.wait = "CONNECT" THEN FALSE ELSE sems["CONNECT"]
    BY <1>0, <1>10, <1>w DEF Wake
  <2>3. app'.rc >= 0
    BY <1>0, <2>1 DEF ThreadsTypeOK
  <2>4. AtConnect => cl.state = "NOT_IN_PROGRESS"
    BY <2>2, <1>1, <1>2 DEF StateInv, Connecting, AtConnect
  <2> QED
    BY <2>1, <2>2, <2>3, <2>4, <1>1 DEF UncutInv, Connecting, AtConnect, AtConnack, Waiting, Dead
<1>11. CASE WaitEnds
  <2>1. app.pc = "wait" /\ app'.pc = "read" /\ app'.wait = app.wait /\ UNCHANGED <<cl, run, fds, sems, mRc>>
    BY <1>0, <1>11 DEF WaitEnds, AppStates
  <2>2. ~Connecting
    BY <1>1, <1>11 DEF WaitEnds, Unanswerable, Connecting, AtConnect, AtConnack
  <2> QED
    BY <2>1, <2>2, <1>1 DEF UncutInv, Connecting, AtConnect, AtConnack, Waiting, Dead
<1>12. CASE ReadPack
  <2>1. app.pc = "read" /\ app'.pc = "woken" /\ app'.wait = app.wait /\ app'.rc = app.rc
        /\ UNCHANGED <<cl, run, fds, sems, mRc>>
    BY <1>0, <1>12 DEF ReadPack, AppStates
  <2> QED
    BY <2>1, <1>1 DEF UncutInv, Connecting, AtConnect, AtConnack, Waiting, Dead
<1>13. CASE RunRead
  <2>1. UNCHANGED <<app, cl, sems, mRc>>
    BY <1>13 DEF RunRead
  <2>2. \A f \in Descriptors : fds'[f].peer = fds[f].peer
    BY <1>0, <1>13 DEF RunRead, Sockets
  <2>3. (cl.sock > 0 => (Dead(cl.sock)' <=> Dead(cl.sock))) /\ (Connecting => cl.sock > 0)
    BY <1>0, <1>s, <2>1, <2>2 DEF Dead, SocketInv
  <2> QED
    BY <2>1, <2>2, <2>3, <1>1 DEF UncutInv, Connecting, AtConnect, AtConnack, Waiting
<1>14. CASE RunStep
  <2>0. app' = app
    BY <1>14 DEF RunStep
  <2>1. CASE cl' = ClosedCl /\ fds' = ClosedFds /\ cl.connected /\ UNCHANGED sems
    <3>1. ~Connecting /\ cl'.sock = 0
      BY <1>0, <2>1, ClosedDoes DEF SocketInv, Closing
    <3>2. \A f \in Descriptors : Idle(fds', f)
      BY <1>c, <2>1 DEF Closing
    <3> QED
      BY <2>0, <2>1, <3>1, <3>2, <1>1 DEF UncutInv, Connecting, AtConnect, AtConnack, Waiting
  <2>2. CASE OwnSock /\ run.rc # 0 /\ GoneBeforeConnack /\ UNCHANGED <<fds, mRc>>
    <3>1. AtConnack /\ Connecting /\ ~AtConnect
      BY <1>0, <2>2 DEF GoneBeforeConnack, SocketInv, Connecting, AtConnack, AtConnect
    <3>2. Dead(cl.sock)
      BY <2>2, <3>1, <1>1, <1>2 DEF StateInv, OwnSock, GoneBeforeConnack
    <3>3. sems'["CONNECT"] = sems["CONNECT"] /\ cl'.sock = cl.sock
      BY <1>0, <2>2, <1>w DEF GoneBeforeConnack, Post, ClientStates
    <3> QED
      BY <2>0, <2>2, <3>1, <3>2, <3>3, <1>1 DEF UncutInv, Connecting, AtConnect, AtConnack, Waiting, Dead
  <2>3. CASE /\ run.pack # NoPack /\ Post(run.pack.type) /\ UNCHANGED <<cl, fds, mRc>>
             /\ run.rc = 0
    <3>1. run.pack.type # "CONNECT"
      BY <1>0, <2>3 DEF RunStates, Packets, Answers
    <3>2. sems'["CONNECT"] = sems["CONNECT"]
      BY <1>0, <2>3, <3>1, <1>w DEF Post
    <3> QED
      BY <2>0, <2>3, <3>2, <1>1 DEF UncutInv, Connecting, AtConnect, AtConnack, Waiting, Dead
  <2>4. CASE /\ cl.state = "TCP_IN_PROGRESS" /\ cl' = [cl EXCEPT !.state = "NOT_IN_PROGRESS"]
             /\ mRc' = (IF fds[cl.sock].peer = "refused" THEN 1 ELSE 0) /\ UNCHANGED fds
    <3>1. AtConnect /\ Connecting /\ ~AtConnack
      BY <1>0, <2>4 DEF SocketInv, Connecting, AtConnect, AtConnack
    <3>2. app.pc = "wait"
      BY <2>4, <3>1, <1>1, <1>2 DEF StateInv
    <3>3. cl'.sock = cl.sock
      BY <1>0, <2>4 DEF ClientStates
    <3>4. mRc' # 0 => Dead(cl.sock)
      BY <2>4 DEF Dead
    <3> QED
      BY <2>0, <2>4, <3>1, <3>2, <3>3, <3>4, <1>1 DEF UncutInv, Connecting, AtConnect, AtConnack, Waiting, Dead
  <2>5. CASE UNCHANGED <<cl, sems, fds, mRc>>
    BY <2>0, <2>5, <1>1 DEF UncutInv, Connecting, AtConnect, AtConnack, Waiting, Dead
  <2> QED
    BY <1>14, <2>1, <2>2, <2>3, <2>4, <2>5 DEF RunStep, RunDispatch
<1>15. CASE NetworkAnswers \/ (\E f \in Descriptors : PeerCloses(f)) \/ (\E f \in Descriptors \cup {0} : RunSelect(f))
  <2>1. UNCHANGED <<app, cl, sems, mRc>>
    BY <1>15 DEF NetworkAnswers, TcpAnswer, BrokerAnswer, PeerCloses, Elsewhere, RunSelect
  <2>2. \A f \in Descriptors : Idle(fds, f) => fds'[f] = fds[f]
    BY <1>0, <1>15, DeadStays
  <2>3. (Connecting \/ cl.sock > 0) => cl.sock \in Descriptors
    BY <1>0, <1>s DEF SocketInv
  <2>4. (cl.sock \in Descriptors /\ Dead(cl.sock)) => Dead(cl.sock)'
    BY <2>1, <2>2 DEF Dead
  <2> QED
    BY <2>1, <2>2, <2>3, <2>4, <1>1 DEF UncutInv, Connecting, AtConnect, AtConnack, Waiting
<1>16. CASE RunStops
  <2>1. UNCHANGED <<app, cl, sems, mRc, fds>>
    BY <1>16 DEF RunStops
  <2> QED
    BY <2>1, <1>1 DEF UncutInv, Connecting, AtConnect, AtConnack, Waiting, Dead
<1>17. CASE UNCHANGED threadVars
  BY <1>17, <1>1 DEF threadVars, UncutInv, Connecting, AtConnect, AtConnack, Waiting, Dead
<1> QED
  BY <1>3, <1>4, <1>5, <1>6, <1>7, <1>8, <1>9, <1>10, <1>11, <1>12, <1>13, <1>14, <1>15, <1>16, <1>17
  DEF ThreadsNext, AppCalls, AppGoesOn, RunGoesOn

\* In the first connect, the one CONNACK of the connection stays the only one.
LEMMA FirstInvStep ==
  ASSUME ConnectionInv, ThreadsTypeOK', SocketInv', [ThreadsNext]_threadVars, attempts' <= 1
  PROVE  FirstInv'
<1>0. app \in AppStates /\ app' \in AppStates /\ run \in RunStates /\ run' \in RunStates
      /\ cl \in ClientStates /\ cl' \in ClientStates
      /\ fds \in [Descriptors -> Sockets] /\ fds' \in [Descriptors -> Sockets]
      /\ ThreadsTypeOK /\ ThreadInv /\ SocketInv /\ attempts \in Nat
      /\ sems \in [Waits -> BOOLEAN]
  BY DEF ConnectionInv, ThreadsTypeOK
<1>1. StateInv /\ FirstInv
  BY <1>0, CountsGrow DEF ConnectionInv
<1>z. (app.pc # "idle" \/ cl.connected \/ run.pc # "none") => attempts # 0
  BY <1>0, <1>1 DEF FirstInv, ThreadInv
<1>s. (Connecting \/ cl.connected) => cl.sock \in Descriptors
  BY <1>0 DEF SocketInv, ClientStates, Descriptors
<1>w. "CONNECT" \in Waits /\ "CONNACK" \in Waits
  BY DEF Waits
<1>n. NewSocket.in = <<>> /\ NewSocket.asked = <<>>
  BY DEF NewSocket
<1>a. ASSUME NEW v \in {3, 4}, NEW F, NEW e \in BOOLEAN, Begun(v, F, e), attempts' # 0,
             ~e => mPack' = NoPack /\ Reading' = NoPack,
             (~e /\ v = 4) => ~sems'["CONNACK"]
      PROVE  FirstInv'
  <2>1. fds'[cl'.sock].in = <<>> /\ fds'[cl'.sock].asked = <<>>
    BY <1>a, <1>n DEF Begun
  <2>2. /\ ~cl'.connected /\ app'.wait = "CONNECT" /\ app'.version \in {v, 3}
        /\ IF e THEN app'.pc = "woken" /\ app'.rc = -1 ELSE app'.pc = "wait"
    BY <1>a DEF Begun
  <2>3. ~AtConnack' /\ (e => Doomed')
    BY <2>2 DEF AtConnack, Doomed
  <2> QED
    BY <1>a, <2>1, <2>2, <2>3 DEF FirstInv
<1>i. ASSUME app'.pc \in {"idle", "stop"}, ~cl'.connected, attempts' # 0
      PROVE  FirstInv'
  BY <1>i DEF FirstInv, AtConnect, AtConnack, Waiting
<1>g. ASSUME NEW F, Stopping(F), attempts' # 0 PROVE FirstInv'
  <2>1. ~cl'.connected /\ app'.pc = "stop"
    BY <1>0, <1>g, ClosedDoes DEF Stopping
  <2> QED
    BY <1>g, <1>i, <2>1
<1>r. ASSUME run' = (IF running THEN run ELSE [run EXCEPT !.pc = "top"]), Reading = NoPack
      PROVE  Reading' = NoPack
  <2>1. run' = run \/ run'.pc = "top"
    BY <1>0, <1>r DEF RunStates
  <2> QED
    BY <1>r, <2>1 DEF Reading
<1>f. ASSUME ConnectFails(app.rc < 0), app.pc = "woken", attempts' # 0,
             (app.version = 4 /\ app.rc >= 0) => mPack' = NoPack /\ Reading = NoPack
      PROVE  FirstInv'
  <2>1. (app.rc < 0) \in BOOLEAN /\ (~(app.rc < 0) => app.rc >= 0)
    BY <1>0 DEF AppStates
  <2>2. CASE app.version = 4 /\ run' = (IF running THEN run ELSE [run EXCEPT !.pc = "top"])
             /\ Begun(3, ClosedFds, app.rc < 0)
    <3>1. ~(app.rc < 0) => mPack' = NoPack /\ Reading' = NoPack
      BY <1>f, <1>r, <2>1, <2>2
    <3>2. 3 # 4 /\ 3 \in {3, 4}
      OBVIOUS
    <3> QED
      BY <1>f, <1>a, <2>1, <2>2, <3>1, <3>2, Zenon
  <2>3. CASE Stopping(ClosedFds)
    BY <1>f, <2>3, <1>g
  <2>4. CASE app'.pc \in {"idle", "stop"} /\ cl' = ClosedCl
    BY <1>f, <1>0, <2>4, <1>i, ClosedDoes
  <2> QED
    BY <1>f, <1>0, <2>1, <2>2, <2>3, <2>4, FailsDoes
\* A step that adds nothing to what is under way.
<1>m. ASSUME UNCHANGED <<app, mPack, attempts>>, cl'.sock = cl.sock, cl'.connected = cl.connected,
             Reading' \in {Reading, NoPack}, welcomed \subseteq welcomed',
             cl.sock \in Descriptors =>
               /\ fds'[cl.sock].conn = fds[cl.sock].conn /\ fds'[cl.sock].in = fds[cl.sock].in
               /\ fds'[cl.sock].asked \in {fds[cl.sock].asked, <<>>}
               /\ Dead(cl.sock) => fds'[cl.sock].peer = fds[cl.sock].peer,
             attempts = 0 => ~sems'["CONNECT"],
             sems'["CONNACK"] => sems["CONNACK"]
      PROVE  FirstInv'
  <2>1. /\ (Connecting' <=> Connecting) /\ (AtConnect' <=> AtConnect) /\ (AtConnack' <=> AtConnack)
        /\ (Doomed' <=> Doomed)
    BY <1>m DEF Connecting, AtConnect, AtConnack, Waiting, Doomed
  <2>2. ASSUME NEW p, OwnConnack(p), Connecting PROVE OwnConnack(p)'
    BY <1>m, <1>s, <2>2 DEF OwnConnack
  <2>3. AtConnack => OneConnack'
    <3> SUFFICES ASSUME AtConnack PROVE OneConnack'
      OBVIOUS
    <3>1. OneConnack /\ Connecting /\ cl.sock \in Descriptors
      BY <1>1, <1>s DEF FirstInv, Connecting
    <3>2. OwnConnack(mPack) => OwnConnack(mPack)'
      BY <1>m, <2>2, <3>1 DEF OwnConnack
    <3>3. OwnConnack(Reading) /\ Reading' = Reading => OwnConnack(Reading)'
      BY <1>m, <1>s, <3>1 DEF OwnConnack
    <3>4. OwnConnack(fds[cl.sock].in[1]) => OwnConnack(fds[cl.sock].in[1])'
      BY <1>m, <1>s, <3>1 DEF OwnConnack
    <3> QED
      BY <1>m, <3>1, <3>2, <3>3, <3>4 DEF OneConnack
  <2>4. (AtConnack /\ Quiet) => Quiet'
    BY <1>m, <1>s DEF Quiet, Connecting, Dead
  <2>5. (AtConnack /\ app.pc = "woken" /\ app.pack # NoPack) => OwnConnack(app.pack)'
    BY <1>1, <1>m, <1>s DEF FirstInv, OwnConnack, Connecting
  <2>6. cl'.connected => fds'[cl'.sock].conn \in welcomed'
    BY <1>1, <1>m, <1>s DEF FirstInv
  <2>7. (AtConnect /\ ~Doomed)' =>
          /\ mPack' = NoPack /\ Reading' = NoPack
          /\ fds'[cl'.sock].in = <<>> /\ fds'[cl'.sock].asked = <<>>
          /\ app'.version = 4 => ~sems'["CONNACK"]
    BY <1>1, <1>m, <1>s, <2>1 DEF FirstInv, Connecting
  <2> QED
    BY <1>1, <1>m, <2>1, <2>3, <2>4, <2>5, <2>6, <2>7 DEF FirstInv
<1>2. CASE ConnectCall
  <2>0. attempts = 0 /\ attempts' # 0 /\ UNCHANGED <<mPack, sems>>
    BY <1>0, <1>2 DEF ConnectCall
  <2>1. mPack' = NoPack /\ ~sems'["CONNACK"] /\ run.pc = "none" /\ Reading = NoPack
    BY <1>0, <1>1, <2>0 DEF FirstInv, ThreadInv, Reading
  <2>2. /\ run' = IF running THEN run ELSE [run EXCEPT !.pc = "top"]
        /\ Begun(4, fds, FALSE) \/ Stopping(fds)
    BY <1>0, <1>2, AttemptDoes DEF ConnectCall
  <2>3. Reading' = NoPack
    BY <1>r, <2>1, <2>2
  <2> QED
    BY <2>0, <2>1, <2>2, <2>3, <1>a, <1>g
<1>3. CASE AfterConnect
  <2>0. app.pc = "woken" /\ app.wait = "CONNECT" /\ AtConnect /\ attempts' # 0
        /\ UNCHANGED <<mPack, sems, attempts, welcomed>>
    BY <1>3, <1>z DEF AfterConnect, AtConnect, Waiting
  <2>n. app.rc >= 0 => /\ mPack' = NoPack /\ Reading = NoPack
                       /\ fds[cl.sock].in = <<>> /\ fds[cl.sock].asked = <<>>
                       /\ app.version = 4 => ~sems["CONNACK"]
    BY <1>1, <2>0 DEF FirstInv, Doomed
  <2>1. CASE ConnectFails(app.rc < 0)
    BY <2>0, <2>n, <2>1, <1>f
  <2>2. CASE /\ app.rc = 0 /\ fds[cl.sock].peer # "refused" /\ cl.sock \in Descriptors /\ ~cl.connected
             /\ cl' = [cl EXCEPT !.state = "WAIT_FOR_CONNACK"]
             /\ fds' = IF fds[cl.sock].peer = "gone" THEN fds
                       ELSE [fds EXCEPT ![cl.sock].asked = <<"CONNACK">>]
             /\ app' = [app EXCEPT !.pc = "wait", !.wait = "CONNACK"]
             /\ UNCHANGED <<running, tostop, run, conns>>
    <3>1. cl'.sock = cl.sock /\ app'.wait = "CONNACK" /\ app'.pc = "wait" /\ app'.version = app.version
          /\ ~cl'.connected
      BY <1>0, <2>2 DEF ClientStates, AppStates
    <3>2. fds'[cl.sock].in = <<>> /\ fds'[cl.sock].asked \in {<<>>, <<"CONNACK">>}
      BY <1>0, <2>2, <2>n DEF Sockets
    <3>3. Reading' = NoPack
      BY <2>2, <2>n DEF Reading
    <3>4. OneConnack'
      BY <2>2, <2>n, <3>1, <3>2, <3>3 DEF OneConnack
    <3> QED
      BY <2>0, <2>2, <2>n, <3>1, <3>4 DEF FirstInv, AtConnect, AtConnack, Waiting
  <2>3. CASE /\ app.rc = 0 /\ run' = (IF running THEN run ELSE [run EXCEPT !.pc = "top"])
             /\ Begun(3, [fds EXCEPT ![cl.sock] = Unused], FALSE)
    <3>1. mPack' = NoPack /\ Reading' = NoPack
      BY <2>n, <2>3, <1>r
    <3>2. 3 # 4 /\ 3 \in {3, 4}
      OBVIOUS
    <3> QED
      BY <2>0, <2>3, <3>1, <3>2, <1>a, Zenon
  <2>4. CASE Stopping([fds EXCEPT ![cl.sock] = Unused])
    BY <2>0, <2>4, <1>g
  <2>5. CASE app'.pc \in {"idle", "stop"} /\ ~cl'.connected
    BY <2>0, <2>5, <1>i
  <2> QED
    BY <1>0, <1>3, <2>1, <2>2, <2>3, <2>4, <2>5, AfterConnectDoes
<1>4. CASE AfterConnack
  <2>0. app.pc = "woken" /\ AtConnack /\ Connecting /\ attempts' # 0 /\ UNCHANGED <<sems, attempts, welcomed>>
        /\ mPack' = IF app.pack # NoPack THEN NoPack ELSE mPack
    BY <1>4, <1>z DEF AfterConnack, AtConnack, Connecting, Waiting
  <2>1. CASE ConnectFails(app.rc < 0)
    <3>1. (app.version = 4 /\ app.rc >= 0) => app.rc = 0
      BY <1>0, <1>1, <2>0 DEF FirstInv, AppStates
    <3>2. (app.version = 4 /\ app.rc >= 0) => mPack' = NoPack /\ Reading = NoPack
      BY <1>1, <2>0, <3>1 DEF FirstInv, Quiet
    <3> QED
      BY <2>0, <2>1, <3>2, <1>f
  <2>2. CASE /\ Accepted /\ cl' = [cl EXCEPT !.connected = TRUE, !.state = "NOT_IN_PROGRESS"]
             /\ app' = [app EXCEPT !.pc = "idle"] /\ UNCHANGED <<running, tostop, run, fds, conns>>
    <3>1. cl'.sock = cl.sock /\ app'.pc = "idle"
      BY <1>0, <2>2 DEF ClientStates, AppStates
    <3>2. fds[cl.sock].conn \in welcomed
      BY <1>1, <2>0, <2>2 DEF FirstInv, Accepted, OwnConnack
    <3> QED
      BY <2>0, <2>2, <3>1, <3>2 DEF FirstInv, AtConnect, AtConnack, Waiting
  <2> QED
    BY <1>4, <2>1, <2>2 DEF AfterConnack
<1>h. ASSUME cl' = ClosedCl, StopFromApp, app.pc # "stop", attempts' # 0
      PROVE  FirstInv'
  <2>1. ~cl'.connected /\ app'.pc \in {"idle", "stop"}
    BY <1>h, <1>0, StopDoes, ClosedDoes
  <2> QED
    BY <1>h, <1>i, <2>1
<1>5. CASE AfterAck
  <2>0. attempts' # 0 /\ app.pc = "woken" /\ UNCHANGED <<attempts, welcomed>>
    BY <1>5, <1>z DEF AfterAck, netVars
  <2>1. CASE app' = [app EXCEPT !.pc = "idle"] /\ UNCHANGED <<cl, fds, tostop>>
    <3>1. app'.pc = "idle"
      BY <1>0, <2>1 DEF AppStates
    <3> QED
      BY <2>0, <2>1, <3>1, <1>1 DEF FirstInv, AtConnect, AtConnack, Waiting
  <2> QED
    BY <1>5, <2>0, <2>1, <1>h DEF AfterAck
<1>6. CASE DisconnectCall
  BY <1>6, <1>h, <1>z DEF DisconnectCall
<1>7. CASE StopDone
  <2>1. app'.pc = "idle" /\ app.pc = "stop" /\ UNCHANGED <<cl, attempts>>
    BY <1>0, <1>7 DEF StopDone, AppStates
  <2> QED
    BY <1>0, <2>1, <1>i, <1>z DEF ThreadInv
<1>8. CASE \E k \in {"SUBACK", "UNSUBACK"} : AskCall(k)
  <2> PICK k \in {"SUBACK", "UNSUBACK"} : AskCall(k)
    BY <1>8
  <2>0. attempts' # 0 /\ cl.connected /\ app.pc = "idle" /\ UNCHANGED <<attempts, welcomed>>
    BY <1>z DEF AskCall, netVars
  <2>1. CASE /\ app' = [app EXCEPT !.pc = "wait", !.wait = k] /\ UNCHANGED cl
             /\ fds' = IF fds[cl.sock].peer = "open"
                       THEN [fds EXCEPT ![cl.sock].asked = Append(@, k)] ELSE fds
    <3>1. app'.wait \notin {"CONNECT", "CONNACK"}
      BY <1>0, <2>1 DEF AppStates
    <3>2. fds'[cl.sock].conn = fds[cl.sock].conn
      BY <1>0, <1>s, <2>0, <2>1 DEF Sockets
    <3> QED
      BY <2>0, <2>1, <3>1, <3>2, <1>1 DEF FirstInv, AtConnect, AtConnack
  <2> QED
    BY <2>0, <2>1, <1>h DEF AskCall
<1>9. CASE Wake
  <2>0. attempts' # 0 /\ UNCHANGED <<cl, mPack, run, fds, attempts, welcomed>> /\ Reading' = Reading
    BY <1>9, <1>z DEF Wake, netVars, Reading
  <2>1. app.pc = "wait" /\ app'.pc = "read" /\ app'.wait = app.wait /\ app'.version = app.version
        /\ (app.wait # "CONNECT" => app'.rc = 0)
    BY <1>0, <1>9 DEF Wake, AppStates
  <2>2. sems[app.wait] /\ (sems'["CONNACK"] => sems["CONNACK"])
    BY <1>0, <1>9, <1>w DEF Wake
  <2>3. (OneConnack => OneConnack') /\ (Quiet => Quiet')
    BY <2>0 DEF OneConnack, Quiet, OwnConnack, Dead
  <2>4. (AtConnect' => AtConnect) /\ (AtConnack' => AtConnack) /\ ~Doomed
    BY <2>1 DEF AtConnect, AtConnack, Waiting, Doomed
  <2>5. AtConnack => app.wait = "CONNACK" /\ app.wait # "CONNECT"
    BY DEF AtConnack
  <2> QED
    BY <1>1, <2>0, <2>1, <2>2, <2>3, <2>4, <2>5 DEF FirstInv
<1>10. CASE WaitEnds
  <2>0. attempts' # 0 /\ UNCHANGED <<cl, mPack, run, fds, sems, attempts, welcomed>> /\ Reading' = Reading
    BY <1>10, <1>z DEF WaitEnds, netVars, Reading
  <2>1. app.pc = "wait" /\ app'.pc = "read" /\ app'.wait = app.wait /\ app'.version = app.version
        /\ app'.rc = -1
    BY <1>0, <1>10 DEF WaitEnds, AppStates
  <2>3. OneConnack => OneConnack'
    BY <2>0 DEF OneConnack, OwnConnack
  <2>4. (AtConnect' => Doomed') /\ (AtConnack' => AtConnack)
    BY <2>1 DEF AtConnect, AtConnack, Waiting, Doomed
  <2> QED
    BY <1>1, <2>0, <2>1, <2>3, <2>4 DEF FirstInv
<1>11. CASE ReadPack
  <2>0. attempts' # 0 /\ UNCHANGED <<cl, mPack, run, fds, sems, attempts, welcomed>> /\ Reading' = Reading
    BY <1>11, <1>z DEF ReadPack, netVars, Reading
  <2>1. app.pc = "read" /\ app'.pc = "woken" /\ app'.wait = app.wait /\ app'.version = app.version
        /\ app'.rc = app.rc /\ app'.pack = mPack
    BY <1>0, <1>11 DEF ReadPack, AppStates
  <2>3. (OneConnack => OneConnack') /\ (Quiet => Quiet')
    BY <2>0 DEF OneConnack, Quiet, OwnConnack, Dead
  <2>4. (AtConnect' => AtConnect) /\ (AtConnack' => AtConnack) /\ (Doomed <=> Doomed')
    BY <2>1 DEF AtConnect, AtConnack, Waiting, Doomed
  <2>5. (AtConnack /\ mPack # NoPack) => OwnConnack(app.pack)'
    BY <1>1, <2>0, <2>1 DEF FirstInv, OneConnack, OwnConnack
  <2> QED
    BY <1>1, <2>0, <2>1, <2>3, <2>4, <2>5 DEF FirstInv
<1>12. CASE RunRead
  <2>0. UNCHANGED <<app, cl, mPack, sems, attempts, welcomed>> /\ Reading = NoPack
        /\ attempts # 0 /\ run'.pc = "dispatch" /\ run'.pack = Reading'
    BY <1>0, <1>12, <1>z DEF RunRead, netVars, Reading, RunStates
  <2>1. CASE run.sock > 0 /\ run.sock = cl.sock /\ cl.state # "TCP_IN_PROGRESS" /\ fds[cl.sock].in # <<>>
    <3>1. cl.sock \in Descriptors
      BY <1>0, <2>1 DEF RunStates, Descriptors
    <3>2. /\ Reading' = Head(fds[cl.sock].in)
          /\ fds'[cl.sock].in = Tail(fds[cl.sock].in) /\ fds'[cl.sock].asked = fds[cl.sock].asked
          /\ fds'[cl.sock].conn = fds[cl.sock].conn
      BY <1>0, <1>12, <2>0, <2>1, <3>1 DEF RunRead, RunStates, Sockets
    <3>3. ~(AtConnect /\ ~Doomed)
      BY <1>1, <2>1 DEF FirstInv
    <3>4. AtConnack => ~Quiet
      BY <2>1 DEF Quiet
    <3>5. AtConnack => OneConnack'
      <4> SUFFICES ASSUME AtConnack PROVE OneConnack'
        OBVIOUS
      <4>1. OneConnack
        BY <1>1 DEF FirstInv
      <4>2. /\ mPack = NoPack /\ Len(fds[cl.sock].in) = 1 /\ OwnConnack(fds[cl.sock].in[1])
            /\ fds[cl.sock].asked = <<>>
        BY <2>1, <4>1 DEF OneConnack
      <4>3. fds[cl.sock].in \in Seq(Packets)
        BY <1>0, <3>1 DEF Sockets
      <4>4. Reading' = fds[cl.sock].in[1] /\ fds'[cl.sock].in = <<>>
        <5> DEFINE q == fds[cl.sock].in
        <5>1. q \in Seq(Packets) /\ q # <<>> /\ Len(q) = 1
          BY <2>1, <4>2, <4>3
        <5> HIDE DEF q
        <5>2. Head(q) = q[1] /\ Tail(q) \in Seq(Packets) /\ Len(Tail(q)) = 0
          BY <5>1, HeadTailProperties
        <5>3. Tail(q) = <<>>
          BY <5>2, EmptySeq
        <5> QED
          BY <3>2, <5>2, <5>3 DEF q
      <4>5. OwnConnack(Reading)'
        BY <2>0, <3>2, <4>2, <4>4 DEF OwnConnack
      <4> QED
        BY <2>0, <3>2, <4>2, <4>4, <4>5 DEF OneConnack
    <3>6. /\ (AtConnect' <=> AtConnect) /\ (AtConnack' <=> AtConnack) /\ (Doomed' <=> Doomed)
          /\ (OwnConnack(app.pack) => OwnConnack(app.pack)')
      BY <2>0, <3>2 DEF AtConnect, AtConnack, Waiting, Doomed, OwnConnack
    <3> QED
      BY <1>1, <2>0, <3>2, <3>3, <3>4, <3>5, <3>6 DEF FirstInv
  <2>2. CASE ~(run.sock > 0 /\ run.sock = cl.sock /\ cl.state # "TCP_IN_PROGRESS" /\ fds[cl.sock].in # <<>>)
    <3>1. fds' = fds /\ Reading' = NoPack
      BY <1>0, <1>12, <2>0, <2>2 DEF RunRead, RunStates
    <3> QED
      BY <1>1, <1>m, <2>0, <3>1 DEF FirstInv
  <2> QED
    BY <2>1, <2>2
<1>13. CASE RunStep
  <2>0. run.pc = "dispatch" /\ run'.pc # "dispatch" /\ UNCHANGED <<app, attempts, welcomed>> /\ attempts # 0
        /\ Reading' = NoPack /\ Reading = run.pack
    BY <1>0, <1>13, <1>z
    DEF RunStep, RunDispatch, OwnSock, LoopOn, RunEnds, RunStates, netVars, Reading
  <2>e. /\ (AtConnect' <=> AtConnect) /\ (AtConnack' <=> AtConnack) /\ (Doomed' <=> Doomed)
    BY <2>0 DEF AtConnect, AtConnack, Waiting, Doomed
  <2>1. CASE cl' = ClosedCl /\ cl.connected
    <3>1. ~AtConnect /\ ~AtConnack /\ ~cl'.connected
      BY <1>0, <2>1, ClosedDoes DEF SocketInv, Connecting
    <3> QED
      BY <2>0, <2>e, <3>1 DEF FirstInv
  <2>2. CASE OwnSock /\ run.rc # 0 /\ GoneBeforeConnack /\ UNCHANGED <<fds, mPack>>
    <3>1. AtConnack /\ Connecting /\ ~AtConnect /\ ~Doomed /\ ~cl.connected
      BY <1>0, <2>2 DEF GoneBeforeConnack, SocketInv, Connecting, AtConnack, AtConnect, Doomed
    <3>2. Dead(cl.sock) /\ fds[cl.sock].in = <<>>
      BY <2>2, <3>1, <1>1 DEF StateInv, OwnSock, GoneBeforeConnack
    <3>3. cl'.sock = cl.sock /\ ~cl'.connected
      BY <1>0, <2>2, <3>1 DEF GoneBeforeConnack, ClientStates
    <3>4. Quiet'
      BY <2>0, <2>2, <3>2, <3>3 DEF Quiet, Dead
    <3>5. OneConnack'
      BY <1>1, <2>0, <2>2, <3>1, <3>3 DEF FirstInv, OneConnack, OwnConnack
    <3>6. OwnConnack(app.pack) => OwnConnack(app.pack)'
      BY <2>0, <2>2, <3>3 DEF OwnConnack
    <3> QED
      BY <1>1, <2>0, <2>2, <2>e, <3>1, <3>3, <3>4, <3>5, <3>6 DEF FirstInv
  <2>3. CASE /\ run.pack # NoPack /\ mPack' = run.pack /\ UNCHANGED <<cl, fds, mRc>>
    <3>1. ~(AtConnect /\ ~Doomed)
      BY <1>1, <2>0, <2>3 DEF FirstInv
    <3>2. (AtConnack /\ app.version = 4) => ~(app.pc \in {"read", "woken"} /\ app.rc = 0)
      BY <1>1, <2>0, <2>3 DEF FirstInv, Quiet
    <3>3. AtConnack => /\ OwnConnack(Reading) /\ fds[cl.sock].in = <<>> /\ fds[cl.sock].asked = <<>>
      BY <1>1, <2>0, <2>3 DEF FirstInv, OneConnack
    <3>4. AtConnack => Quiet'
      BY <2>0, <2>3, <3>3 DEF Quiet
    <3>5. AtConnack => OneConnack'
      BY <2>0, <2>3, <3>3 DEF OneConnack, OwnConnack
    <3>6. OwnConnack(app.pack) => OwnConnack(app.pack)'
      BY <2>0, <2>3 DEF OwnConnack
    <3> QED
      BY <1>1, <2>0, <2>3, <2>e, <3>1, <3>2, <3>4, <3>5, <3>6 DEF FirstInv
  <2>4. CASE /\ cl.state = "TCP_IN_PROGRESS" /\ cl' = [cl EXCEPT !.state = "NOT_IN_PROGRESS"]
             /\ Post("CONNECT") /\ UNCHANGED <<fds, mPack>>
    <3>1. cl'.sock = cl.sock /\ cl'.connected = cl.connected
      BY <1>0, <2>4 DEF ClientStates
    <3>2. sems'["CONNACK"] = sems["CONNACK"]
      BY <1>0, <1>w, <2>4 DEF Post
    <3> QED
      BY <1>m, <2>0, <2>4, <3>1, <3>2
  <2>5. CASE UNCHANGED <<cl, sems, fds, mPack>>
    BY <1>m, <2>0, <2>5
  <2> QED
    BY <1>13, <2>1, <2>2, <2>3, <2>4, <2>5 DEF RunStep, RunDispatch
<1>14. CASE RunStops
  <2>1. UNCHANGED <<app, cl, mPack, sems, fds, attempts, welcomed>> /\ attempts # 0 /\ Reading' = NoPack
    BY <1>0, <1>14, <1>z DEF RunStops, RunEnds, RunStates, Reading, netVars
  <2> QED
    BY <1>m, <2>1
<1>15. CASE \E f \in Descriptors : BrokerAnswer(f)
  <2> PICK f \in Descriptors : BrokerAnswer(f)
    BY <1>15
  <2>0. UNCHANGED <<app, cl, mPack, sems, run, attempts>> /\ Reading' = Reading
    BY DEF BrokerAnswer, Elsewhere, Reading
  <2>1. PICK ok \in BOOLEAN :
           LET p == [type |-> Head(fds[f].asked), conn |-> fds[f].conn, ok |-> ok]
           IN /\ fds[f].peer = "open" /\ fds[f].asked # <<>>
              /\ fds'[f] = [fds[f] EXCEPT !.asked = Tail(@), !.in = Append(@, p)]
              /\ \A g \in Descriptors \ {f} : fds'[g] = fds[g]
              /\ welcomed' = IF ok THEN welcomed \cup {fds[f].conn} ELSE welcomed
    BY <1>0, BrokerSends
  <2>2. CASE f # cl.sock
    <3>1. (attempts = 0 => ~sems'["CONNECT"]) /\ welcomed \subseteq welcomed'
      BY <1>1, <2>0, <2>1 DEF FirstInv
    <3>2. cl.sock \in Descriptors => fds'[cl.sock] = fds[cl.sock]
      BY <2>1, <2>2
    <3> QED
      BY <1>m, <2>0, <3>1, <3>2
  <2>3. CASE f = cl.sock
    <3> DEFINE p == [type |-> Head(fds[f].asked), conn |-> fds[f].conn, ok |-> ok]
    <3>1. /\ fds'[f].conn = fds[f].conn /\ fds'[f].asked = Tail(fds[f].asked)
          /\ fds'[f].in = Append(fds[f].in, p)
          /\ fds[f].in \in Seq(Packets) /\ fds[f].asked \in Seq(Answers)
      BY <1>0, <2>1 DEF Sockets
    <3>2. ~(AtConnect /\ ~Doomed)
      BY <1>1, <2>1, <2>3 DEF FirstInv
    <3>3. AtConnack => ~Quiet
      BY <2>1, <2>3 DEF Quiet, Dead
    <3>4. AtConnack => OneConnack'
      <4> SUFFICES ASSUME AtConnack PROVE OneConnack'
        OBVIOUS
      <4>1. /\ fds[f].asked = <<"CONNACK">> /\ fds[f].in = <<>> /\ mPack = NoPack /\ Reading = NoPack
        BY <1>1, <2>1, <2>3 DEF FirstInv, OneConnack
      <4>2. p.type = "CONNACK" /\ p.ok = ok /\ fds'[f].asked = <<>>
        BY <3>1, <4>1
      <4>3. fds'[f].in = <<p>>
        BY <3>1, <4>1
      <4>4. Len(fds'[f].in) = 1 /\ fds'[f].in[1] = p
        BY <4>3
      <4>5. p.ok => fds'[f].conn \in welcomed'
        BY <2>1, <3>1, <4>2
      <4> HIDE DEF p
      <4>6. OwnConnack(fds[cl.sock].in[1])'
        BY <2>0, <2>3, <4>2, <4>4, <4>5 DEF OwnConnack
      <4> QED
        BY <2>0, <2>3, <4>1, <4>2, <4>4, <4>6 DEF OneConnack
    <3>5. /\ (AtConnect' <=> AtConnect) /\ (AtConnack' <=> AtConnack) /\ (Doomed' <=> Doomed)
          /\ welcomed \subseteq welcomed'
      BY <2>0, <2>1 DEF AtConnect, AtConnack, Waiting, Doomed
    <3>6. OwnConnack(app.pack) => OwnConnack(app.pack)'
      BY <2>0, <2>3, <3>1, <3>5 DEF OwnConnack
    <3>7. cl.connected => fds'[cl'.sock].conn \in welcomed'
      BY <1>1, <2>0, <2>3, <3>1, <3>5 DEF FirstInv
    <3> QED
      BY <1>1, <2>0, <3>2, <3>3, <3>4, <3>5, <3>6, <3>7 DEF FirstInv
  <2> QED
    BY <2>2, <2>3
<1>16. CASE \E f \in Descriptors : TcpAnswer(f) \/ PeerCloses(f)
  <2> PICK f \in Descriptors : TcpAnswer(f) \/ PeerCloses(f)
    BY <1>16
  <2>0. UNCHANGED <<app, cl, mPack, sems, run, attempts, welcomed>> /\ Reading' = Reading
    BY DEF TcpAnswer, PeerCloses, Elsewhere, Reading
  <2>1. attempts = 0 => ~sems'["CONNECT"]
    BY <1>1, <2>0 DEF FirstInv
  <2>2. cl.sock \in Descriptors =>
               /\ fds'[cl.sock].conn = fds[cl.sock].conn /\ fds'[cl.sock].in = fds[cl.sock].in
               /\ fds'[cl.sock].asked \in {fds[cl.sock].asked, <<>>}
               /\ Dead(cl.sock) => fds'[cl.sock].peer = fds[cl.sock].peer
    <3>1. CASE TcpAnswer(f)
      BY <1>0, <3>1 DEF TcpAnswer, Sockets, Dead
    <3>2. CASE PeerCloses(f)
      BY <1>0, <3>2 DEF PeerCloses, Sockets, Dead
    <3> QED
      BY <3>1, <3>2
  <2> QED
    BY <1>m, <2>0, <2>1, <2>2
<1>17. CASE \E f \in Descriptors \cup {0} : RunSelect(f)
  <2> PICK f \in Descriptors \cup {0} : RunSelect(f)
    BY <1>17
  <2>0. UNCHANGED <<app, cl, mPack, sems, attempts, welcomed>> /\ Reading' = NoPack
    BY <1>0 DEF RunSelect, Reading, RunStates, netVars
  <2>1. attempts = 0 => ~sems'["CONNECT"]
    BY <1>1, <2>0 DEF FirstInv
  <2>2. cl.sock \in Descriptors =>
               /\ fds'[cl.sock].conn = fds[cl.sock].conn /\ fds'[cl.sock].in = fds[cl.sock].in
               /\ fds'[cl.sock].asked = fds[cl.sock].asked
               /\ Dead(cl.sock) => fds'[cl.sock].peer = fds[cl.sock].peer
    BY <1>0 DEF RunSelect, Sockets, Dead
  <2> QED
    BY <1>m, <2>0, <2>1, <2>2
<1>18. CASE UNCHANGED threadVars
  <2>1. UNCHANGED <<app, cl, mPack, sems, run, fds, attempts, welcomed>> /\ Reading' = Reading
    BY <1>18 DEF threadVars, Reading
  <2>2. attempts = 0 => ~sems'["CONNECT"]
    BY <1>1, <2>1 DEF FirstInv
  <2> QED
    BY <1>m, <2>1, <2>2
<1> QED
  BY <1>2, <1>3, <1>4, <1>5, <1>6, <1>7, <1>8, <1>9, <1>10, <1>11, <1>12, <1>13, <1>14, <1>15, <1>16,
     <1>17, <1>18
  DEF ThreadsNext, AppCalls, AppGoesOn, RunGoesOn, NetworkAnswers

\* All of it holds before the first call.
LEMMA ConnectionInit == ThreadsInit => ConnectionInv
<1> SUFFICES ASSUME ThreadsInit PROVE ConnectionInv
  OBVIOUS
<1>1. ThreadsTypeOK
  BY TypeInit
<1>2. /\ app.pc = "idle" /\ cl.state = "NOT_IN_PROGRESS" /\ ~cl.connected /\ cl.sock = 0
      /\ run.pc = "none" /\ ~running /\ ~tostop /\ mPack = NoPack
      /\ \A f \in Descriptors : fds[f].peer = "unused"
      /\ ~sems["CONNECT"] /\ ~sems["CONNACK"]
  BY DEF ThreadsInit, Unused, Waits
<1>3. ThreadInv
  BY <1>2 DEF ThreadInv, Connecting, AtConnect, AtConnack, Waiting
<1>4. SocketInv
  BY <1>2 DEF SocketInv, Connecting, AtConnect, AtConnack, Waiting
<1>5. StateInv /\ UncutInv /\ FirstInv
  BY <1>2 DEF StateInv, UncutInv, FirstInv, Connecting, AtConnect, AtConnack, Waiting
<1> QED
  BY <1>1, <1>3, <1>4, <1>5 DEF ConnectionInv

\* Every step of the two threads keeps all of it.
LEMMA ConnectionStep == ConnectionInv /\ [ThreadsNext]_threadVars => ConnectionInv'
<1> SUFFICES ASSUME ConnectionInv, [ThreadsNext]_threadVars PROVE ConnectionInv'
  OBVIOUS
<1>1. ThreadsTypeOK /\ ThreadInv /\ SocketInv
  BY DEF ConnectionInv
<1>2. ThreadsTypeOK'
  BY <1>1, TypeStep
<1>3. ThreadInv' /\ SocketInv'
  BY <1>1, <1>2, ThreadInvStep, SocketInvStep
<1>4. (cuts' = 0 \/ attempts' <= 1) => StateInv'
  BY <1>2, <1>3, StateInvStep
<1>5. cuts' = 0 => UncutInv'
  BY <1>2, <1>3, UncutInvStep
<1>6. attempts' <= 1 => FirstInv'
  BY <1>2, <1>3, FirstInvStep
<1> QED
  BY <1>2, <1>3, <1>4, <1>5, <1>6 DEF ConnectionInv

\* For any number of connects, timeouts and sockets: the first connect of a
\* client succeeds only on its own connection's CONNACK (attempts with version 4
\* and 3, MQTTClient_connectURI), a client that is not connected leaves no run
\* thread behind, and unless a wait has timed out no live socket is forgotten.
THEOREM ClientConnectionSound == ThreadsSpec => []ConnectionSound
<1>1. ConnectionInv => ConnectionSound
  BY DEF ConnectionInv, ConnectionSound, FirstConnectWelcomed, ConnectedWelcomed, NoThreadLeft,
         OnlyDeadForgotten, FirstInv, ThreadInv, UncutInv
<1> QED
  BY <1>1, ConnectionInit, ConnectionStep, PTL DEF ThreadsSpec

================================================================================
