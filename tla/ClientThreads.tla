----------------------------- MODULE ClientThreads -----------------------------
(***************************************************************************)
(* The two threads of an MQTTClient with callbacks (MQTTClient.c): the     *)
(* application's, which connects, subscribes, unsubscribes and             *)
(* disconnects, and MQTTClient_run, which reads the socket and wakes the   *)
(* other with a semaphore.  What a thread does while it holds              *)
(* mqttclient_mutex is one step.  No message is in flight.                 *)
(***************************************************************************)
EXTENDS Integers, Sequences

CONSTANTS
  MaxAttempts,   \* bound: calls of MQTTClient_connect
  MaxWaitsCut,   \* bound: waits that time out although the answer may come
  MaxSocket      \* descriptors of the process

ASSUME ThreadsAssumption == {MaxAttempts, MaxWaitsCut} \subseteq Nat /\ MaxSocket \in Nat \ {0}

Waits == {"CONNECT", "CONNACK", "SUBACK", "UNSUBACK"}
Descriptors == 1..MaxSocket
NoPack == [type |-> "none", conn |-> 0, ok |-> FALSE]
Unused == [peer |-> "unused", conn |-> 0, asked |-> <<>>, in |-> <<>>]

VARIABLES
  app,       \* the application: [pc, wait, rc, pack, version]
  cl,        \* the client: [state, connected, sock], of Clients
  mPack, mRc, sems,   \* m->pack, m->rc and the four semaphores
  running, tostop,
  run,       \* MQTTClient_run: [pc, sock, pack, rc]
  fds,       \* the sockets: [peer, conn, asked, in]
  conns, welcomed,    \* connections so far, and those a CONNACK accepted
  attempts, cuts

threadVars == <<app, cl, mPack, mRc, sems, running, tostop, run, fds, conns, welcomed,
                attempts, cuts>>
netVars == <<conns, welcomed>>

ThreadsInit ==
  /\ app = [pc |-> "idle", wait |-> "CONNECT", rc |-> 0, pack |-> NoPack, version |-> 4]
  /\ cl = [state |-> "NOT_IN_PROGRESS", connected |-> FALSE, sock |-> 0]
  /\ mPack = NoPack /\ mRc = 0 /\ sems = [k \in Waits |-> FALSE]
  /\ running = FALSE /\ tostop = FALSE
  /\ run = [pc |-> "none", sock |-> 0, pack |-> NoPack, rc |-> 0]
  /\ fds = [f \in Descriptors |-> Unused]
  /\ conns = 0 /\ welcomed = {} /\ attempts = 0 /\ cuts = 0
-------------------------------------------------------------------------------
\* Ending a session.

\* MQTTClient_disconnect1 has nothing to close unless connected or connecting.
Closing == cl.connected \/ cl.state # "NOT_IN_PROGRESS"

\* MQTTClient_closeSession and Socket_close.
ClosedCl == IF Closing THEN [state |-> "NOT_IN_PROGRESS", connected |-> FALSE, sock |-> 0] ELSE cl
ClosedFds == IF Closing /\ cl.sock > 0 THEN [fds EXCEPT ![cl.sock] = Unused] ELSE fds

\* MQTTClient_stop from the application: it waits for the run thread to end.  The code
\* gives up after 100 sleeps of 100 ms; the thread looks at tostop at least every second
\* unless a callback of the application keeps it, and there are no callbacks here.
StopFromApp ==
  IF running /\ ~tostop THEN tostop' = TRUE /\ app' = [app EXCEPT !.pc = "stop"]
  ELSE app' = [app EXCEPT !.pc = "idle"] /\ UNCHANGED tostop

\* The last lines of MQTTClient_run.
RunEnds == running' = FALSE /\ tostop' = FALSE /\ run' = [run EXCEPT !.pc = "none"]
-------------------------------------------------------------------------------
\* MQTTClient_connect.

\* connectURIVersion to its first wait, which is over at once when the time has
\* expired: the run thread is started if there is none, MQTTProtocol_connect has
\* begun a TCP connect on the lowest free descriptor, or has found no descriptor
\* or no address; then version 3 is tried, and may find one.
NewSocket == [peer |-> "syn", conn |-> conns + 1, asked |-> <<>>, in |-> <<>>]
Attempt(version, fdset, expired) ==
  LET free == {f \in Descriptors : fdset[f].peer = "unused"}
  IN /\ running' = TRUE
     /\ run' = IF running THEN run ELSE [run EXCEPT !.pc = "top"]
     /\ \/ /\ \E f \in free :
                /\ \A g \in free : f <= g
                /\ fds' = [fdset EXCEPT ![f] = NewSocket]
                /\ cl' = [state |-> "TCP_IN_PROGRESS", connected |-> FALSE, sock |-> f]
           /\ conns' = conns + 1
           /\ \E v \in {version, 3} :
                app' = [app EXCEPT !.pc = IF expired THEN "woken" ELSE "wait", !.wait = "CONNECT",
                          !.rc = IF expired THEN -1 ELSE @, !.version = v]
           /\ UNCHANGED tostop
        \/ /\ fds' = fdset /\ cl' = [ClosedCl EXCEPT !.sock = 0] /\ UNCHANGED conns
           /\ tostop' = TRUE /\ app' = [app EXCEPT !.pc = "stop"]

\* MQTTClient_connectAll and connectURI.
ConnectCall ==
  /\ app.pc = "idle" /\ ~cl.connected /\ attempts < MaxAttempts
  /\ attempts' = attempts + 1 /\ Attempt(4, fds, FALSE)
  /\ UNCHANGED <<mPack, mRc, sems, welcomed, cuts>>

\* The attempt with version 4 has failed: disconnect1 without a stop, and
\* version 3, in what is left of the time; then disconnect1 with a stop.
ConnectFails(expired) ==
  IF app.version = 4 THEN Attempt(3, ClosedFds, expired)
  ELSE cl' = ClosedCl /\ fds' = ClosedFds /\ StopFromApp /\ UNCHANGED <<running, run, conns>>

\* After TCP connected: CONNECT is sent; into a connection the peer has closed
\* that may succeed or fail.  A semaphore posted for an earlier attempt leads
\* here before TCP is connected: then the packet waits in the socket.
AfterConnect ==
  /\ app.pc = "woken" /\ app.wait = "CONNECT"
  /\ LET peer == fds[cl.sock].peer
     IN \/ app.rc # 0 /\ ConnectFails(app.rc < 0)
        \/ /\ app.rc = 0 /\ peer # "refused"
           /\ cl' = [cl EXCEPT !.state = "WAIT_FOR_CONNACK"]
           /\ fds' = IF peer = "gone" THEN fds ELSE [fds EXCEPT ![cl.sock].asked = <<"CONNACK">>]
           /\ app' = [app EXCEPT !.pc = "wait", !.wait = "CONNACK"]
           /\ UNCHANGED <<running, tostop, run, conns>>
        \/ /\ app.rc = 0 /\ peer \in {"refused", "gone"}
           /\ IF app.version = 4 THEN Attempt(3, [fds EXCEPT ![cl.sock] = Unused], FALSE)
              ELSE /\ cl' = [cl EXCEPT !.state = "NOT_IN_PROGRESS", !.sock = 0]
                   /\ fds' = [fds EXCEPT ![cl.sock] = Unused]
                   /\ StopFromApp /\ UNCHANGED <<running, run, conns>>
  /\ UNCHANGED <<mPack, mRc, sems, welcomed, attempts, cuts>>

MutantAccepted == app.rc = 0

\* Has a CONNACK come that says success?  Another packet would be read as one.
Accepted == app.pack # NoPack /\ (app.pack.type = "CONNACK" => app.pack.ok)
Declined == app.pack.type # "CONNACK" \/ ~app.pack.ok

\* The end of connectURIVersion.
AfterConnack ==
  /\ app.pc = "woken" /\ app.wait = "CONNACK"
  /\ mPack' = IF app.pack # NoPack THEN NoPack ELSE mPack
  /\ \/ Declined /\ ConnectFails(app.rc < 0)
     \/ /\ Accepted /\ cl' = [cl EXCEPT !.connected = TRUE, !.state = "NOT_IN_PROGRESS"]
        /\ app' = [app EXCEPT !.pc = "idle"] /\ UNCHANGED <<running, tostop, run, fds, conns>>
  /\ UNCHANGED <<mRc, sems, welcomed, attempts, cuts>>
-------------------------------------------------------------------------------
\* The application's other calls.

\* MQTTClient_subscribeMany5, unsubscribeMany5, to the wait; or the write fails
\* and the session is closed.
AskCall(k) ==
  /\ app.pc = "idle" /\ cl.connected
  /\ \/ /\ app' = [app EXCEPT !.pc = "wait", !.wait = k]
        /\ fds' = IF fds[cl.sock].peer = "open" THEN [fds EXCEPT ![cl.sock].asked = Append(@, k)] ELSE fds
        /\ UNCHANGED <<cl, tostop>>
     \/ /\ fds[cl.sock].peer = "gone" /\ cl' = ClosedCl /\ fds' = ClosedFds /\ StopFromApp
  /\ UNCHANGED <<mPack, mRc, sems, running, run, netVars, attempts, cuts>>

\* Their ends: without an answer the session is closed.
AfterAck ==
  /\ app.pc = "woken" /\ app.wait \in {"SUBACK", "UNSUBACK"}
  /\ \/ /\ app.pack # NoPack /\ mPack' = NoPack /\ app' = [app EXCEPT !.pc = "idle"]
        /\ UNCHANGED <<cl, fds, tostop>>
     \/ app.pack = NoPack /\ cl' = ClosedCl /\ fds' = ClosedFds /\ StopFromApp /\ UNCHANGED mPack
  /\ UNCHANGED <<mRc, sems, running, run, netVars, attempts, cuts>>

\* MQTTClient_disconnect.
DisconnectCall ==
  /\ app.pc = "idle" /\ cl.connected /\ cl' = ClosedCl /\ fds' = ClosedFds /\ StopFromApp
  /\ UNCHANGED <<mPack, mRc, sems, running, run, netVars, attempts, cuts>>

\* MQTTClient_waitfor: the semaphore ...
Wake ==
  /\ app.pc = "wait" /\ sems[app.wait]
  /\ sems' = [sems EXCEPT ![app.wait] = FALSE]
  /\ app' = [app EXCEPT !.pc = "read", !.rc = IF app.wait = "CONNECT" THEN mRc ELSE 0]
  /\ UNCHANGED <<cl, mPack, mRc, running, tostop, run, fds, netVars, attempts, cuts>>

Unanswerable == ~cl.connected /\ app.wait \in {"SUBACK", "UNSUBACK"}

\* ... or the timeout, -1 for what Thread_wait_sem returns then ...
WaitEnds ==
  /\ app.pc = "wait" /\ ~sems[app.wait]
  /\ cuts' = IF Unanswerable THEN cuts ELSE cuts + 1
  /\ cuts' <= MaxWaitsCut
  /\ app' = [app EXCEPT !.pc = "read", !.rc = -1]
  /\ UNCHANGED <<cl, mPack, mRc, sems, running, tostop, run, fds, netVars, attempts>>

\* ... and the packet, read without the mutex.
ReadPack ==
  /\ app.pc = "read" /\ app' = [app EXCEPT !.pc = "woken", !.pack = mPack]
  /\ UNCHANGED <<cl, mPack, mRc, sems, running, tostop, run, fds, netVars, attempts, cuts>>

\* MQTTClient_stop: the thread has ended.
StopDone ==
  /\ app.pc = "stop" /\ ~running /\ app' = [app EXCEPT !.pc = "idle"]
  /\ UNCHANGED <<cl, mPack, mRc, sems, running, tostop, run, fds, netVars, attempts, cuts>>
-------------------------------------------------------------------------------
\* MQTTClient_run.

\* Socket_getReadySocket: sockets whose connect has ended, or that can be read.
ReadyFds == {f \in Descriptors : fds[f].peer \in {"up", "refused", "gone"} \/ fds[f].in # <<>>}

\* The loop's condition, and select without the mutex; 0 when its time passes.
RunSelect(f) ==
  /\ run.pc = "top" /\ ~tostop /\ f \in ReadyFds \cup {0}
  /\ run' = [run EXCEPT !.pc = "ready", !.sock = f]
  /\ fds' = IF f > 0 /\ fds[f].peer = "up" THEN [fds EXCEPT ![f].peer = "open"] ELSE fds
  /\ UNCHANGED <<app, cl, mPack, mRc, sems, running, tostop, netVars, attempts, cuts>>

\* The rest of MQTTClient_cycle: one packet, if the socket is the client's and
\* no connect is under way.
RunRead ==
  /\ run.pc = "ready"
  /\ LET f == run.sock
         own == f > 0 /\ f = cl.sock
         reads == own /\ cl.state # "TCP_IN_PROGRESS"
         got == reads /\ fds[f].in # <<>>
     IN /\ run' = [run EXCEPT !.pc = "dispatch", !.pack = IF got THEN Head(fds[f].in) ELSE NoPack,
                     !.rc = IF got \/ (own /\ (~reads \/ fds[f].peer \in {"syn", "up", "open"})) THEN 0 ELSE -1]
        /\ fds' = IF got THEN [fds EXCEPT ![f].in = Tail(@)] ELSE fds
  /\ UNCHANGED <<app, cl, mPack, mRc, sems, running, tostop, netVars, attempts, cuts>>

\* Thread_post_sem: the semaphore is binary.
Post(k) == sems' = [sems EXCEPT ![k] = TRUE]

MutantGoneBeforeConnack ==
  /\ cl.state = "WAIT_FOR_CONNACK" /\ cl' = [cl EXCEPT !.state = "NOT_IN_PROGRESS"] /\ UNCHANGED sems

\* The connection has failed while the application waits for CONNACK.
GoneBeforeConnack ==
  /\ cl.state = "WAIT_FOR_CONNACK" /\ cl' = [cl EXCEPT !.state = "NOT_IN_PROGRESS"] /\ Post("CONNACK")

OwnSock == run.pc = "dispatch" /\ ~tostop /\ run.sock = cl.sock
LoopOn == run' = [run EXCEPT !.pc = "top"] /\ UNCHANGED <<running, tostop>>

\* The loop's body after the cycle.
RunDispatch ==
  \/ /\ run.pc = "dispatch" /\ ~tostop /\ run.sock # cl.sock
     /\ LoopOn /\ UNCHANGED <<cl, fds, sems, mPack, mRc>>
  \/ /\ OwnSock /\ run.rc # 0 /\ cl.connected          \* disconnect_internal stops the thread
     /\ cl' = ClosedCl /\ fds' = ClosedFds /\ RunEnds /\ UNCHANGED <<sems, mPack, mRc>>
  \/ /\ OwnSock /\ run.rc # 0 /\ ~cl.connected /\ GoneBeforeConnack
     /\ LoopOn /\ UNCHANGED <<fds, mPack, mRc>>
  \/ /\ OwnSock /\ run.rc # 0 /\ ~cl.connected /\ cl.state # "WAIT_FOR_CONNACK"
     /\ LoopOn /\ UNCHANGED <<cl, fds, sems, mPack, mRc>>
  \/ /\ OwnSock /\ run.rc = 0 /\ run.pack # NoPack
     /\ mPack' = run.pack /\ Post(run.pack.type) /\ LoopOn /\ UNCHANGED <<cl, fds, mRc>>
  \/ /\ OwnSock /\ run.rc = 0 /\ run.pack = NoPack /\ cl.state = "TCP_IN_PROGRESS"
     /\ mRc' = IF fds[cl.sock].peer = "refused" THEN 1 ELSE 0
     /\ cl' = [cl EXCEPT !.state = "NOT_IN_PROGRESS"] /\ Post("CONNECT")
     /\ LoopOn /\ UNCHANGED <<fds, mPack>>
  \/ /\ OwnSock /\ run.rc = 0 /\ run.pack = NoPack /\ cl.state # "TCP_IN_PROGRESS"
     /\ LoopOn /\ UNCHANGED <<cl, fds, sems, mPack, mRc>>

RunStep == RunDispatch /\ UNCHANGED <<app, netVars, attempts, cuts>>

\* tostop is set, seen at the top of the loop or after the cycle.
RunStops ==
  /\ tostop /\ run.pc \in {"top", "dispatch"} /\ RunEnds
  /\ UNCHANGED <<app, cl, mPack, mRc, sems, fds, netVars, attempts, cuts>>
-------------------------------------------------------------------------------
\* The network and the broker.

Elsewhere == UNCHANGED <<app, cl, mPack, mRc, sems, running, tostop, run, conns, attempts, cuts>>

TcpAnswer(f) ==
  /\ fds[f].peer = "syn" /\ \E p \in {"up", "refused"} : fds' = [fds EXCEPT ![f].peer = p]
  /\ Elsewhere /\ UNCHANGED welcomed

BrokerAnswer(f) ==
  /\ fds[f].peer = "open" /\ fds[f].asked # <<>>
  /\ \E ok \in {TRUE} \cup (IF Head(fds[f].asked) = "CONNACK" THEN {FALSE} ELSE {}) :
       /\ fds' = [fds EXCEPT ![f].asked = Tail(@),
                    ![f].in = Append(@, [type |-> Head(fds[f].asked), conn |-> fds[f].conn, ok |-> ok])]
       /\ welcomed' = IF ok THEN welcomed \cup {fds[f].conn} ELSE welcomed
  /\ Elsewhere

PeerCloses(f) ==
  /\ fds[f].peer \in {"up", "open"} /\ fds' = [fds EXCEPT ![f].peer = "gone", ![f].asked = <<>>]
  /\ Elsewhere /\ UNCHANGED welcomed

AppCalls == ConnectCall \/ DisconnectCall \/ \E k \in {"SUBACK", "UNSUBACK"} : AskCall(k)
AppGoesOn == Wake \/ ReadPack \/ AfterConnect \/ AfterConnack \/ AfterAck \/ StopDone
RunGoesOn == RunRead \/ RunStep \/ RunStops
NetworkAnswers == \E f \in Descriptors : TcpAnswer(f) \/ BrokerAnswer(f)
ThreadsNext ==
  \/ AppCalls \/ AppGoesOn \/ WaitEnds \/ RunGoesOn
  \/ \E f \in Descriptors \cup {0} : RunSelect(f)
  \/ NetworkAnswers \/ \E f \in Descriptors : PeerCloses(f)

\* Both threads are scheduled, select comes round to every ready socket, the
\* network and the broker answer.  Only a wait that nobody can end any more is
\* ended by its timeout.
ThreadsFairness ==
  /\ WF_threadVars(AppGoesOn) /\ WF_threadVars(WaitEnds /\ Unanswerable) /\ WF_threadVars(RunGoesOn)
  /\ WF_threadVars(NetworkAnswers) /\ \A f \in Descriptors : SF_threadVars(RunSelect(f))
ThreadsSpec == ThreadsInit /\ [][ThreadsNext]_threadVars /\ ThreadsFairness
-------------------------------------------------------------------------------
\* Properties.

\* The client calls itself connected only on a connection whose own CONNACK
\* said success ("MQTTCLIENT_SUCCESS if the client successfully connects to the
\* server", MQTTClient.h).  A second call of MQTTClient_connect may break it: a
\* CONNACK that came as the first one gave up is still in m->pack, and its
\* semaphore is posted.
ConnectedWelcomed == cl.connected => fds[cl.sock].conn \in welcomed

\* It holds of the first call, the only one the gateway makes, whichever of its
\* two attempts succeeds, though the second may get the number of the first's
\* socket and m->pack is read without the mutex.
FirstConnectWelcomed == attempts <= 1 => ConnectedWelcomed

\* When connect has failed, or the connection is closed or lost, no run thread
\* is left behind once the application's call has returned (by the thread's end, not
\* by the limit of ten seconds in MQTTClient_stop).
NoThreadLeft == (app.pc = "idle" /\ ~cl.connected) => ~running

\* A socket the client has lost sight of is one the peer refused or closed; a
\* working connection is not forgotten, unless a connect was given up as TCP
\* answered: connect_state is NOT_IN_PROGRESS then and disconnect1 closes nothing.
OnlyDeadForgotten ==
  cuts = 0 => \A f \in Descriptors \ {cl.sock} : fds[f].peer \in {"unused", "refused", "gone"}

\* A connection: connected says that this one was accepted, and one that has
\* ended leaves nothing running.
ConnectionSound == FirstConnectWelcomed /\ NoThreadLeft /\ OnlyDeadForgotten

\* MQTTClient_connect returns even where its timeout never fires: a refused or
\* broken connection, and an answer of any kind, wake it.
ConnectReturns == (app.pc # "idle" /\ app.wait \in {"CONNECT", "CONNACK"}) ~> app.pc = "idle"
================================================================================
