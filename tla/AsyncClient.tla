------------------------------ MODULE AsyncClient ------------------------------
(***************************************************************************)
(* The asynchronous client of the Paho library (MQTTAsync.c): commands are *)
(* queued by the application, taken from the queue by the send thread and  *)
(* completed by the receive thread, with automatic reconnection over a     *)
(* list of servers.  Version 3.1.1, one client, one application thread.    *)
(*                                                                         *)
(* What a thread does under mqttasync_mutex is one step, except where a    *)
(* crash, the application (which adds commands without that mutex) or      *)
(* select (which completes writes without it) can come in between.         *)
(* The exchanges of QoS 2 and the keepalive are in MqttSession.            *)
(***************************************************************************)
EXTENDS Integers, Sequences, FiniteSets, SequencesExt

CONSTANTS
  AsyncClean,     \* cleansession
  ServerURIcount,
  MaxBuffered,    \* createOptions.maxBufferedMessages
  Kinds,          \* what the application does: "pub0", "pub1", "sub"
  MaxCalls,       \* bound: calls of send and subscribe
  MaxTurns,       \* bound: calls of connect, disconnect and reconnect
  MaxTrouble      \* bound: failures of the network, timeouts, crashes

ASSUME AsyncAssumption ==
  /\ AsyncClean \in BOOLEAN /\ ServerURIcount \in Nat \ {0}
  /\ Kinds \subseteq {"pub0", "pub1", "sub"} /\ {MaxBuffered, MaxCalls, MaxTurns, MaxTrouble} \subseteq Nat

VARIABLES
  am,      \* the client and its socket, see AsyncFresh
  hand,    \* the command the send thread has detached: [cmd, at]
  recv,    \* the receive thread: [pc, sock, pack, rc]
  calling, \* the application's send or subscribe before its addCommand
  admitted,\* the calls that returned success: [kind, fresh, reused]
  turns, trouble,
  told,    \* the outcomes each of them has been told
  lost,    \* the call a crash caught in the send thread's hand, or 0
  crashed, \* has the process been restarted?
  delayed, \* the messages that some reconnection did not send again
  broker   \* [session, reached]

asyncVars ==
  <<am, hand, recv, calling, admitted, turns, trouble, told, lost, crashed, delayed, broker>>

Command(kind, n, id) == [kind |-> kind, n |-> n, id |-> id]
NoCommand == Command("none", 0, 0)
ConnectTo(uri) == Command("connect", uri, 0)
Disconnect(kind) == Command(kind, 0, 0)   \* "internal", "close", or "drain" with a timeout
IsDisconnect(c) == c.kind \in {"internal", "close", "drain"}
IsCall(c) == c.kind \in {"pub0", "pub1", "sub"}
NoAnswer == [type |-> "none", id |-> 0, ok |-> FALSE]

\* MQTTAsync_createWithOptions; peer is the socket's other end, heldBack what was not
\* sent again on this connection.
AsyncFresh ==
  [commands |-> <<>>, responses |-> <<>>, outbound |-> <<>>, msgID |-> 0,
   state |-> "NOT_IN_PROGRESS", connected |-> FALSE, uri |-> 0,
   shouldBeConnected |-> FALSE, retrying |-> FALSE, disconnect |-> NoCommand,
   pending_write |-> 0, peer |-> "none", out |-> <<>>, in |-> <<>>, cut |-> NoCommand,
   heldBack |-> {}]

AsyncInit ==
  /\ am = AsyncFresh /\ hand = [cmd |-> NoCommand, at |-> "none"]
  /\ recv = [pc |-> "select", sock |-> 0, pack |-> NoAnswer, rc |-> 0]
  /\ calling = NoCommand /\ admitted = <<>> /\ turns = 0 /\ trouble = 0
  /\ told = [n \in 1..MaxCalls |-> <<>>] /\ lost = 0 /\ crashed = FALSE
  /\ delayed = {}
  /\ broker = [session |-> FALSE, reached |-> {}]
-------------------------------------------------------------------------------
\* The functions the threads share, on the client m.

MutantAddCommand(m, c) == [m EXCEPT !.commands = <<c>> \o @]

\* MQTTAsync_addCommand: connects and internal disconnects go to the head,
\* unless one is there already.
addCommand(m, c) ==
  IF c.kind \in {"connect", "internal"}
  THEN IF /\ m.commands # <<>>
          /\ \/ m.commands[1].kind = c.kind
             \/ IsDisconnect(m.commands[1]) /\ IsDisconnect(c)
       THEN m ELSE [m EXCEPT !.commands = <<c>> \o @]
  ELSE [m EXCEPT !.commands = Append(@, c)]

\* MQTTAsync_disconnect_internal.
disconnect_internal(m) == IF m.connected THEN addCommand(m, Disconnect("internal")) ELSE m

startConnectRetry(m) == IF m.shouldBeConnected THEN [m EXCEPT !.retrying = TRUE] ELSE m

\* MQTTAsync_closeOnly, with Socket_close.
closeOnly(m) ==
  [m EXCEPT !.connected = FALSE, !.state = "NOT_IN_PROGRESS", !.peer = "none",
            !.out = <<>>, !.in = <<>>, !.cut = NoCommand]

\* MQTTAsync_cleanSession and removeResponsesAndCommands.
cleanSession(m) == [m EXCEPT !.outbound = <<>>, !.msgID = 0, !.responses = <<>>, !.commands = <<>>]

closeSession(m) == IF AsyncClean THEN cleanSession(closeOnly(m)) ELSE closeOnly(m)

MutantDropped(m, n) == {}

\* The calls that are told of a failure when m is cleaned and becomes n.
Dropped(m, n) ==
  LET of(list) == {list[i].n : i \in {j \in DOMAIN list : IsCall(list[j])}}
  IN (of(m.commands) \cup of(m.responses)) \ (of(n.commands) \cup of(n.responses))

\* A callback; those of a process that has been restarted are gone.
Tell(ns, outcome) ==
  [n \in DOMAIN told |-> IF n \in ns THEN Append(told[n], IF crashed THEN "unheard" ELSE outcome)
                         ELSE told[n]]

\* nextOrClose: the next server, or the end of this attempt.
nextOrClose(m) ==
  IF m.uri + 1 < ServerURIcount THEN addCommand(closeOnly(m), ConnectTo(m.uri + 1))
  ELSE startConnectRetry(closeSession(m))

MutantCheckDisconnect(m, c) == closeSession(m)

\* MQTTAsync_checkDisconnect, when all is sent or the time is over.
checkDisconnect(m, c) ==
  IF c.kind = "internal" THEN startConnectRetry(closeSession(m)) ELSE closeSession(m)

\* Socket_putdatas: a write to a peer that is gone may seem to work; one to a
\* peer that has not answered yet waits.
Writes(m, list) == IF m.peer \in {"open", "syn"} THEN [m EXCEPT !.out = @ \o list] ELSE m

\* MQTTProtocol_connect and MQTTPacket_send_connect.
SendConnect(m) == Writes([m EXCEPT !.state = "WAIT_FOR_CONNACK"], <<ConnectTo(0)>>)
-------------------------------------------------------------------------------
\* The application.

\* The send thread does not hold mqttasync_mutex.
Unlocked == hand.at \in {"none", "wait"}

AppAlone == UNCHANGED <<hand, recv, lost, crashed, delayed, broker>>

\* MQTTAsync_assignMsgId looks at commands and responses only.
UsedIds(m) == {m.commands[i].id : i \in DOMAIN m.commands} \cup {m.responses[i].id : i \in DOMAIN m.responses}
NextId(m) == CHOOSE i \in (m.msgID + 1)..(m.msgID + 1 + Cardinality(UsedIds(m))) :
               i \notin UsedIds(m) /\ \A j \in (m.msgID + 1)..(i - 1) : j \in UsedIds(m)

Buffered(m) == Cardinality({i \in DOMAIN m.commands : m.commands[i].kind \in {"pub0", "pub1"}})

\* MQTTAsync_send and subscribeMany up to addCommand (sendWhileDisconnected).
CallBegins ==
  /\ calling = NoCommand /\ Len(admitted) < MaxCalls
  /\ \E k \in Kinds :
       /\ k # "pub0" => Unlocked       \* assignMsgId takes mqttasync_mutex
       /\ am.connected \/ (k # "sub" /\ am.shouldBeConnected)
       /\ k # "sub" => Buffered(am) < MaxBuffered
       /\ calling' = Command(k, Len(admitted) + 1, IF k = "pub0" THEN 0 ELSE NextId(am))
       /\ am' = IF k = "pub0" THEN am ELSE [am EXCEPT !.msgID = NextId(am)]
  /\ UNCHANGED <<admitted, turns, trouble, told>> /\ AppAlone

InFlight(m) == {m.outbound[i].id : i \in DOMAIN m.outbound}

Holding(list, n) == Cardinality({i \in DOMAIN list : IsCall(list[i]) /\ list[i].n = n})
Places(n) == Holding(am.commands, n) + Holding(am.responses, n)
             + (IF IsCall(hand.cmd) /\ hand.cmd.n = n THEN 1 ELSE 0)

\* pending_write points to a command that has been freed.
Dangling == am.pending_write # 0 /\ Places(am.pending_write) = 0

\* ... and malloc and addCommand, after which it returns success.  malloc may return
\* an address that was freed, so that pending_write points to the new command.
CallAdds ==
  /\ calling # NoCommand /\ calling' = NoCommand
  /\ \E reused \in {Dangling, FALSE} :
       /\ admitted' = Append(admitted, [kind |-> calling.kind, fresh |-> calling.id \notin InFlight(am),
                                        reused |-> reused])
       /\ am' = addCommand(IF reused THEN [am EXCEPT !.pending_write = calling.n] ELSE am, calling)
  /\ UNCHANGED <<turns, trouble, told>> /\ AppAlone

\* MQTTAsync_connect, disconnect and reconnect, with automatic reconnect.
Turn ==
  /\ calling = NoCommand /\ turns < MaxTurns /\ turns' = turns + 1
  /\ \/ am' = addCommand([am EXCEPT !.shouldBeConnected = TRUE], ConnectTo(0))
     \/ \E kind \in {"close", "drain"} :
          LET m == [am EXCEPT !.shouldBeConnected = FALSE]
          IN am' = IF am.connected THEN addCommand(m, Disconnect(kind)) ELSE m
     \/ am.shouldBeConnected /\ am' = [am EXCEPT !.retrying = TRUE]
  /\ UNCHANGED <<calling, admitted, trouble, told>> /\ AppAlone
-------------------------------------------------------------------------------
\* The send thread.

SendAlone == UNCHANGED <<recv, calling, admitted, turns, lost, crashed, delayed, broker>>

\* processCommand: only the first command of a client is looked at.
Eligible(c) ==
  \/ c.kind = "connect" \/ IsDisconnect(c)
  \/ am.connected /\ am.state = "NOT_IN_PROGRESS" /\ am.cut = NoCommand

\* It is detached, and its record removed from the store.
Take ==
  /\ hand.at = "none" /\ am.commands # <<>> /\ Eligible(am.commands[1])
  /\ hand' = [cmd |-> am.commands[1], at |-> "taken"]
  /\ am' = [am EXCEPT !.commands = Tail(@)]
  /\ UNCHANGED <<told, trouble>> /\ SendAlone

Done == hand' = [cmd |-> NoCommand, at |-> "none"]
Fails == trouble < MaxTrouble /\ trouble' = trouble + 1

\* A connect that cannot begin: not an internal disconnect, so that connection
\* lost is not called; the next server, or onFailure and a retry.
ConnectFailed(m, c) ==
  LET s == [m EXCEPT !.shouldBeConnected = TRUE]
  IN IF c.n + 1 < ServerURIcount THEN addCommand(s, ConnectTo(c.n + 1))
     ELSE startConnectRetry([s EXCEPT !.uri = c.n])

DoConnect ==
  LET c == hand.cmd
      m == [am EXCEPT !.uri = c.n]
  IN /\ hand.at = "taken" /\ c.kind = "connect" /\ Done
     /\ \/ (am.connected \/ am.state # "NOT_IN_PROGRESS") /\ am' = m /\ UNCHANGED trouble
        \/ /\ ~am.connected /\ am.state = "NOT_IN_PROGRESS"
           /\ \/ am' = [m EXCEPT !.peer = "syn", !.state = "TCP_IN_PROGRESS"] /\ UNCHANGED trouble
              \/ am' = SendConnect([m EXCEPT !.peer = "open"]) /\ UNCHANGED trouble
              \/ am' = ConnectFailed(am, c) /\ Fails
     /\ UNCHANGED told /\ SendAlone

\* A connect in progress has failed in the meantime if state is set here.
DoDisconnect ==
  LET c == hand.cmd
      m == IF am.state # "NOT_IN_PROGRESS" THEN [am EXCEPT !.state = "DISCONNECTING"] ELSE am
      n == [checkDisconnect(m, c) EXCEPT !.disconnect = c]
  IN /\ hand.at = "taken" /\ IsDisconnect(c) /\ Done
     /\ \/ ~am.connected /\ am.state = "NOT_IN_PROGRESS"
           /\ am' = [am EXCEPT !.disconnect = c] /\ UNCHANGED told
        \/ (am.connected \/ am.state # "NOT_IN_PROGRESS")
           /\ am' = n /\ told' = Tell(Dropped(m, n), "failure")
        \/ /\ am.connected \/ am.state # "NOT_IN_PROGRESS"
           /\ c.kind = "drain" /\ am.outbound # <<>>
           /\ am' = [m EXCEPT !.disconnect = c] /\ UNCHANGED told
     /\ UNCHANGED trouble /\ SendAlone

\* MQTTProtocol_startPublish stores a message of QoS 1 whatever the write does.
Keeps(m, c) == IF c.kind = "pub1" THEN [m EXCEPT !.outbound = Append(@, c)] ELSE m

\* A publish or subscribe: its write completes, is cut short, or fails.
DoCall ==
  LET c == hand.cmd
      m == Keeps(am, c)
      waiting == [m EXCEPT !.responses = Append(@, c)]
  IN /\ hand.at = "taken" /\ IsCall(c)
     /\ \/ /\ c.kind = "pub0" /\ am' = Writes(m, <<c>>) /\ told' = Tell({c.n}, "ok")
           /\ Done /\ UNCHANGED trouble
        \/ c.kind # "pub0" /\ am' = Writes(waiting, <<c>>) /\ Done /\ UNCHANGED <<told, trouble>>
        \/ /\ c.kind = "pub0" /\ Fails /\ UNCHANGED told
           /\ am' = [m EXCEPT !.cut = c] /\ hand' = [hand EXCEPT !.at = "cut"]
        \/ /\ c.kind = "pub1" /\ Fails /\ UNCHANGED told
           /\ am' = [waiting EXCEPT !.cut = c] /\ Done
        \/ /\ am.peer \in {"gone", "refused"} /\ Done /\ UNCHANGED trouble
           /\ am' = disconnect_internal(IF c.kind = "pub0" THEN [m EXCEPT !.pending_write = c.n] ELSE m)
           /\ told' = Tell({c.n}, "failure")
     /\ SendAlone

\* After a QoS 0 write that was cut: pending_write and the response, set while
\* select may already have completed it.
DoRegister ==
  /\ hand.at = "cut" /\ Done
  /\ am' = [am EXCEPT !.pending_write = hand.cmd.n, !.responses = Append(@, hand.cmd)]
  /\ UNCHANGED <<told, trouble>> /\ SendAlone

\* Nothing to process: MQTTAsync_sendThread waits for send_cond or a second ...
Wait ==
  /\ hand.at = "none" /\ ~(am.commands # <<>> /\ Eligible(am.commands[1]))
  /\ hand' = [hand EXCEPT !.at = "wait"]
  /\ UNCHANGED <<am, told, trouble>> /\ SendAlone

\* ... and calls MQTTAsync_checkTimeouts: a disconnect that waits for messages,
\* a connect that takes too long, and the next attempt of a reconnect.
CheckTimeouts ==
  /\ hand.at = "wait" /\ Done
  /\ \E m \in IF am.state # "DISCONNECTING" THEN {am}
               ELSE {checkDisconnect(am, am.disconnect)}
                    \cup (IF am.disconnect.kind = "drain" /\ am.outbound # <<>> THEN {am} ELSE {}) :
       \/ m.state # "NOT_IN_PROGRESS" /\ am' = nextOrClose(m) /\ Fails
       \/ am' = m /\ UNCHANGED trouble
       \/ m.retrying /\ am' = addCommand(m, ConnectTo(m.uri)) /\ UNCHANGED trouble
  /\ told' = Tell(Dropped(am, am'), "failure") /\ SendAlone
-------------------------------------------------------------------------------
\* The receive thread.

RecvAlone == UNCHANGED <<hand, calling, admitted, turns, lost, crashed>>

\* Socket_getReadySocket, without mqttasync_mutex: a socket that is ready.
RecvSelect ==
  /\ recv.pc = "select" /\ am.cut = NoCommand
  /\ am.peer \in {"up", "refused", "gone"} \/ am.in # <<>>
  /\ recv' = [recv EXCEPT !.pc = "cycle", !.sock = 1]
  /\ UNCHANGED <<am, trouble, told, delayed, broker>> /\ RecvAlone

\* The list without one of its places, if there is one.
WithoutOne(list, places) == IF places = {} THEN list ELSE RemoveAt(list, CHOOSE i \in places : TRUE)

\* The response that pending_write points to.
Pending(m) == {i \in DOMAIN m.responses : m.pending_write # 0 /\ m.responses[i].n = m.pending_write}

\* MQTTAsync_writeComplete, in the same call: the response that pending_write points
\* to is removed, if it is there, and told if it is a publication.  One of QoS 1, at an
\* address that was used before, stays if the write was successful.
WriteCompletes(ok) ==
  LET stays(c) == ok /\ c.kind = "pub1"
      ends == {i \in Pending(am) : ~stays(am.responses[i])}
      m == [am EXCEPT !.cut = NoCommand, !.pending_write = 0, !.responses = WithoutOne(@, ends)]
  IN /\ recv.pc = "select" /\ am.cut # NoCommand /\ (ok \/ am.peer = "gone")
     /\ am' = IF ok THEN Writes(m, <<am.cut>>) ELSE m
     /\ told' = Tell({am.responses[i].n : i \in {j \in ends : am.responses[j].kind # "sub"}},
                     IF ok THEN "ok" ELSE "failure")
     /\ UNCHANGED <<recv, trouble, delayed, broker>> /\ RecvAlone

Result(pack, rc) == recv' = [recv EXCEPT !.pc = "dispatch", !.pack = pack, !.rc = rc]

\* MQTTAsync_connecting.
Connecting ==
  \/ am.peer = "refused" /\ am' = nextOrClose(am) /\ Result(NoAnswer, 1)
  \/ am.peer \in {"up", "open"} /\ am' = SendConnect([am EXCEPT !.peer = "open"]) /\ Result(NoAnswer, 0)
  \/ am.peer = "gone" /\ am' = SendConnect(am) /\ Result(NoAnswer, 0)
  \/ am.peer = "gone" /\ am' = nextOrClose(am) /\ \E rc \in {1, -1} : Result(NoAnswer, rc)
  \/ am.peer = "syn" /\ am' = SendConnect(am) /\ Result(NoAnswer, 0)   \* select saw another socket

\* The first of a list with this id, as a set of places.
First(list, id) == {i \in DOMAIN list : list[i].id = id /\ \A j \in 1..(i - 1) : list[j].id # id}
WithoutFirst(list, id) == WithoutOne(list, First(list, id))
Answered(id) == {am.responses[i].n : i \in First(am.responses, id)}

\* handlePubacks, and the search of m->responses by the id.
Acked(m, id) ==
  [m EXCEPT !.outbound = WithoutFirst(@, id), !.responses = WithoutFirst(@, id)]

\* MQTTPacket_Factory, and the packets MQTTAsync_cycle handles itself.
Reading ==
  \/ /\ am.in # <<>> /\ am.in[1].type = "PUBACK"
     /\ am' = [Acked(am, am.in[1].id) EXCEPT !.in = Tail(@)]
     /\ told' = Tell(Answered(am.in[1].id), "ok") /\ Result(NoAnswer, 0)
  \/ /\ am.in # <<>> /\ am.in[1].type # "PUBACK"
     /\ am' = [am EXCEPT !.in = Tail(@)] /\ Result(am.in[1], 0) /\ UNCHANGED told
  \/ /\ am.in = <<>> /\ am.peer \in {"gone", "refused"}
     /\ am' = IF am.state = "WAIT_FOR_CONNACK" THEN nextOrClose(am) ELSE am
     /\ told' = Tell(Dropped(am, am'), "failure") /\ Result(NoAnswer, -1)
  \/ am.in = <<>> /\ am.peer \notin {"gone", "refused"} /\ UNCHANGED <<am, told>> /\ Result(NoAnswer, 0)

\* MQTTAsync_cycle after the select.  The send thread is not in the middle of
\* a command.
RecvCycle ==
  /\ recv.pc = "cycle" /\ Unlocked
  /\ \/ am.peer = "none" /\ Result(NoAnswer, -1) /\ UNCHANGED <<am, told>>
     \/ am.state = "TCP_IN_PROGRESS" /\ Connecting /\ told' = Tell(Dropped(am, am'), "failure")
     \/ am.peer # "none" /\ am.state # "TCP_IN_PROGRESS" /\ Reading
  /\ UNCHANGED <<trouble, delayed, broker>> /\ RecvAlone

\* MQTTProtocol_retries: the messages in flight again, up to the k-th, whose write is
\* cut; the others are held back (retryInterval is 0).  All of them if k is 0.
Resends(m, k) ==
  IF k = 0 THEN Writes(m, m.outbound)
  ELSE [Writes(m, SubSeq(m.outbound, 1, k - 1)) EXCEPT !.cut = m.outbound[k],
          !.heldBack = {m.outbound[i].n : i \in (k + 1)..Len(m.outbound)}]

\* MQTTAsync_completeConnection: a session the broker does not have (0 in its
\* CONNACK) begins anew, and what is outstanding is sent again; a write that fails
\* here is also noticed by the next read.
completeConnection(m, p) ==
  LET c == [m EXCEPT !.retrying = FALSE, !.connected = TRUE, !.state = "NOT_IN_PROGRESS",
                     !.heldBack = {}]
      s == IF AsyncClean \/ p.id = 0 THEN cleanSession(c) ELSE c
  IN {Resends(s, k) : k \in 0..Len(s.outbound)}

SocketFailed(m) ==
  IF m.connected THEN disconnect_internal(m)
  ELSE IF m.state # "NOT_IN_PROGRESS" THEN nextOrClose(m) ELSE closeOnly(m)

\* The rest of the loop of MQTTAsync_receiveThread.  Between the two the socket
\* may have been closed, and its number given to another.
RecvDispatch ==
  LET p == recv.pack
  IN /\ recv.pc = "dispatch" /\ Unlocked
     /\ recv' = [pc |-> "select", sock |-> 0, pack |-> NoAnswer, rc |-> 0]
     /\ am' \in CASE am.peer = "none" -> {am}
                  [] am.peer # "none" /\ recv.rc = -1 -> {SocketFailed(am)}
                  [] am.peer # "none" /\ p.type = "CONNACK" ->
                       IF am.state = "WAIT_FOR_CONNACK" /\ p.ok THEN completeConnection(am, p)
                       ELSE {nextOrClose(am)}
                  [] am.peer # "none" /\ p.type = "SUBACK" ->
                       {[am EXCEPT !.responses = WithoutFirst(@, p.id)]}
                  [] OTHER -> {am}
     /\ delayed' = delayed \cup am'.heldBack
     /\ told' = IF am.peer # "none" /\ p.type = "SUBACK" THEN Tell(Answered(p.id), "ok")
                ELSE Tell(Dropped(am, am'), "failure")
     /\ UNCHANGED <<trouble, broker>> /\ RecvAlone
-------------------------------------------------------------------------------
\* The network, the broker, and the process.

Outside == UNCHANGED <<hand, recv, calling, admitted, turns, told, lost, crashed, delayed>>

TcpConnects ==
  /\ am.peer = "syn" /\ Outside /\ UNCHANGED broker
  /\ \/ am' = [am EXCEPT !.peer = IF am.state = "TCP_IN_PROGRESS" THEN "up" ELSE "open"] /\ UNCHANGED trouble
     \/ am' = [am EXCEPT !.peer = "refused"] /\ Fails

Reply(type, id, ok) ==
  [am EXCEPT !.out = Tail(@), !.in = Append(@, [type |-> type, id |-> id, ok |-> ok])]

BrokerAnswers ==
  /\ am.peer = "open" /\ am.out # <<>> /\ Outside
  /\ LET p == Head(am.out)
         session == IF broker.session /\ ~AsyncClean THEN 1 ELSE 0
     IN \/ /\ p.kind = "connect" /\ am' = Reply("CONNACK", session, TRUE)
           /\ broker' = [broker EXCEPT !.session = ~AsyncClean] /\ UNCHANGED trouble
        \/ p.kind = "connect" /\ am' = Reply("CONNACK", 0, FALSE) /\ Fails /\ UNCHANGED broker
        \/ p.kind = "sub" /\ am' = Reply("SUBACK", p.id, TRUE) /\ UNCHANGED <<broker, trouble>>
        \/ /\ p.kind = "pub1" /\ am' = Reply("PUBACK", p.id, TRUE)
           /\ broker' = [broker EXCEPT !.reached = @ \cup {p.n}] /\ UNCHANGED trouble
        \/ /\ p.kind = "pub0" /\ am' = [am EXCEPT !.out = Tail(@)]
           /\ broker' = [broker EXCEPT !.reached = @ \cup {p.n}] /\ UNCHANGED trouble

Breaks ==
  /\ am.peer \in {"up", "open"} /\ Fails /\ Outside /\ UNCHANGED broker
  /\ am' = [am EXCEPT !.peer = "gone", !.out = <<>>]

\* The commands that have a record in the store: publications and subscriptions.
Persisted == {c \in ToSet(am.commands) : IsCall(c)}

\* The messages in flight that may have one.  The key is the id: those that share
\* an id share a record, and the first one's acknowledgement removes it.  What
\* was given the id of one in flight can therefore be without.
Recorded ==
  {S \in SUBSET ToSet(am.outbound) :
     /\ \A x, y \in S : x.id = y.id => x = y
     /\ \A y \in ToSet(am.outbound) : admitted[y.n].fresh => \E x \in S : x.id = y.id}

\* The process is ended and started again, between any two steps.  The commands
\* come back in any order (insertInOrder compares what is not their seqno), the
\* messages in the order of their ids; nobody waits for them any more.
Restarts ==
  /\ ~crashed /\ crashed' = TRUE /\ Fails
  /\ \E order \in SetToSeqs(Persisted), S \in Recorded : \E sent \in SetToSeqs(S) :
       /\ \A i, j \in DOMAIN sent : i < j => sent[i].id < sent[j].id
       /\ am' = [AsyncFresh EXCEPT !.commands = order, !.outbound = sent]
  /\ lost' = IF IsCall(hand.cmd) THEN hand.cmd.n ELSE 0
  /\ Done /\ recv' = [pc |-> "select", sock |-> 0, pack |-> NoAnswer, rc |-> 0]
  /\ calling' = NoCommand /\ UNCHANGED <<admitted, turns, told, delayed, broker>>

SendStep == Take \/ DoConnect \/ DoDisconnect \/ DoCall \/ DoRegister \/ Wait \/ CheckTimeouts
RecvStep == RecvSelect \/ RecvCycle \/ RecvDispatch \/ \E ok \in BOOLEAN : WriteCompletes(ok)
NetStep == TcpConnects \/ BrokerAnswers
AsyncNext ==
  \/ CallBegins \/ CallAdds \/ Turn \/ SendStep
  \/ RecvStep \/ NetStep \/ Breaks \/ Restarts

\* Both threads run, what checkTimeouts waits for comes, TCP and the broker answer.
AsyncFairness ==
  /\ WF_asyncVars(SendStep) /\ SF_asyncVars(CheckTimeouts /\ am' # am)
  /\ SF_asyncVars(RecvStep) /\ WF_asyncVars(NetStep)
AsyncSpec == AsyncInit /\ [][AsyncNext]_asyncVars /\ AsyncFairness
-------------------------------------------------------------------------------
\* Properties.

\* Every call that was accepted is told one outcome, once; until then exactly
\* one of the queue, the send thread and the responses has its callback.  Only a
\* subscription at the address of a command that was freed may be forgotten
\* (MQTTAsync_writeComplete, lines 1376-1381).  (A restart forgets all callbacks.)
AsyncToldOnce ==
  ~crashed => \A n \in DOMAIN admitted :
    \/ Len(told[n]) + Places(n) = 1
    \/ Len(told[n]) + Places(n) = 0 /\ admitted[n].kind = "sub" /\ admitted[n].reused

\* The same for all of them: onSuccess is "to be called if the API call successfully
\* completes", onFailure "if the API call fails" (MQTTAsync.h, lines 592 and 598).
EachCallTold == ~crashed => \A n \in DOMAIN admitted : Len(told[n]) + Places(n) = 1

Publishes == {n \in DOMAIN admitted : admitted[n].kind = "pub1"}
IsComplete(n) == Holding(am.commands, n) + Holding(am.outbound, n) = 0 /\ ~(IsCall(hand.cmd) /\ hand.cmd.n = n)

\* A publication of QoS 1 that MQTTAsync_isComplete no longer finds has reached
\* the broker or was reported as failed, and one reported as done has reached
\* it, unless it was given the id of one in flight (assignMsgId).  A crash loses
\* only the command the send thread had taken out of the store, those that
\* share an id and so a record, and what a broker without the session makes the
\* client give up; after it, the acknowledgement of one that shares the id of one held
\* back is taken for the other's.
AsyncKept ==
  \A n \in Publishes :
    /\ IsComplete(n) => \/ n \in broker.reached \/ ToSet(told[n]) \cap {"failure", "unheard"} # {}
                        \/ lost = n \/ (crashed /\ (~admitted[n].fresh \/ n \in delayed))
    /\ admitted[n].fresh /\ "ok" \in ToSet(told[n]) => n \in broker.reached

\* Publications of QoS 1 reach the broker in the order in which they were
\* accepted, over all reconnections, but for those reported as failed and those
\* a reconnection did not send again because a write was cut.
AsyncInOrder ==
  ~crashed => \A n \in Publishes \cap broker.reached : \A k \in Publishes :
                k < n => k \in broker.reached \/ told[k] = <<"failure">> \/ k \in delayed

\* Both: what MQTTAsync accepted is neither lost nor, while nothing is held back,
\* overtaken.
AsyncDelivers == AsyncKept /\ AsyncInOrder

\* With automatic reconnect every publication of QoS 1 is told its outcome in
\* the end, unless the application has disconnected, or the latest connection did not
\* send it again: then it waits for the next one.
AsyncCompletes ==
  []<>(\A n \in Publishes : told[n] # <<>> \/ ~am.shouldBeConnected \/ crashed \/ n \in am.heldBack)
================================================================================
