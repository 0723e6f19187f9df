------------------------------ MODULE MqttSession ------------------------------
(***************************************************************************)
(* One MQTT session of the Paho client the gateway is linked with: the     *)
(* exchanges of MQTTProtocolClient.c, their records in MQTTPersistence.c,  *)
(* and the parts of MQTTClient.c and MQTTPacket.c that start, resume and   *)
(* end them.  The broker and the TCP connection are its environment.       *)
(*                                                                         *)
(* A call or handler holds mqttclient_mutex and changes the memory at      *)
(* once; its calls to the store and the socket are put on effects and      *)
(* happen one by one, so that a crash or a broken connection may fall      *)
(* between any two of them, a write may be cut, and a record may fail to   *)
(* reach the disk.                                                         *)
(***************************************************************************)
EXTENDS Integers, Sequences, FiniteSets

CONSTANTS
  Version,       \* MQTTVersion: 4 (3.1.1) or 5
  cleansession,  \* the connect option, of versions below 5
  persistent,    \* is there a store?  (MQTTCLIENT_PERSISTENCE_DEFAULT)
  maxInflightMessages,
  MAX_MSG_ID,
  MaxMessages,   \* bound: messages the application and the broker publish
  Qualities,     \* the qualities of service in use
  MaxFaults,     \* bound: connections broken and processes ended
  MaxPings,      \* bound: pings of a connection that works
  MaxMishaps     \* bound: packets and records of which only a part is written, or nothing

ASSUME SessionAssumption ==
  /\ Version \in {4, 5} /\ cleansession \in BOOLEAN /\ persistent \in BOOLEAN
  /\ maxInflightMessages \in Nat \ {0} /\ MAX_MSG_ID \in Nat
  /\ maxInflightMessages + 1 < MAX_MSG_ID
  /\ Qualities \subseteq 0..2
  /\ {MaxMessages, MaxFaults, MaxPings, MaxMishaps} \subseteq Nat

VARIABLES
  alive,          \* does the client process run?
  connected, ping_outstanding, msgID, qentry_seqno,
  outboundMsgs,   \* [msgid, qos, next, msg], in order of publication
  inboundMsgs,    \* [msgid, msg]
  messageQueue,   \* [seqno, msg]: what messageArrived has not taken yet
  effects,        \* the rest of the running call
  pstore,         \* the records [key, ver, id, qos, msg] put and not removed
  damaged,        \* [key, ver, id, how]: those the disk has lost or has a part of
  spoilt,         \* has a client been restored from such a disk?
  link, toBroker, toClient,  \* the connection and what is under way in it
  pendingWrite,   \* is the last packet in toBroker there in part, the rest waiting?
  resending,      \* is the running call MQTTProtocol_retries?
  heldBack,       \* messages it did not send again on this connection
  brokerHeld,     \* broker: ids of QoS 2 messages received and not released
  brokerOut,      \* broker: its own exchanges [msgid, qos, next, msg]
  published,      \* how many messages the application has published
  accepted,       \* those of QoS 1 and 2 for which it was told success
  delivered,      \* how often the broker passed each of them on
  qosOf,          \* their quality of service
  inSent,         \* how many messages the broker has published
  completed,      \* those of QoS 2 whose exchange the broker completed
  queued,         \* how often each was put on messageQueue
  arrived,        \* how often each was handed to messageArrived
  breaks, crashes, pings, mishaps

clientMemory == <<connected, ping_outstanding, msgID, qentry_seqno, outboundMsgs,
                  inboundMsgs, messageQueue>>
network == <<link, toBroker, toClient>>
writing == <<pendingWrite, resending, heldBack>>
disk == <<damaged, spoilt>>
brokerVars == <<brokerHeld, brokerOut>>
outHistory == <<published, accepted, delivered, qosOf>>
inHistory == <<inSent, completed, queued, arrived>>
faults == <<breaks, crashes, pings, mishaps>>
sessionVars == <<alive, clientMemory, effects, pstore, network, brokerVars, outHistory,
                 inHistory, faults, writing, disk>>

\* In place of a quality of service: a PUBREC whose reason code is an error.
Refused == 128

Packet(type, id, qos, msg) == [type |-> type, id |-> id, qos |-> qos, msg |-> msg]

\* The client has run before: msgID is close to its limit.
SessionInit ==
  /\ alive = TRUE /\ connected = FALSE /\ ping_outstanding = FALSE
  /\ msgID = MAX_MSG_ID - 1 /\ qentry_seqno = 0
  /\ outboundMsgs = <<>> /\ inboundMsgs = <<>> /\ messageQueue = <<>>
  /\ effects = <<>> /\ pstore = {}
  /\ link = FALSE /\ toBroker = <<>> /\ toClient = <<>>
  /\ brokerHeld = {} /\ brokerOut = <<>>
  /\ published = 0 /\ accepted = {}
  /\ delivered = [m \in 1..MaxMessages |-> 0] /\ qosOf = [m \in 1..MaxMessages |-> 0]
  /\ inSent = 0 /\ completed = {}
  /\ queued = [m \in 1..MaxMessages |-> 0] /\ arrived = [m \in 1..MaxMessages |-> 0]
  /\ breaks = 0 /\ crashes = 0 /\ pings = 0 /\ mishaps = 0
  /\ pendingWrite = FALSE /\ resending = FALSE /\ heldBack = {}
  /\ damaged = {} /\ spoilt = FALSE
-------------------------------------------------------------------------------
\* Effects on the store and the socket.

Put(key, ver, id, qos, msg) ==
  [op |-> "put", rec |-> [key |-> key, ver |-> ver, id |-> id, qos |-> qos, msg |-> msg]]
Unput(key, ver, id) ==
  [op |-> "remove", rec |-> [key |-> key, ver |-> ver, id |-> id, qos |-> 0, msg |-> 0]]
Send(p) == [op |-> "send", rec |-> p]

SameKey(e, f) == e.key = f.key /\ e.ver = f.ver /\ e.id = f.id

\* MQTTPersistence_put and premove, if there is a store.
Stored(op, rec) ==
  IF ~persistent THEN pstore
  ELSE {e \in pstore : ~SameKey(e, rec)} \cup (IF op = "put" THEN {rec} ELSE {})

\* pstput empties the file before it writes it.  A write that is short removes it, as
\* an fopen that fails leaves none; the end of the process, or of fclose, leaves a part.
Mishap == mishaps < MaxMishaps /\ mishaps' = mishaps + 1
Repaired(rec) == {d \in damaged : ~SameKey(d, rec)}
Damaged(rec, how) ==
  /\ persistent /\ Mishap
  /\ damaged' = Repaired(rec) \cup {[key |-> rec.key, ver |-> rec.ver, id |-> rec.id, how |-> how]}

\* MQTTProtocol_retries goes on only while nothing waits to be written.
HeldUp == resending /\ pendingWrite
Calling == alive /\ effects # <<>> /\ ~HeldUp

\* A packet that must be written at once: a part of it is an error to the caller.
AllOrNothing(p) == p.type = "PINGREQ" \/ (p.type = "PUBREL" /\ resending)

\* One call.  Nobody looks at the result of a put: MQTTPacket_send and sends overwrite
\* it with that of the write, MQTTPacket_Factory's with that of the handler.  What is
\* written to a broken connection is lost.
Effect ==
  /\ Calling /\ effects' = Tail(effects) /\ resending' = (resending /\ effects' # <<>>)
  /\ LET e == Head(effects)
     IN \/ /\ e.op \in {"put", "remove"} /\ pstore' = Stored(e.op, e.rec)
           /\ \/ damaged' = Repaired(e.rec) /\ UNCHANGED mishaps
              \/ e.op = "put" /\ \E how \in {"gone", "cut"} : Damaged(e.rec, how)
           /\ UNCHANGED <<network, arrived, pendingWrite>>
        \/ /\ e.op = "send" /\ toBroker' = (IF link THEN Append(toBroker, e.rec) ELSE toBroker)
           /\ link => ~pendingWrite
           /\ \/ UNCHANGED <<pendingWrite, mishaps>>
              \/ link /\ ~AllOrNothing(e.rec) /\ pendingWrite' = TRUE /\ Mishap
           /\ UNCHANGED <<pstore, damaged, link, toClient, arrived>>
        \/ /\ e.op = "arrived"
           /\ arrived' = [m \in DOMAIN arrived |-> IF m = e.rec THEN arrived[m] + 1 ELSE arrived[m]]
           /\ UNCHANGED <<pstore, damaged, network, pendingWrite, mishaps>>
  /\ UNCHANGED <<alive, clientMemory, brokerVars, outHistory, inSent, completed, queued, breaks,
                 crashes, pings, heldBack, spoilt>>

\* The connection is given up: the caller closes it (SocketError).
GivenUp == link' = FALSE /\ toBroker' = <<>> /\ toClient' = <<>>

\* A write that fails: Socket_putdatas refuses while another one is pending, and a
\* packet that must be written at once is cut.  What the call still does is lost on the
\* connection, and MQTTProtocol_retries stops.
WriteFails ==
  /\ Calling /\ Head(effects).op = "send" /\ link
  /\ \/ pendingWrite /\ UNCHANGED mishaps
     \/ ~pendingWrite /\ AllOrNothing(Head(effects).rec) /\ Mishap
  /\ pendingWrite' = TRUE /\ GivenUp
  /\ UNCHANGED <<alive, clientMemory, effects, pstore, brokerVars, outHistory, inHistory, breaks,
                 crashes, pings, resending, heldBack, disk>>

\* MQTTProtocol_retries (lines 663-665) stops at a write that is pending.  The others
\* are not sent again on this connection: retryInterval is 0 unless the application
\* sets it, and then later calls do nothing (line 660).
RetriesStop ==
  /\ alive /\ HeldUp /\ effects' = <<>> /\ resending' = FALSE
  /\ heldBack' = {outboundMsgs[i].msg : i \in {j \in DOMAIN outboundMsgs : \E k \in DOMAIN effects :
                    effects[k].op = "send" /\ effects[k].rec.id = outboundMsgs[j].msgid}}
  /\ UNCHANGED <<alive, clientMemory, pstore, network, brokerVars, outHistory, inHistory, faults,
                 pendingWrite, disk>>

\* Socket_continueWrites: the rest of the packet is written.
Flush ==
  /\ alive /\ link /\ pendingWrite /\ pendingWrite' = FALSE
  /\ UNCHANGED <<alive, clientMemory, effects, pstore, network, brokerVars, outHistory, inHistory,
                 faults, resending, heldBack, disk>>

\* The store's tag for a record that is sent.  An acknowledgement is written
\* with the tag of version 3.1.1 whatever the version (MQTTPacket_send_ack).
AckVersion == 4

\* MQTTPacket_send_publish and MQTTPacket_sends: the record before the packet.
SendPublish(id, qos, msg) ==
  IF qos > 0 THEN <<Put("s", Version, id, qos, msg), Send(Packet("PUBLISH", id, qos, msg))>>
  ELSE <<Send(Packet("PUBLISH", id, qos, msg))>>

\* MQTTPacket_send_pubrel, MQTTPacket_send_ack and MQTTPacket_send.
SendPubrel(id) == <<Put("sc", AckVersion, id, 1, 0), Send(Packet("PUBREL", id, 1, 0))>>

SendAck(type, id) == Send(Packet(type, id, 0, 0))

MutantRemoveSent(id) == <<Unput("s", 5, id), Unput("sc", 5, id), Unput("s", 4, id)>>

\* MQTTPersistence_remove, for a message sent and for one received.
RemoveSent(id) ==
  <<Unput("s", 5, id), Unput("sc", 5, id), Unput("s", 4, id), Unput("sc", 4, id)>>
RemoveReceived(ver, id) == Unput("r", ver, id)

\* Protocol_processPublication: append to messageQueue, and persist the entry.
Queued(msg) ==
  /\ messageQueue' = Append(messageQueue, [seqno |-> qentry_seqno + 1, msg |-> msg])
  /\ qentry_seqno' = qentry_seqno + 1
  /\ queued' = [queued EXCEPT ![msg] = @ + 1]
PersistQueueEntry(msg) == Put("q", Version, qentry_seqno + 1, 0, msg)
NothingQueued == UNCHANGED <<messageQueue, qentry_seqno, queued>>
-------------------------------------------------------------------------------
\* Publishing.

IdsOf(list) == {list[i].msgid : i \in DOMAIN list}

\* The k-th id after start, from MAX_MSG_ID on to 1.
IdAfter(start, k) == ((start + k - 1) % MAX_MSG_ID) + 1

\* MQTTProtocol_assignMsgId: the next id that no outbound message has; 0 when
\* the search comes back to where it began.
assignMsgId ==
  LET free == {k \in 1..MAX_MSG_ID : IdAfter(msgID, k) \notin IdsOf(outboundMsgs)}
      k == CHOOSE k \in free : \A j \in free : k <= j
  IN IF free = {} \/ (IdAfter(msgID, k) = msgID /\ k > 1) THEN 0 ELSE IdAfter(msgID, k)

Running == alive /\ effects = <<>>

\* MQTTClient_publish5: it waits while the queue is full or a write is pending, and
\* returns success for QoS 1 and 2 also when the socket has failed (lines 2157-2184).
Publish ==
  /\ Running /\ connected /\ published + inSent < MaxMessages
  /\ Len(outboundMsgs) < maxInflightMessages /\ ~pendingWrite
  /\ published' = published + 1
  /\ \E q \in Qualities :
       LET id == IF q > 0 THEN assignMsgId ELSE 0
           m == [msgid |-> id, qos |-> q, next |-> IF q = 2 THEN "PUBREC" ELSE "PUBACK",
                 msg |-> published']
       IN /\ q > 0 => id # 0
          /\ effects' = SendPublish(id, q, published')
          /\ msgID' = IF q > 0 THEN id ELSE msgID
          /\ outboundMsgs' = IF q > 0 THEN Append(outboundMsgs, m) ELSE outboundMsgs
          /\ accepted' = IF q > 0 THEN accepted \cup {published'} ELSE accepted
          /\ qosOf' = [qosOf EXCEPT ![published'] = q]
  /\ UNCHANGED <<alive, connected, ping_outstanding, qentry_seqno, inboundMsgs, messageQueue,
                 pstore, network, brokerVars, delivered, inHistory, faults, writing, disk>>
-------------------------------------------------------------------------------
\* Packets from the broker: MQTTClient_cycle gives each to its handler.

Receive(type) ==
  /\ Running /\ connected /\ toClient # <<>> /\ Head(toClient).type = type
  /\ toClient' = Tail(toClient)
  /\ UNCHANGED <<alive, connected, msgID, pstore, link, toBroker, brokerVars,
                 outHistory, inSent, completed, arrived, faults, writing, disk>>

\* A publication with an id that waits for its PUBREL takes the other's place.
Inbound(id, msg) ==
  IF id \in IdsOf(inboundMsgs)
  THEN [i \in DOMAIN inboundMsgs |-> IF inboundMsgs[i].msgid = id
                                     THEN [msgid |-> id, msg |-> msg] ELSE inboundMsgs[i]]
  ELSE Append(inboundMsgs, [msgid |-> id, msg |-> msg])

\* MQTTProtocol_handlePublishes; MQTTPacket_Factory has persisted a QoS 2 one.
handlePublishes ==
  /\ Receive("PUBLISH") /\ (pendingWrite => Head(toClient).qos = 0)
  /\ LET p == Head(toClient)
         now == p.qos # 2 \/ (Version = 5 /\ p.id \notin IdsOf(inboundMsgs))
         kept == CASE p.qos = 0 -> <<>>
                   [] p.qos = 1 -> <<SendAck("PUBACK", p.id)>>
                   [] p.qos = 2 -> <<Put("r", Version, p.id, 2, p.msg), SendAck("PUBREC", p.id)>>
     IN /\ inboundMsgs' = IF p.qos = 2 THEN Inbound(p.id, p.msg) ELSE inboundMsgs
        /\ \/ now /\ Queued(p.msg) /\ effects' = Append(kept, PersistQueueEntry(p.msg))
           \/ ~now /\ NothingQueued /\ effects' = kept
  /\ UNCHANGED <<ping_outstanding, outboundMsgs>>

\* ListFindItem and ListRemove: the entry with this id leaves the list.
Without(list, id) ==
  IF id \notin IdsOf(list) THEN list
  ELSE LET at == CHOOSE i \in DOMAIN list : list[i].msgid = id
       IN [i \in 1..(Len(list) - 1) |-> IF i < at THEN list[i] ELSE list[i + 1]]

\* handlePubacks, handlePubcomps: the message is done if it is one that waits
\* for this.
Finish(id, qos, next) ==
  IF \E i \in DOMAIN outboundMsgs : /\ outboundMsgs[i].msgid = id /\ outboundMsgs[i].qos = qos
                                    /\ outboundMsgs[i].next = next
  THEN outboundMsgs' = Without(outboundMsgs, id) /\ effects' = RemoveSent(id)
  ELSE UNCHANGED <<outboundMsgs, effects>>

handlePubacks ==
  /\ Receive("PUBACK") /\ Finish(Head(toClient).id, 1, "PUBACK")
  /\ NothingQueued /\ UNCHANGED <<ping_outstanding, inboundMsgs>>

handlePubcomps ==
  /\ Receive("PUBCOMP") /\ Finish(Head(toClient).id, 2, "PUBCOMP")
  /\ NothingQueued /\ UNCHANGED <<ping_outstanding, inboundMsgs>>

\* handlePubrecs: release the message, or drop it if the broker refused it.
handlePubrecs ==
  /\ Receive("PUBREC")
  /\ LET p == Head(toClient)
         waiting == {i \in DOMAIN outboundMsgs : /\ outboundMsgs[i].msgid = p.id
                                                 /\ outboundMsgs[i].qos = 2
                                                 /\ outboundMsgs[i].next = "PUBREC"}
     IN IF waiting = {} THEN UNCHANGED <<outboundMsgs, effects>>
        ELSE IF Version = 5 /\ p.qos = Refused
        THEN outboundMsgs' = Without(outboundMsgs, p.id) /\ effects' = RemoveSent(p.id)
        ELSE /\ effects' = SendPubrel(p.id)
             /\ outboundMsgs' = [i \in DOMAIN outboundMsgs |->
                  IF i \in waiting THEN [outboundMsgs[i] EXCEPT !.next = "PUBCOMP"]
                  ELSE outboundMsgs[i]]
  /\ NothingQueued /\ UNCHANGED <<ping_outstanding, inboundMsgs>>

MutantReleased(id) == inboundMsgs

Released(id) == Without(inboundMsgs, id)

\* handlePubrels.  An id that is not known is ignored unless dup is set, and
\* dup is never set in a PUBREL of MQTT 3.1.1 or 5.
handlePubrels ==
  /\ Receive("PUBREL")
  /\ LET id == Head(toClient).id
         known == {i \in DOMAIN inboundMsgs : inboundMsgs[i].msgid = id}
     IN \/ known = {} /\ NothingQueued /\ UNCHANGED <<inboundMsgs, effects>>
        \/ /\ known # {} /\ ~pendingWrite /\ inboundMsgs' = Released(id)
           /\ LET msg == inboundMsgs[CHOOSE i \in known : TRUE].msg
              IN IF Version = 5
                 THEN NothingQueued /\ effects' = <<SendAck("PUBCOMP", id), RemoveReceived(5, id), RemoveReceived(4, id)>>
                 ELSE /\ Queued(msg)
                      /\ effects' = <<SendAck("PUBCOMP", id), PersistQueueEntry(msg),
                                      RemoveReceived(5, id), RemoveReceived(4, id)>>
  /\ UNCHANGED <<ping_outstanding, outboundMsgs>>

\* The two of them when an answer is due and a write is pending ("queue acks?"): an
\* error, which ends the connection.  A QoS 2 message stays persisted, but not listed.
\* Socket_getReadySocket picked the socket before the other thread's write was cut.
AnswerRefused ==
  /\ Running /\ connected /\ pendingWrite /\ toClient # <<>>
  /\ LET p == Head(toClient)
     IN \/ p.type = "PUBLISH" /\ p.qos = 1 /\ UNCHANGED effects
        \/ p.type = "PUBLISH" /\ p.qos = 2 /\ effects' = <<Put("r", Version, p.id, 2, p.msg)>>
        \/ p.type = "PUBREL" /\ p.id \in IdsOf(inboundMsgs) /\ UNCHANGED effects
  /\ GivenUp
  /\ UNCHANGED <<alive, clientMemory, pstore, brokerVars, outHistory, inHistory, faults, writing, disk>>

handlePingresps ==
  /\ Receive("PINGRESP") /\ ping_outstanding' = FALSE
  /\ NothingQueued /\ UNCHANGED <<effects, inboundMsgs, outboundMsgs>>

\* MQTTClient_run: messageArrived takes the first entry and returns 1, then the
\* entry is removed from the store and the queue.
MessageArrived ==
  /\ Running /\ messageQueue # <<>>
  /\ LET q == Head(messageQueue)
     IN effects' = <<[op |-> "arrived", rec |-> q.msg], Unput("q", Version, q.seqno)>>
  /\ messageQueue' = Tail(messageQueue)
  /\ UNCHANGED <<alive, connected, ping_outstanding, msgID, qentry_seqno, outboundMsgs,
                 inboundMsgs, pstore, network, brokerVars, outHistory, inHistory, faults, writing, disk>>
-------------------------------------------------------------------------------
\* Sessions.

\* The two calls that send a message again: its record and its packet.
Retry(m) ==
  IF m.next = "PUBCOMP" THEN SendPubrel(m.msgid) ELSE SendPublish(m.msgid, m.qos, m.msg)

MutantRetries(list) ==
  [k \in 1..(2 * Len(list)) |->
     LET m == list[(k + 1) \div 2]
     IN SendPublish(m.msgid, m.qos, m.msg)[IF k % 2 = 1 THEN 1 ELSE 2]]

\* MQTTProtocol_retries, regardless of the interval: every message again, as far
\* as RetriesStop and WriteFails let it.
Retries(list) ==
  [k \in 1..(2 * Len(list)) |-> Retry(list[(k + 1) \div 2])[IF k % 2 = 1 THEN 1 ELSE 2]]

\* What the broker sends again to a client that comes back.
BrokerResends ==
  [i \in DOMAIN brokerOut |->
     LET b == brokerOut[i]
     IN IF b.next = "PUBCOMP" THEN Packet("PUBREL", b.msgid, 1, 0)
        ELSE Packet("PUBLISH", b.msgid, b.qos, b.msg)]

\* cleanSession applies at connect and at close.  Its MQTTPersistence_clear removes
\* nothing from the default store: see FileStore.
Clean == Version < 5 /\ cleansession

\* MQTTClient_connect up to its CONNACK (MQTTClient_connectURIVersion, lines
\* 1274-1295): the session is resumed or begins anew, and everything that is
\* outstanding is sent again.
Connect ==
  /\ Running /\ ~connected
  /\ connected' = TRUE /\ link' = TRUE /\ toBroker' = <<>>
  /\ IF Clean
     THEN /\ outboundMsgs' = <<>> /\ inboundMsgs' = <<>> /\ messageQueue' = <<>>
          /\ msgID' = 0 /\ effects' = <<>> /\ UNCHANGED pstore
          /\ brokerHeld' = {} /\ brokerOut' = <<>> /\ toClient' = <<>>
     ELSE /\ effects' = Retries(outboundMsgs) /\ toClient' = BrokerResends
          /\ UNCHANGED <<outboundMsgs, inboundMsgs, messageQueue, msgID, pstore, brokerVars>>
  /\ pendingWrite' = FALSE /\ heldBack' = {} /\ resending' = (effects' # <<>>)
  /\ UNCHANGED <<alive, ping_outstanding, qentry_seqno, outHistory, inHistory, faults, disk>>

MutantPingForgotten == UNCHANGED ping_outstanding

PingForgotten == ping_outstanding' = FALSE

\* MQTTClient_closeSession and MQTTClient_cleanSession.
CloseSession ==
  /\ connected' = FALSE /\ PingForgotten
  /\ GivenUp /\ pendingWrite' = FALSE
  /\ IF Clean
     THEN /\ outboundMsgs' = <<>> /\ inboundMsgs' = <<>> /\ messageQueue' = <<>>
          /\ msgID' = 0 /\ UNCHANGED pstore
     ELSE UNCHANGED <<outboundMsgs, inboundMsgs, messageQueue, msgID, pstore>>
  /\ UNCHANGED <<alive, qentry_seqno, effects, brokerVars, outHistory, inHistory, faults,
                 resending, heldBack, disk>>

\* A read or a write that fails: MQTTClient_disconnect_internal.  Only a write that is
\* pending makes sure of it: of a connection that is silent nobody may be told.
SocketError == Running /\ connected /\ ~link /\ CloseSession

\* MQTTProtocol_keepalive: a PINGREQ after an interval without traffic ...
Ping ==
  /\ Running /\ connected /\ ~ping_outstanding /\ ~pendingWrite
  /\ ~link \/ pings < MaxPings
  /\ pings' = IF link THEN pings + 1 ELSE pings
  /\ ping_outstanding' = TRUE
  /\ effects' = <<Send(Packet("PINGREQ", 0, 0, 0))>>
  /\ UNCHANGED <<alive, connected, msgID, qentry_seqno, outboundMsgs, inboundMsgs,
                 messageQueue, pstore, network, brokerVars, outHistory, inHistory, breaks, crashes,
                 mishaps, writing, disk>>

\* ... and the end of the session if no PINGRESP came in the next one.
PingTimeout == Running /\ connected /\ ping_outstanding /\ CloseSession

\* The connection breaks.  The client may not be told.
Break ==
  /\ link /\ breaks + crashes < MaxFaults /\ breaks' = breaks + 1 /\ GivenUp
  /\ UNCHANGED <<alive, clientMemory, effects, pstore, brokerVars, outHistory, inHistory,
                 crashes, pings, mishaps, writing, disk>>

\* The process ends, between any two of its calls or while it writes a record.
Crash ==
  /\ alive /\ breaks + crashes < MaxFaults /\ crashes' = crashes + 1
  /\ alive' = FALSE /\ connected' = FALSE /\ ping_outstanding' = FALSE
  /\ msgID' = 0 /\ qentry_seqno' = 0 /\ outboundMsgs' = <<>> /\ inboundMsgs' = <<>>
  /\ messageQueue' = <<>> /\ effects' = <<>> /\ GivenUp
  /\ pendingWrite' = FALSE /\ resending' = FALSE
  /\ \/ UNCHANGED <<damaged, mishaps>>
     \/ Calling /\ Head(effects).op = "put" /\ Damaged(Head(effects).rec, "cut")
  /\ UNCHANGED <<pstore, brokerVars, outHistory, inHistory, breaks, pings, heldBack, spoilt>>

Records(key) == {e \in pstore : e.key = key}

\* The records (of one key, so with different ids) in the order of their ids.
InOrder(recs) ==
  {list \in [1..Cardinality(recs) -> recs] :
     \A i, j \in DOMAIN list : i < j => list[i].id < list[j].id}

MutantWrapMsgID(list) == list

\* MQTTPersistence_wrapMsgID: the list begins after its largest gap.
wrapMsgID(list) ==
  LET n == Len(list)
      gap(i) == IF i = 1 THEN MAX_MSG_ID - list[n].msgid + list[1].msgid
                ELSE list[i].msgid - list[i - 1].msgid
      first == CHOOSE i \in 1..n : \A j \in 1..n : gap(j) < gap(i) \/ (gap(j) = gap(i) /\ i <= j)
  IN IF n = 0 THEN <<>> ELSE [i \in 1..n |-> IF first + i - 1 <= n THEN list[first + i - 1]
                                            ELSE list[first + i - 1 - n]]

CutIds(key) == {d.id : d \in {e \in damaged : e.key = key /\ e.ver = Version /\ e.how = "cut"}}

\* What is on the disk and is not taken away as a bad record.  A queue entry is not
\* checked: a part of it is read as some message, here 0.
OnDisk ==
  {e \in pstore : ~\E d \in damaged : SameKey(d, e)}
  \cup {[key |-> "q", ver |-> Version, id |-> n, qos |-> 0, msg |-> 0] : n \in CutIds("q")}

RecordsOnDisk(key) == {e \in OnDisk : e.key = key}

\* MQTTPersistence_restorePacket and the loop of MQTTPersistence_restore: a PUBREL
\* that was persisted says that its message waits for PUBCOMP.
Restored(e, cutPubrels) ==
  [msgid |-> e.id, qos |-> e.qos, msg |-> e.msg,
   next |-> IF \/ \E f \in OnDisk : f.key = "sc" /\ f.ver = Version /\ f.id = e.id
               \/ e.id \in cutPubrels THEN "PUBCOMP"
            ELSE IF e.qos = 2 THEN "PUBREC" ELSE "PUBACK"]

\* MQTTClient_create with MQTTPersistence_restore and restoreMessageQueue; a
\* PUBREL without its message is removed.  pcontainskey asks for the file alone: a part
\* of a record counts until its turn comes, in the order of the directory.
Restart ==
  /\ ~alive /\ alive' = TRUE
  /\ \E sent \in InOrder(RecordsOnDisk("s")), held \in InOrder(RecordsOnDisk("r")),
        entries \in InOrder(RecordsOnDisk("q")), cutPubrels \in SUBSET CutIds("sc") :
       /\ outboundMsgs' = wrapMsgID([i \in DOMAIN sent |-> Restored(sent[i], cutPubrels)])
       /\ inboundMsgs' = [i \in DOMAIN held |-> [msgid |-> held[i].id, msg |-> held[i].msg]]
       /\ messageQueue' = [i \in DOMAIN entries |-> [seqno |-> entries[i].id, msg |-> entries[i].msg]]
       /\ qentry_seqno' = IF entries = <<>> THEN 0 ELSE entries[Len(entries)].id
  /\ \E cutMessages \in SUBSET CutIds("s") :
       pstore' = {e \in OnDisk : e.key = "sc" => \/ \E f \in RecordsOnDisk("s") : f.ver = Version /\ f.id = e.id
                                                 \/ e.id \in cutMessages}
  /\ damaged' = {} /\ spoilt' = (spoilt \/ damaged # {})
  /\ UNCHANGED <<connected, ping_outstanding, msgID, effects, network, brokerVars, outHistory,
                 inHistory, faults, writing>>
-------------------------------------------------------------------------------
\* The broker.

BrokerSends(p) == toClient' = Append(toClient, p)

BrokerReceives ==
  /\ link /\ toBroker # <<>> /\ toBroker' = Tail(toBroker)
  /\ pendingWrite => Len(toBroker) > 1
  /\ LET p == Head(toBroker)
         own == {i \in DOMAIN brokerOut : brokerOut[i].msgid = p.id}
         pass(m) == delivered' = [delivered EXCEPT ![m] = @ + 1]
     IN \/ /\ p.type = "PUBLISH" /\ p.qos = 0
           /\ UNCHANGED <<toClient, brokerVars, delivered, completed>>
        \/ /\ p.type = "PUBLISH" /\ p.qos = 1
           /\ pass(p.msg) /\ BrokerSends(Packet("PUBACK", p.id, 0, 0))
           /\ UNCHANGED <<brokerVars, completed>>
        \/ /\ p.type = "PUBLISH" /\ p.qos = 2
           /\ \E reason \in IF Version = 5 /\ p.id \notin brokerHeld THEN {0, Refused} ELSE {0} :
                /\ IF p.id \in brokerHeld \/ reason # 0 THEN UNCHANGED delivered ELSE pass(p.msg)
                /\ brokerHeld' = brokerHeld \cup (IF reason = 0 THEN {p.id} ELSE {})
                /\ BrokerSends(Packet("PUBREC", p.id, reason, 0))
           /\ UNCHANGED <<brokerOut, completed>>
        \/ /\ p.type = "PUBREL" /\ brokerHeld' = brokerHeld \ {p.id}
           /\ BrokerSends(Packet("PUBCOMP", p.id, 0, 0))
           /\ UNCHANGED <<brokerOut, delivered, completed>>
        \/ /\ p.type = "PINGREQ" /\ BrokerSends(Packet("PINGRESP", 0, 0, 0))
           /\ UNCHANGED <<brokerVars, delivered, completed>>
        \/ /\ p.type \in {"PUBACK", "PUBCOMP"}
           /\ brokerOut' = Without(brokerOut, p.id)
           /\ completed' = completed \cup {brokerOut[i].msg : i \in own}
           /\ UNCHANGED <<toClient, brokerHeld, delivered>>
        \/ /\ p.type = "PUBREC"
           /\ brokerOut' = [i \in DOMAIN brokerOut |-> IF i \in own
                              THEN [brokerOut[i] EXCEPT !.next = "PUBCOMP"] ELSE brokerOut[i]]
           /\ BrokerSends(Packet("PUBREL", p.id, 1, 0))
           /\ UNCHANGED <<brokerHeld, delivered, completed>>
  /\ UNCHANGED <<alive, clientMemory, effects, pstore, link, published, accepted, qosOf, inSent,
                 queued, arrived, faults, writing, disk>>

\* The broker has a message for the client; it keeps those of QoS 1 and 2.
BrokerPublishes ==
  /\ link /\ published + inSent < MaxMessages /\ inSent' = inSent + 1
  /\ \E q \in Qualities :
       /\ brokerOut' = IF q = 0 THEN brokerOut
                       ELSE Append(brokerOut, [msgid |-> inSent', qos |-> q, msg |-> inSent',
                                               next |-> IF q = 2 THEN "PUBREC" ELSE "PUBACK"])
       /\ BrokerSends(Packet("PUBLISH", IF q = 0 THEN 0 ELSE inSent', q, inSent'))
  /\ UNCHANGED <<alive, clientMemory, effects, pstore, link, toBroker, brokerHeld, outHistory,
                 completed, queued, arrived, faults, writing, disk>>

Handlers == handlePublishes \/ handlePubacks \/ handlePubrecs \/ handlePubrels
            \/ handlePubcomps \/ handlePingresps
Client == Effect \/ WriteFails \/ RetriesStop \/ Flush \/ Handlers \/ AnswerRefused
          \/ MessageArrived \/ PingTimeout
SessionNext == Client \/ SocketError \/ Publish \/ Connect \/ Ping \/ Break \/ Crash \/ Restart
               \/ BrokerReceives \/ BrokerPublishes

\* The process goes on: the run thread, the application that connects again, and
\* the system that restarts it.  A silent connection is pinged, one with a write pending
\* is told (TCP retransmits in vain), the broker answers.
SessionGoesOn == Client \/ (SocketError /\ pendingWrite) \/ Connect \/ Restart
SessionFairness ==
  WF_sessionVars(SessionGoesOn) /\ WF_sessionVars(Ping /\ ~link) /\ WF_sessionVars(BrokerReceives)
SessionSpec == SessionInit /\ [][SessionNext]_sessionVars /\ SessionFairness
-------------------------------------------------------------------------------
\* Properties.

\* No two messages under way have one id, though ids wrap at MAX_MSG_ID and
\* start again from 1 after a restart.
MsgIdsDistinct ==
  \A i, j \in DOMAIN outboundMsgs : outboundMsgs[i].msgid = outboundMsgs[j].msgid => i = j

\* The broker passes a QoS 2 message on at most once.
NeverTwice == \A m \in 1..MaxMessages : qosOf[m] = 2 => delivered[m] <= 1

\* "QoS2, Exactly once" (MQTTClient.h, line 1380): the broker passes a QoS 2
\* message on at most once, whatever connections break, writes are cut, and calls the
\* process is ended between, as long as no client was restored from a disk with a record
\* that was lost or cut: of a PUBREL without its record the message is published again.
ExactlyOnce == ~spoilt => NeverTwice

InStore(m) == \E e \in pstore : e.key = "s" /\ e.msg = m
UnderWay(m) == \E i \in DOMAIN outboundMsgs : outboundMsgs[i].msg = m

\* "Return success for qos > 0 as the send will be retried automatically"
\* (MQTTClient.c, line 2182): a message that was accepted has reached the
\* broker, or is kept to be sent again.
AcceptedKept ==
  \A m \in accepted : delivered[m] > 0 \/ UnderWay(m) \/ InStore(m) \/ crashes > 0

\* With a store, the records that were put and the memory agree between two calls: a
\* message under way has its record, and one that waits for PUBCOMP its PUBREL, so that
\* a crash at that moment forgets nothing and repeats nothing that reached the disk.  A
\* received message may be persisted and not listed when its PUBREC was refused
\* (AnswerRefused): then the broker still waits for it, and sends the message again.
\* None of it is promised once a client was restored from a damaged disk.
StoreAgrees ==
  (alive /\ effects = <<>> /\ ~spoilt) =>
    /\ {e.id : e \in Records("s")} = IdsOf(outboundMsgs)
    /\ {e.id : e \in Records("sc")} = {outboundMsgs[i].msgid : i \in
                                         {j \in DOMAIN outboundMsgs : outboundMsgs[j].next = "PUBCOMP"}}
    /\ IdsOf(inboundMsgs) \subseteq {e.id : e \in Records("r")}
    /\ \A e \in Records("r") : \/ e.id \in IdsOf(inboundMsgs)
                               \/ \E i \in DOMAIN brokerOut : /\ brokerOut[i].msgid = e.id
                                                              /\ brokerOut[i].next = "PUBREC"
    /\ {e.id : e \in Records("q")} = {messageQueue[i].seqno : i \in DOMAIN messageQueue}

PublicationOrder ==
  \A i, j \in DOMAIN outboundMsgs : i < j => outboundMsgs[i].msg < outboundMsgs[j].msg

\* Messages are sent again in the order of their publication, also after a
\* restart from the store, where only their ids tell the order.  They tell it once
\* (MQTTClient_create begins again from id 1), and while the ids under way span
\* less than half of the range, so that the largest gap is where they wrapped.
RetriedInOrder ==
  (crashes = 0 \/ (crashes = 1 /\ ~Clean /\ 2 * published < MAX_MSG_ID)) => PublicationOrder

\* Both: outboundMsgs has one entry per id, in the order of publication.
OutboundOrdered == MsgIdsDistinct /\ RetriedInOrder

\* A QoS 2 message from the broker is queued for the application once, and has
\* been queued when the broker considers it done, unless the process crashed.
ReceivedOnce ==
  crashes = 0 => \A m \in 1..inSent :
    /\ m \in completed => queued[m] > 0
    /\ (\E i \in DOMAIN brokerOut : brokerOut[i].msg = m /\ brokerOut[i].qos = 2) => queued[m] <= 1

Reached(m) == delivered[m] > 0 \/ (crashes > 0 /\ ~InStore(m)) \/ spoilt

\* In the end every message that was accepted has reached the broker, what was
\* queued has reached the application, and a connection that died without a word
\* has been noticed.  A crash loses what was not yet in the store, and a message whose
\* sending again was held back waits for the next connection, if there is one.
SessionDelivers ==
  []<>(/\ \A m \in accepted : Reached(m) \/ m \in heldBack
       /\ \A m \in 1..MaxMessages : queued[m] > 0 => arrived[m] > 0 \/ crashes > 0
       /\ connected => link)
================================================================================
