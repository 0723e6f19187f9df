---------------------------- MODULE MessageQueue ----------------------------
(***************************************************************************)
(* The queue of arrived messages of the Paho C client and its copy in the  *)
(* persistence store, over the crashes and restarts of the process         *)
(* (MQTTClient.c, MQTTAsync.c, MQTTPersistence.c).  A message is its       *)
(* arrival number.  The session is not cleaned.                            *)
(***************************************************************************)
EXTENDS Naturals, FiniteSets, Sequences, SequencesExt

CONSTANTS
  MaxArrivals,     \* messages the broker sends
  MaxDowns,        \* times the process ends
  MaxPutErrors     \* records the store refuses

ASSUME MessageQueueAssumption == {MaxArrivals, MaxDowns, MaxPutErrors} \subseteq Nat

VARIABLES
  mq,      \* the client: messageQueue, qentry_seqno, whether it runs, the callback's entry qe and
           \* the entry putting that is queued and whose record is being written
  qstore,  \* the records "q-<seqno>": seqno -> message, Garbage where only a part was written
  qkeys,   \* keys restoreMessageQueue has listed and not yet read
  mqSeen   \* arrived, told (the messages handed over, in order, again counting once), downs, errors,
           \* unsaved: the messages whose record was refused, cut, or not written when the process ended

queueVars == <<mq, qstore, qkeys, mqSeen>>

Garbage == 0
NoQueueEntry == [seqno |-> 0, msg |-> Garbage]

\* mode: MQTTClient with its thread or with MQTTClient_receive, or MQTTAsync
Modes == {"run", "receive", "async"}
Stopped == [up |-> FALSE, mode |-> "run", connected |-> FALSE, messageQueue |-> <<>>, qentry_seqno |-> 0,
            qe |-> NoQueueEntry, putting |-> NoQueueEntry]

MessageQueueInit ==
  /\ mq = Stopped /\ qstore = [k \in {} |-> 0] /\ qkeys = {}
  /\ mqSeen = [arrived |-> 0, told |-> <<>>, downs |-> 0, errors |-> 0, unsaved |-> {}]

\* A message handed over a second time in a row is told once.
TellOnce(told, n) == IF told # <<>> /\ Last(told) = n THEN told ELSE Append(told, n)

Larger(a, b) == IF a > b THEN a ELSE b
Restored == mq.up /\ qkeys = {} /\ mq.putting = NoQueueEntry
Resting == Restored /\ mq.qe = NoQueueEntry

-----------------------------------------------------------------------------

\* MQTTClient_createWithOptions lists the keys, in whatever order the directory has them
QueueCreate(mode) ==
  /\ ~mq.up
  /\ mq' = [Stopped EXCEPT !.up = TRUE, !.mode = mode]
  /\ qkeys' = DOMAIN qstore
  /\ UNCHANGED <<qstore, mqSeen>>

MQTTPersistence_insertInSeqOrder(queue, entry) ==
  LET later == {i \in DOMAIN queue : entry.seqno < queue[i].seqno}
  IN IF later = {} THEN Append(queue, entry)
     ELSE InsertAt(queue, CHOOSE i \in later : \A j \in later : i <= j, entry)

\* the record's length is not checked: of a cut one the fields read past its end are whatever is
\* there
MQTTPersistence_restoreQueueEntry(k) == [seqno |-> k, msg |-> qstore[k]]

MQTTPersistence_restoreMessageQueue(k) ==
  /\ mq.up
  /\ mq' = [mq EXCEPT !.messageQueue = MQTTPersistence_insertInSeqOrder(@, MQTTPersistence_restoreQueueEntry(k)),
                      !.qentry_seqno = Larger(@, k)]
  /\ qkeys' = qkeys \ {k}
  /\ UNCHANGED <<qstore, mqSeen>>

QueueConnect == Resting /\ ~mq.connected /\ mq' = [mq EXCEPT !.connected = TRUE] /\ UNCHANGED <<qstore, qkeys, mqSeen>>

\* Protocol_processPublication.  MQTTAsync calls the callback at once when nothing is queued and
\* queues the message if it was refused.  A QoS 1 message is acknowledged before.
AtOnce == mq.mode = "async" /\ mq.messageQueue = <<>>

QueuePublication(taken) ==
  LET n == mqSeen.arrived + 1
      entry == [seqno |-> mq.qentry_seqno + 1, msg |-> n]
      told == IF AtOnce THEN TellOnce(mqSeen.told, n) ELSE mqSeen.told
  IN /\ Resting /\ mq.connected /\ mqSeen.arrived < MaxArrivals
     /\ taken => AtOnce
     /\ mq' = IF taken THEN mq
              ELSE [mq EXCEPT !.messageQueue = Append(@, entry), !.qentry_seqno = @ + 1, !.putting = entry]
     /\ mqSeen' = [mqSeen EXCEPT !.arrived = n, !.told = told]
     /\ UNCHANGED <<qstore, qkeys>>

WithRecord(e, n) == [k \in DOMAIN qstore \cup {e.seqno} |-> IF k = e.seqno THEN n ELSE qstore[k]]

\* What a put leaves: the record, a first part of it (fclose's result is not looked at), or
\* nothing; a refused record is only logged.
PutOutcomes == {"whole", "cut", "refused"}
PutLeaves(e, outcome) ==
  CASE outcome = "whole" -> WithRecord(e, e.msg)
    [] outcome = "cut" -> WithRecord(e, Garbage)
    [] outcome = "refused" -> qstore
Unsaved(e, outcome) == IF outcome = "whole" THEN {} ELSE {e.msg}

MQTTPersistence_persistQueueEntry(outcome) ==
  /\ mq.putting # NoQueueEntry
  /\ outcome # "whole" => mqSeen.errors < MaxPutErrors
  /\ mq' = [mq EXCEPT !.putting = NoQueueEntry]
  /\ qstore' = PutLeaves(mq.putting, outcome)
  /\ mqSeen' = [mqSeen EXCEPT !.errors = IF outcome = "whole" THEN @ ELSE @ + 1,
                              !.unsaved = @ \cup Unsaved(mq.putting, outcome)]
  /\ UNCHANGED qkeys

MQTTPersistence_unpersistQueueEntry(e) == [k \in DOMAIN qstore \ {e.seqno} |-> qstore[k]]

\* MQTTClient_deliverMessage: the record goes before the application has the message
MQTTClient_deliverMessage(client) ==
  LET e == Head(client.messageQueue)
  IN /\ mq' = [client EXCEPT !.messageQueue = Tail(@)]
     /\ qstore' = MQTTPersistence_unpersistQueueEntry(e)
     /\ mqSeen' = [mqSeen EXCEPT !.told = TellOnce(@, e.msg)]

\* MQTTClient_receive: an error of the socket disconnects, but the head is still handed over
MQTTClient_receive(error) ==
  LET client == [mq EXCEPT !.connected = ~error]
  IN /\ Resting /\ mq.mode = "receive" /\ mq.connected
     /\ IF mq.messageQueue # <<>> THEN MQTTClient_deliverMessage(client)
        ELSE mq' = client /\ UNCHANGED <<qstore, mqSeen>>
     /\ UNCHANGED qkeys

\* MQTTClient_run and MQTTAsync_receiveThread call messageArrived with the head ...
CallMessageArrived ==
  /\ Resting /\ mq.mode # "receive" /\ mq.messageQueue # <<>>
  /\ mq' = [mq EXCEPT !.qe = Head(mq.messageQueue)]
  /\ mqSeen' = [mqSeen EXCEPT !.told = TellOnce(@, Head(mq.messageQueue).msg)]
  /\ UNCHANGED <<qstore, qkeys>>

\* ... and removes it if the callback took it.
MessageArrivedReturns(taken) ==
  /\ Restored /\ mq.qe # NoQueueEntry
  /\ mq' = [mq EXCEPT !.qe = NoQueueEntry, !.messageQueue = IF taken THEN SelectSeq(@, LAMBDA e : e # mq.qe) ELSE @]
  /\ qstore' = IF taken THEN MQTTPersistence_unpersistQueueEntry(mq.qe) ELSE qstore
  /\ UNCHANGED <<qkeys, mqSeen>>

\* MQTTClient_destroy at rest, or a crash wherever the process is, in a put too
QueueDown ==
  /\ mq.up /\ mqSeen.downs < MaxDowns
  /\ mq' = Stopped /\ qkeys' = {}
  /\ \/ /\ mq.putting = NoQueueEntry
        /\ mqSeen' = [mqSeen EXCEPT !.downs = @ + 1] /\ UNCHANGED qstore
     \/ /\ mq.putting # NoQueueEntry
        /\ \E outcome \in PutOutcomes :
             /\ qstore' = PutLeaves(mq.putting, outcome)
             /\ mqSeen' = [mqSeen EXCEPT !.downs = @ + 1,
                                         !.unsaved = @ \cup Unsaved(mq.putting, outcome)]

MessageQueueNext ==
  \/ \E mode \in Modes : QueueCreate(mode)
  \/ \E outcome \in PutOutcomes : MQTTPersistence_persistQueueEntry(outcome)
  \/ \E k \in qkeys : MQTTPersistence_restoreMessageQueue(k)
  \/ QueueConnect \/ CallMessageArrived \/ QueueDown
  \/ \E b \in BOOLEAN : QueuePublication(b) \/ MQTTClient_receive(b) \/ MessageArrivedReturns(b)

-----------------------------------------------------------------------------

Handed == ToSet(mqSeen.told)

\* the messages handed over that arrived as they are
ToldWhole == SelectSeq(mqSeen.told, LAMBDA n : n # Garbage)

(* Arrived messages reach the application in the order of their arrival,   *)
(* over callbacks that refuse them, crashes at any point and directories   *)
(* listed in any order: each one handed over is the one before it again or *)
(* the next; none that has arrived is gone unless it was handed over; and  *)
(* the queue and the store hold the same entries.  The exception is a      *)
(* message whose record the store refused or left cut, or that was queued, *)
(* and at QoS 1 acknowledged, when the process ended before its record was *)
(* whole: a crash loses it, or what is restored of a cut record is handed  *)
(* over as garbage, once at most for each such message.                    *)
QueueSound ==
  /\ \A i \in 1..(Len(ToldWhole) - 1) :
       LET a == ToldWhole[i]  b == ToldWhole[i + 1]
       IN a < b /\ (a + 1)..(b - 1) \subseteq mqSeen.unsaved
  /\ Len(mqSeen.told) - Len(ToldWhole) <= Cardinality(mqSeen.unsaved)
  /\ \A n \in 1..mqSeen.arrived :
       \/ n \in Handed \/ n \in mqSeen.unsaved \/ n = mq.putting.msg
       \/ \E k \in DOMAIN qstore : qstore[k] = n
  /\ Restored =>
       /\ \A i, j \in DOMAIN mq.messageQueue :
            i < j => \/ mq.messageQueue[i].msg < mq.messageQueue[j].msg
                     \/ mq.messageQueue[j].msg = Garbage
       /\ DOMAIN qstore \subseteq {mq.messageQueue[i].seqno : i \in DOMAIN mq.messageQueue}
=============================================================================
