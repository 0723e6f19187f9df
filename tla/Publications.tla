---------------------------- MODULE Publications ----------------------------
(***************************************************************************)
(* Who owns the data of a message in the Paho C client: the counted        *)
(* publications of MQTTProtocolClient.c, shared by the messages in flight, *)
(* the QoS 0 publications kept until a partial write ends, the socket      *)
(* buffer that still has to write them and the queue of arrived messages,  *)
(* to which the payload of a QoS 2 message is handed over uncopied.        *)
(* A publication is named by the number of its allocation; 0 is NULL.      *)
(***************************************************************************)
EXTENDS Naturals, FiniteSets

CONSTANTS
  PubIds,      \* message ids
  PubVersions, \* MQTT versions of the packets, 4 or 5
  MaxPubs      \* publications stored

ASSUME PublicationsAssumption == PubIds \subseteq Nat \ {0} /\ PubVersions \subseteq {4, 5} /\ MaxPubs \in Nat

VARIABLES
  pb,      \* the client's lists
  pubCount,\* publications stored so far
  spilled  \* those of a duplicate MQTT 5 PUBLISH

pubVars == <<pb, pubCount, spilled>>

NoWrite == [pub |-> 0, retried |-> FALSE]

\* publications: name -> refcount; payloads: the allocated payload buffers;
\* partial: the publication the socket buffer has written a part of
NewClient ==
  [created |-> TRUE, connected |-> FALSE, publications |-> [p \in {} |-> 0], payloads |-> {}, outboundMsgs |-> {},
   inboundMsgs |-> {}, messageQueue |-> {}, pending_writes |-> {}, partial |-> NoWrite]

PublicationsInit == pb = NewClient /\ pubCount = 0 /\ spilled = {}

Live(c) == DOMAIN c.publications
NewPub == pubCount + 1
MayStore == pubCount < MaxPubs

\* MQTTProtocol_storePublication: a copy with one reference
MQTTProtocol_storePublication(c) ==
  [c EXCEPT !.publications = [p \in Live(c) \cup {NewPub} |-> IF p = NewPub THEN 1 ELSE c.publications[p]],
            !.payloads = @ \cup {NewPub}]

Unlisted(c, p) == [c EXCEPT !.publications = [q \in Live(c) \ {p} |-> c.publications[q]]]

MQTTProtocol_removePublication(c, p) ==
  IF p \notin Live(c) THEN c
  ELSE IF c.publications[p] > 1 THEN [c EXCEPT !.publications[p] = @ - 1]
  ELSE [Unlisted(c, p) EXCEPT !.payloads = @ \ {p}]

\* The removal of the publications ps, one after the other; no two messages share one.
RemoveAll(c, ps) ==
  LET last == {p \in ps \cap Live(c) : c.publications[p] = 1}
  IN [c EXCEPT !.publications = [p \in Live(c) \ last |-> c.publications[p] - (IF p \in ps THEN 1 ELSE 0)],
               !.payloads = @ \ last]

OfMessages(ms) == {m.pub : m \in ms} \ {0}
MQTTProtocol_emptyMessageList(c) ==
  [RemoveAll(c, OfMessages(c.outboundMsgs \cup c.inboundMsgs)) EXCEPT !.outboundMsgs = {}, !.inboundMsgs = {}]
MQTTClient_emptyMessageQueue(c) == [c EXCEPT !.payloads = @ \ c.messageQueue, !.messageQueue = {}]

\* MQTTClient_closeSession; Socket_close aborts the partial write
CloseFor(c, cleansession) ==
  LET closed == [c EXCEPT !.connected = FALSE, !.partial = NoWrite]
  IN IF cleansession THEN MQTTClient_emptyMessageQueue(MQTTProtocol_emptyMessageList(closed)) ELSE closed

\* What is left of an attempted write: all written, a part, or nothing on a broken socket.
Wrote(c, how, pub, retried, clean) ==
  IF how = "interrupted" THEN [c EXCEPT !.partial = [pub |-> pub, retried |-> retried]]
  ELSE IF how = "error" THEN CloseFor(c, clean) ELSE c

Hows == {"complete", "interrupted", "error"}

-----------------------------------------------------------------------------

PubConnect == pb.created /\ ~pb.connected /\ pb' = [pb EXCEPT !.connected = TRUE] /\ UNCHANGED <<pubCount, spilled>>
PubClose(clean) == pb.created /\ pb.connected /\ pb' = CloseFor(pb, clean) /\ UNCHANGED <<pubCount, spilled>>

\* MQTTClient_publish5 waits for a partial write first.
MayWritePacket == pb.connected /\ pb.partial = NoWrite

\* A QoS 0 publication is only copied when its write was interrupted.
MQTTProtocol_storeQoS0 ==
  /\ MayWritePacket /\ MayStore
  /\ pb' = [Wrote(MQTTProtocol_storePublication(pb), "interrupted", NewPub, FALSE, FALSE)
              EXCEPT !.pending_writes = @ \cup {NewPub}]
  /\ pubCount' = pubCount + 1 /\ UNCHANGED spilled

MQTTProtocol_createMessage(id, qos) ==
  [msgid |-> id, qos |-> qos, pub |-> NewPub, next |-> IF qos = 2 THEN "PUBREC" ELSE "PUBACK", sent |-> FALSE]

MQTTProtocol_startPublish(id, qos, how, clean) ==
  LET m == MQTTProtocol_createMessage(id, qos)
      listed == [MQTTProtocol_storePublication(pb) EXCEPT !.outboundMsgs = @ \cup {[m EXCEPT !.sent = how = "complete"]}]
  IN /\ MayWritePacket /\ MayStore /\ \A x \in pb.outboundMsgs : x.msgid # id
     /\ pb' = Wrote(listed, how, m.pub, FALSE, clean)
     /\ pubCount' = pubCount + 1 /\ UNCHANGED spilled

\* MQTTProtocol_retry, for a message whose retry interval has passed
MQTTProtocol_retry(m, how, clean) ==
  /\ MayWritePacket /\ m.next # "PUBCOMP"
  /\ pb' = Wrote([pb EXCEPT !.outboundMsgs = (@ \ {m}) \cup {[m EXCEPT !.sent = @ \/ how = "complete"]}],
                 how, m.pub, TRUE, clean)
  /\ UNCHANGED <<pubCount, spilled>>

\* Every pending write of a socket with nothing left to write is given up.
MQTTProtocol_checkPendingWrites(c) == [RemoveAll(c, c.pending_writes) EXCEPT !.pending_writes = {}]

\* Socket_continueWrites has come to an end, good or bad.
MQTTClient_writeComplete ==
  LET written == [pb EXCEPT !.partial = NoWrite,
                            !.outboundMsgs = {[m EXCEPT !.sent = @ \/ m.pub = pb.partial.pub] : m \in @}]
  IN /\ pb.partial # NoWrite
     /\ pb' = MQTTProtocol_checkPendingWrites(written)
     /\ UNCHANGED <<pubCount, spilled>>

\* PUBACK, PUBCOMP, and a PUBREC that refuses: the exchange is over
AckedOut(m) ==
  /\ pb.connected /\ m.sent
  /\ pb' = [MQTTProtocol_removePublication(pb, m.pub) EXCEPT !.outboundMsgs = @ \ {m}]
  /\ UNCHANGED <<pubCount, spilled>>
PubrecIn(m) ==
  /\ pb.connected /\ m.sent /\ m.next = "PUBREC"
  /\ pb' = [pb EXCEPT !.outboundMsgs = (@ \ {m}) \cup {[m EXCEPT !.next = "PUBCOMP"]}]
  /\ UNCHANGED <<pubCount, spilled>>

\* The message of the same id that is already there gives up its publication.
Replaced(c, old) == RemoveAll([c EXCEPT !.inboundMsgs = @ \ old], OfMessages(old))

\* Protocol_processPublication, QoS 2: the payload is the queue's now
HandOver(c, p) == [Unlisted(c, p) EXCEPT !.messageQueue = @ \cup {p}]

\* MQTTProtocol_handlePublishes, QoS 2.  MQTT 5 hands the message over at its first receipt.
Publish2In(id, v) ==
  LET old == {m \in pb.inboundMsgs : m.msgid = id}
      m == [msgid |-> id, version |-> v, pub |-> NewPub]
      held == Replaced(MQTTProtocol_storePublication(pb), old)
      now == v = 5 /\ old = {}
  IN /\ MayWritePacket /\ MayStore
     /\ pb' = IF now THEN [HandOver(held, NewPub) EXCEPT !.inboundMsgs = @ \cup {[m EXCEPT !.pub = 0]}]
                     ELSE [held EXCEPT !.inboundMsgs = @ \cup {m}]
     /\ pubCount' = pubCount + 1
     /\ spilled' = IF v = 5 /\ ~now THEN spilled \cup {NewPub} ELSE spilled

\* MQTTProtocol_handlePubrels: version 4 hands the message over now; the list element is removed
\* either way, with what it points at when nobody took it over.
PubrelIn(m) ==
  /\ MayWritePacket
  /\ pb' = [(IF m.version = 4 THEN HandOver(pb, m.pub) ELSE Unlisted(pb, m.pub)) EXCEPT !.inboundMsgs = @ \ {m}]
  /\ UNCHANGED <<pubCount, spilled>>

\* messageArrived, and the application's MQTTClient_freeMessage
MQTTClient_freeMessage(p) ==
  /\ pb' = [pb EXCEPT !.messageQueue = @ \ {p}, !.payloads = @ \ {p}]
  /\ UNCHANGED <<pubCount, spilled>>

\* The message lists; the pending writes are the library's and stay.
MQTTProtocol_freeClient(c) == [MQTTProtocol_emptyMessageList(c) EXCEPT !.created = FALSE]

MQTTClient_destroy ==
  /\ pb.created /\ ~pb.connected
  /\ pb' = MQTTProtocol_freeClient(MQTTClient_emptyMessageQueue(pb))
  /\ UNCHANGED <<pubCount, spilled>>
PubCreate == ~pb.created /\ pb' = [pb EXCEPT !.created = TRUE] /\ UNCHANGED <<pubCount, spilled>>

PublicationsNext ==
  \/ PubConnect \/ \E clean \in BOOLEAN : PubClose(clean)
  \/ MQTTProtocol_storeQoS0 \/ MQTTClient_writeComplete
  \/ \E how \in Hows, clean \in BOOLEAN :
       \/ \E id \in PubIds, qos \in 1..2 : MQTTProtocol_startPublish(id, qos, how, clean)
       \/ \E m \in pb.outboundMsgs : MQTTProtocol_retry(m, how, clean)
  \/ \E m \in pb.outboundMsgs : AckedOut(m) \/ PubrecIn(m)
  \/ \E id \in PubIds, v \in PubVersions : Publish2In(id, v)
  \/ \E m \in pb.inboundMsgs : PubrelIn(m)
  \/ \E p \in pb.messageQueue : MQTTClient_freeMessage(p)
  \/ MQTTClient_destroy \/ PubCreate

-----------------------------------------------------------------------------

References(p) ==
  Cardinality({m \in pb.outboundMsgs : m.pub = p}) + Cardinality({m \in pb.inboundMsgs : m.pub = p})
  + Cardinality({p} \cap pb.pending_writes)

(* The message data of the client has exactly one owner.  A publication is *)
(* listed as long as somebody refers to it, and its count is the number of *)
(* references; a message points at no removed publication; a payload is a  *)
(* publication's or the queue's, never both, and none is forgotten but     *)
(* that of a duplicate MQTT 5 PUBLISH, whose element handlePubrels removes *)
(* without freeing it; and what the socket buffer still has to write is    *)
(* there, except for a retry that was acknowledged while half written.     *)
PublicationsSound ==
  /\ \A p \in Live(pb) : pb.publications[p] = References(p) /\ pb.publications[p] > 0
  /\ OfMessages(pb.outboundMsgs \cup pb.inboundMsgs) \cup pb.pending_writes \subseteq Live(pb)
  /\ Live(pb) \cup pb.messageQueue \subseteq pb.payloads /\ Live(pb) \cap pb.messageQueue = {}
  /\ pb.payloads \subseteq Live(pb) \cup pb.messageQueue \cup spilled
  /\ pb.partial.pub # 0 => pb.partial.pub \in pb.payloads \/ pb.partial.retried
=============================================================================
