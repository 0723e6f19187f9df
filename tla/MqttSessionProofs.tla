--------------------------- MODULE MqttSessionProofs ---------------------------
(***************************************************************************)
(* Proofs about one MQTT session, for any number of messages, broken       *)
(* connections and crashes: ids, QoS 2 in both directions, and the store.  *)
(*                                                                         *)
(* An exchange is a message of outboundMsgs or of brokerOut.  The packets  *)
(* of all exchanges are tokens on their way from one side to the other:    *)
(* in the calls that are still to be made (effects), to the broker, and to *)
(* the client.  Each exchange has at most one token, and the token agrees  *)
(* with what its sender waits for.                                         *)
(***************************************************************************)
EXTENDS MqttSession, FiniteSetTheorems, ProofBasics

Messages == 1..MaxMessages
Acks == {"PUBACK", "PUBREC", "PUBCOMP"}
Entries == [msgid : Nat, qos : 1..2, next : Acks, msg : Messages]
InEntries == [msgid : Nat, msg : Messages]
QueueEntries == [seqno : Nat, msg : Messages]
Packets == [type : {"PUBLISH"}, id : Nat, qos : 0..2, msg : Messages]
           \cup [type : {"PUBREL"}, id : Nat, qos : {1}, msg : Nat]
           \cup [type : Acks \cup {"PINGREQ", "PINGRESP"}, id : Nat, qos : Nat, msg : Nat]
StoreRecords ==
  [key : {"s"}, ver : {4, 5}, id : Nat, qos : 1..2, msg : Messages]
  \cup [key : {"sc"}, ver : {4, 5}, id : Nat, qos : {1}, msg : {0}]
  \cup [key : {"r", "q"}, ver : {4, 5}, id : Nat, qos : Nat, msg : Messages]
Removals == [key : {"s", "sc", "r", "q"}, ver : {4, 5}, id : Nat, qos : {0}, msg : {0}]
Effects == [op : {"put"}, rec : StoreRecords] \cup [op : {"remove"}, rec : Removals]
           \cup [op : {"send"}, rec : Packets] \cup [op : {"arrived"}, rec : Messages]

SessionTypeOK ==
  /\ alive \in BOOLEAN /\ connected \in BOOLEAN /\ link \in BOOLEAN
  /\ msgID \in Nat /\ qentry_seqno \in Nat
  /\ outboundMsgs \in Seq(Entries) /\ inboundMsgs \in Seq(InEntries)
  /\ messageQueue \in Seq(QueueEntries)
  /\ effects \in Seq(Effects)
  /\ pstore \subseteq StoreRecords /\ IsFiniteSet(pstore)
  /\ toBroker \in Seq(Packets) /\ toClient \in Seq(Packets)
  /\ brokerHeld \subseteq Nat /\ brokerOut \in Seq(Entries)
  /\ published \in Nat /\ inSent \in Nat /\ published + inSent <= MaxMessages
  /\ delivered \in [Messages -> Nat] /\ qosOf \in [Messages -> 0..2]
  /\ completed \subseteq Nat /\ queued \in [Messages -> Nat] /\ crashes \in Nat

\* When there is no connection nothing is under way, and a process that has
\* ended has no calls to make.  The client sends no PINGRESP.
LinkInv ==
  /\ link => connected
  /\ ~link => toBroker = <<>> /\ toClient = <<>>
  /\ ~alive => ~connected /\ effects = <<>>
  /\ crashes = 0 => alive
  /\ \A k \in DOMAIN toBroker : toBroker[k].type # "PINGRESP"
  /\ \A k \in DOMAIN effects : effects[k].op = "send" => effects[k].rec.type # "PINGRESP"
-------------------------------------------------------------------------------
\* Tokens.

\* The packets of the sender of a message, and those that answer them.
Forth(p) == p.type = "PUBREL" \/ (p.type = "PUBLISH" /\ p.qos > 0)
Back(p) == p.type \in Acks

\* The message e, in the list of its sender, waits for what p leads to.
Agrees(p, e) ==
  /\ e.msgid = p.id
  /\ p.type = "PUBLISH" => e.next # "PUBCOMP" /\ e.msg = p.msg /\ e.qos = p.qos
  /\ p.type = "PUBREL" => e.next = "PUBCOMP"
  /\ p.type \in Acks => e.next = p.type

Matched(p, list) == \E i \in DOMAIN list : Agrees(p, list[i])

\* Every token belongs to a message of its sender's list.
TokensMatched ==
  /\ \A k \in DOMAIN effects : effects[k].op = "send" =>
       /\ Forth(effects[k].rec) => Matched(effects[k].rec, outboundMsgs)
       /\ Back(effects[k].rec) => Matched(effects[k].rec, brokerOut)
  /\ \A k \in DOMAIN toBroker :
       /\ Forth(toBroker[k]) => Matched(toBroker[k], outboundMsgs)
       /\ Back(toBroker[k]) => Matched(toBroker[k], brokerOut)
  /\ \A k \in DOMAIN toClient :
       /\ Forth(toClient[k]) => Matched(toClient[k], brokerOut)
       /\ Back(toClient[k]) => Matched(toClient[k], outboundMsgs)

\* Two packets on the same side of one exchange; and on different sides.
SameWay(p, r) == p.id = r.id /\ ((Forth(p) /\ Forth(r)) \/ (Back(p) /\ Back(r)))
Opposite(p, r) == p.id = r.id /\ ((Forth(p) /\ Back(r)) \/ (Back(p) /\ Forth(r)))

\* No exchange has two tokens.
OneToken ==
  /\ \A j, k \in DOMAIN effects : (effects[j].op = "send" /\ effects[k].op = "send"
       /\ SameWay(effects[j].rec, effects[k].rec)) => j = k
  /\ \A j, k \in DOMAIN toBroker : SameWay(toBroker[j], toBroker[k]) => j = k
  /\ \A j, k \in DOMAIN toClient : SameWay(toClient[j], toClient[k]) => j = k
  /\ \A j \in DOMAIN effects, k \in DOMAIN toBroker :
       effects[j].op = "send" => ~SameWay(effects[j].rec, toBroker[k])
  /\ \A j \in DOMAIN effects, k \in DOMAIN toClient :
       effects[j].op = "send" => ~Opposite(effects[j].rec, toClient[k])
  /\ \A j \in DOMAIN toBroker, k \in DOMAIN toClient : ~Opposite(toBroker[j], toClient[k])

\* The lists of the two senders: one entry per id and per message.
IdsDiffer(list) == \A i, j \in DOMAIN list : list[i].msgid = list[j].msgid => i = j
Proper(e) == e.next # "PUBCOMP" => (e.qos = 1 <=> e.next = "PUBACK")
ListsInv ==
  /\ MsgIdsDistinct
  /\ \A i, j \in DOMAIN outboundMsgs : outboundMsgs[i].msg = outboundMsgs[j].msg => i = j
  /\ \A i \in DOMAIN outboundMsgs :
       /\ Proper(outboundMsgs[i])
       /\ outboundMsgs[i].msg <= published /\ outboundMsgs[i].qos = qosOf[outboundMsgs[i].msg]
  /\ IdsDiffer(brokerOut)
  /\ \A i \in DOMAIN brokerOut :
       /\ Proper(brokerOut[i])
       /\ brokerOut[i].msg <= inSent /\ brokerOut[i].msgid = brokerOut[i].msg
  /\ crashes = 0 => PublicationOrder

-------------------------------------------------------------------------------
\* The store, for what the client has sent.

\* A record of a message is the only one with its id, and with its message.
RecordsInv ==
  /\ \A e \in Records("s") : e.msg \in 1..published /\ e.qos = qosOf[e.msg]
  /\ \A e, f \in Records("s") : e.msg = f.msg => e = f
  /\ \A e \in Records("s"), i \in DOMAIN outboundMsgs :
       e.msg = outboundMsgs[i].msg => e.id = outboundMsgs[i].msgid

\* The calls to the store that are still to be made.
CallsInv ==
  /\ \A k \in DOMAIN effects : effects[k].op = "put" /\ effects[k].rec.key = "s" =>
       LET r == effects[k].rec
       IN \E i \in DOMAIN outboundMsgs :
            /\ outboundMsgs[i].msgid = r.id /\ outboundMsgs[i].msg = r.msg
            /\ outboundMsgs[i].qos = r.qos /\ outboundMsgs[i].next # "PUBCOMP"
  /\ \A k \in DOMAIN effects : effects[k].op = "put" /\ effects[k].rec.key = "sc" =>
       \E i \in DOMAIN outboundMsgs :
         outboundMsgs[i].msgid = effects[k].rec.id /\ outboundMsgs[i].next = "PUBCOMP"
  /\ \A k \in DOMAIN effects : effects[k].op = "remove" /\ effects[k].rec.key \in {"s", "sc"} =>
       effects[k].rec.id \notin IdsOf(outboundMsgs)

HasRecord(key, id) == \E e \in Records(key) : e.id = id

\* A PUBREL is sent only when its record is in the store, and that record
\* outlives the one of the message.
ReleaseInv ==
  /\ \A k \in DOMAIN effects : effects[k].op = "send" /\ effects[k].rec.type = "PUBREL" =>
       \/ HasRecord("sc", effects[k].rec.id)
       \/ \E j \in 1..(k - 1) : effects[j].op = "put" /\ effects[j].rec.key = "sc"
                               /\ effects[j].rec.id = effects[k].rec.id
  /\ \A k \in DOMAIN toBroker : toBroker[k].type = "PUBREL" => HasRecord("sc", toBroker[k].id)
  /\ \A k \in DOMAIN effects :
       effects[k].op = "remove" /\ effects[k].rec.key = "sc" /\ effects[k].rec.ver = 4 =>
         \/ ~HasRecord("s", effects[k].rec.id)
         \/ \E j \in 1..(k - 1) : effects[j].op = "remove" /\ effects[j].rec.key = "s"
                                 /\ effects[j].rec.ver = 4 /\ effects[j].rec.id = effects[k].rec.id

\* A message the broker has passed on, and that would be published again, is
\* one it holds: it is not passed on twice.
HeldInv ==
  /\ (connected \/ ~Clean) => \A i \in DOMAIN outboundMsgs :
       outboundMsgs[i].qos = 2 /\ outboundMsgs[i].next # "PUBCOMP" /\ delivered[outboundMsgs[i].msg] > 0
         => outboundMsgs[i].msgid \in brokerHeld
  /\ ~Clean => \A e \in Records("s") :
       e.qos = 2 /\ ~HasRecord("sc", e.id) /\ delivered[e.msg] > 0 => e.id \in brokerHeld
  /\ \A m \in Messages : m > published => delivered[m] = 0

-------------------------------------------------------------------------------
\* What the client has received, while it has not crashed.

ReceivedInv ==
  /\ \A i \in DOMAIN inboundMsgs : inboundMsgs[i].msgid = inboundMsgs[i].msg /\ inboundMsgs[i].msg <= inSent
  /\ \A m \in completed : m \in Messages /\ queued[m] > 0
  /\ \A m \in Messages : m > inSent => queued[m] = 0 
  /\ \A i \in DOMAIN brokerOut : brokerOut[i].qos = 2 => queued[brokerOut[i].msg] <= 1
  /\ (connected \/ ~Clean) => \A i \in DOMAIN brokerOut :
       LET b == brokerOut[i]
           known == b.msgid \in IdsOf(inboundMsgs)
       IN /\ b.next = "PUBREC" => (queued[b.msg] = 0 <=> (Version = 4 \/ ~known))
          /\ b.next = "PUBCOMP" => (queued[b.msg] = 0 <=> (Version = 4 /\ known))
  /\ \A k \in DOMAIN effects : effects[k].op = "send" /\ effects[k].rec.type \in {"PUBACK", "PUBCOMP"}
       => queued[effects[k].rec.id] > 0
  /\ \A k \in DOMAIN toBroker : toBroker[k].type \in {"PUBACK", "PUBCOMP"} => queued[toBroker[k].id] > 0
  /\ \A k \in DOMAIN effects : effects[k].op = "send" /\ effects[k].rec.type = "PUBREC"
       => effects[k].rec.id \in IdsOf(inboundMsgs)
  /\ \A k \in DOMAIN toBroker : toBroker[k].type = "PUBREC" => toBroker[k].id \in IdsOf(inboundMsgs)
  /\ \A k \in DOMAIN toClient : toClient[k].type = "PUBLISH" /\ toClient[k].qos = 0 =>
       toClient[k].msg <= inSent /\ \A i \in DOMAIN brokerOut : brokerOut[i].msg # toClient[k].msg

\* With a store: what it will hold when all calls have been made.
Tag(key) == IF key = "sc" THEN AckVersion ELSE Version
WillHave(key, id) ==
  \/ \E k \in DOMAIN effects : effects[k].op = "put" /\ effects[k].rec.key = key /\ effects[k].rec.id = id
  \/ /\ HasRecord(key, id)
     /\ ~\E k \in DOMAIN effects : /\ effects[k].op = "remove" /\ effects[k].rec.key = key
                                   /\ effects[k].rec.id = id /\ effects[k].rec.ver = Tag(key)

IsStoreCall(e) == e.op \in {"put", "remove"}

\* Its keys, and those of the calls to come.
KeysInv ==
  /\ \A e \in pstore : e.ver = Tag(e.key)
  /\ \A e, f \in pstore : SameKey(e, f) => e = f
  /\ \A k \in DOMAIN effects : effects[k].op = "put" => effects[k].rec.ver = Tag(effects[k].rec.key)
  /\ \A j, k \in DOMAIN effects :
       IsStoreCall(effects[j]) /\ IsStoreCall(effects[k]) /\ SameKey(effects[j].rec, effects[k].rec) => j = k
  /\ IdsDiffer(inboundMsgs)
  /\ \A i, j \in DOMAIN messageQueue : i < j => messageQueue[i].seqno < messageQueue[j].seqno
  /\ \A i \in DOMAIN messageQueue : messageQueue[i].seqno <= qentry_seqno

Agreed(key, ids) == \A id \in Nat : WillHave(key, id) <=> id \in ids
ReleasedIds == {outboundMsgs[i].msgid : i \in {j \in DOMAIN outboundMsgs : outboundMsgs[j].next = "PUBCOMP"}}
Seqnos == {messageQueue[i].seqno : i \in DOMAIN messageQueue}

\* The store will hold what the memory holds.
AgreeInv == alive =>
  /\ Agreed("s", IdsOf(outboundMsgs)) /\ Agreed("sc", ReleasedIds)
  /\ Agreed("q", Seqnos)

\* All of it.
CoreInv ==
  /\ SessionTypeOK /\ LinkInv /\ TokensMatched /\ OneToken /\ ListsInv /\ KeysInv
  /\ RecordsInv /\ CallsInv /\ (~persistent => pstore = {})
  /\ Version = 4 => (persistent => ReleaseInv) /\ HeldInv /\ NeverTwice
  /\ crashes = 0 => ReceivedInv
  /\ (Version = 4 /\ persistent /\ ~Clean) => AgreeInv

\* The broker waits for the PUBREC of its message n.
Expected(n) == \E i \in DOMAIN brokerOut : brokerOut[i].msgid = n /\ brokerOut[i].next = "PUBREC"

\* A PUBREC is sent for a message that is listed, which has its record; a record
\* without a message is of one the broker sends again.
ReceiptInv ==
  /\ \A k \in DOMAIN effects : effects[k].op = "send" /\ effects[k].rec.type = "PUBREC"
       => effects[k].rec.id \in IdsOf(inboundMsgs)
  /\ \A k \in DOMAIN toBroker : toBroker[k].type = "PUBREC" => toBroker[k].id \in IdsOf(inboundMsgs)
  /\ (Version = 4 /\ persistent /\ ~Clean /\ alive) =>
       /\ \A n \in IdsOf(inboundMsgs) : WillHave("r", n)
       /\ \A n : WillHave("r", n) => n \in IdsOf(inboundMsgs) \/ Expected(n)

\* MQTTProtocol_retries puts no record that was not there: it may stop anywhere.
ResendInv ==
  /\ effects = <<>> => ~resending
  /\ (Version = 4 /\ persistent /\ ~Clean /\ resending) =>
       \A k \in DOMAIN effects : /\ effects[k].op \in {"put", "send"}
                                 /\ effects[k].op = "put" => HasRecord(effects[k].rec.key, effects[k].rec.id)

\* All of it, until a client is restored from a disk that has lost a record.
SessionInv ==
  /\ crashes \in Nat /\ (crashes = 0 => alive /\ ~spoilt)
  /\ ~spoilt => CoreInv /\ ReceiptInv /\ ResendInv
-------------------------------------------------------------------------------
\* Sequences.

\* The first element and the rest of a sequence that is not empty, index by index.
LEMMA TailAt ==
  ASSUME NEW S, NEW q \in Seq(S), q # <<>>
  PROVE  /\ Tail(q) \in Seq(S) /\ Len(Tail(q)) = Len(q) - 1 /\ Len(q) \in Nat \ {0}
         /\ Head(q) = q[1] /\ 1 \in DOMAIN q /\ Head(q) \in S
         /\ DOMAIN Tail(q) = 1..(Len(q) - 1) /\ DOMAIN q = 1..Len(q)
         /\ \A k \in DOMAIN Tail(q) : k + 1 \in DOMAIN q /\ Tail(q)[k] = q[k + 1]
         /\ \A k \in DOMAIN q : k # 1 => k - 1 \in DOMAIN Tail(q) /\ Tail(q)[k - 1] = q[k]
  BY HeadTailProperties, EmptySeq

\* A sequence with one element more, index by index.
LEMMA AppendAt ==
  ASSUME NEW S, NEW q \in Seq(S), NEW x \in S
  PROVE  /\ Append(q, x) \in Seq(S) /\ Len(Append(q, x)) = Len(q) + 1 /\ Len(q) \in Nat
         /\ DOMAIN Append(q, x) = 1..(Len(q) + 1) /\ DOMAIN q = 1..Len(q)
         /\ \A k \in DOMAIN q : k \in DOMAIN Append(q, x) /\ Append(q, x)[k] = q[k]
         /\ Append(q, x)[Len(q) + 1] = x
         /\ \A k \in DOMAIN Append(q, x) : k = Len(q) + 1 \/ k \in DOMAIN q
  BY AppendProperties

\* What the removal of an entry leaves: all others, in their order.
LEMMA WithoutFacts ==
  ASSUME NEW S, NEW list \in Seq(S), NEW id, IdsDiffer(list)
  PROVE  LET w == Without(list, id)
         IN /\ w \in Seq(S)
            /\ \A j \in DOMAIN w : \E i \in DOMAIN list : w[j] = list[i] /\ list[i].msgid # id
            /\ \A i \in DOMAIN list : list[i].msgid # id => \E j \in DOMAIN w : w[j] = list[i]
            /\ \A j, k \in DOMAIN w : j < k => \E h, i \in DOMAIN list : h < i /\ w[j] = list[h] /\ w[k] = list[i]
            /\ IdsDiffer(w)
            /\ IdsOf(w) = IdsOf(list) \ {id}
<1> DEFINE w == Without(list, id)
<1>0. Len(list) \in Nat /\ DOMAIN list = 1..Len(list)
  BY LenProperties
<1>1. CASE id \notin IdsOf(list)
  <2>1. w = list
    BY <1>1 DEF Without
  <2> QED
    BY <1>0, <1>1, <2>1 DEF IdsOf
<1>2. CASE id \in IdsOf(list)
  <2> DEFINE at == CHOOSE i \in DOMAIN list : list[i].msgid = id
  <2>1. at \in DOMAIN list /\ list[at].msgid = id
    BY <1>2 DEF IdsOf
  <2>2. w = [i \in 1..(Len(list) - 1) |-> IF i < at THEN list[i] ELSE list[i + 1]]
    BY <1>2 DEF Without
  <2> HIDE DEF at, w
  <2>3. Len(list) - 1 \in Nat
    BY <1>0, <2>1
  <2>4. w \in Seq(S) /\ DOMAIN w = 1..(Len(list) - 1)
    <3>1. \A i \in 1..(Len(list) - 1) : w[i] \in S
      BY <1>0, <2>1, <2>2, ElementOfSeq
    <3>2. w \in [1..(Len(list) - 1) -> S]
      BY <2>2, <3>1
    <3> QED
      BY <2>3, <3>2, SeqDef
  <2>5. \A i \in DOMAIN list : list[i].msgid = id => i = at
    BY <2>1 DEF IdsDiffer
  <2>6. \A j \in DOMAIN w : LET i == IF j < at THEN j ELSE j + 1
                            IN i \in DOMAIN list /\ i # at /\ w[j] = list[i]
    BY <1>0, <2>1, <2>2, <2>4
  <2>7. \A i \in DOMAIN list : i # at => \E j \in DOMAIN w : w[j] = list[i]
    <3> SUFFICES ASSUME NEW i \in DOMAIN list, i # at PROVE \E j \in DOMAIN w : w[j] = list[i]
      OBVIOUS
    <3>1. CASE i < at
      BY <3>1, <1>0, <2>1, <2>2, <2>4
    <3>2. CASE i > at
      <4>1. i - 1 \in DOMAIN w /\ ~(i - 1 < at) /\ (i - 1) + 1 = i
        BY <3>2, <1>0, <2>1, <2>4
      <4> QED
        BY <4>1, <2>2, <2>4
    <3> QED
      BY <3>1, <3>2, <1>0, <2>1
  <2>8. \A j, k \in DOMAIN w : j < k => \E h, i \in DOMAIN list : h < i /\ w[j] = list[h] /\ w[k] = list[i]
    BY <1>0, <2>1, <2>4, <2>6
  <2>9. IdsDiffer(w)
    BY <1>0, <2>1, <2>4, <2>6 DEF IdsDiffer
  <2>10. IdsOf(w) = IdsOf(list) \ {id}
    BY <2>1, <2>5, <2>6, <2>7 DEF IdsOf
  <2>11. \A j \in DOMAIN w : \E i \in DOMAIN list : w[j] = list[i] /\ list[i].msgid # id
    BY <2>5, <2>6
  <2> QED
    BY <2>1, <2>4, <2>5, <2>7, <2>8, <2>9, <2>10, <2>11 DEF w
<1> QED
  BY <1>1, <1>2

\* MQTTProtocol_retries sends a message again by its record and its packet: PUBREL if
\* it waits for PUBCOMP, else PUBLISH.
LEMMA RetryFacts ==
  ASSUME NEW e \in Entries
  PROVE  /\ e.next = "PUBCOMP" =>
              /\ Retry(e) = <<Put("sc", AckVersion, e.msgid, 1, 0), Send(Packet("PUBREL", e.msgid, 1, 0))>>
         /\ e.next # "PUBCOMP" =>
              /\ Retry(e) = <<Put("s", Version, e.msgid, e.qos, e.msg), Send(Packet("PUBLISH", e.msgid, e.qos, e.msg))>>
         /\ Retry(e)[1] \in Effects /\ Retry(e)[2] \in Effects
<1>1. e.qos > 0 /\ e.qos \in 1..2 /\ e.qos \in 0..2 /\ e.msgid \in Nat /\ e.msg \in Messages
  BY DEF Entries
<1>2. CASE e.next = "PUBCOMP"
  <2>1. Retry(e) = <<Put("sc", AckVersion, e.msgid, 1, 0), Send(Packet("PUBREL", e.msgid, 1, 0))>>
    BY <1>2 DEF Retry, SendPubrel
  <2>2. Put("sc", AckVersion, e.msgid, 1, 0) \in Effects
    BY <1>1 DEF Put, AckVersion, Effects, StoreRecords
  <2>3. Send(Packet("PUBREL", e.msgid, 1, 0)) \in Effects
    BY <1>1 DEF Send, Packet, Effects, Packets
  <2> QED
    BY <1>2, <2>1, <2>2, <2>3
<1>3. CASE e.next # "PUBCOMP"
  <2>4. Retry(e) = <<Put("s", Version, e.msgid, e.qos, e.msg), Send(Packet("PUBLISH", e.msgid, e.qos, e.msg))>>
    BY <1>1, <1>3 DEF Retry, SendPublish
  <2>2. Put("s", Version, e.msgid, e.qos, e.msg) \in Effects
    BY <1>1, SessionAssumption DEF Put, Effects, StoreRecords
  <2>3. Send(Packet("PUBLISH", e.msgid, e.qos, e.msg)) \in Effects
    BY <1>1 DEF Send, Packet, Effects, Packets
  <2> QED
    BY <1>3, <2>4, <2>2, <2>3
<1> QED
  BY <1>2, <1>3

\* The calls that send the whole list again: for each entry its record, then
\* its packet.
LEMMA RetriesFacts ==
  ASSUME NEW list \in Seq(Entries)
  PROVE  LET r == Retries(list)
         IN /\ r \in Seq(Effects)
            /\ DOMAIN r = 1..(2 * Len(list))
            /\ \A k \in DOMAIN r : \E i \in DOMAIN list :
                 (k = 2 * i - 1 /\ r[k] = Retry(list[i])[1]) \/ (k = 2 * i /\ r[k] = Retry(list[i])[2])
            /\ \A i \in DOMAIN list : /\ 2 * i - 1 \in DOMAIN r /\ r[2 * i - 1] = Retry(list[i])[1]
                                      /\ 2 * i \in DOMAIN r /\ r[2 * i] = Retry(list[i])[2]
<1> DEFINE r == Retries(list)
<1>0. Len(list) \in Nat /\ DOMAIN list = 1..Len(list) /\ 2 * Len(list) \in Nat
  BY LenProperties
<1>1. r = [k \in 1..(2 * Len(list)) |-> Retry(list[(k + 1) \div 2])[IF k % 2 = 1 THEN 1 ELSE 2]]
  BY DEF Retries
<1> HIDE DEF r
<1>2. \A i \in DOMAIN list : /\ 2 * i - 1 \in 1..(2 * Len(list)) /\ 2 * i \in 1..(2 * Len(list))
                             /\ ((2 * i - 1) + 1) \div 2 = i /\ (2 * i + 1) \div 2 = i
                             /\ (2 * i - 1) % 2 = 1 /\ (2 * i) % 2 = 0
  BY <1>0
<1>3. \A i \in DOMAIN list : /\ 2 * i - 1 \in DOMAIN r /\ r[2 * i - 1] = Retry(list[i])[1]
                             /\ 2 * i \in DOMAIN r /\ r[2 * i] = Retry(list[i])[2]
  BY <1>1, <1>2
<1>4. \A k \in 1..(2 * Len(list)) : \E i \in DOMAIN list : k = 2 * i - 1 \/ k = 2 * i
  <2> SUFFICES ASSUME NEW k \in 1..(2 * Len(list)) PROVE \E i \in DOMAIN list : k = 2 * i - 1 \/ k = 2 * i
    OBVIOUS
  <2>1. (k + 1) \div 2 \in 1..Len(list) /\ (k = 2 * ((k + 1) \div 2) - 1 \/ k = 2 * ((k + 1) \div 2))
    BY <1>0
  <2> QED
    BY <1>0, <2>1
<1>5. \A k \in DOMAIN r : \E i \in DOMAIN list :
        (k = 2 * i - 1 /\ r[k] = Retry(list[i])[1]) \/ (k = 2 * i /\ r[k] = Retry(list[i])[2])
  <2>1. DOMAIN r = 1..(2 * Len(list))
    BY <1>1
  <2> QED
    <3> SUFFICES ASSUME NEW k \in DOMAIN r
        PROVE \E i \in DOMAIN list : (k = 2 * i - 1 /\ r[k] = Retry(list[i])[1]) \/ (k = 2 * i /\ r[k] = Retry(list[i])[2])
      OBVIOUS
    <3>1. PICK i \in DOMAIN list : k = 2 * i - 1 \/ k = 2 * i
      BY <1>4, <2>1
    <3> QED
      BY <1>3, <3>1
<1>6. \A e \in Entries : Retry(e)[1] \in Effects /\ Retry(e)[2] \in Effects
  BY RetryFacts
<1>7. r \in [1..(2 * Len(list)) -> Effects]
  <2>1. \A k \in 1..(2 * Len(list)) : r[k] \in Effects
    BY <1>1, <1>5, <1>6, ElementOfSeq, <1>0
  <2> QED
    BY <1>1, <2>1
<1>8. r \in Seq(Effects)
  BY <1>0, <1>7, SeqDef
<1> QED
  BY <1>1, <1>3, <1>5, <1>8 DEF r

\* Records in the order of their ids: all of them, each once.
LEMMA InOrderFacts ==
  ASSUME NEW recs \in SUBSET StoreRecords, IsFiniteSet(recs), NEW list \in InOrder(recs)
  PROVE  /\ list \in Seq(recs)
         /\ DOMAIN list = 1..Len(list)
         /\ \A i \in DOMAIN list : list[i] \in recs
         /\ \A i, j \in DOMAIN list : i < j => list[i].id < list[j].id
         /\ \A e \in recs : \E i \in DOMAIN list : list[i] = e
<1> DEFINE n == Cardinality(recs)
<1>1. n \in Nat
  BY FS_CardinalityType
<1>2. list \in [1..n -> recs] /\ \A i, j \in DOMAIN list : i < j => list[i].id < list[j].id
  BY DEF InOrder
<1>3. list \in Seq(recs) /\ Len(list) = n /\ DOMAIN list = 1..n
  BY <1>1, <1>2, SeqDef
<1>4. \A e \in recs : \E i \in DOMAIN list : list[i] = e
  <2>1. IsFiniteSet(1..n) /\ Cardinality(1..n) = n
    BY <1>1, FS_Interval
  <2>2. \A i, j \in 1..n : list[i] = list[j] => i = j
    <3> SUFFICES ASSUME NEW i \in 1..n, NEW j \in 1..n, list[i] = list[j] PROVE i = j
      OBVIOUS
    <3>1. list[i].id \in Nat /\ list[j].id \in Nat
      BY <1>2 DEF StoreRecords
    <3> QED
      BY <1>1, <1>2, <3>1
  <2>3. list \in Injection(1..n, recs)
    BY <1>2, <2>2 DEF Injection, IsInjective
  <2>4. list \in Surjection(1..n, recs)
    BY <2>1, <2>3, FS_Injection
  <2> QED
    BY <1>3, <2>4 DEF Surjection
<1> QED
  BY <1>2, <1>3, <1>4

\* MQTTPersistence_wrapMsgID turns a sorted list round: every entry stays.
LEMMA WrapFacts ==
  ASSUME NEW list \in Seq(Entries),
         \A i, j \in DOMAIN list : i < j => list[i].msgid < list[j].msgid
  PROVE  LET w == wrapMsgID(list)
         IN /\ w \in Seq(Entries)
            /\ \A i \in DOMAIN w : \E j \in DOMAIN list : w[i] = list[j]
            /\ \A i, j \in DOMAIN w : i # j => \E g, h \in DOMAIN list : g # h /\ w[i] = list[g] /\ w[j] = list[h]
            /\ \A j \in DOMAIN list : \E i \in DOMAIN w : w[i] = list[j]
<1> DEFINE w == wrapMsgID(list)
           n == Len(list)
           gap(i) == IF i = 1 THEN MAX_MSG_ID - list[n].msgid + list[1].msgid
                     ELSE list[i].msgid - list[i - 1].msgid
           first == CHOOSE i \in 1..n : \A j \in 1..n : gap(j) < gap(i) \/ (gap(j) = gap(i) /\ i <= j)
<1>0. n \in Nat /\ DOMAIN list = 1..n /\ \A i \in 1..n : list[i] \in Entries /\ list[i].msgid \in Nat
  <2>1. n \in Nat /\ DOMAIN list = 1..n /\ \A i \in 1..n : list[i] \in Entries
    BY LenProperties, ElementOfSeq
  <2> QED
    BY <2>1 DEF Entries
<1>1. CASE n = 0
  <2>1. w = <<>> /\ list = <<>>
    BY <1>1, EmptySeq DEF wrapMsgID
  <2> QED
    BY <2>1
<1>2. CASE n # 0
  <2>0. n \in 1..n /\ 1 \in 1..n
    BY <1>0, <1>2
  <2> DEFINE top == MAX_MSG_ID + list[n].msgid
  <2>1. \A i \in 1..n : gap(i) \in Int /\ gap(i) <= top
    <3> SUFFICES ASSUME NEW i \in 1..n PROVE gap(i) \in Int /\ gap(i) <= top
      OBVIOUS
    <3>1. list[i].msgid <= list[n].msgid /\ list[1].msgid <= list[n].msgid
      BY <1>0, <2>0
    <3>2. MAX_MSG_ID \in Nat
      BY SessionAssumption
    <3>3. CASE i = 1
      BY <3>1, <3>2, <3>3, <1>0, <2>0
    <3>4. CASE i # 1
      <4>1. i - 1 \in 1..n
        BY <3>4, <1>0
      <4> QED
        BY <3>1, <3>2, <3>4, <4>1, <1>0, <2>0
    <3> QED
      BY <3>3, <3>4
  <2>2. top \in Int
    BY <1>0, <2>0, SessionAssumption
  <2> HIDE DEF gap, top
  <2>3. PICK b \in 1..n : \A j \in 1..n : gap(j) <= gap(b)
    <3> DEFINE T == {top - gap(i) : i \in 1..n}
    <3>1. T \in SUBSET Nat /\ T # {}
      BY <2>0, <2>1, <2>2
    <3>2. PICK x \in T : \A y \in T : x <= y
      BY <3>1, LeastElement
    <3>3. PICK b \in 1..n : x = top - gap(b)
      BY <3>2
    <3>4. \A j \in 1..n : top - gap(b) <= top - gap(j)
      BY <3>2, <3>3
    <3> QED
      BY <3>4, <2>1, <2>2
  <2>4. \E i \in 1..n : \A j \in 1..n : gap(j) < gap(i) \/ (gap(j) = gap(i) /\ i <= j)
    <3> DEFINE T == {i \in 1..n : gap(i) = gap(b)}
    <3>1. T \in SUBSET Nat /\ T # {}
      BY <2>3, <1>0
    <3>2. PICK i \in T : \A y \in T : i <= y
      BY <3>1, LeastElement
    <3>3. \A j \in 1..n : gap(j) < gap(i) \/ (gap(j) = gap(i) /\ i <= j)
      BY <3>2, <2>1, <2>3
    <3> QED
      BY <3>2, <3>3
  <2>5. first \in 1..n
    BY <2>4
  <2>6. w = [i \in 1..n |-> IF first + i - 1 <= n THEN list[first + i - 1] ELSE list[first + i - 1 - n]]
    BY <1>2 DEF wrapMsgID, gap
  <2> HIDE DEF first, w
  <2> DEFINE from(i) == IF first + i - 1 <= n THEN first + i - 1 ELSE first + i - 1 - n
  <2>7. \A i \in 1..n : from(i) \in 1..n /\ w[i] = list[from(i)]
    BY <1>0, <2>5, <2>6
  <2>8. \A i, j \in 1..n : i # j => from(i) # from(j)
    BY <1>0, <2>5
  <2>9. \A j \in 1..n : \E i \in 1..n : from(i) = j
    <3> SUFFICES ASSUME NEW j \in 1..n PROVE \E i \in 1..n : from(i) = j
      OBVIOUS
    <3>1. CASE j >= first
      <4>1. j - first + 1 \in 1..n /\ from(j - first + 1) = j
        BY <3>1, <1>0, <2>5
      <4> QED
        BY <4>1
    <3>2. CASE j < first
      <4>1. j - first + 1 + n \in 1..n /\ from(j - first + 1 + n) = j
        BY <3>2, <1>0, <2>5
      <4> QED
        BY <4>1
    <3> QED
      BY <3>1, <3>2, <1>0, <2>5
  <2>10. DOMAIN w = 1..n /\ w \in Seq(Entries)
    <3>1. w \in [1..n -> Entries]
      <4>1. \A i \in 1..n : w[i] \in Entries
        BY <1>0, <2>7
      <4> QED
        BY <2>6, <4>1
    <3> QED
      BY <1>0, <3>1, SeqDef
  <2> HIDE DEF from
  <2>11. \A i \in DOMAIN w : \E j \in DOMAIN list : w[i] = list[j]
    BY <1>0, <2>7, <2>10
  <2>12. \A i, j \in DOMAIN w : i # j => \E g, h \in DOMAIN list : g # h /\ w[i] = list[g] /\ w[j] = list[h]
    BY <1>0, <2>7, <2>8, <2>10
  <2>13. \A j \in DOMAIN list : \E i \in DOMAIN w : w[i] = list[j]
    BY <1>0, <2>7, <2>9, <2>10
  <2> QED
    BY <2>10, <2>11, <2>12, <2>13 DEF w
<1> QED
  BY <1>0, <1>1, <1>2
-------------------------------------------------------------------------------
\* What each action changes, and what it leaves alone.

\* One call to the store or the socket: the memory of the client stays.
LEMMA EffectDoes ==
  ASSUME Effect
  PROVE
         /\ alive /\ effects # <<>> /\ effects' = Tail(effects)
         /\ \/ Head(effects).op \in {"put", "remove"} /\ pstore' = Stored(Head(effects).op, Head(effects).rec) /\ toBroker' = toBroker
            \/ Head(effects).op = "send" /\ toBroker' = (IF link THEN Append(toBroker, Head(effects).rec) ELSE toBroker) /\ pstore' = pstore
            \/ Head(effects).op = "arrived" /\ pstore' = pstore /\ toBroker' = toBroker
         /\ alive' = alive /\ connected' = connected /\ msgID' = msgID /\ qentry_seqno' = qentry_seqno
         /\ outboundMsgs' = outboundMsgs /\ inboundMsgs' = inboundMsgs /\ messageQueue' = messageQueue /\ link' = link
         /\ toClient' = toClient /\ brokerHeld' = brokerHeld /\ brokerOut' = brokerOut /\ published' = published
         /\ delivered' = delivered /\ qosOf' = qosOf /\ inSent' = inSent /\ completed' = completed
         /\ queued' = queued /\ crashes' = crashes
  BY DEF Effect, Calling, Damaged, Mishap, clientMemory, network, brokerVars, outHistory, inHistory, faults

\* MQTTClient_publish5 touches the outbound side only.
LEMMA PublishDoes ==
  ASSUME Publish
  PROVE
         /\ alive /\ effects = <<>> /\ connected /\ published + inSent < MaxMessages /\ published' = published + 1
         /\ alive' = alive /\ connected' = connected /\ qentry_seqno' = qentry_seqno /\ inboundMsgs' = inboundMsgs
         /\ messageQueue' = messageQueue /\ pstore' = pstore /\ link' = link /\ toBroker' = toBroker
         /\ toClient' = toClient /\ brokerHeld' = brokerHeld /\ brokerOut' = brokerOut /\ delivered' = delivered
         /\ inSent' = inSent /\ completed' = completed /\ queued' = queued /\ crashes' = crashes
  BY DEF Publish, Running, clientMemory, network, brokerVars, outHistory, inHistory, faults

\* What every handler of a received packet has in common.
LEMMA ReceiveDoes ==
  ASSUME NEW type, Receive(type)
  PROVE
         /\ alive /\ effects = <<>> /\ connected /\ toClient # <<>> /\ Head(toClient).type = type /\ toClient' = Tail(toClient)
         /\ alive' = alive /\ connected' = connected /\ msgID' = msgID /\ pstore' = pstore
         /\ link' = link /\ toBroker' = toBroker /\ brokerHeld' = brokerHeld /\ brokerOut' = brokerOut
         /\ published' = published /\ delivered' = delivered /\ qosOf' = qosOf /\ inSent' = inSent
         /\ completed' = completed /\ crashes' = crashes
  BY DEF Receive, Running, clientMemory, network, brokerVars, outHistory, inHistory, faults

\* MQTTClient_run takes the first entry of messageQueue and touches nothing else.
LEMMA MessageArrivedDoes ==
  ASSUME MessageArrived
  PROVE
         /\ alive /\ effects = <<>> /\ messageQueue # <<>> /\ messageQueue' = Tail(messageQueue)
         /\ effects' = <<[op |-> "arrived", rec |-> Head(messageQueue).msg], Unput("q", Version, Head(messageQueue).seqno)>>
         /\ alive' = alive /\ connected' = connected /\ msgID' = msgID /\ qentry_seqno' = qentry_seqno
         /\ outboundMsgs' = outboundMsgs /\ inboundMsgs' = inboundMsgs /\ pstore' = pstore /\ link' = link
         /\ toBroker' = toBroker /\ toClient' = toClient /\ brokerHeld' = brokerHeld /\ brokerOut' = brokerOut
         /\ published' = published /\ delivered' = delivered /\ qosOf' = qosOf /\ inSent' = inSent
         /\ completed' = completed /\ queued' = queued /\ crashes' = crashes
  BY DEF MessageArrived, Running, clientMemory, network, brokerVars, outHistory, inHistory, faults

\* MQTTClient_connect, with a clean session and without.
LEMMA ConnectDoes ==
  ASSUME Connect
  PROVE
         /\ alive /\ effects = <<>> /\ ~connected /\ connected' = TRUE /\ link' = TRUE /\ toBroker' = <<>>
         /\ Clean => /\ outboundMsgs' = <<>> /\ inboundMsgs' = <<>> /\ messageQueue' = <<>>
                     /\ msgID' = 0 /\ effects' = <<>> /\ brokerHeld' = {} /\ brokerOut' = <<>> /\ toClient' = <<>>
         /\ ~Clean => /\ effects' = Retries(outboundMsgs) /\ toClient' = BrokerResends
                      /\ outboundMsgs' = outboundMsgs /\ inboundMsgs' = inboundMsgs /\ messageQueue' = messageQueue
                      /\ msgID' = msgID /\ brokerHeld' = brokerHeld /\ brokerOut' = brokerOut
         /\ alive' = alive /\ qentry_seqno' = qentry_seqno /\ pstore' = pstore /\ published' = published
         /\ delivered' = delivered /\ qosOf' = qosOf /\ inSent' = inSent /\ completed' = completed
         /\ queued' = queued /\ crashes' = crashes
  BY DEF Connect, Running, clientMemory, network, brokerVars, outHistory, inHistory, faults

\* MQTTClient_closeSession: the connection ends, and a clean session with it.
LEMMA CloseDoes ==
  ASSUME SocketError \/ PingTimeout
  PROVE
         /\ alive /\ effects = <<>> /\ connected /\ connected' = FALSE /\ link' = FALSE /\ toBroker' = <<>> /\ toClient' = <<>>
         /\ Clean => outboundMsgs' = <<>> /\ inboundMsgs' = <<>> /\ messageQueue' = <<>> /\ msgID' = 0
         /\ ~Clean => /\ outboundMsgs' = outboundMsgs /\ inboundMsgs' = inboundMsgs /\ messageQueue' = messageQueue
                      /\ msgID' = msgID
         /\ alive' = alive /\ qentry_seqno' = qentry_seqno /\ effects' = effects /\ pstore' = pstore
         /\ brokerHeld' = brokerHeld /\ brokerOut' = brokerOut /\ published' = published /\ delivered' = delivered
         /\ qosOf' = qosOf /\ inSent' = inSent /\ completed' = completed /\ queued' = queued
         /\ crashes' = crashes
  BY DEF GivenUp, SocketError, PingTimeout, CloseSession, Running, clientMemory, network, brokerVars, outHistory, inHistory, faults

\* MQTTProtocol_keepalive only has a PINGREQ sent.
LEMMA PingDoes ==
  ASSUME Ping
  PROVE
         /\ alive /\ effects = <<>>
         /\ effects' = <<Send(Packet("PINGREQ", 0, 0, 0))>>
         /\ alive' = alive /\ connected' = connected /\ msgID' = msgID /\ qentry_seqno' = qentry_seqno
         /\ outboundMsgs' = outboundMsgs /\ inboundMsgs' = inboundMsgs /\ messageQueue' = messageQueue /\ pstore' = pstore
         /\ link' = link /\ toBroker' = toBroker /\ toClient' = toClient /\ brokerHeld' = brokerHeld
         /\ brokerOut' = brokerOut /\ published' = published /\ delivered' = delivered /\ qosOf' = qosOf
         /\ inSent' = inSent /\ completed' = completed /\ queued' = queued /\ crashes' = crashes
  BY DEF Ping, Running, clientMemory, network, brokerVars, outHistory, inHistory, faults

\* A broken connection loses what is under way.
LEMMA BreakDoes ==
  ASSUME Break \/ WriteFails \/ (AnswerRefused /\ effects' = effects)
  PROVE
         /\ link' = FALSE /\ toBroker' = <<>> /\ toClient' = <<>>
         /\ alive' = alive /\ connected' = connected /\ msgID' = msgID /\ qentry_seqno' = qentry_seqno
         /\ outboundMsgs' = outboundMsgs /\ inboundMsgs' = inboundMsgs /\ messageQueue' = messageQueue /\ effects' = effects
         /\ pstore' = pstore /\ brokerHeld' = brokerHeld /\ brokerOut' = brokerOut /\ published' = published
         /\ delivered' = delivered /\ qosOf' = qosOf /\ inSent' = inSent /\ completed' = completed
         /\ queued' = queued /\ crashes' = crashes
  BY DEF GivenUp, Break, WriteFails, AnswerRefused, clientMemory, network, brokerVars, outHistory, inHistory, faults

\* The end of the process loses the memory and keeps the store.
LEMMA CrashDoes ==
  ASSUME Crash
  PROVE
         /\ alive /\ crashes' = crashes + 1 /\ alive' = FALSE /\ connected' = FALSE /\ msgID' = 0 /\ qentry_seqno' = 0
         /\ outboundMsgs' = <<>> /\ inboundMsgs' = <<>> /\ messageQueue' = <<>> /\ effects' = <<>>
         /\ link' = FALSE /\ toBroker' = <<>> /\ toClient' = <<>>
         /\ pstore' = pstore /\ brokerHeld' = brokerHeld /\ brokerOut' = brokerOut /\ published' = published
         /\ delivered' = delivered /\ qosOf' = qosOf /\ inSent' = inSent /\ completed' = completed
         /\ queued' = queued
  BY DEF GivenUp, Crash, clientMemory, network, brokerVars, outHistory, inHistory, faults

\* MQTTClient_create restores from the store and sends nothing.
LEMMA RestartDoes ==
  ASSUME Restart
  PROVE
         /\ ~alive /\ alive' = TRUE
         /\ connected' = connected /\ msgID' = msgID /\ effects' = effects /\ link' = link
         /\ toBroker' = toBroker /\ toClient' = toClient /\ brokerHeld' = brokerHeld /\ brokerOut' = brokerOut
         /\ published' = published /\ delivered' = delivered /\ qosOf' = qosOf /\ inSent' = inSent
         /\ completed' = completed /\ queued' = queued /\ crashes' = crashes
  BY DEF Restart, clientMemory, network, brokerVars, outHistory, inHistory, faults

\* The broker takes the first packet; the client's side stays.
LEMMA BrokerReceivesDoes ==
  ASSUME BrokerReceives
  PROVE
         /\ link /\ toBroker # <<>> /\ toBroker' = Tail(toBroker)
         /\ alive' = alive /\ connected' = connected /\ msgID' = msgID /\ qentry_seqno' = qentry_seqno
         /\ outboundMsgs' = outboundMsgs /\ inboundMsgs' = inboundMsgs /\ messageQueue' = messageQueue /\ effects' = effects
         /\ pstore' = pstore /\ link' = link /\ published' = published /\ qosOf' = qosOf
         /\ inSent' = inSent /\ queued' = queued /\ crashes' = crashes
  BY DEF BrokerReceives, clientMemory, network, brokerVars, outHistory, inHistory, faults

\* The broker publishes a message of its own; the client's side stays.
LEMMA BrokerPublishesDoes ==
  ASSUME BrokerPublishes
  PROVE
         /\ link /\ published + inSent < MaxMessages /\ inSent' = inSent + 1
         /\ alive' = alive /\ connected' = connected /\ msgID' = msgID /\ qentry_seqno' = qentry_seqno
         /\ outboundMsgs' = outboundMsgs /\ inboundMsgs' = inboundMsgs /\ messageQueue' = messageQueue /\ effects' = effects
         /\ pstore' = pstore /\ link' = link /\ toBroker' = toBroker /\ brokerHeld' = brokerHeld
         /\ published' = published /\ delivered' = delivered /\ qosOf' = qosOf /\ completed' = completed
         /\ queued' = queued /\ crashes' = crashes
  BY DEF BrokerPublishes, clientMemory, network, brokerVars, outHistory, inHistory, faults

-------------------------------------------------------------------------------
\* The invariant.

\* A list of two calls.
LEMMA TwoListed ==
  ASSUME NEW S, NEW x \in S, NEW y \in S
  PROVE  <<x, y>> \in Seq(S)
  OBVIOUS

\* The empty lists of a client that has just been made, closed or ended.
LEMMA EmptyDomain ==
  /\ DOMAIN <<>> = {} /\ <<>> \in Seq(Entries) /\ <<>> \in Seq(InEntries) /\ <<>> \in Seq(QueueEntries)
  /\ <<>> \in Seq(Effects) /\ <<>> \in Seq(Packets)
  BY EmptySeq

\* Without a call, made or to come, the store holds what it held.
LEMMA SameStore ==
  ASSUME pstore' = pstore, effects' = effects, NEW key, NEW ids
  PROVE  Agreed(key, ids)' <=> Agreed(key, ids)
<1>1. \A id : WillHave(key, id)' <=> WillHave(key, id)
  BY DEF WillHave, HasRecord, Records, Tag, AckVersion
<1> QED
  BY <1>1 DEF Agreed

\* Packets are lost, but lists, store and calls to come stay as they agree.
LEMMA BreakStep ==
  ASSUME CoreInv, Break \/ WriteFails \/ (AnswerRefused /\ effects' = effects)
  PROVE  CoreInv'
<1>0. /\ SessionTypeOK /\ LinkInv /\ TokensMatched /\ OneToken /\ ListsInv /\ KeysInv /\ RecordsInv /\ CallsInv
      /\ ~persistent => pstore = {}
      /\ Version = 4 => (persistent => ReleaseInv) /\ HeldInv /\ NeverTwice
      /\ crashes = 0 => ReceivedInv
      /\ (Version = 4 /\ persistent /\ ~Clean) => AgreeInv
  BY DEF CoreInv
<1>a. /\ link' = FALSE /\ toBroker' = <<>> /\ toClient' = <<>>
      /\ alive' = alive /\ connected' = connected /\ msgID' = msgID /\ qentry_seqno' = qentry_seqno
      /\ outboundMsgs' = outboundMsgs /\ inboundMsgs' = inboundMsgs /\ messageQueue' = messageQueue /\ effects' = effects
      /\ pstore' = pstore /\ brokerHeld' = brokerHeld /\ brokerOut' = brokerOut /\ published' = published
      /\ delivered' = delivered /\ qosOf' = qosOf /\ inSent' = inSent /\ completed' = completed
      /\ queued' = queued /\ crashes' = crashes
  BY BreakDoes
<1>1. SessionTypeOK'
  BY <1>0, <1>a, EmptyDomain DEF SessionTypeOK
<1>2. LinkInv'
  BY <1>0, <1>a DEF LinkInv
<1>3. TokensMatched' /\ OneToken'
  BY <1>0, <1>a, EmptyDomain DEF TokensMatched, OneToken, Matched
<1>4. ListsInv'
  BY <1>0, <1>a DEF ListsInv, MsgIdsDistinct, IdsDiffer, PublicationOrder
<1>5. KeysInv'
  BY <1>0, <1>a DEF KeysInv, IdsDiffer
<1>6. RecordsInv' /\ CallsInv' /\ (~persistent => pstore = {})'
  BY <1>0, <1>a DEF RecordsInv, CallsInv, Records, IdsOf
<1>7. (Version = 4 => (persistent => ReleaseInv) /\ HeldInv /\ NeverTwice)'
  BY <1>0, <1>a, EmptyDomain DEF ReleaseInv, HeldInv, NeverTwice, HasRecord, Records
<1>8. (crashes = 0 => ReceivedInv)'
  BY <1>0, <1>a, EmptyDomain DEF ReceivedInv, IdsOf
<1>9. ((Version = 4 /\ persistent /\ ~Clean) => AgreeInv)'
  BY <1>0, <1>a, SameStore DEF AgreeInv, ReleasedIds, Seqnos, IdsOf, Clean
<1> QED
  BY <1>1, <1>2, <1>3, <1>4, <1>5, <1>6, <1>7, <1>8, <1>9 DEF CoreInv

\* The process may end between any two calls: what the invariant says of the
\* store does not rest on the memory.
LEMMA CrashStep ==
  ASSUME CoreInv, Crash
  PROVE  CoreInv'
<1>0. /\ SessionTypeOK /\ LinkInv /\ TokensMatched /\ OneToken /\ ListsInv /\ KeysInv /\ RecordsInv /\ CallsInv
      /\ ~persistent => pstore = {}
      /\ Version = 4 => (persistent => ReleaseInv) /\ HeldInv /\ NeverTwice
  BY DEF CoreInv
<1>1. SessionTypeOK'
  <2>1. (crashes \in Nat)' /\ (msgID \in Nat)' /\ (qentry_seqno \in Nat)'
    BY <1>0, CrashDoes DEF SessionTypeOK
  <2>2. (outboundMsgs \in Seq(Entries) /\ inboundMsgs \in Seq(InEntries) /\ messageQueue \in Seq(QueueEntries))'
    BY CrashDoes, EmptyDomain
  <2>3. (effects \in Seq(Effects) /\ toBroker \in Seq(Packets) /\ toClient \in Seq(Packets))'
    BY CrashDoes, EmptyDomain
  <2> QED
    BY <1>0, <2>1, <2>2, <2>3, CrashDoes DEF SessionTypeOK
<1>2. LinkInv' /\ (crashes = 0 => FALSE)'
  BY <1>0, CrashDoes DEF LinkInv, SessionTypeOK
<1>3. TokensMatched' /\ OneToken'
  BY <1>0, CrashDoes, EmptyDomain DEF TokensMatched, OneToken
<1>4. ListsInv'
  BY <1>0, CrashDoes, EmptyDomain DEF ListsInv, MsgIdsDistinct, IdsDiffer, PublicationOrder
<1>5. KeysInv'
  BY <1>0, CrashDoes, EmptyDomain DEF KeysInv, IdsDiffer
<1>6. RecordsInv' /\ CallsInv' /\ (~persistent => pstore = {})'
  BY <1>0, CrashDoes, EmptyDomain DEF RecordsInv, CallsInv, Records
<1>7. (Version = 4 => (persistent => ReleaseInv) /\ HeldInv /\ NeverTwice)'
  BY <1>0, CrashDoes, EmptyDomain DEF ReleaseInv, HeldInv, NeverTwice, HasRecord, Records
<1>8. AgreeInv'
  BY CrashDoes DEF AgreeInv
<1> QED
  BY <1>1, <1>2, <1>3, <1>4, <1>5, <1>6, <1>7, <1>8 DEF CoreInv

\* The end of a connection, by a socket error or a missing PINGRESP: calls have been
\* made, and no token is left.
LEMMA CloseStep ==
  ASSUME CoreInv, SocketError \/ PingTimeout
  PROVE  CoreInv'
<1>0. /\ SessionTypeOK /\ LinkInv /\ TokensMatched /\ OneToken /\ ListsInv /\ KeysInv /\ RecordsInv /\ CallsInv
      /\ ~persistent => pstore = {}
      /\ Version = 4 => (persistent => ReleaseInv) /\ HeldInv /\ NeverTwice
      /\ crashes = 0 => ReceivedInv
      /\ (Version = 4 /\ persistent /\ ~Clean) => AgreeInv
  BY DEF CoreInv
<1>a. /\ Clean => outboundMsgs' = <<>> /\ inboundMsgs' = <<>> /\ messageQueue' = <<>> /\ msgID' = 0
      /\ ~Clean => /\ outboundMsgs' = outboundMsgs /\ inboundMsgs' = inboundMsgs
                   /\ messageQueue' = messageQueue /\ msgID' = msgID
  BY CloseDoes
<1>1. SessionTypeOK'
  <2>1. (msgID \in Nat)'
    BY <1>0, <1>a DEF SessionTypeOK
  <2>2. (outboundMsgs \in Seq(Entries) /\ inboundMsgs \in Seq(InEntries) /\ messageQueue \in Seq(QueueEntries))'
    BY <1>0, <1>a, EmptyDomain DEF SessionTypeOK
  <2>3. (effects \in Seq(Effects) /\ toBroker \in Seq(Packets) /\ toClient \in Seq(Packets))'
    BY <1>0, CloseDoes, EmptyDomain DEF SessionTypeOK
  <2> QED
    BY <1>0, <2>1, <2>2, <2>3, CloseDoes DEF SessionTypeOK
<1>2. LinkInv'
  BY <1>0, CloseDoes, EmptyDomain DEF LinkInv
<1>3. TokensMatched' /\ OneToken'
  BY <1>0, CloseDoes, EmptyDomain DEF TokensMatched, OneToken
<1>4. ListsInv'
  BY <1>0, CloseDoes, EmptyDomain, ZenonT(60) DEF ListsInv, MsgIdsDistinct, IdsDiffer, PublicationOrder
<1>5. KeysInv'
  BY <1>0, CloseDoes, EmptyDomain DEF KeysInv, IdsDiffer
<1>6. RecordsInv' /\ CallsInv' /\ (~persistent => pstore = {})'
  <2>1. CallsInv' /\ (~persistent => pstore = {})'
    BY <1>0, CloseDoes, EmptyDomain DEF CallsInv
  <2>2. pstore' = pstore /\ published' = published /\ qosOf' = qosOf
    BY CloseDoes
  <2>3. CASE Clean
    BY <1>0, <1>a, <2>1, <2>2, <2>3, EmptyDomain DEF RecordsInv, Records
  <2>4. CASE ~Clean
    BY <1>0, <1>a, <2>1, <2>2, <2>4 DEF RecordsInv, Records
  <2> QED
    BY <2>3, <2>4
<1>7. (Version = 4 => (persistent => ReleaseInv) /\ HeldInv /\ NeverTwice)'
  BY <1>0, CloseDoes, EmptyDomain, ZenonT(60) DEF ReleaseInv, HeldInv, NeverTwice, HasRecord, Records
<1>8. (crashes = 0 => ReceivedInv)'
  <2>1. /\ crashes' = crashes /\ completed' = completed /\ queued' = queued /\ inSent' = inSent
        /\ brokerOut' = brokerOut /\ effects' = <<>> /\ toBroker' = <<>> /\ toClient' = <<>> /\ ~connected'
    BY CloseDoes
  <2>2. CASE Clean
    BY <1>0, <1>a, <2>1, <2>2, EmptyDomain DEF ReceivedInv, Clean
  <2>3. CASE ~Clean
    BY <1>0, <1>a, <2>1, <2>3, EmptyDomain, CloseDoes DEF ReceivedInv, IdsOf, Clean
  <2> QED
    BY <2>2, <2>3
<1>9. ((Version = 4 /\ persistent /\ ~Clean) => AgreeInv)'
  BY <1>0, CloseDoes, SameStore DEF AgreeInv, ReleasedIds, Seqnos, IdsOf, Clean
<1> QED
  BY <1>1, <1>2, <1>3, <1>4, <1>5, <1>6, <1>7, <1>8, <1>9 DEF CoreInv

\* The store is to be left as it is, by calls that begin.
LEMMA NoStoreCalls ==
  ASSUME pstore' = pstore, effects = <<>>, NEW key, NEW ids,
         \A k \in DOMAIN effects' : ~(effects'[k].op = "put") /\ ~(effects'[k].op = "remove")
  PROVE  Agreed(key, ids)' <=> Agreed(key, ids)
<1>1. \A id : WillHave(key, id)' <=> WillHave(key, id)
  BY EmptyDomain DEF WillHave, HasRecord, Records
<1> QED
  BY <1>1 DEF Agreed

\* MQTTProtocol_keepalive: a PINGREQ belongs to no exchange.
LEMMA PingStep ==
  ASSUME CoreInv, Ping
  PROVE  CoreInv'
<1>0. /\ SessionTypeOK /\ LinkInv /\ TokensMatched /\ OneToken /\ ListsInv /\ KeysInv /\ RecordsInv /\ CallsInv
      /\ ~persistent => pstore = {}
      /\ Version = 4 => (persistent => ReleaseInv) /\ HeldInv /\ NeverTwice
      /\ crashes = 0 => ReceivedInv
      /\ (Version = 4 /\ persistent /\ ~Clean) => AgreeInv
  BY DEF CoreInv
<1>a. /\ effects' \in Seq(Effects) /\ DOMAIN effects' = {1} /\ effects'[1].op = "send"
      /\ effects'[1].rec.type = "PINGREQ"
  <2>1. Send(Packet("PINGREQ", 0, 0, 0)) \in Effects
    BY DEF Send, Packet, Effects, Packets
  <2> DEFINE e == Send(Packet("PINGREQ", 0, 0, 0))
  <2>2. effects' = <<e>>
    BY PingDoes
  <2>3. e.op = "send" /\ e.rec.type = "PINGREQ"
    BY DEF Send, Packet
  <2> HIDE DEF e
  <2> QED
    BY <2>1, <2>2, <2>3 DEF e
<1>1. SessionTypeOK'
  BY <1>0, <1>a, PingDoes DEF SessionTypeOK
<1>2. LinkInv'
  BY <1>0, <1>a, PingDoes DEF LinkInv
<1>3. TokensMatched' /\ OneToken'
  <2>1. ~Forth(effects'[1].rec) /\ ~Back(effects'[1].rec)
    BY <1>a DEF Forth, Back, Acks
  <2>2. \A p : ~SameWay(effects'[1].rec, p) /\ ~Opposite(effects'[1].rec, p)
    BY <2>1 DEF SameWay, Opposite
  <2>3. /\ toBroker' = toBroker /\ toClient' = toClient /\ outboundMsgs' = outboundMsgs
        /\ brokerOut' = brokerOut
    BY PingDoes
  <2>4. TokensMatched'
    BY <1>0, <1>a, <2>1, <2>3 DEF TokensMatched, Matched
  <2>5. OneToken'
    BY <1>0, <1>a, <2>2, <2>3 DEF OneToken
  <2> QED
    BY <2>4, <2>5
<1>4. ListsInv'
  BY <1>0, PingDoes DEF ListsInv, MsgIdsDistinct, IdsDiffer, PublicationOrder
<1>5. KeysInv'
  BY <1>0, <1>a, PingDoes DEF KeysInv, IdsDiffer, IsStoreCall
<1>6. RecordsInv' /\ CallsInv' /\ (~persistent => pstore = {})'
  BY <1>0, <1>a, PingDoes DEF RecordsInv, CallsInv, Records
<1>7. (Version = 4 => (persistent => ReleaseInv) /\ HeldInv /\ NeverTwice)'
  BY <1>0, <1>a, PingDoes DEF ReleaseInv, HeldInv, NeverTwice, HasRecord, Records
<1>8. (crashes = 0 => ReceivedInv)'
  BY <1>0, <1>a, PingDoes DEF ReceivedInv, IdsOf
<1>9. ((Version = 4 /\ persistent /\ ~Clean) => AgreeInv)'
  BY <1>0, <1>a, PingDoes, NoStoreCalls DEF AgreeInv, ReleasedIds, Seqnos, IdsOf, Clean
<1> QED
  BY <1>1, <1>2, <1>3, <1>4, <1>5, <1>6, <1>7, <1>8, <1>9 DEF CoreInv

\* MQTTClient_run hands an entry of messageQueue over and removes its record.
LEMMA MessageArrivedStep ==
  ASSUME CoreInv, MessageArrived
  PROVE  CoreInv'
<1>0. /\ SessionTypeOK /\ LinkInv /\ TokensMatched /\ OneToken /\ ListsInv /\ KeysInv /\ RecordsInv /\ CallsInv
      /\ ~persistent => pstore = {}
      /\ Version = 4 => (persistent => ReleaseInv) /\ HeldInv /\ NeverTwice
      /\ crashes = 0 => ReceivedInv
      /\ (Version = 4 /\ persistent /\ ~Clean) => AgreeInv
  BY DEF CoreInv
<1> DEFINE q == Head(messageQueue)
<1>b. /\ messageQueue \in Seq(QueueEntries) /\ messageQueue # <<>> /\ messageQueue' = Tail(messageQueue)
      /\ q \in QueueEntries
  BY <1>0, MessageArrivedDoes, HeadTailProperties DEF SessionTypeOK
<1>a. /\ effects' \in Seq(Effects) /\ DOMAIN effects' = {1, 2} /\ effects'[1].op = "arrived"
      /\ effects'[2].op = "remove" /\ effects'[2].rec.key = "q" /\ effects'[2].rec.id = q.seqno
      /\ effects'[2].rec.ver = Version
  <2>1. Unput("q", Version, q.seqno) \in Effects /\ [op |-> "arrived", rec |-> q.msg] \in Effects
    BY <1>b, SessionAssumption DEF Unput, Effects, Removals, QueueEntries
  <2>2. effects' = <<[op |-> "arrived", rec |-> q.msg], Unput("q", Version, q.seqno)>>
    BY MessageArrivedDoes
  <2> HIDE DEF q
  <2> QED
    BY <2>1, <2>2 DEF Unput
<1> HIDE DEF q
<1>1. SessionTypeOK'
  <2>1. messageQueue' \in Seq(QueueEntries)
    BY <1>b, TailAt
  <2> QED
    BY <1>0, <1>a, <2>1, MessageArrivedDoes DEF SessionTypeOK
<1>2. LinkInv'
  BY <1>0, <1>a, MessageArrivedDoes DEF LinkInv
<1>3. TokensMatched' /\ OneToken'
  <2>3. /\ toBroker' = toBroker /\ toClient' = toClient /\ outboundMsgs' = outboundMsgs
        /\ brokerOut' = brokerOut
    BY MessageArrivedDoes
  <2>4. TokensMatched'
    BY <1>0, <1>a, <2>3 DEF TokensMatched, Matched
  <2>5. OneToken'
    BY <1>0, <1>a, <2>3 DEF OneToken
  <2> QED
    BY <2>4, <2>5
<1>4. ListsInv'
  BY <1>0, MessageArrivedDoes DEF ListsInv, MsgIdsDistinct, IdsDiffer, PublicationOrder
<1>5. KeysInv'
  <2>1. /\ \A i, j \in DOMAIN messageQueue' : i < j => messageQueue'[i].seqno < messageQueue'[j].seqno
        /\ \A i \in DOMAIN messageQueue' : messageQueue'[i].seqno <= qentry_seqno
    BY <1>0, <1>b, TailAt DEF KeysInv
  <2>2. \A k \in DOMAIN effects' : effects'[k].op # "put" /\ (effects'[k].op = "remove" => k = 2)
    BY <1>a
  <2>3. /\ pstore' = pstore /\ inboundMsgs' = inboundMsgs /\ qentry_seqno' = qentry_seqno
    BY MessageArrivedDoes
  <2> QED
    BY <1>0, <2>1, <2>2, <2>3 DEF KeysInv, IdsDiffer, IsStoreCall
<1>6. RecordsInv' /\ CallsInv' /\ (~persistent => pstore = {})'
  BY <1>0, <1>a, MessageArrivedDoes DEF RecordsInv, CallsInv, Records
<1>7. (Version = 4 => (persistent => ReleaseInv) /\ HeldInv /\ NeverTwice)'
  BY <1>0, <1>a, MessageArrivedDoes DEF ReleaseInv, HeldInv, NeverTwice, HasRecord, Records
<1>8. (crashes = 0 => ReceivedInv)'
  BY <1>0, <1>a, MessageArrivedDoes DEF ReceivedInv, IdsOf
<1>9. ((Version = 4 /\ persistent /\ ~Clean) => AgreeInv)'
  <2> SUFFICES ASSUME Version = 4 /\ persistent /\ ~Clean PROVE AgreeInv'
    BY DEF Clean
  <2>0. AgreeInv
    BY <1>0
  <2>1. pstore' = pstore /\ effects = <<>> /\ alive
    BY MessageArrivedDoes
  <2>2. \A key, id : WillHave(key, id) <=> HasRecord(key, id)
    BY <2>1, EmptyDomain DEF WillHave
  <2>3. \A key, id : WillHave(key, id)' <=> HasRecord(key, id) /\ ~(key = "q" /\ id = q.seqno)
    BY <1>a, <2>1 DEF WillHave, HasRecord, Records, Tag
  <2>4. Seqnos' = Seqnos \ {q.seqno}
    <3>1. \A i \in DOMAIN messageQueue : i # 1 => messageQueue[i].seqno # q.seqno
      <4>1. q = messageQueue[1] /\ 1 \in DOMAIN messageQueue /\ DOMAIN messageQueue = 1..Len(messageQueue)
        BY <1>b, TailAt DEF q
      <4>2. \A i \in DOMAIN messageQueue : messageQueue[i].seqno \in Nat
        <5>1. \A i \in DOMAIN messageQueue : messageQueue[i] \in QueueEntries
          BY <1>b, ElementOfSeq, <4>1
        <5> QED
          BY <5>1 DEF QueueEntries
      <4> QED
        BY <1>0, <4>1, <4>2 DEF KeysInv
    <3>2. q = messageQueue[1] /\ \A i \in DOMAIN messageQueue : i # 1 => i - 1 \in DOMAIN messageQueue' /\ messageQueue'[i - 1] = messageQueue[i]
      BY <1>b, TailAt DEF q
    <3>3. \A i \in DOMAIN messageQueue' : i + 1 \in DOMAIN messageQueue /\ i + 1 # 1 /\ messageQueue'[i] = messageQueue[i + 1]
      BY <1>b, TailAt
    <3> QED
      BY <3>1, <3>2, <3>3 DEF Seqnos
  <2>5. outboundMsgs' = outboundMsgs /\ inboundMsgs' = inboundMsgs
    BY MessageArrivedDoes
  <2> QED
    BY <2>0, <2>1, <2>2, <2>3, <2>4, <2>5 DEF AgreeInv, Agreed, ReleasedIds, IdsOf
<1> QED
  BY <1>1, <1>2, <1>3, <1>4, <1>5, <1>6, <1>7, <1>8, <1>9 DEF CoreInv

\* A call to the store: which records there are afterwards.
LEMMA StoredFacts ==
  ASSUME KeysInv, persistent, NEW r, NEW op \in {"put", "remove"}, pstore' = Stored(op, r),
         op = "put" => r.ver = Tag(r.key), NEW key, NEW id
  PROVE  /\ op = "put" => (HasRecord(key, id)' <=> HasRecord(key, id) \/ (key = r.key /\ id = r.id))
         /\ op = "remove" /\ r.ver = Tag(r.key) =>
              (HasRecord(key, id)' <=> HasRecord(key, id) /\ ~(key = r.key /\ id = r.id))
         /\ op = "remove" /\ r.ver # Tag(r.key) => (HasRecord(key, id)' <=> HasRecord(key, id))
<1>1. \A e \in pstore : e.ver = Tag(e.key)
  BY DEF KeysInv
<1>2. CASE op = "put"
  <2>1. pstore' = {e \in pstore : ~SameKey(e, r)} \cup {r}
    BY <1>2 DEF Stored
  <2> QED
    BY <1>1, <1>2, <2>1 DEF HasRecord, Records, SameKey
<1>3. CASE op = "remove"
  <2>1. pstore' = {e \in pstore : ~SameKey(e, r)}
    BY <1>3 DEF Stored
  <2> QED
    BY <1>1, <1>3, <2>1 DEF HasRecord, Records, SameKey
<1> QED
  BY <1>2, <1>3

\* A call that has been made leaves what the store will hold.
LEMMA EffectAgrees ==
  ASSUME KeysInv, persistent, effects \in Seq(Effects), effects # <<>>, effects' = Tail(effects),
         \/ Head(effects).op \in {"put", "remove"} /\ pstore' = Stored(Head(effects).op, Head(effects).rec)
         \/ Head(effects).op \notin {"put", "remove"} /\ pstore' = pstore,
         NEW key
  PROVE  /\ \A id : WillHave(key, id)' <=> WillHave(key, id)
         /\ \A ids : Agreed(key, ids)' <=> Agreed(key, ids)
<1> SUFFICES \A id : WillHave(key, id)' <=> WillHave(key, id)
  BY DEF Agreed
<1>0. /\ Head(effects) = effects[1] /\ 1 \in DOMAIN effects
      /\ \A k \in DOMAIN effects' : k + 1 \in DOMAIN effects /\ k + 1 # 1 /\ effects'[k] = effects[k + 1]
      /\ \A k \in DOMAIN effects : k # 1 => k - 1 \in DOMAIN effects' /\ effects'[k - 1] = effects[k]
  BY TailAt
<1> DEFINE puts(id) == \E k \in DOMAIN effects : effects[k].op = "put" /\ effects[k].rec.key = key /\ effects[k].rec.id = id
           removes(id) == \E k \in DOMAIN effects : /\ effects[k].op = "remove" /\ effects[k].rec.key = key
                                                   /\ effects[k].rec.id = id /\ effects[k].rec.ver = Tag(key)
           putsNow(id) == \E k \in DOMAIN effects' : effects'[k].op = "put" /\ effects'[k].rec.key = key /\ effects'[k].rec.id = id
           removesNow(id) == \E k \in DOMAIN effects' : /\ effects'[k].op = "remove" /\ effects'[k].rec.key = key
                                                       /\ effects'[k].rec.id = id /\ effects'[k].rec.ver = Tag(key)
           h == effects[1]
           hits(id) == h.rec.key = key /\ h.rec.id = id
<1>1. \A id : puts(id) <=> putsNow(id) \/ (h.op = "put" /\ hits(id))
  <2> SUFFICES ASSUME NEW id PROVE puts(id) <=> putsNow(id) \/ (h.op = "put" /\ hits(id))
    OBVIOUS
  <2>1. ASSUME puts(id) PROVE putsNow(id) \/ (h.op = "put" /\ hits(id))
    <3>1. PICK k \in DOMAIN effects : effects[k].op = "put" /\ effects[k].rec.key = key /\ effects[k].rec.id = id
      BY <2>1
    <3>2. CASE k = 1
      BY <3>1, <3>2
    <3>3. CASE k # 1
      <4>1. k - 1 \in DOMAIN effects' /\ effects'[k - 1] = effects[k]
        BY <1>0, <3>3
      <4> QED
        BY <3>1, <4>1
    <3> QED
      BY <3>2, <3>3
  <2>2. ASSUME putsNow(id) PROVE puts(id)
    BY <1>0, <2>2
  <2> QED
    BY <1>0, <2>1, <2>2
<1>2. \A id : removes(id) <=> removesNow(id) \/ (h.op = "remove" /\ hits(id) /\ h.rec.ver = Tag(key))
  <2> SUFFICES ASSUME NEW id PROVE removes(id) <=> removesNow(id) \/ (h.op = "remove" /\ hits(id) /\ h.rec.ver = Tag(key))
    OBVIOUS
  <2>1. ASSUME removes(id) PROVE removesNow(id) \/ (h.op = "remove" /\ hits(id) /\ h.rec.ver = Tag(key))
    <3>1. PICK k \in DOMAIN effects : /\ effects[k].op = "remove" /\ effects[k].rec.key = key
                                    /\ effects[k].rec.id = id /\ effects[k].rec.ver = Tag(key)
      BY <2>1
    <3>2. CASE k = 1
      BY <3>1, <3>2
    <3>3. CASE k # 1
      <4>1. k - 1 \in DOMAIN effects' /\ effects'[k - 1] = effects[k]
        BY <1>0, <3>3
      <4> QED
        BY <3>1, <4>1
    <3> QED
      BY <3>2, <3>3
  <2>2. ASSUME removesNow(id) PROVE removes(id)
    BY <1>0, <2>2
  <2> QED
    BY <1>0, <2>1, <2>2
<1>3. \A id : /\ WillHave(key, id) <=> puts(id) \/ (HasRecord(key, id) /\ ~removes(id))
              /\ WillHave(key, id)' <=> putsNow(id) \/ (HasRecord(key, id)' /\ ~removesNow(id))
  BY DEF WillHave, Tag, AckVersion
<1>4. \A id : (IsStoreCall(h) /\ hits(id) /\ h.rec.ver = Tag(key)) => ~putsNow(id) /\ ~removesNow(id)
  <2>1. \A k \in DOMAIN effects : k # 1 /\ IsStoreCall(h) /\ IsStoreCall(effects[k]) => ~SameKey(h.rec, effects[k].rec)
    BY <1>0 DEF KeysInv
  <2>2. \A k \in DOMAIN effects : effects[k].op = "put" => effects[k].rec.ver = Tag(effects[k].rec.key)
    BY DEF KeysInv
  <2> QED
    BY <1>0, <2>1, <2>2 DEF SameKey, IsStoreCall
<1>5. h.op = "put" => h.rec.ver = Tag(h.rec.key)
  BY <1>0 DEF KeysInv
<1>6. CASE h.op = "put"
  <2>1. \A id : HasRecord(key, id)' <=> HasRecord(key, id) \/ hits(id)
    BY <1>0, <1>5, <1>6, StoredFacts
  <2>2. \A id : hits(id) => h.rec.ver = Tag(key) /\ IsStoreCall(h)
    BY <1>5, <1>6 DEF IsStoreCall
  <2> HIDE DEF puts, removes, putsNow, removesNow, hits
  <2> QED
    BY <1>1, <1>2, <1>3, <1>4, <1>6, <2>1, <2>2
<1>7. CASE h.op = "remove"
  <2>1. CASE h.rec.ver = Tag(h.rec.key)
    <3>1. \A id : HasRecord(key, id)' <=> HasRecord(key, id) /\ ~hits(id)
      BY <1>0, <1>7, <2>1, StoredFacts
    <3>2. \A id : hits(id) => h.rec.ver = Tag(key) /\ IsStoreCall(h)
      BY <1>7, <2>1 DEF IsStoreCall
    <3>3. h.op # "put"
      BY <1>7
    <3> HIDE DEF puts, removes, putsNow, removesNow, hits
    <3> QED
      BY <1>1, <1>2, <1>3, <1>4, <1>7, <3>1, <3>2, <3>3
  <2>2. CASE h.rec.ver # Tag(h.rec.key)
    <3>1. \A id : HasRecord(key, id)' <=> HasRecord(key, id)
      BY <1>0, <1>7, <2>2, StoredFacts
    <3>2. \A id : hits(id) => h.rec.ver # Tag(key)
      BY <2>2
    <3>3. h.op # "put"
      BY <1>7
    <3> HIDE DEF puts, removes, putsNow, removesNow, hits
    <3> QED
      BY <1>1, <1>2, <1>3, <3>1, <3>2, <3>3
  <2> QED
    BY <2>1, <2>2
<1>8. CASE h.op \notin {"put", "remove"}
  <2>1. \A id : HasRecord(key, id)' <=> HasRecord(key, id)
    BY <1>0, <1>8 DEF HasRecord, Records
  <2>2. h.op # "put" /\ h.op # "remove"
    BY <1>8
  <2> HIDE DEF puts, removes, putsNow, removesNow, hits
  <2> QED
    BY <1>1, <1>2, <1>3, <2>1, <2>2
<1> QED
  BY <1>6, <1>7, <1>8

\* Being of one exchange is symmetric.
LEMMA WaySymmetric ==
  ASSUME NEW p, NEW r
  PROVE  (SameWay(p, r) <=> SameWay(r, p)) /\ (Opposite(p, r) <=> Opposite(r, p))
  BY DEF SameWay, Opposite

\* A call is made: a record is written or removed, or a token passes from the calls
\* to the connection, where a broken one loses it.
LEMMA EffectStep ==
  ASSUME CoreInv, Effect
  PROVE  CoreInv'
<1>0. /\ SessionTypeOK /\ LinkInv /\ TokensMatched /\ OneToken /\ ListsInv /\ KeysInv /\ RecordsInv /\ CallsInv
      /\ ~persistent => pstore = {}
      /\ Version = 4 => (persistent => ReleaseInv) /\ HeldInv /\ NeverTwice
      /\ crashes = 0 => ReceivedInv
      /\ (Version = 4 /\ persistent /\ ~Clean) => AgreeInv
  BY DEF CoreInv
<1> DEFINE h == Head(effects)
<1>t. /\ effects \in Seq(Effects) /\ effects # <<>> /\ effects' = Tail(effects) /\ effects' \in Seq(Effects)
      /\ h = effects[1] /\ 1 \in DOMAIN effects /\ h \in Effects
      /\ \A k \in DOMAIN effects' : k + 1 \in DOMAIN effects /\ k + 1 # 1 /\ effects'[k] = effects[k + 1]
      /\ \A k \in DOMAIN effects : k # 1 => k - 1 \in DOMAIN effects' /\ effects'[k - 1] = effects[k]
  <2>1. effects \in Seq(Effects) /\ effects # <<>> /\ effects' = Tail(effects)
    BY <1>0, EffectDoes DEF SessionTypeOK
  <2> QED
    BY <2>1, TailAt
<1>e. \/ h.op \in {"put", "remove"} /\ pstore' = Stored(h.op, h.rec) /\ toBroker' = toBroker
      \/ h.op = "send" /\ toBroker' = (IF link THEN Append(toBroker, h.rec) ELSE toBroker) /\ pstore' = pstore
      \/ h.op = "arrived" /\ pstore' = pstore /\ toBroker' = toBroker
  BY EffectDoes
<1>f. /\ outboundMsgs' = outboundMsgs /\ brokerOut' = brokerOut /\ toClient' = toClient /\ inboundMsgs' = inboundMsgs
      /\ messageQueue' = messageQueue /\ qentry_seqno' = qentry_seqno
      /\ published' = published /\ qosOf' = qosOf /\ delivered' = delivered /\ brokerHeld' = brokerHeld
      /\ connected' = connected /\ crashes' = crashes /\ alive' = alive /\ link' = link
  BY EffectDoes
<1> HIDE DEF h
<1>h. /\ h.op = "put" => h.rec \in StoreRecords
      /\ h.op = "send" => h.rec \in Packets
      /\ h.op \in {"put", "remove", "send", "arrived"}
  BY <1>t DEF Effects
<1>b. \/ toBroker' = toBroker
      \/ /\ h.op = "send" /\ toBroker' \in Seq(Packets)
         /\ \A k \in DOMAIN toBroker : k \in DOMAIN toBroker' /\ toBroker'[k] = toBroker[k]
         /\ \A k \in DOMAIN toBroker' : (k = Len(toBroker) + 1 /\ toBroker'[k] = h.rec)
                                         \/ (k \in DOMAIN toBroker /\ toBroker'[k] = toBroker[k])
         /\ link
  <2>1. toBroker \in Seq(Packets)
    BY <1>0 DEF SessionTypeOK
  <2>2. ASSUME h.op = "send" /\ link PROVE
         /\ Append(toBroker, h.rec) \in Seq(Packets)
         /\ \A k \in DOMAIN toBroker : k \in DOMAIN Append(toBroker, h.rec) /\ Append(toBroker, h.rec)[k] = toBroker[k]
         /\ \A k \in DOMAIN Append(toBroker, h.rec) :
               (k = Len(toBroker) + 1 /\ Append(toBroker, h.rec)[k] = h.rec)
               \/ (k \in DOMAIN toBroker /\ Append(toBroker, h.rec)[k] = toBroker[k])
    BY <1>h, <2>1, <2>2, AppendAt
  <2> QED
    BY <1>e, <2>2
<1>s. /\ h.op = "put" => pstore' = IF persistent THEN {e \in pstore : ~SameKey(e, h.rec)} \cup {h.rec} ELSE pstore
      /\ h.op = "remove" => pstore' = IF persistent THEN {e \in pstore : ~SameKey(e, h.rec)} ELSE pstore
      /\ h.op \notin {"put", "remove"} => pstore' = pstore
  BY <1>e DEF Stored
<1>1. SessionTypeOK'
  <2>1. pstore' \subseteq StoreRecords
    BY <1>0, <1>s, <1>h DEF SessionTypeOK
  <2>2. IsFiniteSet(pstore')
    <3>0. IsFiniteSet(pstore)
      BY <1>0 DEF SessionTypeOK
    <3>1. IsFiniteSet({e \in pstore : ~SameKey(e, h.rec)})
      BY <3>0, FS_Subset
    <3>2. IsFiniteSet({e \in pstore : ~SameKey(e, h.rec)} \cup {h.rec})
      BY <3>1, FS_AddElement
    <3> QED
      BY <1>s, <1>h, <3>0, <3>1, <3>2
  <2>3. toBroker' \in Seq(Packets)
    BY <1>0, <1>b DEF SessionTypeOK
  <2> QED
    BY <1>0, <1>t, <2>1, <2>2, <2>3, EffectDoes DEF SessionTypeOK
<1>2. LinkInv'
  <2>1. \A k \in DOMAIN effects' : effects'[k].op = "send" => effects'[k].rec.type # "PINGRESP"
    BY <1>0, <1>t DEF LinkInv
  <2>2. \A k \in DOMAIN toBroker' : toBroker'[k].type # "PINGRESP"
    BY <1>0, <1>b, <1>t DEF LinkInv
  <2>3. /\ ~link => toBroker' = toBroker
        /\ ~alive => effects' = <<>>
    BY <1>0, <1>b, EffectDoes DEF LinkInv
  <2> QED
    BY <1>0, <1>f, <2>1, <2>2, <2>3 DEF LinkInv
<1>3. TokensMatched' /\ OneToken'
  <2>1. TokensMatched'
    <3>1. \A k \in DOMAIN effects' : effects'[k].op = "send" =>
            /\ Forth(effects'[k].rec) => Matched(effects'[k].rec, outboundMsgs)
            /\ Back(effects'[k].rec) => Matched(effects'[k].rec, brokerOut)
      BY <1>0, <1>t DEF TokensMatched
    <3>2. \A k \in DOMAIN toBroker' :
            /\ Forth(toBroker'[k]) => Matched(toBroker'[k], outboundMsgs)
            /\ Back(toBroker'[k]) => Matched(toBroker'[k], brokerOut)
      BY <1>0, <1>t, <1>b DEF TokensMatched
    <3> QED
      BY <1>0, <1>f, <3>1, <3>2 DEF TokensMatched
  <2>2. OneToken'
    <3>1. \A j, k \in DOMAIN effects' : (effects'[j].op = "send" /\ effects'[k].op = "send"
            /\ SameWay(effects'[j].rec, effects'[k].rec)) => j = k
      <4> SUFFICES ASSUME NEW j \in DOMAIN effects', NEW k \in DOMAIN effects', effects'[j].op = "send", effects'[k].op = "send",
                          SameWay(effects'[j].rec, effects'[k].rec)
                   PROVE  j = k
        OBVIOUS
      <4>1. j + 1 = k + 1
        BY <1>0, <1>t DEF OneToken
      <4>2. DOMAIN effects' \subseteq Int
        BY <1>t, LenProperties
      <4> QED
        BY <4>1, <4>2
    <3>2. \A j, k \in DOMAIN toBroker' : SameWay(toBroker'[j], toBroker'[k]) => j = k
      <4>1. \A k \in DOMAIN toBroker : h.op = "send" => ~SameWay(h.rec, toBroker[k]) /\ ~SameWay(toBroker[k], h.rec)
        BY <1>0, <1>t, WaySymmetric DEF OneToken
      <4> QED
        BY <1>0, <1>b, <4>1 DEF OneToken
    <3>3. \A j \in DOMAIN effects', k \in DOMAIN toBroker' :
            effects'[j].op = "send" => ~SameWay(effects'[j].rec, toBroker'[k])
      <4>1. \A j \in DOMAIN effects' : h.op = "send" /\ effects'[j].op = "send" => ~SameWay(effects'[j].rec, h.rec)
        BY <1>0, <1>t DEF OneToken
      <4>2. \A j \in DOMAIN effects', k \in DOMAIN toBroker : effects'[j].op = "send" => ~SameWay(effects'[j].rec, toBroker[k])
        BY <1>0, <1>t DEF OneToken
      <4> QED
        BY <1>b, <4>1, <4>2
    <3>4. \A j \in DOMAIN effects', k \in DOMAIN toClient :
            effects'[j].op = "send" => ~Opposite(effects'[j].rec, toClient[k])
      BY <1>0, <1>t DEF OneToken
    <3>5. \A j \in DOMAIN toBroker', k \in DOMAIN toClient : ~Opposite(toBroker'[j], toClient[k])
      BY <1>0, <1>t, <1>b DEF OneToken
    <3>6. \A j, k \in DOMAIN toClient : SameWay(toClient[j], toClient[k]) => j = k
      BY <1>0 DEF OneToken
    <3> QED
      BY <1>f, <3>1, <3>2, <3>3, <3>4, <3>5, <3>6 DEF OneToken
  <2> QED
    BY <2>1, <2>2
<1>4. ListsInv'
  BY <1>0, EffectDoes DEF ListsInv, MsgIdsDistinct, IdsDiffer, PublicationOrder
<1>v. h.op = "put" => h.rec.ver = Tag(h.rec.key)
  BY <1>0, <1>t DEF KeysInv
<1>5. KeysInv'
  <2>1. \A e \in pstore' : e.ver = Tag(e.key)
    BY <1>0, <1>s, <1>h, <1>v DEF KeysInv
  <2>2. \A e, f \in pstore' : SameKey(e, f) => e = f
    <3>1. \A e, f \in pstore : SameKey(e, f) => e = f
      BY <1>0 DEF KeysInv
    <3>2. \A e : SameKey(e, h.rec) <=> SameKey(h.rec, e)
      BY DEF SameKey
    <3> QED
      BY <1>s, <1>h, <3>1, <3>2
  <2>3. \A k \in DOMAIN effects' : effects'[k].op = "put" => effects'[k].rec.ver = Tag(effects'[k].rec.key)
    BY <1>0, <1>t DEF KeysInv
  <2>4. \A j, k \in DOMAIN effects' :
          IsStoreCall(effects'[j]) /\ IsStoreCall(effects'[k]) /\ SameKey(effects'[j].rec, effects'[k].rec) => j = k
    <3> SUFFICES ASSUME NEW j \in DOMAIN effects', NEW k \in DOMAIN effects', IsStoreCall(effects'[j]), IsStoreCall(effects'[k]),
                        SameKey(effects'[j].rec, effects'[k].rec)
                 PROVE  j = k
      OBVIOUS
    <3>1. j + 1 = k + 1
      BY <1>0, <1>t DEF KeysInv
    <3>2. DOMAIN effects' \subseteq Int
      BY <1>t, LenProperties
    <3> QED
      BY <3>1, <3>2
  <2> QED
    BY <1>0, <1>f, <2>1, <2>2, <2>3, <2>4 DEF KeysInv, IdsDiffer, Tag, AckVersion, SameKey, IsStoreCall
<1>r. h.op = "put" /\ h.rec.key = "s" => \E i \in DOMAIN outboundMsgs :
            /\ outboundMsgs[i].msgid = h.rec.id /\ outboundMsgs[i].msg = h.rec.msg
            /\ outboundMsgs[i].qos = h.rec.qos /\ outboundMsgs[i].next # "PUBCOMP"
  BY <1>0, <1>t DEF CallsInv
<1>p. \A e \in pstore' : \/ e \in pstore /\ (h.op = "put" => ~SameKey(e, h.rec))
                         \/ e = h.rec /\ h.op = "put"
  BY <1>0, <1>s, <1>h
<1>6. RecordsInv' /\ CallsInv' /\ (~persistent => pstore = {})'
  <2>1. \A e \in Records("s")' : e.msg \in 1..published /\ e.qos = qosOf[e.msg]
    <3>1. \A i \in DOMAIN outboundMsgs : outboundMsgs[i].msg \in 1..published /\ outboundMsgs[i].qos = qosOf[outboundMsgs[i].msg]
      <4>1. outboundMsgs \in Seq(Entries) /\ published \in Nat
        BY <1>0 DEF SessionTypeOK
      <4>2. \A i \in DOMAIN outboundMsgs : outboundMsgs[i] \in Entries
        BY <4>1, ElementOfSeq
      <4>3. \A i \in DOMAIN outboundMsgs : outboundMsgs[i].msg \in Messages
        BY <4>2 DEF Entries
      <4> QED
        BY <1>0, <4>1, <4>3 DEF ListsInv, Messages
    <3>2. \A e \in Records("s") : e.msg \in 1..published /\ e.qos = qosOf[e.msg]
      BY <1>0 DEF RecordsInv
    <3> QED
      BY <1>p, <1>r, <3>1, <3>2 DEF Records
  <2>2. \A e \in Records("s"), i \in DOMAIN outboundMsgs :
         e.msg = outboundMsgs[i].msg => e.id = outboundMsgs[i].msgid
    BY <1>0 DEF RecordsInv
  <2>3. \A e \in Records("s") : h.op = "put" /\ h.rec.key = "s" /\ e.msg = h.rec.msg => SameKey(e, h.rec)
    <3>1. \A e \in Records("s") : e.key = "s" /\ e.ver = Tag("s")
      BY <1>0 DEF KeysInv, Records
    <3> QED
      BY <1>r, <1>v, <2>2, <3>1 DEF SameKey
  <2>4. \A e, f \in Records("s")' : e.msg = f.msg => e = f
    <3>1. \A e, f \in Records("s") : e.msg = f.msg => e = f
      BY <1>0 DEF RecordsInv
    <3> QED
      BY <1>p, <2>3, <3>1 DEF Records
  <2>5. \A e \in Records("s")', i \in DOMAIN outboundMsgs : e.msg = outboundMsgs[i].msg => e.id = outboundMsgs[i].msgid
    <3>1. \A i, j \in DOMAIN outboundMsgs : outboundMsgs[i].msg = outboundMsgs[j].msg => i = j
      BY <1>0 DEF ListsInv
    <3> QED
      BY <1>p, <1>r, <2>2, <3>1 DEF Records
  <2>6. RecordsInv'
    BY <1>f, <2>1, <2>4, <2>5 DEF RecordsInv
  <2>7. CallsInv'
    BY <1>0, <1>t, <1>f DEF CallsInv, IdsOf
  <2>8. ~persistent => pstore' = {}
    BY <1>0, <1>s, <1>h
  <2> QED
    BY <2>6, <2>7, <2>8
<1>7. (Version = 4 => (persistent => ReleaseInv) /\ HeldInv /\ NeverTwice)'
  <2> SUFFICES ASSUME Version = 4 PROVE (persistent => ReleaseInv') /\ HeldInv' /\ NeverTwice'
    OBVIOUS
  <2>0. HeldInv /\ NeverTwice /\ (persistent => ReleaseInv) /\ (\A key : Tag(key) = 4)
    BY <1>0 DEF Tag, AckVersion
  <2>n. /\ \A k \in DOMAIN effects : effects[k].op = "remove" /\ effects[k].rec.key \in {"s", "sc"} =>
             effects[k].rec.id \notin IdsOf(outboundMsgs)
        /\ DOMAIN effects = 1..Len(effects) /\ Len(effects) \in Nat /\ DOMAIN effects' \subseteq Nat
        /\ h.op = "put" /\ h.rec.key = "s" => h.rec.id \in IdsOf(outboundMsgs)
    <3>1. h.op = "put" /\ h.rec.key = "s" => h.rec.id \in IdsOf(outboundMsgs)
      BY <1>r DEF IdsOf
    <3>2. DOMAIN effects = 1..Len(effects) /\ Len(effects) \in Nat /\ DOMAIN effects' \subseteq Nat
      BY <1>t, LenProperties
    <3> QED
      BY <1>0, <3>1, <3>2 DEF CallsInv
  <2> DEFINE Now(key, id) == \E e \in pstore' : e.key = key /\ e.id = id
  <2>w. \A key, id : HasRecord(key, id)' <=> Now(key, id)
    BY DEF HasRecord, Records
  <2> HIDE DEF Now
  <2>a. persistent =>
        /\ h.op = "put" => \A key, id : Now(key, id) <=> HasRecord(key, id) \/ (key = h.rec.key /\ id = h.rec.id)
        /\ h.op = "remove" /\ h.rec.ver = 4 =>
             \A key, id : Now(key, id) <=> HasRecord(key, id) /\ ~(key = h.rec.key /\ id = h.rec.id)
        /\ h.op = "remove" /\ h.rec.ver # 4 => \A key, id : Now(key, id) <=> HasRecord(key, id)
        /\ h.op \notin {"put", "remove"} => \A key, id : Now(key, id) <=> HasRecord(key, id)
    <3> SUFFICES ASSUME persistent PROVE
        /\ h.op = "put" => \A key, id : Now(key, id) <=> HasRecord(key, id) \/ (key = h.rec.key /\ id = h.rec.id)
        /\ h.op = "remove" /\ h.rec.ver = 4 =>
             \A key, id : Now(key, id) <=> HasRecord(key, id) /\ ~(key = h.rec.key /\ id = h.rec.id)
        /\ h.op = "remove" /\ h.rec.ver # 4 => \A key, id : Now(key, id) <=> HasRecord(key, id)
        /\ h.op \notin {"put", "remove"} => \A key, id : Now(key, id) <=> HasRecord(key, id)
      OBVIOUS
    <3>1. h.op \in {"put", "remove"} => pstore' = Stored(h.op, h.rec)
      BY <1>e
    <3>2. CASE h.op \in {"put", "remove"}
      BY <1>0, <1>v, <2>0, <2>w, <3>1, <3>2, StoredFacts
    <3>3. CASE h.op \notin {"put", "remove"}
      BY <1>s, <3>3 DEF HasRecord, Records, Now
    <3> QED
      BY <3>2, <3>3
  <2>1. persistent => ReleaseInv'
    <3> SUFFICES ASSUME persistent PROVE ReleaseInv'
      OBVIOUS
    <3>r. ReleaseInv
      BY <2>0
    <3>k. \A id \in IdsOf(outboundMsgs) : HasRecord("sc", id) => Now("sc", id)
      BY <1>h, <1>t, <2>a, <2>n
    <3>m. \A k \in DOMAIN effects : effects[k].op = "send" /\ effects[k].rec.type = "PUBREL" =>
            effects[k].rec.id \in IdsOf(outboundMsgs)
      BY <1>0 DEF TokensMatched, Forth, Matched, Agrees, IdsOf
    <3>w. \A k \in DOMAIN toBroker : toBroker[k].type = "PUBREL" => toBroker[k].id \in IdsOf(outboundMsgs)
      BY <1>0 DEF TokensMatched, Forth, Matched, Agrees, IdsOf
    <3>1. ASSUME NEW k \in DOMAIN effects', effects'[k].op = "send", effects'[k].rec.type = "PUBREL"
          PROVE  \/ Now("sc", effects'[k].rec.id)
                 \/ \E j \in 1..(k - 1) : effects'[j].op = "put" /\ effects'[j].rec.key = "sc"
                               /\ effects'[j].rec.id = effects'[k].rec.id
      <4>1. k + 1 \in DOMAIN effects /\ effects'[k] = effects[k + 1] /\ k \in Nat /\ (k + 1) - 1 = k
        BY <1>t, <2>n
      <4>2. CASE HasRecord("sc", effects[k + 1].rec.id)
        BY <3>k, <3>m, <3>1, <4>1, <4>2
      <4>3. ASSUME NEW j \in 1..k, effects[j].op = "put" /\ effects[j].rec.key = "sc" /\ effects[j].rec.id = effects[k + 1].rec.id
            PROVE  \/ Now("sc", effects'[k].rec.id)
                   \/ \E i \in 1..(k - 1) : effects'[i].op = "put" /\ effects'[i].rec.key = "sc"
                               /\ effects'[i].rec.id = effects'[k].rec.id
        <5>1. CASE j = 1
          BY <1>t, <2>a, <4>1, <4>3, <5>1
        <5>2. CASE j # 1
          <6>1. j \in DOMAIN effects /\ j - 1 \in 1..(k - 1)
            BY <2>n, <4>1, <5>2
          <6>2. effects'[j - 1] = effects[j]
            BY <1>t, <5>2, <6>1
          <6> QED
            BY <4>1, <4>3, <6>1, <6>2
        <5> QED
          BY <5>1, <5>2
      <4>4. \/ HasRecord("sc", effects[k + 1].rec.id)
            \/ \E j \in 1..k : effects[j].op = "put" /\ effects[j].rec.key = "sc" /\ effects[j].rec.id = effects[k + 1].rec.id
        BY <3>r, <3>1, <4>1 DEF ReleaseInv
      <4> QED
        BY <4>2, <4>3, <4>4
    <3>2. \A k \in DOMAIN toBroker' : toBroker'[k].type = "PUBREL" => Now("sc", toBroker'[k].id)
      <4>1. \A k \in DOMAIN toBroker : toBroker[k].type = "PUBREL" => Now("sc", toBroker[k].id)
        BY <3>r, <3>k, <3>w DEF ReleaseInv
      <4>2. h.op = "send" /\ h.rec.type = "PUBREL" => Now("sc", h.rec.id)
        <5>1. h.op = "send" /\ h.rec.type = "PUBREL" =>
              \/ HasRecord("sc", h.rec.id)
              \/ \E j \in 1..(1 - 1) : effects[j].op = "put" /\ effects[j].rec.key = "sc" /\ effects[j].rec.id = h.rec.id
          BY <1>t, <3>r DEF ReleaseInv
        <5> QED
          BY <1>t, <3>k, <3>m, <5>1
      <4> QED
        BY <1>b, <4>1, <4>2
    <3>3. ASSUME NEW k \in DOMAIN effects', effects'[k].op = "remove", effects'[k].rec.key = "sc", effects'[k].rec.ver = 4
          PROVE  \/ ~Now("s", effects'[k].rec.id)
                 \/ \E j \in 1..(k - 1) : effects'[j].op = "remove" /\ effects'[j].rec.key = "s"
                                 /\ effects'[j].rec.ver = 4 /\ effects'[j].rec.id = effects'[k].rec.id
      <4>1. k + 1 \in DOMAIN effects /\ effects'[k] = effects[k + 1] /\ k \in Nat /\ (k + 1) - 1 = k
        BY <1>t, <2>n
      <4>2. CASE ~HasRecord("s", effects[k + 1].rec.id)
        <5>1. ~(h.op = "put" /\ h.rec.key = "s" /\ h.rec.id = effects[k + 1].rec.id)
          BY <2>n, <3>3, <4>1
        <5> QED
          BY <1>h, <2>a, <4>1, <4>2, <5>1
      <4>3. ASSUME NEW j \in 1..k, effects[j].op = "remove" /\ effects[j].rec.key = "s" /\ effects[j].rec.ver = 4
                                   /\ effects[j].rec.id = effects[k + 1].rec.id
            PROVE  \/ ~Now("s", effects'[k].rec.id)
                   \/ \E i \in 1..(k - 1) : effects'[i].op = "remove" /\ effects'[i].rec.key = "s"
                                 /\ effects'[i].rec.ver = 4 /\ effects'[i].rec.id = effects'[k].rec.id
        <5>1. CASE j = 1
          BY <1>t, <2>a, <4>1, <4>3, <5>1
        <5>2. CASE j # 1
          <6>1. j \in DOMAIN effects /\ j - 1 \in 1..(k - 1)
            BY <2>n, <4>1, <5>2
          <6>2. effects'[j - 1] = effects[j]
            BY <1>t, <5>2, <6>1
          <6> QED
            BY <4>1, <4>3, <6>1, <6>2
        <5> QED
          BY <5>1, <5>2
      <4>4. \/ ~HasRecord("s", effects[k + 1].rec.id)
            \/ \E j \in 1..k : effects[j].op = "remove" /\ effects[j].rec.key = "s" /\ effects[j].rec.ver = 4
                               /\ effects[j].rec.id = effects[k + 1].rec.id
        BY <3>r, <3>3, <4>1 DEF ReleaseInv
      <4> QED
        BY <4>2, <4>3, <4>4
    <3> QED
      BY <3>1, <3>2, <3>3 DEF ReleaseInv, HasRecord, Records, Now
  <2>2. HeldInv'
    <3>1. ASSUME ~Clean, NEW e \in Records("s")', e.qos = 2, ~Now("sc", e.id), delivered[e.msg] > 0
          PROVE  e.id \in brokerHeld
      <4>1. CASE e \in pstore
        <5>1. e \in Records("s") /\ e.key = "s"
          BY <3>1, <4>1 DEF Records
        <5>2. ASSUME HasRecord("sc", e.id) PROVE FALSE
          <6>1. persistent /\ h.op = "remove" /\ h.rec.ver = 4 /\ h.rec.key = "sc" /\ h.rec.id = e.id
            BY <1>0, <1>h, <2>a, <3>1, <5>2, <4>1
          <6>2. \/ ~HasRecord("s", h.rec.id)
                \/ \E j \in 1..(1 - 1) : effects[j].op = "remove" /\ effects[j].rec.key = "s"
                                 /\ effects[j].rec.ver = 4 /\ effects[j].rec.id = h.rec.id
            BY <1>t, <2>0, <6>1 DEF ReleaseInv
          <6> QED
            BY <5>1, <6>1, <6>2 DEF HasRecord
        <5> QED
          BY <2>0, <3>1, <5>1, <5>2 DEF HeldInv
      <4>2. CASE e = h.rec /\ h.op = "put"
        <5>1. h.rec.key = "s"
          BY <3>1, <4>2 DEF Records
        <5> QED
          BY <1>r, <2>0, <3>1, <4>2, <5>1 DEF HeldInv
      <4>3. e \in pstore'
        BY DEF Records
      <4> QED
        BY <1>p, <4>1, <4>2, <4>3
    <3> QED
      BY <1>f, <2>0, <2>w, <3>1 DEF HeldInv, Clean
  <2>3. NeverTwice'
    BY <1>f, <2>0 DEF NeverTwice
  <2> QED
    BY <2>1, <2>2, <2>3
<1>8. (crashes = 0 => ReceivedInv)'
  <2> SUFFICES ASSUME crashes = 0 PROVE ReceivedInv'
    BY <1>f
  <2>0. ReceivedInv
    BY <1>0
  <2>1. inSent' = inSent /\ completed' = completed /\ queued' = queued
    BY EffectDoes
  <2>2. \A k \in DOMAIN toBroker' : /\ toBroker'[k].type \in {"PUBACK", "PUBCOMP"} => queued[toBroker'[k].id] > 0
                                    /\ toBroker'[k].type = "PUBREC" => toBroker'[k].id \in IdsOf(inboundMsgs)
    BY <1>b, <1>t, <2>0 DEF ReceivedInv
  <2>3. \A k \in DOMAIN effects' :
         /\ effects'[k].op = "send" /\ effects'[k].rec.type \in {"PUBACK", "PUBCOMP"} => queued[effects'[k].rec.id] > 0
         /\ effects'[k].op = "send" /\ effects'[k].rec.type = "PUBREC" => effects'[k].rec.id \in IdsOf(inboundMsgs)
    BY <1>t, <2>0 DEF ReceivedInv
  <2> QED
    BY <1>f, <2>0, <2>1, <2>2, <2>3 DEF ReceivedInv, IdsOf, Clean
<1>9. ((Version = 4 /\ persistent /\ ~Clean) => AgreeInv)'
  <2> SUFFICES ASSUME Version = 4 /\ persistent /\ ~Clean PROVE AgreeInv'
    BY DEF Clean
  <2>1. \A key, ids : Agreed(key, ids)' <=> Agreed(key, ids)
    <3>1. \/ Head(effects).op \in {"put", "remove"} /\ pstore' = Stored(Head(effects).op, Head(effects).rec)
          \/ Head(effects).op \notin {"put", "remove"} /\ pstore' = pstore
      BY EffectDoes
    <3> QED
      BY <1>0, <1>t, <3>1, EffectAgrees
  <2>2. IdsOf(outboundMsgs)' = IdsOf(outboundMsgs) /\ ReleasedIds' = ReleasedIds
        /\ IdsOf(inboundMsgs)' = IdsOf(inboundMsgs) /\ Seqnos' = Seqnos
    BY <1>f DEF IdsOf, ReleasedIds, Seqnos
  <2>3. alive /\ AgreeInv
    BY <1>0, EffectDoes
  <2> QED
    BY <2>1, <2>2, <2>3 DEF AgreeInv
<1> QED
  BY <1>1, <1>2, <1>3, <1>4, <1>5, <1>6, <1>7, <1>8, <1>9 DEF CoreInv


\* The client has taken a packet p, and answers it with at most one of the same
\* exchange: all tokens are still matched, and no exchange has two.
LEMMA HandledTokens ==
  ASSUME SessionTypeOK, TokensMatched, OneToken, effects = <<>>, toClient # <<>>,
         toClient' = Tail(toClient), toBroker' = toBroker, brokerOut' = brokerOut,
         \A k \in DOMAIN effects' : effects'[k].op = "send" =>
           /\ Opposite(effects'[k].rec, Head(toClient))
           /\ Forth(effects'[k].rec) => Matched(effects'[k].rec, outboundMsgs')
           /\ Back(effects'[k].rec) => Matched(effects'[k].rec, brokerOut),
         \A j, k \in DOMAIN effects' : effects'[j].op = "send" /\ effects'[k].op = "send" => j = k,
         \A i \in DOMAIN outboundMsgs : ~(Back(Head(toClient)) /\ outboundMsgs[i].msgid = Head(toClient).id) =>
           \E j \in DOMAIN outboundMsgs' : outboundMsgs'[j] = outboundMsgs[i]
  PROVE  TokensMatched' /\ OneToken'
<1> DEFINE p == Head(toClient)
<1>t. /\ p = toClient[1] /\ 1 \in DOMAIN toClient
      /\ \A k \in DOMAIN toClient' : k + 1 \in DOMAIN toClient /\ k + 1 # 1 /\ toClient'[k] = toClient[k + 1]
  <2>1. toClient \in Seq(Packets)
    BY DEF SessionTypeOK
  <2> QED
    BY <2>1, TailAt
<1> HIDE DEF p
<1>a. \A k \in DOMAIN effects' : effects'[k].op = "send" =>
           /\ Opposite(effects'[k].rec, p)
           /\ Forth(effects'[k].rec) => Matched(effects'[k].rec, outboundMsgs')
           /\ Back(effects'[k].rec) => Matched(effects'[k].rec, brokerOut)
  BY DEF p
<1>x. \A r : ~(Forth(r) /\ Back(r))
  BY DEF Forth, Back, Acks
<1>1. \A k \in DOMAIN toClient' : ~SameWay(toClient'[k], p)
  BY <1>t DEF OneToken
<1>2. \A k \in DOMAIN toBroker : ~Opposite(toBroker[k], p)
  BY <1>t DEF OneToken
<1>3. \A r : /\ Forth(r) /\ ~(Back(p) /\ r.id = p.id) /\ Matched(r, outboundMsgs) => Matched(r, outboundMsgs')
             /\ Back(r) /\ ~(Back(p) /\ r.id = p.id) /\ Matched(r, outboundMsgs) => Matched(r, outboundMsgs')
  <2> SUFFICES ASSUME NEW r, ~(Back(p) /\ r.id = p.id), Matched(r, outboundMsgs) PROVE Matched(r, outboundMsgs')
    OBVIOUS
  <2>1. PICK i \in DOMAIN outboundMsgs : Agrees(r, outboundMsgs[i])
    BY DEF Matched
  <2>2. ~(Back(p) /\ outboundMsgs[i].msgid = p.id)
    BY <2>1 DEF Agrees
  <2>3. PICK j \in DOMAIN outboundMsgs' : outboundMsgs'[j] = outboundMsgs[i]
    BY <2>2 DEF p
  <2> QED
    BY <2>1, <2>3 DEF Matched
<1>4. TokensMatched'
  <2>1. \A k \in DOMAIN toBroker : Forth(toBroker[k]) => Matched(toBroker[k], outboundMsgs')
    BY <1>2, <1>3 DEF TokensMatched, Opposite
  <2>2. \A k \in DOMAIN toClient' : Back(toClient'[k]) => Matched(toClient'[k], outboundMsgs')
    BY <1>1, <1>3, <1>t DEF TokensMatched, SameWay
  <2>3. \A k \in DOMAIN toClient' : Forth(toClient'[k]) => Matched(toClient'[k], brokerOut)
    BY <1>t DEF TokensMatched
  <2>4. \A k \in DOMAIN toBroker : Back(toBroker[k]) => Matched(toBroker[k], brokerOut)
    BY DEF TokensMatched
  <2> QED
    BY <1>a, <2>1, <2>2, <2>3, <2>4 DEF TokensMatched
<1>5. OneToken'
  <2>1. \A j, k \in DOMAIN toClient' : SameWay(toClient'[j], toClient'[k]) => j = k
    <3> SUFFICES ASSUME NEW j \in DOMAIN toClient', NEW k \in DOMAIN toClient', SameWay(toClient'[j], toClient'[k])
                 PROVE  j = k
      OBVIOUS
    <3>1. j + 1 = k + 1
      BY <1>t DEF OneToken
    <3>2. DOMAIN toClient' \subseteq Int
      <4>1. toClient \in Seq(Packets)
        BY DEF SessionTypeOK
      <4> QED
        BY <4>1, TailAt
    <3> QED
      BY <3>1, <3>2
  <2>2. \A j \in DOMAIN effects', k \in DOMAIN toBroker :
          effects'[j].op = "send" => ~SameWay(effects'[j].rec, toBroker[k])
    BY <1>a, <1>2, <1>x DEF SameWay, Opposite
  <2>3. \A j \in DOMAIN effects', k \in DOMAIN toClient' :
          effects'[j].op = "send" => ~Opposite(effects'[j].rec, toClient'[k])
    BY <1>a, <1>1, <1>x DEF SameWay, Opposite
  <2>4. \A j \in DOMAIN toBroker, k \in DOMAIN toClient' : ~Opposite(toBroker[j], toClient'[k])
    BY <1>t DEF OneToken
  <2>5. \A j, k \in DOMAIN toBroker : SameWay(toBroker[j], toBroker[k]) => j = k
    BY DEF OneToken
  <2> QED
    BY <2>1, <2>2, <2>3, <2>4, <2>5 DEF OneToken
<1> QED
  BY <1>4, <1>5

\* A packet the client ignores.
LEMMA IgnoredStep ==
  ASSUME CoreInv, NEW type, Receive(type), outboundMsgs' = outboundMsgs, inboundMsgs' = inboundMsgs,
         effects' = effects, NothingQueued
  PROVE  CoreInv'
<1>0. /\ SessionTypeOK /\ LinkInv /\ TokensMatched /\ OneToken /\ ListsInv /\ KeysInv /\ RecordsInv /\ CallsInv
      /\ ~persistent => pstore = {}
      /\ Version = 4 => (persistent => ReleaseInv) /\ HeldInv /\ NeverTwice
      /\ crashes = 0 => ReceivedInv
      /\ (Version = 4 /\ persistent /\ ~Clean) => AgreeInv
  BY DEF CoreInv
<1>a. /\ messageQueue' = messageQueue /\ qentry_seqno' = qentry_seqno /\ queued' = queued
      /\ effects = <<>> /\ effects' = <<>> /\ DOMAIN effects = {} /\ DOMAIN effects' = {}
      /\ toClient \in Seq(Packets) /\ toClient # <<>> /\ toClient' = Tail(toClient)
  BY <1>0, ReceiveDoes, EmptyDomain DEF NothingQueued, SessionTypeOK
<1>b. /\ toClient' \in Seq(Packets)
      /\ \A k \in DOMAIN toClient' : k + 1 \in DOMAIN toClient /\ toClient'[k] = toClient[k + 1]
  BY <1>a, TailAt
<1>c. /\ alive' = alive /\ connected' = connected /\ msgID' = msgID /\ pstore' = pstore
      /\ link' = link /\ toBroker' = toBroker /\ brokerHeld' = brokerHeld /\ brokerOut' = brokerOut
      /\ published' = published /\ delivered' = delivered /\ qosOf' = qosOf /\ inSent' = inSent
      /\ completed' = completed /\ crashes' = crashes
  BY ReceiveDoes
<1>1. SessionTypeOK'
  BY <1>0, <1>a, <1>b, <1>c DEF SessionTypeOK
<1>2. LinkInv'
  BY <1>0, <1>a, <1>c DEF LinkInv
<1>3. TokensMatched' /\ OneToken'
  BY <1>0, <1>a, <1>c, HandledTokens
<1>4. ListsInv'
  BY <1>0, <1>c DEF ListsInv, MsgIdsDistinct, IdsDiffer, PublicationOrder
<1>5. KeysInv'
  BY <1>0, <1>a, <1>c DEF KeysInv, IdsDiffer
<1>6. RecordsInv' /\ CallsInv' /\ (~persistent => pstore = {})'
  BY <1>0, <1>a, <1>c DEF RecordsInv, CallsInv, Records
<1>7. (Version = 4 => (persistent => ReleaseInv) /\ HeldInv /\ NeverTwice)'
  BY <1>0, <1>a, <1>c DEF ReleaseInv, HeldInv, NeverTwice, HasRecord, Records
<1>8. (crashes = 0 => ReceivedInv)'
  BY <1>0, <1>a, <1>b, <1>c DEF ReceivedInv, IdsOf
<1>9. ((Version = 4 /\ persistent /\ ~Clean) => AgreeInv)'
  BY <1>0, <1>a, <1>c, SameStore DEF AgreeInv, ReleasedIds, Seqnos, IdsOf, Clean
<1> QED
  BY <1>1, <1>2, <1>3, <1>4, <1>5, <1>6, <1>7, <1>8, <1>9 DEF CoreInv

\* The calls that remove the records of a message.
LEMMA RemoveSentFacts ==
  ASSUME NEW id \in Nat
  PROVE  LET r == RemoveSent(id)
         IN /\ r \in Seq(Effects) /\ DOMAIN r = 1..4
            /\ \A k \in 1..4 : r[k].op = "remove" /\ r[k].rec.id = id /\ r[k].rec.key \in {"s", "sc"}
            /\ r[1].rec.key = "s" /\ r[1].rec.ver = 5 /\ r[2].rec.key = "sc" /\ r[2].rec.ver = 5
            /\ r[3].rec.key = "s" /\ r[3].rec.ver = 4 /\ r[4].rec.key = "sc" /\ r[4].rec.ver = 4
<1> DEFINE a == Unput("s", 5, id)
           b == Unput("sc", 5, id)
           c == Unput("s", 4, id)
           d == Unput("sc", 4, id)
<1>1. /\ a.op = "remove" /\ a.rec.id = id /\ a.rec.key = "s" /\ a.rec.ver = 5
      /\ b.op = "remove" /\ b.rec.id = id /\ b.rec.key = "sc" /\ b.rec.ver = 5
      /\ c.op = "remove" /\ c.rec.id = id /\ c.rec.key = "s" /\ c.rec.ver = 4
      /\ d.op = "remove" /\ d.rec.id = id /\ d.rec.key = "sc" /\ d.rec.ver = 4
  BY DEF Unput
<1>2. a \in Effects /\ b \in Effects /\ c \in Effects /\ d \in Effects
  BY DEF Unput, Effects, Removals
<1>3. RemoveSent(id) = <<a, b, c, d>>
  BY DEF RemoveSent
<1> HIDE DEF a, b, c, d
<1> QED
  BY <1>1, <1>2, <1>3

\* The parts of ReleaseInv, over a step that leaves the store alone.
LEMMA ReleaseParts ==
  ASSUME pstore' = pstore,
         \A k \in DOMAIN effects' : effects'[k].op = "send" =>
           \E j \in 1..(k - 1) : effects'[j].op = "put" /\ effects'[j].rec.key = "sc"
                                   /\ effects'[j].rec.id = effects'[k].rec.id,
         \A k \in DOMAIN toBroker' : toBroker'[k].type = "PUBREL" => HasRecord("sc", toBroker'[k].id),
         \A k \in DOMAIN effects' :
           effects'[k].op = "remove" /\ effects'[k].rec.key = "sc" /\ effects'[k].rec.ver = 4 =>
             \E j \in 1..(k - 1) : effects'[j].op = "remove" /\ effects'[j].rec.key = "s"
                                     /\ effects'[j].rec.ver = 4 /\ effects'[j].rec.id = effects'[k].rec.id
  PROVE  ReleaseInv'
<1>1. \A k \in DOMAIN toBroker' : toBroker'[k].type = "PUBREL" => HasRecord("sc", toBroker[k].id)'
  BY DEF HasRecord, Records
<1> QED
  BY <1>1 DEF ReleaseInv

\* A message that is done, or that the broker refused, and its records.
LEMMA DropStep ==
  ASSUME CoreInv, NEW type \in Acks, Receive(type), inboundMsgs' = inboundMsgs, NothingQueued,
         outboundMsgs' = Without(outboundMsgs, Head(toClient).id), effects' = RemoveSent(Head(toClient).id)
  PROVE  CoreInv'
<1>0. /\ SessionTypeOK /\ LinkInv /\ TokensMatched /\ OneToken /\ ListsInv /\ KeysInv /\ RecordsInv /\ CallsInv
      /\ ~persistent => pstore = {}
      /\ Version = 4 => (persistent => ReleaseInv) /\ HeldInv /\ NeverTwice
      /\ crashes = 0 => ReceivedInv
      /\ (Version = 4 /\ persistent /\ ~Clean) => AgreeInv
  BY DEF CoreInv
<1> DEFINE p == Head(toClient)
<1>a. /\ messageQueue' = messageQueue /\ qentry_seqno' = qentry_seqno /\ queued' = queued
      /\ effects = <<>> /\ DOMAIN effects = {}
      /\ toClient \in Seq(Packets) /\ toClient # <<>> /\ toClient' = Tail(toClient)
      /\ connected /\ alive /\ p.type = type
  BY <1>0, ReceiveDoes, EmptyDomain DEF NothingQueued, SessionTypeOK
<1>b. /\ toClient' \in Seq(Packets) /\ p \in Packets
      /\ \A k \in DOMAIN toClient' : k + 1 \in DOMAIN toClient /\ toClient'[k] = toClient[k + 1]
  BY <1>a, TailAt
<1>c. /\ alive' = alive /\ connected' = connected /\ msgID' = msgID /\ pstore' = pstore
      /\ link' = link /\ toBroker' = toBroker /\ brokerHeld' = brokerHeld /\ brokerOut' = brokerOut
      /\ published' = published /\ delivered' = delivered /\ qosOf' = qosOf /\ inSent' = inSent
      /\ completed' = completed /\ crashes' = crashes
  BY ReceiveDoes
<1> DEFINE id == p.id
<1>i. id \in Nat /\ Back(p)
  BY <1>a, <1>b DEF Packets, Back
<1>e. /\ effects' \in Seq(Effects) /\ DOMAIN effects' = 1..4
      /\ \A k \in 1..4 : effects'[k].op = "remove" /\ effects'[k].rec.id = id /\ effects'[k].rec.key \in {"s", "sc"}
      /\ effects'[1].rec.key = "s" /\ effects'[1].rec.ver = 5 /\ effects'[2].rec.key = "sc" /\ effects'[2].rec.ver = 5
      /\ effects'[3].rec.key = "s" /\ effects'[3].rec.ver = 4 /\ effects'[4].rec.key = "sc" /\ effects'[4].rec.ver = 4
  BY <1>i, RemoveSentFacts
<1>o. outboundMsgs \in Seq(Entries) /\ IdsDiffer(outboundMsgs)
  BY <1>0 DEF SessionTypeOK, ListsInv, MsgIdsDistinct, IdsDiffer
<1>w. /\ outboundMsgs' \in Seq(Entries)
      /\ \A j \in DOMAIN outboundMsgs' : \E i \in DOMAIN outboundMsgs : outboundMsgs'[j] = outboundMsgs[i] /\ outboundMsgs[i].msgid # id
      /\ \A i \in DOMAIN outboundMsgs : outboundMsgs[i].msgid # id => \E j \in DOMAIN outboundMsgs' : outboundMsgs'[j] = outboundMsgs[i]
      /\ \A j, k \in DOMAIN outboundMsgs' : j < k =>
           \E h, i \in DOMAIN outboundMsgs : h < i /\ outboundMsgs'[j] = outboundMsgs[h] /\ outboundMsgs'[k] = outboundMsgs[i]
      /\ IdsDiffer(outboundMsgs')
      /\ IdsOf(outboundMsgs') = IdsOf(outboundMsgs) \ {id}
  BY <1>o, WithoutFacts
<1> HIDE DEF p, id
<1>1. SessionTypeOK'
  BY <1>0, <1>a, <1>b, <1>c, <1>e, <1>w DEF SessionTypeOK
<1>2. LinkInv'
  BY <1>0, <1>a, <1>c, <1>e DEF LinkInv
<1>3. TokensMatched' /\ OneToken'
  <2>1. \A k \in DOMAIN effects' : effects'[k].op # "send"
    BY <1>e
  <2>2. \A i \in DOMAIN outboundMsgs : ~(Back(Head(toClient)) /\ outboundMsgs[i].msgid = Head(toClient).id) =>
           \E j \in DOMAIN outboundMsgs' : outboundMsgs'[j] = outboundMsgs[i]
    BY <1>w, <1>i DEF p, id
  <2> QED
    BY <1>0, <1>a, <1>c, <2>1, <2>2, HandledTokens
<1>4. ListsInv'
  <2>1. \A i, j \in DOMAIN outboundMsgs' : outboundMsgs'[i].msg = outboundMsgs'[j].msg => i = j
    <3>1. DOMAIN outboundMsgs' \subseteq Int /\ DOMAIN outboundMsgs \subseteq Int
      BY <1>o, <1>w, LenProperties
    <3>2. \A i, j \in DOMAIN outboundMsgs : outboundMsgs[i].msg = outboundMsgs[j].msg => i = j
      BY <1>0 DEF ListsInv
    <3>3. \A i, j \in DOMAIN outboundMsgs' : i < j => outboundMsgs'[i].msg # outboundMsgs'[j].msg
      BY <1>w, <3>1, <3>2, SMTT(60)
    <3>4. \A i, j \in DOMAIN outboundMsgs' : i < j \/ j < i \/ i = j
      BY <3>1
    <3> QED
      BY <3>3, <3>4
  <2>2. crashes = 0 => \A i, j \in DOMAIN outboundMsgs' : i < j => outboundMsgs'[i].msg < outboundMsgs'[j].msg
    BY <1>0, <1>w DEF ListsInv, PublicationOrder
  <2>3. \A i \in DOMAIN outboundMsgs' :
       /\ Proper(outboundMsgs'[i])
       /\ outboundMsgs'[i].msg <= published /\ outboundMsgs'[i].qos = qosOf[outboundMsgs'[i].msg]
    BY <1>0, <1>w DEF ListsInv
  <2>4. \A i, j \in DOMAIN outboundMsgs' : outboundMsgs'[i].msgid = outboundMsgs'[j].msgid => i = j
    BY <1>w DEF IdsDiffer
  <2>5. /\ IdsDiffer(brokerOut)
        /\ \A i \in DOMAIN brokerOut : /\ Proper(brokerOut[i])
                                       /\ brokerOut[i].msg <= inSent /\ brokerOut[i].msgid = brokerOut[i].msg
    BY <1>0 DEF ListsInv
  <2> QED
    BY <1>c, <2>1, <2>2, <2>3, <2>4, <2>5 DEF ListsInv, MsgIdsDistinct, IdsDiffer, PublicationOrder, Proper
<1>5. KeysInv'
  <2>1. \A j, k \in DOMAIN effects' : SameKey(effects'[j].rec, effects'[k].rec) => j = k
    <3>1. \A j \in DOMAIN effects' : j = 1 \/ j = 2 \/ j = 3 \/ j = 4
      BY <1>e
    <3>2. \A j, k \in DOMAIN effects' : effects'[j].rec.key = effects'[k].rec.key /\ effects'[j].rec.ver = effects'[k].rec.ver => j = k
      <4> DEFINE kk == [j \in 1..4 |-> effects'[j].rec.key]
                 vv == [j \in 1..4 |-> effects'[j].rec.ver]
      <4>1. kk[1] = "s" /\ vv[1] = 5 /\ kk[2] = "sc" /\ vv[2] = 5 /\ kk[3] = "s" /\ vv[3] = 4 /\ kk[4] = "sc" /\ vv[4] = 4
        BY <1>e
      <4>2. \A j \in DOMAIN effects' : effects'[j].rec.key = kk[j] /\ effects'[j].rec.ver = vv[j]
        BY <1>e
      <4> HIDE DEF kk, vv
      <4> QED
        BY <3>1, <4>1, <4>2
    <3> QED
      BY <3>2 DEF SameKey
  <2>2. \A k \in DOMAIN effects' : effects'[k].op # "put"
    BY <1>e
  <2> QED
    BY <1>0, <1>a, <1>c, <2>1, <2>2 DEF KeysInv, IdsDiffer
<1>6. RecordsInv' /\ CallsInv' /\ (~persistent => pstore = {})'
  <2>1. RecordsInv'
    BY <1>0, <1>c, <1>w DEF RecordsInv, Records
  <2>2. CallsInv'
    <3>1. \A k \in DOMAIN effects' : effects'[k].op = "remove" /\ effects'[k].rec.id \notin IdsOf(outboundMsgs')
      BY <1>e, <1>w
    <3> QED
      BY <3>1 DEF CallsInv, IdsOf
  <2> QED
    BY <1>0, <1>c, <2>1, <2>2
<1>7. (Version = 4 => (persistent => ReleaseInv) /\ HeldInv /\ NeverTwice)'
  <2> SUFFICES ASSUME Version = 4 PROVE (persistent => ReleaseInv') /\ HeldInv' /\ NeverTwice'
    OBVIOUS
  <2>0. HeldInv /\ NeverTwice /\ (persistent => ReleaseInv)
    BY <1>0
  <2>1. persistent => ReleaseInv'
    <3>1. \A k \in DOMAIN effects' : effects'[k].op = "remove"
             /\ (effects'[k].rec.key = "sc" /\ effects'[k].rec.ver = 4 => k = 4)
      BY <1>e
    <3>2. \E j \in 1..(4 - 1) : effects'[j].op = "remove" /\ effects'[j].rec.key = "s"
                                 /\ effects'[j].rec.ver = 4 /\ effects'[j].rec.id = effects'[4].rec.id
      <4>1. 3 \in 1..(4 - 1) /\ 3 \in 1..4 /\ 4 \in 1..4
        OBVIOUS
      <4> QED
        BY <4>1, <1>e
    <3>3. persistent => \A k \in DOMAIN toBroker' : toBroker'[k].type = "PUBREL" => HasRecord("sc", toBroker[k].id)
      BY <1>c, <2>0 DEF ReleaseInv
    <3>4. \A k \in DOMAIN effects' : effects'[k].op # "send"
      BY <3>1
    <3>5. \A k \in DOMAIN effects' :
            effects'[k].op = "remove" /\ effects'[k].rec.key = "sc" /\ effects'[k].rec.ver = 4 =>
              \E j \in 1..(k - 1) : effects'[j].op = "remove" /\ effects'[j].rec.key = "s"
                                      /\ effects'[j].rec.ver = 4 /\ effects'[j].rec.id = effects'[k].rec.id
      BY <3>1, <3>2
    <3>7. persistent => \A k \in DOMAIN toBroker' : toBroker'[k].type = "PUBREL" => HasRecord("sc", toBroker'[k].id)
      BY <1>c, <2>0 DEF ReleaseInv
    <3> QED
      BY <1>c, <3>4, <3>5, <3>7, ReleaseParts
  <2>2. HeldInv'
    <3>1. \A i \in DOMAIN outboundMsgs' : \E j \in DOMAIN outboundMsgs : outboundMsgs'[i] = outboundMsgs[j]
      BY <1>w
    <3> QED
      BY <1>c, <2>0, <3>1 DEF HeldInv, HasRecord, Records
  <2>3. NeverTwice'
    BY <1>c, <2>0 DEF NeverTwice
  <2> QED
    BY <2>1, <2>2, <2>3
<1>8. (crashes = 0 => ReceivedInv)'
  <2>1. \A k \in DOMAIN effects' : effects'[k].op # "send"
    BY <1>e
  <2> QED
    BY <1>0, <1>a, <1>b, <1>c, <2>1 DEF ReceivedInv, IdsOf
<1>9. ((Version = 4 /\ persistent /\ ~Clean) => AgreeInv)'
  <2> SUFFICES ASSUME Version = 4 /\ persistent /\ ~Clean PROVE AgreeInv'
    BY DEF Clean
  <2>0. AgreeInv /\ \A key : Tag(key) = 4
    BY <1>0 DEF Tag, AckVersion
  <2>2. \A key, n : WillHave(key, n) <=> HasRecord(key, n)
    BY <1>a, EmptyDomain DEF WillHave
  <2>3. \A key, n : WillHave(key, n)' <=> HasRecord(key, n) /\ ~(key \in {"s", "sc"} /\ n = id)
    <3>1. \A k \in DOMAIN effects' : effects'[k].op = "remove"
      BY <1>e
    <3>2. \A key, n : (\E k \in DOMAIN effects' : /\ effects'[k].op = "remove" /\ effects'[k].rec.key = key
                                   /\ effects'[k].rec.id = n /\ effects'[k].rec.ver = 4) <=> (key \in {"s", "sc"} /\ n = id)
      <4>1. 3 \in DOMAIN effects' /\ 4 \in DOMAIN effects' /\ 3 \in 1..4 /\ 4 \in 1..4
        BY <1>e
      <4> QED
        BY <1>e, <4>1
    <3>3. \A key, n : HasRecord(key, n)' <=> HasRecord(key, n)
      BY <1>c DEF HasRecord, Records
    <3>4. SUFFICES ASSUME NEW key, NEW n
                   PROVE  WillHave(key, n)' <=> HasRecord(key, n) /\ ~(key \in {"s", "sc"} /\ n = id)
      OBVIOUS
    <3>5. Tag(key) = 4 /\ (HasRecord(key, n)' <=> HasRecord(key, n))
      BY <2>0, <3>3
    <3>6. (\E k \in DOMAIN effects' : /\ effects'[k].op = "remove" /\ effects'[k].rec.key = key
                                     /\ effects'[k].rec.id = n /\ effects'[k].rec.ver = 4)
          <=> (key \in {"s", "sc"} /\ n = id)
      BY <3>2
    <3> QED
      BY <3>1, <3>5, <3>6 DEF WillHave
  <2>4. ReleasedIds' = ReleasedIds \ {id}
    BY <1>w DEF ReleasedIds
  <2>5. Seqnos' = Seqnos /\ IdsOf(inboundMsgs') = IdsOf(inboundMsgs)
    BY <1>a DEF Seqnos, IdsOf
  <2>6. IdsOf(outboundMsgs)' = IdsOf(outboundMsgs') /\ IdsOf(inboundMsgs)' = IdsOf(inboundMsgs')
    BY DEF IdsOf
  <2> QED
    BY <1>a, <1>w, <2>0, <2>2, <2>3, <2>4, <2>5, <2>6 DEF AgreeInv, Agreed
<1> QED
  BY <1>1, <1>2, <1>3, <1>4, <1>5, <1>6, <1>7, <1>8, <1>9 DEF CoreInv

\* A PUBREC for a message that waits for it: the PUBREL and its record.
LEMMA ReleaseStep ==
  ASSUME CoreInv, Receive("PUBREC"), inboundMsgs' = inboundMsgs, NothingQueued,
         NEW at \in DOMAIN outboundMsgs, outboundMsgs[at].msgid = Head(toClient).id,
         effects' = SendPubrel(Head(toClient).id),
         outboundMsgs' = [i \in DOMAIN outboundMsgs |->
                            IF i = at THEN [outboundMsgs[i] EXCEPT !.next = "PUBCOMP"] ELSE outboundMsgs[i]]
  PROVE  CoreInv'
<1>0. /\ SessionTypeOK /\ LinkInv /\ TokensMatched /\ OneToken /\ ListsInv /\ KeysInv /\ RecordsInv /\ CallsInv
      /\ ~persistent => pstore = {}
      /\ Version = 4 => (persistent => ReleaseInv) /\ HeldInv /\ NeverTwice
      /\ crashes = 0 => ReceivedInv
      /\ (Version = 4 /\ persistent /\ ~Clean) => AgreeInv
  BY DEF CoreInv
<1> DEFINE p == Head(toClient)
<1>a. /\ messageQueue' = messageQueue /\ qentry_seqno' = qentry_seqno /\ queued' = queued
      /\ effects = <<>> /\ DOMAIN effects = {}
      /\ toClient \in Seq(Packets) /\ toClient # <<>> /\ toClient' = Tail(toClient)
      /\ connected /\ alive /\ p.type = "PUBREC"
  BY <1>0, ReceiveDoes, EmptyDomain DEF NothingQueued, SessionTypeOK
<1>b. /\ toClient' \in Seq(Packets) /\ p \in Packets
      /\ \A k \in DOMAIN toClient' : k + 1 \in DOMAIN toClient /\ toClient'[k] = toClient[k + 1]
  BY <1>a, TailAt
<1>c. /\ alive' = alive /\ connected' = connected /\ msgID' = msgID /\ pstore' = pstore
      /\ link' = link /\ toBroker' = toBroker /\ brokerHeld' = brokerHeld /\ brokerOut' = brokerOut
      /\ published' = published /\ delivered' = delivered /\ qosOf' = qosOf /\ inSent' = inSent
      /\ completed' = completed /\ crashes' = crashes
  BY ReceiveDoes
<1> DEFINE id == p.id
<1>i. id \in Nat /\ Back(p)
  BY <1>a, <1>b DEF Packets, Back, Acks
<1>e. /\ effects' \in Seq(Effects) /\ DOMAIN effects' = 1..2
      /\ effects'[1].op = "put" /\ effects'[1].rec.key = "sc" /\ effects'[1].rec.ver = AckVersion /\ effects'[1].rec.id = id
      /\ effects'[2].op = "send" /\ effects'[2].rec.type = "PUBREL" /\ effects'[2].rec.id = id
  <2> DEFINE x == Put("sc", AckVersion, id, 1, 0)
             y == Send(Packet("PUBREL", id, 1, 0))
  <2>1. x \in Effects /\ y \in Effects
    BY <1>i DEF Put, AckVersion, Effects, StoreRecords, Send, Packet, Packets
  <2>2. /\ x.op = "put" /\ x.rec.key = "sc" /\ x.rec.ver = AckVersion /\ x.rec.id = id
        /\ y.op = "send" /\ y.rec.type = "PUBREL" /\ y.rec.id = id
    BY DEF Put, Send, Packet
  <2>3. effects' = <<x, y>>
    BY DEF SendPubrel
  <2> HIDE DEF x, y, id
  <2>4. effects' \in Seq(Effects)
    BY <2>1, <2>3, TwoListed, Zenon
  <2>5. DOMAIN effects' = 1..2 /\ effects'[1] = x /\ effects'[2] = y
    BY <2>3
  <2> QED
    BY <2>2, <2>4, <2>5
<1>o. /\ outboundMsgs \in Seq(Entries) /\ Len(outboundMsgs) \in Nat /\ DOMAIN outboundMsgs = 1..Len(outboundMsgs)
      /\ \A i \in DOMAIN outboundMsgs : outboundMsgs[i] \in Entries
  BY <1>0, LenProperties, ElementOfSeq DEF SessionTypeOK
<1>w. /\ DOMAIN outboundMsgs' = DOMAIN outboundMsgs
      /\ \A i \in DOMAIN outboundMsgs : /\ i # at => outboundMsgs'[i] = outboundMsgs[i]
                                        /\ outboundMsgs'[i].msgid = outboundMsgs[i].msgid
                                        /\ outboundMsgs'[i].msg = outboundMsgs[i].msg
                                        /\ outboundMsgs'[i].qos = outboundMsgs[i].qos
      /\ outboundMsgs'[at].next = "PUBCOMP"
      /\ outboundMsgs' \in Seq(Entries)
  <2>1. DOMAIN outboundMsgs' = DOMAIN outboundMsgs /\ \A i \in DOMAIN outboundMsgs : i # at => outboundMsgs'[i] = outboundMsgs[i]
    OBVIOUS
  <2>2. outboundMsgs'[at] = [outboundMsgs[at] EXCEPT !.next = "PUBCOMP"]
    OBVIOUS
  <2>3. /\ outboundMsgs'[at].msgid = outboundMsgs[at].msgid /\ outboundMsgs'[at].msg = outboundMsgs[at].msg
        /\ outboundMsgs'[at].qos = outboundMsgs[at].qos /\ outboundMsgs'[at].next = "PUBCOMP"
        /\ outboundMsgs'[at] \in Entries
    <3>1. outboundMsgs[at] \in Entries
      BY <1>o
    <3> QED
      BY <2>2, <3>1 DEF Entries, Acks
  <2>4. \A i \in DOMAIN outboundMsgs : outboundMsgs'[i] \in Entries
    BY <1>o, <2>1, <2>3
  <2>5. outboundMsgs' \in [1..Len(outboundMsgs) -> Entries]
    BY <1>o, <2>4
  <2>6. outboundMsgs' \in Seq(Entries)
    BY <1>o, <2>5, SeqDef
  <2> QED
    BY <2>1, <2>3, <2>6
<1>u. \A i \in DOMAIN outboundMsgs : outboundMsgs[i].msgid = id <=> i = at
  BY <1>0 DEF ListsInv, MsgIdsDistinct
<1> HIDE DEF p, id
<1>y. outboundMsgs[at].msgid = id
  BY <1>u
<1>1. SessionTypeOK'
  BY <1>0, <1>a, <1>b, <1>c, <1>e, <1>w DEF SessionTypeOK
<1>2. LinkInv'
  BY <1>0, <1>a, <1>c, <1>e DEF LinkInv
<1>3. TokensMatched' /\ OneToken'
  <2>1. \A k \in DOMAIN effects' : effects'[k].op = "send" => k = 2
    BY <1>e
  <2>2. \A i \in DOMAIN outboundMsgs : ~(Back(p) /\ outboundMsgs[i].msgid = id) =>
           \E j \in DOMAIN outboundMsgs' : outboundMsgs'[j] = outboundMsgs[i]
    BY <1>w, <1>u, <1>i
  <2>3. Forth(effects'[2].rec) /\ ~Back(effects'[2].rec) /\ Opposite(effects'[2].rec, p)
    BY <1>e, <1>i DEF Forth, Back, Acks, Opposite, id
  <2>4. Matched(effects'[2].rec, outboundMsgs')
    <3>1. Agrees(effects'[2].rec, outboundMsgs'[at])
      BY <1>e, <1>w, <1>y DEF Agrees, Acks
    <3> QED
      BY <1>w, <3>1 DEF Matched
  <2>5. \A k \in DOMAIN effects' : effects'[k].op = "send" =>
           /\ Opposite(effects'[k].rec, p)
           /\ Forth(effects'[k].rec) => Matched(effects'[k].rec, outboundMsgs')
           /\ Back(effects'[k].rec) => Matched(effects'[k].rec, brokerOut)
    BY <2>1, <2>3, <2>4
  <2> QED
    BY <1>0, <1>a, <1>c, <2>1, <2>2, <2>5, HandledTokens DEF p, id
<1>4. ListsInv'
  <2>1. \A i \in DOMAIN outboundMsgs' : Proper(outboundMsgs'[i])
    BY <1>0, <1>w DEF ListsInv, Proper
  <2> QED
    BY <1>0, <1>c, <1>w, <2>1 DEF ListsInv, MsgIdsDistinct, IdsDiffer, PublicationOrder
<1>5. KeysInv'
  <2>1. \A j, k \in DOMAIN effects' : IsStoreCall(effects'[j]) /\ IsStoreCall(effects'[k]) => j = k
    BY <1>e DEF IsStoreCall
  <2>2. \A k \in DOMAIN effects' : effects'[k].op = "put" => effects'[k].rec.ver = Tag(effects'[k].rec.key)
    BY <1>e DEF Tag
  <2> QED
    BY <1>0, <1>a, <1>c, <2>1, <2>2 DEF KeysInv, IdsDiffer, IsStoreCall
<1>6. RecordsInv' /\ CallsInv' /\ (~persistent => pstore = {})'
  <2>1. RecordsInv'
    BY <1>0, <1>c, <1>w DEF RecordsInv, Records
  <2>2. CallsInv'
    <3>1. \A k \in DOMAIN effects' : /\ effects'[k].op # "remove"
                                     /\ effects'[k].op = "put" => effects'[k].rec.key = "sc" /\ effects'[k].rec.id = id
      BY <1>e
    <3> QED
      BY <1>w, <1>y, <3>1 DEF CallsInv, IdsOf
  <2> QED
    BY <1>0, <1>c, <2>1, <2>2
<1>7. (Version = 4 => (persistent => ReleaseInv) /\ HeldInv /\ NeverTwice)'
  <2> SUFFICES ASSUME Version = 4 PROVE (persistent => ReleaseInv') /\ HeldInv' /\ NeverTwice'
    OBVIOUS
  <2>0. HeldInv /\ NeverTwice /\ (persistent => ReleaseInv)
    BY <1>0
  <2>1. persistent => ReleaseInv'
    <3>1. \A k \in DOMAIN effects' : effects'[k].op # "remove" /\ (effects'[k].op = "send" => k = 2)
      BY <1>e
    <3>2. \E j \in 1..(2 - 1) : effects'[j].op = "put" /\ effects'[j].rec.key = "sc"
                               /\ effects'[j].rec.id = effects'[2].rec.id
      <4>1. 1 \in 1..(2 - 1)
        OBVIOUS
      <4> QED
        BY <4>1, <1>e
    <3>3. persistent => \A k \in DOMAIN toBroker' : toBroker'[k].type = "PUBREL" => HasRecord("sc", toBroker[k].id)
      BY <1>c, <2>0 DEF ReleaseInv
    <3>5. \A k \in DOMAIN effects' : effects'[k].op = "send" =>
            \E j \in 1..(k - 1) : effects'[j].op = "put" /\ effects'[j].rec.key = "sc"
                                    /\ effects'[j].rec.id = effects'[k].rec.id
      BY <3>1, <3>2
    <3>7. persistent => \A k \in DOMAIN toBroker' : toBroker'[k].type = "PUBREL" => HasRecord("sc", toBroker'[k].id)
      BY <1>c, <2>0 DEF ReleaseInv
    <3>6. \A k \in DOMAIN effects' : effects'[k].op # "remove"
      BY <3>1
    <3> QED
      BY <1>c, <3>5, <3>6, <3>7, ReleaseParts
  <2>2. HeldInv'
    <3>1. \A i \in DOMAIN outboundMsgs' : outboundMsgs'[i].next # "PUBCOMP" => i \in DOMAIN outboundMsgs /\ outboundMsgs'[i] = outboundMsgs[i]
      BY <1>w
    <3> QED
      BY <1>c, <2>0, <3>1 DEF HeldInv, HasRecord, Records
  <2>3. NeverTwice'
    BY <1>c, <2>0 DEF NeverTwice
  <2> QED
    BY <2>1, <2>2, <2>3
<1>8. (crashes = 0 => ReceivedInv)'
  <2>1. \A k \in DOMAIN effects' : effects'[k].op = "send" => effects'[k].rec.type = "PUBREL"
    BY <1>e
  <2> QED
    BY <1>0, <1>a, <1>b, <1>c, <2>1 DEF ReceivedInv, IdsOf
<1>9. ((Version = 4 /\ persistent /\ ~Clean) => AgreeInv)'
  <2> SUFFICES ASSUME Version = 4 /\ persistent /\ ~Clean PROVE AgreeInv'
    BY DEF Clean
  <2>0. AgreeInv
    BY <1>0
  <2>2. \A key, n : WillHave(key, n) <=> HasRecord(key, n)
    BY <1>a, EmptyDomain DEF WillHave
  <2>3. \A key, n : WillHave(key, n)' <=> HasRecord(key, n) \/ (key = "sc" /\ n = id)
    <3>1. \A k \in DOMAIN effects' : effects'[k].op # "remove"
      BY <1>e
    <3>2. \A key, n : (\E k \in DOMAIN effects' : effects'[k].op = "put" /\ effects'[k].rec.key = key /\ effects'[k].rec.id = n)
                      <=> (key = "sc" /\ n = id)
      <4>1. 1 \in DOMAIN effects' /\ \A k \in DOMAIN effects' : effects'[k].op = "put" => k = 1
        BY <1>e
      <4> QED
        BY <1>e, <4>1
    <3> QED
      BY <1>c, <3>1, <3>2 DEF WillHave, HasRecord, Records
  <2>4. ReleasedIds' = ReleasedIds \cup {id}
    <3>1. \A i \in DOMAIN outboundMsgs : outboundMsgs'[i].next = "PUBCOMP" <=> outboundMsgs[i].next = "PUBCOMP" \/ i = at
      BY <1>w
    <3> QED
      <4>0. \A n : n \in ReleasedIds' <=> \E i \in DOMAIN outboundMsgs' : outboundMsgs'[i].next = "PUBCOMP" /\ n = outboundMsgs'[i].msgid
        BY DEF ReleasedIds
      <4>1. \A n : n \in ReleasedIds' <=> \E i \in DOMAIN outboundMsgs : outboundMsgs'[i].next = "PUBCOMP" /\ n = outboundMsgs[i].msgid
        <5>1. DOMAIN outboundMsgs' = DOMAIN outboundMsgs /\ \A i \in DOMAIN outboundMsgs : outboundMsgs'[i].msgid = outboundMsgs[i].msgid
          BY <1>w
        <5> QED
          BY <4>0, <5>1
      <4>2. \A n : n \in ReleasedIds <=> \E i \in DOMAIN outboundMsgs : outboundMsgs[i].next = "PUBCOMP" /\ n = outboundMsgs[i].msgid
        BY DEF ReleasedIds
      <4>3. \A n : n \in ReleasedIds' <=> n \in ReleasedIds \/ n = id
        BY <1>y, <3>1, <4>1, <4>2
      <4> QED
        BY <4>3
  <2>5. Seqnos' = Seqnos /\ IdsOf(inboundMsgs)' = IdsOf(inboundMsgs) /\ IdsOf(outboundMsgs)' = IdsOf(outboundMsgs)
    BY <1>a, <1>w DEF Seqnos, IdsOf
  <2> QED
    BY <1>a, <2>0, <2>2, <2>3, <2>4, <2>5 DEF AgreeInv, Agreed
<1> QED
  BY <1>1, <1>2, <1>3, <1>4, <1>5, <1>6, <1>7, <1>8, <1>9 DEF CoreInv

\* The four handlers of acknowledgements.
LEMMA AnswersStep ==
  ASSUME CoreInv, handlePubacks \/ handlePubcomps \/ handlePubrecs \/ handlePingresps
  PROVE  CoreInv'
<1>1. ASSUME NEW qos, NEW type \in {"PUBACK", "PUBCOMP"}, Receive(type), Finish(Head(toClient).id, qos, type),
             NothingQueued, inboundMsgs' = inboundMsgs
      PROVE  CoreInv'
  <2>1. type \in Acks
    BY DEF Acks
  <2>2. \/ outboundMsgs' = Without(outboundMsgs, Head(toClient).id) /\ effects' = RemoveSent(Head(toClient).id)
        \/ outboundMsgs' = outboundMsgs /\ effects' = effects
    BY <1>1 DEF Finish
  <2> QED
    BY <1>1, <2>1, <2>2, DropStep, IgnoredStep
<1>2. CASE handlePubacks
  BY <1>1, <1>2 DEF handlePubacks
<1>3. CASE handlePubcomps
  BY <1>1, <1>3 DEF handlePubcomps
<1>4. CASE handlePingresps
  BY <1>4, IgnoredStep DEF handlePingresps
<1>5. CASE handlePubrecs
  <2> DEFINE p == Head(toClient)
             waiting == {i \in DOMAIN outboundMsgs : /\ outboundMsgs[i].msgid = p.id
                                                     /\ outboundMsgs[i].qos = 2
                                                     /\ outboundMsgs[i].next = "PUBREC"}
  <2>0. Receive("PUBREC") /\ NothingQueued /\ inboundMsgs' = inboundMsgs /\ "PUBREC" \in Acks
    BY <1>5 DEF handlePubrecs, Acks
  <2>1. \/ outboundMsgs' = outboundMsgs /\ effects' = effects
        \/ outboundMsgs' = Without(outboundMsgs, p.id) /\ effects' = RemoveSent(p.id)
        \/ /\ waiting # {} /\ effects' = SendPubrel(p.id)
           /\ outboundMsgs' = [i \in DOMAIN outboundMsgs |->
                  IF i \in waiting THEN [outboundMsgs[i] EXCEPT !.next = "PUBCOMP"]
                  ELSE outboundMsgs[i]]
    BY <1>5 DEF handlePubrecs
  <2>2. CASE outboundMsgs' = outboundMsgs /\ effects' = effects
    BY <2>0, <2>2, IgnoredStep
  <2>3. CASE outboundMsgs' = Without(outboundMsgs, p.id) /\ effects' = RemoveSent(p.id)
    BY <2>0, <2>3, DropStep
  <2>4. CASE /\ waiting # {} /\ effects' = SendPubrel(p.id)
             /\ outboundMsgs' = [i \in DOMAIN outboundMsgs |->
                  IF i \in waiting THEN [outboundMsgs[i] EXCEPT !.next = "PUBCOMP"]
                  ELSE outboundMsgs[i]]
    <3>1. PICK at \in waiting : TRUE
      BY <2>4
    <3>2. at \in DOMAIN outboundMsgs /\ outboundMsgs[at].msgid = p.id
      BY <3>1
    <3>3. \A i \in DOMAIN outboundMsgs : i \in waiting <=> i = at
      <4>1. MsgIdsDistinct
        BY DEF CoreInv, ListsInv
      <4> QED
        BY <3>1, <3>2, <4>1 DEF MsgIdsDistinct
    <3> HIDE DEF waiting
    <3>4. outboundMsgs' = [i \in DOMAIN outboundMsgs |->
                  IF i = at THEN [outboundMsgs[i] EXCEPT !.next = "PUBCOMP"] ELSE outboundMsgs[i]]
      BY <2>4, <3>3, Zenon
    <3> QED
      BY <2>0, <2>4, <3>2, <3>4, ReleaseStep
  <2> QED
    BY <2>1, <2>2, <2>3, <2>4
<1> QED
  BY <1>2, <1>3, <1>4, <1>5

\* An entry is appended to messageQueue: its number is larger than all others.
LEMMA QueuedFacts ==
  ASSUME SessionTypeOK, KeysInv, NEW msg \in Messages, Queued(msg)
  PROVE  /\ messageQueue' \in Seq(QueueEntries) /\ qentry_seqno' \in Nat /\ queued' \in [Messages -> Nat]
         /\ \A i, j \in DOMAIN messageQueue' : i < j => messageQueue'[i].seqno < messageQueue'[j].seqno
         /\ \A i \in DOMAIN messageQueue' : messageQueue'[i].seqno <= qentry_seqno'
         /\ Seqnos' = Seqnos \cup {qentry_seqno + 1}
         /\ \A m \in Messages : queued'[m] = IF m = msg THEN queued[m] + 1 ELSE queued[m]
<1> DEFINE x == [seqno |-> qentry_seqno + 1, msg |-> msg]
<1>0. /\ messageQueue \in Seq(QueueEntries) /\ qentry_seqno \in Nat /\ queued \in [Messages -> Nat]
      /\ \A i, j \in DOMAIN messageQueue : i < j => messageQueue[i].seqno < messageQueue[j].seqno
      /\ \A i \in DOMAIN messageQueue : messageQueue[i].seqno <= qentry_seqno
  BY DEF SessionTypeOK, KeysInv
<1>1. /\ messageQueue' = Append(messageQueue, x) /\ qentry_seqno' = qentry_seqno + 1
      /\ queued' = [queued EXCEPT ![msg] = @ + 1]
  BY DEF Queued
<1>2. x \in QueueEntries /\ x.seqno = qentry_seqno + 1
  BY <1>0 DEF QueueEntries
<1>3. queued' \in [Messages -> Nat] /\ \A m \in Messages : queued'[m] = IF m = msg THEN queued[m] + 1 ELSE queued[m]
  BY <1>0, <1>1
<1>4. \A i \in DOMAIN messageQueue : messageQueue[i].seqno \in Nat
  <2>1. \A i \in DOMAIN messageQueue : messageQueue[i] \in QueueEntries
    BY <1>0, ElementOfSeq
  <2> QED
    BY <2>1 DEF QueueEntries
<1> HIDE DEF x
<1>5. /\ messageQueue' \in Seq(QueueEntries) /\ Len(messageQueue) \in Nat
      /\ DOMAIN messageQueue' = 1..(Len(messageQueue) + 1) /\ DOMAIN messageQueue = 1..Len(messageQueue)
      /\ \A k \in DOMAIN messageQueue : k \in DOMAIN messageQueue' /\ messageQueue'[k] = messageQueue[k]
      /\ messageQueue'[Len(messageQueue) + 1] = x
      /\ \A k \in DOMAIN messageQueue' : k = Len(messageQueue) + 1 \/ k \in DOMAIN messageQueue
  BY <1>0, <1>1, <1>2, AppendAt
<1>6. Len(messageQueue) + 1 \in DOMAIN messageQueue'
  BY <1>5
<1>7. \A i \in DOMAIN messageQueue' : messageQueue'[i].seqno <= qentry_seqno'
  BY <1>0, <1>1, <1>2, <1>4, <1>5
<1>8. \A i, j \in DOMAIN messageQueue' : i < j => messageQueue'[i].seqno < messageQueue'[j].seqno
  <2> SUFFICES ASSUME NEW i \in DOMAIN messageQueue', NEW j \in DOMAIN messageQueue', i < j
               PROVE  messageQueue'[i].seqno < messageQueue'[j].seqno
    OBVIOUS
  <2>1. i \in DOMAIN messageQueue
    BY <1>5
  <2>2. CASE j \in DOMAIN messageQueue
    BY <1>0, <1>5, <2>1, <2>2
  <2>3. CASE j = Len(messageQueue) + 1
    BY <1>0, <1>2, <1>4, <1>5, <2>1, <2>3
  <2> QED
    BY <1>5, <2>2, <2>3
<1>9. Seqnos' = Seqnos \cup {qentry_seqno + 1}
  <2>1. \A n : n \in Seqnos' <=> \E k \in DOMAIN messageQueue' : n = messageQueue'[k].seqno
    BY DEF Seqnos
  <2>2. \A n : n \in Seqnos <=> \E k \in DOMAIN messageQueue : n = messageQueue[k].seqno
    BY DEF Seqnos
  <2>3. \A n : n \in Seqnos' <=> n \in Seqnos \/ n = qentry_seqno + 1
    BY <1>2, <1>5, <1>6, <2>1, <2>2
  <2> QED
    BY <2>3
<1> QED
  BY <1>0, <1>1, <1>3, <1>5, <1>7, <1>8, <1>9

\* A publication of QoS 2 takes the place of the one with its id, or comes last.
LEMMA InboundFacts ==
  ASSUME inboundMsgs \in Seq(InEntries), IdsDiffer(inboundMsgs), NEW id \in Nat, NEW msg \in Messages
  PROVE  LET w == Inbound(id, msg)
         IN /\ w \in Seq(InEntries) /\ IdsDiffer(w) /\ IdsOf(w) = IdsOf(inboundMsgs) \cup {id}
            /\ \A j \in DOMAIN w : (w[j].msgid = id /\ w[j].msg = msg) \/ \E i \in DOMAIN inboundMsgs : w[j] = inboundMsgs[i]
<1> DEFINE w == Inbound(id, msg)
           x == [msgid |-> id, msg |-> msg]
<1>0. x \in InEntries /\ x.msgid = id /\ x.msg = msg
  BY DEF InEntries
<1>n. /\ Len(inboundMsgs) \in Nat /\ DOMAIN inboundMsgs = 1..Len(inboundMsgs)
      /\ \A i \in DOMAIN inboundMsgs : inboundMsgs[i] \in InEntries
  BY LenProperties, ElementOfSeq
<1>1. CASE id \in IdsOf(inboundMsgs)
  <2>1. w = [i \in DOMAIN inboundMsgs |-> IF inboundMsgs[i].msgid = id THEN x ELSE inboundMsgs[i]]
    BY <1>1 DEF Inbound
  <2> HIDE DEF w, x
  <2>2. DOMAIN w = DOMAIN inboundMsgs /\ \A i \in DOMAIN w : w[i] \in InEntries
    BY <1>0, <1>n, <2>1
  <2>3. w \in [1..Len(inboundMsgs) -> InEntries]
    BY <1>n, <2>1, <2>2
  <2>4. w \in Seq(InEntries)
    BY <1>n, <2>3, SeqDef
  <2>5. \A i \in DOMAIN inboundMsgs : w[i].msgid = inboundMsgs[i].msgid
    BY <1>0, <2>1
  <2>6. IdsDiffer(w)
    BY <2>2, <2>5 DEF IdsDiffer
  <2>7. IdsOf(w) = IdsOf(inboundMsgs)
    BY <2>2, <2>5 DEF IdsOf
  <2>8. \A j \in DOMAIN w : (w[j].msgid = id /\ w[j].msg = msg) \/ \E i \in DOMAIN inboundMsgs : w[j] = inboundMsgs[i]
    BY <1>0, <2>1
  <2> QED
    BY <1>1, <2>4, <2>6, <2>7, <2>8 DEF w
<1>2. CASE id \notin IdsOf(inboundMsgs)
  <2>1. w = Append(inboundMsgs, x)
    BY <1>2 DEF Inbound
  <2> HIDE DEF w, x
  <2>2. /\ w \in Seq(InEntries)
        /\ \A k \in DOMAIN inboundMsgs : k \in DOMAIN w /\ w[k] = inboundMsgs[k]
        /\ w[Len(inboundMsgs) + 1] = x /\ DOMAIN w = 1..(Len(inboundMsgs) + 1)
        /\ \A k \in DOMAIN w : k = Len(inboundMsgs) + 1 \/ k \in DOMAIN inboundMsgs
    BY <1>0, <2>1, AppendAt
  <2>3. Len(inboundMsgs) + 1 \in DOMAIN w
    BY <1>n, <2>2
  <2>4. \A i \in DOMAIN inboundMsgs : inboundMsgs[i].msgid # id
    BY <1>2 DEF IdsOf
  <2>5. IdsDiffer(w)
    BY <1>0, <2>2, <2>4 DEF IdsDiffer
  <2>6. IdsOf(w) = IdsOf(inboundMsgs) \cup {id}
    <3>1. \A n : n \in IdsOf(w) <=> \E k \in DOMAIN w : n = w[k].msgid
      BY DEF IdsOf
    <3>2. \A n : n \in IdsOf(inboundMsgs) <=> \E k \in DOMAIN inboundMsgs : n = inboundMsgs[k].msgid
      BY DEF IdsOf
    <3>3. \A n : n \in IdsOf(w) <=> n \in IdsOf(inboundMsgs) \/ n = id
      BY <1>0, <2>2, <2>3, <3>1, <3>2
    <3> QED
      BY <3>3
  <2>7. \A j \in DOMAIN w : (w[j].msgid = id /\ w[j].msg = msg) \/ \E i \in DOMAIN inboundMsgs : w[j] = inboundMsgs[i]
    BY <1>0, <2>2
  <2> QED
    BY <2>2, <2>5, <2>6, <2>7 DEF w
<1> QED
  BY <1>1, <1>2

\* A packet of an exchange of the broker: what is not about receiving stays.
LEMMA InboundStep ==
  ASSUME CoreInv, NEW type, Receive(type), outboundMsgs' = outboundMsgs,
         inboundMsgs' \in Seq(InEntries), messageQueue' \in Seq(QueueEntries), qentry_seqno' \in Nat,
         queued' \in [Messages -> Nat], effects' \in Seq(Effects),
         \A k \in DOMAIN effects' : effects'[k].op = "send" =>
           Opposite(effects'[k].rec, Head(toClient)) /\ Back(effects'[k].rec) /\ Matched(effects'[k].rec, brokerOut),
         \A j, k \in DOMAIN effects' : effects'[j].op = "send" /\ effects'[k].op = "send" => j = k,
         \A k \in DOMAIN effects' : IsStoreCall(effects'[k]) => effects'[k].rec.key \in {"r", "q"},
         KeysInv', (crashes = 0 => ReceivedInv)', ((Version = 4 /\ persistent /\ ~Clean) => AgreeInv)'
  PROVE  CoreInv'
<1>0. /\ SessionTypeOK /\ LinkInv /\ TokensMatched /\ OneToken /\ ListsInv /\ KeysInv /\ RecordsInv /\ CallsInv
      /\ ~persistent => pstore = {}
      /\ Version = 4 => (persistent => ReleaseInv) /\ HeldInv /\ NeverTwice
      /\ crashes = 0 => ReceivedInv
      /\ (Version = 4 /\ persistent /\ ~Clean) => AgreeInv
  BY DEF CoreInv
<1>a. /\ effects = <<>> /\ DOMAIN effects = {} /\ connected /\ alive
      /\ toClient \in Seq(Packets) /\ toClient # <<>> /\ toClient' = Tail(toClient)
  BY <1>0, ReceiveDoes, EmptyDomain DEF SessionTypeOK
<1>b. toClient' \in Seq(Packets)
  BY <1>a, TailAt
<1>c. /\ alive' = alive /\ connected' = connected /\ msgID' = msgID /\ pstore' = pstore
      /\ link' = link /\ toBroker' = toBroker /\ brokerHeld' = brokerHeld /\ brokerOut' = brokerOut
      /\ published' = published /\ delivered' = delivered /\ qosOf' = qosOf /\ inSent' = inSent
      /\ completed' = completed /\ crashes' = crashes
  BY ReceiveDoes
<1>x. \A r : Back(r) => ~Forth(r) /\ r.type # "PUBREL"
  BY DEF Forth, Back, Acks
<1>1. SessionTypeOK'
  BY <1>0, <1>a, <1>b, <1>c DEF SessionTypeOK
<1>2. LinkInv'
  <2>1. \A k \in DOMAIN effects' : effects'[k].op = "send" => effects'[k].rec.type # "PINGRESP"
    BY DEF Back, Acks
  <2> QED
    BY <1>0, <1>a, <1>c, <2>1 DEF LinkInv
<1>3. TokensMatched' /\ OneToken'
  <2>1. \A k \in DOMAIN effects' : effects'[k].op = "send" =>
           /\ Opposite(effects'[k].rec, Head(toClient))
           /\ Forth(effects'[k].rec) => Matched(effects'[k].rec, outboundMsgs')
           /\ Back(effects'[k].rec) => Matched(effects'[k].rec, brokerOut)
    BY <1>x
  <2> QED
    BY <1>0, <1>a, <1>c, <2>1, HandledTokens
<1>4. ListsInv'
  BY <1>0, <1>c DEF ListsInv, MsgIdsDistinct, IdsDiffer, PublicationOrder
<1>6. RecordsInv' /\ CallsInv' /\ (~persistent => pstore = {})'
  <2>1. RecordsInv'
    BY <1>0, <1>c DEF RecordsInv, Records
  <2>2. CallsInv'
    <3>1. \A k \in DOMAIN effects' : effects'[k].op \in {"put", "remove"} => effects'[k].rec.key \notin {"s", "sc"}
      BY DEF IsStoreCall
    <3> QED
      BY <3>1 DEF CallsInv
  <2> QED
    BY <1>0, <1>c, <2>1, <2>2
<1>7. (Version = 4 => (persistent => ReleaseInv) /\ HeldInv /\ NeverTwice)'
  <2>1. \A k \in DOMAIN effects' : /\ effects'[k].op = "send" => effects'[k].rec.type # "PUBREL"
                                   /\ effects'[k].op = "remove" => effects'[k].rec.key # "sc"
    BY <1>x DEF IsStoreCall
  <2> QED
    BY <1>0, <1>c, <2>1 DEF ReleaseInv, HeldInv, NeverTwice, HasRecord, Records
<1> QED
  BY <1>1, <1>2, <1>3, <1>4, <1>6, <1>7 DEF CoreInv

\* The calls with which a publication p is kept and answered.
Ack(p) == IF p.qos = 1 THEN "PUBACK" ELSE "PUBREC"
Kept(p) ==
  CASE p.qos = 0 -> <<>>
    [] p.qos = 1 -> <<SendAck("PUBACK", p.id)>>
    [] p.qos = 2 -> <<Put("r", Version, p.id, 2, p.msg), SendAck("PUBREC", p.id)>>
IsAck(e, p) == e.op = "send" /\ e.rec.type = Ack(p) /\ e.rec.id = p.id
IsPut(e, key, id) == e.op = "put" /\ e.rec.key = key /\ e.rec.ver = Version /\ e.rec.id = id

\* What MQTTProtocol_handlePublishes calls for a message of each quality of service.
LEMMA KeptFacts ==
  ASSUME NEW p \in Packets, p.type = "PUBLISH"
  PROVE  /\ Kept(p) \in Seq(Effects) /\ p.qos \in 0..2 /\ DOMAIN Kept(p) = 1..p.qos
         /\ p.qos > 0 => IsAck(Kept(p)[p.qos], p)
         /\ p.qos = 2 => IsPut(Kept(p)[1], "r", p.id)
<1>0. p.qos \in 0..2 /\ p.id \in Nat /\ p.msg \in Messages /\ (p.qos = 0 \/ p.qos = 1 \/ p.qos = 2)
  BY DEF Packets, Acks
<1> DEFINE x == SendAck(Ack(p), p.id)
           y == Put("r", Version, p.id, 2, p.msg)
<1>1. x \in Effects /\ x.op = "send" /\ x.rec.type = Ack(p) /\ x.rec.id = p.id
  BY <1>0 DEF SendAck, Send, Packet, Effects, Packets, Acks, Ack
<1>2. y \in Effects /\ y.op = "put" /\ y.rec.key = "r" /\ y.rec.ver = Version /\ y.rec.id = p.id
  BY <1>0, SessionAssumption DEF Put, Effects, StoreRecords
<1>3. CASE p.qos = 0
  <2>1. Kept(p) = <<>>
    BY <1>3 DEF Kept
  <2> QED
    BY <1>0, <1>3, <2>1, EmptyDomain
<1>4. CASE p.qos = 1
  <2>1. Kept(p) = <<x>>
    BY <1>4 DEF Kept, Ack
  <2> HIDE DEF x
  <2>2. Kept(p) \in Seq(Effects) /\ DOMAIN Kept(p) = 1..1 /\ Kept(p)[1] = x
    BY <1>1, <2>1
  <2> QED
    BY <1>0, <1>1, <1>4, <2>2 DEF IsAck
<1>5. CASE p.qos = 2
  <2>1. Kept(p) = <<y, x>>
    BY <1>5 DEF Kept, Ack
  <2> HIDE DEF x, y
  <2>2. Kept(p) \in Seq(Effects)
    BY <1>1, <1>2, <2>1
  <2>3. DOMAIN Kept(p) = 1..2 /\ Kept(p)[1] = y /\ Kept(p)[2] = x
    BY <2>1
  <2> QED
    BY <1>0, <1>1, <1>2, <1>5, <2>2, <2>3 DEF IsAck, IsPut
<1> QED
  BY <1>0, <1>3, <1>4, <1>5

\* MQTTProtocol_handlePublishes: the message is kept, queued if it is due, and its token
\* goes back as an acknowledgement.
LEMMA PublishesStep ==
  ASSUME CoreInv, handlePublishes
  PROVE  CoreInv' /\ (ReceiptInv => ReceiptInv')
<1>0. /\ SessionTypeOK /\ LinkInv /\ TokensMatched /\ OneToken /\ ListsInv /\ KeysInv /\ RecordsInv /\ CallsInv
      /\ ~persistent => pstore = {}
      /\ Version = 4 => (persistent => ReleaseInv) /\ HeldInv /\ NeverTwice
      /\ crashes = 0 => ReceivedInv
      /\ (Version = 4 /\ persistent /\ ~Clean) => AgreeInv
  BY DEF CoreInv
<1> DEFINE p == Head(toClient)
           now == p.qos # 2 \/ (Version = 5 /\ p.id \notin IdsOf(inboundMsgs))
<1>r. Receive("PUBLISH") /\ outboundMsgs' = outboundMsgs
  BY DEF handlePublishes
<1>a. /\ effects = <<>> /\ DOMAIN effects = {}
      /\ toClient \in Seq(Packets) /\ toClient # <<>> /\ toClient' = Tail(toClient)
      /\ connected /\ alive /\ p.type = "PUBLISH"
  BY <1>0, <1>r, ReceiveDoes, EmptyDomain DEF SessionTypeOK
<1>b. /\ toClient' \in Seq(Packets) /\ p \in Packets /\ p = toClient[1] /\ 1 \in DOMAIN toClient
      /\ \A k \in DOMAIN toClient' : k + 1 \in DOMAIN toClient /\ toClient'[k] = toClient[k + 1]
  BY <1>a, TailAt
<1>c. /\ alive' = alive /\ connected' = connected /\ msgID' = msgID /\ pstore' = pstore
      /\ link' = link /\ toBroker' = toBroker /\ brokerHeld' = brokerHeld /\ brokerOut' = brokerOut
      /\ published' = published /\ delivered' = delivered /\ qosOf' = qosOf /\ inSent' = inSent
      /\ completed' = completed /\ crashes' = crashes
  BY <1>r, ReceiveDoes
<1>p. p.id \in Nat /\ p.msg \in Messages /\ p.qos \in 0..2
  BY <1>a, <1>b DEF Packets, Acks
<1>n. \/ now /\ Queued(p.msg) /\ effects' = Append(Kept(p), PersistQueueEntry(p.msg))
      \/ ~now /\ NothingQueued /\ effects' = Kept(p)
  BY DEF handlePublishes, Kept
<1>i. inboundMsgs' = IF p.qos = 2 THEN Inbound(p.id, p.msg) ELSE inboundMsgs
  BY DEF handlePublishes
<1>k. /\ Kept(p) \in Seq(Effects) /\ DOMAIN Kept(p) = 1..p.qos /\ Len(Kept(p)) = p.qos
      /\ p.qos > 0 => IsAck(Kept(p)[p.qos], p)
      /\ p.qos = 2 => IsPut(Kept(p)[1], "r", p.id)
  BY <1>a, <1>b, <1>p, KeptFacts, LenProperties
<1> HIDE DEF p, now
<1>e. /\ effects' \in Seq(Effects)
      /\ DOMAIN effects' = 1..(p.qos + (IF now THEN 1 ELSE 0))
      /\ p.qos > 0 => IsAck(effects'[p.qos], p)
      /\ p.qos = 2 => IsPut(effects'[1], "r", p.id)
      /\ now => IsPut(effects'[p.qos + 1], "q", qentry_seqno + 1)
  <2>1. CASE now
    <3> DEFINE x == PersistQueueEntry(p.msg)
    <3>1. x \in Effects /\ IsPut(x, "q", qentry_seqno + 1)
      <4>1. qentry_seqno + 1 \in Nat
        BY <1>0 DEF SessionTypeOK
      <4> QED
        BY <1>p, <4>1, SessionAssumption DEF PersistQueueEntry, Put, Effects, StoreRecords, IsPut
    <3>2. effects' = Append(Kept(p), x)
      BY <1>n, <2>1
    <3> HIDE DEF x
    <3>3. /\ effects' \in Seq(Effects) /\ DOMAIN effects' = 1..(p.qos + 1)
          /\ \A k \in DOMAIN Kept(p) : effects'[k] = Kept(p)[k]
          /\ effects'[p.qos + 1] = x
      BY <1>k, <3>1, <3>2, AppendAt
    <3>4. p.qos > 0 => p.qos \in DOMAIN Kept(p) /\ 1 \in DOMAIN Kept(p)
      BY <1>k, <1>p
    <3> QED
      BY <1>k, <1>p, <2>1, <3>1, <3>3, <3>4
  <2>2. CASE ~now
    BY <1>n, <1>k, <1>p, <2>2
  <2> QED
    BY <2>1, <2>2
<1>f. \A k \in DOMAIN effects' : /\ effects'[k].op \in {"put", "send"}
                                 /\ effects'[k].op = "send" => k = p.qos /\ p.qos > 0 /\ IsAck(effects'[k], p)
                                 /\ effects'[k].op = "put" =>
                                      \/ k = 1 /\ p.qos = 2 /\ IsPut(effects'[k], "r", p.id)
                                      \/ k = p.qos + 1 /\ now /\ IsPut(effects'[k], "q", qentry_seqno + 1)
  <2> SUFFICES ASSUME NEW k \in DOMAIN effects'
               PROVE  \/ k = p.qos /\ p.qos > 0 /\ IsAck(effects'[k], p)
                      \/ k = 1 /\ p.qos = 2 /\ IsPut(effects'[k], "r", p.id)
                      \/ k = p.qos + 1 /\ now /\ IsPut(effects'[k], "q", qentry_seqno + 1)
    BY DEF IsAck, IsPut
  <2>1. CASE k = p.qos + 1
    <3>1. now
      BY <1>e, <1>p, <2>1
    <3> QED
      BY <1>e, <2>1, <3>1
  <2>2. CASE k = p.qos
    <3>1. p.qos > 0
      BY <1>e, <1>p, <2>2
    <3> QED
      BY <1>e, <2>2, <3>1
  <2>3. CASE k # p.qos /\ k # p.qos + 1
    <3>1. k = 1 /\ p.qos = 2
      BY <1>e, <1>p, <2>3
    <3> QED
      BY <1>e, <3>1
  <2> QED
    BY <2>1, <2>2, <2>3
<1>d. /\ p.qos = 2 => 1 \in DOMAIN effects' /\ p.qos \in DOMAIN effects'
      /\ now => p.qos + 1 \in DOMAIN effects'
  BY <1>e, <1>p
<1>q. \/ now /\ messageQueue' \in Seq(QueueEntries) /\ qentry_seqno' = qentry_seqno + 1
      \/ ~now /\ messageQueue' = messageQueue /\ qentry_seqno' = qentry_seqno /\ queued' = queued
  BY <1>n, <1>0, <1>p, QueuedFacts DEF NothingQueued, Queued
<1>g. /\ messageQueue' \in Seq(QueueEntries) /\ qentry_seqno' \in Nat /\ queued' \in [Messages -> Nat]
      /\ \A i, j \in DOMAIN messageQueue' : i < j => messageQueue'[i].seqno < messageQueue'[j].seqno
      /\ \A i \in DOMAIN messageQueue' : messageQueue'[i].seqno <= qentry_seqno'
      /\ Seqnos' = IF now THEN Seqnos \cup {qentry_seqno + 1} ELSE Seqnos
      /\ \A m \in Messages : queued'[m] = IF now /\ m = p.msg THEN queued[m] + 1 ELSE queued[m]
  <2>1. CASE now
    BY <1>n, <1>0, <1>p, <2>1, QueuedFacts
  <2>2. CASE ~now
    <3>1. messageQueue' = messageQueue /\ qentry_seqno' = qentry_seqno /\ queued' = queued
      BY <1>q, <2>2
    <3> QED
      BY <1>0, <2>2, <3>1 DEF SessionTypeOK, KeysInv, Seqnos
  <2> QED
    BY <2>1, <2>2
<1>j. /\ inboundMsgs' \in Seq(InEntries) /\ IdsDiffer(inboundMsgs')
      /\ IdsOf(inboundMsgs') = IF p.qos = 2 THEN IdsOf(inboundMsgs) \cup {p.id} ELSE IdsOf(inboundMsgs)
      /\ \A j \in DOMAIN inboundMsgs' : \/ p.qos = 2 /\ inboundMsgs'[j].msgid = p.id /\ inboundMsgs'[j].msg = p.msg
                                        \/ \E i \in DOMAIN inboundMsgs : inboundMsgs'[j] = inboundMsgs[i]
  <2>1. inboundMsgs \in Seq(InEntries) /\ IdsDiffer(inboundMsgs)
    BY <1>0 DEF SessionTypeOK, KeysInv
  <2>2. CASE p.qos = 2
    BY <1>i, <1>p, <2>1, <2>2, InboundFacts
  <2>3. CASE p.qos # 2
    BY <1>i, <2>1, <2>3
  <2> QED
    BY <2>2, <2>3
\* The message of the broker it is about.
<1>m. p.qos > 0 => \E i \in DOMAIN brokerOut :
        /\ brokerOut[i].msgid = p.id /\ brokerOut[i].msg = p.msg /\ brokerOut[i].qos = p.qos
        /\ brokerOut[i].next = Ack(p) /\ p.id = p.msg /\ p.msg <= inSent
  <2> SUFFICES ASSUME p.qos > 0 PROVE \E i \in DOMAIN brokerOut :
        /\ brokerOut[i].msgid = p.id /\ brokerOut[i].msg = p.msg /\ brokerOut[i].qos = p.qos
        /\ brokerOut[i].next = Ack(p) /\ p.id = p.msg /\ p.msg <= inSent
    OBVIOUS
  <2>1. Forth(p)
    BY <1>a DEF Forth
  <2>2. PICK i \in DOMAIN brokerOut : Agrees(p, brokerOut[i])
    BY <1>0, <1>b, <2>1 DEF TokensMatched, Matched
  <2>3. brokerOut[i].msgid = p.id /\ brokerOut[i].msg = p.msg /\ brokerOut[i].qos = p.qos /\ brokerOut[i].next # "PUBCOMP"
    BY <1>a, <2>2 DEF Agrees
  <2>4. brokerOut[i] \in Entries
    BY <1>0, ElementOfSeq DEF SessionTypeOK
  <2>5. Proper(brokerOut[i]) /\ brokerOut[i].msg <= inSent /\ brokerOut[i].msgid = brokerOut[i].msg
    BY <1>0 DEF ListsInv
  <2>6. brokerOut[i].next = Ack(p)
    BY <1>p, <2>3, <2>4, <2>5 DEF Proper, Ack, Entries, Acks
  <2> QED
    BY <2>3, <2>5, <2>6
<1>3. \A k \in DOMAIN effects' : effects'[k].op = "send" =>
           Opposite(effects'[k].rec, p) /\ Back(effects'[k].rec) /\ Matched(effects'[k].rec, brokerOut)
  <2> SUFFICES ASSUME NEW k \in DOMAIN effects', effects'[k].op = "send"
               PROVE  Opposite(effects'[k].rec, p) /\ Back(effects'[k].rec) /\ Matched(effects'[k].rec, brokerOut)
    OBVIOUS
  <2>1. p.qos > 0 /\ effects'[k].rec.type = Ack(p) /\ effects'[k].rec.id = p.id /\ Ack(p) \in {"PUBACK", "PUBREC"}
    BY <1>f DEF IsAck, Ack
  <2>2. Back(effects'[k].rec) /\ Forth(p) /\ Opposite(effects'[k].rec, p)
    BY <1>a, <2>1 DEF Back, Forth, Acks, Opposite
  <2>3. Matched(effects'[k].rec, brokerOut)
    BY <1>m, <2>1 DEF Matched, Agrees, Acks
  <2> QED
    BY <2>2, <2>3
<1>s. \A j, k \in DOMAIN effects' : effects'[j].op = "send" /\ effects'[k].op = "send" => j = k
  BY <1>f
<1>y. \A k \in DOMAIN effects' : IsStoreCall(effects'[k]) => effects'[k].rec.key \in {"r", "q"}
  BY <1>f DEF IsStoreCall, IsPut
<1>5. KeysInv'
  <2>1. \A j, k \in DOMAIN effects' : IsStoreCall(effects'[j]) /\ IsStoreCall(effects'[k])
             /\ SameKey(effects'[j].rec, effects'[k].rec) => j = k
    BY <1>f DEF IsStoreCall, IsPut, SameKey
  <2>2. \A k \in DOMAIN effects' : effects'[k].op = "put" => effects'[k].rec.ver = Tag(effects'[k].rec.key)
    BY <1>f DEF IsPut, Tag
  <2>3. /\ \A e \in pstore : e.ver = Tag(e.key)
        /\ \A e, f \in pstore : SameKey(e, f) => e = f
    BY <1>0 DEF KeysInv
  <2> QED
    BY <1>c, <1>g, <1>j, <2>1, <2>2, <2>3 DEF KeysInv, IdsDiffer, IsStoreCall, SameKey, Tag, AckVersion
<1>8. (crashes = 0 => ReceivedInv)'
  <2> SUFFICES ASSUME crashes = 0 PROVE ReceivedInv'
    BY <1>c
  <2>0. ReceivedInv
    BY <1>0
  <2>n. inSent \in Nat /\ queued \in [Messages -> Nat]
    BY <1>0 DEF SessionTypeOK
  <2>e. \A i \in DOMAIN brokerOut : /\ brokerOut[i].msg \in Messages /\ brokerOut[i].msgid = brokerOut[i].msg
                                    /\ brokerOut[i].msg <= inSent
    <3>1. \A i \in DOMAIN brokerOut : brokerOut[i] \in Entries
      BY <1>0, ElementOfSeq DEF SessionTypeOK
    <3> QED
      BY <1>0, <3>1 DEF Entries, ListsInv
  <2>o. p.qos = 0 => p.msg <= inSent /\ \A i \in DOMAIN brokerOut : brokerOut[i].msg # p.msg
    BY <1>a, <1>b, <2>0 DEF ReceivedInv
  <2>1. \A i \in DOMAIN inboundMsgs' : inboundMsgs'[i].msgid = inboundMsgs'[i].msg /\ inboundMsgs'[i].msg <= inSent
    BY <1>j, <1>m, <1>p, <2>0 DEF ReceivedInv
  <2>2. \A m \in completed : m \in Messages /\ queued'[m] > 0
    <3>1. \A m \in completed : m \in Messages /\ queued[m] > 0
      BY <2>0 DEF ReceivedInv
    <3> QED
      BY <1>g, <2>n, <3>1
  <2>3. \A m \in Messages : m > inSent => queued'[m] = 0
    <3>1. p.msg <= inSent
      BY <1>m, <1>p, <2>o
    <3>2. \A m \in Messages : m > inSent => queued[m] = 0 /\ m # p.msg
      BY <1>p, <2>0, <2>n, <3>1 DEF ReceivedInv, Messages
    <3> QED
      BY <1>g, <3>2
  <2>4. \A i \in DOMAIN brokerOut :
          LET b == brokerOut[i]
          IN /\ b.qos = 2 => queued'[b.msg] <= 1
             /\ b.next = "PUBREC" => (queued'[b.msg] = 0 <=> (Version = 4 \/ ~(b.msgid \in IdsOf(inboundMsgs'))))
             /\ b.next = "PUBCOMP" => (queued'[b.msg] = 0 <=> (Version = 4 /\ b.msgid \in IdsOf(inboundMsgs')))
    <3> SUFFICES ASSUME NEW i \in DOMAIN brokerOut
                 PROVE  LET b == brokerOut[i]
                        IN /\ b.qos = 2 => queued'[b.msg] <= 1
                           /\ b.next = "PUBREC" => (queued'[b.msg] = 0 <=> (Version = 4 \/ ~(b.msgid \in IdsOf(inboundMsgs'))))
                           /\ b.next = "PUBCOMP" => (queued'[b.msg] = 0 <=> (Version = 4 /\ b.msgid \in IdsOf(inboundMsgs')))
      OBVIOUS
    <3> DEFINE b == brokerOut[i]
    <3>0. /\ b.qos = 2 => queued[b.msg] <= 1
          /\ b.next = "PUBREC" => (queued[b.msg] = 0 <=> (Version = 4 \/ ~(b.msgid \in IdsOf(inboundMsgs))))
          /\ b.next = "PUBCOMP" => (queued[b.msg] = 0 <=> (Version = 4 /\ b.msgid \in IdsOf(inboundMsgs)))
          /\ b.msg \in Messages /\ b.msgid = b.msg /\ queued[b.msg] \in Nat
      BY <1>a, <2>0, <2>n, <2>e DEF ReceivedInv
    <3>1. CASE b.msg # p.msg
      <4>1. queued'[b.msg] = queued[b.msg]
        BY <1>g, <3>0, <3>1
      <4>2. b.msgid \in IdsOf(inboundMsgs') <=> b.msgid \in IdsOf(inboundMsgs)
        BY <1>j, <1>m, <1>p, <3>0, <3>1
      <4> QED
        BY <3>0, <4>1, <4>2
    <3>2. CASE b.msg = p.msg
      <4>1. p.qos > 0
        BY <1>p, <2>o, <3>2
      <4>2. b.qos = p.qos /\ b.next = Ack(p) /\ b.msgid = p.id
        <5>1. PICK j \in DOMAIN brokerOut : /\ brokerOut[j].msgid = p.id /\ brokerOut[j].msg = p.msg /\ brokerOut[j].qos = p.qos
                                            /\ brokerOut[j].next = Ack(p)
          BY <1>m, <4>1
        <5>2. i = j
          BY <1>0, <2>e, <3>2, <5>1 DEF ListsInv, IdsDiffer
        <5> QED
          BY <5>1, <5>2
      <4>3. CASE p.qos = 1
        BY <4>2, <4>3 DEF Ack
      <4>4. CASE p.qos = 2
        <5>1. b.next = "PUBREC" /\ b.qos = 2 /\ b.msgid \in IdsOf(inboundMsgs')
          BY <1>j, <4>2, <4>4 DEF Ack
        <5>2. now <=> Version = 5 /\ b.msgid \notin IdsOf(inboundMsgs)
          BY <4>2, <4>4 DEF now
        <5>3. queued'[b.msg] = IF now THEN queued[b.msg] + 1 ELSE queued[b.msg]
          BY <1>g, <3>0, <3>2
        <5>4. Version = 4 \/ Version = 5
          BY SessionAssumption
        <5>5. CASE now
          BY <3>0, <5>1, <5>2, <5>3, <5>5
        <5>6. CASE ~now
          BY <3>0, <5>1, <5>2, <5>3, <5>4, <5>6
        <5> QED
          BY <5>5, <5>6
      <4> QED
        BY <1>p, <4>1, <4>3, <4>4 DEF b
    <3> QED
      BY <3>1, <3>2
  <2>5. \A k \in DOMAIN effects' : effects'[k].op = "send" =>
          /\ effects'[k].rec.type \in {"PUBACK", "PUBCOMP"} => queued'[effects'[k].rec.id] > 0
          /\ effects'[k].rec.type = "PUBREC" => effects'[k].rec.id \in IdsOf(inboundMsgs')
    <3> SUFFICES ASSUME NEW k \in DOMAIN effects', effects'[k].op = "send"
                 PROVE  /\ effects'[k].rec.type \in {"PUBACK", "PUBCOMP"} => queued'[effects'[k].rec.id] > 0
                        /\ effects'[k].rec.type = "PUBREC" => effects'[k].rec.id \in IdsOf(inboundMsgs')
      OBVIOUS
    <3>1. p.qos > 0 /\ effects'[k].rec.type = Ack(p) /\ effects'[k].rec.id = p.id /\ p.id = p.msg
      BY <1>f, <1>m DEF IsAck
    <3>2. CASE p.qos = 1
      <4>1. now
        BY <3>2 DEF now
      <4>2. queued'[p.msg] = queued[p.msg] + 1 /\ queued[p.msg] \in Nat
        BY <1>g, <1>p, <2>n, <4>1
      <4> QED
        BY <3>1, <3>2, <4>2 DEF Ack
    <3>3. CASE p.qos = 2
      BY <1>j, <3>1, <3>3 DEF Ack
    <3> QED
      BY <1>p, <3>1, <3>2, <3>3
  <2>6. \A k \in DOMAIN toBroker :
          /\ toBroker[k].type \in {"PUBACK", "PUBCOMP"} => queued'[toBroker[k].id] > 0
          /\ toBroker[k].type = "PUBREC" => toBroker[k].id \in IdsOf(inboundMsgs')
    <3> SUFFICES ASSUME NEW k \in DOMAIN toBroker
                 PROVE  /\ toBroker[k].type \in {"PUBACK", "PUBCOMP"} => queued'[toBroker[k].id] > 0
                        /\ toBroker[k].type = "PUBREC" => toBroker[k].id \in IdsOf(inboundMsgs')
      OBVIOUS
    <3>1. /\ toBroker[k].type \in {"PUBACK", "PUBCOMP"} => queued[toBroker[k].id] > 0
          /\ toBroker[k].type = "PUBREC" => toBroker[k].id \in IdsOf(inboundMsgs)
      BY <2>0 DEF ReceivedInv
    <3>2. toBroker[k].type \in {"PUBACK", "PUBCOMP"} => toBroker[k].id \in Messages
      BY <1>0, <2>e DEF TokensMatched, Back, Acks, Matched, Agrees
    <3>3. \A m \in Messages : queued[m] > 0 => queued'[m] > 0
      BY <1>g, <2>n
    <3>4. \A n \in IdsOf(inboundMsgs) : n \in IdsOf(inboundMsgs')
      BY <1>j
    <3> QED
      BY <3>1, <3>2, <3>3, <3>4
  <2>7. \A k \in DOMAIN toClient' : toClient'[k].type = "PUBLISH" /\ toClient'[k].qos = 0 =>
          toClient'[k].msg <= inSent /\ \A i \in DOMAIN brokerOut : brokerOut[i].msg # toClient'[k].msg
    BY <1>b, <2>0 DEF ReceivedInv
  <2> QED
    BY <1>c, <2>1, <2>2, <2>3, <2>4, <2>5, <2>6, <2>7 DEF ReceivedInv, IdsOf
<1>9. ((Version = 4 /\ persistent /\ ~Clean) => AgreeInv)'
  <2> SUFFICES ASSUME Version = 4 /\ persistent /\ ~Clean PROVE AgreeInv'
    BY DEF Clean
  <2>0. AgreeInv
    BY <1>0
  <2>2. \A key, n : WillHave(key, n) <=> HasRecord(key, n)
    BY <1>a, EmptyDomain DEF WillHave
  <2>3. \A key, n : WillHave(key, n)' <=> \/ HasRecord(key, n) \/ (key = "r" /\ p.qos = 2 /\ n = p.id)
                                          \/ (key = "q" /\ now /\ n = qentry_seqno + 1)
    <3>1. \A k \in DOMAIN effects' : effects'[k].op # "remove"
      BY <1>f
    <3>2. \A key, n : (\E k \in DOMAIN effects' : effects'[k].op = "put" /\ effects'[k].rec.key = key /\ effects'[k].rec.id = n)
                      <=> (key = "r" /\ p.qos = 2 /\ n = p.id) \/ (key = "q" /\ now /\ n = qentry_seqno + 1)
      BY <1>e, <1>f, <1>d DEF IsPut
    <3> QED
      BY <1>c, <3>1, <3>2 DEF WillHave, HasRecord, Records
  <2>4. ReleasedIds' = ReleasedIds /\ IdsOf(outboundMsgs)' = IdsOf(outboundMsgs) /\ IdsOf(inboundMsgs)' = IdsOf(inboundMsgs')
    BY <1>r DEF ReleasedIds, IdsOf
  <2>5. Agreed("s", IdsOf(outboundMsgs))' /\ Agreed("sc", ReleasedIds)'
    BY <1>a, <2>0, <2>2, <2>3, <2>4 DEF AgreeInv, Agreed
  <2>7. Agreed("q", Seqnos)'
    BY <1>a, <1>g, <2>0, <2>2, <2>3 DEF AgreeInv, Agreed
  <2> QED
    BY <2>5, <2>7 DEF AgreeInv
\* A publication of QoS 2 is listed, and its record put.
<1>10. ASSUME ReceiptInv PROVE ReceiptInv'
  <2>1. \A n : WillHave("r", n)' <=> WillHave("r", n) \/ (p.qos = 2 /\ n = p.id)
    <3>1. \A k \in DOMAIN effects' : effects'[k].op # "remove"
      BY <1>f
    <3>2. \A n : (\E k \in DOMAIN effects' : effects'[k].op = "put" /\ effects'[k].rec.key = "r" /\ effects'[k].rec.id = n)
                 <=> p.qos = 2 /\ n = p.id
      BY <1>e, <1>f, <1>d DEF IsPut
    <3> QED
      BY <1>a, <1>c, <3>1, <3>2, EmptyDomain DEF WillHave, HasRecord, Records
  <2>2. IdsOf(inboundMsgs)' = IF p.qos = 2 THEN IdsOf(inboundMsgs) \cup {p.id} ELSE IdsOf(inboundMsgs)
    <3>1. IdsOf(inboundMsgs)' = IdsOf(inboundMsgs')
      BY DEF IdsOf
    <3> QED
      BY <1>j, <3>1
  <2>3. \A k \in DOMAIN effects' : effects'[k].op = "send" /\ effects'[k].rec.type = "PUBREC" =>
          p.qos = 2 /\ effects'[k].rec.id = p.id
    BY <1>f, <1>p DEF IsAck, Ack
  <2>4. \A n : Expected(n)' <=> Expected(n)
    BY <1>c DEF Expected
  <2> QED
    BY <1>10, <1>c, <2>1, <2>2, <2>3, <2>4 DEF ReceiptInv, Clean
<1> QED
  BY <1>r, <1>j, <1>g, <1>e, <1>3, <1>s, <1>y, <1>5, <1>8, <1>9, <1>10, InboundStep DEF p

\* The calls with which a PUBREL is answered.
IsPubcomp(e, id) == e.op = "send" /\ e.rec.type = "PUBCOMP" /\ e.rec.id = id
IsUnput(e, key, ver, id) == e.op = "remove" /\ e.rec.key = key /\ e.rec.ver = ver /\ e.rec.id = id

\* MQTTProtocol_handlePubrels: the message is released, with 3.1.1 also queued, and its
\* token goes back as PUBCOMP.
LEMMA PubrelsStep ==
  ASSUME CoreInv, handlePubrels
  PROVE  CoreInv' /\ (ReceiptInv => ReceiptInv')
<1>0. /\ SessionTypeOK /\ LinkInv /\ TokensMatched /\ OneToken /\ ListsInv /\ KeysInv /\ RecordsInv /\ CallsInv
      /\ ~persistent => pstore = {}
      /\ Version = 4 => (persistent => ReleaseInv) /\ HeldInv /\ NeverTwice
      /\ crashes = 0 => ReceivedInv
      /\ (Version = 4 /\ persistent /\ ~Clean) => AgreeInv
  BY DEF CoreInv
<1> DEFINE p == Head(toClient)
           id == p.id
           known == {i \in DOMAIN inboundMsgs : inboundMsgs[i].msgid = id}
           msg == inboundMsgs[CHOOSE i \in known : TRUE].msg
<1>r. Receive("PUBREL") /\ outboundMsgs' = outboundMsgs
  BY DEF handlePubrels
<1>z. CASE known = {}
  <2>1. NothingQueued /\ inboundMsgs' = inboundMsgs /\ effects' = effects
    BY <1>z DEF handlePubrels
  <2>2. CoreInv'
    BY <1>r, <2>1, IgnoredStep
  <2>3. ReceiptInv => ReceiptInv'
    <3>1. /\ toBroker' = toBroker /\ brokerOut' = brokerOut /\ alive' = alive /\ pstore' = pstore
      BY <1>r, ReceiveDoes
    <3> QED
      BY <2>1, <3>1 DEF ReceiptInv, WillHave, HasRecord, Records, Tag, IdsOf, Expected, Clean
  <2> QED
    BY <2>2, <2>3
<1>w. CASE known # {}
  <2>a. /\ effects = <<>> /\ DOMAIN effects = {}
        /\ toClient \in Seq(Packets) /\ toClient # <<>> /\ toClient' = Tail(toClient)
        /\ connected /\ alive /\ p.type = "PUBREL"
    BY <1>0, <1>r, ReceiveDoes, EmptyDomain DEF SessionTypeOK
  <2>b. /\ toClient' \in Seq(Packets) /\ p \in Packets /\ p = toClient[1] /\ 1 \in DOMAIN toClient
        /\ \A k \in DOMAIN toClient' : k + 1 \in DOMAIN toClient /\ toClient'[k] = toClient[k + 1]
    BY <2>a, TailAt
  <2>c. /\ alive' = alive /\ connected' = connected /\ msgID' = msgID /\ pstore' = pstore
        /\ link' = link /\ toBroker' = toBroker /\ brokerHeld' = brokerHeld /\ brokerOut' = brokerOut
        /\ published' = published /\ delivered' = delivered /\ qosOf' = qosOf /\ inSent' = inSent
        /\ completed' = completed /\ crashes' = crashes
    BY <1>r, ReceiveDoes
  <2>i. inboundMsgs \in Seq(InEntries) /\ IdsDiffer(inboundMsgs)
    BY <1>0 DEF SessionTypeOK, KeysInv
  <2>p. id \in Nat /\ id \in IdsOf(inboundMsgs) /\ Forth(p)
    BY <1>w, <2>a, <2>b DEF Packets, Acks, IdsOf, Forth
  <2>m. \E i \in DOMAIN inboundMsgs : inboundMsgs[i].msgid = id /\ inboundMsgs[i].msg = msg /\ inboundMsgs[i] \in InEntries
    <3> DEFINE at == CHOOSE i \in known : TRUE
    <3>1. at \in known
      BY <1>w
    <3>2. inboundMsgs[at] \in InEntries
      BY <3>1, <2>i, ElementOfSeq
    <3> QED
      BY <3>1, <3>2
  <2>g. msg \in Messages
    BY <2>m DEF InEntries
  <2>n. /\ inboundMsgs' = Without(inboundMsgs, id)
        /\ \/ Version = 5 /\ NothingQueued /\ effects' = <<SendAck("PUBCOMP", id), RemoveReceived(5, id), RemoveReceived(4, id)>>
           \/ Version # 5 /\ Queued(msg) /\ effects' = <<SendAck("PUBCOMP", id), PersistQueueEntry(msg),
                                                         RemoveReceived(5, id), RemoveReceived(4, id)>>
    BY <1>w DEF handlePubrels, Released
  <2>v. Version = 4 \/ Version = 5
    BY SessionAssumption
  <2>j. /\ inboundMsgs' \in Seq(InEntries) /\ IdsDiffer(inboundMsgs') /\ IdsOf(inboundMsgs') = IdsOf(inboundMsgs) \ {id}
        /\ \A j \in DOMAIN inboundMsgs' : \E i \in DOMAIN inboundMsgs : inboundMsgs'[j] = inboundMsgs[i]
    BY <2>i, <2>n, WithoutFacts
  <2> HIDE DEF p, id, known, msg
  <2>q. /\ messageQueue' \in Seq(QueueEntries) /\ qentry_seqno' \in Nat /\ queued' \in [Messages -> Nat]
        /\ \A i, j \in DOMAIN messageQueue' : i < j => messageQueue'[i].seqno < messageQueue'[j].seqno
        /\ \A i \in DOMAIN messageQueue' : messageQueue'[i].seqno <= qentry_seqno'
        /\ Seqnos' = IF Version = 4 THEN Seqnos \cup {qentry_seqno + 1} ELSE Seqnos
        /\ \A m \in Messages : queued'[m] = IF Version = 4 /\ m = msg THEN queued[m] + 1 ELSE queued[m]
    <3>1. CASE Version = 4
      <4>1. Queued(msg)
        BY <2>n, <3>1
      <4> QED
        BY <1>0, <2>g, <3>1, <4>1, QueuedFacts
    <3>2. CASE Version = 5
      <4>1. messageQueue' = messageQueue /\ qentry_seqno' = qentry_seqno /\ queued' = queued
        BY <2>n, <3>2 DEF NothingQueued
      <4>2. Version # 4
        BY <3>2
      <4> QED
        BY <1>0, <4>1, <4>2 DEF SessionTypeOK, KeysInv, Seqnos
    <3> QED
      BY <2>v, <3>1, <3>2
  <2>e. /\ effects' \in Seq(Effects)
        /\ \A k \in DOMAIN effects' : \/ k = 1 /\ IsPubcomp(effects'[k], id)
                                      \/ k = 2 /\ Version = 4 /\ IsPut(effects'[k], "q", qentry_seqno + 1)
                                      \/ k = Len(effects') - 1 /\ IsUnput(effects'[k], "r", 5, id)
                                      \/ k = Len(effects') /\ IsUnput(effects'[k], "r", 4, id)
        /\ Len(effects') = IF Version = 4 THEN 4 ELSE 3
        /\ DOMAIN effects' = 1..Len(effects')
        /\ IsUnput(effects'[Len(effects')], "r", 4, id)
        /\ Version = 4 => IsPut(effects'[2], "q", qentry_seqno + 1)
    <3> DEFINE w == SendAck("PUBCOMP", id)
               x == PersistQueueEntry(msg)
               y == RemoveReceived(5, id)
               z == RemoveReceived(4, id)
    <3>1. w \in Effects /\ IsPubcomp(w, id)
      BY <2>p DEF SendAck, Send, Packet, Effects, Packets, Acks, IsPubcomp
    <3>2. x \in Effects /\ IsPut(x, "q", qentry_seqno + 1)
      <4>1. qentry_seqno + 1 \in Nat
        BY <1>0 DEF SessionTypeOK
      <4> QED
        BY <2>g, <4>1, SessionAssumption DEF PersistQueueEntry, Put, Effects, StoreRecords, IsPut
    <3>3. y \in Effects /\ z \in Effects /\ IsUnput(y, "r", 5, id) /\ IsUnput(z, "r", 4, id)
      BY <2>p DEF RemoveReceived, Unput, Effects, Removals, IsUnput
    <3>4. \/ Version = 5 /\ effects' = <<w, y, z>>
          \/ Version = 4 /\ effects' = <<w, x, y, z>>
      BY <2>n, <2>v
    <3> HIDE DEF w, x, y, z
    <3>5. CASE Version = 5 /\ effects' = <<w, y, z>>
      <4>1. effects' \in Seq(Effects)
        BY <3>1, <3>3, <3>5
      <4>2. Len(effects') = 3 /\ DOMAIN effects' = 1..3 /\ effects'[1] = w /\ effects'[2] = y /\ effects'[3] = z
        BY <3>5
      <4>3. \A k \in DOMAIN effects' : k = 1 \/ k = Len(effects') - 1 \/ k = Len(effects')
        BY <4>2
      <4>4. Len(effects') - 1 = 2
        BY <4>2
      <4> QED
        BY <3>1, <3>3, <3>5, <4>1, <4>2, <4>3, <4>4
    <3>6. CASE Version = 4 /\ effects' = <<w, x, y, z>>
      <4>1. effects' \in Seq(Effects)
        BY <3>1, <3>2, <3>3, <3>6
      <4>2. Len(effects') = 4 /\ DOMAIN effects' = 1..4 /\ effects'[1] = w /\ effects'[2] = x /\ effects'[3] = y /\ effects'[4] = z
        BY <3>6
      <4>3. \A k \in DOMAIN effects' : k = 1 \/ k = 2 \/ k = Len(effects') - 1 \/ k = Len(effects')
        BY <4>2
      <4>4. Len(effects') - 1 = 3
        BY <4>2
      <4> QED
        BY <3>1, <3>2, <3>3, <3>6, <4>1, <4>2, <4>3, <4>4
    <3> QED
      BY <3>4, <3>5, <3>6
  <2>f. \A k \in DOMAIN effects' : /\ effects'[k].op \in {"send", "put", "remove"}
                                   /\ effects'[k].op = "send" => k = 1 /\ IsPubcomp(effects'[k], id)
                                   /\ effects'[k].op = "put" => k = 2 /\ Version = 4 /\ IsPut(effects'[k], "q", qentry_seqno + 1)
                                   /\ effects'[k].op = "remove" =>
                                        \/ k = Len(effects') - 1 /\ IsUnput(effects'[k], "r", 5, id)
                                        \/ k = Len(effects') /\ IsUnput(effects'[k], "r", 4, id)
    BY <2>e DEF IsPubcomp, IsPut, IsUnput
  \* The message of the broker it is about.
  <2>h. \E i \in DOMAIN brokerOut : brokerOut[i].msgid = id /\ brokerOut[i].next = "PUBCOMP" /\ brokerOut[i].msg = id /\ id \in Messages
    <3>1. PICK i \in DOMAIN brokerOut : Agrees(p, brokerOut[i])
      BY <1>0, <2>b, <2>p DEF TokensMatched, Matched
    <3>2. brokerOut[i].msgid = id /\ brokerOut[i].next = "PUBCOMP"
      BY <2>a, <3>1 DEF Agrees, id
    <3>3. brokerOut[i] \in Entries
      BY <1>0, ElementOfSeq DEF SessionTypeOK
    <3>4. brokerOut[i].msgid = brokerOut[i].msg
      BY <1>0 DEF ListsInv
    <3> QED
      BY <3>2, <3>3, <3>4 DEF Entries
  <2>3. \A k \in DOMAIN effects' : effects'[k].op = "send" =>
             Opposite(effects'[k].rec, p) /\ Back(effects'[k].rec) /\ Matched(effects'[k].rec, brokerOut)
    <3> SUFFICES ASSUME NEW k \in DOMAIN effects', effects'[k].op = "send"
                 PROVE  Opposite(effects'[k].rec, p) /\ Back(effects'[k].rec) /\ Matched(effects'[k].rec, brokerOut)
      OBVIOUS
    <3>1. effects'[k].rec.type = "PUBCOMP" /\ effects'[k].rec.id = id
      BY <2>f DEF IsPubcomp
    <3>2. Back(effects'[k].rec) /\ Opposite(effects'[k].rec, p)
      BY <2>p, <3>1 DEF Back, Acks, Opposite, id
    <3>3. Matched(effects'[k].rec, brokerOut)
      BY <2>h, <3>1 DEF Matched, Agrees, Acks
    <3> QED
      BY <3>2, <3>3
  <2>s. \A j, k \in DOMAIN effects' : effects'[j].op = "send" /\ effects'[k].op = "send" => j = k
    BY <2>f
  <2>y. \A k \in DOMAIN effects' : IsStoreCall(effects'[k]) => effects'[k].rec.key \in {"r", "q"}
    BY <2>f DEF IsStoreCall, IsPut, IsUnput
  <2>5. KeysInv'
    <3>1. \A j, k \in DOMAIN effects' : IsStoreCall(effects'[j]) /\ IsStoreCall(effects'[k])
               /\ SameKey(effects'[j].rec, effects'[k].rec) => j = k
      BY <2>f DEF IsStoreCall, IsPut, IsUnput, SameKey
    <3>2. \A k \in DOMAIN effects' : effects'[k].op = "put" => effects'[k].rec.ver = Tag(effects'[k].rec.key)
      BY <2>f DEF IsPut, Tag
    <3>3. /\ \A e \in pstore : e.ver = Tag(e.key)
          /\ \A e, f \in pstore : SameKey(e, f) => e = f
      BY <1>0 DEF KeysInv
    <3> QED
      BY <2>c, <2>q, <2>j, <3>1, <3>2, <3>3 DEF KeysInv, IdsDiffer, IsStoreCall, SameKey, Tag, AckVersion
  <2>8. (crashes = 0 => ReceivedInv)'
    <3> SUFFICES ASSUME crashes = 0 PROVE ReceivedInv'
      BY <2>c
    <3>0. ReceivedInv
      BY <1>0
    <3>n. inSent \in Nat /\ queued \in [Messages -> Nat]
      BY <1>0 DEF SessionTypeOK
    <3>e. \A i \in DOMAIN brokerOut : /\ brokerOut[i].msg \in Messages /\ brokerOut[i].msgid = brokerOut[i].msg
                                      /\ brokerOut[i].msg <= inSent
      <4>1. \A i \in DOMAIN brokerOut : brokerOut[i] \in Entries
        BY <1>0, ElementOfSeq DEF SessionTypeOK
      <4> QED
        BY <1>0, <4>1 DEF Entries, ListsInv
    <3>m. msg = id
      BY <2>m, <3>0 DEF ReceivedInv
    <3>1. \A i \in DOMAIN inboundMsgs' : inboundMsgs'[i].msgid = inboundMsgs'[i].msg /\ inboundMsgs'[i].msg <= inSent
      BY <2>j, <3>0 DEF ReceivedInv
    <3>k. \A m \in Messages : queued[m] > 0 => queued'[m] > 0
      BY <2>q, <3>n
    <3>2. \A m \in completed : m \in Messages /\ queued'[m] > 0
      BY <3>0, <3>k DEF ReceivedInv
    <3>3. \A m \in Messages : m > inSent => queued'[m] = 0
      <4>1. id <= inSent /\ id \in Nat
        BY <2>h, <2>p, <3>e
      <4>2. \A m \in Messages : m > inSent => queued[m] = 0 /\ m # msg
        BY <3>0, <3>n, <3>m, <4>1 DEF ReceivedInv, Messages
      <4> QED
        BY <2>q, <4>2
    <3>4. \A i \in DOMAIN brokerOut :
            LET b == brokerOut[i]
            IN /\ b.qos = 2 => queued'[b.msg] <= 1
               /\ b.next = "PUBREC" => (queued'[b.msg] = 0 <=> (Version = 4 \/ ~(b.msgid \in IdsOf(inboundMsgs'))))
               /\ b.next = "PUBCOMP" => (queued'[b.msg] = 0 <=> (Version = 4 /\ b.msgid \in IdsOf(inboundMsgs')))
      <4> SUFFICES ASSUME NEW i \in DOMAIN brokerOut
                   PROVE  LET b == brokerOut[i]
                          IN /\ b.qos = 2 => queued'[b.msg] <= 1
                             /\ b.next = "PUBREC" => (queued'[b.msg] = 0 <=> (Version = 4 \/ ~(b.msgid \in IdsOf(inboundMsgs'))))
                             /\ b.next = "PUBCOMP" => (queued'[b.msg] = 0 <=> (Version = 4 /\ b.msgid \in IdsOf(inboundMsgs')))
        OBVIOUS
      <4> DEFINE b == brokerOut[i]
      <4>0. /\ b.qos = 2 => queued[b.msg] <= 1
            /\ b.next = "PUBREC" => (queued[b.msg] = 0 <=> (Version = 4 \/ ~(b.msgid \in IdsOf(inboundMsgs))))
            /\ b.next = "PUBCOMP" => (queued[b.msg] = 0 <=> (Version = 4 /\ b.msgid \in IdsOf(inboundMsgs)))
            /\ b.msg \in Messages /\ b.msgid = b.msg /\ queued[b.msg] \in Nat
        BY <2>a, <3>0, <3>n, <3>e DEF ReceivedInv
      <4>1. CASE b.msg # id
        <5>1. queued'[b.msg] = queued[b.msg]
          BY <2>q, <3>m, <4>0, <4>1
        <5>2. b.msgid \in IdsOf(inboundMsgs') <=> b.msgid \in IdsOf(inboundMsgs)
          BY <2>j, <4>0, <4>1
        <5> QED
          BY <4>0, <5>1, <5>2
      <4>2. CASE b.msg = id
        <5>1. b.next = "PUBCOMP"
          <6>1. PICK j \in DOMAIN brokerOut : brokerOut[j].msgid = id /\ brokerOut[j].next = "PUBCOMP"
            BY <2>h
          <6>2. i = j
            BY <1>0, <4>0, <4>2, <6>1 DEF ListsInv, IdsDiffer
          <6> QED
            BY <6>1, <6>2
        <5>2. ~(b.msgid \in IdsOf(inboundMsgs')) /\ b.msgid \in IdsOf(inboundMsgs)
          BY <2>j, <2>p, <4>0, <4>2
        <5>3. CASE Version = 4
          <6>1. queued'[b.msg] = queued[b.msg] + 1 /\ queued[b.msg] = 0
            BY <2>q, <3>m, <4>0, <4>2, <5>1, <5>2, <5>3
          <6> QED
            BY <5>1, <5>2, <6>1
        <5>4. CASE Version = 5
          <6>1. queued'[b.msg] = queued[b.msg] /\ Version # 4
            BY <2>q, <4>0, <5>4
          <6> QED
            BY <4>0, <5>1, <5>2, <6>1
        <5> QED
          BY <2>v, <5>3, <5>4
      <4> QED
        BY <4>1, <4>2
    <3>5. \A k \in DOMAIN effects' : effects'[k].op = "send" =>
            /\ effects'[k].rec.type \in {"PUBACK", "PUBCOMP"} => queued'[effects'[k].rec.id] > 0
            /\ effects'[k].rec.type = "PUBREC" => effects'[k].rec.id \in IdsOf(inboundMsgs')
      <4>1. PICK i \in DOMAIN brokerOut : brokerOut[i].msgid = id /\ brokerOut[i].next = "PUBCOMP" /\ brokerOut[i].msg = id
        BY <2>h
      <4>2. queued'[id] # 0 /\ queued'[id] \in Nat
        <5>1. ~(id \in IdsOf(inboundMsgs')) /\ id \in Messages
          BY <2>j, <2>h
        <5> QED
          BY <2>q, <3>4, <4>1, <5>1
      <4>3. queued'[id] > 0
        BY <4>2
      <4> QED
        BY <2>f, <4>3 DEF IsPubcomp
    <3>6. \A k \in DOMAIN toBroker :
            /\ toBroker[k].type \in {"PUBACK", "PUBCOMP"} => queued'[toBroker[k].id] > 0
            /\ toBroker[k].type = "PUBREC" => toBroker[k].id \in IdsOf(inboundMsgs')
      <4> SUFFICES ASSUME NEW k \in DOMAIN toBroker
                   PROVE  /\ toBroker[k].type \in {"PUBACK", "PUBCOMP"} => queued'[toBroker[k].id] > 0
                          /\ toBroker[k].type = "PUBREC" => toBroker[k].id \in IdsOf(inboundMsgs')
        OBVIOUS
      <4>1. /\ toBroker[k].type \in {"PUBACK", "PUBCOMP"} => queued[toBroker[k].id] > 0
            /\ toBroker[k].type = "PUBREC" => toBroker[k].id \in IdsOf(inboundMsgs)
        BY <3>0 DEF ReceivedInv
      <4>2. toBroker[k].type \in {"PUBACK", "PUBCOMP"} => toBroker[k].id \in Messages
        BY <1>0, <3>e DEF TokensMatched, Back, Acks, Matched, Agrees
      <4>3. toBroker[k].type = "PUBREC" => toBroker[k].id # id
        <5>1. ~Opposite(toBroker[k], p)
          BY <1>0, <2>b DEF OneToken
        <5> QED
          BY <2>p, <5>1 DEF Opposite, Back, Acks, id
      <4> QED
        BY <2>j, <3>k, <4>1, <4>2, <4>3
    <3>7. \A k \in DOMAIN toClient' : toClient'[k].type = "PUBLISH" /\ toClient'[k].qos = 0 =>
            toClient'[k].msg <= inSent /\ \A i \in DOMAIN brokerOut : brokerOut[i].msg # toClient'[k].msg
      BY <2>b, <3>0 DEF ReceivedInv
    <3> QED
      BY <2>c, <3>1, <3>2, <3>3, <3>4, <3>5, <3>6, <3>7 DEF ReceivedInv, IdsOf
  <2>9. ((Version = 4 /\ persistent /\ ~Clean) => AgreeInv)'
    <3> SUFFICES ASSUME Version = 4 /\ persistent /\ ~Clean PROVE AgreeInv'
      BY DEF Clean
    <3>0. AgreeInv /\ \A key : Tag(key) = 4
      BY <1>0 DEF Tag, AckVersion
    <3>2. \A key, n : WillHave(key, n) <=> HasRecord(key, n)
      BY <2>a, EmptyDomain DEF WillHave
    <3>3. \A key, n : WillHave(key, n)' <=> \/ HasRecord(key, n) /\ ~(key = "r" /\ n = id)
                                            \/ (key = "q" /\ n = qentry_seqno + 1)
      <4>1. \A key, n : (\E k \in DOMAIN effects' : /\ effects'[k].op = "remove" /\ effects'[k].rec.key = key
                                     /\ effects'[k].rec.id = n /\ effects'[k].rec.ver = 4)
                        <=> (key = "r" /\ n = id)
        <5>1. Len(effects') \in DOMAIN effects' /\ IsUnput(effects'[Len(effects')], "r", 4, id)
          BY <2>e
        <5> QED
          BY <2>f, <5>1 DEF IsUnput
      <4>2. \A key, n : (\E k \in DOMAIN effects' : effects'[k].op = "put" /\ effects'[k].rec.key = key /\ effects'[k].rec.id = n)
                        <=> (key = "q" /\ n = qentry_seqno + 1)
        <5>1. 2 \in DOMAIN effects' /\ IsPut(effects'[2], "q", qentry_seqno + 1)
          BY <2>e
        <5> QED
          BY <2>f, <5>1 DEF IsPut
      <4>3. \A key, n : HasRecord(key, n)' <=> HasRecord(key, n)
        BY <2>c DEF HasRecord, Records
      <4>4. \A key : Tag(key)' = 4
        BY <3>0 DEF Tag, AckVersion
      <4>5. \A key, n : WillHave(key, n)' <=>
             \/ \E k \in DOMAIN effects' : effects'[k].op = "put" /\ effects'[k].rec.key = key /\ effects'[k].rec.id = n
             \/ /\ HasRecord(key, n)'
                /\ ~\E k \in DOMAIN effects' : /\ effects'[k].op = "remove" /\ effects'[k].rec.key = key
                                               /\ effects'[k].rec.id = n /\ effects'[k].rec.ver = 4
        BY <4>4 DEF WillHave
      <4> QED
        BY <4>1, <4>2, <4>3, <4>5
    <3>4. ReleasedIds' = ReleasedIds /\ IdsOf(outboundMsgs)' = IdsOf(outboundMsgs) /\ IdsOf(inboundMsgs)' = IdsOf(inboundMsgs')
      BY <1>r DEF ReleasedIds, IdsOf
    <3>5. Agreed("s", IdsOf(outboundMsgs))' /\ Agreed("sc", ReleasedIds)'
      BY <2>a, <3>0, <3>2, <3>3, <3>4 DEF AgreeInv, Agreed
    <3>7. Agreed("q", Seqnos)'
      BY <2>a, <2>q, <3>0, <3>2, <3>3 DEF AgreeInv, Agreed
    <3> QED
      BY <3>5, <3>7 DEF AgreeInv
  \* The message leaves the list, and its record the store.
  <2>10. ASSUME ReceiptInv PROVE ReceiptInv'
    <3>1. Version = 4 => \A n : WillHave("r", n)' => WillHave("r", n) /\ n # id
      <4> SUFFICES ASSUME Version = 4, NEW n, WillHave("r", n)' PROVE WillHave("r", n) /\ n # id
        OBVIOUS
      <4>1. Len(effects') \in DOMAIN effects' /\ IsUnput(effects'[Len(effects')], "r", 4, id)
        BY <2>e
      <4>2. \A k \in DOMAIN effects' : effects'[k].op = "put" => effects'[k].rec.key = "q"
        BY <2>f DEF IsPut
      <4>3. HasRecord("r", n)' /\ ~\E k \in DOMAIN effects' : /\ effects'[k].op = "remove" /\ effects'[k].rec.key = "r"
                                                              /\ effects'[k].rec.id = n /\ effects'[k].rec.ver = 4
        BY <4>2 DEF WillHave, Tag
      <4>4. HasRecord("r", n)
        BY <2>c, <4>3 DEF HasRecord, Records
      <4>5. n # id
        BY <4>1, <4>3 DEF IsUnput
      <4> QED
        BY <2>a, <4>4, <4>5 DEF WillHave
    <3>2. Version = 4 => \A n : WillHave("r", n) /\ n # id => WillHave("r", n)'
      <4> SUFFICES ASSUME Version = 4, NEW n, WillHave("r", n), n # id PROVE WillHave("r", n)'
        OBVIOUS
      <4>1. HasRecord("r", n)
        BY <2>a DEF WillHave
      <4>2. HasRecord("r", n)'
        BY <2>c, <4>1 DEF HasRecord, Records
      <4>3. ~\E k \in DOMAIN effects' : effects'[k].op = "remove" /\ effects'[k].rec.id = n
        BY <2>f DEF IsUnput
      <4> QED
        BY <4>2, <4>3 DEF WillHave
    <3>3. IdsOf(inboundMsgs)' = IdsOf(inboundMsgs) \ {id}
      <4>1. IdsOf(inboundMsgs)' = IdsOf(inboundMsgs')
        BY DEF IdsOf
      <4> QED
        BY <2>j, <4>1
    <3>4. \A k \in DOMAIN effects' : effects'[k].op = "send" => effects'[k].rec.type # "PUBREC"
      BY <2>f DEF IsPubcomp
    <3>5. \A k \in DOMAIN toBroker : toBroker[k].type = "PUBREC" => toBroker[k].id # id
      <4> SUFFICES ASSUME NEW k \in DOMAIN toBroker, toBroker[k].type = "PUBREC" PROVE toBroker[k].id # id
        OBVIOUS
      <4>1. ~Opposite(toBroker[k], p)
        BY <1>0, <2>b DEF OneToken
      <4> QED
        BY <2>p, <4>1 DEF Opposite, Back, Acks, id
    <3>6. \A n : Expected(n)' <=> Expected(n)
      BY <2>c DEF Expected
    <3> QED
      BY <2>10, <2>c, <3>1, <3>2, <3>3, <3>4, <3>5, <3>6 DEF ReceiptInv, Clean
  <2> QED
    BY <1>r, <2>j, <2>q, <2>e, <2>3, <2>s, <2>y, <2>5, <2>8, <2>9, <2>10, InboundStep DEF p
<1> QED
  BY <1>z, <1>w

\* MQTTProtocol_assignMsgId gives an id that no message under way has.
LEMMA FreshId ==
  ASSUME SessionTypeOK, assignMsgId # 0
  PROVE  assignMsgId \in Nat /\ assignMsgId \notin IdsOf(outboundMsgs)
<1> DEFINE free == {k \in 1..MAX_MSG_ID : IdAfter(msgID, k) \notin IdsOf(outboundMsgs)}
           k == CHOOSE k \in free : \A j \in free : k <= j
<1>1. free # {} /\ assignMsgId = IdAfter(msgID, k)
  BY DEF assignMsgId
<1>2. free \in SUBSET Nat
  BY SessionAssumption
<1>3. k \in free
  <2>1. \E x \in free : \A y \in free : x <= y
    BY <1>1, <1>2, LeastElement
  <2> QED
    BY <2>1
<1>4. msgID \in Nat /\ MAX_MSG_ID \in Nat /\ MAX_MSG_ID > 0
  BY SessionAssumption DEF SessionTypeOK
<1> HIDE DEF k
<1>5. k \in 1..MAX_MSG_ID /\ IdAfter(msgID, k) \notin IdsOf(outboundMsgs)
  BY <1>3
<1>6. IdAfter(msgID, k) \in Nat
  BY <1>4, <1>5 DEF IdAfter
<1> QED
  BY <1>1, <1>5, <1>6

\* MQTTClient_publish5: a new exchange with an id of its own, its record before its
\* packet.
LEMMA PublishStep ==
  ASSUME CoreInv, Publish
  PROVE  CoreInv'
<1>0. /\ SessionTypeOK /\ LinkInv /\ TokensMatched /\ OneToken /\ ListsInv /\ KeysInv /\ RecordsInv /\ CallsInv
      /\ ~persistent => pstore = {}
      /\ Version = 4 => (persistent => ReleaseInv) /\ HeldInv /\ NeverTwice
      /\ crashes = 0 => ReceivedInv
      /\ (Version = 4 /\ persistent /\ ~Clean) => AgreeInv
  BY DEF CoreInv
<1> DEFINE n == published + 1
<1>a. /\ effects = <<>> /\ DOMAIN effects = {} /\ connected /\ alive /\ published' = n
      /\ alive' = alive /\ connected' = connected /\ qentry_seqno' = qentry_seqno /\ inboundMsgs' = inboundMsgs
      /\ messageQueue' = messageQueue /\ pstore' = pstore /\ link' = link /\ toBroker' = toBroker
      /\ toClient' = toClient /\ brokerHeld' = brokerHeld /\ brokerOut' = brokerOut /\ delivered' = delivered
      /\ inSent' = inSent /\ completed' = completed /\ queued' = queued /\ crashes' = crashes
  BY PublishDoes, EmptyDomain
<1>b. /\ n \in Messages /\ n \in Nat /\ published \in Nat /\ inSent \in Nat /\ n + inSent <= MaxMessages
      /\ qosOf \in [Messages -> 0..2] /\ delivered \in [Messages -> Nat]
  <2>1. published \in Nat /\ inSent \in Nat /\ qosOf \in [Messages -> 0..2] /\ delivered \in [Messages -> Nat]
    BY <1>0 DEF SessionTypeOK
  <2>2. published + inSent < MaxMessages
    BY PublishDoes
  <2>3. MaxMessages \in Nat
    BY SessionAssumption
  <2> QED
    BY <2>1, <2>2, <2>3 DEF Messages
<1>c. PICK q \in Qualities :
        LET id == IF q > 0 THEN assignMsgId ELSE 0
            m == [msgid |-> id, qos |-> q, next |-> IF q = 2 THEN "PUBREC" ELSE "PUBACK", msg |-> n]
        IN /\ q > 0 => id # 0
           /\ effects' = SendPublish(id, q, n)
           /\ msgID' = IF q > 0 THEN id ELSE msgID
           /\ outboundMsgs' = IF q > 0 THEN Append(outboundMsgs, m) ELSE outboundMsgs
           /\ qosOf' = [qosOf EXCEPT ![n] = q]
  BY <1>a DEF Publish
<1> DEFINE id == IF q > 0 THEN assignMsgId ELSE 0
           m == [msgid |-> id, qos |-> q, next |-> IF q = 2 THEN "PUBREC" ELSE "PUBACK", msg |-> n]
<1>q. q \in 0..2
  BY SessionAssumption
<1>i. id \in Nat /\ (q > 0 => id \notin IdsOf(outboundMsgs))
  <2>1. CASE q > 0
    BY <1>0, <1>c, <2>1, FreshId
  <2>2. CASE ~(q > 0)
    BY <2>2
  <2> QED
    BY <2>1, <2>2
<1>m. q > 0 => /\ m \in Entries /\ m.msgid = id /\ m.qos = q /\ m.msg = n
               /\ m.next # "PUBCOMP" /\ (q = 1 <=> m.next = "PUBACK")
  BY <1>b, <1>i, <1>q DEF Entries, Acks
<1>d. /\ effects' = SendPublish(id, q, n) /\ msgID' \in Nat
      /\ outboundMsgs' = (IF q > 0 THEN Append(outboundMsgs, m) ELSE outboundMsgs)
      /\ qosOf' \in [Messages -> 0..2] /\ qosOf'[n] = q /\ \A x \in Messages : x # n => qosOf'[x] = qosOf[x]
  <2>1. msgID \in Nat
    BY <1>0 DEF SessionTypeOK
  <2> QED
    BY <1>b, <1>c, <1>i, <1>q, <2>1
<1> HIDE DEF id, m, n
<1>e. /\ effects' \in Seq(Effects)
      /\ \A k \in DOMAIN effects' :
           \/ /\ effects'[k].op = "send" /\ effects'[k].rec.type = "PUBLISH" /\ effects'[k].rec.id = id
              /\ effects'[k].rec.qos = q /\ effects'[k].rec.msg = n /\ k = (IF q > 0 THEN 2 ELSE 1)
           \/ /\ q > 0 /\ k = 1 /\ effects'[k].op = "put" /\ effects'[k].rec.key = "s" /\ effects'[k].rec.ver = Version
              /\ effects'[k].rec.id = id /\ effects'[k].rec.qos = q /\ effects'[k].rec.msg = n
      /\ q > 0 => 1 \in DOMAIN effects' /\ effects'[1].op = "put" /\ effects'[1].rec.key = "s" /\ effects'[1].rec.id = id
  <2> DEFINE x == Put("s", Version, id, q, n)
             y == Send(Packet("PUBLISH", id, q, n))
  <2>1. y \in Effects /\ y.op = "send" /\ y.rec.type = "PUBLISH" /\ y.rec.id = id /\ y.rec.qos = q /\ y.rec.msg = n
    BY <1>b, <1>i, <1>q DEF Send, Packet, Effects, Packets
  <2>2. /\ q > 0 => x \in Effects
        /\ x.op = "put" /\ x.rec.key = "s" /\ x.rec.ver = Version /\ x.rec.id = id /\ x.rec.qos = q /\ x.rec.msg = n
    BY <1>b, <1>i, <1>q, SessionAssumption DEF Put, Effects, StoreRecords
  <2>3. effects' = IF q > 0 THEN <<x, y>> ELSE <<y>>
    BY <1>d DEF SendPublish
  <2> HIDE DEF x, y
  <2>4. CASE q > 0
    <3>1. effects' = <<x, y>> /\ x \in Effects
      BY <2>2, <2>3, <2>4
    <3>2. effects' \in Seq(Effects)
      BY <2>1, <3>1, TwoListed, Zenon
    <3>3. DOMAIN effects' = {1, 2} /\ effects'[1] = x /\ effects'[2] = y
      BY <3>1
    <3> QED
      BY <2>1, <2>2, <2>4, <3>2, <3>3
  <2>5. CASE ~(q > 0)
    <3>1. effects' = <<y>>
      BY <2>3, <2>5
    <3>2. effects' \in Seq(Effects)
      BY <2>1, <3>1
    <3>3. DOMAIN effects' = {1} /\ effects'[1] = y
      BY <3>1
    <3> QED
      BY <2>1, <2>5, <3>2, <3>3
  <2> QED
    BY <2>4, <2>5
<1>o. outboundMsgs \in Seq(Entries) /\ \A i \in DOMAIN outboundMsgs : outboundMsgs[i].msg \in Messages
  <2>1. outboundMsgs \in Seq(Entries)
    BY <1>0 DEF SessionTypeOK
  <2>2. \A i \in DOMAIN outboundMsgs : outboundMsgs[i] \in Entries
    BY <2>1, ElementOfSeq
  <2> QED
    BY <2>1, <2>2 DEF Entries
<1>w. /\ outboundMsgs' \in Seq(Entries)
      /\ \A i \in DOMAIN outboundMsgs : i \in DOMAIN outboundMsgs' /\ outboundMsgs'[i] = outboundMsgs[i]
      /\ \A i \in DOMAIN outboundMsgs' : \/ i \in DOMAIN outboundMsgs /\ outboundMsgs'[i] = outboundMsgs[i]
                                         \/ q > 0 /\ i = Len(outboundMsgs) + 1 /\ outboundMsgs'[i] = m
      /\ q > 0 => Len(outboundMsgs) + 1 \in DOMAIN outboundMsgs' /\ outboundMsgs'[Len(outboundMsgs) + 1] = m
      /\ Len(outboundMsgs) \in Nat /\ DOMAIN outboundMsgs = 1..Len(outboundMsgs)
  <2>1. CASE q > 0
    <3>1. m \in Entries /\ outboundMsgs' = Append(outboundMsgs, m)
      BY <1>m, <1>d, <2>1
    <3>2. /\ outboundMsgs' \in Seq(Entries) /\ Len(outboundMsgs) \in Nat
          /\ DOMAIN outboundMsgs' = 1..(Len(outboundMsgs) + 1) /\ DOMAIN outboundMsgs = 1..Len(outboundMsgs)
          /\ \A k \in DOMAIN outboundMsgs : k \in DOMAIN outboundMsgs' /\ outboundMsgs'[k] = outboundMsgs[k]
          /\ outboundMsgs'[Len(outboundMsgs) + 1] = m
          /\ \A k \in DOMAIN outboundMsgs' : k = Len(outboundMsgs) + 1 \/ k \in DOMAIN outboundMsgs
      BY <1>o, <3>1, AppendAt
    <3>3. Len(outboundMsgs) + 1 \in DOMAIN outboundMsgs'
      BY <3>2
    <3> QED
      BY <2>1, <3>2, <3>3
  <2>2. CASE ~(q > 0)
    BY <1>d, <1>o, <2>2, LenProperties
  <2> QED
    BY <2>1, <2>2
<1>l. \A i \in DOMAIN outboundMsgs : /\ outboundMsgs[i].msg <= published /\ outboundMsgs[i].msg # n
                                     /\ q > 0 => outboundMsgs[i].msgid # id
  <2>1. \A i \in DOMAIN outboundMsgs : outboundMsgs[i].msg <= published
    BY <1>0 DEF ListsInv
  <2>2. \A i \in DOMAIN outboundMsgs : outboundMsgs[i].msgid \in IdsOf(outboundMsgs)
    BY DEF IdsOf
  <2>3. \A i \in DOMAIN outboundMsgs : outboundMsgs[i].msg # n
    BY <1>b, <1>o, <2>1 DEF n, Messages
  <2> QED
    BY <1>i, <2>1, <2>2, <2>3
<1>1. SessionTypeOK'
  BY <1>0, <1>a, <1>b, <1>d, <1>e, <1>w DEF SessionTypeOK
<1>2. LinkInv'
  BY <1>0, <1>a, <1>e DEF LinkInv
<1>3. TokensMatched' /\ OneToken'
  <2>1. \A r : Matched(r, outboundMsgs) => Matched(r, outboundMsgs')
    BY <1>w DEF Matched
  <2>2. \A r : Matched(r, outboundMsgs) /\ q > 0 => r.id # id
    BY <1>l DEF Matched, Agrees
  <2>3. \A k \in DOMAIN effects' : effects'[k].op = "send" =>
          /\ ~Back(effects'[k].rec) /\ effects'[k].rec.id = id
          /\ Forth(effects'[k].rec) => q > 0 /\ Matched(effects'[k].rec, outboundMsgs')
    <3> SUFFICES ASSUME NEW k \in DOMAIN effects', effects'[k].op = "send"
                 PROVE  /\ ~Back(effects'[k].rec) /\ effects'[k].rec.id = id
                        /\ Forth(effects'[k].rec) => q > 0 /\ Matched(effects'[k].rec, outboundMsgs')
      OBVIOUS
    <3>1. effects'[k].rec.type = "PUBLISH" /\ effects'[k].rec.id = id /\ effects'[k].rec.qos = q /\ effects'[k].rec.msg = n
      BY <1>e
    <3>2. ~Back(effects'[k].rec) /\ (Forth(effects'[k].rec) => q > 0)
      BY <3>1 DEF Back, Forth, Acks
    <3>3. q > 0 => Agrees(effects'[k].rec, m)
      BY <1>m, <3>1 DEF Agrees, Acks
    <3> QED
      BY <1>w, <3>1, <3>2, <3>3 DEF Matched
  <2>4. TokensMatched'
    <3>1. /\ \A k \in DOMAIN toBroker : Forth(toBroker[k]) => Matched(toBroker[k], outboundMsgs')
          /\ \A k \in DOMAIN toBroker : Back(toBroker[k]) => Matched(toBroker[k], brokerOut)
          /\ \A k \in DOMAIN toClient : Back(toClient[k]) => Matched(toClient[k], outboundMsgs')
          /\ \A k \in DOMAIN toClient : Forth(toClient[k]) => Matched(toClient[k], brokerOut)
      BY <1>0, <2>1 DEF TokensMatched
    <3> QED
      BY <1>a, <2>3, <3>1 DEF TokensMatched
  <2>5. OneToken'
    <3>1. \A j, k \in DOMAIN effects' : effects'[j].op = "send" /\ effects'[k].op = "send" => j = k
      BY <1>e
    <3>2. \A j \in DOMAIN effects', k \in DOMAIN toBroker :
            effects'[j].op = "send" => ~SameWay(effects'[j].rec, toBroker[k])
      <4>1. \A k \in DOMAIN toBroker : Forth(toBroker[k]) /\ q > 0 => toBroker[k].id # id
        BY <1>0, <2>2 DEF TokensMatched
      <4> QED
        BY <2>3, <4>1 DEF SameWay
    <3>3. \A j \in DOMAIN effects', k \in DOMAIN toClient :
            effects'[j].op = "send" => ~Opposite(effects'[j].rec, toClient[k])
      <4>1. \A k \in DOMAIN toClient : Back(toClient[k]) /\ q > 0 => toClient[k].id # id
        BY <1>0, <2>2 DEF TokensMatched
      <4> QED
        BY <2>3, <4>1 DEF Opposite
    <3> QED
      BY <1>0, <1>a, <3>1, <3>2, <3>3 DEF OneToken
  <2> QED
    BY <2>4, <2>5
<1>4. ListsInv'
  <2>1. MsgIdsDistinct'
    BY <1>0, <1>l, <1>m, <1>w DEF ListsInv, MsgIdsDistinct
  <2>2. \A i, j \in DOMAIN outboundMsgs' : outboundMsgs'[i].msg = outboundMsgs'[j].msg => i = j
    BY <1>0, <1>l, <1>m, <1>w DEF ListsInv
  <2>3. \A i \in DOMAIN outboundMsgs' : Proper(outboundMsgs'[i])
    BY <1>0, <1>m, <1>w DEF ListsInv, Proper
  <2>4. \A i \in DOMAIN outboundMsgs' : outboundMsgs'[i].msg <= n
    <3>1. \A i \in DOMAIN outboundMsgs : outboundMsgs[i].msg <= n
      BY <1>l, <1>b, <1>o DEF n, Messages
    <3> QED
      BY <1>b, <1>m, <1>w, <3>1
  <2>5. \A i \in DOMAIN outboundMsgs' : outboundMsgs'[i].qos = qosOf'[outboundMsgs'[i].msg]
    <3>1. \A i \in DOMAIN outboundMsgs : outboundMsgs[i].qos = qosOf[outboundMsgs[i].msg]
      BY <1>0 DEF ListsInv
    <3>2. \A i \in DOMAIN outboundMsgs : qosOf'[outboundMsgs[i].msg] = qosOf[outboundMsgs[i].msg]
      BY <1>d, <1>l, <1>o
    <3> QED
      BY <1>d, <1>m, <1>w, <3>1, <3>2
  <2>6. crashes = 0 => \A i, j \in DOMAIN outboundMsgs' : i < j => outboundMsgs'[i].msg < outboundMsgs'[j].msg
    <3> SUFFICES ASSUME crashes = 0, NEW i \in DOMAIN outboundMsgs', NEW j \in DOMAIN outboundMsgs', i < j
                 PROVE  outboundMsgs'[i].msg < outboundMsgs'[j].msg
      OBVIOUS
    <3>1. CASE i \in DOMAIN outboundMsgs /\ j \in DOMAIN outboundMsgs
      BY <1>0, <1>w, <3>1 DEF ListsInv, PublicationOrder
    <3>2. CASE i \in DOMAIN outboundMsgs /\ j \notin DOMAIN outboundMsgs
      <4>1. outboundMsgs'[j] = m /\ m.msg = n /\ outboundMsgs'[i] = outboundMsgs[i]
        BY <1>m, <1>w, <3>2
      <4>2. outboundMsgs[i].msg <= published /\ outboundMsgs[i].msg \in Nat
        BY <1>l, <1>o, <3>2 DEF Messages
      <4> QED
        BY <1>b, <4>1, <4>2 DEF n
    <3>3. i \in DOMAIN outboundMsgs
      BY <1>w
    <3> QED
      BY <3>1, <3>2, <3>3
  <2>7. /\ IdsDiffer(brokerOut)
        /\ \A i \in DOMAIN brokerOut : /\ Proper(brokerOut[i])
                                       /\ brokerOut[i].msg <= inSent /\ brokerOut[i].msgid = brokerOut[i].msg
    BY <1>0 DEF ListsInv
  <2> QED
    BY <1>a, <2>1, <2>2, <2>3, <2>4, <2>5, <2>6, <2>7 DEF ListsInv, IdsDiffer, PublicationOrder, Proper
<1>5. KeysInv'
  <2>1. \A j, k \in DOMAIN effects' : IsStoreCall(effects'[j]) /\ IsStoreCall(effects'[k]) => j = k
    BY <1>e DEF IsStoreCall
  <2>2. \A k \in DOMAIN effects' : effects'[k].op = "put" => effects'[k].rec.ver = Tag(effects'[k].rec.key)
    BY <1>e DEF Tag
  <2> QED
    BY <1>0, <1>a, <2>1, <2>2 DEF KeysInv, IdsDiffer, IsStoreCall
<1>6. RecordsInv' /\ CallsInv' /\ (~persistent => pstore = {})'
  <2>1. RecordsInv'
    <3>1. \A e \in Records("s") : e.msg \in 1..published /\ e.qos = qosOf[e.msg]
      BY <1>0 DEF RecordsInv
    <3>2. \A e \in Records("s") : e.msg \in 1..n /\ e.msg # n /\ e.msg \in Messages
      BY <1>b, <3>1, SessionAssumption DEF n, Messages
    <3>3. \A e \in Records("s") : e.qos = qosOf'[e.msg]
      BY <1>d, <3>1, <3>2
    <3>4. \A e \in Records("s"), i \in DOMAIN outboundMsgs' : e.msg = outboundMsgs'[i].msg => e.id = outboundMsgs'[i].msgid
      BY <1>0, <1>m, <1>w, <3>2 DEF RecordsInv
    <3>5. Records("s")' = Records("s")
      BY <1>a DEF Records
    <3> QED
      BY <1>0, <1>a, <3>2, <3>3, <3>4, <3>5 DEF RecordsInv
  <2>2. CallsInv'
    <3>1. \A k \in DOMAIN effects' : effects'[k].op # "remove"
      BY <1>e
    <3>2. \A k \in DOMAIN effects' : effects'[k].op = "put" => /\ q > 0 /\ effects'[k].rec.key = "s"
             /\ effects'[k].rec.id = id /\ effects'[k].rec.qos = q /\ effects'[k].rec.msg = n
      BY <1>e
    <3> QED
      BY <1>m, <1>w, <3>1, <3>2 DEF CallsInv
  <2> QED
    BY <1>0, <1>a, <2>1, <2>2
<1>7. (Version = 4 => (persistent => ReleaseInv) /\ HeldInv /\ NeverTwice)'
  <2> SUFFICES ASSUME Version = 4 PROVE (persistent => ReleaseInv') /\ HeldInv' /\ NeverTwice'
    OBVIOUS
  <2>0. HeldInv /\ NeverTwice /\ (persistent => ReleaseInv)
    BY <1>0
  <2>d. delivered[n] = 0
    BY <1>b, <2>0 DEF HeldInv, n
  <2>1. persistent => ReleaseInv'
    <3>1. \A k \in DOMAIN effects' : effects'[k].op # "remove" /\ (effects'[k].op = "send" => effects'[k].rec.type = "PUBLISH")
      BY <1>e
    <3> QED
      BY <1>a, <2>0, <3>1 DEF ReleaseInv, HasRecord, Records
  <2>2. HeldInv'
    <3>1. \A x \in Messages : x > n => delivered[x] = 0
      BY <1>b, <2>0 DEF HeldInv, n, Messages
    <3>2. \A i \in DOMAIN outboundMsgs' : delivered[outboundMsgs'[i].msg] > 0 => i \in DOMAIN outboundMsgs /\ outboundMsgs'[i] = outboundMsgs[i]
      BY <1>m, <1>w, <2>d
    <3> QED
      BY <1>a, <2>0, <3>1, <3>2 DEF HeldInv, HasRecord, Records
  <2>3. NeverTwice'
    BY <1>a, <1>d, <2>0, <2>d DEF NeverTwice, Messages
  <2> QED
    BY <2>1, <2>2, <2>3
<1>8. (crashes = 0 => ReceivedInv)'
  <2>1. \A k \in DOMAIN effects' : effects'[k].op = "send" => effects'[k].rec.type = "PUBLISH"
    BY <1>e
  <2> QED
    BY <1>0, <1>a, <2>1 DEF ReceivedInv, IdsOf
<1>9. ((Version = 4 /\ persistent /\ ~Clean) => AgreeInv)'
  <2> SUFFICES ASSUME Version = 4 /\ persistent /\ ~Clean PROVE AgreeInv'
    BY DEF Clean
  <2>0. AgreeInv
    BY <1>0
  <2>2. \A key, x : WillHave(key, x) <=> HasRecord(key, x)
    BY <1>a, EmptyDomain DEF WillHave
  <2>3. \A key, x : WillHave(key, x)' <=> HasRecord(key, x) \/ (key = "s" /\ q > 0 /\ x = id)
    <3>1. \A k \in DOMAIN effects' : effects'[k].op # "remove"
      BY <1>e
    <3>2. \A key, x : (\E k \in DOMAIN effects' : effects'[k].op = "put" /\ effects'[k].rec.key = key /\ effects'[k].rec.id = x)
                      <=> (key = "s" /\ q > 0 /\ x = id)
      BY <1>e
    <3> QED
      BY <1>a, <3>1, <3>2 DEF WillHave, HasRecord, Records
  <2>4. /\ Seqnos' = Seqnos /\ IdsOf(inboundMsgs)' = IdsOf(inboundMsgs) /\ ReleasedIds' = ReleasedIds
        /\ \A x : x \in IdsOf(outboundMsgs)' <=> x \in IdsOf(outboundMsgs) \/ (q > 0 /\ x = id)
    <3>1. Seqnos' = Seqnos /\ IdsOf(inboundMsgs)' = IdsOf(inboundMsgs)
      BY <1>a DEF Seqnos, IdsOf
    <3>2. \A x : x \in ReleasedIds' <=> x \in ReleasedIds
      <4>1. \A x : x \in ReleasedIds' <=> \E i \in DOMAIN outboundMsgs' : outboundMsgs'[i].next = "PUBCOMP" /\ x = outboundMsgs'[i].msgid
        BY DEF ReleasedIds
      <4>2. \A x : x \in ReleasedIds <=> \E i \in DOMAIN outboundMsgs : outboundMsgs[i].next = "PUBCOMP" /\ x = outboundMsgs[i].msgid
        BY DEF ReleasedIds
      <4> QED
        BY <1>m, <1>w, <4>1, <4>2
    <3>3. \A x : x \in IdsOf(outboundMsgs)' <=> x \in IdsOf(outboundMsgs) \/ (q > 0 /\ x = id)
      <4>1. \A x : x \in IdsOf(outboundMsgs)' <=> \E i \in DOMAIN outboundMsgs' : x = outboundMsgs'[i].msgid
        BY DEF IdsOf
      <4>2. \A x : x \in IdsOf(outboundMsgs) <=> \E i \in DOMAIN outboundMsgs : x = outboundMsgs[i].msgid
        BY DEF IdsOf
      <4> QED
        BY <1>m, <1>w, <4>1, <4>2
    <3> QED
      BY <3>1, <3>2, <3>3
  <2> QED
    BY <1>a, <2>0, <2>2, <2>3, <2>4 DEF AgreeInv, Agreed
<1> QED
  BY <1>1, <1>2, <1>3, <1>4, <1>5, <1>6, <1>7, <1>8, <1>9 DEF CoreInv

\* What the broker sends again belongs to the messages it keeps.
LEMMA ResendsFacts ==
  ASSUME SessionTypeOK, ListsInv
  PROVE  /\ BrokerResends \in Seq(Packets) /\ DOMAIN BrokerResends = DOMAIN brokerOut
         /\ \A i \in DOMAIN brokerOut :
              LET r == BrokerResends[i]
              IN Forth(r) /\ ~Back(r) /\ r.id = brokerOut[i].msgid /\ Agrees(r, brokerOut[i]) /\ r.qos # 0
<1>1. brokerOut \in Seq(Entries) /\ Len(brokerOut) \in Nat /\ DOMAIN brokerOut = 1..Len(brokerOut)
  BY LenProperties DEF SessionTypeOK
<1>2. \A i \in DOMAIN brokerOut : brokerOut[i] \in Entries
  BY <1>1, ElementOfSeq
<1>3. BrokerResends = [i \in DOMAIN brokerOut |->
         IF brokerOut[i].next = "PUBCOMP" THEN Packet("PUBREL", brokerOut[i].msgid, 1, 0)
         ELSE Packet("PUBLISH", brokerOut[i].msgid, brokerOut[i].qos, brokerOut[i].msg)]
  BY DEF BrokerResends
<1>4. ASSUME NEW i \in DOMAIN brokerOut
      PROVE  LET r == BrokerResends[i]
             IN /\ r \in Packets
                /\ Forth(r) /\ ~Back(r) /\ r.id = brokerOut[i].msgid /\ Agrees(r, brokerOut[i]) /\ r.qos # 0
  <2> DEFINE b == brokerOut[i]
             r == BrokerResends[i]
  <2>1. b.msgid \in Nat /\ b.qos \in 1..2 /\ b.msg \in Messages
    BY <1>2 DEF Entries
  <2>2. CASE b.next = "PUBCOMP"
    <3>1. r = Packet("PUBREL", b.msgid, 1, 0)
      BY <1>3, <2>2
    <3> HIDE DEF r, b
    <3>2. r.type = "PUBREL" /\ r.id = b.msgid /\ r.qos = 1 /\ r \in Packets
      BY <2>1, <3>1 DEF Packet, Packets
    <3> QED
      BY <2>2, <3>2 DEF Forth, Back, Acks, Agrees, r, b
  <2>3. CASE b.next # "PUBCOMP"
    <3>1. r = Packet("PUBLISH", b.msgid, b.qos, b.msg)
      BY <1>3, <2>3
    <3> HIDE DEF r, b
    <3>2. r.type = "PUBLISH" /\ r.id = b.msgid /\ r.qos = b.qos /\ r.msg = b.msg /\ r \in Packets
      BY <2>1, <3>1 DEF Packet, Packets
    <3> QED
      BY <2>1, <2>3, <3>2 DEF Forth, Back, Acks, Agrees, r, b
  <2> QED
    BY <2>2, <2>3
<1>5. DOMAIN BrokerResends = DOMAIN brokerOut
  BY <1>3
<1>6. BrokerResends \in [1..Len(brokerOut) -> Packets]
  <2>1. \A i \in DOMAIN brokerOut : BrokerResends[i] \in Packets
    BY <1>4
  <2> QED
    BY <1>1, <1>3, <2>1
<1>7. BrokerResends \in Seq(Packets)
  BY <1>1, <1>6, SeqDef
<1> QED
  BY <1>4, <1>5, <1>7

\* MQTTClient_connect: a clean session begins with nothing on either side; in any
\* other, every exchange gets one token again, from the side whose turn it is.
LEMMA ConnectStep ==
  ASSUME CoreInv, Connect
  PROVE  CoreInv'
<1>0. /\ SessionTypeOK /\ LinkInv /\ TokensMatched /\ OneToken /\ ListsInv /\ KeysInv /\ RecordsInv /\ CallsInv
      /\ ~persistent => pstore = {}
      /\ Version = 4 => (persistent => ReleaseInv) /\ HeldInv /\ NeverTwice
      /\ crashes = 0 => ReceivedInv
      /\ (Version = 4 /\ persistent /\ ~Clean) => AgreeInv
  BY DEF CoreInv
<1>a. /\ effects = <<>> /\ DOMAIN effects = {} /\ alive /\ ~connected /\ connected' = TRUE /\ link' = TRUE /\ toBroker' = <<>>
      /\ alive' = alive /\ qentry_seqno' = qentry_seqno /\ pstore' = pstore /\ published' = published
      /\ delivered' = delivered /\ qosOf' = qosOf /\ inSent' = inSent /\ completed' = completed
      /\ queued' = queued /\ crashes' = crashes
  BY ConnectDoes, EmptyDomain
<1>l. LinkInv'
  <2>1. \A k \in DOMAIN effects' : effects'[k].op = "send" => effects'[k].rec.type # "PINGRESP"
    <3>1. CASE Clean
      BY <3>1, ConnectDoes, EmptyDomain
    <3>2. CASE ~Clean
      <4>1. effects' = Retries(outboundMsgs) /\ outboundMsgs \in Seq(Entries)
        BY <1>0, <3>2, ConnectDoes DEF SessionTypeOK
      <4>2. \A k \in DOMAIN effects' : \E e \in Entries : effects'[k] = Retry(e)[1] \/ effects'[k] = Retry(e)[2]
        <5>1. \A i \in DOMAIN outboundMsgs : outboundMsgs[i] \in Entries
          BY <4>1, ElementOfSeq
        <5>2. \A k \in DOMAIN effects' : \E i \in DOMAIN outboundMsgs :
                effects'[k] = Retry(outboundMsgs[i])[1] \/ effects'[k] = Retry(outboundMsgs[i])[2]
          BY <4>1, RetriesFacts
        <5> QED
          BY <5>1, <5>2
      <4>3. \A e \in Entries : /\ Retry(e)[1].op = "put"
                               /\ Retry(e)[2].op = "send" /\ Retry(e)[2].rec.type \in {"PUBLISH", "PUBREL"}
        <5> TAKE e \in Entries
        <5> QED
          BY RetryFacts DEF Put, Send, Packet
      <4> QED
        BY <4>2, <4>3
    <3> QED
      BY <3>1, <3>2
  <2> QED
    BY <1>0, <1>a, <2>1, EmptyDomain DEF LinkInv
<1>c. CASE Clean
  <2>a. /\ outboundMsgs' = <<>> /\ inboundMsgs' = <<>> /\ messageQueue' = <<>>
        /\ msgID' = 0 /\ effects' = <<>> /\ brokerHeld' = {} /\ brokerOut' = <<>> /\ toClient' = <<>>
    BY <1>c, ConnectDoes
  <2>1. SessionTypeOK'
    <3>1. (outboundMsgs \in Seq(Entries) /\ inboundMsgs \in Seq(InEntries) /\ messageQueue \in Seq(QueueEntries))'
      BY <2>a, EmptyDomain
    <3>2. (effects \in Seq(Effects) /\ toBroker \in Seq(Packets) /\ toClient \in Seq(Packets) /\ brokerOut \in Seq(Entries))'
      BY <1>a, <2>a, EmptyDomain
    <3>3. msgID' \in Nat
      BY <2>a
    <3> QED
      BY <1>0, <1>a, <2>a, <3>1, <3>2, <3>3 DEF SessionTypeOK
  <2>3. TokensMatched' /\ OneToken'
    BY <1>a, <2>a, EmptyDomain DEF TokensMatched, OneToken
  <2>4. ListsInv'
    BY <1>a, <2>a, EmptyDomain DEF ListsInv, MsgIdsDistinct, IdsDiffer, PublicationOrder
  <2>5. KeysInv'
    BY <1>0, <1>a, <2>a, EmptyDomain DEF KeysInv, IdsDiffer
  <2>6. RecordsInv' /\ CallsInv' /\ (~persistent => pstore = {})'
    BY <1>0, <1>a, <2>a, EmptyDomain DEF RecordsInv, CallsInv, Records
  <2>7. (Version = 4 => (persistent => ReleaseInv) /\ HeldInv /\ NeverTwice)'
    <3>1. Clean'
      BY <1>c DEF Clean
    <3> QED
      BY <1>0, <1>a, <2>a, <3>1, EmptyDomain DEF ReleaseInv, HeldInv, NeverTwice
  <2>8. (crashes = 0 => ReceivedInv)'
    BY <1>0, <1>a, <2>a, EmptyDomain DEF ReceivedInv
  <2>9. ((Version = 4 /\ persistent /\ ~Clean) => AgreeInv)'
    BY <1>c DEF Clean
  <2> QED
    BY <1>l, <2>1, <2>3, <2>4, <2>5, <2>6, <2>7, <2>8, <2>9 DEF CoreInv
<1>d. CASE ~Clean
  <2>a. /\ effects' = Retries(outboundMsgs) /\ toClient' = BrokerResends
        /\ outboundMsgs' = outboundMsgs /\ inboundMsgs' = inboundMsgs /\ messageQueue' = messageQueue
        /\ msgID' = msgID /\ brokerHeld' = brokerHeld /\ brokerOut' = brokerOut
    BY <1>d, ConnectDoes
  <2>b. /\ toClient' \in Seq(Packets) /\ DOMAIN toClient' = DOMAIN brokerOut
        /\ \A i \in DOMAIN brokerOut : /\ Forth(toClient'[i]) /\ ~Back(toClient'[i]) /\ toClient'[i].id = brokerOut[i].msgid
                                       /\ Agrees(toClient'[i], brokerOut[i]) /\ toClient'[i].qos # 0
    BY <1>0, <2>a, ResendsFacts
  <2>o. /\ outboundMsgs \in Seq(Entries) /\ Len(outboundMsgs) \in Nat /\ DOMAIN outboundMsgs = 1..Len(outboundMsgs)
        /\ \A i \in DOMAIN outboundMsgs : outboundMsgs[i] \in Entries
    BY <1>0, LenProperties, ElementOfSeq DEF SessionTypeOK
  <2>r. /\ effects' \in Seq(Effects)
        /\ \A k \in DOMAIN effects' : \E i \in DOMAIN outboundMsgs :
             \/ k = 2 * i - 1 /\ effects'[k] = Retry(outboundMsgs[i])[1]
             \/ k = 2 * i /\ effects'[k] = Retry(outboundMsgs[i])[2]
        /\ \A i \in DOMAIN outboundMsgs : /\ 2 * i - 1 \in DOMAIN effects' /\ effects'[2 * i - 1] = Retry(outboundMsgs[i])[1]
                                          /\ 2 * i \in DOMAIN effects' /\ effects'[2 * i] = Retry(outboundMsgs[i])[2]
    BY <2>a, <2>o, RetriesFacts
  <2>t. \A i \in DOMAIN outboundMsgs :
          LET e == outboundMsgs[i]
              x == Retry(e)[1]
              y == Retry(e)[2]
          IN /\ x.op = "put" /\ x.rec.id = e.msgid /\ x.rec.ver = Tag(x.rec.key)
             /\ e.next = "PUBCOMP" => x.rec.key = "sc" /\ y.rec.type = "PUBREL"
             /\ e.next # "PUBCOMP" => x.rec.key = "s" /\ x.rec.msg = e.msg /\ x.rec.qos = e.qos /\ y.rec.type = "PUBLISH"
             /\ y.op = "send" /\ y.rec.id = e.msgid /\ Forth(y.rec) /\ ~Back(y.rec) /\ Agrees(y.rec, e)
    <3> SUFFICES ASSUME NEW i \in DOMAIN outboundMsgs
                 PROVE  LET e == outboundMsgs[i]
                            x == Retry(e)[1]
                            y == Retry(e)[2]
                        IN /\ x.op = "put" /\ x.rec.id = e.msgid /\ x.rec.ver = Tag(x.rec.key)
                           /\ e.next = "PUBCOMP" => x.rec.key = "sc" /\ y.rec.type = "PUBREL"
                           /\ e.next # "PUBCOMP" => x.rec.key = "s" /\ x.rec.msg = e.msg /\ x.rec.qos = e.qos /\ y.rec.type = "PUBLISH"
                           /\ y.op = "send" /\ y.rec.id = e.msgid /\ Forth(y.rec) /\ ~Back(y.rec) /\ Agrees(y.rec, e)
      OBVIOUS
    <3> DEFINE e == outboundMsgs[i]
               x == Retry(e)[1]
               y == Retry(e)[2]
    <3>0. e \in Entries /\ e.qos > 0
      <4>1. e \in Entries
        BY <2>o
      <4> QED
        BY <4>1 DEF Entries
    <3>1. CASE e.next = "PUBCOMP"
      <4>1. x = Put("sc", AckVersion, e.msgid, 1, 0) /\ y = Send(Packet("PUBREL", e.msgid, 1, 0))
        BY <3>0, <3>1, RetryFacts
      <4> HIDE DEF x, y, e
      <4>2. x.op = "put" /\ x.rec.id = e.msgid /\ x.rec.ver = Tag(x.rec.key) /\ x.rec.key = "sc"
        BY <4>1 DEF Put, Tag
      <4>3. y.op = "send" /\ y.rec.id = e.msgid /\ y.rec.type = "PUBREL"
        BY <4>1 DEF Send, Packet
      <4>4. Forth(y.rec) /\ ~Back(y.rec) /\ Agrees(y.rec, e)
        BY <3>1, <4>3 DEF Forth, Back, Acks, Agrees
      <4> QED
        BY <3>1, <4>2, <4>3, <4>4 DEF x, y, e
    <3>2. CASE e.next # "PUBCOMP"
      <4>1. x = Put("s", Version, e.msgid, e.qos, e.msg) /\ y = Send(Packet("PUBLISH", e.msgid, e.qos, e.msg))
        BY <3>0, <3>2, RetryFacts
      <4> HIDE DEF x, y, e
      <4>2. x.op = "put" /\ x.rec.id = e.msgid /\ x.rec.ver = Tag(x.rec.key) /\ x.rec.key = "s" /\ x.rec.msg = e.msg /\ x.rec.qos = e.qos
        BY <4>1 DEF Put, Tag
      <4>3. y.op = "send" /\ y.rec.id = e.msgid /\ y.rec.type = "PUBLISH" /\ y.rec.qos = e.qos /\ y.rec.msg = e.msg
        BY <4>1 DEF Send, Packet
      <4>4. Forth(y.rec) /\ ~Back(y.rec) /\ Agrees(y.rec, e)
        BY <3>0, <3>2, <4>3 DEF Forth, Back, Acks, Agrees
      <4> QED
        BY <3>2, <4>2, <4>3, <4>4 DEF x, y, e
    <3> QED
      BY <3>1, <3>2
  <2> DEFINE First(x, e) == /\ x.op = "put" /\ x.rec.id = e.msgid /\ x.rec.ver = Tag(x.rec.key)
                            /\ e.next = "PUBCOMP" => x.rec.key = "sc"
                            /\ e.next # "PUBCOMP" => x.rec.key = "s" /\ x.rec.msg = e.msg /\ x.rec.qos = e.qos
             Second(x, e) == /\ x.op = "send" /\ x.rec.id = e.msgid /\ Forth(x.rec) /\ ~Back(x.rec) /\ Agrees(x.rec, e)
                             /\ e.next = "PUBCOMP" => x.rec.type = "PUBREL"
                             /\ e.next # "PUBCOMP" => x.rec.type = "PUBLISH"
  <2>u. \A i \in DOMAIN outboundMsgs : First(Retry(outboundMsgs[i])[1], outboundMsgs[i]) /\ Second(Retry(outboundMsgs[i])[2], outboundMsgs[i])
    BY <2>t
  <2> HIDE DEF First, Second
  <2>k. \A k \in DOMAIN effects' : \E i \in DOMAIN outboundMsgs :
          \/ k = 2 * i - 1 /\ First(effects'[k], outboundMsgs[i])
          \/ k = 2 * i /\ Second(effects'[k], outboundMsgs[i])
    <3> SUFFICES ASSUME NEW k \in DOMAIN effects'
                 PROVE  \E i \in DOMAIN outboundMsgs : \/ k = 2 * i - 1 /\ First(effects'[k], outboundMsgs[i])
                                                       \/ k = 2 * i /\ Second(effects'[k], outboundMsgs[i])
      OBVIOUS
    <3>1. PICK i \in DOMAIN outboundMsgs : \/ k = 2 * i - 1 /\ effects'[k] = Retry(outboundMsgs[i])[1]
                                           \/ k = 2 * i /\ effects'[k] = Retry(outboundMsgs[i])[2]
      BY <2>r
    <3> QED
      BY <2>u, <3>1
  <2>p. \A k \in DOMAIN effects' : effects'[k].op = "put" => \E i \in DOMAIN outboundMsgs :
          LET e == outboundMsgs[i]
              x == effects'[k]
          IN /\ k = 2 * i - 1 /\ x.rec.id = e.msgid /\ x.rec.ver = Tag(x.rec.key)
             /\ e.next = "PUBCOMP" => x.rec.key = "sc"
             /\ e.next # "PUBCOMP" => x.rec.key = "s" /\ x.rec.msg = e.msg /\ x.rec.qos = e.qos
    BY <2>k DEF First, Second
  <2>s. \A k \in DOMAIN effects' : effects'[k].op = "send" => \E i \in DOMAIN outboundMsgs :
          LET e == outboundMsgs[i]
              x == effects'[k]
          IN /\ k = 2 * i /\ x.rec.id = e.msgid /\ Forth(x.rec) /\ ~Back(x.rec) /\ Agrees(x.rec, e)
             /\ e.next = "PUBCOMP" => x.rec.type = "PUBREL"
             /\ e.next # "PUBCOMP" => x.rec.type = "PUBLISH"
    BY <2>k DEF First, Second
  <2>n. \A k \in DOMAIN effects' : effects'[k].op \in {"put", "send"}
    BY <2>k DEF First, Second
  <2>i. \A i, j \in DOMAIN outboundMsgs : outboundMsgs[i].msgid = outboundMsgs[j].msgid => i = j
    BY <1>0 DEF ListsInv, MsgIdsDistinct
  <2>1. SessionTypeOK'
    <3>1. toBroker' \in Seq(Packets)
      BY <1>a, EmptyDomain
    <3> QED
      BY <1>0, <1>a, <2>a, <2>b, <2>r, <3>1 DEF SessionTypeOK
  <2>3. TokensMatched' /\ OneToken'
    <3>1. TokensMatched'
      <4>1. \A k \in DOMAIN effects' : effects'[k].op = "send" =>
              ~Back(effects'[k].rec) /\ Matched(effects'[k].rec, outboundMsgs)
        BY <2>s DEF Matched
      <4>2. \A k \in DOMAIN toClient' : ~Back(toClient'[k]) /\ Matched(toClient'[k], brokerOut)
        BY <2>b DEF Matched
      <4> QED
        BY <1>a, <2>a, <4>1, <4>2, EmptyDomain DEF TokensMatched
    <3>2. OneToken'
      <4>1. \A j, k \in DOMAIN effects' : (effects'[j].op = "send" /\ effects'[k].op = "send"
              /\ SameWay(effects'[j].rec, effects'[k].rec)) => j = k
        BY <2>s, <2>i DEF SameWay
      <4>2. \A j, k \in DOMAIN toClient' : SameWay(toClient'[j], toClient'[k]) => j = k
        BY <1>0, <2>b DEF SameWay, ListsInv, IdsDiffer
      <4>3. \A j \in DOMAIN effects', k \in DOMAIN toClient' :
              effects'[j].op = "send" => ~Opposite(effects'[j].rec, toClient'[k])
        BY <2>s, <2>b DEF Opposite
      <4> QED
        BY <1>a, <4>1, <4>2, <4>3, EmptyDomain DEF OneToken
    <3> QED
      BY <3>1, <3>2
  <2>4. ListsInv'
    BY <1>0, <1>a, <2>a DEF ListsInv, MsgIdsDistinct, IdsDiffer, PublicationOrder
  <2>5. KeysInv'
    <3>1. \A j, k \in DOMAIN effects' :
            IsStoreCall(effects'[j]) /\ IsStoreCall(effects'[k]) /\ SameKey(effects'[j].rec, effects'[k].rec) => j = k
      BY <2>p, <2>n, <2>i DEF IsStoreCall, SameKey
    <3>2. \A k \in DOMAIN effects' : effects'[k].op = "put" => effects'[k].rec.ver = Tag(effects'[k].rec.key)
      BY <2>p
    <3> QED
      BY <1>0, <1>a, <2>a, <3>1, <3>2 DEF KeysInv, IdsDiffer, IsStoreCall, SameKey, Tag, AckVersion
  <2>6. RecordsInv' /\ CallsInv' /\ (~persistent => pstore = {})'
    <3>1. RecordsInv'
      BY <1>0, <1>a, <2>a DEF RecordsInv, Records
    <3>2. CallsInv'
      BY <2>a, <2>p, <2>n DEF CallsInv
    <3> QED
      BY <1>0, <1>a, <3>1, <3>2
  <2>7. (Version = 4 => (persistent => ReleaseInv) /\ HeldInv /\ NeverTwice)'
    <3>1. ASSUME NEW k \in DOMAIN effects', effects'[k].op = "send" /\ effects'[k].rec.type = "PUBREL"
          PROVE  \E j \in 1..(k - 1) : effects'[j].op = "put" /\ effects'[j].rec.key = "sc"
                                      /\ effects'[j].rec.id = effects'[k].rec.id
      <4>1. PICK i \in DOMAIN outboundMsgs : k = 2 * i /\ effects'[k].rec.id = outboundMsgs[i].msgid /\ outboundMsgs[i].next = "PUBCOMP"
        BY <2>s, <3>1
      <4>2. 2 * i - 1 \in 1..(k - 1)
        BY <2>o, <4>1
      <4>3. /\ effects'[2 * i - 1].op = "put" /\ effects'[2 * i - 1].rec.key = "sc"
            /\ effects'[2 * i - 1].rec.id = outboundMsgs[i].msgid
        <5>1. First(effects'[2 * i - 1], outboundMsgs[i])
          <6>1. effects'[2 * i - 1] = Retry(outboundMsgs[i])[1]
            BY <2>r
          <6> QED
            BY <2>u, <6>1
        <5> QED
          BY <4>1, <5>1 DEF First
      <4> QED
        BY <4>1, <4>2, <4>3
    <3>2. ReleaseInv'
      BY <1>a, <2>n, <3>1, EmptyDomain DEF ReleaseInv
    <3>3. Version = 4 => HeldInv'
      <4>1. ~Clean'
        BY <1>d DEF Clean
      <4> QED
        BY <1>0, <1>a, <1>d, <2>a, <4>1 DEF HeldInv, HasRecord, Records
    <3> QED
      BY <1>0, <1>a, <3>2, <3>3 DEF NeverTwice
  <2>8. (crashes = 0 => ReceivedInv)'
    <3> SUFFICES ASSUME crashes = 0 PROVE ReceivedInv'
      BY <1>a
    <3>0. ReceivedInv
      BY <1>0
    <3>1. \A k \in DOMAIN effects' : effects'[k].op = "send" => effects'[k].rec.type \notin Acks
      BY <2>s DEF Back
    <3>2. \A k \in DOMAIN toClient' : toClient'[k].qos # 0
      BY <2>b
    <3> QED
      BY <1>a, <1>d, <2>a, <3>0, <3>1, <3>2, EmptyDomain DEF ReceivedInv, IdsOf, Acks
  <2>9. ((Version = 4 /\ persistent /\ ~Clean) => AgreeInv)'
    <3> SUFFICES ASSUME Version = 4 /\ persistent /\ ~Clean PROVE AgreeInv'
      BY DEF Clean
    <3>0. AgreeInv
      BY <1>0
    <3>2. \A key, x : WillHave(key, x) <=> HasRecord(key, x)
      BY <1>a, EmptyDomain DEF WillHave
    <3>3. \A key, x : (\E k \in DOMAIN effects' : effects'[k].op = "put" /\ effects'[k].rec.key = key /\ effects'[k].rec.id = x)
                      => x \in Nat /\ HasRecord(key, x)
      <4> SUFFICES ASSUME NEW k \in DOMAIN effects', effects'[k].op = "put"
                   PROVE  effects'[k].rec.id \in Nat /\ HasRecord(effects'[k].rec.key, effects'[k].rec.id)
        OBVIOUS
      <4>1. PICK i \in DOMAIN outboundMsgs : /\ effects'[k].rec.id = outboundMsgs[i].msgid
                                             /\ outboundMsgs[i].next = "PUBCOMP" => effects'[k].rec.key = "sc"
                                             /\ outboundMsgs[i].next # "PUBCOMP" => effects'[k].rec.key = "s"
        BY <2>p
      <4>2. outboundMsgs[i].msgid \in Nat /\ outboundMsgs[i].msgid \in IdsOf(outboundMsgs)
        <5>1. outboundMsgs[i] \in Entries
          BY <2>o
        <5> QED
          BY <5>1 DEF Entries, IdsOf
      <4>3. outboundMsgs[i].next = "PUBCOMP" => outboundMsgs[i].msgid \in ReleasedIds
        BY DEF ReleasedIds
      <4> QED
        BY <1>a, <3>0, <3>2, <4>1, <4>2, <4>3 DEF AgreeInv, Agreed
    <3>4. \A key, x : WillHave(key, x)' <=> HasRecord(key, x)
      <4>1. \A k \in DOMAIN effects' : effects'[k].op # "remove"
        BY <2>n
      <4>2. \A key, x : HasRecord(key, x)' <=> HasRecord(key, x)
        BY <1>a DEF HasRecord, Records
      <4> QED
        BY <3>3, <4>1, <4>2 DEF WillHave
    <3>5. Seqnos' = Seqnos /\ IdsOf(inboundMsgs)' = IdsOf(inboundMsgs) /\ ReleasedIds' = ReleasedIds
          /\ IdsOf(outboundMsgs)' = IdsOf(outboundMsgs)
      BY <2>a DEF Seqnos, IdsOf, ReleasedIds
    <3> QED
      BY <1>a, <3>0, <3>2, <3>4, <3>5 DEF AgreeInv, Agreed
  <2> QED
    BY <1>l, <2>1, <2>3, <2>4, <2>5, <2>6, <2>7, <2>8, <2>9 DEF CoreInv
<1> QED
  BY <1>c, <1>d

\* A disk on which nothing was lost or cut holds the records that were put.
LEMMA WholeDisk ==
  ASSUME damaged = {}
  PROVE  /\ OnDisk = pstore /\ \A key : RecordsOnDisk(key) = Records(key)
         /\ \A key : CutIds(key) = {} /\ SUBSET CutIds(key) = {{}}
<1>1. \A key : CutIds(key) = {}
  BY DEF CutIds
<1>2. OnDisk = pstore
  BY <1>1 DEF OnDisk
<1> QED
  BY <1>1, <1>2 DEF RecordsOnDisk, Records

\* The records of one key, in the order of their ids.
LEMMA RecordsInOrder ==
  ASSUME SessionTypeOK, NEW key, NEW list \in InOrder(Records(key))
  PROVE  /\ Len(list) \in Nat /\ DOMAIN list = 1..Len(list)
         /\ \A i \in DOMAIN list : list[i] \in Records(key) /\ list[i] \in StoreRecords /\ list[i].id \in Nat /\ list[i].key = key
         /\ \A i, j \in DOMAIN list : i < j => list[i].id < list[j].id
         /\ \A e \in Records(key) : \E i \in DOMAIN list : list[i] = e
<1>1. Records(key) \in SUBSET StoreRecords /\ Records(key) \subseteq pstore /\ IsFiniteSet(pstore)
  BY DEF Records, SessionTypeOK
<1>2. IsFiniteSet(Records(key))
  BY <1>1, FS_Subset
<1>3. /\ list \in Seq(Records(key)) /\ DOMAIN list = 1..Len(list)
      /\ \A i \in DOMAIN list : list[i] \in Records(key)
      /\ \A i, j \in DOMAIN list : i < j => list[i].id < list[j].id
      /\ \A e \in Records(key) : \E i \in DOMAIN list : list[i] = e
  BY <1>1, <1>2, InOrderFacts
<1>4. Len(list) \in Nat
  BY <1>3, LenProperties
<1>5. \A e \in Records(key) : e \in StoreRecords /\ e.id \in Nat /\ e.key = key
  BY <1>1 DEF Records, StoreRecords
<1> QED
  BY <1>3, <1>4, <1>5

\* MQTTClient_create after a crash: the lists are made from the records, and a message
\* whose PUBREL was recorded is not published again.
LEMMA RestartStep ==
  ASSUME CoreInv, Restart, damaged = {}
  PROVE  CoreInv' /\ ReceiptInv'
<1>0. /\ SessionTypeOK /\ LinkInv /\ TokensMatched /\ OneToken /\ ListsInv /\ KeysInv /\ RecordsInv /\ CallsInv
      /\ ~persistent => pstore = {}
      /\ Version = 4 => (persistent => ReleaseInv) /\ HeldInv /\ NeverTwice
      /\ crashes = 0 => ReceivedInv
      /\ (Version = 4 /\ persistent /\ ~Clean) => AgreeInv
  BY DEF CoreInv
<1>a. /\ ~alive /\ alive' = TRUE /\ connected' = connected /\ msgID' = msgID /\ effects' = effects /\ link' = link
      /\ toBroker' = toBroker /\ toClient' = toClient /\ brokerHeld' = brokerHeld /\ brokerOut' = brokerOut
      /\ published' = published /\ delivered' = delivered /\ qosOf' = qosOf /\ inSent' = inSent
      /\ completed' = completed /\ queued' = queued /\ crashes' = crashes
  BY RestartDoes
<1>b. /\ effects = <<>> /\ DOMAIN effects = {} /\ DOMAIN effects' = {} /\ ~connected /\ ~link /\ crashes # 0
      /\ toBroker = <<>> /\ toClient = <<>> /\ DOMAIN toBroker = {} /\ DOMAIN toClient = {}
  BY <1>0, <1>a, EmptyDomain DEF LinkInv, SessionTypeOK
<1>c. PICK sent \in InOrder(Records("s")), held \in InOrder(Records("r")), entries \in InOrder(Records("q")) :
       /\ outboundMsgs' = wrapMsgID([i \in DOMAIN sent |-> Restored(sent[i], {})])
       /\ inboundMsgs' = [i \in DOMAIN held |-> [msgid |-> held[i].id, msg |-> held[i].msg]]
       /\ messageQueue' = [i \in DOMAIN entries |-> [seqno |-> entries[i].id, msg |-> entries[i].msg]]
       /\ qentry_seqno' = IF entries = <<>> THEN 0 ELSE entries[Len(entries)].id
  <2>1. /\ RecordsOnDisk("s") = Records("s") /\ RecordsOnDisk("r") = Records("r") /\ RecordsOnDisk("q") = Records("q")
        /\ \A c \in SUBSET CutIds("sc") : c = {}
    BY WholeDisk
  <2>2. PICK sent \in InOrder(RecordsOnDisk("s")), held \in InOrder(RecordsOnDisk("r")),
             entries \in InOrder(RecordsOnDisk("q")), c \in SUBSET CutIds("sc") :
       /\ outboundMsgs' = wrapMsgID([i \in DOMAIN sent |-> Restored(sent[i], c)])
       /\ inboundMsgs' = [i \in DOMAIN held |-> [msgid |-> held[i].id, msg |-> held[i].msg]]
       /\ messageQueue' = [i \in DOMAIN entries |-> [seqno |-> entries[i].id, msg |-> entries[i].msg]]
       /\ qentry_seqno' = IF entries = <<>> THEN 0 ELSE entries[Len(entries)].id
    BY DEF Restart
  <2>3. c = {}
    BY <2>1
  <2> QED
    BY <2>1, <2>2, <2>3
<1>d. pstore' = {e \in pstore : e.key = "sc" => \E f \in Records("s") : f.ver = Version /\ f.id = e.id}
  BY WholeDisk DEF Restart
\* What is sent again.
<1>e. \A e \in Records("s") : /\ Restored(e, {}) \in Entries /\ Restored(e, {}).msgid = e.id /\ Restored(e, {}).msg = e.msg
                              /\ Restored(e, {}).qos = e.qos
                              /\ Restored(e, {}).next = (IF \E f \in pstore : f.key = "sc" /\ f.ver = Version /\ f.id = e.id THEN "PUBCOMP"
                                                     ELSE IF e.qos = 2 THEN "PUBREC" ELSE "PUBACK")
  <2> SUFFICES ASSUME NEW e \in Records("s")
               PROVE  /\ Restored(e, {}) \in Entries /\ Restored(e, {}).msgid = e.id /\ Restored(e, {}).msg = e.msg
                      /\ Restored(e, {}).qos = e.qos
                      /\ Restored(e, {}).next = (IF \E f \in pstore : f.key = "sc" /\ f.ver = Version /\ f.id = e.id THEN "PUBCOMP"
                                             ELSE IF e.qos = 2 THEN "PUBREC" ELSE "PUBACK")
    OBVIOUS
  <2>1. e \in StoreRecords /\ e.key = "s"
    BY <1>0 DEF Records, SessionTypeOK
  <2>2. e.id \in Nat /\ e.qos \in 1..2 /\ e.msg \in Messages
    BY <2>1 DEF StoreRecords
  <2> DEFINE nx == IF \E f \in pstore : f.key = "sc" /\ f.ver = Version /\ f.id = e.id THEN "PUBCOMP"
                   ELSE IF e.qos = 2 THEN "PUBREC" ELSE "PUBACK"
  <2>3. Restored(e, {}) = [msgid |-> e.id, qos |-> e.qos, msg |-> e.msg, next |-> nx] /\ nx \in Acks
    BY WholeDisk DEF Restored, Acks
  <2> HIDE DEF nx
  <2>4. Restored(e, {}) \in Entries /\ Restored(e, {}).msgid = e.id /\ Restored(e, {}).msg = e.msg /\ Restored(e, {}).qos = e.qos /\ Restored(e, {}).next = nx
    BY <2>2, <2>3 DEF Entries
  <2> QED
    BY <2>4 DEF nx
<1> DEFINE L == [i \in DOMAIN sent |-> Restored(sent[i], {})]
<1>f. /\ Len(sent) \in Nat /\ DOMAIN sent = 1..Len(sent)
      /\ \A i \in DOMAIN sent : sent[i] \in Records("s") /\ sent[i].id \in Nat
      /\ \A i, j \in DOMAIN sent : i < j => sent[i].id < sent[j].id
      /\ \A e \in Records("s") : \E i \in DOMAIN sent : sent[i] = e
  BY <1>0, RecordsInOrder
<1>g. /\ DOMAIN L = DOMAIN sent /\ \A i \in DOMAIN sent : L[i] = Restored(sent[i], {})
      /\ L \in Seq(Entries) /\ \A i, j \in DOMAIN L : i < j => L[i].msgid < L[j].msgid
      /\ outboundMsgs' = wrapMsgID(L)
  <2>1. DOMAIN L = DOMAIN sent /\ \A i \in DOMAIN sent : L[i] = Restored(sent[i], {})
    OBVIOUS
  <2>2. L \in [1..Len(sent) -> Entries]
    BY <1>e, <1>f
  <2>3. L \in Seq(Entries)
    BY <1>f, <2>2, SeqDef
  <2>4. outboundMsgs' = wrapMsgID(L)
    BY <1>c
  <2> HIDE DEF L
  <2> QED
    BY <1>e, <1>f, <2>1, <2>3, <2>4
<1> HIDE DEF L
<1>w. /\ outboundMsgs' \in Seq(Entries)
      /\ \A i \in DOMAIN outboundMsgs' : \E j \in DOMAIN L : outboundMsgs'[i] = L[j]
      /\ \A i, j \in DOMAIN outboundMsgs' : i # j => \E g, h \in DOMAIN L : g # h /\ outboundMsgs'[i] = L[g] /\ outboundMsgs'[j] = L[h]
      /\ \A j \in DOMAIN L : \E i \in DOMAIN outboundMsgs' : outboundMsgs'[i] = L[j]
  BY <1>g, WrapFacts
<1>o. \A i \in DOMAIN outboundMsgs' : \E e \in Records("s") : outboundMsgs'[i] = Restored(e, {})
  BY <1>f, <1>g, <1>w
<1>p. \A i, j \in DOMAIN outboundMsgs' : i # j => \E e, f \in Records("s") : e.id # f.id /\ outboundMsgs'[i] = Restored(e, {}) /\ outboundMsgs'[j] = Restored(f, {})
  <2> SUFFICES ASSUME NEW i \in DOMAIN outboundMsgs', NEW j \in DOMAIN outboundMsgs', i # j
               PROVE  \E e, f \in Records("s") : e.id # f.id /\ outboundMsgs'[i] = Restored(e, {}) /\ outboundMsgs'[j] = Restored(f, {})
    OBVIOUS
  <2>1. PICK g \in DOMAIN L, h \in DOMAIN L : g # h /\ outboundMsgs'[i] = L[g] /\ outboundMsgs'[j] = L[h]
    BY <1>w
  <2>2. g \in Int /\ h \in Int /\ g \in DOMAIN sent /\ h \in DOMAIN sent
    BY <1>f, <1>g
  <2>3. sent[g].id # sent[h].id
    BY <1>f, <2>1, <2>2
  <2> QED
    BY <1>f, <1>g, <2>1, <2>2, <2>3
<1>q. \A e \in Records("s") : \E i \in DOMAIN outboundMsgs' : outboundMsgs'[i] = Restored(e, {})
  BY <1>f, <1>g, <1>w
\* What was received.
<1>i. /\ inboundMsgs' \in Seq(InEntries) /\ IdsDiffer(inboundMsgs')
      /\ \A n : n \in IdsOf(inboundMsgs') <=> HasRecord("r", n)
  <2>1. /\ Len(held) \in Nat /\ DOMAIN held = 1..Len(held)
        /\ \A i \in DOMAIN held : held[i] \in Records("r") /\ held[i] \in StoreRecords /\ held[i].id \in Nat /\ held[i].key = "r"
        /\ \A i, j \in DOMAIN held : i < j => held[i].id < held[j].id
        /\ \A e \in Records("r") : \E i \in DOMAIN held : held[i] = e
    BY <1>0, RecordsInOrder
  <2>2. \A i \in DOMAIN held : held[i].msg \in Messages
    BY <2>1 DEF StoreRecords
  <2>3. /\ DOMAIN inboundMsgs' = DOMAIN held
        /\ \A i \in DOMAIN held : inboundMsgs'[i] = [msgid |-> held[i].id, msg |-> held[i].msg]
    BY <1>c
  <2>4. \A i \in DOMAIN held : inboundMsgs'[i] \in InEntries /\ inboundMsgs'[i].msgid = held[i].id
    BY <2>1, <2>2, <2>3 DEF InEntries
  <2>5. inboundMsgs' \in [1..Len(held) -> InEntries]
    BY <1>c, <2>1, <2>3, <2>4
  <2>6. inboundMsgs' \in Seq(InEntries)
    BY <2>1, <2>5, SeqDef
  <2>7. IdsDiffer(inboundMsgs')
    <3>1. \A i, j \in DOMAIN held : held[i].id = held[j].id => i = j
      BY <2>1
    <3> QED
      BY <2>3, <2>4, <3>1 DEF IdsDiffer
  <2>8. \A n : n \in IdsOf(inboundMsgs') <=> HasRecord("r", n)
    <3>1. \A n : n \in IdsOf(inboundMsgs') <=> \E i \in DOMAIN held : n = held[i].id
      BY <2>3, <2>4 DEF IdsOf
    <3> QED
      BY <2>1, <3>1 DEF HasRecord
  <2> QED
    BY <2>6, <2>7, <2>8
<1>m. /\ messageQueue' \in Seq(QueueEntries) /\ qentry_seqno' \in Nat
      /\ \A i, j \in DOMAIN messageQueue' : i < j => messageQueue'[i].seqno < messageQueue'[j].seqno
      /\ \A i \in DOMAIN messageQueue' : messageQueue'[i].seqno <= qentry_seqno'
      /\ \A n : n \in Seqnos' <=> HasRecord("q", n)
  <2>1. /\ Len(entries) \in Nat /\ DOMAIN entries = 1..Len(entries)
        /\ \A i \in DOMAIN entries : entries[i] \in Records("q") /\ entries[i] \in StoreRecords /\ entries[i].id \in Nat /\ entries[i].key = "q"
        /\ \A i, j \in DOMAIN entries : i < j => entries[i].id < entries[j].id
        /\ \A e \in Records("q") : \E i \in DOMAIN entries : entries[i] = e
    BY <1>0, RecordsInOrder
  <2>2. \A i \in DOMAIN entries : entries[i].msg \in Messages
    BY <2>1 DEF StoreRecords
  <2>3. /\ DOMAIN messageQueue' = DOMAIN entries
        /\ \A i \in DOMAIN entries : messageQueue'[i] = [seqno |-> entries[i].id, msg |-> entries[i].msg]
    BY <1>c
  <2>4. \A i \in DOMAIN entries : messageQueue'[i] \in QueueEntries /\ messageQueue'[i].seqno = entries[i].id
    BY <2>1, <2>2, <2>3 DEF QueueEntries
  <2>5. messageQueue' \in [1..Len(entries) -> QueueEntries]
    BY <1>c, <2>1, <2>3, <2>4
  <2>6. messageQueue' \in Seq(QueueEntries)
    BY <2>1, <2>5, SeqDef
  <2>7. qentry_seqno' \in Nat /\ \A i \in DOMAIN entries : entries[i].id <= qentry_seqno'
    <3>1. CASE DOMAIN entries = {}
      <4>1. Len(entries) = 0 /\ entries \in Seq(Records("q"))
        <5>1. Len(entries) = 0
          BY <2>1, <3>1
        <5>2. entries \in [1..Len(entries) -> Records("q")]
          <6>1. entries \in [DOMAIN entries -> Records("q")]
            <7>1. entries \in [1..Cardinality(Records("q")) -> Records("q")]
              BY DEF InOrder
            <7> QED
              BY <7>1
          <6> QED
            BY <2>1, <6>1
        <5> QED
          BY <2>1, <5>1, <5>2, SeqDef
      <4>2. entries = <<>>
        BY <4>1, EmptySeq
      <4> QED
        BY <1>c, <3>1, <4>2
    <3>2. CASE DOMAIN entries # {}
      <4>1. Len(entries) \in DOMAIN entries /\ \A i \in DOMAIN entries : i < Len(entries) \/ i = Len(entries)
        BY <2>1, <3>2
      <4>2. entries # <<>>
        BY <3>2, EmptyDomain
      <4>3. qentry_seqno' = entries[Len(entries)].id
        BY <1>c, <4>2
      <4> QED
        BY <2>1, <4>1, <4>3
    <3> QED
      BY <3>1, <3>2
  <2>8. \A n : n \in Seqnos' <=> HasRecord("q", n)
    <3>1. \A n : n \in Seqnos' <=> \E i \in DOMAIN entries : n = entries[i].id
      BY <2>3, <2>4 DEF Seqnos
    <3> QED
      BY <2>1, <3>1 DEF HasRecord
  <2> QED
    BY <2>1, <2>3, <2>4, <2>6, <2>7, <2>8
\* The store.
<1>r. /\ \A key : key # "sc" => Records(key)' = Records(key)
      /\ \A e \in Records("s") : e.ver = Version
      /\ \A n : HasRecord("sc", n)' <=> HasRecord("sc", n) /\ HasRecord("s", n)
      /\ pstore' \subseteq pstore
  <2>1. \A e \in Records("s") : e.ver = Version
    BY <1>0 DEF KeysInv, Records, Tag
  <2>2. \A key : key # "sc" => Records(key)' = Records(key)
    BY <1>d DEF Records
  <2>3. Records("sc")' = {e \in Records("sc") : \E f \in Records("s") : f.id = e.id}
    BY <1>d, <2>1 DEF Records
  <2>4. \A n : HasRecord("sc", n)' <=> HasRecord("sc", n) /\ HasRecord("s", n)
    BY <2>3 DEF HasRecord
  <2> QED
    BY <1>d, <2>1, <2>2, <2>4
<1>1. SessionTypeOK'
  <2>1. IsFiniteSet(pstore') /\ pstore' \subseteq StoreRecords
    BY <1>0, <1>r, FS_Subset DEF SessionTypeOK
  <2> QED
    BY <1>0, <1>a, <1>i, <1>m, <1>w, <2>1 DEF SessionTypeOK
<1>2. LinkInv'
  BY <1>0, <1>a, <1>b DEF LinkInv
<1>3. TokensMatched' /\ OneToken'
  BY <1>a, <1>b DEF TokensMatched, OneToken
<1>4. ListsInv'
  <2>1. MsgIdsDistinct'
    <3>1. \A i, j \in DOMAIN outboundMsgs' : i # j => outboundMsgs'[i].msgid # outboundMsgs'[j].msgid
      BY <1>e, <1>p
    <3> QED
      BY <3>1 DEF MsgIdsDistinct
  <2>2. \A i, j \in DOMAIN outboundMsgs' : outboundMsgs'[i].msg = outboundMsgs'[j].msg => i = j
    <3>1. \A e, f \in Records("s") : e.msg = f.msg => e = f
      BY <1>0 DEF RecordsInv
    <3>2. \A i, j \in DOMAIN outboundMsgs' : i # j => outboundMsgs'[i].msg # outboundMsgs'[j].msg
      BY <1>e, <1>p, <3>1
    <3> QED
      BY <3>2
  <2>3. \A i \in DOMAIN outboundMsgs' :
          /\ Proper(outboundMsgs'[i])
          /\ outboundMsgs'[i].msg <= published /\ outboundMsgs'[i].qos = qosOf[outboundMsgs'[i].msg]
    <3> SUFFICES ASSUME NEW i \in DOMAIN outboundMsgs'
                 PROVE  /\ Proper(outboundMsgs'[i])
                        /\ outboundMsgs'[i].msg <= published /\ outboundMsgs'[i].qos = qosOf[outboundMsgs'[i].msg]
      OBVIOUS
    <3>1. PICK e \in Records("s") : outboundMsgs'[i] = Restored(e, {})
      BY <1>o
    <3>2. e.msg \in 1..published /\ e.qos = qosOf[e.msg] /\ published \in Nat
      BY <1>0 DEF RecordsInv, SessionTypeOK
    <3>3. Restored(e, {}).qos = e.qos /\ Restored(e, {}).msg = e.msg /\ e.qos \in 1..2
      BY <1>e DEF Entries
    <3>4. Proper(Restored(e, {}))
      BY <1>e, <3>3 DEF Proper
    <3> QED
      BY <3>1, <3>2, <3>3, <3>4
  <2>4. /\ IdsDiffer(brokerOut)
        /\ \A i \in DOMAIN brokerOut : /\ Proper(brokerOut[i])
                                       /\ brokerOut[i].msg <= inSent /\ brokerOut[i].msgid = brokerOut[i].msg
    BY <1>0 DEF ListsInv
  <2> QED
    BY <1>a, <1>b, <2>1, <2>2, <2>3, <2>4 DEF ListsInv, IdsDiffer, Proper
<1>5. KeysInv'
  <2>1. /\ \A e \in pstore' : e.ver = Tag(e.key)
        /\ \A e, f \in pstore' : SameKey(e, f) => e = f
    BY <1>0, <1>r DEF KeysInv
  <2> QED
    BY <1>b, <1>i, <1>m, <2>1 DEF KeysInv, IdsDiffer, Tag, AckVersion, SameKey
<1>6. RecordsInv' /\ CallsInv' /\ (~persistent => pstore = {})'
  <2>1. RecordsInv'
    <3>1. Records("s")' = Records("s")
      BY <1>r
    <3>2. \A e \in Records("s"), i \in DOMAIN outboundMsgs' : e.msg = outboundMsgs'[i].msg => e.id = outboundMsgs'[i].msgid
      BY <1>0, <1>e, <1>o DEF RecordsInv
    <3> QED
      BY <1>0, <1>a, <3>1, <3>2 DEF RecordsInv
  <2>2. CallsInv'
    BY <1>b DEF CallsInv
  <2> QED
    BY <1>0, <1>r, <2>1, <2>2
<1>7. (Version = 4 => (persistent => ReleaseInv) /\ HeldInv /\ NeverTwice)'
  <2> SUFFICES ASSUME Version = 4 PROVE (persistent => ReleaseInv') /\ HeldInv' /\ NeverTwice'
    OBVIOUS
  <2>0. HeldInv /\ NeverTwice
    BY <1>0
  <2>1. ReleaseInv'
    BY <1>a, <1>b DEF ReleaseInv
  <2>2. HeldInv'
    <3>1. ASSUME ~Clean, NEW i \in DOMAIN outboundMsgs', outboundMsgs'[i].qos = 2, outboundMsgs'[i].next # "PUBCOMP",
                 delivered[outboundMsgs'[i].msg] > 0
          PROVE  outboundMsgs'[i].msgid \in brokerHeld
      <4>1. PICK e \in Records("s") : outboundMsgs'[i] = Restored(e, {})
        BY <1>o
      <4>2. ~HasRecord("sc", e.id)
        <5>1. ~\E f \in pstore : f.key = "sc" /\ f.ver = Version /\ f.id = e.id
          BY <1>e, <3>1, <4>1
        <5>2. \A f \in pstore : f.key = "sc" => f.ver = Version
          BY <1>0 DEF KeysInv, Tag, AckVersion
        <5> QED
          BY <5>1, <5>2 DEF HasRecord, Records
      <4>3. e.qos = 2 /\ delivered[e.msg] > 0 /\ outboundMsgs'[i].msgid = e.id
        BY <1>e, <3>1, <4>1
      <4> QED
        BY <2>0, <3>1, <4>2, <4>3 DEF HeldInv
    <3>2. ASSUME ~Clean, NEW e \in Records("s"), e.qos = 2, ~HasRecord("sc", e.id)', delivered[e.msg] > 0
          PROVE  e.id \in brokerHeld
      <4>1. HasRecord("s", e.id)
        BY DEF HasRecord
      <4>2. ~HasRecord("sc", e.id)
        BY <1>r, <3>2, <4>1
      <4> QED
        BY <2>0, <3>2, <4>2 DEF HeldInv
    <3>3. Records("s")' = Records("s")
      BY <1>r
    <3>4. \A x \in Messages : x > published => delivered[x] = 0
      BY <2>0 DEF HeldInv
    <3> QED
      BY <1>a, <1>b, <3>1, <3>2, <3>3, <3>4 DEF HeldInv, Clean
  <2>3. NeverTwice'
    BY <1>a, <2>0 DEF NeverTwice
  <2> QED
    BY <2>1, <2>2, <2>3
<1>8. (crashes = 0 => ReceivedInv)'
  BY <1>a, <1>b
<1>9. ((Version = 4 /\ persistent /\ ~Clean) => AgreeInv)'
  <2> SUFFICES ASSUME Version = 4 PROVE AgreeInv'
    OBVIOUS
  <2>1. \A key, n : WillHave(key, n)' <=> HasRecord(key, n)'
    BY <1>b DEF WillHave
  <2>2. \A key, n : key # "sc" => (HasRecord(key, n)' <=> HasRecord(key, n))
    BY <1>r DEF HasRecord
  <2>3. \A n : n \in IdsOf(outboundMsgs') <=> HasRecord("s", n)
    <3>1. \A n : n \in IdsOf(outboundMsgs') <=> \E i \in DOMAIN outboundMsgs' : n = outboundMsgs'[i].msgid
      BY DEF IdsOf
    <3> QED
      BY <1>e, <1>o, <1>q, <3>1 DEF HasRecord
  <2>4. \A n : n \in ReleasedIds' <=> HasRecord("s", n) /\ HasRecord("sc", n)
    <3>1. \A n : n \in ReleasedIds' <=> \E i \in DOMAIN outboundMsgs' : outboundMsgs'[i].next = "PUBCOMP" /\ n = outboundMsgs'[i].msgid
      BY DEF ReleasedIds
    <3>2. \A f \in pstore : f.key = "sc" => f.ver = Version
      BY <1>0 DEF KeysInv, Tag, AckVersion
    <3>3. \A e \in Records("s") : Restored(e, {}).next = "PUBCOMP" <=> HasRecord("sc", e.id)
      BY <1>e, <3>2 DEF HasRecord, Records
    <3>4. \A n : n \in ReleasedIds' <=> \E e \in Records("s") : n = e.id /\ HasRecord("sc", e.id)
      BY <1>e, <1>o, <1>q, <3>1, <3>3
    <3>5. \A n : HasRecord("s", n) <=> \E e \in Records("s") : n = e.id
      BY DEF HasRecord
    <3> QED
      BY <3>4, <3>5
  <2>5. IdsOf(outboundMsgs)' = IdsOf(outboundMsgs') /\ IdsOf(inboundMsgs)' = IdsOf(inboundMsgs')
    BY DEF IdsOf
  <2>6. Agreed("s", IdsOf(outboundMsgs))'
    BY <2>1, <2>2, <2>3, <2>5 DEF Agreed
  <2>7. Agreed("sc", ReleasedIds)'
    BY <1>r, <2>1, <2>4 DEF Agreed
  <2>9. Agreed("q", Seqnos)'
    BY <1>m, <2>1, <2>2 DEF Agreed
  <2> QED
    BY <2>6, <2>7, <2>9 DEF AgreeInv
\* The list of the messages received is made from their records.
<1>10. ReceiptInv'
  <2>1. \A n : WillHave("r", n)' <=> HasRecord("r", n)
    BY <1>b, <1>r DEF WillHave, HasRecord
  <2>2. \A n : n \in IdsOf(inboundMsgs)' <=> HasRecord("r", n)
    <3>1. IdsOf(inboundMsgs)' = IdsOf(inboundMsgs')
      BY DEF IdsOf
    <3> QED
      BY <1>i, <3>1
  <2> QED
    BY <1>a, <1>b, <2>1, <2>2 DEF ReceiptInv
<1> QED
  BY <1>1, <1>2, <1>3, <1>4, <1>5, <1>6, <1>7, <1>8, <1>9, <1>10 DEF CoreInv

\* The broker has a message of its own: its exchange is new, and so is its id.
LEMMA BrokerPublishesStep ==
  ASSUME CoreInv, BrokerPublishes
  PROVE  CoreInv'
<1>0. /\ SessionTypeOK /\ LinkInv /\ TokensMatched /\ OneToken /\ ListsInv /\ KeysInv /\ RecordsInv /\ CallsInv
      /\ ~persistent => pstore = {}
      /\ Version = 4 => (persistent => ReleaseInv) /\ HeldInv /\ NeverTwice
      /\ crashes = 0 => ReceivedInv
      /\ (Version = 4 /\ persistent /\ ~Clean) => AgreeInv
  BY DEF CoreInv
<1> DEFINE n == inSent + 1
<1>a. /\ inSent' = n /\ link
      /\ alive' = alive /\ connected' = connected /\ msgID' = msgID /\ qentry_seqno' = qentry_seqno
      /\ outboundMsgs' = outboundMsgs /\ inboundMsgs' = inboundMsgs /\ messageQueue' = messageQueue /\ effects' = effects
      /\ pstore' = pstore /\ link' = link /\ toBroker' = toBroker /\ brokerHeld' = brokerHeld
      /\ published' = published /\ delivered' = delivered /\ qosOf' = qosOf /\ completed' = completed
      /\ queued' = queued /\ crashes' = crashes
  BY BrokerPublishesDoes
<1>b. /\ n \in Messages /\ n \in Nat /\ inSent \in Nat /\ published \in Nat /\ published + n <= MaxMessages
      /\ queued \in [Messages -> Nat]
  <2>1. inSent \in Nat /\ published \in Nat /\ queued \in [Messages -> Nat]
    BY <1>0 DEF SessionTypeOK
  <2>2. published + inSent < MaxMessages
    BY BrokerPublishesDoes
  <2>3. MaxMessages \in Nat
    BY SessionAssumption
  <2> QED
    BY <2>1, <2>2, <2>3 DEF Messages
<1>c. PICK q \in Qualities :
        /\ brokerOut' = IF q = 0 THEN brokerOut
                        ELSE Append(brokerOut, [msgid |-> n, qos |-> q, msg |-> n,
                                                next |-> IF q = 2 THEN "PUBREC" ELSE "PUBACK"])
        /\ toClient' = Append(toClient, Packet("PUBLISH", IF q = 0 THEN 0 ELSE n, q, n))
  BY <1>a DEF BrokerPublishes, BrokerSends
<1> DEFINE b == [msgid |-> n, qos |-> q, msg |-> n, next |-> IF q = 2 THEN "PUBREC" ELSE "PUBACK"]
           x == Packet("PUBLISH", IF q = 0 THEN 0 ELSE n, q, n)
<1>q. q \in 0..2
  BY SessionAssumption
<1>m. q # 0 => /\ b \in Entries /\ b.msgid = n /\ b.qos = q /\ b.msg = n
               /\ b.next # "PUBCOMP" /\ (q = 1 <=> b.next = "PUBACK")
  BY <1>b, <1>q DEF Entries, Acks
<1>x. x \in Packets /\ x.type = "PUBLISH" /\ x.qos = q /\ x.msg = n /\ (q # 0 => x.id = n)
  BY <1>b, <1>q DEF Packet, Packets
<1>d. brokerOut' = (IF q = 0 THEN brokerOut ELSE Append(brokerOut, b)) /\ toClient' = Append(toClient, x)
  BY <1>c
<1> HIDE DEF b, x, n
<1>t. toClient \in Seq(Packets) /\ brokerOut \in Seq(Entries)
  BY <1>0 DEF SessionTypeOK
<1>o. \A i \in DOMAIN brokerOut : /\ brokerOut[i].msg \in Messages /\ brokerOut[i].msgid = brokerOut[i].msg
                                  /\ brokerOut[i].msg <= inSent /\ brokerOut[i].msg # n
  <2>1. \A i \in DOMAIN brokerOut : brokerOut[i] \in Entries
    BY <1>t, ElementOfSeq
  <2>2. \A i \in DOMAIN brokerOut : /\ brokerOut[i].msg \in Messages /\ brokerOut[i].msgid = brokerOut[i].msg
                                    /\ brokerOut[i].msg <= inSent
    BY <1>0, <2>1 DEF Entries, ListsInv
  <2> QED
    BY <1>b, <2>2 DEF n, Messages
<1>u. /\ toClient' \in Seq(Packets)
      /\ \A k \in DOMAIN toClient : k \in DOMAIN toClient' /\ toClient'[k] = toClient[k]
      /\ \A k \in DOMAIN toClient' : \/ k \in DOMAIN toClient /\ toClient'[k] = toClient[k]
                                     \/ k = Len(toClient) + 1 /\ toClient'[k] = x
  BY <1>d, <1>t, <1>x, AppendAt
<1>w. /\ brokerOut' \in Seq(Entries)
      /\ \A i \in DOMAIN brokerOut : i \in DOMAIN brokerOut' /\ brokerOut'[i] = brokerOut[i]
      /\ \A i \in DOMAIN brokerOut' : \/ i \in DOMAIN brokerOut /\ brokerOut'[i] = brokerOut[i]
                                      \/ q # 0 /\ i = Len(brokerOut) + 1 /\ brokerOut'[i] = b
      /\ q # 0 => Len(brokerOut) + 1 \in DOMAIN brokerOut' /\ brokerOut'[Len(brokerOut) + 1] = b
  <2>1. CASE q # 0
    <3>1. b \in Entries /\ brokerOut' = Append(brokerOut, b)
      BY <1>m, <1>d, <2>1
    <3>2. /\ brokerOut' \in Seq(Entries) /\ Len(brokerOut) \in Nat
          /\ DOMAIN brokerOut' = 1..(Len(brokerOut) + 1) /\ DOMAIN brokerOut = 1..Len(brokerOut)
          /\ \A k \in DOMAIN brokerOut : k \in DOMAIN brokerOut' /\ brokerOut'[k] = brokerOut[k]
          /\ brokerOut'[Len(brokerOut) + 1] = b
          /\ \A k \in DOMAIN brokerOut' : k = Len(brokerOut) + 1 \/ k \in DOMAIN brokerOut
      BY <1>t, <3>1, AppendAt
    <3>3. Len(brokerOut) + 1 \in DOMAIN brokerOut'
      BY <3>2
    <3> QED
      BY <2>1, <3>2, <3>3
  <2>2. CASE ~(q # 0)
    BY <1>d, <1>t, <2>2
  <2> QED
    BY <2>1, <2>2
<1>1. SessionTypeOK'
  BY <1>0, <1>a, <1>b, <1>u, <1>w DEF SessionTypeOK
<1>2. LinkInv'
  BY <1>0, <1>a DEF LinkInv
<1>3. TokensMatched' /\ OneToken'
  <2>1. \A r : Matched(r, brokerOut) => Matched(r, brokerOut')
    BY <1>w DEF Matched
  <2>2. \A r : Matched(r, brokerOut) => r.id # n
    BY <1>o DEF Matched, Agrees
  <2>3. ~Back(x) /\ (Forth(x) => q # 0 /\ x.id = n /\ Matched(x, brokerOut'))
    <3>1. ~Back(x) /\ (Forth(x) => q # 0)
      BY <1>x DEF Back, Forth, Acks
    <3>2. q # 0 => Agrees(x, b)
      BY <1>m, <1>x DEF Agrees, Acks
    <3> QED
      BY <1>w, <1>x, <3>1, <3>2 DEF Matched
  <2>4. TokensMatched'
    <3>1. /\ \A k \in DOMAIN effects : effects[k].op = "send" =>
               /\ Forth(effects[k].rec) => Matched(effects[k].rec, outboundMsgs)
               /\ Back(effects[k].rec) => Matched(effects[k].rec, brokerOut')
          /\ \A k \in DOMAIN toBroker : Forth(toBroker[k]) => Matched(toBroker[k], outboundMsgs)
          /\ \A k \in DOMAIN toBroker : Back(toBroker[k]) => Matched(toBroker[k], brokerOut')
      BY <1>0, <2>1 DEF TokensMatched
    <3>2. /\ \A k \in DOMAIN toClient' : Back(toClient'[k]) => Matched(toClient'[k], outboundMsgs)
          /\ \A k \in DOMAIN toClient' : Forth(toClient'[k]) => Matched(toClient'[k], brokerOut')
      BY <1>0, <1>u, <2>1, <2>3 DEF TokensMatched
    <3> QED
      BY <1>a, <3>1, <3>2 DEF TokensMatched
  <2>5. OneToken'
    <3>0. /\ \A k \in DOMAIN toClient : Forth(toClient[k]) => toClient[k].id # n
          /\ \A k \in DOMAIN toBroker : Back(toBroker[k]) => toBroker[k].id # n
          /\ \A k \in DOMAIN effects : effects[k].op = "send" /\ Back(effects[k].rec) => effects[k].rec.id # n
      BY <1>0, <2>2 DEF TokensMatched
    <3>1. \A j, k \in DOMAIN toClient' : SameWay(toClient'[j], toClient'[k]) => j = k
      <4> SUFFICES ASSUME NEW j \in DOMAIN toClient', NEW k \in DOMAIN toClient', SameWay(toClient'[j], toClient'[k])
                   PROVE  j = k
        OBVIOUS
      <4>1. CASE j \in DOMAIN toClient /\ k \in DOMAIN toClient
        BY <1>0, <1>u, <4>1 DEF OneToken
      <4>2. CASE j \notin DOMAIN toClient
        BY <1>u, <2>3, <3>0, <4>2 DEF SameWay
      <4>3. CASE k \notin DOMAIN toClient
        BY <1>u, <2>3, <3>0, <4>3 DEF SameWay
      <4> QED
        BY <4>1, <4>2, <4>3
    <3>2. \A j \in DOMAIN effects, k \in DOMAIN toClient' :
            effects[j].op = "send" => ~Opposite(effects[j].rec, toClient'[k])
      <4>1. \A j \in DOMAIN effects, k \in DOMAIN toClient :
              effects[j].op = "send" => ~Opposite(effects[j].rec, toClient[k])
        BY <1>0 DEF OneToken
      <4>2. \A j \in DOMAIN effects : effects[j].op = "send" => ~Opposite(effects[j].rec, x)
        BY <2>3, <3>0 DEF Opposite
      <4> QED
        BY <1>u, <4>1, <4>2
    <3>3. \A j \in DOMAIN toBroker, k \in DOMAIN toClient' : ~Opposite(toBroker[j], toClient'[k])
      <4>1. \A j \in DOMAIN toBroker, k \in DOMAIN toClient : ~Opposite(toBroker[j], toClient[k])
        BY <1>0 DEF OneToken
      <4>2. \A j \in DOMAIN toBroker : ~Opposite(toBroker[j], x)
        BY <2>3, <3>0 DEF Opposite
      <4> QED
        BY <1>u, <4>1, <4>2
    <3> QED
      BY <1>0, <1>a, <3>1, <3>2, <3>3 DEF OneToken
  <2> QED
    BY <2>4, <2>5
<1>4. ListsInv'
  <2>1. IdsDiffer(brokerOut)'
    <3>1. IdsDiffer(brokerOut)
      BY <1>0 DEF ListsInv
    <3>2. \A i, j \in DOMAIN brokerOut' : brokerOut'[i].msgid = brokerOut'[j].msgid => i = j
      BY <1>m, <1>o, <1>w, <3>1 DEF IdsDiffer
    <3> QED
      BY <3>2 DEF IdsDiffer
  <2>2. \A i \in DOMAIN brokerOut' : Proper(brokerOut'[i])
    BY <1>0, <1>m, <1>w DEF ListsInv, Proper
  <2>3. \A i \in DOMAIN brokerOut' : brokerOut'[i].msg <= n /\ brokerOut'[i].msgid = brokerOut'[i].msg
    <3>1. \A i \in DOMAIN brokerOut : brokerOut[i].msg <= n
      BY <1>b, <1>o DEF n, Messages
    <3> QED
      BY <1>b, <1>m, <1>o, <1>w, <3>1
  <2> QED
    BY <1>0, <1>a, <2>1, <2>2, <2>3 DEF ListsInv, MsgIdsDistinct, PublicationOrder
<1>5. KeysInv'
  BY <1>0, <1>a DEF KeysInv, IdsDiffer
<1>6. RecordsInv' /\ CallsInv' /\ (~persistent => pstore = {})'
  BY <1>0, <1>a DEF RecordsInv, CallsInv, Records, IdsOf
<1>7. (Version = 4 => (persistent => ReleaseInv) /\ HeldInv /\ NeverTwice)'
  BY <1>0, <1>a DEF ReleaseInv, HeldInv, NeverTwice, HasRecord, Records, Clean
<1>8. (crashes = 0 => ReceivedInv)'
  <2> SUFFICES ASSUME crashes = 0 PROVE ReceivedInv'
    BY <1>a
  <2>0. ReceivedInv
    BY <1>0
  <2>n. queued[n] = 0
    BY <1>b, <2>0 DEF ReceivedInv, n
  <2>i. inboundMsgs \in Seq(InEntries) /\ \A i \in DOMAIN inboundMsgs : inboundMsgs[i].msg \in Nat
    <3>1. inboundMsgs \in Seq(InEntries)
      BY <1>0 DEF SessionTypeOK
    <3>2. \A i \in DOMAIN inboundMsgs : inboundMsgs[i] \in InEntries
      BY <3>1, ElementOfSeq
    <3> QED
      BY <3>1, <3>2 DEF InEntries, Messages
  <2>1. \A i \in DOMAIN inboundMsgs : /\ inboundMsgs[i].msgid = inboundMsgs[i].msg /\ inboundMsgs[i].msg <= n
                                      /\ inboundMsgs[i].msgid # n
    <3>1. \A i \in DOMAIN inboundMsgs : inboundMsgs[i].msgid = inboundMsgs[i].msg /\ inboundMsgs[i].msg <= inSent
      BY <2>0 DEF ReceivedInv
    <3> QED
      BY <1>b, <2>i, <3>1 DEF n
  <2>2. n \notin IdsOf(inboundMsgs)
    BY <2>1 DEF IdsOf
  <2>3. \A m \in Messages : m > n => queued[m] = 0
    BY <1>b, <2>0 DEF ReceivedInv, n, Messages
  <2>4. /\ \A i \in DOMAIN brokerOut' : brokerOut'[i].qos = 2 => queued[brokerOut'[i].msg] <= 1
        /\ (connected \/ ~Clean) => \A i \in DOMAIN brokerOut' :
             /\ brokerOut'[i].next = "PUBREC" => (queued[brokerOut'[i].msg] = 0 <=> (Version = 4 \/ ~(brokerOut'[i].msgid \in IdsOf(inboundMsgs))))
             /\ brokerOut'[i].next = "PUBCOMP" => (queued[brokerOut'[i].msg] = 0 <=> (Version = 4 /\ brokerOut'[i].msgid \in IdsOf(inboundMsgs)))
    <3>1. /\ \A i \in DOMAIN brokerOut : brokerOut[i].qos = 2 => queued[brokerOut[i].msg] <= 1
          /\ (connected \/ ~Clean) => \A i \in DOMAIN brokerOut :
               /\ brokerOut[i].next = "PUBREC" => (queued[brokerOut[i].msg] = 0 <=> (Version = 4 \/ ~(brokerOut[i].msgid \in IdsOf(inboundMsgs))))
               /\ brokerOut[i].next = "PUBCOMP" => (queued[brokerOut[i].msg] = 0 <=> (Version = 4 /\ brokerOut[i].msgid \in IdsOf(inboundMsgs)))
      BY <2>0 DEF ReceivedInv
    <3>2. q # 0 => b.msg = n /\ b.msgid = n /\ b.next # "PUBCOMP"
      BY <1>m
    <3> QED
      BY <1>w, <2>n, <2>2, <3>1, <3>2
  <2>5. \A k \in DOMAIN toClient' : toClient'[k].type = "PUBLISH" /\ toClient'[k].qos = 0 =>
          toClient'[k].msg <= n /\ \A i \in DOMAIN brokerOut' : brokerOut'[i].msg # toClient'[k].msg
    <3> SUFFICES ASSUME NEW k \in DOMAIN toClient', toClient'[k].type = "PUBLISH", toClient'[k].qos = 0
                 PROVE  toClient'[k].msg <= n /\ \A i \in DOMAIN brokerOut' : brokerOut'[i].msg # toClient'[k].msg
      OBVIOUS
    <3>1. CASE k \in DOMAIN toClient
      <4>1. toClient'[k] = toClient[k] /\ toClient[k] \in Packets
        BY <1>t, <1>u, <3>1, ElementOfSeq
      <4>2. toClient[k].msg \in Nat
        BY <4>1 DEF Packets, Messages
      <4>3. toClient[k].msg <= inSent /\ \A i \in DOMAIN brokerOut : brokerOut[i].msg # toClient[k].msg
        BY <2>0, <3>1, <4>1 DEF ReceivedInv
      <4>4. toClient[k].msg <= n /\ toClient[k].msg # n
        BY <1>b, <4>2, <4>3 DEF n
      <4> QED
        BY <1>m, <1>w, <4>1, <4>3, <4>4
    <3>2. CASE k \notin DOMAIN toClient
      <4>1. toClient'[k] = x /\ q = 0
        BY <1>u, <1>x, <3>2
      <4> QED
        BY <1>b, <1>o, <1>w, <1>x, <4>1
    <3> QED
      BY <3>1, <3>2
  <2>6. /\ \A m \in completed : m \in Messages /\ queued[m] > 0
        /\ \A k \in DOMAIN effects : effects[k].op = "send" /\ effects[k].rec.type \in {"PUBACK", "PUBCOMP"}
             => queued[effects[k].rec.id] > 0
        /\ \A k \in DOMAIN toBroker : toBroker[k].type \in {"PUBACK", "PUBCOMP"} => queued[toBroker[k].id] > 0
        /\ \A k \in DOMAIN effects : effects[k].op = "send" /\ effects[k].rec.type = "PUBREC"
             => effects[k].rec.id \in IdsOf(inboundMsgs)
        /\ \A k \in DOMAIN toBroker : toBroker[k].type = "PUBREC" => toBroker[k].id \in IdsOf(inboundMsgs)
    BY <2>0 DEF ReceivedInv
  <2> QED
    BY <1>a, <2>1, <2>3, <2>4, <2>5, <2>6 DEF ReceivedInv, IdsOf, Clean
<1>9. ((Version = 4 /\ persistent /\ ~Clean) => AgreeInv)'
  BY <1>0, <1>a, SameStore DEF AgreeInv, ReleasedIds, Seqnos, IdsOf, Clean
<1> QED
  BY <1>1, <1>2, <1>3, <1>4, <1>5, <1>6, <1>7, <1>8, <1>9 DEF CoreInv

\* What the broker sends when it has taken p: nothing, or one packet that is of
\* no exchange, or of the exchange of p.
Answered(p) ==
  /\ toClient' \in Seq(Packets)
  /\ \A k \in DOMAIN toClient' :
       \/ k \in DOMAIN toClient /\ toClient'[k] = toClient[k]
       \/ /\ k = Len(toClient) + 1
          /\ Forth(toClient'[k]) => Opposite(p, toClient'[k]) /\ Matched(toClient'[k], brokerOut')
          /\ Back(toClient'[k]) => Opposite(p, toClient'[k]) /\ Matched(toClient'[k], outboundMsgs)
          /\ toClient'[k].type # "PUBLISH"

\* The broker has taken a packet p and answers it: all tokens are still matched,
\* and no exchange has two.
LEMMA BrokerTokens ==
  ASSUME SessionTypeOK, TokensMatched, OneToken, toBroker # <<>>, toBroker' = Tail(toBroker),
         effects' = effects, outboundMsgs' = outboundMsgs, Answered(Head(toBroker)),
         \A i \in DOMAIN brokerOut : ~(Back(Head(toBroker)) /\ brokerOut[i].msgid = Head(toBroker).id) =>
           \E j \in DOMAIN brokerOut' : brokerOut'[j] = brokerOut[i]
  PROVE  TokensMatched' /\ OneToken'
<1> DEFINE p == Head(toBroker)
<1>t. /\ p = toBroker[1] /\ 1 \in DOMAIN toBroker /\ DOMAIN toBroker' \subseteq Int
      /\ \A k \in DOMAIN toBroker' : k + 1 \in DOMAIN toBroker /\ k + 1 # 1 /\ toBroker'[k] = toBroker[k + 1]
  <2>1. toBroker \in Seq(Packets)
    BY DEF SessionTypeOK
  <2> QED
    BY <2>1, TailAt
<1> HIDE DEF p
<1>a. \A k \in DOMAIN toClient' :
       \/ k \in DOMAIN toClient /\ toClient'[k] = toClient[k]
       \/ /\ k = Len(toClient) + 1
          /\ Forth(toClient'[k]) => Opposite(p, toClient'[k]) /\ Matched(toClient'[k], brokerOut')
          /\ Back(toClient'[k]) => Opposite(p, toClient'[k]) /\ Matched(toClient'[k], outboundMsgs)
  BY DEF p, Answered
<1>x. \A r : ~(Forth(r) /\ Back(r))
  BY DEF Forth, Back, Acks
<1>1. \A k \in DOMAIN toBroker' : ~SameWay(toBroker'[k], p) /\ ~SameWay(p, toBroker'[k])
  BY <1>t DEF OneToken
<1>2. \A k \in DOMAIN toClient : ~Opposite(p, toClient[k])
  BY <1>t DEF OneToken
<1>3. \A k \in DOMAIN effects : effects[k].op = "send" => ~SameWay(effects[k].rec, p)
  BY <1>t DEF OneToken
<1>4. \A r : ~(Back(p) /\ r.id = p.id) /\ Matched(r, brokerOut) => Matched(r, brokerOut')
  <2> SUFFICES ASSUME NEW r, ~(Back(p) /\ r.id = p.id), Matched(r, brokerOut) PROVE Matched(r, brokerOut')
    OBVIOUS
  <2>1. PICK i \in DOMAIN brokerOut : Agrees(r, brokerOut[i])
    BY DEF Matched
  <2>2. ~(Back(p) /\ brokerOut[i].msgid = p.id)
    BY <2>1 DEF Agrees
  <2>3. PICK j \in DOMAIN brokerOut' : brokerOut'[j] = brokerOut[i]
    BY <2>2 DEF p
  <2> QED
    BY <2>1, <2>3 DEF Matched
<1>5. TokensMatched'
  <2>1. \A k \in DOMAIN effects : effects[k].op = "send" =>
          /\ Forth(effects[k].rec) => Matched(effects[k].rec, outboundMsgs)
          /\ Back(effects[k].rec) => Matched(effects[k].rec, brokerOut')
    BY <1>3, <1>4 DEF TokensMatched, SameWay
  <2>2. \A k \in DOMAIN toBroker' : /\ Forth(toBroker'[k]) => Matched(toBroker'[k], outboundMsgs)
                                    /\ Back(toBroker'[k]) => Matched(toBroker'[k], brokerOut')
    BY <1>1, <1>4, <1>t DEF TokensMatched, SameWay
  <2>3. \A k \in DOMAIN toClient' : /\ Forth(toClient'[k]) => Matched(toClient'[k], brokerOut')
                                    /\ Back(toClient'[k]) => Matched(toClient'[k], outboundMsgs)
    BY <1>a, <1>2, <1>4 DEF TokensMatched, Opposite
  <2> QED
    BY <2>1, <2>2, <2>3 DEF TokensMatched
<1>6. OneToken'
  <2>1. \A j, k \in DOMAIN toClient' : SameWay(toClient'[j], toClient'[k]) => j = k
    <3> SUFFICES ASSUME NEW j \in DOMAIN toClient', NEW k \in DOMAIN toClient', SameWay(toClient'[j], toClient'[k])
                 PROVE  j = k
      OBVIOUS
    <3>1. CASE j \in DOMAIN toClient /\ k \in DOMAIN toClient /\ toClient'[j] = toClient[j] /\ toClient'[k] = toClient[k]
      BY <3>1 DEF OneToken
    <3>2. CASE k \in DOMAIN toClient /\ toClient'[k] = toClient[k] /\ j = Len(toClient) + 1 /\ Opposite(p, toClient'[j])
      BY <1>2, <1>x, <3>2 DEF SameWay, Opposite
    <3>3. CASE j \in DOMAIN toClient /\ toClient'[j] = toClient[j] /\ k = Len(toClient) + 1 /\ Opposite(p, toClient'[k])
      BY <1>2, <1>x, <3>3 DEF SameWay, Opposite
    <3> QED
      BY <1>a, <3>1, <3>2, <3>3 DEF SameWay
  <2>2. \A j, k \in DOMAIN toBroker' : SameWay(toBroker'[j], toBroker'[k]) => j = k
    <3> SUFFICES ASSUME NEW j \in DOMAIN toBroker', NEW k \in DOMAIN toBroker', SameWay(toBroker'[j], toBroker'[k])
                 PROVE  j = k
      OBVIOUS
    <3>1. j + 1 = k + 1
      BY <1>t DEF OneToken
    <3> QED
      BY <1>t, <3>1
  <2>3. \A j \in DOMAIN effects, k \in DOMAIN toBroker' :
          effects[j].op = "send" => ~SameWay(effects[j].rec, toBroker'[k])
    BY <1>t DEF OneToken
  <2>4. \A j \in DOMAIN effects, k \in DOMAIN toClient' :
          effects[j].op = "send" => ~Opposite(effects[j].rec, toClient'[k])
    <3>1. \A j \in DOMAIN effects, k \in DOMAIN toClient :
            effects[j].op = "send" => ~Opposite(effects[j].rec, toClient[k])
      BY DEF OneToken
    <3> QED
      BY <1>a, <1>3, <1>x, <3>1 DEF SameWay, Opposite
  <2>5. \A j \in DOMAIN toBroker', k \in DOMAIN toClient' : ~Opposite(toBroker'[j], toClient'[k])
    <3>1. \A j \in DOMAIN toBroker', k \in DOMAIN toClient : ~Opposite(toBroker'[j], toClient[k])
      BY <1>t DEF OneToken
    <3> QED
      BY <1>a, <1>1, <1>x, <3>1 DEF SameWay, Opposite
  <2> QED
    BY <2>1, <2>2, <2>3, <2>4, <2>5 DEF OneToken
<1> QED
  BY <1>5, <1>6

\* What the broker does with a packet does not touch the client.
LEMMA BrokerStep ==
  ASSUME CoreInv, BrokerReceives, Answered(Head(toBroker)),
         \A i \in DOMAIN brokerOut : ~(Back(Head(toBroker)) /\ brokerOut[i].msgid = Head(toBroker).id) =>
           \E j \in DOMAIN brokerOut' : brokerOut'[j] = brokerOut[i],
         brokerOut' \in Seq(Entries), IdsDiffer(brokerOut'),
         \A i \in DOMAIN brokerOut' : /\ Proper(brokerOut'[i])
                                      /\ brokerOut'[i].msg <= inSent /\ brokerOut'[i].msgid = brokerOut'[i].msg,
         brokerHeld' \subseteq Nat, delivered' \in [Messages -> Nat], completed' \subseteq Nat,
         Version = 4 => HeldInv' /\ NeverTwice', crashes = 0 => ReceivedInv'
  PROVE  CoreInv'
<1>0. /\ SessionTypeOK /\ LinkInv /\ TokensMatched /\ OneToken /\ ListsInv /\ KeysInv /\ RecordsInv /\ CallsInv
      /\ ~persistent => pstore = {}
      /\ Version = 4 => (persistent => ReleaseInv) /\ HeldInv /\ NeverTwice
      /\ crashes = 0 => ReceivedInv
      /\ (Version = 4 /\ persistent /\ ~Clean) => AgreeInv
  BY DEF CoreInv
<1>a. /\ link /\ toBroker \in Seq(Packets) /\ toBroker # <<>> /\ toBroker' = Tail(toBroker)
      /\ alive' = alive /\ connected' = connected /\ msgID' = msgID /\ qentry_seqno' = qentry_seqno
      /\ outboundMsgs' = outboundMsgs /\ inboundMsgs' = inboundMsgs /\ messageQueue' = messageQueue /\ effects' = effects
      /\ pstore' = pstore /\ link' = link /\ published' = published /\ qosOf' = qosOf
      /\ inSent' = inSent /\ queued' = queued /\ crashes' = crashes
  BY <1>0, BrokerReceivesDoes DEF SessionTypeOK
<1>t. /\ toBroker' \in Seq(Packets)
      /\ \A k \in DOMAIN toBroker' : k + 1 \in DOMAIN toBroker /\ toBroker'[k] = toBroker[k + 1]
  BY <1>a, TailAt
<1>1. SessionTypeOK'
  BY <1>0, <1>a, <1>t DEF SessionTypeOK, Answered
<1>2. LinkInv'
  BY <1>0, <1>a, <1>t DEF LinkInv
<1>3. TokensMatched' /\ OneToken'
  BY <1>0, <1>a, BrokerTokens
<1>4. ListsInv'
  BY <1>0, <1>a DEF ListsInv, MsgIdsDistinct, IdsDiffer, PublicationOrder
<1>5. KeysInv'
  BY <1>0, <1>a DEF KeysInv, IdsDiffer
<1>6. RecordsInv' /\ CallsInv' /\ (~persistent => pstore = {})'
  BY <1>0, <1>a DEF RecordsInv, CallsInv, Records, IdsOf
<1>7. (Version = 4 => (persistent => ReleaseInv) /\ HeldInv /\ NeverTwice)'
  <2>1. Version = 4 /\ persistent => ReleaseInv'
    BY <1>0, <1>a, <1>t DEF ReleaseInv, HasRecord, Records
  <2> QED
    BY <2>1
<1>8. (crashes = 0 => ReceivedInv)'
  BY <1>a
<1>9. ((Version = 4 /\ persistent /\ ~Clean) => AgreeInv)'
  BY <1>0, <1>a, SameStore DEF AgreeInv, ReleasedIds, Seqnos, IdsOf, Clean
<1> QED
  BY <1>1, <1>2, <1>3, <1>4, <1>5, <1>6, <1>7, <1>8, <1>9 DEF CoreInv

\* The answer of the broker is at the end of what is under way to the client.
LEMMA AnsweredBy ==
  ASSUME NEW p, NEW x \in Packets, toClient \in Seq(Packets), toClient' = Append(toClient, x), x.type # "PUBLISH",
         Forth(x) => Opposite(p, x) /\ Matched(x, brokerOut'),
         Back(x) => Opposite(p, x) /\ Matched(x, outboundMsgs)
  PROVE  Answered(p)
<1>1. /\ toClient' \in Seq(Packets)
      /\ \A k \in DOMAIN toClient' : \/ k \in DOMAIN toClient /\ toClient'[k] = toClient[k]
                                     \/ k = Len(toClient) + 1 /\ toClient'[k] = x
  BY AppendAt
<1> QED
  BY <1>1 DEF Answered

\* The first packet that is under way to the broker.
LEMMA FirstPacket ==
  ASSUME CoreInv, BrokerReceives
  PROVE  LET p == Head(toBroker)
         IN /\ p = toBroker[1] /\ 1 \in DOMAIN toBroker /\ p \in Packets /\ p.type # "PINGRESP" /\ p.id \in Nat
            /\ p.type \in {"PUBLISH", "PUBREL", "PUBACK", "PUBREC", "PUBCOMP", "PINGREQ"}
            /\ p.type = "PUBLISH" => p.qos \in 0..2 /\ p.msg \in Messages
            /\ Forth(p) => Matched(p, outboundMsgs)
            /\ Back(p) => Matched(p, brokerOut)
            /\ \A k \in DOMAIN toBroker' : k + 1 \in DOMAIN toBroker /\ toBroker'[k] = toBroker[k + 1]
            /\ toClient \in Seq(Packets) /\ connected
<1> DEFINE p == Head(toBroker)
<1>1. SessionTypeOK /\ LinkInv /\ TokensMatched
  BY DEF CoreInv
<1>2. toBroker \in Seq(Packets) /\ toBroker # <<>> /\ toBroker' = Tail(toBroker) /\ link
  BY <1>1, BrokerReceivesDoes DEF SessionTypeOK
<1>3. /\ p = toBroker[1] /\ 1 \in DOMAIN toBroker /\ p \in Packets
      /\ \A k \in DOMAIN toBroker' : k + 1 \in DOMAIN toBroker /\ toBroker'[k] = toBroker[k + 1]
  BY <1>2, TailAt
<1> HIDE DEF p
<1>4. p.type # "PINGRESP"
  BY <1>1, <1>3 DEF LinkInv
<1>5. /\ p.type \in {"PUBLISH", "PUBREL", "PUBACK", "PUBREC", "PUBCOMP", "PINGREQ"} /\ p.id \in Nat
      /\ p.type = "PUBLISH" => p.qos \in 0..2 /\ p.msg \in Messages
  BY <1>3, <1>4 DEF Packets, Acks
<1>6. (Forth(p) => Matched(p, outboundMsgs)) /\ (Back(p) => Matched(p, brokerOut))
  BY <1>1, <1>3 DEF TokensMatched
<1> QED
  BY <1>1, <1>2, <1>3, <1>4, <1>5, <1>6 DEF p, SessionTypeOK, LinkInv

\* A packet of an exchange of the client, or a ping: the broker's own exchanges stay.
LEMMA BrokerKeepsStep ==
  ASSUME CoreInv, BrokerReceives, Answered(Head(toBroker)), brokerOut' = brokerOut, completed' = completed,
         brokerHeld' \subseteq Nat, delivered' \in [Messages -> Nat],
         Version = 4 => HeldInv' /\ NeverTwice'
  PROVE  CoreInv'
<1>0. /\ SessionTypeOK /\ LinkInv /\ TokensMatched /\ OneToken /\ ListsInv /\ KeysInv /\ RecordsInv /\ CallsInv
      /\ ~persistent => pstore = {}
      /\ Version = 4 => (persistent => ReleaseInv) /\ HeldInv /\ NeverTwice
      /\ crashes = 0 => ReceivedInv
      /\ (Version = 4 /\ persistent /\ ~Clean) => AgreeInv
  BY DEF CoreInv
<1>a. /\ connected' = connected /\ effects' = effects /\ inboundMsgs' = inboundMsgs
      /\ inSent' = inSent /\ queued' = queued /\ crashes' = crashes
  BY BrokerReceivesDoes
<1>t. \A k \in DOMAIN toBroker' : k + 1 \in DOMAIN toBroker /\ toBroker'[k] = toBroker[k + 1]
  BY FirstPacket
<1>1. crashes = 0 => ReceivedInv'
  <2> SUFFICES ASSUME crashes = 0 PROVE ReceivedInv'
    OBVIOUS
  <2>0. ReceivedInv
    BY <1>0
  <2>1. \A k \in DOMAIN toClient' : toClient'[k].type = "PUBLISH" /\ toClient'[k].qos = 0 =>
          toClient'[k].msg <= inSent /\ \A i \in DOMAIN brokerOut : brokerOut[i].msg # toClient'[k].msg
    BY <2>0 DEF ReceivedInv, Answered
  <2>2. \A k \in DOMAIN toBroker' : /\ toBroker'[k].type \in {"PUBACK", "PUBCOMP"} => queued[toBroker'[k].id] > 0
                                    /\ toBroker'[k].type = "PUBREC" => toBroker'[k].id \in IdsOf(inboundMsgs)
    BY <1>t, <2>0 DEF ReceivedInv
  <2> QED
    BY <1>a, <2>0, <2>1, <2>2 DEF ReceivedInv, IdsOf, Clean
<1>2. /\ brokerOut' \in Seq(Entries) /\ IdsDiffer(brokerOut') /\ completed' \subseteq Nat
      /\ \A i \in DOMAIN brokerOut' : /\ Proper(brokerOut'[i])
                                      /\ brokerOut'[i].msg <= inSent /\ brokerOut'[i].msgid = brokerOut'[i].msg
  BY <1>0 DEF SessionTypeOK, ListsInv
<1> QED
  BY <1>1, <1>2, BrokerStep

\* A QoS 0 message, and a ping.
LEMMA BrokerPassesStep ==
  ASSUME CoreInv, BrokerReceives,
         \/ Head(toBroker).type = "PUBLISH" /\ Head(toBroker).qos = 0
         \/ Head(toBroker).type = "PINGREQ"
  PROVE  CoreInv'
<1>0. /\ SessionTypeOK /\ LinkInv /\ TokensMatched /\ OneToken /\ ListsInv /\ KeysInv /\ RecordsInv /\ CallsInv
      /\ ~persistent => pstore = {}
      /\ Version = 4 => (persistent => ReleaseInv) /\ HeldInv /\ NeverTwice
      /\ crashes = 0 => ReceivedInv
      /\ (Version = 4 /\ persistent /\ ~Clean) => AgreeInv
  BY DEF CoreInv
<1> DEFINE p == Head(toBroker)
           x == Packet("PINGRESP", 0, 0, 0)
<1>1. /\ brokerOut' = brokerOut /\ brokerHeld' = brokerHeld /\ delivered' = delivered /\ completed' = completed
      /\ toClient' = toClient \/ toClient' = Append(toClient, x)
  <2>1. CASE p.type = "PUBLISH" /\ p.qos = 0
    <3>1. UNCHANGED <<toClient, brokerVars, delivered, completed>>
      BY <2>1 DEF BrokerReceives
    <3> QED
      BY <3>1 DEF brokerVars
  <2>2. CASE p.type = "PINGREQ"
    BY <2>2 DEF BrokerReceives, BrokerSends, brokerVars
  <2> QED
    BY <2>1, <2>2
<1>2. x \in Packets /\ x.type = "PINGRESP" /\ ~Forth(x) /\ ~Back(x)
  BY DEF Packet, Packets, Forth, Back, Acks
<1> HIDE DEF x
<1>3. toClient \in Seq(Packets)
  BY <1>0 DEF SessionTypeOK
<1>4. Answered(p)
  <2>1. CASE toClient' = toClient
    BY <1>3, <2>1 DEF Answered
  <2>2. CASE toClient' = Append(toClient, x)
    BY <1>2, <1>3, <2>2, AnsweredBy
  <2> QED
    BY <1>1, <2>1, <2>2
<1>5. Version = 4 => HeldInv' /\ NeverTwice'
  BY <1>0, <1>1, BrokerReceivesDoes DEF HeldInv, NeverTwice, HasRecord, Records, Clean
<1> QED
  BY <1>0, <1>1, <1>4, <1>5, BrokerKeepsStep DEF SessionTypeOK

\* A message of QoS 1 or 2: the entry of the client's list it was sent for.
LEMMA PublishedEntry ==
  ASSUME CoreInv, BrokerReceives, Head(toBroker).type = "PUBLISH", Head(toBroker).qos > 0
  PROVE  LET p == Head(toBroker)
         IN /\ p.msg <= published /\ qosOf[p.msg] = p.qos
            /\ \E i \in DOMAIN outboundMsgs :
                 /\ outboundMsgs[i].msgid = p.id /\ outboundMsgs[i].msg = p.msg /\ outboundMsgs[i].qos = p.qos
                 /\ outboundMsgs[i].next = IF p.qos = 2 THEN "PUBREC" ELSE "PUBACK"
<1> DEFINE p == Head(toBroker)
<1>1. Forth(p) /\ Matched(p, outboundMsgs) /\ p.qos \in 0..2
  BY FirstPacket DEF Forth
<1>2. PICK i \in DOMAIN outboundMsgs : Agrees(p, outboundMsgs[i])
  BY <1>1 DEF Matched
<1>3. SessionTypeOK /\ ListsInv
  BY DEF CoreInv
<1>4. outboundMsgs[i] \in Entries
  BY <1>3, ElementOfSeq DEF SessionTypeOK
<1>5. /\ outboundMsgs[i].msgid = p.id /\ outboundMsgs[i].msg = p.msg /\ outboundMsgs[i].qos = p.qos
      /\ outboundMsgs[i].next # "PUBCOMP"
  BY <1>2 DEF Agrees
<1>6. Proper(outboundMsgs[i]) /\ outboundMsgs[i].msg <= published /\ outboundMsgs[i].qos = qosOf[outboundMsgs[i].msg]
  BY <1>3 DEF ListsInv
<1>7. outboundMsgs[i].next = IF p.qos = 2 THEN "PUBREC" ELSE "PUBACK"
  BY <1>1, <1>4, <1>5, <1>6 DEF Entries, Acks, Proper
<1> QED
  BY <1>5, <1>6, <1>7

\* A QoS 1 message is passed on and acknowledged; the QoS 2 ones are others.
LEMMA BrokerPassesOneStep ==
  ASSUME CoreInv, BrokerReceives, Head(toBroker).type = "PUBLISH", Head(toBroker).qos = 1
  PROVE  CoreInv'
<1>0. /\ SessionTypeOK /\ LinkInv /\ TokensMatched /\ OneToken /\ ListsInv /\ KeysInv /\ RecordsInv /\ CallsInv
      /\ ~persistent => pstore = {}
      /\ Version = 4 => (persistent => ReleaseInv) /\ HeldInv /\ NeverTwice
      /\ crashes = 0 => ReceivedInv
      /\ (Version = 4 /\ persistent /\ ~Clean) => AgreeInv
  BY DEF CoreInv
<1> DEFINE p == Head(toBroker)
           x == Packet("PUBACK", p.id, 0, 0)
<1>1. /\ delivered' = [delivered EXCEPT ![p.msg] = @ + 1] /\ toClient' = Append(toClient, x)
      /\ brokerOut' = brokerOut /\ brokerHeld' = brokerHeld /\ completed' = completed
  BY DEF BrokerReceives, BrokerSends, brokerVars
<1>2. p.id \in Nat /\ p.msg \in Messages /\ toClient \in Seq(Packets)
  BY FirstPacket
<1>3. x \in Packets /\ x.type = "PUBACK" /\ x.id = p.id /\ ~Forth(x) /\ Back(x) /\ Forth(p)
  BY <1>2 DEF Packet, Packets, Forth, Back, Acks
<1> HIDE DEF x
<1>4. PICK i \in DOMAIN outboundMsgs : outboundMsgs[i].msgid = p.id /\ outboundMsgs[i].next = "PUBACK"
  BY PublishedEntry
<1>m. p.msg <= published /\ qosOf[p.msg] = 1 /\ published \in Nat
  BY <1>0, PublishedEntry DEF SessionTypeOK
<1>5. Answered(p)
  <2>1. Opposite(p, x)
    BY <1>3 DEF Opposite
  <2>2. Matched(x, outboundMsgs)
    BY <1>3, <1>4 DEF Matched, Agrees
  <2> QED
    BY <1>1, <1>2, <1>3, <2>1, <2>2, AnsweredBy
<1> HIDE DEF p
<1>d. delivered \in [Messages -> Nat] /\ outboundMsgs \in Seq(Entries) /\ pstore \subseteq StoreRecords
  BY <1>0 DEF SessionTypeOK
<1>6. /\ delivered' \in [Messages -> Nat]
      /\ \A m \in Messages : m # p.msg => delivered'[m] = delivered[m]
  BY <1>1, <1>2, <1>d
<1>7. Version = 4 => HeldInv' /\ NeverTwice'
  <2> SUFFICES ASSUME Version = 4 PROVE HeldInv' /\ NeverTwice'
    OBVIOUS
  <2>0. HeldInv /\ NeverTwice
    BY <1>0
  <2>a. /\ connected' = connected /\ outboundMsgs' = outboundMsgs /\ pstore' = pstore /\ published' = published
        /\ qosOf' = qosOf
    BY BrokerReceivesDoes
  <2>1. \A j \in DOMAIN outboundMsgs : outboundMsgs[j].qos = 2 => delivered'[outboundMsgs[j].msg] = delivered[outboundMsgs[j].msg]
    <3>1. \A j \in DOMAIN outboundMsgs : outboundMsgs[j] \in Entries
      BY <1>d, ElementOfSeq
    <3>2. \A j \in DOMAIN outboundMsgs : outboundMsgs[j].msg \in Messages /\ outboundMsgs[j].qos = qosOf[outboundMsgs[j].msg]
      BY <1>0, <3>1 DEF Entries, ListsInv
    <3> QED
      BY <1>6, <1>m, <3>2
  <2>2. \A e \in Records("s") : e.qos = 2 => delivered'[e.msg] = delivered[e.msg]
    <3>1. \A e \in Records("s") : e.msg \in Messages /\ e.qos = qosOf[e.msg]
      BY <1>0, <1>d DEF RecordsInv, Records, StoreRecords
    <3> QED
      BY <1>6, <1>m, <3>1
  <2>3. \A m \in Messages : m > published => delivered'[m] = delivered[m]
    BY <1>2, <1>6, <1>m DEF Messages
  <2>4. \A m \in Messages : qosOf[m] = 2 => delivered'[m] = delivered[m]
    BY <1>6, <1>m
  <2>5. HeldInv'
    BY <1>1, <2>0, <2>a, <2>1, <2>2, <2>3 DEF HeldInv, HasRecord, Records, Clean
  <2>6. NeverTwice'
    BY <2>0, <2>a, <2>4 DEF NeverTwice, Messages
  <2> QED
    BY <2>5, <2>6
<1> QED
  BY <1>0, <1>1, <1>5, <1>6, <1>7, BrokerKeepsStep DEF SessionTypeOK, p

\* A QoS 2 message is passed on if the broker does not hold its id, which it does
\* not only if it has not passed this message on before.
LEMMA BrokerHoldsStep ==
  ASSUME CoreInv, BrokerReceives, Head(toBroker).type = "PUBLISH", Head(toBroker).qos = 2
  PROVE  CoreInv'
<1>0. /\ SessionTypeOK /\ LinkInv /\ TokensMatched /\ OneToken /\ ListsInv /\ KeysInv /\ RecordsInv /\ CallsInv
      /\ ~persistent => pstore = {}
      /\ Version = 4 => (persistent => ReleaseInv) /\ HeldInv /\ NeverTwice
      /\ crashes = 0 => ReceivedInv
      /\ (Version = 4 /\ persistent /\ ~Clean) => AgreeInv
  BY DEF CoreInv
<1> DEFINE p == Head(toBroker)
<1>1. PICK reason \in (IF Version = 5 /\ p.id \notin brokerHeld THEN {0, Refused} ELSE {0}) :
        /\ IF p.id \in brokerHeld \/ reason # 0 THEN delivered' = delivered
           ELSE delivered' = [delivered EXCEPT ![p.msg] = @ + 1]
        /\ brokerHeld' = brokerHeld \cup (IF reason = 0 THEN {p.id} ELSE {})
        /\ toClient' = Append(toClient, Packet("PUBREC", p.id, reason, 0))
  BY DEF BrokerReceives, BrokerSends
<1>k. brokerOut' = brokerOut /\ completed' = completed
  BY DEF BrokerReceives
<1> DEFINE x == Packet("PUBREC", p.id, reason, 0)
<1>2. p.id \in Nat /\ p.msg \in Messages /\ toClient \in Seq(Packets) /\ connected
  BY FirstPacket
<1>r. reason \in Nat /\ (Version = 4 => reason = 0)
  BY <1>1 DEF Refused
<1>3. x \in Packets /\ x.type = "PUBREC" /\ x.id = p.id /\ ~Forth(x) /\ Back(x) /\ Forth(p)
  BY <1>2, <1>r DEF Packet, Packets, Forth, Back, Acks
<1>x. toClient' = Append(toClient, x)
  BY <1>1
<1> HIDE DEF x
<1>4. PICK i \in DOMAIN outboundMsgs : /\ outboundMsgs[i].msgid = p.id /\ outboundMsgs[i].next = "PUBREC"
                                       /\ outboundMsgs[i].msg = p.msg /\ outboundMsgs[i].qos = 2
  BY PublishedEntry
<1>m. p.msg <= published /\ published \in Nat
  BY <1>0, PublishedEntry DEF SessionTypeOK
<1>5. Answered(p)
  <2>1. Opposite(p, x)
    BY <1>3 DEF Opposite
  <2>2. Matched(x, outboundMsgs)
    BY <1>3, <1>4 DEF Matched, Agrees
  <2> QED
    BY <1>x, <1>2, <1>3, <2>1, <2>2, AnsweredBy
<1> HIDE DEF p
<1>d. delivered \in [Messages -> Nat] /\ outboundMsgs \in Seq(Entries) /\ pstore \subseteq StoreRecords /\ brokerHeld \subseteq Nat
  BY <1>0 DEF SessionTypeOK
<1>6. /\ delivered' \in [Messages -> Nat]
      /\ \A m \in Messages : m # p.msg => delivered'[m] = delivered[m]
      /\ brokerHeld' \subseteq Nat
  <2>1. brokerHeld' \subseteq Nat
    BY <1>1, <1>2, <1>d
  <2>2. delivered' = delivered \/ delivered' = [delivered EXCEPT ![p.msg] = @ + 1]
    BY <1>1
  <2> QED
    BY <1>2, <1>d, <2>1, <2>2
<1>7. Version = 4 => HeldInv' /\ NeverTwice'
  <2> SUFFICES ASSUME Version = 4 PROVE HeldInv' /\ NeverTwice'
    OBVIOUS
  <2>0. HeldInv /\ NeverTwice
    BY <1>0
  <2>a. /\ connected' = connected /\ outboundMsgs' = outboundMsgs /\ pstore' = pstore /\ published' = published
        /\ qosOf' = qosOf
    BY BrokerReceivesDoes
  <2>h. p.id \in brokerHeld' /\ brokerHeld \subseteq brokerHeld'
    BY <1>1, <1>r
  <2>o. p.id \notin brokerHeld => delivered[p.msg] = 0
    <3>1. p.id \notin brokerHeld => ~(delivered[p.msg] > 0)
      BY <1>2, <1>4, <2>0 DEF HeldInv
    <3> QED
      BY <1>2, <1>d, <3>1
  <2>p. delivered'[p.msg] <= 1 \/ delivered'[p.msg] = delivered[p.msg]
    BY <1>1, <1>2, <1>d, <1>r, <2>o
  <2>1. (connected \/ ~Clean) => \A j \in DOMAIN outboundMsgs :
          outboundMsgs[j].qos = 2 /\ outboundMsgs[j].next # "PUBCOMP" /\ delivered'[outboundMsgs[j].msg] > 0
            => outboundMsgs[j].msgid \in brokerHeld'
    <3>1. \A j \in DOMAIN outboundMsgs : outboundMsgs[j] \in Entries
      BY <1>d, ElementOfSeq
    <3>2. \A j \in DOMAIN outboundMsgs : outboundMsgs[j].msg \in Messages
      BY <3>1 DEF Entries
    <3>3. \A j \in DOMAIN outboundMsgs : outboundMsgs[j].msg = p.msg => outboundMsgs[j].msgid = p.id
      BY <1>0, <1>4 DEF ListsInv
    <3> QED
      BY <1>6, <2>0, <2>h, <3>2, <3>3 DEF HeldInv
  <2>2. ~Clean => \A e \in Records("s") :
          e.qos = 2 /\ ~HasRecord("sc", e.id) /\ delivered'[e.msg] > 0 => e.id \in brokerHeld'
    <3>1. \A e \in Records("s") : e.msg \in Messages
      BY <1>0, <1>d DEF RecordsInv, Records, StoreRecords
    <3>2. \A e \in Records("s") : e.msg = p.msg => e.id = p.id
      BY <1>0, <1>4 DEF RecordsInv
    <3> QED
      BY <1>6, <2>0, <2>h, <3>1, <3>2 DEF HeldInv
  <2>3. \A m \in Messages : m > published => delivered'[m] = 0
    BY <1>2, <1>6, <1>m, <2>0 DEF HeldInv, Messages
  <2>5. HeldInv'
    BY <2>a, <2>1, <2>2, <2>3 DEF HeldInv, HasRecord, Records, Clean
  <2>6. NeverTwice'
    <3>1. \A m \in Messages : qosOf[m] = 2 => delivered[m] <= 1
      BY <2>0 DEF NeverTwice, Messages
    <3>2. \A m \in Messages : qosOf[m] = 2 => delivered'[m] <= 1
      BY <1>2, <1>6, <2>p, <3>1
    <3> QED
      BY <2>a, <3>2 DEF NeverTwice, Messages
  <2> QED
    BY <2>5, <2>6
<1> QED
  BY <1>k, <1>5, <1>6, <1>7, BrokerKeepsStep DEF p

\* A PUBREL: what the broker no longer holds will not be published again, since
\* the store has the record of the PUBREL.
LEMMA BrokerReleasesStep ==
  ASSUME CoreInv, BrokerReceives, Head(toBroker).type = "PUBREL"
  PROVE  CoreInv'
<1>0. /\ SessionTypeOK /\ LinkInv /\ TokensMatched /\ OneToken /\ ListsInv /\ KeysInv /\ RecordsInv /\ CallsInv
      /\ ~persistent => pstore = {}
      /\ Version = 4 => (persistent => ReleaseInv) /\ HeldInv /\ NeverTwice
      /\ crashes = 0 => ReceivedInv
      /\ (Version = 4 /\ persistent /\ ~Clean) => AgreeInv
  BY DEF CoreInv
<1> DEFINE p == Head(toBroker)
           x == Packet("PUBCOMP", p.id, 0, 0)
<1>1. /\ brokerHeld' = brokerHeld \ {p.id} /\ toClient' = Append(toClient, x)
      /\ brokerOut' = brokerOut /\ delivered' = delivered /\ completed' = completed
  BY DEF BrokerReceives, BrokerSends
<1>2. p.id \in Nat /\ toClient \in Seq(Packets) /\ connected /\ p = toBroker[1] /\ 1 \in DOMAIN toBroker
  BY FirstPacket
<1>3. x \in Packets /\ x.type = "PUBCOMP" /\ x.id = p.id /\ ~Forth(x) /\ Back(x) /\ Forth(p)
  BY <1>2 DEF Packet, Packets, Forth, Back, Acks
<1> HIDE DEF x
<1>4. PICK i \in DOMAIN outboundMsgs : outboundMsgs[i].msgid = p.id /\ outboundMsgs[i].next = "PUBCOMP"
  <2>1. Matched(p, outboundMsgs)
    BY <1>3, FirstPacket
  <2> QED
    BY <2>1 DEF Matched, Agrees
<1>5. Answered(p)
  <2>1. Opposite(p, x)
    BY <1>3 DEF Opposite
  <2>2. Matched(x, outboundMsgs)
    BY <1>3, <1>4 DEF Matched, Agrees
  <2> QED
    BY <1>1, <1>2, <1>3, <2>1, <2>2, AnsweredBy
<1>t. p.type = "PUBREL"
  OBVIOUS
<1> HIDE DEF p
<1>7. Version = 4 => HeldInv' /\ NeverTwice'
  <2> SUFFICES ASSUME Version = 4 PROVE HeldInv' /\ NeverTwice'
    OBVIOUS
  <2>0. HeldInv /\ NeverTwice
    BY <1>0
  <2>a. /\ connected' = connected /\ outboundMsgs' = outboundMsgs /\ pstore' = pstore /\ published' = published
        /\ qosOf' = qosOf
    BY BrokerReceivesDoes
  <2>1. \A j \in DOMAIN outboundMsgs : outboundMsgs[j].next # "PUBCOMP" => outboundMsgs[j].msgid # p.id
    BY <1>0, <1>4 DEF ListsInv, MsgIdsDistinct
  <2>2. \A e \in Records("s") : ~HasRecord("sc", e.id) => e.id # p.id
    <3>1. CASE persistent
      BY <1>0, <1>2, <1>t, <3>1 DEF ReleaseInv
    <3>2. CASE ~persistent
      BY <1>0, <3>2 DEF Records
    <3> QED
      BY <3>1, <3>2
  <2>3. (connected \/ ~Clean) => \A j \in DOMAIN outboundMsgs :
          outboundMsgs[j].qos = 2 /\ outboundMsgs[j].next # "PUBCOMP" /\ delivered[outboundMsgs[j].msg] > 0
            => outboundMsgs[j].msgid \in brokerHeld'
    BY <1>1, <2>0, <2>1 DEF HeldInv
  <2>4. ~Clean => \A e \in Records("s") :
          e.qos = 2 /\ ~HasRecord("sc", e.id) /\ delivered[e.msg] > 0 => e.id \in brokerHeld'
    BY <1>1, <2>0, <2>2 DEF HeldInv
  <2> QED
    BY <1>1, <2>0, <2>a, <2>3, <2>4 DEF HeldInv, HasRecord, Records, Clean, NeverTwice
<1> QED
  BY <1>0, <1>1, <1>5, <1>7, BrokerKeepsStep DEF SessionTypeOK, p

\* A PUBACK or PUBCOMP: the exchange of the broker is over, and the client has
\* queued its message.
LEMMA BrokerCompletesStep ==
  ASSUME CoreInv, BrokerReceives, Head(toBroker).type \in {"PUBACK", "PUBCOMP"}
  PROVE  CoreInv'
<1>0. /\ SessionTypeOK /\ LinkInv /\ TokensMatched /\ OneToken /\ ListsInv /\ KeysInv /\ RecordsInv /\ CallsInv
      /\ ~persistent => pstore = {}
      /\ Version = 4 => (persistent => ReleaseInv) /\ HeldInv /\ NeverTwice
      /\ crashes = 0 => ReceivedInv
      /\ (Version = 4 /\ persistent /\ ~Clean) => AgreeInv
  BY DEF CoreInv
<1> DEFINE p == Head(toBroker)
           own == {i \in DOMAIN brokerOut : brokerOut[i].msgid = p.id}
<1>1. /\ brokerOut' = Without(brokerOut, p.id) /\ completed' = completed \cup {brokerOut[i].msg : i \in own}
      /\ toClient' = toClient /\ brokerHeld' = brokerHeld /\ delivered' = delivered
  BY DEF BrokerReceives
<1>2. /\ p.id \in Nat /\ toClient \in Seq(Packets) /\ p = toBroker[1] /\ 1 \in DOMAIN toBroker
      /\ \A k \in DOMAIN toBroker' : k + 1 \in DOMAIN toBroker /\ toBroker'[k] = toBroker[k + 1]
  BY FirstPacket
<1>p. Back(p) /\ p.type \in {"PUBACK", "PUBCOMP"}
  BY DEF Back, Acks
<1>5. Answered(p)
  BY <1>1, <1>2 DEF Answered
<1> HIDE DEF p
<1>o. brokerOut \in Seq(Entries) /\ IdsDiffer(brokerOut)
  BY <1>0 DEF SessionTypeOK, ListsInv
<1>e. \A i \in DOMAIN brokerOut : /\ brokerOut[i].msg \in Messages /\ Proper(brokerOut[i])
                                  /\ brokerOut[i].msg <= inSent /\ brokerOut[i].msgid = brokerOut[i].msg
  <2>1. \A i \in DOMAIN brokerOut : brokerOut[i] \in Entries
    BY <1>o, ElementOfSeq
  <2> QED
    BY <1>0, <2>1 DEF Entries, ListsInv
<1>w. /\ brokerOut' \in Seq(Entries) /\ IdsDiffer(brokerOut')
      /\ \A j \in DOMAIN brokerOut' : \E i \in DOMAIN brokerOut : brokerOut'[j] = brokerOut[i] /\ brokerOut[i].msgid # p.id
      /\ \A i \in DOMAIN brokerOut : brokerOut[i].msgid # p.id => \E j \in DOMAIN brokerOut' : brokerOut'[j] = brokerOut[i]
  <2>1. brokerOut' = Without(brokerOut, p.id)
    BY <1>1
  <2> QED
    BY <1>o, <2>1, WithoutFacts
<1>6. /\ completed' \subseteq Nat
      /\ \A i \in DOMAIN brokerOut' : /\ Proper(brokerOut'[i])
                                      /\ brokerOut'[i].msg <= inSent /\ brokerOut'[i].msgid = brokerOut'[i].msg
  <2>1. completed \subseteq Nat /\ Messages \subseteq Nat
    BY <1>0 DEF SessionTypeOK, Messages
  <2>2. completed' \subseteq Nat
    BY <1>1, <1>e, <2>1
  <2> QED
    BY <1>e, <1>w, <2>2
<1>7. Version = 4 => HeldInv' /\ NeverTwice'
  BY <1>0, <1>1, BrokerReceivesDoes DEF HeldInv, NeverTwice, HasRecord, Records, Clean
<1>8. crashes = 0 => ReceivedInv'
  <2> SUFFICES ASSUME crashes = 0 PROVE ReceivedInv'
    OBVIOUS
  <2>0. ReceivedInv
    BY <1>0
  <2>a. /\ connected' = connected /\ effects' = effects /\ inboundMsgs' = inboundMsgs
        /\ inSent' = inSent /\ queued' = queued /\ crashes' = crashes
    BY BrokerReceivesDoes
  <2>1. \A m \in completed' : m \in Messages /\ queued[m] > 0
    <3>1. queued[p.id] > 0
      BY <1>2, <1>p, <2>0 DEF ReceivedInv
    <3>2. \A i \in own : brokerOut[i].msg = p.id /\ brokerOut[i].msg \in Messages
      BY <1>e
    <3>3. \A m \in completed : m \in Messages /\ queued[m] > 0
      BY <2>0 DEF ReceivedInv
    <3> QED
      BY <1>1, <3>1, <3>2, <3>3
  <2>2. /\ \A i \in DOMAIN brokerOut' : brokerOut'[i].qos = 2 => queued[brokerOut'[i].msg] <= 1
        /\ (connected \/ ~Clean) => \A i \in DOMAIN brokerOut' :
             /\ brokerOut'[i].next = "PUBREC" => (queued[brokerOut'[i].msg] = 0 <=> (Version = 4 \/ ~(brokerOut'[i].msgid \in IdsOf(inboundMsgs))))
             /\ brokerOut'[i].next = "PUBCOMP" => (queued[brokerOut'[i].msg] = 0 <=> (Version = 4 /\ brokerOut'[i].msgid \in IdsOf(inboundMsgs)))
    <3>1. /\ \A i \in DOMAIN brokerOut : brokerOut[i].qos = 2 => queued[brokerOut[i].msg] <= 1
          /\ (connected \/ ~Clean) => \A i \in DOMAIN brokerOut :
               /\ brokerOut[i].next = "PUBREC" => (queued[brokerOut[i].msg] = 0 <=> (Version = 4 \/ ~(brokerOut[i].msgid \in IdsOf(inboundMsgs))))
               /\ brokerOut[i].next = "PUBCOMP" => (queued[brokerOut[i].msg] = 0 <=> (Version = 4 /\ brokerOut[i].msgid \in IdsOf(inboundMsgs)))
      BY <2>0 DEF ReceivedInv
    <3>2. \A j \in DOMAIN brokerOut' : \E i \in DOMAIN brokerOut : brokerOut'[j] = brokerOut[i]
      BY <1>w
    <3> HIDE DEF own
    <3> QED
      BY <3>1, <3>2
  <2>3. \A k \in DOMAIN toClient : toClient[k].type = "PUBLISH" /\ toClient[k].qos = 0 =>
          toClient[k].msg <= inSent /\ \A i \in DOMAIN brokerOut' : brokerOut'[i].msg # toClient[k].msg
    BY <1>w, <2>0 DEF ReceivedInv
  <2>4. \A k \in DOMAIN toBroker' : /\ toBroker'[k].type \in {"PUBACK", "PUBCOMP"} => queued[toBroker'[k].id] > 0
                                    /\ toBroker'[k].type = "PUBREC" => toBroker'[k].id \in IdsOf(inboundMsgs)
    BY <1>2, <2>0 DEF ReceivedInv
  <2> QED
    BY <1>1, <2>0, <2>a, <2>1, <2>2, <2>3, <2>4 DEF ReceivedInv, IdsOf, Clean
<1>9. \A i \in DOMAIN brokerOut : ~(Back(p) /\ brokerOut[i].msgid = p.id) =>
           \E j \in DOMAIN brokerOut' : brokerOut'[j] = brokerOut[i]
  BY <1>p, <1>w
<1> HIDE DEF own
<1> QED
  BY <1>0, <1>1, <1>5, <1>6, <1>7, <1>8, <1>9, <1>w, BrokerStep DEF SessionTypeOK, p

\* A PUBREC: the client has the message, and the broker releases it.
LEMMA BrokerGoesOnStep ==
  ASSUME CoreInv, BrokerReceives, Head(toBroker).type = "PUBREC"
  PROVE  CoreInv'
<1>0. /\ SessionTypeOK /\ LinkInv /\ TokensMatched /\ OneToken /\ ListsInv /\ KeysInv /\ RecordsInv /\ CallsInv
      /\ ~persistent => pstore = {}
      /\ Version = 4 => (persistent => ReleaseInv) /\ HeldInv /\ NeverTwice
      /\ crashes = 0 => ReceivedInv
      /\ (Version = 4 /\ persistent /\ ~Clean) => AgreeInv
  BY DEF CoreInv
<1> DEFINE p == Head(toBroker)
           x == Packet("PUBREL", p.id, 1, 0)
<1>1. /\ brokerOut' = [i \in DOMAIN brokerOut |-> IF i \in {j \in DOMAIN brokerOut : brokerOut[j].msgid = p.id}
                         THEN [brokerOut[i] EXCEPT !.next = "PUBCOMP"] ELSE brokerOut[i]]
      /\ toClient' = Append(toClient, x)
      /\ completed' = completed /\ brokerHeld' = brokerHeld /\ delivered' = delivered
  BY DEF BrokerReceives, BrokerSends
<1>2. /\ p.id \in Nat /\ toClient \in Seq(Packets) /\ p = toBroker[1] /\ 1 \in DOMAIN toBroker /\ connected
      /\ \A k \in DOMAIN toBroker' : k + 1 \in DOMAIN toBroker /\ toBroker'[k] = toBroker[k + 1]
  BY FirstPacket
<1>p. Back(p) /\ ~Forth(p) /\ p.type = "PUBREC"
  BY DEF Back, Forth, Acks
<1>3. x \in Packets /\ x.type = "PUBREL" /\ x.id = p.id /\ Forth(x) /\ ~Back(x)
  BY <1>2 DEF Packet, Packets, Forth, Back, Acks
<1> HIDE DEF x
<1>4. PICK at \in DOMAIN brokerOut : brokerOut[at].msgid = p.id /\ brokerOut[at].next = "PUBREC"
  <2>1. Matched(p, brokerOut)
    BY <1>p, FirstPacket
  <2> QED
    BY <1>p, <2>1 DEF Matched, Agrees, Acks
<1> HIDE DEF p
<1>o. /\ brokerOut \in Seq(Entries) /\ IdsDiffer(brokerOut) /\ Len(brokerOut) \in Nat
      /\ DOMAIN brokerOut = 1..Len(brokerOut) /\ \A i \in DOMAIN brokerOut : brokerOut[i] \in Entries
  BY <1>0, LenProperties, ElementOfSeq DEF SessionTypeOK, ListsInv
<1>e. \A i \in DOMAIN brokerOut : /\ brokerOut[i].msg \in Messages /\ Proper(brokerOut[i])
                                  /\ brokerOut[i].msg <= inSent /\ brokerOut[i].msgid = brokerOut[i].msg
  BY <1>0, <1>o DEF Entries, ListsInv
<1>u. \A i \in DOMAIN brokerOut : brokerOut[i].msgid = p.id <=> i = at
  BY <1>o, <1>4 DEF IdsDiffer
<1>w. /\ DOMAIN brokerOut' = DOMAIN brokerOut
      /\ \A i \in DOMAIN brokerOut : i # at => brokerOut'[i] = brokerOut[i]
      /\ brokerOut'[at].msgid = p.id /\ brokerOut'[at].msg = brokerOut[at].msg
      /\ brokerOut'[at].qos = brokerOut[at].qos /\ brokerOut'[at].next = "PUBCOMP"
      /\ brokerOut' \in Seq(Entries)
  <2>1. DOMAIN brokerOut' = DOMAIN brokerOut /\ \A i \in DOMAIN brokerOut : i # at => brokerOut'[i] = brokerOut[i]
    BY <1>1, <1>u
  <2>2. brokerOut'[at] = [brokerOut[at] EXCEPT !.next = "PUBCOMP"]
    BY <1>1, <1>4
  <2>3. /\ brokerOut'[at].msgid = p.id /\ brokerOut'[at].msg = brokerOut[at].msg
        /\ brokerOut'[at].qos = brokerOut[at].qos /\ brokerOut'[at].next = "PUBCOMP"
        /\ brokerOut'[at] \in Entries
    <3>1. brokerOut[at] \in Entries
      BY <1>o
    <3> QED
      BY <1>4, <2>2, <3>1 DEF Entries, Acks
  <2>4. \A i \in DOMAIN brokerOut : brokerOut'[i] \in Entries
    BY <1>o, <2>1, <2>3
  <2>5. brokerOut' \in [1..Len(brokerOut) -> Entries]
    BY <1>o, <1>1, <2>4
  <2>6. brokerOut' \in Seq(Entries)
    BY <1>o, <2>5, SeqDef
  <2> QED
    BY <2>1, <2>3, <2>6
<1>v. \A i \in DOMAIN brokerOut : /\ brokerOut'[i].msgid = brokerOut[i].msgid /\ brokerOut'[i].msg = brokerOut[i].msg
                                  /\ brokerOut'[i].qos = brokerOut[i].qos
  BY <1>4, <1>w
<1>5. Answered(p)
  <2>1. Opposite(p, x)
    BY <1>3, <1>p DEF Opposite
  <2>2. Agrees(x, brokerOut'[at])
    BY <1>3, <1>w DEF Agrees, Acks
  <2>3. Matched(x, brokerOut')
    BY <1>w, <2>2 DEF Matched
  <2> QED
    BY <1>1, <1>2, <1>3, <2>1, <2>3, AnsweredBy
<1>6. /\ IdsDiffer(brokerOut')
      /\ \A i \in DOMAIN brokerOut' : /\ Proper(brokerOut'[i])
                                      /\ brokerOut'[i].msg <= inSent /\ brokerOut'[i].msgid = brokerOut'[i].msg
  <2>1. IdsDiffer(brokerOut')
    BY <1>o, <1>v, <1>w DEF IdsDiffer
  <2>2. \A i \in DOMAIN brokerOut' : Proper(brokerOut'[i])
    BY <1>e, <1>w DEF Proper
  <2> QED
    BY <1>e, <1>v, <1>w, <2>1, <2>2
<1>7. Version = 4 => HeldInv' /\ NeverTwice'
  BY <1>0, <1>1, BrokerReceivesDoes DEF HeldInv, NeverTwice, HasRecord, Records, Clean
<1>8. crashes = 0 => ReceivedInv'
  <2> SUFFICES ASSUME crashes = 0 PROVE ReceivedInv'
    OBVIOUS
  <2>0. ReceivedInv
    BY <1>0
  <2>a. /\ connected' = connected /\ effects' = effects /\ inboundMsgs' = inboundMsgs
        /\ inSent' = inSent /\ queued' = queued /\ crashes' = crashes
    BY BrokerReceivesDoes
  <2>1. p.id \in IdsOf(inboundMsgs)
    BY <1>2, <1>p, <2>0 DEF ReceivedInv
  <2>2. /\ \A i \in DOMAIN brokerOut' : brokerOut'[i].qos = 2 => queued[brokerOut'[i].msg] <= 1
        /\ \A i \in DOMAIN brokerOut' :
             /\ brokerOut'[i].next = "PUBREC" => (queued[brokerOut'[i].msg] = 0 <=> (Version = 4 \/ ~(brokerOut'[i].msgid \in IdsOf(inboundMsgs))))
             /\ brokerOut'[i].next = "PUBCOMP" => (queued[brokerOut'[i].msg] = 0 <=> (Version = 4 /\ brokerOut'[i].msgid \in IdsOf(inboundMsgs)))
    <3>1. /\ \A i \in DOMAIN brokerOut : brokerOut[i].qos = 2 => queued[brokerOut[i].msg] <= 1
          /\ \A i \in DOMAIN brokerOut :
               /\ brokerOut[i].next = "PUBREC" => (queued[brokerOut[i].msg] = 0 <=> (Version = 4 \/ ~(brokerOut[i].msgid \in IdsOf(inboundMsgs))))
               /\ brokerOut[i].next = "PUBCOMP" => (queued[brokerOut[i].msg] = 0 <=> (Version = 4 /\ brokerOut[i].msgid \in IdsOf(inboundMsgs)))
      BY <1>2, <2>0 DEF ReceivedInv
    <3>2. queued[brokerOut[at].msg] = 0 <=> Version = 4
      BY <1>4, <2>1, <3>1
    <3>3. /\ brokerOut'[at].next # "PUBREC"
          /\ queued[brokerOut'[at].msg] = 0 <=> (Version = 4 /\ brokerOut'[at].msgid \in IdsOf(inboundMsgs))
      BY <1>w, <2>1, <3>2
    <3>4. \A i \in DOMAIN brokerOut' : brokerOut'[i].qos = 2 => queued[brokerOut'[i].msg] <= 1
      BY <1>v, <1>w, <3>1
    <3> QED
      BY <1>w, <3>1, <3>3, <3>4
  <2>3. \A k \in DOMAIN toClient' : toClient'[k].type = "PUBLISH" /\ toClient'[k].qos = 0 =>
          toClient'[k].msg <= inSent /\ \A i \in DOMAIN brokerOut' : brokerOut'[i].msg # toClient'[k].msg
    <3>1. \A k \in DOMAIN toClient' : toClient'[k].type = "PUBLISH" => k \in DOMAIN toClient /\ toClient'[k] = toClient[k]
      BY <1>5 DEF Answered
    <3>2. \A k \in DOMAIN toClient : toClient[k].type = "PUBLISH" /\ toClient[k].qos = 0 =>
            toClient[k].msg <= inSent /\ \A i \in DOMAIN brokerOut : brokerOut[i].msg # toClient[k].msg
      BY <2>0 DEF ReceivedInv
    <3> QED
      BY <1>v, <1>w, <3>1, <3>2
  <2>4. \A k \in DOMAIN toBroker' : /\ toBroker'[k].type \in {"PUBACK", "PUBCOMP"} => queued[toBroker'[k].id] > 0
                                    /\ toBroker'[k].type = "PUBREC" => toBroker'[k].id \in IdsOf(inboundMsgs)
    BY <1>2, <2>0 DEF ReceivedInv
  <2> QED
    BY <1>1, <2>0, <2>a, <2>2, <2>3, <2>4 DEF ReceivedInv, IdsOf, Clean
<1>9. \A i \in DOMAIN brokerOut : ~(Back(p) /\ brokerOut[i].msgid = p.id) =>
           \E j \in DOMAIN brokerOut' : brokerOut'[j] = brokerOut[i]
  BY <1>p, <1>u, <1>w
<1>t. brokerHeld' \subseteq Nat /\ delivered' \in [Messages -> Nat] /\ completed' \subseteq Nat
  BY <1>0, <1>1 DEF SessionTypeOK
<1> QED
  BY <1>5, <1>6, <1>7, <1>8, <1>9, <1>w, <1>t, BrokerStep DEF p

\* The broker takes the next packet.
LEMMA BrokerReceivesStep ==
  ASSUME CoreInv, BrokerReceives
  PROVE  CoreInv'
<1> DEFINE p == Head(toBroker)
<1>1. \/ p.type = "PUBLISH" /\ p.qos = 0
      \/ p.type = "PUBLISH" /\ p.qos = 1
      \/ p.type = "PUBLISH" /\ p.qos = 2
      \/ p.type = "PUBREL" \/ p.type = "PINGREQ" \/ p.type = "PUBREC"
      \/ p.type \in {"PUBACK", "PUBCOMP"}
  BY DEF BrokerReceives
<1> QED
  BY <1>1, BrokerPassesStep, BrokerPassesOneStep, BrokerHoldsStep, BrokerReleasesStep, BrokerCompletesStep,
     BrokerGoesOnStep

-------------------------------------------------------------------------------
\* Writes that are pending or fail.

\* Nothing the invariant speaks of changes: Socket_continueWrites writes the rest of
\* a packet.
LEMMA SameCore ==
  ASSUME CoreInv, UNCHANGED <<alive, connected, msgID, qentry_seqno, outboundMsgs, inboundMsgs, messageQueue,
                              effects, pstore, link, toBroker, toClient, brokerHeld, brokerOut, published,
                              delivered, qosOf, inSent, completed, queued, crashes>>
  PROVE  CoreInv'
  BY DEF CoreInv, SessionTypeOK, LinkInv, TokensMatched, OneToken, ListsInv, MsgIdsDistinct, IdsDiffer,
     PublicationOrder, KeysInv, RecordsInv, CallsInv, Records, ReleaseInv, HeldInv, HasRecord, NeverTwice,
     ReceivedInv, IdsOf, AgreeInv, Agreed, WillHave, ReleasedIds, Seqnos, Tag, AckVersion, Clean

\* Calls that begin and do not concern a key leave what the store will hold of it.
LEMMA OtherKeys ==
  ASSUME pstore' = pstore, effects = <<>>, NEW key,
         \A k \in DOMAIN effects' : IsStoreCall(effects'[k]) => effects'[k].rec.key # key
  PROVE  /\ \A id : WillHave(key, id)' <=> WillHave(key, id)
         /\ \A ids : Agreed(key, ids)' <=> Agreed(key, ids)
<1>1. \A id : WillHave(key, id)' <=> WillHave(key, id)
  BY EmptyDomain DEF WillHave, HasRecord, Records, IsStoreCall
<1> QED
  BY <1>1 DEF Agreed

\* MQTTProtocol_retries stops: what it would have put again is in the store.
LEMMA RetriesStopStep ==
  ASSUME CoreInv, ResendInv, RetriesStop
  PROVE  CoreInv'
<1>0. /\ SessionTypeOK /\ LinkInv /\ TokensMatched /\ OneToken /\ ListsInv /\ KeysInv /\ RecordsInv /\ CallsInv
      /\ ~persistent => pstore = {}
      /\ Version = 4 => (persistent => ReleaseInv) /\ HeldInv /\ NeverTwice
      /\ crashes = 0 => ReceivedInv
      /\ (Version = 4 /\ persistent /\ ~Clean) => AgreeInv
  BY DEF CoreInv
<1>a. /\ alive /\ resending /\ effects' = <<>>
      /\ alive' = alive /\ connected' = connected /\ msgID' = msgID /\ qentry_seqno' = qentry_seqno
      /\ outboundMsgs' = outboundMsgs /\ inboundMsgs' = inboundMsgs /\ messageQueue' = messageQueue
      /\ pstore' = pstore /\ link' = link /\ toBroker' = toBroker /\ toClient' = toClient
      /\ brokerHeld' = brokerHeld /\ brokerOut' = brokerOut /\ published' = published
      /\ delivered' = delivered /\ qosOf' = qosOf /\ inSent' = inSent /\ completed' = completed
      /\ queued' = queued /\ crashes' = crashes
  BY DEF RetriesStop, HeldUp, clientMemory, network, brokerVars, outHistory, inHistory, faults
<1>1. SessionTypeOK'
  BY <1>0, <1>a, EmptyDomain DEF SessionTypeOK
<1>2. LinkInv'
  BY <1>0, <1>a, EmptyDomain DEF LinkInv
<1>3. TokensMatched' /\ OneToken'
  BY <1>0, <1>a, EmptyDomain DEF TokensMatched, OneToken, Matched
<1>4. ListsInv'
  BY <1>0, <1>a DEF ListsInv, MsgIdsDistinct, IdsDiffer, PublicationOrder
<1>5. KeysInv'
  BY <1>0, <1>a, EmptyDomain DEF KeysInv, IdsDiffer
<1>6. RecordsInv' /\ CallsInv' /\ (~persistent => pstore = {})'
  BY <1>0, <1>a, EmptyDomain DEF RecordsInv, CallsInv, Records
<1>7. (Version = 4 => (persistent => ReleaseInv) /\ HeldInv /\ NeverTwice)'
  BY <1>0, <1>a, EmptyDomain DEF ReleaseInv, HeldInv, NeverTwice, HasRecord, Records
<1>8. (crashes = 0 => ReceivedInv)'
  BY <1>0, <1>a, EmptyDomain DEF ReceivedInv, IdsOf
<1>9. ((Version = 4 /\ persistent /\ ~Clean) => AgreeInv)'
  <2> SUFFICES ASSUME Version = 4 /\ persistent /\ ~Clean PROVE AgreeInv'
    BY DEF Clean
  <2>1. \A k \in DOMAIN effects : /\ effects[k].op \in {"put", "send"}
                                  /\ effects[k].op = "put" => HasRecord(effects[k].rec.key, effects[k].rec.id)
    BY <1>a DEF ResendInv
  <2>2. \A key, id : WillHave(key, id) <=> HasRecord(key, id)
    BY <2>1 DEF WillHave
  <2>3. \A key, id : WillHave(key, id)' <=> HasRecord(key, id)
    BY <1>a, EmptyDomain DEF WillHave, HasRecord, Records
  <2>4. Seqnos' = Seqnos /\ ReleasedIds' = ReleasedIds /\ IdsOf(outboundMsgs)' = IdsOf(outboundMsgs)
    BY <1>a DEF Seqnos, IdsOf, ReleasedIds
  <2> QED
    BY <1>0, <1>a, <2>2, <2>3, <2>4 DEF AgreeInv, Agreed
<1> QED
  BY <1>1, <1>2, <1>3, <1>4, <1>5, <1>6, <1>7, <1>8, <1>9 DEF CoreInv

\* A publication of QoS 2 that could not be answered, and its record.
LEMMA RefusedDoes ==
  ASSUME CoreInv, AnswerRefused, effects' # effects
  PROVE  LET p == Head(toClient)
         IN /\ alive /\ effects = <<>> /\ toClient # <<>> /\ p = toClient[1] /\ 1 \in DOMAIN toClient
            /\ p.type = "PUBLISH" /\ p.qos = 2 /\ p.id \in Nat
            /\ effects' \in Seq(Effects) /\ DOMAIN effects' = {1} /\ IsPut(effects'[1], "r", p.id)
            /\ link' = FALSE /\ toBroker' = <<>> /\ toClient' = <<>>
            /\ alive' = alive /\ connected' = connected /\ msgID' = msgID /\ qentry_seqno' = qentry_seqno
            /\ outboundMsgs' = outboundMsgs /\ inboundMsgs' = inboundMsgs /\ messageQueue' = messageQueue
            /\ pstore' = pstore /\ brokerHeld' = brokerHeld /\ brokerOut' = brokerOut /\ published' = published
            /\ delivered' = delivered /\ qosOf' = qosOf /\ inSent' = inSent /\ completed' = completed
            /\ queued' = queued /\ crashes' = crashes
<1> DEFINE p == Head(toClient)
           y == Put("r", Version, p.id, 2, p.msg)
<1>1. /\ alive /\ effects = <<>> /\ toClient # <<>> /\ p.type = "PUBLISH" /\ p.qos = 2 /\ effects' = <<y>>
      /\ link' = FALSE /\ toBroker' = <<>> /\ toClient' = <<>>
      /\ alive' = alive /\ connected' = connected /\ msgID' = msgID /\ qentry_seqno' = qentry_seqno
      /\ outboundMsgs' = outboundMsgs /\ inboundMsgs' = inboundMsgs /\ messageQueue' = messageQueue
      /\ pstore' = pstore /\ brokerHeld' = brokerHeld /\ brokerOut' = brokerOut /\ published' = published
      /\ delivered' = delivered /\ qosOf' = qosOf /\ inSent' = inSent /\ completed' = completed
      /\ queued' = queued /\ crashes' = crashes
  BY DEF AnswerRefused, Running, GivenUp, clientMemory, network, brokerVars, outHistory, inHistory, faults
<1>2. toClient \in Seq(Packets)
  BY DEF CoreInv, SessionTypeOK
<1>3. p = toClient[1] /\ 1 \in DOMAIN toClient /\ p \in Packets
  BY <1>1, <1>2, TailAt
<1>4. p.id \in Nat /\ p.msg \in Messages
  BY <1>1, <1>3 DEF Packets, Acks
<1>5. y \in Effects /\ IsPut(y, "r", p.id)
  BY <1>4, SessionAssumption DEF Put, Effects, StoreRecords, IsPut
<1>6. effects' = <<y>>
  BY <1>1
<1> HIDE DEF y
<1>7. effects' \in Seq(Effects) /\ DOMAIN effects' = {1} /\ effects'[1] = y
  BY <1>5, <1>6
<1> QED
  BY <1>1, <1>3, <1>4, <1>5, <1>7

\* The record is put, and the connection given up: no list changes.
LEMMA RefusedStep ==
  ASSUME CoreInv, AnswerRefused, effects' # effects
  PROVE  CoreInv'
<1>0. /\ SessionTypeOK /\ LinkInv /\ TokensMatched /\ OneToken /\ ListsInv /\ KeysInv /\ RecordsInv /\ CallsInv
      /\ ~persistent => pstore = {}
      /\ Version = 4 => (persistent => ReleaseInv) /\ HeldInv /\ NeverTwice
      /\ crashes = 0 => ReceivedInv
      /\ (Version = 4 /\ persistent /\ ~Clean) => AgreeInv
  BY DEF CoreInv
<1>a. /\ alive /\ effects = <<>> /\ link' = FALSE /\ toBroker' = <<>> /\ toClient' = <<>>
      /\ alive' = alive /\ connected' = connected /\ msgID' = msgID /\ qentry_seqno' = qentry_seqno
      /\ outboundMsgs' = outboundMsgs /\ inboundMsgs' = inboundMsgs /\ messageQueue' = messageQueue
      /\ pstore' = pstore /\ brokerHeld' = brokerHeld /\ brokerOut' = brokerOut /\ published' = published
      /\ delivered' = delivered /\ qosOf' = qosOf /\ inSent' = inSent /\ completed' = completed
      /\ queued' = queued /\ crashes' = crashes
  BY RefusedDoes
<1>e. /\ effects' \in Seq(Effects) /\ DOMAIN effects' = {1} /\ effects'[1].op = "put"
      /\ effects'[1].rec.key = "r" /\ effects'[1].rec.ver = Version
  BY RefusedDoes DEF IsPut
<1>1. SessionTypeOK'
  BY <1>0, <1>a, <1>e, EmptyDomain DEF SessionTypeOK
<1>2. LinkInv'
  BY <1>0, <1>a, <1>e, EmptyDomain DEF LinkInv
<1>3. TokensMatched' /\ OneToken'
  BY <1>0, <1>a, <1>e, EmptyDomain DEF TokensMatched, OneToken, Matched
<1>4. ListsInv'
  BY <1>0, <1>a DEF ListsInv, MsgIdsDistinct, IdsDiffer, PublicationOrder
<1>5. KeysInv'
  BY <1>0, <1>a, <1>e DEF KeysInv, IdsDiffer, Tag
<1>6. RecordsInv' /\ CallsInv' /\ (~persistent => pstore = {})'
  BY <1>0, <1>a, <1>e DEF RecordsInv, CallsInv, Records
<1>7. (Version = 4 => (persistent => ReleaseInv) /\ HeldInv /\ NeverTwice)'
  BY <1>0, <1>a, <1>e, EmptyDomain DEF ReleaseInv, HeldInv, NeverTwice, HasRecord, Records
<1>8. (crashes = 0 => ReceivedInv)'
  BY <1>0, <1>a, <1>e, EmptyDomain DEF ReceivedInv, IdsOf
<1>9. ((Version = 4 /\ persistent /\ ~Clean) => AgreeInv)'
  <2>1. \A key : key # "r" => \A ids : Agreed(key, ids)' <=> Agreed(key, ids)
    BY <1>a, <1>e, OtherKeys
  <2>2. Seqnos' = Seqnos /\ ReleasedIds' = ReleasedIds /\ IdsOf(outboundMsgs)' = IdsOf(outboundMsgs)
    BY <1>a DEF Seqnos, IdsOf, ReleasedIds
  <2> QED
    BY <1>0, <1>a, <2>1, <2>2 DEF AgreeInv, Clean
<1> QED
  BY <1>1, <1>2, <1>3, <1>4, <1>5, <1>6, <1>7, <1>8, <1>9 DEF CoreInv

-------------------------------------------------------------------------------
\* Sending again.

\* What MQTTProtocol_retries calls, for each message of the list.
LEMMA RetriesCalls ==
  ASSUME outboundMsgs \in Seq(Entries), effects' = Retries(outboundMsgs)
  PROVE  \A k \in DOMAIN effects' :
           /\ effects'[k].op \in {"put", "send"}
           /\ effects'[k].op = "send" => effects'[k].rec.type \in {"PUBLISH", "PUBREL"}
           /\ effects'[k].op = "put" => \E i \in DOMAIN outboundMsgs :
                /\ effects'[k].rec.id = outboundMsgs[i].msgid
                /\ outboundMsgs[i].next = "PUBCOMP" => effects'[k].rec.key = "sc"
                /\ outboundMsgs[i].next # "PUBCOMP" => effects'[k].rec.key = "s"
<1> SUFFICES ASSUME NEW k \in DOMAIN effects'
             PROVE  /\ effects'[k].op \in {"put", "send"}
                    /\ effects'[k].op = "send" => effects'[k].rec.type \in {"PUBLISH", "PUBREL"}
                    /\ effects'[k].op = "put" => \E i \in DOMAIN outboundMsgs :
                         /\ effects'[k].rec.id = outboundMsgs[i].msgid
                         /\ outboundMsgs[i].next = "PUBCOMP" => effects'[k].rec.key = "sc"
                         /\ outboundMsgs[i].next # "PUBCOMP" => effects'[k].rec.key = "s"
  OBVIOUS
<1>1. PICK i \in DOMAIN outboundMsgs : \/ effects'[k] = Retry(outboundMsgs[i])[1]
                                       \/ effects'[k] = Retry(outboundMsgs[i])[2]
  BY RetriesFacts
<1> DEFINE m == outboundMsgs[i]
<1>2. m \in Entries
  BY ElementOfSeq, LenProperties
<1>3. CASE m.next = "PUBCOMP"
  <2> DEFINE x == Put("sc", AckVersion, m.msgid, 1, 0)
             y == Send(Packet("PUBREL", m.msgid, 1, 0))
  <2>1. Retry(m) = <<x, y>>
    BY <1>2, <1>3, RetryFacts
  <2>2. /\ x.op = "put" /\ x.rec.key = "sc" /\ x.rec.id = m.msgid
        /\ y.op = "send" /\ y.rec.type = "PUBREL"
    BY DEF Put, Send, Packet
  <2> HIDE DEF x, y
  <2>3. effects'[k] = x \/ effects'[k] = y
    BY <1>1, <2>1
  <2> QED
    BY <1>3, <2>2, <2>3
<1>4. CASE m.next # "PUBCOMP"
  <2> DEFINE x == Put("s", Version, m.msgid, m.qos, m.msg)
             y == Send(Packet("PUBLISH", m.msgid, m.qos, m.msg))
  <2>1. Retry(m) = <<x, y>>
    BY <1>2, <1>4, RetryFacts
  <2>2. /\ x.op = "put" /\ x.rec.key = "s" /\ x.rec.id = m.msgid
        /\ y.op = "send" /\ y.rec.type = "PUBLISH"
    BY DEF Put, Send, Packet
  <2> HIDE DEF x, y
  <2>3. effects'[k] = x \/ effects'[k] = y
    BY <1>1, <2>1
  <2> QED
    BY <1>4, <2>2, <2>3
<1> QED
  BY <1>3, <1>4

\* A new connection sends the messages under way again; their records are there.
LEMMA ConnectResends ==
  ASSUME CoreInv, Connect
  PROVE  ResendInv'
<1>1. alive /\ effects = <<>> /\ pstore' = pstore /\ resending' = (effects' # <<>>)
  BY DEF Connect, Running
<1>2. (effects = <<>> => ~resending)'
  BY <1>1
<1> SUFFICES ASSUME Version = 4 /\ persistent /\ ~Clean, NEW k \in DOMAIN effects'
             PROVE  /\ effects'[k].op \in {"put", "send"}
                    /\ (effects[k].op = "put" => HasRecord(effects[k].rec.key, effects[k].rec.id))'
  BY <1>2 DEF ResendInv, Clean
<1>3. AgreeInv /\ outboundMsgs \in Seq(Entries) /\ effects' = Retries(outboundMsgs)
  BY ConnectDoes DEF CoreInv, SessionTypeOK
<1>4. \A key, id : (WillHave(key, id) <=> HasRecord(key, id)) /\ (HasRecord(key, id)' <=> HasRecord(key, id))
  BY <1>1, EmptyDomain DEF WillHave, HasRecord, Records
<1>5. effects'[k].op \in {"put", "send"}
  BY <1>3, RetriesCalls
<1>6. ASSUME effects'[k].op = "put" PROVE HasRecord(effects'[k].rec.key, effects'[k].rec.id)
  <2>1. PICK i \in DOMAIN outboundMsgs : /\ effects'[k].rec.id = outboundMsgs[i].msgid
                                         /\ outboundMsgs[i].next = "PUBCOMP" => effects'[k].rec.key = "sc"
                                         /\ outboundMsgs[i].next # "PUBCOMP" => effects'[k].rec.key = "s"
    BY <1>3, <1>6, RetriesCalls
  <2>2. outboundMsgs[i] \in Entries
    BY <1>3, ElementOfSeq, LenProperties
  <2>3. outboundMsgs[i].msgid \in Nat /\ outboundMsgs[i].msgid \in IdsOf(outboundMsgs)
    BY <2>2 DEF Entries, IdsOf
  <2>4. outboundMsgs[i].next = "PUBCOMP" => outboundMsgs[i].msgid \in ReleasedIds
    BY DEF ReleasedIds
  <2> QED
    BY <1>1, <1>3, <1>4, <2>1, <2>3, <2>4 DEF AgreeInv, Agreed
<1> QED
  BY <1>4, <1>5, <1>6

\* A call of MQTTProtocol_retries that was made: a record that was put again is there.
LEMMA EffectResends ==
  ASSUME CoreInv, ResendInv, Effect
  PROVE  ResendInv'
<1>1. resending' = (resending /\ effects' # <<>>)
  BY DEF Effect
<1>2. (effects = <<>> => ~resending)'
  BY <1>1
<1> SUFFICES ASSUME Version = 4 /\ persistent /\ ~Clean, resending, NEW k \in DOMAIN effects'
             PROVE  /\ effects'[k].op \in {"put", "send"}
                    /\ (effects[k].op = "put" => HasRecord(effects[k].rec.key, effects[k].rec.id))'
  BY <1>1, <1>2 DEF ResendInv, Clean
<1>3. /\ KeysInv /\ effects \in Seq(Effects) /\ effects # <<>> /\ effects' = Tail(effects)
  BY EffectDoes DEF CoreInv, SessionTypeOK
<1>4. /\ Head(effects) = effects[1] /\ 1 \in DOMAIN effects
      /\ k + 1 \in DOMAIN effects /\ effects'[k] = effects[k + 1]
  BY <1>3, TailAt
<1>5. /\ effects[1].op \in {"put", "send"}
      /\ effects[k + 1].op \in {"put", "send"}
      /\ effects[k + 1].op = "put" => HasRecord(effects[k + 1].rec.key, effects[k + 1].rec.id)
  BY <1>4 DEF ResendInv
<1>6. \A key, id : HasRecord(key, id) => HasRecord(key, id)'
  <2>1. CASE effects[1].op = "put"
    <3>1. pstore' = Stored("put", effects[1].rec) /\ effects[1].rec.ver = Tag(effects[1].rec.key)
      BY <1>3, <1>4, <2>1, EffectDoes DEF KeysInv
    <3> QED
      BY <1>3, <3>1, StoredFacts
  <2>2. CASE effects[1].op = "send"
    <3>1. pstore' = pstore
      BY <1>4, <2>2, EffectDoes
    <3> QED
      BY <3>1 DEF HasRecord, Records
  <2> QED
    BY <1>5, <2>1, <2>2
<1> QED
  BY <1>4, <1>5, <1>6

\* Every step: either nobody sends again, or the calls and the store stay.
LEMMA ResendStep ==
  ASSUME CoreInv, ResendInv, [SessionNext]_sessionVars
  PROVE  ResendInv'
<1>1. ASSUME effects = <<>>, resending' = resending PROVE ResendInv'
  BY <1>1 DEF ResendInv
<1>2. ASSUME effects' = effects, pstore' = pstore, resending' = resending PROVE ResendInv'
  BY <1>2 DEF ResendInv, HasRecord, Records, Clean
<1>3. CASE Effect
  BY <1>3, EffectResends
<1>4. CASE Connect
  BY <1>4, ConnectResends
<1>5. CASE RetriesStop \/ Crash
  <2>1. effects' = <<>> /\ ~resending'
    BY <1>5 DEF RetriesStop, Crash
  <2> QED
    BY <2>1 DEF ResendInv
<1>6. CASE Publish \/ MessageArrived \/ PingTimeout \/ SocketError \/ Ping \/ AnswerRefused
  <2>1. effects = <<>> /\ resending' = resending
    BY <1>6 DEF Publish, MessageArrived, PingTimeout, SocketError, Ping, AnswerRefused, CloseSession, Running, writing
  <2> QED
    BY <1>1, <2>1
<1>7. CASE Handlers
  <2>1. effects = <<>> /\ resending' = resending
    BY <1>7 DEF Handlers, handlePublishes, handlePubacks, handlePubrecs, handlePubrels, handlePubcomps,
       handlePingresps, Receive, Running, writing
  <2> QED
    BY <1>1, <2>1
<1>8. CASE WriteFails \/ Flush \/ Break \/ BrokerReceives \/ BrokerPublishes \/ UNCHANGED sessionVars
  <2>1. effects' = effects /\ pstore' = pstore /\ resending' = resending
    BY <1>8 DEF WriteFails, Flush, Break, BrokerReceives, BrokerPublishes, sessionVars, writing
  <2> QED
    BY <1>2, <2>1
<1>9. CASE Restart
  <2>1. effects = <<>> /\ resending' = resending
    BY <1>9 DEF Restart, writing, CoreInv, LinkInv
  <2> QED
    BY <1>1, <2>1
<1> QED
  BY <1>3, <1>4, <1>5, <1>6, <1>7, <1>8, <1>9 DEF SessionNext, Client

-------------------------------------------------------------------------------
\* Messages received, and their records.

\* Lists and records of received messages stay, and no PUBREC is new.
LEMMA ReceiptKept ==
  ASSUME ReceiptInv, \A n : WillHave("r", n)' <=> WillHave("r", n), inboundMsgs' = inboundMsgs,
         brokerOut' = brokerOut, alive' = alive,
         \A k \in DOMAIN effects' : effects'[k].op = "send" /\ effects'[k].rec.type = "PUBREC" =>
           \E j \in DOMAIN effects : effects[j] = effects'[k],
         \A k \in DOMAIN toBroker' : toBroker'[k].type = "PUBREC" =>
           \/ \E j \in DOMAIN toBroker : toBroker[j] = toBroker'[k]
           \/ \E j \in DOMAIN effects : effects[j].op = "send" /\ effects[j].rec = toBroker'[k]
  PROVE  ReceiptInv'
<1>1. /\ \A k \in DOMAIN effects : effects[k].op = "send" /\ effects[k].rec.type = "PUBREC"
           => effects[k].rec.id \in IdsOf(inboundMsgs)
      /\ \A k \in DOMAIN toBroker : toBroker[k].type = "PUBREC" => toBroker[k].id \in IdsOf(inboundMsgs)
  BY DEF ReceiptInv
<1>2. IdsOf(inboundMsgs)' = IdsOf(inboundMsgs)
  BY DEF IdsOf
<1>3. \A k \in DOMAIN effects' : effects'[k].op = "send" /\ effects'[k].rec.type = "PUBREC"
         => effects'[k].rec.id \in IdsOf(inboundMsgs)
  BY <1>1
<1>4. \A k \in DOMAIN toBroker' : toBroker'[k].type = "PUBREC" => toBroker'[k].id \in IdsOf(inboundMsgs)
  BY <1>1
<1>5. \A n : Expected(n)' <=> Expected(n)
  BY DEF Expected
<1> QED
  BY <1>2, <1>3, <1>4, <1>5 DEF ReceiptInv, Clean

\* No PUBREC is left, and there are no records to agree with.
LEMMA ReceiptNone ==
  ASSUME effects' = <<>>, toBroker' = <<>>, Clean \/ ~alive'
  PROVE  ReceiptInv'
  BY EmptyDomain DEF ReceiptInv, Clean

\* One call of the client.
LEMMA EffectReceipts ==
  ASSUME CoreInv, ReceiptInv, Effect
  PROVE  ReceiptInv'
<1>1. /\ SessionTypeOK /\ KeysInv /\ (~persistent => pstore = {})
  BY DEF CoreInv
<1>2. /\ effects \in Seq(Effects) /\ effects # <<>> /\ effects' = Tail(effects) /\ toBroker \in Seq(Packets)
      /\ inboundMsgs' = inboundMsgs /\ brokerOut' = brokerOut /\ alive' = alive
  BY <1>1, EffectDoes DEF SessionTypeOK
<1>3. /\ Head(effects) = effects[1] /\ 1 \in DOMAIN effects /\ effects[1] \in Effects
      /\ \A k \in DOMAIN effects' : k + 1 \in DOMAIN effects /\ effects'[k] = effects[k + 1]
  BY <1>2, TailAt
<1>4. /\ \A k \in DOMAIN effects : effects[k].op = "send" /\ effects[k].rec.type = "PUBREC"
           => effects[k].rec.id \in IdsOf(inboundMsgs)
      /\ \A k \in DOMAIN toBroker : toBroker[k].type = "PUBREC" => toBroker[k].id \in IdsOf(inboundMsgs)
  BY DEF ReceiptInv
<1>5. \A k \in DOMAIN toBroker' : toBroker'[k].type = "PUBREC" => toBroker'[k].id \in IdsOf(inboundMsgs)
  <2>1. CASE toBroker' = toBroker
    BY <1>4, <2>1
  <2>2. CASE effects[1].op = "send" /\ toBroker' = Append(toBroker, effects[1].rec)
    <3>1. effects[1].rec \in Packets
      BY <1>3, <2>2 DEF Effects
    <3>2. \A k \in DOMAIN toBroker' : \/ k \in DOMAIN toBroker /\ toBroker'[k] = toBroker[k]
                                      \/ toBroker'[k] = effects[1].rec
      BY <1>2, <2>2, <3>1, AppendAt
    <3> QED
      BY <1>3, <1>4, <2>2, <3>2
  <2> QED
    BY <1>3, <2>1, <2>2, EffectDoes
<1>6. \A k \in DOMAIN effects' : effects'[k].op = "send" /\ effects'[k].rec.type = "PUBREC"
         => effects'[k].rec.id \in IdsOf(inboundMsgs)
  BY <1>3, <1>4
<1>7. persistent => \A n : WillHave("r", n)' <=> WillHave("r", n)
  <2>1. \/ Head(effects).op \in {"put", "remove"} /\ pstore' = Stored(Head(effects).op, Head(effects).rec)
        \/ Head(effects).op \notin {"put", "remove"} /\ pstore' = pstore
    BY EffectDoes
  <2> QED
    BY <1>1, <1>2, <2>1, EffectAgrees
<1>8. IdsOf(inboundMsgs)' = IdsOf(inboundMsgs) /\ \A n : Expected(n)' <=> Expected(n)
  BY <1>2 DEF IdsOf, Expected
<1> QED
  BY <1>2, <1>5, <1>6, <1>7, <1>8 DEF ReceiptInv, Clean

\* The end of a connection: what is under way is lost.
LEMMA LostReceipts ==
  ASSUME CoreInv, ReceiptInv, Break \/ WriteFails \/ (AnswerRefused /\ effects' = effects)
  PROVE  ReceiptInv'
<1>1. /\ toBroker' = <<>> /\ inboundMsgs' = inboundMsgs /\ brokerOut' = brokerOut /\ alive' = alive
      /\ effects' = effects /\ pstore' = pstore
  BY BreakDoes
<1>2. \A n : WillHave("r", n)' <=> WillHave("r", n)
  BY <1>1 DEF WillHave, HasRecord, Records, Tag
<1> QED
  BY <1>1, <1>2, ReceiptKept, EmptyDomain

\* Calls that begin, do not concern received messages and have no PUBREC.
LEMMA OtherReceipts ==
  ASSUME ReceiptInv, effects = <<>>, pstore' = pstore, inboundMsgs' = inboundMsgs,
         brokerOut' = brokerOut, alive' = alive, toBroker' = toBroker \/ toBroker' = <<>>,
         \A k \in DOMAIN effects' : /\ IsStoreCall(effects'[k]) => effects'[k].rec.key # "r"
                                    /\ effects'[k].op = "send" => effects'[k].rec.type # "PUBREC"
  PROVE  ReceiptInv'
<1>1. \A n : WillHave("r", n)' <=> WillHave("r", n)
  BY OtherKeys
<1>2. \A k \in DOMAIN toBroker' : \E j \in DOMAIN toBroker : toBroker[j] = toBroker'[k]
  BY EmptyDomain
<1> QED
  BY <1>1, <1>2, ReceiptKept

\* The handlers of acknowledgements touch the outbound side only.
LEMMA AnswersReceipts ==
  ASSUME CoreInv, ReceiptInv, handlePubacks \/ handlePubcomps \/ handlePubrecs \/ handlePingresps
  PROVE  ReceiptInv'
<1>1. PICK type : Receive(type)
  BY DEF handlePubacks, handlePubcomps, handlePubrecs, handlePingresps
<1>2. /\ effects = <<>> /\ pstore' = pstore /\ inboundMsgs' = inboundMsgs /\ brokerOut' = brokerOut
      /\ alive' = alive /\ toBroker' = toBroker
  BY <1>1, ReceiveDoes DEF handlePubacks, handlePubcomps, handlePubrecs, handlePingresps
<1> DEFINE id == Head(toClient).id
<1>3. effects' = effects \/ effects' = RemoveSent(id) \/ effects' = SendPubrel(id)
  BY DEF handlePubacks, handlePubcomps, handlePubrecs, handlePingresps, Finish
<1>4. id \in Nat
  <2>1. toClient \in Seq(Packets) /\ toClient # <<>>
    BY <1>1, ReceiveDoes DEF CoreInv, SessionTypeOK
  <2>2. Head(toClient) \in Packets
    BY <2>1, TailAt
  <2> QED
    BY <2>2 DEF Packets
<1> HIDE DEF id
<1>5. \A k \in DOMAIN effects' : /\ IsStoreCall(effects'[k]) => effects'[k].rec.key # "r"
                                 /\ effects'[k].op = "send" => effects'[k].rec.type # "PUBREC"
  <2>1. CASE effects' = effects
    BY <1>2, <2>1, EmptyDomain
  <2>2. CASE effects' = RemoveSent(id)
    BY <1>4, <2>2, RemoveSentFacts
  <2>3. CASE effects' = SendPubrel(id)
    <3> DEFINE x == Put("sc", AckVersion, id, 1, 0)
               y == Send(Packet("PUBREL", id, 1, 0))
    <3>1. effects' = <<x, y>>
      BY <2>3 DEF SendPubrel
    <3>2. x.op = "put" /\ x.rec.key = "sc" /\ y.op = "send" /\ y.rec.type = "PUBREL"
      BY DEF Put, Send, Packet
    <3> HIDE DEF x, y
    <3>3. DOMAIN effects' = 1..2 /\ effects'[1] = x /\ effects'[2] = y
      BY <3>1
    <3> QED
      BY <3>2, <3>3 DEF IsStoreCall
  <2> QED
    BY <1>3, <2>1, <2>2, <2>3
<1> QED
  BY <1>2, <1>5, OtherReceipts

\* Publishing, pinging and handing a message over do not concern what is received.
LEMMA OwnReceipts ==
  ASSUME CoreInv, ReceiptInv, Publish \/ Ping \/ MessageArrived
  PROVE  ReceiptInv'
<1>1. CASE Publish
  <2>1. PICK id, q, m : effects' = SendPublish(id, q, m)
    BY <1>1 DEF Publish
  <2> DEFINE x == Put("s", Version, id, q, m)
             y == Send(Packet("PUBLISH", id, q, m))
  <2>2. effects' = <<x, y>> \/ effects' = <<y>>
    BY <2>1 DEF SendPublish
  <2>3. x.op = "put" /\ x.rec.key = "s" /\ y.op = "send" /\ y.rec.type = "PUBLISH"
    BY DEF Put, Send, Packet
  <2> HIDE DEF x, y
  <2>4. \A k \in DOMAIN effects' : effects'[k] = x \/ effects'[k] = y
    BY <2>2
  <2>5. /\ effects = <<>> /\ pstore' = pstore /\ inboundMsgs' = inboundMsgs /\ brokerOut' = brokerOut
        /\ alive' = alive /\ toBroker' = toBroker
    BY <1>1, PublishDoes
  <2> QED
    BY <2>3, <2>4, <2>5, OtherReceipts DEF IsStoreCall
<1>2. CASE Ping
  <2> DEFINE y == Send(Packet("PINGREQ", 0, 0, 0))
  <2>1. effects' = <<y>>
    BY <1>2, PingDoes
  <2>2. y.op = "send" /\ y.rec.type = "PINGREQ"
    BY DEF Send, Packet
  <2> HIDE DEF y
  <2>3. \A k \in DOMAIN effects' : effects'[k] = y
    BY <2>1
  <2>4. /\ effects = <<>> /\ pstore' = pstore /\ inboundMsgs' = inboundMsgs /\ brokerOut' = brokerOut
        /\ alive' = alive /\ toBroker' = toBroker
    BY <1>2, PingDoes
  <2> QED
    BY <2>2, <2>3, <2>4, OtherReceipts DEF IsStoreCall
<1>3. CASE MessageArrived
  <2> DEFINE x == [op |-> "arrived", rec |-> Head(messageQueue).msg]
             y == Unput("q", Version, Head(messageQueue).seqno)
  <2>1. effects' = <<x, y>>
    BY <1>3, MessageArrivedDoes
  <2>2. x.op = "arrived" /\ y.op = "remove" /\ y.rec.key = "q"
    BY DEF Unput
  <2> HIDE DEF x, y
  <2>3. \A k \in DOMAIN effects' : effects'[k] = x \/ effects'[k] = y
    BY <2>1
  <2>4. /\ effects = <<>> /\ pstore' = pstore /\ inboundMsgs' = inboundMsgs /\ brokerOut' = brokerOut
        /\ alive' = alive /\ toBroker' = toBroker
    BY <1>3, MessageArrivedDoes
  <2> QED
    BY <2>2, <2>3, <2>4, OtherReceipts DEF IsStoreCall
<1> QED
  BY <1>1, <1>2, <1>3

\* The beginning and the end of a connection.
LEMMA ConnectReceipts ==
  ASSUME CoreInv, ReceiptInv, Connect \/ SocketError \/ PingTimeout
  PROVE  ReceiptInv'
<1>1. CASE Connect
  <2>1. CASE Clean
    BY <1>1, <2>1, ConnectDoes, ReceiptNone
  <2>2. CASE ~Clean
    <3>1. /\ effects = <<>> /\ pstore' = pstore /\ inboundMsgs' = inboundMsgs /\ brokerOut' = brokerOut
          /\ alive' = alive /\ toBroker' = <<>> /\ effects' = Retries(outboundMsgs) /\ outboundMsgs \in Seq(Entries)
      BY <1>1, <2>2, ConnectDoes DEF CoreInv, SessionTypeOK
    <3>2. \A k \in DOMAIN effects' : /\ IsStoreCall(effects'[k]) => effects'[k].rec.key # "r"
                                     /\ effects'[k].op = "send" => effects'[k].rec.type # "PUBREC"
      <4> SUFFICES ASSUME NEW k \in DOMAIN effects'
                   PROVE  /\ IsStoreCall(effects'[k]) => effects'[k].rec.key # "r"
                          /\ effects'[k].op = "send" => effects'[k].rec.type # "PUBREC"
        OBVIOUS
      <4>1. /\ effects'[k].op \in {"put", "send"}
            /\ effects'[k].op = "send" => effects'[k].rec.type \in {"PUBLISH", "PUBREL"}
            /\ effects'[k].op = "put" => effects'[k].rec.key \in {"s", "sc"}
        BY <3>1, RetriesCalls
      <4> QED
        BY <4>1 DEF IsStoreCall
    <3> QED
      BY <3>1, <3>2, OtherReceipts
  <2> QED
    BY <2>1, <2>2
<1>2. CASE SocketError \/ PingTimeout
  <2>1. /\ effects = <<>> /\ effects' = <<>> /\ toBroker' = <<>> /\ pstore' = pstore /\ brokerOut' = brokerOut
        /\ alive' = alive /\ (~Clean => inboundMsgs' = inboundMsgs)
    BY <1>2, CloseDoes
  <2>2. CASE Clean
    BY <2>1, <2>2, ReceiptNone
  <2>3. CASE ~Clean
    BY <2>1, <2>3, OtherReceipts, EmptyDomain
  <2> QED
    BY <2>2, <2>3
<1> QED
  BY <1>1, <1>2

\* A write that is pending: MQTTProtocol_retries stops, or an answer is refused.
LEMMA RefusedReceipts ==
  ASSUME CoreInv, ResendInv, ReceiptInv, RetriesStop \/ (AnswerRefused /\ effects' # effects)
  PROVE  ReceiptInv'
<1>1. CASE RetriesStop
  <2>1. /\ resending /\ effects' = <<>> /\ pstore' = pstore /\ toBroker' = toBroker /\ inboundMsgs' = inboundMsgs
        /\ brokerOut' = brokerOut /\ alive' = alive
    BY <1>1 DEF RetriesStop, HeldUp, clientMemory, network, brokerVars
  <2>2. (Version = 4 /\ persistent /\ ~Clean) => \A n : WillHave("r", n)' <=> WillHave("r", n)
    <3> SUFFICES ASSUME Version = 4 /\ persistent /\ ~Clean PROVE \A n : WillHave("r", n)' <=> WillHave("r", n)
      OBVIOUS
    <3>1. \A k \in DOMAIN effects : /\ effects[k].op \in {"put", "send"}
                                    /\ effects[k].op = "put" => HasRecord(effects[k].rec.key, effects[k].rec.id)
      BY <2>1 DEF ResendInv
    <3>2. \A n : WillHave("r", n) <=> HasRecord("r", n)
      BY <3>1 DEF WillHave
    <3>3. \A n : WillHave("r", n)' <=> HasRecord("r", n)
      BY <2>1, EmptyDomain DEF WillHave, HasRecord, Records
    <3> QED
      BY <3>2, <3>3
  <2>3. IdsOf(inboundMsgs)' = IdsOf(inboundMsgs) /\ \A n : Expected(n)' <=> Expected(n)
    BY <2>1 DEF IdsOf, Expected
  <2> QED
    BY <2>1, <2>2, <2>3, EmptyDomain DEF ReceiptInv, Clean
<1>2. CASE AnswerRefused /\ effects' # effects
  <2> DEFINE p == Head(toClient)
  <2>1. /\ effects = <<>> /\ p = toClient[1] /\ 1 \in DOMAIN toClient /\ p.type = "PUBLISH" /\ p.qos = 2 /\ p.id \in Nat
        /\ DOMAIN effects' = {1} /\ IsPut(effects'[1], "r", p.id)
        /\ pstore' = pstore /\ toBroker' = <<>> /\ inboundMsgs' = inboundMsgs /\ brokerOut' = brokerOut /\ alive' = alive
    BY <1>2, RefusedDoes
  <2> HIDE DEF p
  <2>2. Expected(p.id)
    <3>1. TokensMatched /\ ListsInv
      BY DEF CoreInv
    <3>2. PICK i \in DOMAIN brokerOut : Agrees(p, brokerOut[i])
      BY <2>1, <3>1 DEF TokensMatched, Matched, Forth
    <3>3. brokerOut[i].msgid = p.id /\ brokerOut[i].qos = 2 /\ brokerOut[i].next # "PUBCOMP" /\ Proper(brokerOut[i])
      BY <2>1, <3>1, <3>2 DEF Agrees, ListsInv
    <3>4. brokerOut[i] \in Entries
      BY ElementOfSeq, LenProperties DEF CoreInv, SessionTypeOK
    <3>5. brokerOut[i].next = "PUBREC"
      BY <3>3, <3>4 DEF Proper, Entries, Acks
    <3> QED
      BY <3>3, <3>5 DEF Expected
  <2>3. \A n : WillHave("r", n)' <=> WillHave("r", n) \/ n = p.id
    <3>1. \A n : WillHave("r", n) <=> HasRecord("r", n)
      BY <2>1, EmptyDomain DEF WillHave
    <3>2. \A n : HasRecord("r", n)' <=> HasRecord("r", n)
      BY <2>1 DEF HasRecord, Records
    <3>3. effects'[1].op = "put" /\ effects'[1].rec.key = "r" /\ effects'[1].rec.id = p.id
      BY <2>1 DEF IsPut
    <3> QED
      BY <2>1, <3>1, <3>2, <3>3 DEF WillHave
  <2>4. IdsOf(inboundMsgs)' = IdsOf(inboundMsgs) /\ \A n : Expected(n)' <=> Expected(n)
    BY <2>1 DEF IdsOf, Expected
  <2>5. \A k \in DOMAIN effects' : effects'[k].op # "send"
    BY <2>1 DEF IsPut
  <2> QED
    BY <2>1, <2>2, <2>3, <2>4, <2>5, EmptyDomain DEF ReceiptInv, Clean
<1> QED
  BY <1>1, <1>2

\* The broker still waits for the PUBREC of a message it has published, until it has
\* received that PUBREC.
LEMMA BrokerReceipts ==
  ASSUME CoreInv, ReceiptInv, BrokerReceives \/ BrokerPublishes
  PROVE  ReceiptInv'
<1>0. /\ toBroker \in Seq(Packets) /\ brokerOut \in Seq(Entries) /\ TokensMatched /\ ListsInv
  BY DEF CoreInv, SessionTypeOK
<1>1. /\ effects' = effects /\ pstore' = pstore /\ inboundMsgs' = inboundMsgs /\ alive' = alive
  BY BrokerReceivesDoes, BrokerPublishesDoes
<1>2. \A n : WillHave("r", n)' <=> WillHave("r", n)
  BY <1>1 DEF WillHave, HasRecord, Records, Tag
<1>3. IdsOf(inboundMsgs)' = IdsOf(inboundMsgs)
  BY <1>1 DEF IdsOf
<1>4. /\ \A k \in DOMAIN toBroker : toBroker[k].type = "PUBREC" => toBroker[k].id \in IdsOf(inboundMsgs)
      /\ \A k \in DOMAIN effects' : effects'[k].op = "send" /\ effects'[k].rec.type = "PUBREC"
           => effects'[k].rec.id \in IdsOf(inboundMsgs)
  BY <1>1 DEF ReceiptInv
<1>5. \A n : Expected(n) => Expected(n)' \/ n \in IdsOf(inboundMsgs)
  <2>1. CASE BrokerPublishes
    <3>1. brokerOut' = brokerOut \/ \E e : brokerOut' = Append(brokerOut, e)
      BY <2>1 DEF BrokerPublishes
    <3>2. \A i \in DOMAIN brokerOut : i \in DOMAIN brokerOut' /\ brokerOut'[i] = brokerOut[i]
      <4>1. Len(brokerOut) \in Nat /\ DOMAIN brokerOut = 1..Len(brokerOut)
        BY <1>0, LenProperties
      <4> QED
        BY <1>0, <3>1, <4>1
    <3> QED
      BY <3>2 DEF Expected
  <2>2. CASE BrokerReceives
    <3> DEFINE p == Head(toBroker)
               own == {i \in DOMAIN brokerOut : brokerOut[i].msgid = p.id}
    <3>1. toBroker # <<>> /\ p = toBroker[1] /\ 1 \in DOMAIN toBroker
      BY <1>0, <2>2, BrokerReceivesDoes, TailAt
    <3>2. \/ brokerOut' = brokerOut
          \/ p.type \in {"PUBACK", "PUBCOMP"} /\ brokerOut' = Without(brokerOut, p.id)
          \/ /\ p.type = "PUBREC"
             /\ brokerOut' = [i \in DOMAIN brokerOut |-> IF i \in own
                              THEN [brokerOut[i] EXCEPT !.next = "PUBCOMP"] ELSE brokerOut[i]]
      BY <2>2 DEF BrokerReceives, brokerVars
    <3> HIDE DEF p
    <3>3. CASE brokerOut' = brokerOut
      BY <3>3 DEF Expected
    <3>4. CASE p.type \in {"PUBACK", "PUBCOMP"} /\ brokerOut' = Without(brokerOut, p.id)
      <4>1. PICK j \in DOMAIN brokerOut : Agrees(p, brokerOut[j])
        BY <1>0, <3>1, <3>4 DEF TokensMatched, Matched, Back, Acks
      <4>2. brokerOut[j].msgid = p.id /\ brokerOut[j].next # "PUBREC" /\ IdsDiffer(brokerOut)
        BY <1>0, <3>4, <4>1 DEF Agrees, Acks, ListsInv
      <4>3. \A i \in DOMAIN brokerOut : brokerOut[i].msgid # p.id => \E h \in DOMAIN brokerOut' : brokerOut'[h] = brokerOut[i]
        BY <1>0, <3>4, <4>2, WithoutFacts
      <4>4. \A i \in DOMAIN brokerOut : brokerOut[i].next = "PUBREC" => brokerOut[i].msgid # p.id
        BY <4>2 DEF IdsDiffer
      <4> QED
        BY <4>3, <4>4 DEF Expected
    <3>5. CASE /\ p.type = "PUBREC"
               /\ brokerOut' = [i \in DOMAIN brokerOut |-> IF i \in own
                              THEN [brokerOut[i] EXCEPT !.next = "PUBCOMP"] ELSE brokerOut[i]]
      <4>1. p.id \in IdsOf(inboundMsgs)
        BY <1>4, <3>1, <3>5
      <4>2. \A i \in DOMAIN brokerOut : brokerOut[i].msgid # p.id => i \in DOMAIN brokerOut' /\ brokerOut'[i] = brokerOut[i]
        BY <3>5
      <4> QED
        BY <4>1, <4>2 DEF Expected
    <3> QED
      BY <3>2, <3>3, <3>4, <3>5
  <2> QED
    BY <2>1, <2>2
<1>6. \A k \in DOMAIN toBroker' : toBroker'[k].type = "PUBREC" => toBroker'[k].id \in IdsOf(inboundMsgs)
  <2>1. CASE BrokerPublishes
    BY <1>4, <2>1, BrokerPublishesDoes
  <2>2. CASE BrokerReceives
    <3>1. \A k \in DOMAIN toBroker' : k + 1 \in DOMAIN toBroker /\ toBroker'[k] = toBroker[k + 1]
      BY <1>0, <2>2, BrokerReceivesDoes, TailAt
    <3> QED
      BY <1>4, <3>1
  <2> QED
    BY <2>1, <2>2
<1> QED
  BY <1>1, <1>2, <1>3, <1>4, <1>5, <1>6 DEF ReceiptInv, Clean

-------------------------------------------------------------------------------
\* The theorems.

\* The invariant holds of a client that has just been made.
LEMMA SessionInvInit ==
  ASSUME SessionInit
  PROVE  SessionInv
<1>a. /\ alive = TRUE /\ connected = FALSE /\ msgID = MAX_MSG_ID - 1 /\ qentry_seqno = 0
      /\ outboundMsgs = <<>> /\ inboundMsgs = <<>> /\ messageQueue = <<>> /\ effects = <<>> /\ pstore = {}
      /\ link = FALSE /\ toBroker = <<>> /\ toClient = <<>> /\ brokerHeld = {} /\ brokerOut = <<>>
      /\ published = 0 /\ delivered = [m \in Messages |-> 0] /\ qosOf = [m \in Messages |-> 0]
      /\ inSent = 0 /\ completed = {} /\ queued = [m \in Messages |-> 0] /\ crashes = 0
      /\ ~resending /\ ~spoilt
  BY DEF SessionInit, Messages
<1>b. MAX_MSG_ID - 1 \in Nat /\ MaxMessages \in Nat
  BY SessionAssumption
<1>1. SessionTypeOK
  <2>1. IsFiniteSet(pstore)
    BY <1>a, FS_EmptySet
  <2>2. /\ delivered \in [Messages -> Nat] /\ qosOf \in [Messages -> 0..2] /\ queued \in [Messages -> Nat]
    BY <1>a
  <2>3. /\ outboundMsgs \in Seq(Entries) /\ inboundMsgs \in Seq(InEntries) /\ messageQueue \in Seq(QueueEntries)
        /\ effects \in Seq(Effects) /\ toBroker \in Seq(Packets) /\ toClient \in Seq(Packets) /\ brokerOut \in Seq(Entries)
    BY <1>a, EmptyDomain
  <2>4. alive \in BOOLEAN /\ connected \in BOOLEAN /\ link \in BOOLEAN
    BY <1>a
  <2>5. /\ msgID \in Nat /\ qentry_seqno \in Nat /\ published \in Nat /\ inSent \in Nat /\ crashes \in Nat
        /\ published + inSent <= MaxMessages
    BY <1>a, <1>b
  <2>6. brokerHeld \subseteq Nat /\ completed \subseteq Nat /\ pstore \subseteq StoreRecords
    BY <1>a
  <2> QED
    BY <2>1, <2>2, <2>3, <2>4, <2>5, <2>6 DEF SessionTypeOK
<1>d. /\ DOMAIN outboundMsgs = {} /\ DOMAIN inboundMsgs = {} /\ DOMAIN messageQueue = {} /\ DOMAIN effects = {}
      /\ DOMAIN toBroker = {} /\ DOMAIN toClient = {} /\ DOMAIN brokerOut = {}
  BY <1>a, EmptyDomain
<1>2. LinkInv
  BY <1>a, <1>d DEF LinkInv
<1>3. TokensMatched /\ OneToken
  BY <1>d DEF TokensMatched, OneToken
<1>4. ListsInv
  BY <1>d DEF ListsInv, MsgIdsDistinct, IdsDiffer, PublicationOrder
<1>5. KeysInv
  BY <1>a, <1>d DEF KeysInv, IdsDiffer
<1>6. RecordsInv /\ CallsInv /\ (~persistent => pstore = {})
  BY <1>a, <1>d DEF RecordsInv, CallsInv, Records
<1>7. ReleaseInv /\ HeldInv /\ NeverTwice
  BY <1>a, <1>d DEF ReleaseInv, HeldInv, NeverTwice, Records, Messages
<1>8. ReceivedInv
  BY <1>a, <1>d DEF ReceivedInv
<1>9. AgreeInv
  BY <1>a, <1>d DEF AgreeInv, Agreed, WillHave, HasRecord, Records, IdsOf, ReleasedIds, Seqnos
<1>10. CoreInv
  BY <1>1, <1>2, <1>3, <1>4, <1>5, <1>6, <1>7, <1>8, <1>9 DEF CoreInv
<1>11. ReceiptInv
  BY <1>a, <1>d DEF ReceiptInv, WillHave, HasRecord, Records, IdsOf
<1>12. ResendInv
  BY <1>a DEF ResendInv
<1> QED
  BY <1>a, <1>10, <1>11, <1>12 DEF SessionInv

\* A step that restores no client from a damaged disk keeps the core of the invariant.
LEMMA CoreStep ==
  ASSUME CoreInv, ResendInv, [SessionNext]_sessionVars, ~(Restart /\ damaged # {})
  PROVE  CoreInv'
<1>1. CASE Client
  <2>1. CASE Effect
    BY <2>1, EffectStep
  <2>2. CASE Handlers
    BY <2>2, PublishesStep, PubrelsStep, AnswersStep DEF Handlers
  <2>3. CASE MessageArrived
    BY <2>3, MessageArrivedStep
  <2>4. CASE PingTimeout
    BY <2>4, CloseStep
  <2>5. CASE WriteFails
    BY <2>5, BreakStep
  <2>6. CASE RetriesStop
    BY <2>6, RetriesStopStep
  <2>7. CASE AnswerRefused
    BY <2>7, BreakStep, RefusedStep
  <2>8. CASE Flush
    BY <2>8, SameCore DEF Flush, clientMemory, network, brokerVars, outHistory, inHistory, faults
  <2> QED
    BY <1>1, <2>1, <2>2, <2>3, <2>4, <2>5, <2>6, <2>7, <2>8 DEF Client
<1>2. CASE Publish
  BY <1>2, PublishStep
<1>3. CASE Connect
  BY <1>3, ConnectStep
<1>4. CASE Ping
  BY <1>4, PingStep
<1>5. CASE Break \/ SocketError
  BY <1>5, BreakStep, CloseStep
<1>6. CASE Crash
  BY <1>6, CrashStep
<1>7. CASE Restart
  BY <1>7, RestartStep
<1>8. CASE BrokerReceives
  BY <1>8, BrokerReceivesStep
<1>9. CASE BrokerPublishes
  BY <1>9, BrokerPublishesStep
<1>10. CASE UNCHANGED sessionVars
  BY <1>10, SameCore DEF sessionVars, clientMemory, network, brokerVars, outHistory, inHistory, faults
<1> QED
  BY <1>1, <1>2, <1>3, <1>4, <1>5, <1>6, <1>7, <1>8, <1>9, <1>10 DEF SessionNext

\* Such a step keeps what it says of received messages.
LEMMA ReceiptStep ==
  ASSUME CoreInv, ReceiptInv, ResendInv, [SessionNext]_sessionVars, ~(Restart /\ damaged # {})
  PROVE  ReceiptInv'
<1>1. CASE Client
  <2>1. CASE Effect
    BY <2>1, EffectReceipts
  <2>2. CASE Handlers
    BY <2>2, PublishesStep, PubrelsStep, AnswersReceipts DEF Handlers
  <2>3. CASE MessageArrived
    BY <2>3, OwnReceipts
  <2>4. CASE PingTimeout
    BY <2>4, ConnectReceipts
  <2>5. CASE WriteFails
    BY <2>5, LostReceipts
  <2>6. CASE RetriesStop
    BY <2>6, RefusedReceipts
  <2>7. CASE AnswerRefused
    BY <2>7, LostReceipts, RefusedReceipts
  <2>8. CASE Flush
    BY <2>8 DEF Flush, clientMemory, network, brokerVars, ReceiptInv, WillHave, HasRecord, Records, Tag, IdsOf,
       Expected, Clean
  <2> QED
    BY <1>1, <2>1, <2>2, <2>3, <2>4, <2>5, <2>6, <2>7, <2>8 DEF Client
<1>2. CASE Publish \/ Ping
  BY <1>2, OwnReceipts
<1>3. CASE Connect \/ SocketError
  BY <1>3, ConnectReceipts
<1>4. CASE Break
  BY <1>4, LostReceipts
<1>5. CASE Crash
  BY <1>5, CrashDoes, ReceiptNone
<1>6. CASE Restart
  BY <1>6, RestartStep
<1>7. CASE BrokerReceives \/ BrokerPublishes
  BY <1>7, BrokerReceipts
<1>8. CASE UNCHANGED sessionVars
  BY <1>8 DEF sessionVars, clientMemory, network, brokerVars, ReceiptInv, WillHave, HasRecord, Records, Tag, IdsOf,
     Expected, Clean
<1> QED
  BY <1>1, <1>2, <1>3, <1>4, <1>5, <1>6, <1>7, <1>8 DEF SessionNext

\* Only a restart from a damaged disk spoils a session, for good; and only after a
\* crash can there be one.
LEMMA FaultsKept ==
  ASSUME crashes \in Nat, crashes = 0 => alive /\ ~spoilt, [SessionNext]_sessionVars
  PROVE  /\ crashes' \in Nat /\ (crashes' = 0 => alive' /\ ~spoilt')
         /\ ~spoilt' => ~spoilt /\ ~(Restart /\ damaged # {})
<1>1. CASE Crash
  <2>1. crashes' = crashes + 1 /\ spoilt' = spoilt
    BY <1>1 DEF Crash
  <2>2. crashes' \in Nat /\ crashes' # 0 /\ alive
    BY <1>1, <2>1 DEF Crash
  <2> QED
    BY <2>1, <2>2 DEF Restart
<1>2. CASE Restart
  <2>1. ~alive /\ crashes' = crashes /\ spoilt' = (spoilt \/ damaged # {})
    BY <1>2 DEF Restart, faults
  <2> QED
    BY <2>1
<1>3. CASE [SessionNext]_sessionVars /\ ~Crash /\ ~Restart
  <2>1. crashes' = crashes /\ alive' = alive /\ spoilt' = spoilt
    <3>1. CASE Effect \/ WriteFails \/ RetriesStop \/ Flush \/ AnswerRefused
      BY <3>1 DEF Effect, Damaged, Mishap, WriteFails, RetriesStop, Flush, AnswerRefused, faults, disk
    <3>2. CASE Handlers
      BY <3>2 DEF Handlers, handlePublishes, handlePubacks, handlePubrecs, handlePubrels, handlePubcomps,
         handlePingresps, Receive, faults, disk
    <3>3. CASE MessageArrived \/ PingTimeout \/ SocketError \/ Publish \/ Connect \/ Ping \/ Break
      BY <3>3 DEF MessageArrived, PingTimeout, SocketError, CloseSession, Publish, Connect, Ping, Break, faults, disk
    <3>4. CASE BrokerReceives \/ BrokerPublishes \/ UNCHANGED sessionVars
      BY <3>4 DEF BrokerReceives, BrokerPublishes, sessionVars, faults, disk
    <3> QED
      BY <1>3, <3>1, <3>2, <3>3, <3>4 DEF SessionNext, Client
  <2> QED
    BY <1>3, <2>1
<1> QED
  BY <1>1, <1>2, <1>3

\* No step of the client, the broker, the connection or the disk breaks it.
LEMMA SessionInvStep ==
  ASSUME SessionInv, [SessionNext]_sessionVars
  PROVE  SessionInv'
<1>1. /\ crashes' \in Nat /\ (crashes' = 0 => alive' /\ ~spoilt')
      /\ ~spoilt' => ~spoilt /\ ~(Restart /\ damaged # {})
  BY FaultsKept DEF SessionInv
<1>2. ASSUME ~spoilt' PROVE CoreInv' /\ ReceiptInv' /\ ResendInv'
  <2>1. CoreInv /\ ReceiptInv /\ ResendInv /\ ~(Restart /\ damaged # {})
    BY <1>1, <1>2 DEF SessionInv
  <2> QED
    BY <2>1, CoreStep, ReceiptStep, ResendStep
<1> QED
  BY <1>1, <1>2 DEF SessionInv

\* The whole invariant of a session, for every value of the constants: every packet
\* under way belongs to one exchange, no exchange has two, and the lists, the store
\* and the calls to come fit together.  Writes may be cut, MQTTProtocol_retries may
\* stop and records may be lost; it ends when a client is restored from a disk that
\* has lost one.
THEOREM SessionInvariant == SessionSpec => []SessionInv
<1>1. SessionInit => SessionInv
  BY SessionInvInit
<1>2. SessionInv /\ [SessionNext]_sessionVars => SessionInv'
  BY SessionInvStep
<1> QED
  BY <1>1, <1>2, PTL DEF SessionSpec

\* With MQTT 3.1.1, the broker passes a QoS 2 message on at most once, with any
\* connect options and with or without a store, over any number of broken
\* connections, cut writes and crashes between any two calls of the client, until a
\* client is restored from a disk that has lost a record or has a part of one.
THEOREM DeliveredExactlyOnce ==
  ASSUME Version = 4
  PROVE  SessionSpec => []ExactlyOnce
<1>1. SessionInv => ExactlyOnce
  BY DEF SessionInv, CoreInv, NeverTwice, ExactlyOnce
<1> QED
  BY <1>1, SessionInvariant, PTL

\* MQTTProtocol_assignMsgId gives no id that is under way, also after the ids
\* have wrapped or begun again; and until the process is ended once, messages are
\* sent again in the order in which they were published.  The records that a restart
\* reads must be whole.
THEOREM IdsAndOrder == SessionSpec => [](~spoilt => MsgIdsDistinct /\ (crashes = 0 => OutboundOrdered))
<1>1. SessionInv => (~spoilt => MsgIdsDistinct /\ (crashes = 0 => OutboundOrdered))
  BY DEF SessionInv, CoreInv, ListsInv, OutboundOrdered, RetriedInOrder
<1> QED
  BY <1>1, SessionInvariant, PTL

\* A QoS 2 message from the broker is queued for the application once, and before
\* the broker considers it done, unless the process crashed: also when an answer could
\* not be written and the connection was given up.
THEOREM QueuedOnce == SessionSpec => []ReceivedOnce
<1>1. SessionInv => ReceivedOnce
  <2> SUFFICES ASSUME SessionInv, crashes = 0, NEW m \in 1..inSent
               PROVE  /\ m \in completed => queued[m] > 0
                      /\ (\E i \in DOMAIN brokerOut : brokerOut[i].msg = m /\ brokerOut[i].qos = 2) => queued[m] <= 1
    BY DEF ReceivedOnce
  <2>1. ReceivedInv
    BY DEF SessionInv, CoreInv
  <2> QED
    BY <2>1 DEF ReceivedInv
<1> QED
  BY <1>1, SessionInvariant, PTL

\* A persistent session with MQTT 3.1.1: between two calls the records that were put
\* agree with the memory, also when MQTTProtocol_retries has stopped at a pending write
\* and when the answer to a received message was refused: then its record is of a
\* message the broker sends again.
THEOREM StoreAgreesAlways ==
  ASSUME Version = 4, persistent, ~cleansession
  PROVE  SessionSpec => []StoreAgrees
<1>1. SessionInv => StoreAgrees
  <2> SUFFICES ASSUME SessionInv, alive, effects = <<>>, ~spoilt
               PROVE  /\ {e.id : e \in Records("s")} = IdsOf(outboundMsgs)
                      /\ {e.id : e \in Records("sc")} = ReleasedIds
                      /\ IdsOf(inboundMsgs) \subseteq {e.id : e \in Records("r")}
                      /\ \A e \in Records("r") : e.id \in IdsOf(inboundMsgs) \/ Expected(e.id)
                      /\ {e.id : e \in Records("q")} = Seqnos
    BY DEF StoreAgrees, ReleasedIds, Seqnos, Expected
  <2>1. SessionTypeOK /\ AgreeInv
    BY DEF SessionInv, CoreInv, Clean
  <2>2. \A key, n : WillHave(key, n) <=> HasRecord(key, n)
    BY EmptyDomain DEF WillHave
  <2>3. \A e \in pstore : e.id \in Nat
    BY <2>1 DEF SessionTypeOK, StoreRecords
  <2>4. /\ \A n \in Nat : HasRecord("s", n) <=> n \in IdsOf(outboundMsgs)
        /\ \A n \in Nat : HasRecord("sc", n) <=> n \in ReleasedIds
        /\ \A n \in Nat : HasRecord("q", n) <=> n \in Seqnos
    BY <2>1, <2>2 DEF AgreeInv, Agreed
  <2>5. /\ \A n \in IdsOf(inboundMsgs) : HasRecord("r", n)
        /\ \A n : HasRecord("r", n) => n \in IdsOf(inboundMsgs) \/ Expected(n)
    BY <2>2 DEF SessionInv, ReceiptInv, Clean
  <2>6. IdsOf(outboundMsgs) \subseteq Nat /\ ReleasedIds \subseteq Nat /\ Seqnos \subseteq Nat
    <3>1. outboundMsgs \in Seq(Entries) /\ messageQueue \in Seq(QueueEntries)
      BY <2>1 DEF SessionTypeOK
    <3>2. \A i \in DOMAIN outboundMsgs : outboundMsgs[i] \in Entries
      BY <3>1, ElementOfSeq
    <3>3. \A i \in DOMAIN messageQueue : messageQueue[i] \in QueueEntries
      BY <3>1, ElementOfSeq
    <3> QED
      BY <3>2, <3>3 DEF Entries, QueueEntries, IdsOf, ReleasedIds, Seqnos
  <2>7. \A key : \A n : n \in {e.id : e \in Records(key)} <=> n \in Nat /\ HasRecord(key, n)
    BY <2>3 DEF HasRecord, Records
  <2>8. IdsOf(inboundMsgs) \subseteq {e.id : e \in Records("r")}
    BY <2>5 DEF HasRecord
  <2>9. \A e \in Records("r") : e.id \in IdsOf(inboundMsgs) \/ Expected(e.id)
    BY <2>5 DEF HasRecord
  <2> QED
    BY <2>4, <2>6, <2>7, <2>8, <2>9
<1> QED
  BY <1>1, SessionInvariant, PTL
================================================================================
