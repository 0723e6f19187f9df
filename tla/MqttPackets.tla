----------------------------- MODULE MqttPackets -----------------------------
(***************************************************************************)
(* The packet codec of the Paho C client: MQTTPacket.c, MQTTPacketOut.c,   *)
(* MQTTProperties.c and utf-8.c.  An application builds a list of MQTT 5   *)
(* properties, the client sends packets that carry it, and the broker's    *)
(* answers are parsed.  A packet body is the sequence of its bytes; a      *)
(* writer allocates a buffer of a computed length first and then writes    *)
(* through a bare pointer, so the two must agree to the byte.              *)
(* Only well-formed packets are received here: what the parsers do with a  *)
(* packet that lies about its lengths is not modelled.                     *)
(***************************************************************************)
EXTENDS Naturals, Sequences

CONSTANTS
  absent,        \* NULL: a will, user name, password, list or packet that is not there
  MaxMixed,      \* properties of different kinds in one list
  MaxFiller,     \* one-byte properties in one list: beyond 10 the array grows
  MaxText        \* bytes of a text given to UTF8_validate

ASSUME PacketsAssumption == MaxMixed \in Nat /\ MaxFiller \in Nat /\ MaxText \in Nat

VARIABLES
  plist,     \* MQTTProperties: array, max_count, length
  outgoing,  \* the packet last sent: what was meant, the buffer's length, its bytes
  incoming,  \* the packet last received: what the broker said, what was parsed
  utf8       \* a text handed to UTF8_validate

packetVars == <<plist, outgoing, incoming, utf8>>

PUBLISH == 3
PUBREL == 6
DISCONNECT == 14
SUCCESS == 0

Text(n) == [i \in 1 .. n |-> 97]

-----------------------------------------------------------------------------
(* Integers and strings.                                                   *)

writeInt(n) == <<(n \div 256) % 256, n % 256>>
writeInt4(n) == <<n \div 16777216, (n \div 65536) % 256, (n \div 256) % 256, n % 256>>
writeUTF(s) == writeInt(Len(s)) \o s
writeData(d) == writeInt(Len(d)) \o d
writeMQTTLenString(s) == writeInt(Len(s)) \o s

\* MQTTPacket_encode, for the lengths below 2^28 that MQTT allows
RECURSIVE MQTTPacket_encode(_)
MQTTPacket_encode(n) ==
  IF n < 128 THEN <<n>> ELSE <<(n % 128) + 128>> \o MQTTPacket_encode(n \div 128)

MutantVBIlen(n) == IF n <= 128 THEN 1 ELSE IF n < 16384 THEN 2 ELSE IF n < 2097152 THEN 3 ELSE 4
MQTTPacket_VBIlen(n) == IF n < 128 THEN 1 ELSE IF n < 16384 THEN 2 ELSE IF n < 2097152 THEN 3 ELSE 4

\* A read at position i gives what was read and the position after it.
readChar(b, i) == [value |-> b[i], next |-> i + 1]
readInt(b, i) == [value |-> 256 * b[i] + b[i + 1], next |-> i + 2]
readInt4(b, i) ==
  [value |-> 16777216 * b[i] + 65536 * b[i + 1] + 256 * b[i + 2] + b[i + 3], next |-> i + 4]

\* MQTTPacket_decodeBuf over MQTTPacket_VBIdecode: at most four bytes
MQTTPacket_decodeBuf(b, i) ==
  LET len == CHOOSE n \in 1 .. 4 : b[i + n - 1] < 128 /\ \A k \in 1 .. (n - 1) : b[i + k - 1] >= 128
      Digit(k) == (b[i + k - 1] % 128) * 128 ^ (k - 1)
  IN [value |-> Digit(1) + (IF len > 1 THEN Digit(2) ELSE 0) + (IF len > 2 THEN Digit(3) ELSE 0)
                  + (IF len > 3 THEN Digit(4) ELSE 0),
      next |-> i + len]

\* readUTFlen and MQTTLenStringRead: refused unless length and text end by enddata
StringFits(b, i) == Len(b) - i + 1 > 1 /\ i + 2 + readInt(b, i).value <= Len(b) + 1
readUTFlen(b, i) == LET n == readInt(b, i).value
                    IN [value |-> SubSeq(b, i + 2, i + 1 + n), next |-> i + 2 + n]
MQTTLenStringRead(b, i) == readUTFlen(b, i)

-----------------------------------------------------------------------------
(* MQTT 5 properties.                                                      *)

namesToTypes(id) ==
  CASE id \in {1, 23, 25, 36, 37, 40, 41, 42} -> "BYTE"
    [] id \in {19, 33, 34, 35} -> "TWO"
    [] id \in {2, 17, 24, 39} -> "FOUR"
    [] id = 11 -> "VARIABLE"
    [] id \in {9, 22} -> "BINARY"
    [] id \in {3, 8, 18, 21, 26, 28, 31} -> "STRING"
    [] id = 38 -> "PAIR"
    [] OTHER -> "NONE"                    \* MQTTProperty_getType returns -1
MQTTProperty_getType(id) == namesToTypes(id)

\* the value is a union: a number, one string, or a name and its value
Number(id, n) == [id |-> id, value |-> n, data |-> <<>>, pair |-> <<>>]
Data(id, d) == [id |-> id, value |-> 0, data |-> d, pair |-> <<>>]
Pair(id, d, v) == [id |-> id, value |-> 0, data |-> d, pair |-> v]

\* the length MQTTProperties_add counts for a value
PropertyLen(p) ==
  CASE MQTTProperty_getType(p.id) = "BYTE" -> 1
    [] MQTTProperty_getType(p.id) = "TWO" -> 2
    [] MQTTProperty_getType(p.id) = "FOUR" -> 4
    [] MQTTProperty_getType(p.id) = "VARIABLE" -> MQTTPacket_VBIlen(p.value)
    [] MQTTProperty_getType(p.id) \in {"BINARY", "STRING"} -> 2 + Len(p.data)
    [] MQTTProperty_getType(p.id) = "PAIR" -> 4 + Len(p.data) + Len(p.pair)

NoProperties == [array |-> <<>>, max_count |-> 0, length |-> 0]

\* room for one more element: the array is allocated and extended by tens
Extended(props) == IF Len(props.array) = props.max_count THEN props.max_count + 10
                   ELSE props.max_count

MQTTProperties_add(props, p) ==
  IF MQTTProperty_getType(p.id) = "NONE" THEN props
  ELSE [array |-> Append(props.array, p), max_count |-> Extended(props),
        length |-> props.length + PropertyLen(p) + 1]

RECURSIVE CopyFrom(_, _, _)
CopyFrom(result, array, i) ==
  IF i > Len(array) THEN result ELSE CopyFrom(MQTTProperties_add(result, array[i]), array, i + 1)
MQTTProperties_copy(props) == CopyFrom(NoProperties, props.array, 1)

MQTTProperty_write(p) ==
  CASE MQTTProperty_getType(p.id) = "BYTE" -> <<p.id, p.value>>
    [] MQTTProperty_getType(p.id) = "TWO" -> <<p.id>> \o writeInt(p.value)
    [] MQTTProperty_getType(p.id) = "FOUR" -> <<p.id>> \o writeInt4(p.value)
    [] MQTTProperty_getType(p.id) = "VARIABLE" -> <<p.id>> \o MQTTPacket_encode(p.value)
    [] MQTTProperty_getType(p.id) \in {"BINARY", "STRING"} -> <<p.id>> \o writeMQTTLenString(p.data)
    [] MQTTProperty_getType(p.id) = "PAIR" ->
         <<p.id>> \o writeMQTTLenString(p.data) \o writeMQTTLenString(p.pair)
    [] OTHER -> <<>>

RECURSIVE WriteFrom(_, _)
WriteFrom(array, i) ==
  IF i > Len(array) THEN <<>> ELSE MQTTProperty_write(array[i]) \o WriteFrom(array, i + 1)
MQTTProperties_write(props) == MQTTPacket_encode(props.length) \o WriteFrom(props.array, 1)
MQTTProperties_len(props) == props.length + MQTTPacket_VBIlen(props.length)

MQTTProperty_read(b, i) ==
  LET id == readChar(b, i).value
      Is(types) == MQTTProperty_getType(id) \in types
      n == CASE Is({"BYTE"}) -> readChar(b, i + 1)
             [] Is({"TWO"}) -> readInt(b, i + 1)
             [] Is({"FOUR"}) -> readInt4(b, i + 1)
             [] Is({"VARIABLE"}) -> MQTTPacket_decodeBuf(b, i + 1)
      d == MQTTLenStringRead(b, i + 1)
      v == MQTTLenStringRead(b, d.next)
  IN CASE Is({"BINARY", "STRING"}) -> [value |-> Data(id, d.value), next |-> d.next]
       [] Is({"PAIR"}) -> [value |-> Pair(id, d.value, v.value), next |-> v.next]
       [] OTHER -> [value |-> Number(id, n.value), next |-> n.next]

\* while (remlength > 0): what is left is counted down by the length of each property
RECURSIVE ReadWhile(_, _, _, _)
ReadWhile(props, b, i, remlength) ==
  IF remlength = 0 THEN [value |-> props, next |-> i]
  ELSE LET r == MQTTProperty_read(b, i)
       IN ReadWhile([props EXCEPT !.array = Append(@, r.value), !.max_count = Extended(props)],
                    b, r.next, remlength - (r.next - i))
MQTTProperties_read(b, i) ==
  LET rem == MQTTPacket_decodeBuf(b, i)
  IN ReadWhile([NoProperties EXCEPT !.length = rem.value], b, rem.next, rem.value)

\* Lookup by identifier: the index-th property of that name, counted from 0
RECURSIVE ScanFrom(_, _, _, _)
ScanFrom(array, id, index, i) ==
  IF i > Len(array) THEN 0
  ELSE IF array[i].id # id THEN ScanFrom(array, id, index, i + 1)
  ELSE IF index = 0 THEN i ELSE ScanFrom(array, id, index - 1, i + 1)
MQTTProperties_hasProperty(props, id) == \E i \in 1 .. Len(props.array) : props.array[i].id = id
MQTTProperties_propertyCount(props, id) == Len(SelectSeq(props.array, LAMBDA p : p.id = id))
MQTTProperties_getPropertyAt(props, id, index) == ScanFrom(props.array, id, index, 1)
NoValue == 9999999       \* -9999999 and -999999 in the code
NotNumeric == 999999
MQTTProperties_getNumericValueAt(props, id, index) ==
  LET at == MQTTProperties_getPropertyAt(props, id, index)
  IN IF at = 0 THEN NoValue
     ELSE IF MQTTProperty_getType(id) \in {"BYTE", "TWO", "FOUR", "VARIABLE"} THEN props.array[at].value
     ELSE NotNumeric

-----------------------------------------------------------------------------
(* Packets out.  Each writer gives the length it computed and the bytes it *)
(* wrote.                                                                  *)

Bits(b, k) == IF b THEN 2 ^ k ELSE 0
Header(type, dup, qos, retain) == 16 * type + Bits(dup, 3) + 2 * qos + Bits(retain, 0)

ListLen(props) == IF props = absent THEN 1 ELSE MQTTProperties_len(props)
ListBytes(props) == IF props = absent THEN MQTTPacket_encode(0) ELSE MQTTProperties_write(props)

ConnectFlags(c) ==
  Bits(c.clean, 1) + Bits(c.will # absent, 2)
    + (IF c.will = absent THEN 0 ELSE 8 * c.will.qos + Bits(c.will.retained, 5))
    + Bits(c.password # absent, 6) + Bits(c.username # absent, 7)

MQTTPacket_send_connect(c) ==
  LET v5 == c.version >= 5
      will == c.will # absent
  IN [length |->
        (IF c.version = 3 THEN 12 ELSE 10) + Len(c.clientID) + 2
          + (IF will THEN Len(c.will.topic) + 2 + Len(c.will.payload) + 2 ELSE 0)
          + (IF c.username # absent THEN Len(c.username) + 2 ELSE 0)
          + (IF c.password # absent THEN Len(c.password) + 2 ELSE 0)
          + (IF v5 THEN ListLen(c.properties) ELSE 0)
          + (IF v5 /\ will THEN ListLen(c.will.properties) ELSE 0),
      bytes |->
        (IF c.version = 3 THEN writeUTF(Text(6)) ELSE writeUTF(Text(4)))
          \o <<c.version, ConnectFlags(c)>> \o writeInt(c.keepAlive)
          \o (IF v5 THEN ListBytes(c.properties) ELSE <<>>) \o writeUTF(c.clientID)
          \o (IF ~will THEN <<>>
              ELSE (IF v5 THEN ListBytes(c.will.properties) ELSE <<>>)
                     \o writeUTF(c.will.topic) \o writeData(c.will.payload))
          \o (IF c.username # absent THEN writeUTF(c.username) ELSE <<>>)
          \o (IF c.password # absent THEN writeData(c.password) ELSE <<>>)]

RECURSIVE Concat(_, _)
Concat(f, i) == IF i > Len(f) THEN <<>> ELSE f[i] \o Concat(f, i + 1)
RECURSIVE Total(_, _)
Total(f, i) == IF i > Len(f) THEN 0 ELSE Len(f[i]) + Total(f, i + 1)

\* one byte of options per topic: MQTT 5 packs four fields into it
SubscribeOptions(v5, t) ==
  t.qos + (IF v5 THEN 4 * t.noLocal + 8 * t.retainAsPublished + 16 * t.retainHandling ELSE 0)

MQTTPacket_send_subscribe(s) ==
  LET v5 == s.version >= 5
      names == [i \in 1 .. Len(s.topics) |-> s.topics[i].name]
      list == IF v5 THEN ListBytes(s.properties) ELSE <<>>
  IN [length |-> 2 + 3 * Len(s.topics) + Total(names, 1) + (IF v5 THEN ListLen(s.properties) ELSE 0),
      bytes |-> writeInt(s.msgid) \o list
                  \o Concat([i \in 1 .. Len(s.topics) |->
                               writeUTF(names[i]) \o <<SubscribeOptions(v5, s.topics[i])>>], 1)]

MQTTPacket_send_unsubscribe(s) ==
  LET v5 == s.version >= 5
      names == [i \in 1 .. Len(s.topics) |-> s.topics[i].name]
  IN [length |-> 2 + 2 * Len(s.topics) + Total(names, 1) + (IF v5 THEN ListLen(s.properties) ELSE 0),
      bytes |-> writeInt(s.msgid) \o (IF v5 THEN ListBytes(s.properties) ELSE <<>>)
                  \o Concat([i \in 1 .. Len(s.topics) |-> writeUTF(names[i])], 1)]

\* four buffers, or three when there is neither a message id nor a property list
MQTTPacket_send_publish(m) ==
  LET id == IF m.qos > 0 THEN writeInt(m.msgId) ELSE <<>>
      list == IF m.version >= 5 THEN MQTTProperties_write(m.properties) ELSE <<>>
  IN [length |-> 2 + Len(m.topic) + (IF m.qos > 0 THEN 2 ELSE 0)
                   + (IF m.version >= 5 THEN MQTTProperties_len(m.properties) ELSE 0) + Len(m.payload),
      bytes |-> writeInt(Len(m.topic)) \o m.topic \o id \o list \o m.payload]

MQTTPacket_send_disconnect(d) ==
  IF d.version >= 5 /\ (d.properties # absent \/ d.reason # SUCCESS)
  THEN [length |-> 1 + (IF d.properties = absent THEN 0 ELSE MQTTProperties_len(d.properties)),
        bytes |-> <<d.reason>> \o (IF d.properties = absent THEN <<>> ELSE MQTTProperties_write(d.properties))]
  ELSE [length |-> 0, bytes |-> <<>>]

\* puback, pubrec, pubrel and pubcomp: always in the form of version 3.1.1
MQTTPacket_send_ack(a) == [length |-> 2, bytes |-> writeInt(a.msgId)]

-----------------------------------------------------------------------------
(* Packets in.  A parser returns a record of the fields, and where it      *)
(* stopped, or NULL.                                                       *)

ListFrom(v5, b, i) == IF v5 THEN MQTTProperties_read(b, i) ELSE [value |-> NoProperties, next |-> i]

MQTTPacket_publish(version, header, b) ==
  LET topic == readUTFlen(b, 1)
      qos == (header \div 2) % 4
      id == IF qos > 0 THEN readInt(b, topic.next) ELSE [value |-> 0, next |-> topic.next]
      list == ListFrom(version >= 5, b, id.next)
  IN IF ~StringFits(b, 1) THEN absent
     ELSE [qos |-> qos, topic |-> topic.value, msgId |-> id.value, properties |-> list.value,
           payload |-> SubSeq(b, list.next, Len(b))]

MQTTPacket_connack(version, b) ==
  IF version < 5 /\ Len(b) # 2 THEN absent
  ELSE [flags |-> b[1], rc |-> b[2], properties |-> ListFrom(version >= 5 /\ Len(b) > 2, b, 3).value]

\* MQTTPacket_ack serves PUBACK .. PUBCOMP and DISCONNECT, which has no message id
MQTTPacket_ack(version, type, b) ==
  LET id == IF type # DISCONNECT THEN readInt(b, 1) ELSE [value |-> 0, next |-> 1]
      v5 == version >= 5
      reason == IF v5 /\ Len(b) > 2 THEN readChar(b, id.next) ELSE [value |-> SUCCESS, next |-> id.next]
  IN [msgId |-> id.value, rc |-> reason.value,
      properties |-> ListFrom(v5 /\ Len(b) > 3, b, reason.next).value]

MQTTPacket_suback(version, b) ==
  LET id == readInt(b, 1)
      list == ListFrom(version >= 5, b, id.next)
      codes == SubSeq(b, list.next, Len(b))
  IN IF codes = <<>> THEN absent ELSE [msgId |-> id.value, properties |-> list.value, codes |-> codes]

\* version 3 answers an unsubscribe without reason codes
MQTTPacket_unsuback(version, b) ==
  IF version < 5 THEN [msgId |-> readInt(b, 1).value, properties |-> NoProperties, codes |-> <<>>]
  ELSE MQTTPacket_suback(version, b)

-----------------------------------------------------------------------------
(* utf-8.c: a character's length comes from its first byte, and it must    *)
(* match one row of valid_ranges.                                          *)

CharLen(b) == IF b < 128 THEN 1 ELSE IF b >= 240 THEN 4 ELSE IF b >= 224 THEN 3 ELSE 2
Tail3 == 128 .. 191
valid_ranges ==
  { <<0 .. 127>>, <<194 .. 223, Tail3>>,
    <<{224}, 160 .. 191, Tail3>>, <<225 .. 236, Tail3, Tail3>>,
    <<{237}, 128 .. 159, Tail3>>, <<238 .. 239, Tail3, Tail3>>,
    <<{240}, 144 .. 191, Tail3, Tail3>>, <<241 .. 243, Tail3, Tail3, Tail3>>,
    <<{244}, 128 .. 143, Tail3, Tail3>> }
UTF8_char_validate(s, i) ==
  /\ i + CharLen(s[i]) <= Len(s) + 1
  /\ \E row \in valid_ranges :
        Len(row) = CharLen(s[i]) /\ \A j \in 1 .. Len(row) : s[i + j - 1] \in row[j]

RECURSIVE ValidFrom(_, _)
ValidFrom(s, i) == i > Len(s) \/ (UTF8_char_validate(s, i) /\ ValidFrom(s, i + CharLen(s[i])))
UTF8_validate(s) == ValidFrom(s, 1)

-----------------------------------------------------------------------------
(* The steps.  Everything sent carries the list as it stands.              *)

PropertyValues ==
  { Number(36, 1), Number(33, 300), Number(17, 70000), Number(11, 127), Number(11, 128),
    Data(31, Text(2)), Data(9, Text(122)), Pair(38, Text(1), Text(2)), Number(5, 1) }
Filler == Number(36, 1)
\* the first bytes, last bytes and neighbours of the ranges of utf-8.c
Utf8Bytes == {65, 128, 143, 144, 159, 160, 191, 193, 194, 224, 237, 240, 244}

PacketsInit ==
  /\ plist = NoProperties
  /\ outgoing = absent
  /\ incoming = absent
  /\ utf8 = <<>>

AddProperty ==
  /\ \E p \in PropertyValues :
       /\ \/ Len(plist.array) < MaxMixed
          \/ p = Filler /\ Len(plist.array) < MaxFiller
               /\ \A i \in 1 .. Len(plist.array) : plist.array[i] = Filler
       /\ plist' = MQTTProperties_add(plist, p)
  /\ UNCHANGED <<outgoing, incoming, utf8>>

MQTTProperties_free ==
  /\ plist' = NoProperties
  /\ UNCHANGED <<outgoing, incoming, utf8>>

\* a message that has to wait is queued with a copy of its properties
CopyList ==
  /\ plist' = MQTTProperties_copy(plist)
  /\ UNCHANGED <<outgoing, incoming, utf8>>

Versions == {v \in {3, 4, 5} : v = 5 \/ plist = NoProperties}
Lists == IF plist = NoProperties THEN {absent, plist} ELSE {plist}
Wills == {absent} \cup [topic : {Text(2)}, payload : {<<>>, Text(3)}, qos : 0 .. 2, retained : {TRUE},
                        properties : Lists]
Topics == {<<t>> : t \in [name : {Text(1)}, qos : 0 .. 2, noLocal : 0 .. 1,
                          retainAsPublished : {1}, retainHandling : {2}]}
          \cup {<<[name |-> Text(1), qos |-> 1, noLocal |-> 0, retainAsPublished |-> 0, retainHandling |-> 0],
                  [name |-> Text(2), qos |-> 2, noLocal |-> 1, retainAsPublished |-> 1, retainHandling |-> 0]>>}

Connects == [version : Versions, clientID : {<<>>, Text(3)}, clean : BOOLEAN, keepAlive : {60, 300},
             will : Wills, username : {absent, Text(2)}, password : {absent, Text(1)}, properties : Lists]
Subscribes == [version : Versions, msgid : {1, 65535}, topics : Topics, properties : Lists]
Publishes == [version : Versions, qos : 0 .. 2, msgId : {1, 65535}, topic : {Text(1), Text(2)},
              payload : {<<>>, Text(3)}, properties : {plist}]
Disconnects == [version : Versions, reason : {SUCCESS, 4}, properties : Lists]

Sent(kind, meant, packet) == outgoing' = [kind |-> kind, meant |-> meant, packet |-> packet]

SendPacket ==
  /\ \/ \E c \in Connects : Sent("connect", c, MQTTPacket_send_connect(c))
     \/ \E s \in Subscribes : Sent("subscribe", s, MQTTPacket_send_subscribe(s))
     \/ \E s \in Subscribes : Sent("unsubscribe", s, MQTTPacket_send_unsubscribe(s))
     \/ \E m \in Publishes : Sent("publish", m, MQTTPacket_send_publish(m))
     \/ \E d \in Disconnects : Sent("disconnect", d, MQTTPacket_send_disconnect(d))
     \/ \E id \in {1, 65535} : Sent("ack", [msgId |-> id], MQTTPacket_send_ack([msgId |-> id]))
  /\ UNCHANGED <<plist, incoming, utf8>>

\* The broker (external): its packets in the format of the standard.
ListOf(version) == IF version = 5 THEN MQTTProperties_write(plist) ELSE <<>>
Parsed(said, got) == incoming' = [said |-> said, got |-> got]

Receive ==
  /\ \E v \in Versions, id \in {1, 65535} :
       \/ \E flags \in 0 .. 1, rc \in {0, 5} :
            Parsed([flags |-> flags, rc |-> rc, properties |-> plist],
                   MQTTPacket_connack(v, <<flags, rc>> \o ListOf(v)))
       \/ \E codes \in {<<0>>, <<2, 128>>} :
            Parsed([msgId |-> id, properties |-> plist, codes |-> codes],
                   MQTTPacket_suback(v, writeInt(id) \o ListOf(v) \o codes))
       \/ \E codes \in {<<0>>, <<17, 0>>} :
            Parsed([msgId |-> id, properties |-> plist, codes |-> IF v = 5 THEN codes ELSE <<>>],
                   MQTTPacket_unsuback(v, writeInt(id) \o (IF v = 5 THEN ListOf(v) \o codes ELSE <<>>)))
       \/ \E m \in {p \in Publishes : p.version = v} :
            Parsed([qos |-> m.qos, topic |-> m.topic, msgId |-> IF m.qos > 0 THEN m.msgId ELSE 0,
                    properties |-> m.properties, payload |-> m.payload],
                   MQTTPacket_publish(v, Header(PUBLISH, FALSE, m.qos, FALSE),
                                      MQTTPacket_send_publish(m).bytes))
       \/ \E rc \in {0, 16} :   \* the reason may be left out if 0, the list if empty
            \E form \in {<<>>} \cup (IF v = 5 THEN {<<rc>>, <<rc>> \o ListOf(5)} ELSE {}) :
              /\ form = <<>> => rc = 0
              /\ Len(form) < 2 => plist = NoProperties
              /\ Parsed([msgId |-> id, rc |-> rc, properties |-> plist],
                        MQTTPacket_ack(v, PUBREL, writeInt(id) \o form))
       \/ \E rc \in {0, 142} :  \* see Limits in the README for a reason without a list
            /\ v = 5 /\ plist # NoProperties
            /\ Parsed([msgId |-> 0, rc |-> rc, properties |-> plist],
                      MQTTPacket_ack(5, DISCONNECT, <<rc>> \o ListOf(5)))
  /\ UNCHANGED <<plist, outgoing, utf8>>

\* the packet is with the socket, or its fields with the caller
PacketGone ==
  /\ outgoing' = absent /\ incoming' = absent
  /\ UNCHANGED <<plist, utf8>>

TypeByte ==
  /\ Len(utf8) < MaxText
  /\ plist = NoProperties
  /\ \E b \in Utf8Bytes : utf8' = Append(utf8, b)
  /\ UNCHANGED <<plist, outgoing, incoming>>

Quiet == outgoing = absent /\ incoming = absent

PacketsNext ==
  \/ /\ Quiet /\ utf8 = <<>>
     /\ AddProperty \/ MQTTProperties_free \/ CopyList \/ SendPacket \/ Receive
  \/ ~Quiet /\ PacketGone
  \/ Quiet /\ TypeByte

-----------------------------------------------------------------------------
(* What the codec owes.                                                    *)

\* How MQTT 5 and 3.1.1 describe the packets: the reading a broker gives them.
BrokerString(b, i) == [value |-> SubSeq(b, i + 2, i + 1 + 256 * b[i] + b[i + 1]),
                       next |-> i + 2 + 256 * b[i] + b[i + 1]]
Skip(value, i) == [value |-> value, next |-> i]
BrokerList(v5, b, i) == IF v5 THEN MQTTProperties_read(b, i) ELSE Skip(NoProperties, i)
Meant(list) == IF list = absent THEN NoProperties ELSE list

\* The fields of these kinds from position i on, and the position after them.
RECURSIVE BrokerFields(_, _, _)
FieldThen(field, b, kinds) == <<field.value>> \o BrokerFields(b, field.next, kinds)
BrokerFields(b, i, kinds) ==
  IF kinds = <<>> THEN <<i>>
  ELSE FieldThen(IF Head(kinds) = "list" THEN MQTTProperties_read(b, i) ELSE BrokerString(b, i), b, Tail(kinds))

\* A CONNECT: name, version, flags, keep alive, and the fields the flags announce. The name
\* takes 8 bytes in version 3, 6 in the others.
BrokerReadsConnect(c, b) ==
  LET at == BrokerString(b, 1).next
      Flag(k) == (b[at + 1] \div 2 ^ k) % 2 = 1
      Only(given, fields) == IF given THEN fields ELSE <<>>
      v5 == c.version = 5
      will == c.will # absent
      list == Only(v5, <<"list">>)
      text == <<"string">>
  IN /\ b[at] = c.version
     /\ Flag(1) = c.clean /\ Flag(2) = will
     /\ Flag(6) = (c.password # absent) /\ Flag(7) = (c.username # absent)
     /\ will => (b[at + 1] \div 8) % 4 = c.will.qos /\ Flag(5) = c.will.retained
     /\ readInt(b, at + 2).value = c.keepAlive
     /\ BrokerFields(b, at + 4, list \o text \o Only(will, list \o text \o text)
                                  \o Only(Flag(7), text) \o Only(Flag(6), text))
          = Only(v5, <<Meant(c.properties)>>) \o <<c.clientID>>
              \o Only(will, Only(v5, <<Meant(c.will.properties)>>) \o <<c.will.topic, c.will.payload>>)
              \o Only(Flag(7), <<c.username>>) \o Only(Flag(6), <<c.password>>) \o <<Len(b) + 1>>

RECURSIVE BrokerReadsTopics(_, _, _, _)
BrokerReadsTopics(s, b, i, k) ==
  IF k > Len(s.topics) THEN i = Len(b) + 1
  ELSE LET t == s.topics[k]
           name == BrokerString(b, i)
           opts == b[name.next]
       IN /\ name.value = t.name
          /\ opts % 4 = t.qos
          /\ s.version = 5 => /\ (opts \div 4) % 2 = t.noLocal
                              /\ (opts \div 8) % 2 = t.retainAsPublished
                              /\ opts \div 16 = t.retainHandling
          /\ BrokerReadsTopics(s, b, name.next + 1, k + 1)

\* Unicode's own definition of the encoding, by the code point it stands for.
CodePoint(s, i, n) ==
  IF n = 1 THEN s[i]
  ELSE IF n = 2 THEN (s[i] - 192) * 64 + (s[i + 1] - 128)
  ELSE IF n = 3 THEN (s[i] - 224) * 4096 + (s[i + 1] - 128) * 64 + (s[i + 2] - 128)
  ELSE (s[i] - 240) * 262144 + (s[i + 1] - 128) * 4096 + (s[i + 2] - 128) * 64 + (s[i + 3] - 128)
Shortest == <<0, 128, 2048, 65536>>
Scalar(s, i, n) ==
  /\ n # 2 \/ s[i] >= 192
  /\ \A k \in 1 .. (n - 1) : i + k <= Len(s) /\ s[i + k] \in 128 .. 191
  /\ LET c == CodePoint(s, i, n)
     IN c >= Shortest[n] /\ c <= 1114111 /\ c \notin 55296 .. 57343
RECURSIVE Unicode(_, _)
Unicode(s, i) ==
  \/ i > Len(s)
  \/ LET n == IF s[i] < 128 THEN 1 ELSE IF s[i] < 224 THEN 2 ELSE IF s[i] < 240 THEN 3 ELSE 4
     IN Scalar(s, i, n) /\ Unicode(s, i + n)

\* Every writer fills exactly the buffer it allocated (MQTTPacket.c, MQTTPacketOut.c):
\* the length computed beforehand, for every version, will, list and name, is the
\* number of bytes written.
BuffersFilled == outgoing # absent => Len(outgoing.packet.bytes) = outgoing.packet.length

\* The length kept in MQTTProperties is the one its elements take when written, also
\* across a copy, and the array never holds more than was allocated.
PropertyListSound ==
  /\ plist.length = Len(WriteFrom(plist.array, 1))
  /\ Len(plist.array) <= plist.max_count

\* A lookup by identifier returns the index-th property of that name, or none.
LookupsAgree ==
  \A id \in {9, 11, 17, 36} : \A k \in 0 .. MaxMixed :
    LET named == SelectSeq(plist.array, LAMBDA p : p.id = id)
        at == MQTTProperties_getPropertyAt(plist, id, k)
    IN /\ MQTTProperties_hasProperty(plist, id) = (named # <<>>)
       /\ (at # 0) = (k < MQTTProperties_propertyCount(plist, id))
       /\ at # 0 => /\ plist.array[at] = named[k + 1]
                    /\ MQTTProperties_getNumericValueAt(plist, id, k) \in {named[k + 1].value, NotNumeric}

\* What is sent is what was meant, read as the standard reads it.
SentAsMeant ==
  outgoing # absent =>
    LET b == outgoing.packet.bytes
        m == outgoing.meant
    IN CASE outgoing.kind = "connect" -> BrokerReadsConnect(m, b)
         [] outgoing.kind = "subscribe" ->
              LET list == BrokerList(m.version = 5, b, 3)
              IN readInt(b, 1).value = m.msgid /\ BrokerReadsTopics(m, b, list.next, 1)
         [] OTHER -> TRUE

\* A well-formed packet of the broker is parsed into exactly what the broker said.
\* max_count is the only part of a list that is not on the wire.
ParsedAsSaid ==
  incoming # absent =>
    /\ incoming.got # absent
    /\ [incoming.got EXCEPT !.properties.max_count = 0] = [incoming.said EXCEPT !.properties.max_count = 0]

\* UTF8_validate accepts exactly the texts Unicode calls well formed: no overlong form,
\* no surrogate, nothing above U+10FFFF, no character cut off at the end.
Utf8Exact == UTF8_validate(utf8) = Unicode(utf8, 1)

\* The codec: buffers filled to the byte, property lists that know their length, packets
\* that mean on the wire what they mean in memory in both directions, and exactly the
\* UTF-8 texts of Unicode.
PacketsSound == BuffersFilled /\ PropertyListSound /\ LookupsAgree /\ SentAsMeant /\ ParsedAsSaid /\ Utf8Exact
=============================================================================
