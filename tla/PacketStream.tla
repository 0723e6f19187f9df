----------------------------- MODULE PacketStream ------------------------------
(***************************************************************************)
(* MQTT packets on non-blocking sockets: Socket.c, SocketBuffer.c and the  *)
(* reading and sending of MQTTPacket.c.  A write may be cut short by a     *)
(* full send buffer and is continued by the thread that selects; a read    *)
(* may end anywhere in a packet, and what was read is queued.              *)
(* Bytes are numbers: the digits of a length are below 2 * Radix, the byte *)
(* i of packet p (0 for its type) is Stride * p + i.                       *)
(***************************************************************************)
EXTENDS Integers, Sequences, FiniteSets, SequencesExt, FiniteSetsExt

CONSTANTS
  Stride,      \* tells the bytes of different packets apart
  Radix,       \* 128 in the code: a length byte holds a digit and one bit
  MAX_NO_OF_REMAINING_LENGTH_BYTES,
  InPackets,     \* for each socket, the lengths of the packets the broker sends
  OutPackets,    \* for each, the packets the application writes: buffer lengths
  SendRoom     \* size of a socket's send buffer

ASSUME StreamAssumption ==
  /\ {Radix, Stride, SendRoom, MAX_NO_OF_REMAINING_LENGTH_BYTES} \subseteq Nat \ {0}
  /\ Radix > 1 /\ 2 * Radix <= Stride /\ DOMAIN InPackets = DOMAIN OutPackets
  /\ \A s \in DOMAIN InPackets : InPackets[s] \in Seq(0..(Stride - 1)) /\ OutPackets[s] \in Seq(Seq(Nat))

Streams == DOMAIN InPackets

VARIABLES
  reached,    \* bytes of the broker's stream that have reached the socket
  consumed,   \* ... and that recv has taken
  rqueue,     \* [header, data]: fixed_header and buf of the socket's socket_queue
  parsed,     \* the packets MQTTPacket_Factory has returned
  wpending,   \* the socket's pending_writes, or NoWrite
  handed,     \* all bytes writev has taken
  drained,    \* ... and the broker has read
  begun,      \* the packets given to Socket_putdatas, one after the other
  appOut,     \* how many of them are the application's
  opened,     \* is the socket open?
  selected    \* what Socket_getReadySocket has returned, 0 for none

streamVars == <<reached, consumed, rqueue, parsed, wpending, handed, drained, begun, appOut, opened, selected>>

NoQueue == [header |-> <<>>, data |-> <<>>]
NoWrite == [iovecs |-> <<>>, total |-> 0, bytes |-> 0]

StreamInit ==
  /\ reached = [s \in Streams |-> 0] /\ consumed = [s \in Streams |-> 0]
  /\ rqueue = [s \in Streams |-> NoQueue] /\ parsed = [s \in Streams |-> <<>>]
  /\ wpending = [s \in Streams |-> NoWrite] /\ handed = [s \in Streams |-> <<>>]
  /\ drained = [s \in Streams |-> 0] /\ begun = [s \in Streams |-> <<>>] /\ appOut = [s \in Streams |-> 0]
  /\ opened = [s \in Streams |-> TRUE] /\ selected = 0
-------------------------------------------------------------------------------
\* Packets as bytes.

\* MQTTPacket_encode: the digits of a length, the lowest first.
Encoded[n \in 0..(Stride - 1)] == IF n < Radix THEN <<n>> ELSE <<(n % Radix) + Radix>> \o Encoded[n \div Radix]

\* The broker's lengths have at most the digits that MQTT allows.
ASSUME LengthAssumption ==
  \A s \in Streams : \A p \in DOMAIN InPackets[s] :
    Len(Encoded[InPackets[s][p]]) <= MAX_NO_OF_REMAINING_LENGTH_BYTES

\* MQTTPacket_decode: the value of the digits, the multiplier growing with them.
Decoded(digits) ==
  LET sum[i \in 0..Len(digits)] ==
        IF i = 0 THEN [value |-> 0, multiplier |-> 1]
        ELSE [value |-> sum[i - 1].value + (digits[i] % Radix) * sum[i - 1].multiplier,
              multiplier |-> sum[i - 1].multiplier * Radix]
  IN sum[Len(digits)].value

Body(p, n) == [i \in 1..n |-> Stride * p + i]
PacketBytes(p, n) == <<Stride * p>> \o Encoded[n] \o Body(p, n)
BrokerStream == [s \in Streams |->
  FlattenSeq([p \in DOMAIN InPackets[s] |-> PacketBytes(p, InPackets[s][p])])]
-------------------------------------------------------------------------------
\* Writing.

Room(s) == SendRoom - (Len(handed[s]) - drained[s])
NoPendingWrites(s) == wpending[s] = NoWrite

\* Socket_putdatas: one writev; what it does not take becomes a pending write.
PutDatas(s, iovecs) ==
  LET all == FlattenSeq(iovecs)
      k == Min({Len(all), Room(s)})
  IN /\ handed' = [handed EXCEPT ![s] = @ \o SubSeq(all, 1, k)]
     /\ wpending' = [wpending EXCEPT ![s] = IF k = Len(all) THEN NoWrite
                                           ELSE [iovecs |-> iovecs, total |-> Len(all), bytes |-> k]]
     /\ begun' = [begun EXCEPT ![s] = @ \o all]

\* The lengths of buffers added up, from the first.
Sums(lengths) ==
  LET upTo[j \in 0..Len(lengths)] == IF j = 0 THEN 0 ELSE upTo[j - 1] + lengths[j]
  IN upTo

\* The application's packets are as short as the broker's.
ASSUME OutAssumption ==
  \A s \in Streams : \A p \in DOMAIN OutPackets[s] :
    Sums(OutPackets[s][p])[Len(OutPackets[s][p])] < Stride

\* The application's packets as buffers: MQTTPacket_send's own, then the others.
Buffers == [s \in Streams |-> [p \in DOMAIN OutPackets[s] |->
  LET lengths == OutPackets[s][p]
      upTo == Sums(lengths)
  IN <<<<Stride * p>> \o Encoded[upTo[Len(lengths)]]>> \o
     [j \in DOMAIN lengths |-> [i \in 1..lengths[j] |-> Stride * p + upTo[j - 1] + i]]]]

\* MQTTClient_publish5 waits until no write is pending.
AppWrites(s) ==
  /\ opened[s] /\ NoPendingWrites(s)
  /\ appOut[s] < Len(OutPackets[s]) /\ appOut' = [appOut EXCEPT ![s] = @ + 1]
  /\ PutDatas(s, Buffers[s][appOut'[s]])
  /\ UNCHANGED <<reached, consumed, rqueue, parsed, drained, opened, selected>>

\* Socket_continueWrite, its first loop: the rest of a buffer that was cut and
\* no more, or all the buffers that are left.
Offer(w) ==
  LET upTo == Sums([j \in DOMAIN w.iovecs |-> Len(w.iovecs[j])])
      cut == {j \in DOMAIN w.iovecs : upTo[j - 1] < w.bytes /\ w.bytes < upTo[j]}
      all == FlattenSeq(w.iovecs)
  IN IF cut = {} THEN SubSeq(all, w.bytes + 1, Len(all))
     ELSE SubSeq(all, w.bytes + 1, upTo[Min(cut)])

MutantContinues(s) == opened[s] /\ selected = 0 /\ ~NoPendingWrites(s) /\ Room(s) = SendRoom + 1

\* select finds the socket writable (Socket_getReadySocket, continueWrites).
Continues(s) == opened[s] /\ selected = 0 /\ ~NoPendingWrites(s) /\ Room(s) > 0

ContinueWrite(s) ==
  /\ Continues(s)
  /\ LET w == wpending[s]
         k == Min({Len(Offer(w)), Room(s)})
         done == w.bytes + k = w.total
     IN /\ handed' = [handed EXCEPT ![s] = @ \o SubSeq(Offer(w), 1, k)]
        /\ wpending' = [wpending EXCEPT ![s] = IF done THEN NoWrite ELSE [w EXCEPT !.bytes = @ + k]]
  /\ UNCHANGED <<reached, consumed, rqueue, parsed, drained, begun, appOut, opened, selected>>
-------------------------------------------------------------------------------
\* Reading.

OnSocket(s) == SubSeq(BrokerStream[s], consumed[s] + 1, reached[s])

\* isReady: readable, writable and without a pending write.
SelectReady(s) ==
  /\ opened[s] /\ selected = 0 /\ consumed[s] < reached[s] /\ Room(s) > 0 /\ NoPendingWrites(s)
  /\ selected' = s
  /\ UNCHANGED <<reached, consumed, rqueue, parsed, wpending, handed, drained, begun, appOut, opened>>

\* The handler of a PUBLISH acknowledges it (a packet of 2 + 2 bytes).  If the
\* application's write has become pending in the meantime this is an error, and
\* the session and its socket are closed (Socket_close, SocketBuffer_cleanup).
Acknowledge(s) ==
  IF NoPendingWrites(s)
  THEN PutDatas(s, <<<<5000, 2>>, <<5001, 5002>>>>) /\ UNCHANGED opened
  ELSE /\ opened' = [opened EXCEPT ![s] = FALSE] /\ wpending' = [wpending EXCEPT ![s] = NoWrite]
       /\ UNCHANGED <<handed, begun>>

MutantQueued(header, data) == [header |-> <<Head(header)>>, data |-> data]

\* SocketBuffer_queueChar and interrupted: the header and the data read so far.
\* SocketBuffer_complete forgets both.
QueuedRead(header, data) == [header |-> header, data |-> data]

\* MQTTPacket_Factory: the header and its length, from the queue and then the
\* socket; then the rest.
ReadPacket(s) ==
  /\ selected = s /\ opened[s] /\ selected' = 0
  /\ LET q == rqueue[s]
         h == q.header \o OnSocket(s)
         ends == {i \in 2..Min({Len(h), MAX_NO_OF_REMAINING_LENGTH_BYTES + 1}) : h[i] < Radix}
         n == Min(ends)
         length == Decoded(SubSeq(h, 2, n))
         wanted == length - Len(q.data)
         got == Min({wanted, Len(h) - n})
         data == q.data \o SubSeq(h, n + 1, n + got)
     IN \/ /\ ends = {}                           \* interrupted in the header
           /\ rqueue' = [rqueue EXCEPT ![s] = QueuedRead(h, <<>>)]
           /\ consumed' = [consumed EXCEPT ![s] = reached[s]]
           /\ UNCHANGED <<parsed, wpending, handed, begun, opened>>
        \/ /\ ends # {} /\ got < wanted           \* interrupted in the data
           /\ rqueue' = [rqueue EXCEPT ![s] = QueuedRead(SubSeq(h, 1, n), data)]
           /\ consumed' = [consumed EXCEPT ![s] = reached[s]]
           /\ UNCHANGED <<parsed, wpending, handed, begun, opened>>
        \/ /\ ends # {} /\ got = wanted
           /\ consumed' = [consumed EXCEPT ![s] = @ + (n - Len(q.header)) + got]
           /\ parsed' = [parsed EXCEPT ![s] = Append(@, <<h[1]>> \o data)]
           /\ rqueue' = [rqueue EXCEPT ![s] = NoQueue]
           /\ IF length > 0 THEN Acknowledge(s) ELSE UNCHANGED <<wpending, handed, begun, opened>>
  /\ UNCHANGED <<reached, drained, appOut>>
-------------------------------------------------------------------------------
\* The broker.

BrokerByte(s) ==
  /\ opened[s] /\ reached[s] < Len(BrokerStream[s]) /\ reached' = [reached EXCEPT ![s] = @ + 1]
  /\ UNCHANGED <<consumed, rqueue, parsed, wpending, handed, drained, begun, appOut, opened, selected>>

BrokerDrains(s) ==
  /\ drained[s] < Len(handed[s]) /\ drained' = [drained EXCEPT ![s] = @ + 1]
  /\ UNCHANGED <<reached, consumed, rqueue, parsed, wpending, handed, begun, appOut, opened, selected>>

StreamReads == \E s \in Streams : ReadPacket(s)
BrokerSide == \E s \in Streams : BrokerByte(s) \/ BrokerDrains(s)
StreamNext ==
  \/ \E s \in Streams : AppWrites(s) \/ ContinueWrite(s) \/ SelectReady(s)
  \/ StreamReads \/ BrokerSide

\* The run thread loops and select comes round to every socket; the broker
\* sends and reads.
StreamFairness ==
  /\ WF_streamVars(StreamReads) /\ WF_streamVars(BrokerSide)
  /\ \A s \in Streams : SF_streamVars(ContinueWrite(s)) /\ SF_streamVars(SelectReady(s))
StreamSpec == StreamInit /\ [][StreamNext]_streamVars /\ StreamFairness
-------------------------------------------------------------------------------
\* Properties.

\* The bytes a socket is given are the packets written to it, one after the
\* other and each byte once, wherever writes were cut; and while a socket is
\* open what is missing of the last one is what its pending write still holds.
PacketsNotMixed == \A s \in Streams :
  /\ IsPrefix(handed[s], begun[s])
  /\ opened[s] => Len(begun[s]) - Len(handed[s]) = wpending[s].total - wpending[s].bytes

\* The packets read are the packets the broker sent, whole and in their order,
\* wherever its stream is cut and whatever the other sockets do.
PacketsWhole == \A s \in Streams :
  parsed[s] = [p \in 1..Len(parsed[s]) |-> <<Stride * p>> \o Body(p, InPackets[s][p])]

\* Both directions: no cut of a stream mixes, repeats or drops bytes of a packet.
PacketsKept == PacketsNotMixed /\ PacketsWhole

\* A write that was cut is completed, and what has reached a socket is read,
\* though a socket is not read while a write is pending on it; all packets are
\* there when all bytes are.
StreamGoesOn ==
  []<>(\A s \in Streams :
         /\ NoPendingWrites(s) /\ (opened[s] => consumed[s] = reached[s])
         /\ consumed[s] = Len(BrokerStream[s]) => Len(parsed[s]) = Len(InPackets[s]))
================================================================================
