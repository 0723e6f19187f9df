---------------------------- MODULE GatewayServer ----------------------------
(***************************************************************************)
(* The TCP side of the gateway: run_socket_tcp of                          *)
(* src/src/mqtt_client/mqtt_client.c.  One thread polls the listening      *)
(* socket and the accepted connections in poll_fds[0..nfds-1], scans the   *)
(* slots, receives struct Data records and hands LoRa records to MQTT.     *)
(*                                                                         *)
(* The kernel (descriptor table, listen queue, socket buffers) and the     *)
(* client processes are the environment; each system call of the thread    *)
(* is one step.  A recv() returns one whole struct Data.                   *)
(***************************************************************************)
EXTENDS Naturals, Sequences, FiniteSets

CONSTANTS
  Conns,        \* the connections that may exist at the same time
  MayClose,     \* the connections whose client process ever disconnects
  MaxFd,        \* descriptors 1..MaxFd can be open (RLIMIT_NOFILE)
  MaxSlots,     \* length of poll_fds, 20 in the code
  MaxInbox,     \* bound: records waiting in one socket buffer
  Packets,      \* the struct Data records that clients send
  JunkFds,      \* descriptors an uninitialised entry of poll_fds may hold
  JunkPollin,   \* entries whose uninitialised revents may have POLLIN set
  PollMayFail   \* whether poll() may return -1

NoFd == 0
ListenFd == 1
SlotIndex == 0..(MaxSlots - 1)

\* struct Data: the tag and the strings that start at bytes 0 and 20 of the
\* union, which are uart.msg = lora.device_name and lora.msg.
Nodes == {"kUart", "kLora", "kNRF", "kSPI", "kWifi"}
Texts == {"empty", "sensor", "other"}
Packet == [node : Nodes, at0 : Texts, at20 : Texts]
ZeroPacket == [node |-> "kUart", at0 |-> "empty", at20 |-> "empty"]
NoPublish == [topic |-> "none", payload |-> "empty", record |-> ZeroPacket]

ASSUME ConstantsAssumption ==
  /\ MaxFd \in Nat \ {0}
  /\ MaxInbox \in Nat
  /\ MayClose \subseteq Conns
  /\ Packets \subseteq Packet
  /\ JunkFds \subseteq 0..MaxFd
  /\ JunkPollin \subseteq SlotIndex
  /\ PollMayFail \in BOOLEAN

\* The array has an entry for the listener, one for each connection, and one
\* more: the scan also reads entry nfds.  With 20 entries: 18 connections.
ASSUME CapacityAssumption ==
  /\ MaxSlots \in Nat
  /\ IsFiniteSet(Conns)
  /\ Cardinality(Conns) + 2 <= MaxSlots

VARIABLES
  pc,         \* "poll" (line 82), "accept" (line 93) or "slot" (line 111)
  i,          \* the loop variable of the scan
  nfds,       \* number of entries given to poll()
  fdAt,       \* poll_fds[s].fd
  pollin,     \* the entries s with poll_fds[s].revents & POLLIN
  stored,     \* the entries the program has stored a descriptor into
  listening,  \* is the descriptor ListenFd open?
  queue,      \* the listen queue
  fdOf,       \* the open descriptor of each accepted connection
  eof,        \* the connections whose client has closed its end
  inbox,      \* the records in each connection's socket buffer
  data,       \* the global struct Data
  out         \* the last publish_mess call, with the record it was made for

array == <<fdAt, pollin, stored>>
thread == <<pc, i, nfds, array>>
kernel == <<listening, queue, fdOf, eof, inbox>>
vars == <<thread, kernel, data, out>>

Init ==
  /\ pc = "poll" /\ i = 1 /\ nfds = 1
  /\ \E junk \in [SlotIndex -> JunkFds] : fdAt = [junk EXCEPT ![0] = ListenFd]
  /\ pollin \in SUBSET JunkPollin /\ stored = {0}
  /\ listening = TRUE /\ queue = <<>> /\ eof = {}
  /\ fdOf = [c \in Conns |-> NoFd]
  /\ inbox = [c \in Conns |-> <<>>]
  /\ data = ZeroPacket /\ out = NoPublish
------------------------------------------------------------------------------
\* The kernel's answers.

Queued(c) == \E k \in DOMAIN queue : queue[k] = c
OpenConns == {c \in Conns : fdOf[c] # NoFd}
OpenFds == {fdOf[c] : c \in Conns} \cup {ListenFd}
FreeFds == (2..MaxFd) \ OpenFds

\* POLLIN: a connection to accept, a record to read, or the end of the stream.
Readable(fd) ==
  \/ fd = ListenFd /\ listening /\ queue # <<>>
  \/ \E c \in Conns : fd # NoFd /\ fdOf[c] = fd /\ (inbox[c] # <<>> \/ c \in eof)

\* POLLNVAL: poll() also returns at once when an entry's descriptor is closed.
Invalid(fd) ==
  /\ fd = ListenFd => ~listening
  /\ fd # NoFd => \A c \in Conns : fdOf[c] # fd

\* The environment: client processes connect, send and disconnect.
Connect(c) ==
  /\ listening /\ fdOf[c] = NoFd /\ ~Queued(c)
  /\ queue' = Append(queue, c)
  /\ UNCHANGED <<thread, listening, fdOf, eof, inbox, data, out>>

Send(c, p) ==
  /\ Queued(c) \/ fdOf[c] # NoFd
  /\ c \notin eof /\ Len(inbox[c]) < MaxInbox
  /\ inbox' = [inbox EXCEPT ![c] = Append(@, p)]
  /\ UNCHANGED <<thread, listening, queue, fdOf, eof, data, out>>

Disconnect(c) ==
  /\ c \in MayClose \ eof
  /\ Queued(c) \/ fdOf[c] # NoFd
  /\ eof' = eof \cup {c}
  /\ UNCHANGED <<thread, listening, queue, fdOf, inbox, data, out>>
------------------------------------------------------------------------------
\* The thread.

\* Mutants of the scan: a loop that tests its bound too late, starts at 0,
\* or leaves after its first entry.
MutantScanUntested == i' = 1 /\ pc' = "accept"
MutantScanFromZero == i' = 0 /\ pc' = IF 0 <= nfds THEN "accept" ELSE "poll"
MutantScanFirstOnly == i' = i + 1 /\ pc' = "poll"

\* Line 91: the loop runs for i = 1..nfds, one entry further than poll() filled.
StartScan ==
  /\ i' = 1
  /\ pc' = IF 1 <= nfds THEN "accept" ELSE "poll"

NextSlot ==
  /\ i' = i + 1
  /\ pc' = IF i + 1 <= nfds THEN "accept" ELSE "poll"

\* Line 82: poll() blocks until an entry below nfds has an event.
Poll ==
  /\ pc = "poll"
  /\ \E s \in SlotIndex : s < nfds /\ (Readable(fdAt[s]) \/ Invalid(fdAt[s]))
  /\ pollin' = {s \in SlotIndex : IF s < nfds THEN Readable(fdAt[s]) ELSE s \in pollin}
  /\ StartScan
  /\ UNCHANGED <<nfds, fdAt, stored, kernel, data, out>>

\* Lines 83-86: a failed poll() is only logged; the scan uses the old revents.
PollFail ==
  /\ PollMayFail /\ pc = "poll"
  /\ StartScan
  /\ UNCHANGED <<nfds, array, kernel, data, out>>

\* A mutant of line 106: the new entry is not counted.
MutantStoreUncounted(fd) ==
  /\ fdAt' = [fdAt EXCEPT ![nfds] = fd]
  /\ stored' = stored \cup {nfds}
  /\ nfds' = nfds

\* Lines 104-106: the new connection takes entry nfds.
StoreSlot(fd) ==
  /\ fdAt' = [fdAt EXCEPT ![nfds] = fd]
  /\ stored' = stored \cup {nfds}
  /\ nfds' = nfds + 1

\* Lines 93-109: accept() blocks while the queue is empty, and ends the scan.
Accept ==
  /\ pc = "accept" /\ 0 \in pollin
  /\ listening /\ queue # <<>> /\ FreeFds # {}
  /\ \E fd \in FreeFds :
       /\ \A other \in FreeFds : fd <= other
       /\ fdOf' = [fdOf EXCEPT ![Head(queue)] = fd]
       /\ StoreSlot(fd)
  /\ queue' = Tail(queue)
  /\ pc' = "poll"
  /\ UNCHANGED <<i, pollin, listening, eof, inbox, data, out>>

\* Lines 96-100: accept() fails without a free descriptor or a listener.
AcceptFail ==
  /\ pc = "accept" /\ 0 \in pollin
  /\ ~listening \/ FreeFds = {}
  /\ pc' = "slot"
  /\ UNCHANGED <<i, nfds, array, kernel, data, out>>

NoAccept ==
  /\ pc = "accept" /\ 0 \notin pollin
  /\ pc' = "slot"
  /\ UNCHANGED <<i, nfds, array, kernel, data, out>>

SlotQuiet ==
  /\ pc = "slot" /\ i \notin pollin
  /\ NextSlot
  /\ UNCHANGED <<nfds, array, kernel, data, out>>

\* Lines 123-137: only LoRa records go to MQTT, as the string at byte 0.
Dispatch(p) ==
  out' = IF p.node = "kLora"
         THEN [topic |-> "data_lora", payload |-> p.at0, record |-> p]
         ELSE out

\* Lines 114 and 123-137: recv() blocks while the stream is open and empty.
Receive ==
  /\ pc = "slot" /\ i \in pollin /\ fdAt[i] # NoFd
  /\ \E c \in Conns :
       /\ fdOf[c] = fdAt[i] /\ inbox[c] # <<>>
       /\ data' = Head(inbox[c])
       /\ Dispatch(Head(inbox[c]))
       /\ inbox' = [inbox EXCEPT ![c] = Tail(@)]
  /\ NextSlot
  /\ UNCHANGED <<nfds, array, listening, queue, fdOf, eof>>

\* close(fd); closing the listener resets the connections still queued.
Close(fd) ==
  LET gone == {c \in Conns : (fd # NoFd /\ fdOf[c] = fd)
                             \/ (fd = ListenFd /\ Queued(c))}
  IN /\ fdOf' = [c \in Conns |-> IF c \in gone THEN NoFd ELSE fdOf[c]]
     /\ inbox' = [c \in Conns |-> IF c \in gone THEN <<>> ELSE inbox[c]]
     /\ eof' = eof \ gone
     /\ listening' = (listening /\ fd # ListenFd)
     /\ queue' = IF fd = ListenFd THEN <<>> ELSE queue

\* A mutant of line 120: the closed connection stays counted.
MutantKeepCount == nfds' = nfds

\* Line 120.
DropLast == nfds' = nfds - 1

\* Lines 115-122: end of stream, or an error on a descriptor that is closed
\* or not a connection.  The entry stays; the polled range shrinks by one.
ReceiveEnd ==
  /\ pc = "slot" /\ i \in pollin
  /\ \A c \in Conns :
       fdAt[i] # NoFd /\ fdOf[c] = fdAt[i] => inbox[c] = <<>> /\ c \in eof
  /\ Close(fdAt[i])
  /\ DropLast
  /\ pc' = "poll"
  /\ UNCHANGED <<i, array, data, out>>

Server == \/ Poll \/ PollFail
          \/ Accept \/ AcceptFail \/ NoAccept
          \/ SlotQuiet \/ Receive \/ ReceiveEnd
Client == \E c \in Conns : Connect(c) \/ (\E p \in Packets : Send(c, p)) \/ Disconnect(c)
Next == Server \/ Client

\* The thread runs whenever no system call of its own blocks it.
Spec == Init /\ [][Next]_vars /\ WF_vars(Server)
------------------------------------------------------------------------------
\* Properties.

\* Types, the array indices and descriptors in their ranges included.
TypeOK ==
  /\ pc \in {"poll", "accept", "slot"}
  /\ i \in Nat /\ nfds \in Nat
  /\ fdAt \in [SlotIndex -> 0..MaxFd]
  /\ pollin \subseteq SlotIndex /\ stored \subseteq Nat
  /\ listening \in BOOLEAN
  /\ queue \in Seq(Conns)
  /\ fdOf \in [Conns -> 0..MaxFd]
  /\ eof \subseteq Conns
  /\ inbox \in [Conns -> Seq(Packets)]
  /\ data \in Packet
  /\ out \in [topic : {"none", "data_lora"}, payload : Texts, record : Packet]

\* No access leaves the array: accept stores into entry nfds (line 104) and
\* the scan reads entries up to nfds (line 111), neither of which is tested
\* against the array's length.  Closing an entry twice must not hide a
\* connection from the count, however accepts and closes interleave.
IndexInRange ==
  /\ nfds < MaxSlots
  /\ pc # "poll" => i \in 1..nfds

\* poll() (line 82) is never given an entry the program did not fill, whatever
\* the scan of the uninitialised entry nfds made it close before.
PolledSlotsStored == \A s \in SlotIndex : s < nfds => s \in stored

\* The polled range is never larger than what is open: each entry the loop
\* counts was paid for by a connection that has not been closed since.
PolledRangeBounded == nfds <= Cardinality(OpenConns) + 1

\* The array of run_socket_tcp: however accepts, closes and failed polls
\* interleave, no access leaves it, poll() sees only entries that were filled,
\* and it sees no more of them than the listener and the open connections.
PollArraySound == IndexInRange /\ PolledSlotsStored /\ PolledRangeBounded

\* The gateway stays reachable: no order of connects, disconnects, failed polls
\* and failed accepts closes the listening socket (line 119) or takes it out of
\* the entry that line 93 tests, unless an entry the program never filled looks
\* readable.  Once the listener is closed nothing can be filled any more, so
\* that entry stays as evidence.
ListenerOpen ==
  /\ fdAt[0] = ListenFd
  /\ pollin \subseteq stored => listening

\* Every accepted connection is in the polled range, so that its records can
\* be noticed.  Only line 120 takes an entry out of the range, after line 118
\* has logged "client disconected".
AcceptedArePolled ==
  \A c \in Conns : fdOf[c] # NoFd =>
    \E s \in SlotIndex : s < nfds /\ fdAt[s] = fdOf[c]

\* What is published on data_lora is the LoRa message of the record (line 130),
\* as line 131 says: "msg recive: from lora with data: %s" with lora.msg.
LoraMessagePublished ==
  out.topic = "data_lora" => out.payload = out.record.at20

\* Every record a client sends, before or after it is accepted, is read.
RecordsRead == \A c \in Conns : inbox[c] # <<>> ~> inbox[c] = <<>>
==============================================================================
