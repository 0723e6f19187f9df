-------------------------- MODULE GatewayServerProofs --------------------------
(***************************************************************************)
(* Theorems about GatewayServer for any number of connections, descriptors *)
(* and array entries that the assumptions allow.                           *)
(***************************************************************************)
EXTENDS GatewayServer, FiniteSetTheorems, TLAPS

\* The types hold initially, for every content of the uninitialised array.
LEMMA TypeInit == Init => TypeOK
<1> SUFFICES ASSUME Init PROVE TypeOK
  OBVIOUS
<1> USE ConstantsAssumption, CapacityAssumption DEF Init
<1>1. fdAt \in [SlotIndex -> 0..MaxFd] /\ pollin \subseteq SlotIndex
  <2>1. PICK junk \in [SlotIndex -> JunkFds] : fdAt = [junk EXCEPT ![0] = ListenFd]
    OBVIOUS
  <2>2. JunkFds \subseteq 0..MaxFd
    OBVIOUS
  <2>3. \A s \in SlotIndex : junk[s] \in 0..MaxFd
    BY <2>1, <2>2
  <2>4. ListenFd \in 0..MaxFd
    BY DEF ListenFd
  <2> QED
    BY <2>1, <2>3, <2>4
<1>2. fdOf \in [Conns -> 0..MaxFd] /\ inbox \in [Conns -> Seq(Packets)]
  BY DEF NoFd
<1>3. data \in Packet
  BY DEF ZeroPacket, Packet, Nodes, Texts
<1>4. out \in [topic : {"none", "data_lora"}, payload : Texts, record : Packet]
  BY DEF NoPublish, ZeroPacket, Packet, Nodes, Texts
<1> QED
  BY <1>1, <1>2, <1>3, <1>4 DEF TypeOK

\* Every step of the gateway and of its clients preserves the types; that
\* nfds stays a natural number needs the scan's index to be in range.
LEMMA TypeStep == TypeOK /\ IndexInRange /\ [Next]_vars => TypeOK'
<1> SUFFICES ASSUME TypeOK, IndexInRange, [Next]_vars PROVE TypeOK'
  OBVIOUS
<1> USE ConstantsAssumption DEF TypeOK
<1>1. CASE Poll
  BY <1>1 DEF Poll, StartScan, kernel
<1>2. CASE PollFail
  BY <1>2 DEF PollFail, StartScan, kernel, array
<1>3. CASE Accept
  <2>1. PICK fd \in FreeFds : fdOf' = [fdOf EXCEPT ![Head(queue)] = fd] /\ StoreSlot(fd)
    BY <1>3 DEF Accept
  <2>2. fd \in 0..MaxFd
    BY DEF FreeFds
  <2>3. queue' \in Seq(Conns)
    BY <1>3 DEF Accept
  <2>4. fdOf' \in [Conns -> 0..MaxFd] /\ fdAt' \in [SlotIndex -> 0..MaxFd]
    BY <2>1, <2>2 DEF StoreSlot
  <2>5. nfds' \in Nat /\ stored' \subseteq Nat
    BY <2>1 DEF StoreSlot
  <2> QED
    BY <1>3, <2>3, <2>4, <2>5 DEF Accept
<1>4. CASE AcceptFail \/ NoAccept
  BY <1>4 DEF AcceptFail, NoAccept, kernel, array
<1>5. CASE SlotQuiet
  BY <1>5 DEF SlotQuiet, NextSlot, kernel, array
<1>6. CASE Receive
  <2>1. PICK c \in Conns : /\ inbox[c] # <<>>
                           /\ data' = Head(inbox[c])
                           /\ Dispatch(Head(inbox[c]))
                           /\ inbox' = [inbox EXCEPT ![c] = Tail(@)]
    BY <1>6 DEF Receive
  <2>2. Head(inbox[c]) \in Packet /\ Tail(inbox[c]) \in Seq(Packets)
    BY <2>1
  <2>3. out' \in [topic : {"none", "data_lora"}, payload : Texts, record : Packet]
    BY <2>1, <2>2 DEF Dispatch, Packet
  <2>4. inbox' \in [Conns -> Seq(Packets)]
    BY <2>1, <2>2
  <2> QED
    BY <1>6, <2>1, <2>2, <2>3, <2>4, SMTT(60) DEF Receive, NextSlot, array
<1>7. CASE ReceiveEnd
  <2>1. nfds' \in Nat
    BY <1>7 DEF ReceiveEnd, DropLast, IndexInRange
  <2>2. fdOf' \in [Conns -> 0..MaxFd] /\ inbox' \in [Conns -> Seq(Packets)]
    BY <1>7 DEF ReceiveEnd, Close, NoFd
  <2>3. queue' \in Seq(Conns) /\ listening' \in BOOLEAN /\ eof' \subseteq Conns
    BY <1>7 DEF ReceiveEnd, Close
  <2> QED
    BY <1>7, <2>1, <2>2, <2>3 DEF ReceiveEnd, array
<1>8. CASE \E c \in Conns : Connect(c)
  BY <1>8 DEF Connect, thread, array
<1>9. CASE \E c \in Conns, p \in Packets : Send(c, p)
  BY <1>9 DEF Send, thread, array
<1>10. CASE \E c \in Conns : Disconnect(c)
  BY <1>10 DEF Disconnect, thread, array
<1>11. CASE UNCHANGED vars
  BY <1>11 DEF vars, thread, kernel, array
<1> QED
  BY <1>1, <1>2, <1>3, <1>4, <1>5, <1>6, <1>7, <1>8, <1>9, <1>10, <1>11
  DEF Next, Server, Client

\* A polled range that the open connections bound leaves the array a spare
\* entry, because it has two entries more than there are connections.
LEMMA BoundedIsInRange ==
  ASSUME TypeOK, PolledRangeBounded
  PROVE  nfds < MaxSlots
<1>1. IsFiniteSet(OpenConns) /\ Cardinality(OpenConns) <= Cardinality(Conns)
  BY CapacityAssumption, FS_Subset DEF OpenConns
<1>2. Cardinality(OpenConns) \in Nat /\ Cardinality(Conns) \in Nat
  BY <1>1, CapacityAssumption, FS_CardinalityType
<1> QED
  BY <1>1, <1>2, CapacityAssumption DEF PolledRangeBounded, TypeOK

\* The kernel's side: open descriptors belong to one connection each and are
\* not the listener's; queued connections are distinct and not yet accepted.
KernelInv ==
  /\ \A c, d \in Conns : fdOf[c] # NoFd /\ fdOf[c] = fdOf[d] => c = d
  /\ \A c \in Conns : fdOf[c] # ListenFd
  /\ \A k \in DOMAIN queue : fdOf[queue[k]] = NoFd
  /\ \A k, l \in DOMAIN queue : queue[k] = queue[l] => k = l

\* accept() takes a free descriptor for a connection that had none, so the
\* steps of clients and gateway keep descriptors and queue consistent.
LEMMA KernelStep == TypeOK /\ KernelInv /\ [Next]_vars => KernelInv'
<1> SUFFICES ASSUME TypeOK, KernelInv, [Next]_vars PROVE KernelInv'
  OBVIOUS
<1> USE DEF TypeOK, KernelInv
<1>1. CASE Accept
  <2>1. PICK fd \in FreeFds : fdOf' = [fdOf EXCEPT ![Head(queue)] = fd]
    BY <1>1 DEF Accept
  <2>2. /\ fd # NoFd /\ fd # ListenFd
        /\ \A c \in Conns : fdOf[c] # fd
    BY DEF FreeFds, OpenFds, NoFd, ListenFd
  <2>3. /\ queue # <<>> /\ queue' = Tail(queue)
        /\ Head(queue) = queue[1] /\ Head(queue) \in Conns
        /\ Len(queue) \in Nat /\ DOMAIN queue = 1..Len(queue)
        /\ 1 \in DOMAIN queue /\ DOMAIN queue' = 1..(Len(queue) - 1)
        /\ \A k \in DOMAIN queue' : queue'[k] = queue[k + 1] /\ k + 1 \in DOMAIN queue
    BY <1>1 DEF Accept
  <2>4. ASSUME NEW k \in DOMAIN queue'
        PROVE  queue'[k] # Head(queue) /\ queue'[k] \in Conns
    <3>1. k \in Nat /\ k + 1 # 1 /\ k + 1 \in DOMAIN queue /\ queue'[k] = queue[k + 1]
      BY <2>3
    <3>2. queue[k + 1] # queue[1]
      BY <3>1, <2>3
    <3>3. queue[k + 1] \in Conns
      BY <3>1
    <3> QED
      BY <3>1, <3>2, <3>3, <2>3
  <2>5. \A k \in DOMAIN queue' : fdOf'[queue'[k]] = NoFd
    BY <2>1, <2>3, <2>4
  <2>6. \A k, l \in DOMAIN queue' : queue'[k] = queue'[l] => k = l
    BY <2>3
  <2>7. \A c, d \in Conns : fdOf'[c] # NoFd /\ fdOf'[c] = fdOf'[d] => c = d
    BY <2>1, <2>2
  <2>8. \A c \in Conns : fdOf'[c] # ListenFd
    BY <2>1, <2>2
  <2> QED
    BY <2>5, <2>6, <2>7, <2>8
<1>2. CASE ReceiveEnd
  <2>1. \A c \in Conns : fdOf'[c] = fdOf[c] \/ fdOf'[c] = NoFd
    BY <1>2 DEF ReceiveEnd, Close
  <2>2. queue' = queue \/ queue' = <<>>
    BY <1>2 DEF ReceiveEnd, Close
  <2>3. \A k \in DOMAIN queue : queue[k] \in Conns
    OBVIOUS
  <2> QED
    BY <2>1, <2>2, <2>3 DEF NoFd, ListenFd
<1>3. CASE \E c \in Conns : Connect(c)
  <2>1. PICK c \in Conns : Connect(c)
    BY <1>3
  <2>2. /\ queue' = Append(queue, c) /\ fdOf' = fdOf /\ fdOf[c] = NoFd
        /\ \A k \in DOMAIN queue : queue[k] # c
    BY <2>1 DEF Connect, Queued
  <2>3. /\ Len(queue) \in Nat /\ DOMAIN queue = 1..Len(queue)
        /\ DOMAIN queue' = 1..(Len(queue) + 1)
        /\ \A k \in DOMAIN queue : queue'[k] = queue[k]
        /\ queue'[Len(queue) + 1] = c
    BY <2>2
  <2> QED
    BY <2>2, <2>3
<1>4. CASE UNCHANGED <<fdOf, queue>>
  BY <1>4
<1> QED
  BY <1>1, <1>2, <1>3, <1>4
  DEF Next, Server, Client, Poll, PollFail, AcceptFail, NoAccept, SlotQuiet, Receive,
      Send, Disconnect, vars, kernel

\* Accepting counts one connection and one entry more.
LEMMA AcceptBounded ==
  ASSUME TypeOK, KernelInv, PolledRangeBounded, Accept
  PROVE  PolledRangeBounded'
<1> DEFINE c == Head(queue)
<1>1. PICK fd \in FreeFds : fdOf' = [fdOf EXCEPT ![c] = fd] /\ StoreSlot(fd)
  BY DEF Accept
<1>2. c \in Conns /\ fdOf[c] = NoFd
  BY DEF Accept, TypeOK, KernelInv
<1>3. fd # NoFd
  BY DEF FreeFds, NoFd
<1>4. OpenConns' = OpenConns \cup {c} /\ c \notin OpenConns
  BY <1>1, <1>2, <1>3 DEF OpenConns, TypeOK
<1>5. IsFiniteSet(OpenConns)
  BY CapacityAssumption, FS_Subset DEF OpenConns
<1>6. Cardinality(OpenConns') = Cardinality(OpenConns) + 1 /\ Cardinality(OpenConns) \in Nat
  BY <1>4, <1>5, FS_AddElement, FS_CardinalityType
<1> HIDE DEF c
<1> QED
  BY <1>1, <1>6 DEF PolledRangeBounded, StoreSlot, TypeOK

\* Closing an entry counts one entry less, and at most one connection less:
\* none when the entry's descriptor was already closed.
LEMMA ReceiveEndBounded ==
  ASSUME TypeOK, KernelInv, PolledRangeBounded, ReceiveEnd
  PROVE  PolledRangeBounded'
<1>1. IsFiniteSet(OpenConns) /\ Cardinality(OpenConns) \in Nat
  BY CapacityAssumption, FS_Subset, FS_CardinalityType DEF OpenConns
<1>2. nfds' = nfds - 1
  BY DEF ReceiveEnd, DropLast
<1>3. \A c \in Conns : fdOf[c] # fdAt[i] => (fdOf'[c] # NoFd <=> fdOf[c] # NoFd)
  BY DEF ReceiveEnd, Close, Queued, KernelInv, TypeOK
<1>4. \A c \in Conns : fdOf[c] = NoFd => fdOf'[c] = NoFd
  BY DEF ReceiveEnd, Close
<1>5. CASE \E c \in Conns : fdOf[c] # NoFd /\ fdOf[c] = fdAt[i]
  <2>1. PICK c \in Conns : fdOf[c] # NoFd /\ fdOf[c] = fdAt[i]
    BY <1>5
  <2>2. fdOf'[c] = NoFd
    BY <2>1 DEF ReceiveEnd, Close
  <2>3. OpenConns' = OpenConns \ {c} /\ c \in OpenConns
    BY <1>3, <1>4, <2>1, <2>2 DEF OpenConns, KernelInv
  <2>4. Cardinality(OpenConns') = Cardinality(OpenConns) - 1
    BY <1>1, <2>3, FS_RemoveElement
  <2> QED
    BY <1>1, <1>2, <2>4 DEF PolledRangeBounded, TypeOK
<1>6. CASE \A c \in Conns : fdOf[c] # NoFd => fdOf[c] # fdAt[i]
  <2>1. OpenConns' = OpenConns
    BY <1>3, <1>4, <1>6 DEF OpenConns
  <2> QED
    BY <1>1, <1>2, <2>1 DEF PolledRangeBounded, TypeOK
<1> QED
  BY <1>5, <1>6

\* The inductive invariant behind the bounds of the array.
ArrayInv == TypeOK /\ KernelInv /\ IndexInRange /\ PolledSlotsStored /\ PolledRangeBounded

\* At the start only the listener is stored and counted.
LEMMA ArrayInit == Init => ArrayInv
<1> SUFFICES ASSUME Init PROVE ArrayInv
  OBVIOUS
<1>1. TypeOK
  BY TypeInit
<1>2. KernelInv
  BY DEF Init, KernelInv, NoFd, ListenFd
<1>3. PolledRangeBounded
  <2>1. OpenConns = {}
    BY DEF OpenConns, Init
  <2> QED
    BY <2>1, FS_EmptySet DEF PolledRangeBounded, Init
<1>4. IndexInRange
  BY <1>1, <1>3, BoundedIsInRange DEF IndexInRange, Init
<1>5. PolledSlotsStored
  BY CapacityAssumption DEF PolledSlotsStored, Init, SlotIndex
<1> QED
  BY <1>1, <1>2, <1>3, <1>4, <1>5 DEF ArrayInv

\* Accepts, closes and scans keep the range within what is open and stored.
LEMMA ArrayStep == ArrayInv /\ [Next]_vars => ArrayInv'
<1> SUFFICES ASSUME ArrayInv, [Next]_vars PROVE ArrayInv'
  OBVIOUS
<1>1. TypeOK' /\ KernelInv'
  BY TypeStep, KernelStep DEF ArrayInv
<1>2. PolledRangeBounded'
  <2>1. CASE Accept
    BY <2>1, AcceptBounded DEF ArrayInv
  <2>2. CASE ReceiveEnd
    BY <2>2, ReceiveEndBounded DEF ArrayInv
  <2>3. CASE UNCHANGED <<fdOf, nfds>>
    BY <2>3 DEF ArrayInv, PolledRangeBounded, OpenConns
  <2> QED
    BY <2>1, <2>2, <2>3
    DEF Next, Server, Client, Poll, PollFail, AcceptFail, NoAccept, SlotQuiet, Receive,
        Connect, Send, Disconnect, vars, kernel, thread
<1>3. IndexInRange'
  <2>1. nfds' < MaxSlots
    <3>1. (TypeOK /\ PolledRangeBounded => nfds < MaxSlots)'
      BY BoundedIsInRange, PTL
    <3> QED
      BY <3>1, <1>1, <1>2
  <2>2. pc' # "poll" => i' \in 1..nfds'
    BY DEF ArrayInv, TypeOK, IndexInRange, Next, Server, Client, Poll, PollFail, Accept,
        AcceptFail, NoAccept, SlotQuiet, Receive, ReceiveEnd, StartScan, NextSlot,
        Connect, Send, Disconnect, vars, kernel, thread, array
  <2> QED
    BY <2>1, <2>2 DEF IndexInRange
<1>4. PolledSlotsStored'
  <2>1. CASE Accept
    BY <2>1 DEF Accept, StoreSlot, ArrayInv, TypeOK, PolledSlotsStored, SlotIndex
  <2>2. CASE ReceiveEnd
    BY <2>2 DEF ReceiveEnd, DropLast, array, ArrayInv, TypeOK, PolledSlotsStored, SlotIndex
  <2>3. CASE UNCHANGED <<nfds, stored>>
    BY <2>3 DEF ArrayInv, PolledSlotsStored
  <2> QED
    BY <2>1, <2>2, <2>3
    DEF Next, Server, Client, Poll, PollFail, AcceptFail, NoAccept, SlotQuiet, Receive,
        Connect, Send, Disconnect, vars, thread, array
<1> QED
  BY <1>1, <1>2, <1>3, <1>4 DEF ArrayInv

\* The bounds hold in every behaviour.
LEMMA ArrayInvariant == Spec => []ArrayInv
  BY ArrayInit, ArrayStep, PTL DEF Spec

\* No access leaves poll_fds (lines 104, 111), poll() is only ever given entries
\* the program has filled (line 82), and the polled range never counts more than
\* the open connections (lines 106, 120).
THEOREM PollArrayCorrect == Spec => []PollArraySound
  BY ArrayInvariant, PTL DEF ArrayInv, PollArraySound

\* Every variable keeps its type.
THEOREM TypeCorrect == Spec => []TypeOK
  BY ArrayInvariant, PTL DEF ArrayInv
-------------------------------------------------------------------------------
\* Among the entries the program filled, only entry 0 holds the listener.
ListenerInv ==
  /\ ListenerOpen
  /\ \A s \in SlotIndex : s # 0 /\ s \in stored => fdAt[s] # ListenFd
  /\ 0 \in stored

\* At the start only entry 0 holds the listening descriptor.
LEMMA ListenerInit == Init => ListenerInv
<1> SUFFICES ASSUME Init PROVE ListenerInv
  OBVIOUS
<1>1. 0 \in SlotIndex
  <2>1. Cardinality(Conns) \in Nat
    BY CapacityAssumption, FS_CardinalityType
  <2> QED
    BY <2>1, CapacityAssumption DEF SlotIndex
<1>2. fdAt[0] = ListenFd
  BY <1>1 DEF Init
<1> QED
  BY <1>2 DEF Init, ListenerInv, ListenerOpen

\* Only an entry that looks readable and was never filled can hold a second copy
\* of the listening descriptor; once it is closed there are no more accepts, so
\* that entry is never filled, and it is not polled, so it keeps its POLLIN.
LEMMA ListenerStep == ArrayInv /\ ListenerInv /\ [Next]_vars => ListenerInv'
<1> SUFFICES ASSUME ArrayInv, ListenerInv, [Next]_vars PROVE ListenerInv'
  OBVIOUS
<1> USE DEF ListenerInv, ListenerOpen
<1>1. CASE Poll
  <2>1. \A s \in SlotIndex : s < nfds => s \in stored
    BY DEF ArrayInv, PolledSlotsStored
  <2>2. pollin' \subseteq stored => pollin \subseteq stored
    BY <1>1, <2>1 DEF Poll, ArrayInv, TypeOK
  <2> QED
    BY <1>1, <2>2 DEF Poll, kernel
<1>2. CASE Accept
  <2>1. PICK fd \in FreeFds : StoreSlot(fd)
    BY <1>2 DEF Accept
  <2>2. fd # ListenFd
    BY DEF FreeFds, OpenFds
  <2>3. nfds # 0
    BY <1>2 DEF Accept, ArrayInv, IndexInRange, TypeOK
  <2> QED
    BY <1>2, <2>1, <2>2, <2>3, CapacityAssumption
    DEF Accept, StoreSlot, ArrayInv, TypeOK, SlotIndex
<1>3. CASE ReceiveEnd
  <2>1. i # 0 /\ i \in SlotIndex /\ i \in pollin
    BY <1>3 DEF ReceiveEnd, ArrayInv, IndexInRange, TypeOK
  <2>2. pollin \subseteq stored => fdAt[i] # ListenFd
    BY <2>1
  <2> QED
    BY <1>3, <2>2 DEF ReceiveEnd, Close, array
<1>4. CASE UNCHANGED <<listening, array>>
  BY <1>4 DEF array
<1> QED
  BY <1>1, <1>2, <1>3, <1>4
  DEF Next, Server, Client, PollFail, AcceptFail, NoAccept, SlotQuiet, Receive,
      Connect, Send, Disconnect, vars, thread, kernel

\* Whatever the uninitialised entries hold, the gateway closes its listening
\* socket (line 119) only through an entry it never filled, and never overwrites
\* entry 0 (line 104).
THEOREM ListenerStaysOpen == Spec => []ListenerOpen
  BY ListenerInit, ArrayInvariant, ListenerStep, PTL DEF Spec, ListenerInv
-------------------------------------------------------------------------------
\* While no client leaves, the polled entries and the accepted connections
\* correspond, and POLLIN is only set on polled entries.
SteadyInv ==
  /\ eof = {}
  /\ nfds >= 1
  /\ \A s \in pollin : s < nfds
  /\ \A s \in SlotIndex : s # 0 /\ s < nfds =>
       fdAt[s] # NoFd /\ \E c \in Conns : fdOf[c] = fdAt[s]
  /\ AcceptedArePolled

\* Nothing is accepted yet.
LEMMA SteadyInit == Init /\ JunkPollin = {} => SteadyInv
  BY DEF Init, SteadyInv, AcceptedArePolled, SlotIndex

\* Without an end of stream nothing is closed, and the range only grows.
LEMMA SteadyStep ==
  ASSUME MayClose = {}, ArrayInv, SteadyInv, [Next]_vars
  PROVE  SteadyInv'
<1> USE DEF SteadyInv, AcceptedArePolled
<1>1. CASE Poll
  BY <1>1 DEF Poll, kernel, ArrayInv, TypeOK
<1>2. CASE Accept
  <2> DEFINE c == Head(queue)
  <2>1. PICK fd \in FreeFds : fdOf' = [fdOf EXCEPT ![c] = fd] /\ StoreSlot(fd)
    BY <1>2 DEF Accept
  <2>2. c \in Conns /\ fdOf[c] = NoFd
    BY <1>2 DEF Accept, ArrayInv, TypeOK, KernelInv
  <2>3. fd # NoFd
    BY DEF FreeFds, NoFd
  <2>4. nfds \in SlotIndex
    BY CapacityAssumption DEF ArrayInv, IndexInRange, TypeOK, SlotIndex
  <2> HIDE DEF c
  <2>5. fdOf'[c] = fd /\ \A d \in Conns : d # c => fdOf'[d] = fdOf[d]
    BY <2>1, <2>2 DEF ArrayInv, TypeOK
  <2>6. /\ fdAt'[nfds] = fd /\ nfds' = nfds + 1
        /\ \A s \in SlotIndex : s # nfds => fdAt'[s] = fdAt[s]
    BY <2>1, <2>4 DEF StoreSlot, ArrayInv, TypeOK
  <2>7. \A s \in SlotIndex : s \in Nat
    BY DEF SlotIndex
  <2>8. nfds \in Nat /\ pollin \subseteq SlotIndex
    BY DEF ArrayInv, TypeOK
  <2>9. AcceptedArePolled'
    BY <2>4, <2>5, <2>6, <2>7, <2>8
  <2>10. \A s \in SlotIndex : s # 0 /\ s < nfds' =>
           fdAt'[s] # NoFd /\ \E d \in Conns : fdOf'[d] = fdAt'[s]
    <3> TAKE s \in SlotIndex
    <3> HAVE s # 0 /\ s < nfds'
    <3>1. CASE s = nfds
      BY <3>1, <2>2, <2>3, <2>5, <2>6
    <3>2. CASE s < nfds
      <4>1. PICK d \in Conns : fdOf[d] = fdAt[s] /\ fdAt[s] # NoFd
        BY <3>2
      <4>2. d # c /\ s # nfds
        BY <4>1, <2>2, <3>2, <2>7, <2>8
      <4> QED
        BY <4>1, <4>2, <2>5, <2>6
    <3> QED
      BY <3>1, <3>2, <2>6, <2>7, <2>8
  <2> QED
    BY <1>2, <2>6, <2>7, <2>8, <2>9, <2>10 DEF Accept
<1>3. CASE ReceiveEnd
  <2>1. i # 0 /\ i \in SlotIndex /\ i < nfds
    BY <1>3 DEF ReceiveEnd, ArrayInv, IndexInRange, TypeOK
  <2>2. PICK c \in Conns : fdOf[c] = fdAt[i] /\ fdAt[i] # NoFd
    BY <2>1
  <2>3. c \in eof
    BY <1>3, <2>2 DEF ReceiveEnd
  <2> QED
    BY <2>3
<1>4. CASE UNCHANGED <<eof, nfds, pollin, fdAt, fdOf>>
  BY <1>4
<1>5. ~ \E c \in Conns : Disconnect(c)
  BY DEF Disconnect
<1> QED
  BY <1>1, <1>2, <1>3, <1>4, <1>5
  DEF Next, Server, Client, PollFail, AcceptFail, NoAccept, SlotQuiet, Receive,
      Connect, Send, vars, thread, kernel, array

\* As long as no client leaves, however many connect and however poll() and
\* accept() fail, no accepted client drops out of the polled range.
THEOREM SteadyClientsPolled ==
  ASSUME JunkPollin = {}, MayClose = {}
  PROVE  Spec => []AcceptedArePolled
<1>1. Init => SteadyInv
  BY SteadyInit
<1>2. ArrayInv /\ SteadyInv /\ [Next]_vars => SteadyInv'
  BY SteadyStep
<1> QED
  BY <1>1, <1>2, ArrayInvariant, PTL DEF Spec, SteadyInv
===============================================================================
