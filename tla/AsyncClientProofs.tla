--------------------------- MODULE AsyncClientProofs ---------------------------
(***************************************************************************)
(* Proofs about the asynchronous client.  First: each call that was        *)
(* accepted has exactly one place, in the queue, in the send thread's      *)
(* hand, among the responses, or with the outcomes that were told; only a  *)
(* subscription at the address pending_write still points to may have none.*)
(*                                                                         *)
(* The argument counts.  Every function the threads share either keeps the *)
(* number of places a call has in the two lists of the client, or empties  *)
(* both lists; and those that empty them tell exactly the calls that had a *)
(* place there.  What pending_write points to was accepted, and if it is a *)
(* subscription, its address was used before.                              *)
(*                                                                         *)
(* Second: with a session that is kept, what was accepted is neither lost  *)
(* nor overtaken, until a reconnection stops at a write that is cut and    *)
(* holds the messages after it back.  The two directions of the socket are *)
(* one stream, of acknowledgements the client has not read and of messages *)
(* the broker has not read, and the messages in flight lie in it in their  *)
(* order.                                                                  *)
(***************************************************************************)
EXTENDS AsyncClient, FiniteSetTheorems, FunctionTheorems, ProofBasics

Numbers == 1..MaxCalls
Outcomes == {"ok", "failure", "unheard"}
Calls == [kind : {"pub0", "pub1", "sub"}, n : Numbers, id : Nat]
Admissions == [kind : {"pub0", "pub1", "sub"}, fresh : BOOLEAN, reused : BOOLEAN]
Commands == Calls \cup [kind : {"connect", "internal", "close", "drain"}, n : Nat, id : {0}]

\* What a client needs to be for the functions below: its lists, and the
\* numbers that are computed with.
ClientOK(m) ==
  /\ DOMAIN m = {"commands", "responses", "outbound", "msgID", "state", "connected", "uri",
                 "shouldBeConnected", "retrying", "disconnect", "pending_write", "peer", "out",
                 "in", "cut", "heldBack"}
  /\ m.commands \in Seq(Commands) /\ m.responses \in Seq(Calls)
  /\ m.msgID \in Nat /\ m.uri \in Nat /\ m.disconnect \in Commands \cup {NoCommand}

\* The places of call k in the client's lists.
Listed(m, k) == Holding(m.commands, k) + Holding(m.responses, k)
InHand(k) == IF IsCall(hand.cmd) /\ hand.cmd.n = k THEN 1 ELSE 0

\* The calls themselves.
CallSet(list) == {c \in ToSet(list) : IsCall(c)}
HeldSet(c) == {x \in {c} : IsCall(x)}
CallsOf(m) == CallSet(m.commands) \cup ToSet(m.responses)

\* The same calls are listed; or those, or none, of each.
Retains(m, n) ==
  /\ ClientOK(n) /\ CallsOf(n) \subseteq CallsOf(m) /\ n.pending_write = m.pending_write
  /\ \A k \in Numbers : Listed(n, k) = Listed(m, k)
Shrinks(m, n) ==
  /\ ClientOK(n) /\ CallsOf(n) \subseteq CallsOf(m) /\ n.pending_write = m.pending_write
  /\ \A k \in Numbers : Listed(n, k) = Listed(m, k) \/ Listed(n, k) = 0

\* The threads' own state: an idle send thread has no command in its hand, and
\* a packet is only passed on by a cycle that did not fail.
HandInv ==
  /\ DOMAIN hand = {"cmd", "at"} /\ hand.cmd \in Commands \cup {NoCommand}
  /\ hand.at \in {"none", "wait", "taken", "cut"}
  /\ hand.at \in {"none", "wait"} <=> hand.cmd = NoCommand
  /\ hand.at = "cut" => hand.cmd.kind = "pub0"
RecvInv ==
  /\ DOMAIN recv = {"pc", "sock", "pack", "rc"}
  /\ recv.rc # 0 => recv.pack.type = "none"
CallingInv ==
  /\ admitted \in Seq(Admissions) /\ Len(admitted) <= MaxCalls
  /\ calling # NoCommand =>
       calling \in Calls /\ calling.n = Len(admitted) + 1 /\ Len(admitted) < MaxCalls
ToldInv == told \in [Numbers -> Seq(Outcomes)]

\* One outcome or one place for each call that was accepted, none for the rest;
\* none, too, for a subscription at an address that was used before.
Forgettable(k) == admitted[k].kind = "sub" /\ admitted[k].reused
Counted(k, count) ==
  IF k <= Len(admitted) THEN count = 1 \/ (count = 0 /\ Forgettable(k)) ELSE count = 0
OnePlace == \A k \in Numbers : Counted(k, Len(told[k]) + Listed(am, k) + InHand(k))

\* A call has the kind it was accepted with, and pending_write points to a
\* publication, unless the address was used before.
WasAdmitted(c) == c.n \in DOMAIN admitted /\ admitted[c.n].kind = c.kind
KindsInv == \A c \in CallsOf(am) \cup HeldSet(hand.cmd) : WasAdmitted(c)
PendingInv ==
  am.pending_write # 0 => /\ am.pending_write \in DOMAIN admitted
                          /\ admitted[am.pending_write].kind = "sub" => Forgettable(am.pending_write)

CallsInv ==
  /\ ClientOK(am) /\ HandInv /\ RecvInv /\ CallingInv /\ ToldInv /\ OnePlace
  /\ KindsInv /\ PendingInv

\* A restart forgets the callbacks, and a restarted process stays one.
AsyncInv == crashed \in BOOLEAN /\ (~crashed => CallsInv)
-------------------------------------------------------------------------------
\* Lists as sets.

\* A list with one more element at its end ...
LEMMA SetAppend ==
  ASSUME NEW S, NEW list \in Seq(S), NEW c
  PROVE  ToSet(Append(list, c)) = ToSet(list) \cup {c}
<1> DEFINE long == Append(list, c)
<1>1. /\ DOMAIN long = 1..(Len(list) + 1) /\ DOMAIN list = 1..Len(list) /\ Len(list) \in Nat
      /\ long[Len(list) + 1] = c /\ \A i \in 1..Len(list) : long[i] = list[i]
  OBVIOUS
<1> HIDE DEF long
<1>2. ToSet(long) = ToSet(list) \cup {c}
  BY <1>1 DEF ToSet
<1> QED
  BY <1>2 DEF long

\* ... or at its head, ...
LEMMA SetCons ==
  ASSUME NEW S, NEW list \in Seq(S), NEW c
  PROVE  ToSet(<<c>> \o list) = {c} \cup ToSet(list)
<1> DEFINE long == <<c>> \o list
<1>1. /\ DOMAIN long = 1..(Len(list) + 1) /\ DOMAIN list = 1..Len(list) /\ Len(list) \in Nat
      /\ long[1] = c /\ \A i \in 1..Len(list) : long[i + 1] = list[i]
  OBVIOUS
<1>2. \A i \in 1..(Len(list) + 1) : i = 1 \/ (i - 1 \in 1..Len(list) /\ long[i] = list[i - 1])
  <2> HIDE DEF long
  <2> QED
    BY <1>1
<1> HIDE DEF long
<1>3. ToSet(long) = {c} \cup ToSet(list)
  <2>1. 1 \in DOMAIN long /\ \A i \in DOMAIN list : i + 1 \in DOMAIN long
    BY <1>1
  <2>2. {c} \cup ToSet(list) \subseteq ToSet(long)
    BY <1>1, <2>1 DEF ToSet
  <2>3. ToSet(long) \subseteq {c} \cup ToSet(list)
    BY <1>1, <1>2 DEF ToSet
  <2> QED
    BY <2>2, <2>3
<1> QED
  BY <1>3 DEF long

\* ... and without its head.
LEMMA SetTail ==
  ASSUME NEW S, NEW list \in Seq(S), list # <<>>
  PROVE  /\ list[1] \in S /\ Tail(list) \in Seq(S)
         /\ ToSet(list) = {list[1]} \cup ToSet(Tail(list))
<1> DEFINE short == Tail(list)
<1>1. /\ list[1] \in S /\ short \in Seq(S) /\ Len(list) \in Nat /\ Len(list) > 0
      /\ DOMAIN list = 1..Len(list) /\ DOMAIN short = 1..(Len(list) - 1)
      /\ \A i \in 1..(Len(list) - 1) : short[i] = list[i + 1]
  OBVIOUS
<1>2. \A i \in 1..Len(list) : i = 1 \/ (i - 1 \in 1..(Len(list) - 1) /\ list[i] = short[i - 1])
  <2> HIDE DEF short
  <2> QED
    BY <1>1
<1> HIDE DEF short
<1>3. ToSet(list) = {list[1]} \cup ToSet(short)
  <2>1. \A i \in 1..(Len(list) - 1) : i + 1 \in 1..Len(list)
    BY <1>1
  <2>2. 1 \in DOMAIN list
    BY <1>1
  <2>3. ToSet(short) \subseteq ToSet(list)
    BY <1>1, <2>1 DEF ToSet
  <2>4. ASSUME NEW x \in ToSet(list) PROVE x = list[1] \/ x \in ToSet(short)
    <3>1. PICK i \in 1..Len(list) : x = list[i]
      BY <1>1 DEF ToSet
    <3>2. i = 1 \/ (i - 1 \in DOMAIN short /\ x = short[i - 1])
      BY <1>1, <1>2, <3>1
    <3> QED
      BY <3>1, <3>2 DEF ToSet
  <2> QED
    BY <2>2, <2>3, <2>4 DEF ToSet
<1> QED
  BY <1>1, <1>3 DEF short

\* The elements of a list have its type; an empty list has none.
LEMMA SetOf ==
  /\ \A S : \A list \in Seq(S) : ToSet(list) \subseteq S
  /\ ToSet(<<>>) = {}
BY DEF ToSet
-------------------------------------------------------------------------------
\* Counting.

PlacesIn(list, k) == {i \in DOMAIN list : IsCall(list[i]) /\ list[i].n = k}

\* A list holds a natural number of places of a call, none if it has none.
LEMMA HoldingType ==
  ASSUME NEW list \in Seq(Commands), NEW k
  PROVE  /\ Holding(list, k) \in Nat /\ IsFiniteSet(PlacesIn(list, k))
         /\ Holding(list, k) = Cardinality(PlacesIn(list, k))
         /\ Holding(list, k) = 0 <=> \A i \in DOMAIN list : ~(IsCall(list[i]) /\ list[i].n = k)
<1>1. IsFiniteSet(1..Len(list))
  BY FS_Interval
<1>2. PlacesIn(list, k) \subseteq 1..Len(list)
  BY DEF PlacesIn
<1>3. IsFiniteSet(PlacesIn(list, k))
  BY <1>1, <1>2, FS_Subset
<1>4. Cardinality(PlacesIn(list, k)) \in Nat
  BY <1>3, FS_CardinalityType
<1>5. Cardinality(PlacesIn(list, k)) = 0 <=> PlacesIn(list, k) = {}
  BY <1>3, FS_EmptySet
<1> QED
  BY <1>3, <1>4, <1>5 DEF Holding, PlacesIn

\* One element less is one place less of its call.
LEMMA HoldingWithout ==
  ASSUME NEW long \in Seq(Commands), NEW short \in Seq(Commands), NEW p \in 1..Len(long), NEW k,
         Len(long) = Len(short) + 1,
         \A i \in 1..Len(short) : short[i] = long[IF i < p THEN i ELSE i + 1]
  PROVE  Holding(long, k) = Holding(short, k) + IF IsCall(long[p]) /\ long[p].n = k THEN 1 ELSE 0
<1> DEFINE S == PlacesIn(short, k)
           T == PlacesIn(long, k) \ {p}
           f == [i \in S |-> IF i < p THEN i ELSE i + 1]
<1>1. IsFiniteSet(S) /\ IsFiniteSet(PlacesIn(long, k)) /\ Holding(long, k) \in Nat
      /\ Holding(short, k) \in Nat /\ Holding(short, k) = Cardinality(S) /\ Holding(long, k) = Cardinality(PlacesIn(long, k))
  BY HoldingType
<1>2. S \subseteq 1..Len(short) /\ T \subseteq 1..Len(long)
  BY DEF PlacesIn
<1>3. f \in [S -> T]
  <2> SUFFICES ASSUME NEW i \in S PROVE f[i] \in T
    OBVIOUS
  <2>1. i \in 1..Len(short) /\ IsCall(short[i]) /\ short[i].n = k
    BY <1>2 DEF PlacesIn
  <2> QED
    BY <2>1 DEF PlacesIn
<1>4. \A i, j \in S : f[i] = f[j] => i = j
  BY <1>2
<1>5. \A t \in T : \E i \in S : f[i] = t
  <2> SUFFICES ASSUME NEW t \in T PROVE \E i \in S : f[i] = t
    OBVIOUS
  <2>1. t \in 1..Len(long) /\ t # p /\ IsCall(long[t]) /\ long[t].n = k
    BY <1>2 DEF PlacesIn
  <2> DEFINE i == IF t < p THEN t ELSE t - 1
  <2>2. i \in 1..Len(short) /\ (IF i < p THEN i ELSE i + 1) = t
    BY <2>1
  <2> HIDE DEF i
  <2>3. i \in DOMAIN short /\ short[i] = long[t]
    BY <2>2
  <2>4. i \in S
    BY <2>1, <2>3 DEF PlacesIn
  <2> QED
    BY <2>2, <2>4
<1>6. ExistsBijection(S, T)
  <2> HIDE DEF f, S, T
  <2>1. f \in Bijection(S, T)
    BY <1>3, <1>4, <1>5, Fun_IsBij
  <2> QED
    BY <2>1 DEF ExistsBijection
<1>7. Cardinality(T) = Cardinality(S)
  BY <1>1, <1>6, FS_Bijection
<1>8. CASE p \in PlacesIn(long, k)
  <2>1. Cardinality(PlacesIn(long, k) \ {p}) = Cardinality(PlacesIn(long, k)) - 1
    BY <1>1, <1>8, FS_RemoveElement
  <2> QED
    BY <2>1, <1>1, <1>7, <1>8 DEF PlacesIn
<1>9. CASE p \notin PlacesIn(long, k)
  <2>1. PlacesIn(long, k) = T
    BY <1>9
  <2>2. ~(IsCall(long[p]) /\ long[p].n = k)
    BY <1>9 DEF PlacesIn
  <2> HIDE DEF S, T
  <2> QED
    BY <2>1, <2>2, <1>1, <1>7
<1> QED
  BY <1>8, <1>9

\* A command added at the end has one more place there.
LEMMA HoldingAppend ==
  ASSUME NEW list \in Seq(Commands), NEW c \in Commands, NEW k
  PROVE  /\ Append(list, c) \in Seq(Commands)
         /\ Holding(Append(list, c), k) = Holding(list, k) + IF IsCall(c) /\ c.n = k THEN 1 ELSE 0
<1> DEFINE long == Append(list, c)
           p == Len(list) + 1
<1>1. long \in Seq(Commands) /\ Len(long) = Len(list) + 1 /\ long[p] = c /\ p \in 1..Len(long)
  OBVIOUS
<1>2. \A i \in 1..Len(list) : list[i] = long[IF i < p THEN i ELSE i + 1]
  OBVIOUS
<1> HIDE DEF long, p
<1>3. Holding(long, k) = Holding(list, k) + IF IsCall(long[p]) /\ long[p].n = k THEN 1 ELSE 0
  BY <1>1, <1>2, HoldingWithout, SMTT(60)
<1> QED
  BY <1>1, <1>3 DEF long

\* A command added at the head has one more place there.
LEMMA HoldingCons ==
  ASSUME NEW list \in Seq(Commands), NEW c \in Commands, NEW k
  PROVE  /\ <<c>> \o list \in Seq(Commands)
         /\ Holding(<<c>> \o list, k) = Holding(list, k) + IF IsCall(c) /\ c.n = k THEN 1 ELSE 0
<1> DEFINE long == <<c>> \o list
<1>1. long \in Seq(Commands) /\ Len(long) = Len(list) + 1 /\ long[1] = c /\ 1 \in 1..Len(long)
  OBVIOUS
<1>2. \A i \in 1..Len(list) : list[i] = long[IF i < 1 THEN i ELSE i + 1]
  OBVIOUS
<1> HIDE DEF long
<1>3. Holding(long, k) = Holding(list, k) + IF IsCall(long[1]) /\ long[1].n = k THEN 1 ELSE 0
  BY <1>1, <1>2, HoldingWithout, ZenonT(60)
<1> QED
  BY <1>1, <1>3 DEF long

\* The first command is detached with its place.
LEMMA HoldingTail ==
  ASSUME NEW list \in Seq(Commands), list # <<>>, NEW k
  PROVE  /\ Tail(list) \in Seq(Commands) /\ list[1] \in Commands
         /\ Holding(list, k) = Holding(Tail(list), k) + IF IsCall(list[1]) /\ list[1].n = k THEN 1 ELSE 0
<1> DEFINE short == Tail(list)
<1>1. short \in Seq(Commands) /\ Len(list) = Len(short) + 1 /\ 1 \in 1..Len(list)
  OBVIOUS
<1>2. \A i \in 1..Len(short) : short[i] = list[IF i < 1 THEN i ELSE i + 1]
  OBVIOUS
<1> HIDE DEF short
<1>3. Holding(list, k) = Holding(short, k) + IF IsCall(list[1]) /\ list[1].n = k THEN 1 ELSE 0
  BY <1>1, <1>2, HoldingWithout
<1> QED
  BY <1>1, <1>3 DEF short

\* ListDetach takes one place, that of the response it detaches.
LEMMA HoldingRemoved ==
  ASSUME NEW list \in Seq(Calls), NEW p \in DOMAIN list, NEW k
  PROVE  /\ RemoveAt(list, p) \in Seq(Calls) /\ list[p] \in Calls
         /\ Holding(list, k) = Holding(RemoveAt(list, p), k) + IF list[p].n = k THEN 1 ELSE 0
<1> DEFINE u == SubSeq(list, 1, p - 1)
           v == SubSeq(list, p + 1, Len(list))
<1>1. p \in 1..Len(list) /\ list[p] \in Calls
  OBVIOUS
<1>8. list \in Seq(Commands) /\ IsCall(list[p])
  <2>1. Calls \subseteq Commands
    BY DEF Commands
  <2>2. list \in Seq(Commands)
    BY <2>1, SeqMonotonic
  <2> QED
    BY <1>1, <2>2 DEF Calls, IsCall
<1>2. u \in Seq(Calls) /\ Len(u) = p - 1 /\ \A i \in 1..(p - 1) : u[i] = list[i]
  BY <1>1, SubSeqProperties
<1>3. v \in Seq(Calls) /\ Len(v) = Len(list) - p /\ \A i \in 1..(Len(list) - p) : v[i] = list[p + i]
  BY <1>1
<1>4. RemoveAt(list, p) = u \o v
  BY DEF RemoveAt
<1>5. /\ u \o v \in Seq(Calls) /\ Len(u \o v) = Len(list) - 1
      /\ \A i \in 1..(Len(list) - 1) : (u \o v)[i] = list[IF i < p THEN i ELSE i + 1]
  <2> HIDE DEF u, v
  <2> QED
    BY <1>1, <1>2, <1>3, ConcatProperties
<1>6. u \o v \in Seq(Commands)
  BY <1>5, SeqMonotonic DEF Commands
<1> HIDE DEF u, v
<1>7. Holding(list, k) = Holding(u \o v, k) + IF IsCall(list[p]) /\ list[p].n = k THEN 1 ELSE 0
  <2> DEFINE w == u \o v
  <2>1. w \in Seq(Commands) /\ Len(list) = Len(w) + 1
        /\ \A i \in 1..Len(w) : w[i] = list[IF i < p THEN i ELSE i + 1]
    BY <1>1, <1>5, <1>6
  <2> HIDE DEF w
  <2>2. Holding(list, k) = Holding(w, k) + IF IsCall(list[p]) /\ list[p].n = k THEN 1 ELSE 0
    BY <1>1, <1>8, <2>1, HoldingWithout
  <2> QED
    BY <2>2 DEF w
<1> QED
  BY <1>1, <1>8, <1>4, <1>5, <1>7
-------------------------------------------------------------------------------
\* The functions the threads share.

\* A call has a natural number of places in the client's lists, and none if
\* neither list has it.
LEMMA ListedType ==
  ASSUME NEW m, ClientOK(m), NEW k
  PROVE  /\ Listed(m, k) \in Nat /\ Holding(m.commands, k) \in Nat /\ Holding(m.responses, k) \in Nat
         /\ m.responses \in Seq(Commands)
         /\ Listed(m, k) = 0 <=> /\ \A i \in DOMAIN m.commands : ~(IsCall(m.commands[i]) /\ m.commands[i].n = k)
                                 /\ \A i \in DOMAIN m.responses : ~(IsCall(m.responses[i]) /\ m.responses[i].n = k)
<1>1. m.commands \in Seq(Commands) /\ m.responses \in Seq(Calls)
  BY DEF ClientOK
<1>2. Calls \subseteq Commands
  BY DEF Commands
<1>3. m.responses \in Seq(Commands)
  BY <1>1, <1>2, SeqMonotonic
<1>4. /\ Holding(m.commands, k) \in Nat
      /\ Holding(m.commands, k) = 0 <=> \A i \in DOMAIN m.commands : ~(IsCall(m.commands[i]) /\ m.commands[i].n = k)
  BY <1>1, HoldingType
<1>5. /\ Holding(m.responses, k) \in Nat
      /\ Holding(m.responses, k) = 0 <=> \A i \in DOMAIN m.responses : ~(IsCall(m.responses[i]) /\ m.responses[i].n = k)
  BY <1>3, HoldingType
<1> QED
  BY <1>3, <1>4, <1>5 DEF Listed

\* Keeping all calls is a way of keeping all or none.
LEMMA RetainsShrinks ==
  ASSUME NEW m, NEW n, Retains(m, n)
  PROVE  Shrinks(m, n)
BY DEF Retains, Shrinks

\* One after the other, two functions keep or drop a call.
LEMMA ShrinksTwice ==
  ASSUME NEW m, NEW n, NEW p, Shrinks(m, n), Shrinks(n, p)
  PROVE  Shrinks(m, p)
BY DEF Shrinks

\* One after the other, two functions that keep the calls keep them.
LEMMA RetainsTwice ==
  ASSUME NEW m, NEW n, NEW p, Retains(m, n), Retains(n, p)
  PROVE  Retains(m, p)
BY DEF Retains

\* What leaves the two lists alone.
LEMMA SameLists ==
  ASSUME NEW m, ClientOK(m), NEW n, DOMAIN n = DOMAIN m,
         n.commands = m.commands, n.responses = m.responses,
         n.msgID \in Nat, n.uri \in Nat, n.disconnect \in Commands \cup {NoCommand},
         n.pending_write = m.pending_write
  PROVE  Retains(m, n)
BY DEF ClientOK, Retains, Listed, CallsOf

\* MQTTAsync_addCommand of a connect or disconnect gives no call a place.
LEMMA ControlAdded ==
  ASSUME NEW m, ClientOK(m), NEW c \in Commands, ~IsCall(c)
  PROVE  Retains(m, addCommand(m, c))
<1>1. m.commands \in Seq(Commands)
  BY DEF ClientOK
<1>2. CASE addCommand(m, c) = m
  BY <1>2 DEF Retains
<1>3. CASE addCommand(m, c) = [m EXCEPT !.commands = <<c>> \o @]
  <2> DEFINE n == [m EXCEPT !.commands = <<c>> \o @]
  <2>1. n.commands = <<c>> \o m.commands /\ n.responses = m.responses /\ DOMAIN n = DOMAIN m
        /\ n.msgID = m.msgID /\ n.uri = m.uri /\ n.disconnect = m.disconnect /\ n.pending_write = m.pending_write
    BY DEF ClientOK
  <2>2. <<c>> \o m.commands \in Seq(Commands)
    BY <1>1
  <2>3. ClientOK(n)
    BY <2>1, <2>2 DEF ClientOK
  <2>4. ASSUME NEW k \in Numbers PROVE Listed(n, k) = Listed(m, k)
    <3>1. Holding(<<c>> \o m.commands, k) = Holding(m.commands, k) + 0
      BY <1>1, HoldingCons
    <3>2. Holding(m.commands, k) \in Nat /\ Holding(m.responses, k) \in Nat
      BY ListedType
    <3> HIDE DEF n
    <3> QED
      BY <2>1, <3>1, <3>2 DEF Listed
  <2>5. CallsOf(n) = CallsOf(m)
    <3>1. ToSet(n.commands) = {c} \cup ToSet(m.commands)
      BY <1>1, <2>1, SetCons
    <3> QED
      BY <2>1, <3>1 DEF CallsOf, CallSet
  <2>6. n.pending_write = m.pending_write
    BY <2>1
  <2> HIDE DEF n
  <2> QED
    BY <1>3, <2>3, <2>4, <2>5, <2>6 DEF Retains, n
<1>4. CASE addCommand(m, c) = [m EXCEPT !.commands = Append(@, c)]
  <2> DEFINE n == [m EXCEPT !.commands = Append(@, c)]
  <2>1. n.commands = Append(m.commands, c) /\ n.responses = m.responses /\ DOMAIN n = DOMAIN m
        /\ n.msgID = m.msgID /\ n.uri = m.uri /\ n.disconnect = m.disconnect /\ n.pending_write = m.pending_write
    BY DEF ClientOK
  <2>2. Append(m.commands, c) \in Seq(Commands)
    BY <1>1
  <2>3. ClientOK(n)
    BY <2>1, <2>2 DEF ClientOK
  <2>4. ASSUME NEW k \in Numbers PROVE Listed(n, k) = Listed(m, k)
    <3>1. Holding(Append(m.commands, c), k) = Holding(m.commands, k) + 0
      BY <1>1, HoldingAppend
    <3>2. Holding(m.commands, k) \in Nat /\ Holding(m.responses, k) \in Nat
      BY ListedType
    <3> HIDE DEF n
    <3> QED
      BY <2>1, <3>1, <3>2 DEF Listed
  <2>5. CallsOf(n) = CallsOf(m)
    <3>1. ToSet(n.commands) = ToSet(m.commands) \cup {c}
      BY <1>1, <2>1, SetAppend
    <3> QED
      BY <2>1, <3>1 DEF CallsOf, CallSet
  <2>6. n.pending_write = m.pending_write
    BY <2>1
  <2> HIDE DEF n
  <2> QED
    BY <1>4, <2>3, <2>4, <2>5, <2>6 DEF Retains, n
<1> QED
  BY <1>2, <1>3, <1>4 DEF addCommand

\* Connects and disconnects are commands and no calls; no command is neither.
LEMMA ControlCommands ==
  /\ \A uri \in Nat : ConnectTo(uri) \in Commands /\ ~IsCall(ConnectTo(uri))
  /\ \A kind \in {"internal", "close", "drain"} :
       Disconnect(kind) \in Commands /\ ~IsCall(Disconnect(kind))
  /\ ~IsCall(NoCommand) /\ NoCommand \notin Commands
BY DEF ConnectTo, Disconnect, Command, Commands, Calls, IsCall, NoCommand

\* MQTTAsync_disconnect_internal keeps the calls.
LEMMA DisconnectInternal ==
  ASSUME NEW m, ClientOK(m)
  PROVE  Retains(m, disconnect_internal(m))
<1>1. Retains(m, m)
  BY DEF Retains
<1> QED
  BY <1>1, ControlAdded, ControlCommands DEF disconnect_internal

\* MQTTAsync_closeOnly keeps the calls, and the server's number.
LEMMA CloseOnly ==
  ASSUME NEW m, ClientOK(m)
  PROVE  Retains(m, closeOnly(m)) /\ closeOnly(m).uri = m.uri
<1>1. /\ DOMAIN closeOnly(m) = DOMAIN m
      /\ closeOnly(m).commands = m.commands /\ closeOnly(m).responses = m.responses
      /\ closeOnly(m).msgID = m.msgID /\ closeOnly(m).uri = m.uri
      /\ closeOnly(m).disconnect = m.disconnect /\ closeOnly(m).pending_write = m.pending_write
  BY DEF closeOnly, ClientOK
<1> QED
  BY <1>1, SameLists DEF ClientOK

\* MQTTAsync_startConnectRetry keeps the calls.
LEMMA StartRetry ==
  ASSUME NEW m, ClientOK(m)
  PROVE  Retains(m, startConnectRetry(m))
<1> DEFINE n == startConnectRetry(m)
<1>1. /\ DOMAIN n = DOMAIN m /\ n.commands = m.commands /\ n.responses = m.responses
      /\ n.msgID = m.msgID /\ n.uri = m.uri /\ n.disconnect = m.disconnect /\ n.pending_write = m.pending_write
  BY DEF startConnectRetry, ClientOK
<1> HIDE DEF n
<1>2. Retains(m, n)
  BY <1>1, SameLists DEF ClientOK
<1> QED
  BY <1>2 DEF n

\* MQTTAsync_cleanSession keeps none.
LEMMA CleanSession ==
  ASSUME NEW m, ClientOK(m)
  PROVE  Shrinks(m, cleanSession(m))
<1> DEFINE n == cleanSession(m)
<1>1. /\ DOMAIN n = DOMAIN m /\ n.commands = <<>> /\ n.responses = <<>>
      /\ n.msgID = 0 /\ n.uri = m.uri /\ n.disconnect = m.disconnect /\ n.pending_write = m.pending_write
  BY DEF cleanSession, ClientOK
<1> HIDE DEF n
<1>2. ClientOK(n)
  BY <1>1 DEF ClientOK
<1>3. \A k \in Numbers : Listed(n, k) = 0
  BY <1>1, <1>2, ListedType
<1>4. CallsOf(n) = {}
  BY <1>1, SetOf DEF CallsOf, CallSet
<1> QED
  BY <1>1, <1>2, <1>3, <1>4 DEF Shrinks, n

\* MQTTAsync_closeSession keeps all calls or none.
LEMMA CloseSession ==
  ASSUME NEW m, ClientOK(m)
  PROVE  Shrinks(m, closeSession(m)) /\ ClientOK(closeSession(m))
<1>1. Retains(m, closeOnly(m)) /\ ClientOK(closeOnly(m))
  BY CloseOnly DEF Retains
<1>2. Shrinks(m, closeOnly(m)) /\ Shrinks(closeOnly(m), cleanSession(closeOnly(m)))
  BY <1>1, RetainsShrinks, CleanSession
<1>3. Shrinks(m, cleanSession(closeOnly(m)))
  BY <1>2, ShrinksTwice
<1> QED
  BY <1>2, <1>3 DEF closeSession, Shrinks

\* nextOrClose keeps all calls or none.
LEMMA NextOrClose ==
  ASSUME NEW m, ClientOK(m)
  PROVE  Shrinks(m, nextOrClose(m))
<1>1. Retains(m, closeOnly(m)) /\ ClientOK(closeOnly(m))
  BY CloseOnly DEF Retains
<1>2. m.uri + 1 \in Nat
  BY DEF ClientOK
<1>3. Retains(closeOnly(m), addCommand(closeOnly(m), ConnectTo(m.uri + 1)))
  BY <1>1, <1>2, ControlAdded, ControlCommands
<1>4. Shrinks(m, addCommand(closeOnly(m), ConnectTo(m.uri + 1)))
  BY <1>1, <1>3, RetainsTwice, RetainsShrinks
<1>5. Shrinks(m, closeSession(m)) /\ ClientOK(closeSession(m))
  BY CloseSession
<1>6. Shrinks(m, startConnectRetry(closeSession(m)))
  BY <1>5, StartRetry, RetainsShrinks, ShrinksTwice
<1> QED
  BY <1>4, <1>6 DEF nextOrClose

\* MQTTAsync_checkDisconnect keeps all calls or none.
LEMMA CheckDisconnect ==
  ASSUME NEW m, ClientOK(m), NEW c
  PROVE  Shrinks(m, checkDisconnect(m, c)) /\ ClientOK(checkDisconnect(m, c))
<1>1. Shrinks(m, closeSession(m)) /\ ClientOK(closeSession(m))
  BY CloseSession
<1>2. Shrinks(m, startConnectRetry(closeSession(m)))
  BY <1>1, StartRetry, RetainsShrinks, ShrinksTwice
<1> QED
  BY <1>1, <1>2 DEF checkDisconnect, Shrinks

\* A write to the socket keeps the calls.
LEMMA WritesFacts ==
  ASSUME NEW m, ClientOK(m), NEW list
  PROVE  Retains(m, Writes(m, list))
<1> DEFINE n == Writes(m, list)
<1>1. /\ DOMAIN n = DOMAIN m /\ n.commands = m.commands /\ n.responses = m.responses
      /\ n.msgID = m.msgID /\ n.uri = m.uri /\ n.disconnect = m.disconnect /\ n.pending_write = m.pending_write
  BY DEF Writes, ClientOK
<1> HIDE DEF n
<1>2. Retains(m, n)
  BY <1>1, SameLists DEF ClientOK
<1> QED
  BY <1>2 DEF n

\* So does the CONNECT.
LEMMA SendConnectFacts ==
  ASSUME NEW m, ClientOK(m)
  PROVE  Retains(m, SendConnect(m))
<1> DEFINE n == [m EXCEPT !.state = "WAIT_FOR_CONNACK"]
<1>1. /\ DOMAIN n = DOMAIN m /\ n.commands = m.commands /\ n.responses = m.responses
      /\ n.msgID = m.msgID /\ n.uri = m.uri /\ n.disconnect = m.disconnect /\ n.pending_write = m.pending_write
  BY DEF ClientOK
<1> HIDE DEF n
<1>2. Retains(m, n) /\ ClientOK(n)
  BY <1>1, SameLists DEF ClientOK, Retains
<1>3. Retains(m, Writes(n, <<ConnectTo(0)>>))
  BY <1>2, WritesFacts, RetainsTwice
<1> QED
  BY <1>3 DEF SendConnect, n

\* A connect that cannot begin keeps the calls.
LEMMA ConnectFailedFacts ==
  ASSUME NEW m, ClientOK(m), NEW c, c.n \in Nat
  PROVE  Retains(m, ConnectFailed(m, c))
<1> DEFINE s == [m EXCEPT !.shouldBeConnected = TRUE]
           u == [s EXCEPT !.uri = c.n]
<1>1. /\ DOMAIN s = DOMAIN m /\ s.commands = m.commands /\ s.responses = m.responses
      /\ s.msgID = m.msgID /\ s.uri = m.uri /\ s.disconnect = m.disconnect /\ s.pending_write = m.pending_write
  BY DEF ClientOK
<1>2. /\ DOMAIN u = DOMAIN m /\ u.commands = m.commands /\ u.responses = m.responses
      /\ u.msgID = m.msgID /\ u.uri = c.n /\ u.disconnect = m.disconnect /\ u.pending_write = m.pending_write
  BY DEF ClientOK
<1> HIDE DEF s, u
<1>3. Retains(m, s) /\ ClientOK(s) /\ Retains(m, u) /\ ClientOK(u)
  BY <1>1, <1>2, SameLists DEF ClientOK, Retains
<1>4. Retains(m, addCommand(s, ConnectTo(c.n + 1)))
  BY <1>3, ControlAdded, ControlCommands, RetainsTwice
<1>5. Retains(m, startConnectRetry(u))
  BY <1>3, StartRetry, RetainsTwice
<1> QED
  BY <1>4, <1>5 DEF ConnectFailed, s, u

\* A socket error keeps all calls or none.
LEMMA SocketFailedFacts ==
  ASSUME NEW m, ClientOK(m)
  PROVE  Shrinks(m, SocketFailed(m))
BY DisconnectInternal, NextOrClose, CloseOnly, RetainsShrinks DEF SocketFailed

\* What is sent again, wherever a write is cut, keeps the calls.
LEMMA ResendsFacts ==
  ASSUME NEW m, ClientOK(m), NEW k
  PROVE  Retains(m, Resends(m, k))
<1>1. CASE k = 0
  BY <1>1, WritesFacts DEF Resends
<1>2. CASE k # 0
  <2> DEFINE list == SubSeq(m.outbound, 1, k - 1)
             held == {m.outbound[i].n : i \in (k + 1)..Len(m.outbound)}
             w == Writes(m, list)
             n == [w EXCEPT !.cut = m.outbound[k], !.heldBack = held]
  <2>1. Retains(m, w) /\ ClientOK(w)
    BY WritesFacts DEF Retains
  <2>2. Resends(m, k) = n
    BY <1>2 DEF Resends
  <2> HIDE DEF w, held
  <2>3. /\ DOMAIN n = DOMAIN w /\ n.commands = w.commands /\ n.responses = w.responses
        /\ n.msgID = w.msgID /\ n.uri = w.uri /\ n.disconnect = w.disconnect
        /\ n.pending_write = w.pending_write
    BY <2>1 DEF ClientOK
  <2> HIDE DEF n
  <2>4. Retains(w, n)
    BY <2>1, <2>3, SameLists DEF ClientOK
  <2> QED
    BY <2>1, <2>2, <2>4, RetainsTwice
<1> QED
  BY <1>1, <1>2

\* MQTTAsync_completeConnection keeps all calls, or none when the session
\* begins anew.
LEMMA CompleteConnection ==
  ASSUME NEW m, ClientOK(m), NEW p, NEW n \in completeConnection(m, p)
  PROVE  Shrinks(m, n)
<1> DEFINE c == [m EXCEPT !.retrying = FALSE, !.connected = TRUE, !.state = "NOT_IN_PROGRESS",
                          !.heldBack = {}]
           s == IF AsyncClean \/ p.id = 0 THEN cleanSession(c) ELSE c
<1>1. /\ DOMAIN c = DOMAIN m /\ c.commands = m.commands /\ c.responses = m.responses
      /\ c.msgID = m.msgID /\ c.uri = m.uri /\ c.disconnect = m.disconnect
      /\ c.pending_write = m.pending_write
  BY DEF ClientOK
<1>2. PICK k : n = Resends(s, k)
  BY DEF completeConnection
<1> HIDE DEF c
<1>3. Retains(m, c) /\ ClientOK(c)
  BY <1>1, SameLists DEF ClientOK, Retains
<1>4. Shrinks(m, c) /\ Shrinks(m, cleanSession(c))
  BY <1>3, RetainsShrinks, CleanSession, ShrinksTwice
<1>5. Shrinks(m, s) /\ ClientOK(s)
  BY <1>4 DEF Shrinks
<1> HIDE DEF s
<1>6. Shrinks(m, Resends(s, k))
  BY <1>5, ResendsFacts, RetainsShrinks, ShrinksTwice
<1> QED
  BY <1>2, <1>6
-------------------------------------------------------------------------------
\* Telling.

\* The calls that are told when the client is cleaned are those whose places
\* all went.
LEMMA DroppedFacts ==
  ASSUME NEW m, ClientOK(m), NEW n, ClientOK(n), NEW k \in Numbers
  PROVE  k \in Dropped(m, n) <=> Listed(m, k) # 0 /\ Listed(n, k) = 0
<1> DEFINE of(list) == {list[i].n : i \in {j \in DOMAIN list : IsCall(list[j])}}
<1>1. k \in Dropped(m, n) <=> /\ k \in of(m.commands) \/ k \in of(m.responses)
                              /\ k \notin of(n.commands) /\ k \notin of(n.responses)
  BY DEF Dropped
<1>2. ASSUME NEW list PROVE k \in of(list) <=> \E i \in DOMAIN list : IsCall(list[i]) /\ list[i].n = k
  OBVIOUS
<1> HIDE DEF of
<1>3. Listed(m, k) = 0 <=> k \notin of(m.commands) /\ k \notin of(m.responses)
  BY <1>2, ListedType
<1>4. Listed(n, k) = 0 <=> k \notin of(n.commands) /\ k \notin of(n.responses)
  BY <1>2, ListedType
<1> QED
  BY <1>1, <1>3, <1>4

\* A callback adds one outcome to each of the calls it is for.
LEMMA TellFacts ==
  ASSUME ToldInv, NEW ns, NEW outcome \in Outcomes
  PROVE  /\ Tell(ns, outcome) \in [Numbers -> Seq(Outcomes)]
         /\ \A k \in Numbers : Len(Tell(ns, outcome)[k]) = Len(told[k]) + IF k \in ns THEN 1 ELSE 0
<1> DEFINE word == IF crashed THEN "unheard" ELSE outcome
<1>1. word \in Outcomes /\ DOMAIN told = Numbers /\ \A k \in Numbers : told[k] \in Seq(Outcomes)
  <2>1. word \in Outcomes
    BY DEF Outcomes
  <2> QED
    BY <2>1 DEF ToldInv
<1>2. Tell(ns, outcome) = [k \in Numbers |-> IF k \in ns THEN Append(told[k], word) ELSE told[k]]
  BY <1>1 DEF Tell
<1> HIDE DEF word
<1>3. ASSUME NEW k \in Numbers
      PROVE  Append(told[k], word) \in Seq(Outcomes) /\ Len(Append(told[k], word)) = Len(told[k]) + 1
             /\ Len(told[k]) \in Nat
  BY <1>1
<1> QED
  BY <1>1, <1>2, <1>3

\* A list without one of its places has no other elements.
LEMMA WithoutSet ==
  ASSUME NEW list \in Seq(Calls), NEW places \in SUBSET DOMAIN list
  PROVE  WithoutOne(list, places) \in Seq(Calls) /\ ToSet(WithoutOne(list, places)) \subseteq ToSet(list)
<1>1. CASE places = {}
  BY <1>1 DEF WithoutOne
<1>2. CASE places # {}
  <2> DEFINE p == CHOOSE i \in places : TRUE
             u == SubSeq(list, 1, p - 1)
             v == SubSeq(list, p + 1, Len(list))
  <2>1. p \in places
    BY <1>2
  <2>2. p \in 1..Len(list) /\ Len(list) \in Nat /\ DOMAIN list = 1..Len(list)
    BY <2>1
  <2> HIDE DEF p
  <2>3. u \in Seq(Calls) /\ Len(u) = p - 1 /\ \A i \in 1..(p - 1) : u[i] = list[i]
    BY <2>2, SubSeqProperties
  <2>4. v \in Seq(Calls) /\ Len(v) = Len(list) - p /\ \A i \in 1..(Len(list) - p) : v[i] = list[p + i]
    BY <2>2
  <2>5. WithoutOne(list, places) = u \o v
    BY <1>2 DEF WithoutOne, RemoveAt, p
  <2> DEFINE w == u \o v
  <2>6. w \in Seq(Calls) /\ DOMAIN w = 1..(Len(u) + Len(v))
        /\ \A i \in 1..(Len(u) + Len(v)) : w[i] = IF i <= Len(u) THEN u[i] ELSE v[i - Len(u)]
    <3>1. u \in Seq(Calls) /\ v \in Seq(Calls)
      BY <2>3, <2>4
    <3> HIDE DEF u, v
    <3> QED
      BY <3>1
  <2> HIDE DEF u, v, w
  <2>7. ASSUME NEW i \in DOMAIN w PROVE \E j \in DOMAIN list : w[i] = list[j]
    <3>1. CASE i <= Len(u)
      <4>1. i \in 1..(p - 1) /\ i \in DOMAIN list
        BY <2>2, <2>3, <2>6, <3>1
      <4> QED
        BY <2>3, <2>6, <3>1, <4>1
    <3>2. CASE ~(i <= Len(u))
      <4>1. i - Len(u) \in 1..(Len(list) - p) /\ p + (i - Len(u)) \in DOMAIN list
        BY <2>2, <2>3, <2>4, <2>6, <3>2
      <4> QED
        BY <2>4, <2>6, <3>2, <4>1
    <3> QED
      BY <3>1, <3>2
  <2>8. ToSet(w) \subseteq ToSet(list)
    BY <2>7 DEF ToSet
  <2> QED
    BY <2>5, <2>6, <2>8 DEF w
<1> QED
  BY <1>1, <1>2

\* The hand has the same call as before, if it has one.
SameHand == HeldSet(hand'.cmd) \subseteq HeldSet(hand.cmd) /\ \A k \in Numbers : InHand(k)' = InHand(k)

\* The calls are those that were there, and pending_write is what it was, or the
\* publication in the hand.
LEMMA KindsStep ==
  ASSUME CallsInv, UNCHANGED admitted,
         CallsOf(am') \cup HeldSet(hand'.cmd) \subseteq CallsOf(am) \cup HeldSet(hand.cmd),
         \/ am'.pending_write \in {am.pending_write, 0}
         \/ IsCall(hand.cmd) /\ hand.cmd.kind = "pub0" /\ am'.pending_write = hand.cmd.n
  PROVE  KindsInv' /\ PendingInv'
<1>1. KindsInv'
  <2>1. \A c \in CallsOf(am') \cup HeldSet(hand'.cmd) : WasAdmitted(c)
    BY DEF CallsInv, KindsInv
  <2> QED
    BY <2>1 DEF KindsInv, WasAdmitted, CallsOf, CallSet, HeldSet, ToSet
<1>2. CASE am'.pending_write \in {am.pending_write, 0}
  BY <1>1, <1>2 DEF CallsInv, PendingInv, Forgettable
<1>3. CASE IsCall(hand.cmd) /\ hand.cmd.kind = "pub0" /\ am'.pending_write = hand.cmd.n
  <2>1. WasAdmitted(hand.cmd)
    BY <1>3 DEF CallsInv, KindsInv, HeldSet
  <2>2. am'.pending_write \in DOMAIN admitted /\ admitted[am'.pending_write].kind = "pub0"
    BY <1>3, <2>1 DEF WasAdmitted
  <2> QED
    BY <1>1, <2>2 DEF PendingInv
<1> QED
  BY <1>2, <1>3

\* The client's lists keep their calls: nobody is told.
LEMMA KeptStep ==
  ASSUME CallsInv, Retains(am, am'), SameHand,
         UNCHANGED <<told, admitted>>
  PROVE  ClientOK(am)' /\ ToldInv' /\ OnePlace' /\ KindsInv' /\ PendingInv'
<1>1. ClientOK(am')
  BY DEF Retains
<1>2. \A k \in Numbers : Listed(am', k) = Listed(am, k)
  BY DEF Retains
<1>3. OnePlace'
  BY <1>2 DEF CallsInv, OnePlace, Counted, Forgettable, Listed, SameHand
<1>4. KindsInv' /\ PendingInv'
  BY KindsStep DEF Retains, SameHand
<1> QED
  BY <1>1, <1>3, <1>4 DEF CallsInv, ToldInv, ClientOK

\* They are emptied: those that had a place there are told.
LEMMA DroppedStep ==
  ASSUME CallsInv, Shrinks(am, am'), told' = Tell(Dropped(am, am'), "failure"),
         SameHand, UNCHANGED admitted
  PROVE  ClientOK(am)' /\ ToldInv' /\ OnePlace' /\ KindsInv' /\ PendingInv'
<1>1. ClientOK(am) /\ ClientOK(am') /\ ToldInv
  BY DEF Shrinks, CallsInv
<1>2. /\ told' \in [Numbers -> Seq(Outcomes)]
      /\ \A k \in Numbers : Len(told'[k]) = Len(told[k]) + IF k \in Dropped(am, am') THEN 1 ELSE 0
  <2> DEFINE ns == Dropped(am, am')
             t == Tell(ns, "failure")
  <2>1. "failure" \in Outcomes /\ told' = t
    BY DEF Outcomes
  <2> HIDE DEF ns
  <2>2. /\ t \in [Numbers -> Seq(Outcomes)]
        /\ \A k \in Numbers : Len(t[k]) = Len(told[k]) + IF k \in ns THEN 1 ELSE 0
    BY <1>1, <2>1, TellFacts
  <2> HIDE DEF t
  <2>3. /\ told' \in [Numbers -> Seq(Outcomes)]
        /\ \A k \in Numbers : Len(told'[k]) = Len(told[k]) + IF k \in ns THEN 1 ELSE 0
    BY <2>1, <2>2
  <2> QED
    BY <2>3 DEF ns
<1>3. ASSUME NEW k \in Numbers
      PROVE  Counted(k, Len(told'[k]) + Listed(am', k) + InHand(k)')
  <2>1. Listed(am, k) \in Nat /\ Listed(am', k) \in Nat /\ Len(told[k]) \in Nat /\ InHand(k) \in Nat
    <3>1. told[k] \in Seq(Outcomes)
      BY <1>1 DEF ToldInv
    <3> QED
      BY <1>1, <3>1, ListedType DEF InHand
  <2>2. Counted(k, Len(told[k]) + Listed(am, k) + InHand(k))
    BY DEF CallsInv, OnePlace
  <2>3. k \in Dropped(am, am') <=> Listed(am, k) # 0 /\ Listed(am', k) = 0
    BY <1>1, DroppedFacts
  <2>4. Listed(am', k) = Listed(am, k) \/ Listed(am', k) = 0
    BY DEF Shrinks
  <2>5. Len(told'[k]) + Listed(am', k) = Len(told[k]) + Listed(am, k)
    <3>1. CASE k \in Dropped(am, am')
      <4>1. Len(told'[k]) = Len(told[k]) + 1
        BY <1>2, <3>1
      <4>2. Listed(am, k) = 1 /\ Listed(am', k) = 0
        BY <3>1, <2>1, <2>2, <2>3 DEF Counted
      <4> QED
        BY <4>1, <4>2, <2>1
    <3>2. CASE k \notin Dropped(am, am')
      <4>1. Len(told'[k]) = Len(told[k]) + 0
        BY <1>2, <3>2
      <4>2. Listed(am, k) = Listed(am', k)
        BY <3>2, <2>1, <2>3, <2>4
      <4> QED
        BY <4>1, <4>2, <2>1
    <3> QED
      BY <3>1, <3>2
  <2>6. InHand(k)' = InHand(k)
    BY DEF SameHand
  <2>7. Len(told'[k]) + Listed(am', k) + InHand(k)' = Len(told[k]) + Listed(am, k) + InHand(k)
    BY <2>5, <2>6
  <2> QED
    BY <2>2, <2>7
<1>4. OnePlace'
  BY <1>3 DEF OnePlace, Counted, Forgettable, Listed, Holding
<1>5. KindsInv' /\ PendingInv'
  BY KindsStep DEF Shrinks, SameHand
<1> QED
  BY <1>1, <1>2, <1>4, <1>5 DEF ToldInv, ClientOK

\* One call k0 moves out of the lists, or out of the hand, and is told.
LEMMA ToldStep ==
  ASSUME CallsInv, ClientOK(am'), NEW k0 \in Numbers, NEW outcome \in Outcomes,
         told' = Tell({k0}, outcome), UNCHANGED admitted,
         \A k \in Numbers : Listed(am', k) + InHand(k)' + (IF k = k0 THEN 1 ELSE 0)
                             = Listed(am, k) + InHand(k)
  PROVE  ClientOK(am)' /\ ToldInv' /\ OnePlace'
<1>1. ClientOK(am) /\ ToldInv
  BY DEF CallsInv
<1>2. /\ told' \in [Numbers -> Seq(Outcomes)]
      /\ \A k \in Numbers : Len(told'[k]) = Len(told[k]) + IF k \in {k0} THEN 1 ELSE 0
  <2> DEFINE t == Tell({k0}, outcome)
  <2>1. told' = t
    OBVIOUS
  <2>2. /\ t \in [Numbers -> Seq(Outcomes)]
        /\ \A k \in Numbers : Len(t[k]) = Len(told[k]) + IF k \in {k0} THEN 1 ELSE 0
    BY <1>1, TellFacts
  <2> HIDE DEF t
  <2> QED
    BY <2>1, <2>2
<1>3. ASSUME NEW k \in Numbers
      PROVE  Counted(k, Len(told'[k]) + Listed(am', k) + InHand(k)')
  <2>1. Listed(am, k) \in Nat /\ Listed(am', k) \in Nat /\ Len(told[k]) \in Nat /\ InHand(k) \in Nat
        /\ InHand(k)' \in Nat
    <3>1. told[k] \in Seq(Outcomes)
      BY <1>1 DEF ToldInv
    <3> QED
      BY <1>1, <3>1, ListedType DEF InHand
  <2>2. Counted(k, Len(told[k]) + Listed(am, k) + InHand(k))
    BY DEF CallsInv, OnePlace
  <2>3. Len(told'[k]) = Len(told[k]) + IF k = k0 THEN 1 ELSE 0
    BY <1>2
  <2>4. Listed(am', k) + InHand(k)' + (IF k = k0 THEN 1 ELSE 0) = Listed(am, k) + InHand(k)
    OBVIOUS
  <2> DEFINE x == IF k = k0 THEN 1 ELSE 0
             h == InHand(k)'
             l == Listed(am', k)
             t == Len(told'[k])
             u == Len(told[k])
             v == Listed(am, k)
             w == InHand(k)
  <2>5. /\ x \in Nat /\ h \in Nat /\ l \in Nat /\ u \in Nat /\ v \in Nat /\ w \in Nat
        /\ t = u + x /\ l + h + x = v + w
    BY <2>1, <2>3, <2>4
  <2> HIDE DEF x, h, l, t, u, v, w
  <2>6. t + l + h = u + v + w
    BY <2>5
  <2> QED
    BY <2>2, <2>6 DEF h, l, t, u, v, w
<1>4. OnePlace'
  BY <1>3 DEF OnePlace, Counted, Forgettable, Listed, Holding
<1> QED
  BY <1>2, <1>4 DEF ToldInv, ClientOK

\* A call moves between the lists and the hand: nobody is told.
LEMMA MovedStep ==
  ASSUME CallsInv, ClientOK(am'), UNCHANGED <<told, admitted>>,
         \A k \in Numbers : Listed(am', k) + InHand(k)' = Listed(am, k) + InHand(k)
  PROVE  ClientOK(am)' /\ ToldInv' /\ OnePlace'
<1>1. ASSUME NEW k \in Numbers
      PROVE  Counted(k, Len(told[k]) + Listed(am', k) + InHand(k)')
  <2>1. Listed(am, k) \in Nat /\ Listed(am', k) \in Nat /\ Len(told[k]) \in Nat /\ InHand(k) \in Nat
        /\ InHand(k)' \in Nat
    <3>1. told[k] \in Seq(Outcomes) /\ ClientOK(am)
      BY DEF CallsInv, ToldInv
    <3> QED
      BY <3>1, ListedType DEF InHand
  <2>2. Counted(k, Len(told[k]) + Listed(am, k) + InHand(k))
    BY DEF CallsInv, OnePlace
  <2>3. Listed(am', k) + InHand(k)' = Listed(am, k) + InHand(k)
    OBVIOUS
  <2>4. Len(told[k]) + Listed(am', k) + InHand(k)' = Len(told[k]) + Listed(am, k) + InHand(k)
    <3> DEFINE said == Len(told[k])
               now == Listed(am', k)    held == InHand(k)'
               old == Listed(am, k)     had == InHand(k)
    <3>1. said \in Nat /\ now \in Nat /\ held \in Nat /\ old \in Nat /\ had \in Nat
          /\ now + held = old + had
      BY <2>1, <2>3
    <3> HIDE DEF said, now, held, old, had
    <3>2. said + now + held = said + old + had
      BY <3>1
    <3> QED
      BY <3>2 DEF said, now, held, old, had
  <2> QED
    BY <2>2, <2>4
<1>2. OnePlace'
  BY <1>1 DEF OnePlace, Counted, Forgettable, Listed, Holding
<1> QED
  BY <1>2 DEF CallsInv, ToldInv, ClientOK

\* WithoutOne on the responses takes one place from the list.
LEMMA ResponseRemoved ==
  ASSUME NEW list \in Seq(Calls), NEW places \in SUBSET DOMAIN list, places # {}
  PROVE  \E p \in places : /\ WithoutOne(list, places) \in Seq(Calls) /\ list[p] \in Calls
                            /\ \A k : Holding(list, k) = Holding(WithoutOne(list, places), k)
                                                         + IF list[p].n = k THEN 1 ELSE 0
<1> DEFINE p == CHOOSE i \in places : TRUE
<1>1. p \in places
  OBVIOUS
<1>2. WithoutOne(list, places) = RemoveAt(list, p)
  BY DEF WithoutOne
<1> HIDE DEF p
<1>3. p \in DOMAIN list
  BY <1>1
<1>4. \A k : /\ RemoveAt(list, p) \in Seq(Calls) /\ list[p] \in Calls
             /\ Holding(list, k) = Holding(RemoveAt(list, p), k) + IF list[p].n = k THEN 1 ELSE 0
  BY <1>3, HoldingRemoved
<1> QED
  BY <1>1, <1>2, <1>4 DEF p

\* A response is detached, and its call told; or there was none.  Nothing else
\* of the client that counts changes.
LEMMA AnsweredStep ==
  ASSUME CallsInv, NEW places \in SUBSET DOMAIN am.responses, NEW outcome \in Outcomes,
         \A i, j \in places : am.responses[i].n = am.responses[j].n,
         DOMAIN am' = DOMAIN am, am'.commands = am.commands, am'.msgID = am.msgID,
         am'.uri = am.uri, am'.disconnect = am.disconnect, am'.pending_write \in {am.pending_write, 0},
         am'.responses = WithoutOne(am.responses, places),
         told' = Tell({am.responses[i].n : i \in places}, outcome),
         hand' = hand, UNCHANGED admitted
  PROVE  ClientOK(am)' /\ ToldInv' /\ OnePlace' /\ KindsInv' /\ PendingInv'
<1>1. ClientOK(am) /\ am.responses \in Seq(Calls) /\ am.commands \in Seq(Commands)
  BY DEF CallsInv, ClientOK
<1>2. \A k \in Numbers : InHand(k)' = InHand(k) /\ InHand(k) \in Nat
  BY DEF InHand
<1>5. KindsInv' /\ PendingInv'
  <2>1. ToSet(am'.responses) \subseteq ToSet(am.responses)
    BY <1>1, WithoutSet
  <2>2. CallsOf(am') \cup HeldSet(hand'.cmd) \subseteq CallsOf(am) \cup HeldSet(hand.cmd)
    BY <2>1 DEF CallsOf
  <2> QED
    BY <2>2, KindsStep
<1>3. CASE places = {}
  <2>1. am'.responses = am.responses
    BY <1>3 DEF WithoutOne
  <2>2. ClientOK(am') /\ \A k \in Numbers : Listed(am', k) = Listed(am, k)
    BY <1>1, <2>1 DEF ClientOK, Listed
  <2>3. {am.responses[i].n : i \in places} = {}
    BY <1>3
  <2>4. DOMAIN told = Numbers /\ told \in [Numbers -> Seq(Outcomes)]
    BY DEF CallsInv, ToldInv
  <2>5. told' = told
    BY <2>3, <2>4 DEF Tell
  <2> QED
    BY <1>2, <1>5, <2>2, <2>5, MovedStep
<1>4. CASE places # {}
  <2> DEFINE list == am.responses
             short == WithoutOne(am.responses, places)
  <2>0. /\ am.responses \in Seq(Calls) /\ places \in SUBSET DOMAIN am.responses /\ places # {}
    BY <1>1, <1>4
  <2>1. PICK q \in places : /\ short \in Seq(Calls) /\ list[q] \in Calls
                            /\ \A k : Holding(list, k) = Holding(short, k) + IF list[q].n = k THEN 1 ELSE 0
    BY <2>0, ResponseRemoved, Zenon
  <2> HIDE DEF list, short
  <2> DEFINE k0 == list[q].n
  <2>2. k0 \in Numbers
    BY <2>1 DEF Calls
  <2>3. {am.responses[i].n : i \in places} = {k0}
    BY DEF list
  <2>4. am'.responses = short /\ am.responses = list
    BY DEF short, list
  <2>5. ClientOK(am')
    BY <1>1, <2>1, <2>4 DEF ClientOK
  <2>6. told' = Tell({k0}, outcome)
    BY <2>3
  <2>7. ASSUME NEW k \in Numbers
        PROVE  Listed(am', k) + InHand(k)' + (IF k = k0 THEN 1 ELSE 0) = Listed(am, k) + InHand(k)
    <3> DEFINE a == Holding(am.commands, k)
               b == Holding(list, k)
               c == Holding(short, k)
               x == IF k = k0 THEN 1 ELSE 0
               h == InHand(k)
    <3>1. b = c + x
      BY <2>1
    <3>2. a \in Nat /\ b \in Nat /\ c \in Nat /\ h \in Nat /\ x \in Nat
      BY <1>1, <1>2, <2>4, <2>5, ListedType
    <3>3. Listed(am, k) = a + b /\ Listed(am', k) = a + c /\ InHand(k)' = h
      BY <1>2, <2>4 DEF Listed
    <3> HIDE DEF a, b, c, x, h
    <3>4. (a + c) + h + x = (a + b) + h
      BY <3>1, <3>2
    <3> QED
      BY <3>3, <3>4 DEF x, h
  <2> HIDE DEF k0
  <2> QED
    BY <1>5, <2>2, <2>5, <2>6, <2>7, ToldStep
<1> QED
  BY <1>3, <1>4
-------------------------------------------------------------------------------
\* The application's steps.

\* MQTTAsync_assignMsgId finds an id: fewer are in use than it looks at.
LEMMA NextIdType ==
  ASSUME NEW m, ClientOK(m)
  PROVE  NextId(m) \in Nat /\ NextId(m) > m.msgID /\ NextId(m) \notin UsedIds(m)
<1> DEFINE U == UsedIds(m)
           S == {m.commands[i].id : i \in DOMAIN m.commands}
           T == {m.responses[i].id : i \in DOMAIN m.responses}
           a == m.msgID + 1
           I == a..(a + Cardinality(U))
<1>1. IsFiniteSet(S) /\ IsFiniteSet(T)
  <2>1. ASSUME NEW list, NEW n \in Nat, DOMAIN list = 1..n
        PROVE  IsFiniteSet({list[i].id : i \in DOMAIN list})
    <3> DEFINE D == 1..n
               f == [i \in D |-> list[i].id]
               R == {list[i].id : i \in D}
    <3>1. IsFiniteSet(D)
      BY FS_Interval
    <3>2. f \in Surjection(D, R)
      BY DEF Surjection
    <3>3. IsFiniteSet(R)
      <4> HIDE DEF D, R, f
      <4> QED
        BY <3>1, <3>2, FS_Surjection
    <3> QED
      BY <2>1, <3>3
  <2>2. /\ Len(m.commands) \in Nat /\ DOMAIN m.commands = 1..Len(m.commands)
        /\ Len(m.responses) \in Nat /\ DOMAIN m.responses = 1..Len(m.responses)
    BY DEF ClientOK
  <2> QED
    BY <2>1, <2>2
<1>2. IsFiniteSet(U)
  <2>1. U = S \cup T
    BY DEF UsedIds
  <2> HIDE DEF U, S, T
  <2> QED
    BY <1>1, <2>1, FS_Union
<1>3. a \in Nat /\ Cardinality(U) \in Nat
  BY <1>2, FS_CardinalityType DEF ClientOK
<1> HIDE DEF U, S, T, a
<1>4. IsFiniteSet(I) /\ Cardinality(I) = Cardinality(U) + 1
  BY <1>3, FS_Interval
<1>5. ~(I \subseteq U)
  <2> SUFFICES ASSUME I \subseteq U PROVE FALSE
    OBVIOUS
  <2>1. Cardinality(I) <= Cardinality(U)
    BY <1>2, FS_Subset
  <2> QED
    BY <2>1, <1>3, <1>4
<1>6. PICK i \in I \ U : \A j \in I \ U : i <= j
  <2> DEFINE free == I \ U
  <2>1. free \in SUBSET Nat /\ free # {}
    BY <1>3, <1>5
  <2> HIDE DEF free
  <2>2. \E x \in free : \A y \in free : x <= y
    BY <2>1, LeastElement
  <2> QED
    BY <2>2 DEF free
<1>7. \A j \in a..(i - 1) : j \in U
  BY <1>3, <1>6
<1>8. NextId(m) = CHOOSE x \in I : x \notin U /\ \A j \in a..(x - 1) : j \in U
  BY DEF NextId, U, a
<1>9. NextId(m) \in I /\ NextId(m) \notin U
  <2> HIDE DEF I
  <2> QED
    BY <1>6, <1>7, <1>8
<1>10. NextId(m) \in Nat /\ NextId(m) >= a
  BY <1>3, <1>9
<1>11. m.msgID \in Nat /\ a = m.msgID + 1
  BY DEF ClientOK, a
<1> QED
  BY <1>9, <1>10, <1>11 DEF U

\* The fields that do not count.
LEMMA OtherField ==
  ASSUME NEW m, ClientOK(m), NEW x
  PROVE  /\ Retains(m, m) /\ Retains(m, [m EXCEPT !.shouldBeConnected = x])
         /\ Retains(m, [m EXCEPT !.retrying = x]) /\ Retains(m, [m EXCEPT !.peer = x])
         /\ Retains(m, [m EXCEPT !.state = x]) /\ Retains(m, [m EXCEPT !.in = x])
         /\ Retains(m, [m EXCEPT !.out = x]) /\ Retains(m, [m EXCEPT !.cut = x])
         /\ Retains(m, [m EXCEPT !.outbound = x])
<1>1. ASSUME NEW n, DOMAIN n = DOMAIN m, n.commands = m.commands, n.responses = m.responses,
             n.msgID = m.msgID, n.uri = m.uri, n.disconnect = m.disconnect, n.pending_write = m.pending_write
      PROVE  Retains(m, n)
  BY <1>1, SameLists DEF ClientOK
<1>2. Retains(m, m) /\ Retains(m, [m EXCEPT !.shouldBeConnected = x])
      /\ Retains(m, [m EXCEPT !.retrying = x]) /\ Retains(m, [m EXCEPT !.peer = x])
  BY <1>1 DEF ClientOK
<1>3. Retains(m, [m EXCEPT !.state = x]) /\ Retains(m, [m EXCEPT !.in = x])
      /\ Retains(m, [m EXCEPT !.out = x]) /\ Retains(m, [m EXCEPT !.cut = x])
  BY <1>1 DEF ClientOK
<1>4. Retains(m, [m EXCEPT !.outbound = x])
  BY <1>1 DEF ClientOK
<1> QED
  BY <1>2, <1>3, <1>4

\* MQTTAsync_send and subscribe up to addCommand.
LEMMA CallBeginsStep ==
  ASSUME CallsInv, CallBegins
  PROVE  CallsInv'
<1>1. PICK k \in Kinds : /\ calling' = Command(k, Len(admitted) + 1, IF k = "pub0" THEN 0 ELSE NextId(am))
                         /\ am' = IF k = "pub0" THEN am ELSE [am EXCEPT !.msgID = NextId(am)]
  BY DEF CallBegins
<1>2. UNCHANGED <<hand, recv, admitted, told>> /\ Len(admitted) < MaxCalls
  BY DEF CallBegins, AppAlone
<1>3. NextId(am) \in Nat /\ ClientOK(am)
  BY NextIdType DEF CallsInv
<1>4. Retains(am, am')
  <2>1. DOMAIN am' = DOMAIN am /\ am'.commands = am.commands /\ am'.responses = am.responses
        /\ am'.msgID \in Nat /\ am'.uri = am.uri /\ am'.disconnect = am.disconnect /\ am'.pending_write = am.pending_write
    BY <1>1, <1>3 DEF ClientOK
  <2> QED
    BY <1>3, <2>1, SameLists DEF ClientOK
<1>5. SameHand
  BY <1>2 DEF SameHand, InHand
<1>6. ClientOK(am)' /\ ToldInv' /\ OnePlace' /\ KindsInv' /\ PendingInv'
  BY <1>2, <1>4, <1>5, KeptStep
<1>7. HandInv' /\ RecvInv'
  BY <1>2 DEF CallsInv, HandInv, RecvInv
<1>8. CallingInv'
  <2>1. Len(admitted) \in Nat /\ Len(admitted) + 1 \in Numbers /\ k \in {"pub0", "pub1", "sub"}
    BY <1>2, AsyncAssumption DEF CallsInv, CallingInv, Numbers
  <2>2. calling' \in Calls /\ calling'.n = Len(admitted) + 1
    BY <1>1, <1>3, <2>1 DEF Calls, Command
  <2> QED
    BY <1>2, <2>2 DEF CallsInv, CallingInv
<1> QED
  BY <1>6, <1>7, <1>8 DEF CallsInv

\* ... and addCommand: the call has its first place.
LEMMA CallAddsStep ==
  ASSUME CallsInv, CallAdds
  PROVE  CallsInv'
<1> DEFINE fresh == calling.id \notin InFlight(am)
<1>0. PICK reused \in BOOLEAN :
        /\ admitted' = Append(admitted, [kind |-> calling.kind, fresh |-> fresh, reused |-> reused])
        /\ am' = addCommand(IF reused THEN [am EXCEPT !.pending_write = calling.n] ELSE am, calling)
  BY DEF CallAdds, Dangling
<1> DEFINE new == [kind |-> calling.kind, fresh |-> fresh, reused |-> reused]
           base == IF reused THEN [am EXCEPT !.pending_write = calling.n] ELSE am
<1>1. /\ calling \in Calls /\ calling' = NoCommand /\ am' = addCommand(base, calling)
      /\ admitted' = Append(admitted, new)
      /\ UNCHANGED <<hand, recv, told>> /\ calling.n = Len(admitted) + 1 /\ Len(admitted) < MaxCalls
  BY <1>0 DEF CallAdds, AppAlone, CallsInv, CallingInv
<1>2. calling \in Commands /\ IsCall(calling) /\ calling.n \in Numbers
  BY <1>1 DEF Calls, Commands, IsCall
<1>3. am' = [base EXCEPT !.commands = Append(@, calling)]
  BY <1>1 DEF addCommand, Calls
<1>4. ClientOK(am) /\ am.commands \in Seq(Commands)
  BY DEF CallsInv, ClientOK
<1>5. /\ am'.commands = Append(am.commands, calling) /\ am'.responses = am.responses
      /\ DOMAIN am' = DOMAIN am /\ am'.msgID = am.msgID /\ am'.uri = am.uri /\ am'.disconnect = am.disconnect
      /\ am'.pending_write = IF reused THEN calling.n ELSE am.pending_write
  BY <1>3, <1>4 DEF ClientOK
<1> HIDE DEF base
<1>6. ClientOK(am')
  <2>1. Append(am.commands, calling) \in Seq(Commands)
    BY <1>2, <1>4
  <2> QED
    BY <1>4, <1>5, <2>1 DEF ClientOK
<1>7. /\ admitted' \in Seq(Admissions) /\ Len(admitted') = Len(admitted) + 1
      /\ Len(admitted) \in Nat /\ DOMAIN admitted = 1..Len(admitted) /\ DOMAIN admitted' = 1..(Len(admitted) + 1)
      /\ admitted'[Len(admitted) + 1] = new /\ \A k \in 1..Len(admitted) : admitted'[k] = admitted[k]
  <2>1. admitted \in Seq(Admissions)
    BY DEF CallsInv, CallingInv
  <2>2. new \in Admissions
    BY <1>1 DEF Admissions, Calls
  <2> HIDE DEF new
  <2> QED
    BY <1>1, <2>1, <2>2
<1>8. ASSUME NEW k \in Numbers
      PROVE  LET count == Len(told[k]) + Listed(am', k) + InHand(k)
             IN IF k <= Len(admitted')
                THEN count = 1 \/ (count = 0 /\ admitted'[k].kind = "sub" /\ admitted'[k].reused)
                ELSE count = 0
  <2> DEFINE a == Holding(am.commands, k)
             b == Holding(am.responses, k)
             x == IF k = Len(admitted) + 1 THEN 1 ELSE 0
             t == Len(told[k])
             h == InHand(k)
             n == Len(admitted)
  <2>1. Holding(am'.commands, k) = a + x
    BY <1>1, <1>2, <1>4, <1>5, HoldingAppend
  <2>2. a \in Nat /\ b \in Nat /\ h \in Nat
    BY <1>4, ListedType DEF InHand
  <2>3. t \in Nat /\ k \in Int /\ n \in Nat /\ x \in Nat
    <3>1. told[k] \in Seq(Outcomes)
      BY DEF CallsInv, ToldInv
    <3> QED
      BY <1>7, <3>1 DEF Numbers
  <2>4. LET count == t + (a + b) + h
        IN IF k <= n THEN count = 1 \/ (count = 0 /\ Forgettable(k)) ELSE count = 0
    BY DEF CallsInv, OnePlace, Counted, Listed
  <2>5. Listed(am', k) = (a + x) + b
    BY <2>1, <1>5 DEF Listed
  <2>6. x = IF k = n + 1 THEN 1 ELSE 0
    OBVIOUS
  <2> HIDE DEF a, b, x, t, h, n
  <2>7. LET count == t + ((a + x) + b) + h
        IN IF k <= n + 1 THEN count = 1 \/ (k <= n /\ count = 0 /\ Forgettable(k)) ELSE count = 0
    BY <2>2, <2>3, <2>4, <2>6
  <2>8. k <= n => admitted'[k] = admitted[k]
    BY <1>7, <2>3 DEF n, Numbers
  <2> QED
    BY <1>7, <2>5, <2>7, <2>8 DEF t, h, n, Forgettable
<1>9. OnePlace'
  <2>1. \A k \in Numbers : InHand(k)' = InHand(k)
    BY <1>1 DEF InHand
  <2> QED
    BY <1>1, <1>8, <2>1 DEF OnePlace, Counted, Forgettable, Listed
<1>10. HandInv' /\ RecvInv' /\ ToldInv'
  BY <1>1 DEF CallsInv, HandInv, RecvInv, ToldInv
<1>11. CallingInv'
  <2>1. MaxCalls \in Nat
    BY AsyncAssumption
  <2>2. Len(admitted') <= MaxCalls
    BY <1>1, <1>7, <2>1
  <2> QED
    BY <1>1, <1>7, <2>2 DEF CallingInv
<1>12. KindsInv'
  <2>1. CallsOf(am') \subseteq CallsOf(am) \cup {calling}
    <3>1. ToSet(am'.commands) = ToSet(am.commands) \cup {calling}
      BY <1>4, <1>5, SetAppend
    <3> QED
      BY <1>5, <3>1 DEF CallsOf, CallSet
  <2>2. \A c : WasAdmitted(c) => c.n \in DOMAIN admitted' /\ admitted'[c.n].kind = c.kind
    BY <1>7 DEF WasAdmitted
  <2>3. calling.n \in DOMAIN admitted' /\ admitted'[calling.n].kind = calling.kind
    BY <1>1, <1>7
  <2>4. \A c \in CallsOf(am') \cup HeldSet(hand'.cmd) : c.n \in DOMAIN admitted' /\ admitted'[c.n].kind = c.kind
    BY <1>1, <2>1, <2>2, <2>3 DEF CallsInv, KindsInv
  <2> QED
    BY <2>4 DEF KindsInv, WasAdmitted, CallsOf, CallSet, HeldSet, ToSet
<1>13. PendingInv'
  <2>1. CASE reused
    BY <1>1, <1>5, <1>7, <2>1 DEF PendingInv, Forgettable
  <2>2. CASE ~reused
    BY <1>5, <1>7, <2>2 DEF CallsInv, PendingInv, Forgettable
  <2> QED
    BY <2>1, <2>2
<1> QED
  BY <1>6, <1>9, <1>10, <1>11, <1>12, <1>13 DEF CallsInv, ClientOK

\* MQTTAsync_connect, disconnect and reconnect.
LEMMA TurnStep ==
  ASSUME CallsInv, Turn
  PROVE  CallsInv'
<1>1. UNCHANGED <<hand, recv, calling, admitted, told>>
  BY DEF Turn, AppAlone
<1>2. ClientOK(am)
  BY DEF CallsInv
<1>3. Retains(am, am')
  <2> DEFINE on == [am EXCEPT !.shouldBeConnected = TRUE]
             off == [am EXCEPT !.shouldBeConnected = FALSE]
  <2>1. Retains(am, on) /\ Retains(am, off) /\ Retains(am, [am EXCEPT !.retrying = TRUE])
    BY <1>2, OtherField
  <2>2. \/ am' = addCommand(on, ConnectTo(0)) \/ am' = off
        \/ \E kind \in {"close", "drain"} : am' = addCommand(off, Disconnect(kind))
        \/ am' = [am EXCEPT !.retrying = TRUE]
    BY DEF Turn
  <2> HIDE DEF on, off
  <2>3. ClientOK(on) /\ ClientOK(off)
    BY <2>1 DEF Retains
  <2>4. Retains(on, addCommand(on, ConnectTo(0)))
    BY <2>3, ControlAdded, ControlCommands
  <2>5. \A kind \in {"close", "drain"} : Retains(off, addCommand(off, Disconnect(kind)))
    BY <2>3, ControlAdded, ControlCommands
  <2>6. CASE am' = addCommand(on, ConnectTo(0))
    BY <2>1, <2>4, <2>6, RetainsTwice
  <2>7. CASE \E kind \in {"close", "drain"} : am' = addCommand(off, Disconnect(kind))
    BY <2>1, <2>5, <2>7, RetainsTwice
  <2> QED
    BY <2>1, <2>2, <2>6, <2>7
<1>4. SameHand
  BY <1>1 DEF SameHand, InHand
<1>5. ClientOK(am)' /\ ToldInv' /\ OnePlace' /\ KindsInv' /\ PendingInv'
  BY <1>1, <1>3, <1>4, KeptStep
<1> QED
  BY <1>1, <1>5 DEF CallsInv, HandInv, RecvInv, CallingInv
-------------------------------------------------------------------------------
\* The send thread's steps.

\* What the send thread's steps leave alone.
LEMMA SendKeeps ==
  ASSUME CallsInv, SendAlone
  PROVE  RecvInv' /\ CallingInv' /\ UNCHANGED admitted
BY DEF CallsInv, SendAlone, RecvInv, CallingInv

\* An empty hand.
LEMMA HandEmpty ==
  ASSUME Done
  PROVE  HandInv' /\ HeldSet(hand'.cmd) = {} /\ \A k : InHand(k)' = 0
<1>1. hand' = [cmd |-> NoCommand, at |-> "none"]
  BY DEF Done
<1>2. ~IsCall(NoCommand) /\ NoCommand \notin Commands
  BY ControlCommands
<1>3. HeldSet(hand'.cmd) = {}
  BY <1>1, <1>2 DEF HeldSet
<1> QED
  BY <1>1, <1>2, <1>3 DEF HandInv, InHand

\* What the hand holds: nothing, or one call.
LEMMA HandCounts ==
  ASSUME HandInv
  PROVE  /\ hand.at \in {"none", "wait"} => \A k : InHand(k) = 0
         /\ ~IsCall(hand.cmd) => \A k : InHand(k) = 0
         /\ IsCall(hand.cmd) => /\ hand.cmd \in Calls /\ hand.cmd.n \in Numbers
                                 /\ \A k : InHand(k) = IF k = hand.cmd.n THEN 1 ELSE 0
<1>1. ~IsCall(NoCommand)
  BY ControlCommands
<1>2. IsCall(hand.cmd) => hand.cmd \in Calls
  BY <1>1 DEF HandInv, Commands, IsCall
<1> QED
  BY <1>1, <1>2 DEF HandInv, InHand, Calls

\* processCommand takes the first command: its place is now the hand.
LEMMA TakeStep ==
  ASSUME CallsInv, Take
  PROVE  CallsInv'
<1>1. /\ hand.at = "none" /\ am.commands # <<>> /\ hand' = [cmd |-> am.commands[1], at |-> "taken"]
      /\ am' = [am EXCEPT !.commands = Tail(@)] /\ UNCHANGED told /\ SendAlone
  BY DEF Take
<1>2. ClientOK(am) /\ am.commands \in Seq(Commands) /\ HandInv
  BY DEF CallsInv, ClientOK
<1>3. /\ am'.commands = Tail(am.commands) /\ am'.responses = am.responses
      /\ DOMAIN am' = DOMAIN am /\ am'.msgID = am.msgID /\ am'.uri = am.uri /\ am'.disconnect = am.disconnect /\ am'.pending_write = am.pending_write
  BY <1>1, <1>2 DEF ClientOK
<1>4. Tail(am.commands) \in Seq(Commands) /\ am.commands[1] \in Commands
  BY <1>1, <1>2
<1>5. ClientOK(am')
  BY <1>2, <1>3, <1>4 DEF ClientOK
<1>6. HandInv'
  BY <1>1, <1>4, ControlCommands DEF HandInv
<1>7. ASSUME NEW k \in Numbers
      PROVE  Listed(am', k) + InHand(k)' = Listed(am, k) + InHand(k)
  <2> DEFINE a == Holding(am.commands, k)
             d == Holding(Tail(am.commands), k)
             b == Holding(am.responses, k)
             x == IF IsCall(am.commands[1]) /\ am.commands[1].n = k THEN 1 ELSE 0
  <2>1. a = d + x
    BY <1>1, <1>2, HoldingTail
  <2>2. a \in Nat /\ b \in Nat /\ d \in Nat /\ x \in Nat
    BY <1>2, <1>3, <1>5, ListedType
  <2>3. InHand(k) = 0 /\ InHand(k)' = x
    BY <1>1, <1>2, HandCounts DEF InHand
  <2>4. Listed(am, k) = a + b /\ Listed(am', k) = d + b
    BY <1>3 DEF Listed
  <2> HIDE DEF a, b, d, x
  <2>5. (d + b) + x = (a + b) + 0
    BY <2>1, <2>2
  <2> QED
    BY <2>3, <2>4, <2>5
<1>8. RecvInv' /\ CallingInv' /\ UNCHANGED admitted
  BY <1>1, SendKeeps
<1>9. ClientOK(am)' /\ ToldInv' /\ OnePlace'
  BY <1>1, <1>5, <1>7, <1>8, MovedStep
<1>10. KindsInv' /\ PendingInv'
  <2>1. ToSet(am.commands) = {am.commands[1]} \cup ToSet(Tail(am.commands))
    BY <1>1, <1>2, SetTail
  <2>2. CallsOf(am') \cup HeldSet(hand'.cmd) \subseteq CallsOf(am) \cup HeldSet(hand.cmd)
    BY <1>1, <1>3, <2>1 DEF CallsOf, CallSet, HeldSet
  <2> QED
    BY <1>3, <1>8, <2>2, KindsStep
<1> QED
  BY <1>6, <1>8, <1>9, <1>10 DEF CallsInv

\* A connect: whatever comes of it, no call is touched.
LEMMA DoConnectStep ==
  ASSUME CallsInv, DoConnect
  PROVE  CallsInv'
<1> DEFINE c == hand.cmd
           m == [am EXCEPT !.uri = c.n]
<1>1. hand.at = "taken" /\ c.kind = "connect" /\ Done /\ UNCHANGED told /\ SendAlone
  BY DEF DoConnect
<1>2. ClientOK(am) /\ HandInv /\ c \in Commands /\ c.n \in Nat
  BY <1>1 DEF CallsInv, HandInv, Commands, Calls, NoCommand, Command
<1>3. DOMAIN m = DOMAIN am /\ m.commands = am.commands /\ m.responses = am.responses
      /\ m.msgID = am.msgID /\ m.uri = c.n /\ m.disconnect = am.disconnect /\ m.pending_write = am.pending_write
  BY <1>2 DEF ClientOK
<1>4. \/ am' = m \/ am' = [m EXCEPT !.peer = "syn", !.state = "TCP_IN_PROGRESS"]
      \/ am' = SendConnect([m EXCEPT !.peer = "open"]) \/ am' = ConnectFailed(am, c)
  BY DEF DoConnect
<1> HIDE DEF m
<1>5. Retains(am, m) /\ ClientOK(m)
  BY <1>2, <1>3, SameLists DEF ClientOK, Retains
<1>6. Retains(am, am')
  <2> DEFINE syn == [m EXCEPT !.peer = "syn", !.state = "TCP_IN_PROGRESS"]
             open == [m EXCEPT !.peer = "open"]
  <2>1. Retains(m, syn)
    <3>1. DOMAIN syn = DOMAIN m /\ syn.commands = m.commands /\ syn.responses = m.responses
          /\ syn.msgID = m.msgID /\ syn.uri = m.uri /\ syn.disconnect = m.disconnect /\ syn.pending_write = m.pending_write
      BY <1>5 DEF ClientOK
    <3> QED
      BY <1>5, <3>1, SameLists DEF ClientOK
  <2>2. Retains(m, open) /\ ClientOK(open)
    <3>1. Retains(m, open)
      BY <1>5, OtherField
    <3> QED
      BY <3>1 DEF Retains
  <2>3. Retains(open, SendConnect(open))
    BY <2>2, SendConnectFacts
  <2>4. Retains(am, ConnectFailed(am, c))
    BY <1>2, ConnectFailedFacts
  <2> HIDE DEF syn, open
  <2>5. Retains(am, syn) /\ Retains(am, SendConnect(open))
    BY <1>5, <2>1, <2>2, <2>3, RetainsTwice
  <2> QED
    BY <1>4, <1>5, <2>4, <2>5 DEF syn, open
<1>7. ~IsCall(c)
  BY <1>1 DEF IsCall
<1>8. HandInv' /\ SameHand
  BY <1>1, <1>2, <1>7, HandEmpty, HandCounts DEF SameHand
<1>9. RecvInv' /\ CallingInv' /\ UNCHANGED admitted
  BY <1>1, SendKeeps
<1>10. ClientOK(am)' /\ ToldInv' /\ OnePlace' /\ KindsInv' /\ PendingInv'
  BY <1>1, <1>6, <1>8, <1>9, KeptStep
<1> QED
  BY <1>8, <1>9, <1>10 DEF CallsInv

\* A disconnect: nothing yet, or the calls that are cleaned away are told.
LEMMA DoDisconnectStep ==
  ASSUME CallsInv, DoDisconnect
  PROVE  CallsInv'
<1> DEFINE c == hand.cmd
           m == IF am.state # "NOT_IN_PROGRESS" THEN [am EXCEPT !.state = "DISCONNECTING"] ELSE am
           d == checkDisconnect(m, c)
           n == [d EXCEPT !.disconnect = c]
<1>1. hand.at = "taken" /\ IsDisconnect(c) /\ Done /\ SendAlone
  BY DEF DoDisconnect
<1>2. ClientOK(am) /\ HandInv /\ c \in Commands /\ ~IsCall(c)
  BY <1>1 DEF CallsInv, HandInv, Commands, Calls, NoCommand, Command, IsDisconnect, IsCall
<1>3. HandInv' /\ SameHand
  BY <1>1, <1>2, HandEmpty, HandCounts DEF SameHand
<1>4. RecvInv' /\ CallingInv' /\ UNCHANGED admitted
  BY <1>1, SendKeeps
<1>5. /\ Retains(am, m) /\ ClientOK(m) /\ m.commands = am.commands /\ m.responses = am.responses
  <2>1. Retains(am, [am EXCEPT !.state = "DISCONNECTING"]) /\ Retains(am, am)
    BY <1>2, OtherField
  <2>2. m.commands = am.commands /\ m.responses = am.responses
    BY <1>2 DEF ClientOK
  <2>3. Retains(am, m)
    BY <2>1
  <2> QED
    BY <2>2, <2>3 DEF Retains
<1>6. ASSUME NEW p, ClientOK(p)
      PROVE  Retains(p, [p EXCEPT !.disconnect = c])
  <2> DEFINE q == [p EXCEPT !.disconnect = c]
  <2>1. DOMAIN q = DOMAIN p /\ q.commands = p.commands /\ q.responses = p.responses
        /\ q.msgID = p.msgID /\ q.uri = p.uri /\ q.disconnect = c /\ q.pending_write = p.pending_write
    BY <1>6 DEF ClientOK
  <2> HIDE DEF q
  <2>2. Retains(p, q)
    BY <1>2, <1>6, <2>1, SameLists DEF ClientOK
  <2> QED
    BY <2>2 DEF q
<1>7. \/ am' = [am EXCEPT !.disconnect = c] /\ UNCHANGED told
      \/ am' = n /\ told' = Tell(Dropped(m, n), "failure")
      \/ am' = [m EXCEPT !.disconnect = c] /\ UNCHANGED told
  BY DEF DoDisconnect
<1> HIDE DEF m
<1>8. CASE am' = n /\ told' = Tell(Dropped(m, n), "failure")
  <2>1. Shrinks(m, d) /\ ClientOK(d)
    BY <1>5, CheckDisconnect
  <2> HIDE DEF d
  <2>2. Retains(d, n)
    BY <1>6, <2>1
  <2> HIDE DEF n
  <2>3. Shrinks(am, n)
    BY <1>5, <2>1, <2>2, RetainsShrinks, ShrinksTwice
  <2>4. Dropped(m, n) = Dropped(am, n)
    BY <1>5 DEF Dropped
  <2>5. Shrinks(am, am') /\ told' = Tell(Dropped(am, am'), "failure")
    BY <1>8, <2>3, <2>4
  <2>6. ClientOK(am)' /\ ToldInv' /\ OnePlace' /\ KindsInv' /\ PendingInv'
    BY <2>5, <1>3, <1>4, DroppedStep
  <2> QED
    BY <1>3, <1>4, <2>6 DEF CallsInv
<1>9. CASE /\ am' = [am EXCEPT !.disconnect = c] \/ am' = [m EXCEPT !.disconnect = c]
           /\ UNCHANGED told
  <2>1. Retains(am, am')
    <3>1. CASE am' = [am EXCEPT !.disconnect = c]
      BY <3>1, <1>2, <1>6
    <3>2. CASE am' = [m EXCEPT !.disconnect = c]
      BY <3>2, <1>5, <1>6, RetainsTwice
    <3> QED
      BY <1>9, <3>1, <3>2
  <2>2. ClientOK(am)' /\ ToldInv' /\ OnePlace' /\ KindsInv' /\ PendingInv'
    BY <1>9, <2>1, <1>3, <1>4, KeptStep
  <2> QED
    BY <1>3, <1>4, <2>2 DEF CallsInv
<1> QED
  BY <1>7, <1>8, <1>9

\* A call that is written and waits for its answer has its place among the
\* responses.
LEMMA WaitingFacts ==
  ASSUME NEW m, ClientOK(m), NEW c \in Calls
  PROVE  LET n == [m EXCEPT !.responses = Append(@, c)]
         IN ClientOK(n) /\ CallsOf(n) = CallsOf(m) \cup {c} /\ n.pending_write = m.pending_write
            /\ \A k \in Numbers : Listed(n, k) = Listed(m, k) + IF k = c.n THEN 1 ELSE 0
<1> DEFINE n == [m EXCEPT !.responses = Append(@, c)]
<1>1. /\ n.responses = Append(m.responses, c) /\ n.commands = m.commands
      /\ DOMAIN n = DOMAIN m /\ n.msgID = m.msgID /\ n.uri = m.uri /\ n.disconnect = m.disconnect /\ n.pending_write = m.pending_write
  BY DEF ClientOK
<1> HIDE DEF n
<1>2. ClientOK(n)
  <2>1. Append(m.responses, c) \in Seq(Calls)
    BY DEF ClientOK
  <2> QED
    BY <1>1, <2>1 DEF ClientOK
<1>3. ASSUME NEW k \in Numbers
      PROVE  Listed(n, k) = Listed(m, k) + IF k = c.n THEN 1 ELSE 0
  <2> DEFINE a == Holding(m.commands, k)
             b == Holding(m.responses, k)
             d == Holding(n.responses, k)
             x == IF k = c.n THEN 1 ELSE 0
  <2>1. m.responses \in Seq(Commands) /\ c \in Commands /\ IsCall(c)
    BY ListedType DEF Commands, Calls, IsCall
  <2>2. d = b + x
    BY <1>1, <2>1, HoldingAppend
  <2>3. a \in Nat /\ b \in Nat /\ x \in Nat
    BY ListedType
  <2>4. Listed(n, k) = a + d /\ Listed(m, k) = a + b
    BY <1>1 DEF Listed
  <2> HIDE DEF a, b, d, x
  <2>5. a + d = (a + b) + x
    BY <2>2, <2>3
  <2> QED
    BY <2>4, <2>5 DEF x
<1>4. CallsOf(n) = CallsOf(m) \cup {c}
  <2>1. ToSet(n.responses) = ToSet(m.responses) \cup {c}
    BY <1>1, SetAppend DEF ClientOK
  <2> QED
    BY <1>1, <2>1 DEF CallsOf
<1> QED
  BY <1>1, <1>2, <1>3, <1>4 DEF n

\* A publish or subscribe: it is told at once, or goes from the hand to the
\* responses, or stays in the hand until it is registered.
LEMMA DoCallStep ==
  ASSUME CallsInv, DoCall
  PROVE  CallsInv'
<1> DEFINE c == hand.cmd
           m == Keeps(am, c)
           waiting == [m EXCEPT !.responses = Append(@, c)]
<1>1. hand.at = "taken" /\ IsCall(c) /\ SendAlone
  BY DEF DoCall
<1>2. ClientOK(am) /\ HandInv
  BY DEF CallsInv
<1>3. c \in Calls /\ c.n \in Numbers /\ \A k : InHand(k) = IF k = c.n THEN 1 ELSE 0
  BY <1>1, <1>2, HandCounts
<1>4. RecvInv' /\ CallingInv' /\ UNCHANGED admitted
  BY <1>1, SendKeeps
<1>5. Retains(am, m)
  BY <1>2, OtherField DEF Keeps
<1>6. ClientOK(m) /\ \A k \in Numbers : Listed(m, k) = Listed(am, k)
  BY <1>5 DEF Retains
<1>7. \/ am' = Writes(m, <<c>>) /\ told' = Tell({c.n}, "ok") /\ Done
      \/ am' = Writes(waiting, <<c>>) /\ Done /\ UNCHANGED told
      \/ c.kind = "pub0" /\ am' = [m EXCEPT !.cut = c] /\ hand' = [hand EXCEPT !.at = "cut"] /\ UNCHANGED told
      \/ am' = [waiting EXCEPT !.cut = c] /\ Done /\ UNCHANGED told
      \/ /\ \/ am' = disconnect_internal(m)
            \/ c.kind = "pub0" /\ am' = disconnect_internal([m EXCEPT !.pending_write = c.n])
         /\ told' = Tell({c.n}, "failure") /\ Done
  BY DEF DoCall
<1> HIDE DEF m
<1>8. ClientOK(waiting) /\ CallsOf(waiting) = CallsOf(m) \cup {c} /\ waiting.pending_write = m.pending_write
      /\ \A k \in Numbers : Listed(waiting, k) = Listed(m, k) + IF k = c.n THEN 1 ELSE 0
  BY <1>3, <1>6, WaitingFacts
<1> HIDE DEF waiting
<1>9. ASSUME NEW outcome \in Outcomes, told' = Tell({c.n}, outcome), Done, ClientOK(am'),
             CallsOf(am') \subseteq CallsOf(am), \A k \in Numbers : Listed(am', k) = Listed(am, k),
             am'.pending_write = am.pending_write \/ (c.kind = "pub0" /\ am'.pending_write = c.n)
      PROVE  CallsInv'
  <2>1. ClientOK(am') /\ \A k \in Numbers : Listed(am', k) = Listed(am, k)
    BY <1>9
  <2>2. HandInv' /\ HeldSet(hand'.cmd) = {} /\ \A k : InHand(k)' = 0
    BY <1>9, HandEmpty
  <2>3. ASSUME NEW k \in Numbers
        PROVE  Listed(am', k) + InHand(k)' + (IF k = c.n THEN 1 ELSE 0) = Listed(am, k) + InHand(k)
    <3> DEFINE x == IF k = c.n THEN 1 ELSE 0
               l == Listed(am, k)
    <3>1. Listed(am', k) = l /\ InHand(k)' = 0 /\ InHand(k) = x /\ l \in Nat /\ x \in Nat
      BY <1>2, <1>3, <2>1, <2>2, ListedType
    <3> HIDE DEF x, l
    <3>2. l + 0 + x = l + x
      BY <3>1
    <3> QED
      BY <3>1, <3>2 DEF x, l
  <2>4. ClientOK(am)' /\ ToldInv' /\ OnePlace'
    BY <1>3, <1>4, <1>9, <2>1, <2>3, ToldStep
  <2>5. KindsInv' /\ PendingInv'
    BY <1>1, <1>4, <1>9, <2>2, KindsStep
  <2> QED
    BY <1>4, <2>2, <2>4, <2>5 DEF CallsInv
<1>10. ASSUME UNCHANGED told, Done, Retains(waiting, am')
       PROVE  CallsInv'
  <2>1. ClientOK(am') /\ \A k \in Numbers : Listed(am', k) = Listed(waiting, k)
    BY <1>10 DEF Retains
  <2>2. HandInv' /\ HeldSet(hand'.cmd) = {} /\ \A k : InHand(k)' = 0
    BY <1>10, HandEmpty
  <2>3. ASSUME NEW k \in Numbers
        PROVE  Listed(am', k) + InHand(k)' = Listed(am, k) + InHand(k)
    <3> DEFINE x == IF k = c.n THEN 1 ELSE 0
               l == Listed(am, k)
    <3>1. Listed(am', k) = l + x /\ InHand(k)' = 0 /\ InHand(k) = x /\ l \in Nat /\ x \in Nat
      BY <1>2, <1>3, <1>6, <1>8, <2>1, <2>2, ListedType
    <3> HIDE DEF x, l
    <3>2. (l + x) + 0 = l + x
      BY <3>1
    <3> QED
      BY <3>1, <3>2 DEF x, l
  <2>4. ClientOK(am)' /\ ToldInv' /\ OnePlace'
    BY <1>4, <1>10, <2>1, <2>3, MovedStep
  <2>5. KindsInv' /\ PendingInv'
    <3>1. CallsOf(am') \cup HeldSet(hand'.cmd) \subseteq CallsOf(am) \cup HeldSet(hand.cmd)
      BY <1>1, <1>5, <1>8, <1>10, <2>2 DEF Retains, HeldSet
    <3>2. am'.pending_write = am.pending_write
      BY <1>5, <1>8, <1>10 DEF Retains
    <3> QED
      BY <1>4, <3>1, <3>2, KindsStep
  <2> QED
    BY <1>4, <2>2, <2>4, <2>5 DEF CallsInv
<1>11. CASE c.kind = "pub0" /\ am' = [m EXCEPT !.cut = c] /\ hand' = [hand EXCEPT !.at = "cut"] /\ UNCHANGED told
  <2>1. hand'.cmd = hand.cmd /\ hand'.at = "cut" /\ DOMAIN hand' = DOMAIN hand
    BY <1>2, <1>11 DEF HandInv
  <2>2. HandInv' /\ SameHand
    <3>1. hand.cmd # NoCommand /\ hand.cmd.kind = "pub0"
      BY <1>1, <1>11, ControlCommands
    <3> QED
      BY <1>2, <2>1, <3>1 DEF HandInv, InHand, SameHand
  <2>3. Retains(m, am')
    BY <1>6, <1>11, OtherField
  <2>4. Retains(am, am')
    BY <1>5, <2>3, RetainsTwice
  <2>5. ClientOK(am)' /\ ToldInv' /\ OnePlace' /\ KindsInv' /\ PendingInv'
    BY <1>4, <1>11, <2>2, <2>4, KeptStep
  <2> QED
    BY <1>4, <2>2, <2>5 DEF CallsInv
<1>12. "ok" \in Outcomes /\ "failure" \in Outcomes
  BY DEF Outcomes
<1>13. Retains(m, Writes(m, <<c>>)) /\ Retains(waiting, Writes(waiting, <<c>>))
       /\ Retains(waiting, [waiting EXCEPT !.cut = c])
  BY <1>6, <1>8, WritesFacts, OtherField
<1>14. ASSUME am' = disconnect_internal([m EXCEPT !.pending_write = c.n])
       PROVE  /\ ClientOK(am') /\ CallsOf(am') \subseteq CallsOf(am) /\ am'.pending_write = c.n
              /\ \A k \in Numbers : Listed(am', k) = Listed(am, k)
  <2> DEFINE q == [m EXCEPT !.pending_write = c.n]
  <2>1. ClientOK(q) /\ q.commands = m.commands /\ q.responses = m.responses /\ q.pending_write = c.n
    BY <1>6 DEF ClientOK
  <2>2. am' = disconnect_internal(q)
    BY <1>14
  <2> HIDE DEF q
  <2>3. Retains(q, am')
    BY <2>1, <2>2, DisconnectInternal
  <2>4. CallsOf(q) = CallsOf(m) /\ \A k \in Numbers : Listed(q, k) = Listed(m, k)
    BY <2>1 DEF CallsOf, Listed
  <2> QED
    BY <1>5, <1>6, <2>1, <2>3, <2>4 DEF Retains
<1>20. ASSUME Retains(m, am')
       PROVE  /\ ClientOK(am') /\ CallsOf(am') \subseteq CallsOf(am) /\ am'.pending_write = am.pending_write
              /\ \A k \in Numbers : Listed(am', k) = Listed(am, k)
  <2>1. Retains(am, am')
    BY <1>5, <1>20, RetainsTwice
  <2> QED
    BY <2>1 DEF Retains
<1>15. CASE am' = Writes(m, <<c>>) /\ told' = Tell({c.n}, "ok") /\ Done
  BY <1>15, <1>9, <1>12, <1>13, <1>20
<1>16. CASE am' = Writes(waiting, <<c>>) /\ Done /\ UNCHANGED told
  BY <1>16, <1>10, <1>13
<1>17. CASE am' = [waiting EXCEPT !.cut = c] /\ Done /\ UNCHANGED told
  BY <1>17, <1>10, <1>13
<1>18. CASE am' = disconnect_internal(m) /\ told' = Tell({c.n}, "failure") /\ Done
  <2>1. Retains(m, am')
    BY <1>6, <1>18, DisconnectInternal
  <2> QED
    BY <1>18, <1>9, <1>12, <1>20, <2>1
<1>19. CASE /\ c.kind = "pub0" /\ am' = disconnect_internal([m EXCEPT !.pending_write = c.n])
            /\ told' = Tell({c.n}, "failure") /\ Done
  BY <1>19, <1>9, <1>12, <1>14
<1> QED
  BY <1>7, <1>11, <1>15, <1>16, <1>17, <1>18, <1>19

\* A QoS 0 write that was cut is registered as a response.
LEMMA DoRegisterStep ==
  ASSUME CallsInv, DoRegister
  PROVE  CallsInv'
<1> DEFINE c == hand.cmd
           m == [am EXCEPT !.pending_write = c.n]
           waiting == [m EXCEPT !.responses = Append(@, c)]
<1>1. /\ hand.at = "cut" /\ Done /\ UNCHANGED told /\ SendAlone
      /\ am' = [am EXCEPT !.pending_write = hand.cmd.n, !.responses = Append(@, hand.cmd)]
  BY DEF DoRegister
<1>2. ClientOK(am) /\ HandInv
  BY DEF CallsInv
<1>3. c \in Calls /\ c.n \in Numbers /\ \A k : InHand(k) = IF k = c.n THEN 1 ELSE 0
  <2>1. IsCall(c)
    BY <1>1, <1>2 DEF HandInv, IsCall
  <2> QED
    BY <1>2, <2>1, HandCounts
<1>4. RecvInv' /\ CallingInv' /\ UNCHANGED admitted
  BY <1>1, SendKeeps
<1>5. am' = waiting
  BY <1>1, <1>2 DEF ClientOK
<1>6. ClientOK(m) /\ m.commands = am.commands /\ m.responses = am.responses /\ m.pending_write = c.n
  BY <1>2 DEF ClientOK
<1> HIDE DEF m
<1>7. ClientOK(m) /\ CallsOf(m) = CallsOf(am) /\ \A k \in Numbers : Listed(m, k) = Listed(am, k)
  BY <1>6 DEF CallsOf, Listed
<1>8. ClientOK(waiting) /\ CallsOf(waiting) = CallsOf(m) \cup {c} /\ waiting.pending_write = m.pending_write
      /\ \A k \in Numbers : Listed(waiting, k) = Listed(m, k) + IF k = c.n THEN 1 ELSE 0
  BY <1>3, <1>7, WaitingFacts
<1> HIDE DEF waiting
<1>9. HandInv' /\ HeldSet(hand'.cmd) = {} /\ \A k : InHand(k)' = 0
  BY <1>1, HandEmpty
<1>10. ASSUME NEW k \in Numbers
       PROVE  Listed(am', k) + InHand(k)' = Listed(am, k) + InHand(k)
  <2> DEFINE x == IF k = c.n THEN 1 ELSE 0
             l == Listed(am, k)
  <2>1. Listed(am', k) = l + x /\ InHand(k)' = 0 /\ InHand(k) = x /\ l \in Nat /\ x \in Nat
    BY <1>2, <1>3, <1>5, <1>7, <1>8, <1>9, ListedType
  <2> HIDE DEF x, l
  <2>2. (l + x) + 0 = l + x
    BY <2>1
  <2> QED
    BY <2>1, <2>2 DEF x, l
<1>11. ClientOK(am')
  BY <1>5, <1>8
<1>12. ClientOK(am)' /\ ToldInv' /\ OnePlace'
  BY <1>1, <1>4, <1>10, <1>11, MovedStep
<1>13. KindsInv' /\ PendingInv'
  <2>1. IsCall(c) /\ c.kind = "pub0" /\ am'.pending_write = c.n
    BY <1>1, <1>2, <1>5, <1>6, <1>8 DEF HandInv, IsCall
  <2>2. CallsOf(am') \cup HeldSet(hand'.cmd) \subseteq CallsOf(am) \cup HeldSet(hand.cmd)
    BY <1>5, <1>7, <1>8, <1>9, <2>1 DEF HeldSet
  <2> QED
    BY <1>4, <2>1, <2>2, KindsStep
<1> QED
  BY <1>4, <1>9, <1>12, <1>13 DEF CallsInv

\* The send thread waits.
LEMMA WaitStep ==
  ASSUME CallsInv, Wait
  PROVE  CallsInv'
<1>1. hand.at = "none" /\ hand' = [hand EXCEPT !.at = "wait"] /\ UNCHANGED <<am, told>> /\ SendAlone
  BY DEF Wait
<1>2. HandInv /\ ClientOK(am)
  BY DEF CallsInv
<1>3. hand'.cmd = hand.cmd /\ hand'.at = "wait" /\ DOMAIN hand' = DOMAIN hand
  BY <1>1, <1>2 DEF HandInv
<1>4. HandInv' /\ SameHand
  <2>1. hand.cmd = NoCommand /\ ~IsCall(NoCommand)
    BY <1>1, <1>2, ControlCommands DEF HandInv
  <2> QED
    BY <1>2, <1>3, <2>1 DEF HandInv, InHand, SameHand
<1>5. RecvInv' /\ CallingInv' /\ UNCHANGED admitted
  BY <1>1, SendKeeps
<1>6. Retains(am, am')
  BY <1>1, <1>2, OtherField
<1>7. ClientOK(am)' /\ ToldInv' /\ OnePlace' /\ KindsInv' /\ PendingInv'
  BY <1>1, <1>4, <1>5, <1>6, KeptStep
<1> QED
  BY <1>4, <1>5, <1>7 DEF CallsInv

\* MQTTAsync_checkTimeouts: the calls that are cleaned away are told.
LEMMA CheckTimeoutsStep ==
  ASSUME CallsInv, CheckTimeouts
  PROVE  CallsInv'
<1>1. hand.at = "wait" /\ Done /\ told' = Tell(Dropped(am, am'), "failure") /\ SendAlone
  BY DEF CheckTimeouts
<1>2. ClientOK(am) /\ HandInv
  BY DEF CallsInv
<1>3. PICK m : /\ m = am \/ m = checkDisconnect(am, am.disconnect)
               /\ am' = nextOrClose(m) \/ am' = m \/ am' = addCommand(m, ConnectTo(m.uri))
  BY DEF CheckTimeouts
<1>4. Shrinks(am, m) /\ ClientOK(m)
  <2>1. Shrinks(am, am)
    BY <1>2, OtherField, RetainsShrinks
  <2> QED
    BY <1>2, <1>3, <2>1, CheckDisconnect
<1>5. Shrinks(am, am')
  <2>1. Shrinks(m, nextOrClose(m))
    BY <1>4, NextOrClose
  <2>2. m.uri \in Nat
    BY <1>4 DEF ClientOK
  <2>3. Shrinks(m, addCommand(m, ConnectTo(m.uri)))
    BY <1>4, <2>2, ControlAdded, ControlCommands, RetainsShrinks
  <2> QED
    BY <1>3, <1>4, <2>1, <2>3, ShrinksTwice
<1>6. HandInv' /\ SameHand
  BY <1>1, <1>2, HandEmpty, HandCounts DEF SameHand
<1>7. RecvInv' /\ CallingInv' /\ UNCHANGED admitted
  BY <1>1, SendKeeps
<1>8. ClientOK(am)' /\ ToldInv' /\ OnePlace' /\ KindsInv' /\ PendingInv'
  BY <1>1, <1>5, <1>6, <1>7, DroppedStep
<1> QED
  BY <1>6, <1>7, <1>8 DEF CallsInv
-------------------------------------------------------------------------------
\* The receive thread's steps.

\* What the receive thread's steps leave alone.
LEMMA RecvKeeps ==
  ASSUME CallsInv, RecvAlone
  PROVE  /\ HandInv' /\ CallingInv' /\ UNCHANGED <<hand, admitted>>
         /\ SameHand
BY DEF CallsInv, RecvAlone, HandInv, CallingInv, InHand, SameHand

\* A ready socket.
LEMMA RecvSelectStep ==
  ASSUME CallsInv, RecvSelect
  PROVE  CallsInv'
<1>1. recv' = [recv EXCEPT !.pc = "cycle", !.sock = 1] /\ UNCHANGED <<am, told>> /\ RecvAlone
  BY DEF RecvSelect
<1>2. RecvInv'
  BY <1>1 DEF CallsInv, RecvInv
<1>3. Retains(am, am')
  BY <1>1, OtherField DEF CallsInv
<1>4. ClientOK(am)' /\ ToldInv' /\ OnePlace' /\ KindsInv' /\ PendingInv'
  BY <1>1, <1>3, RecvKeeps, KeptStep
<1> QED
  BY <1>1, <1>2, <1>4, RecvKeeps DEF CallsInv

\* A response is detached and nobody is told: that of a subscription at an address
\* that was used before, or none.
LEMMA ForgottenStep ==
  ASSUME CallsInv, NEW places \in SUBSET DOMAIN am.responses,
         \A i \in places : Forgettable(am.responses[i].n),
         DOMAIN am' = DOMAIN am, am'.commands = am.commands, am'.msgID = am.msgID,
         am'.uri = am.uri, am'.disconnect = am.disconnect, am'.pending_write \in {am.pending_write, 0},
         am'.responses = WithoutOne(am.responses, places), told' = told, hand' = hand, UNCHANGED admitted
  PROVE  ClientOK(am)' /\ ToldInv' /\ OnePlace' /\ KindsInv' /\ PendingInv'
<1>1. ClientOK(am) /\ am.responses \in Seq(Calls) /\ am.commands \in Seq(Commands)
  BY DEF CallsInv, ClientOK
<1>2. \A k \in Numbers : InHand(k)' = InHand(k) /\ InHand(k) \in Nat
  BY DEF InHand
<1>3. KindsInv' /\ PendingInv'
  <2>1. ToSet(am'.responses) \subseteq ToSet(am.responses)
    BY <1>1, WithoutSet
  <2>2. CallsOf(am') \cup HeldSet(hand'.cmd) \subseteq CallsOf(am) \cup HeldSet(hand.cmd)
    BY <2>1 DEF CallsOf
  <2> QED
    BY <2>2, KindsStep
<1>4. CASE places = {}
  <2>1. am'.responses = am.responses
    BY <1>4 DEF WithoutOne
  <2>2. ClientOK(am') /\ \A k \in Numbers : Listed(am', k) = Listed(am, k)
    BY <1>1, <2>1 DEF ClientOK, Listed
  <2> QED
    BY <1>2, <1>3, <2>2, MovedStep
<1>5. CASE places # {}
  <2> DEFINE list == am.responses
             short == WithoutOne(am.responses, places)
  <2>0. /\ am.responses \in Seq(Calls) /\ places \in SUBSET DOMAIN am.responses /\ places # {}
    BY <1>1, <1>5
  <2>1. PICK q \in places : /\ short \in Seq(Calls) /\ list[q] \in Calls
                            /\ \A k : Holding(list, k) = Holding(short, k) + IF list[q].n = k THEN 1 ELSE 0
    BY <2>0, ResponseRemoved, Zenon
  <2>2. Forgettable(list[q].n) /\ am'.responses = short
    OBVIOUS
  <2> HIDE DEF list, short
  <2> DEFINE k0 == list[q].n
  <2>3. am.responses = list
    BY DEF list
  <2>4. ClientOK(am')
    BY <1>1, <2>1, <2>2 DEF ClientOK
  <2>5. ASSUME NEW k \in Numbers
        PROVE  Counted(k, Len(told'[k]) + Listed(am', k) + InHand(k)')
    <3> DEFINE a == Holding(am.commands, k)
               b == Holding(list, k)
               c == Holding(short, k)
               x == IF k = k0 THEN 1 ELSE 0
               h == InHand(k)
               u == Len(told[k])
    <3>1. b = c + x
      BY <2>1
    <3>2. a \in Nat /\ b \in Nat /\ c \in Nat /\ h \in Nat /\ x \in Nat /\ u \in Nat
      <4>1. told[k] \in Seq(Outcomes)
        BY DEF CallsInv, ToldInv
      <4>2. a \in Nat /\ b \in Nat
        BY <1>1, <2>3, ListedType
      <4>3. c \in Nat
        BY <2>2, <2>4, ListedType
      <4> QED
        BY <1>2, <4>1, <4>2, <4>3
    <3>3. Listed(am, k) = a + b /\ Listed(am', k) = a + c /\ InHand(k)' = h /\ told'[k] = told[k]
      BY <1>2, <2>2, <2>3 DEF Listed
    <3>4. Counted(k, u + (a + b) + h)
      BY <3>3 DEF CallsInv, OnePlace
    <3> HIDE DEF a, b, c, h, u
    <3>5. CASE k # k0
      <4>1. u + (a + c) + h = u + (a + b) + h
        BY <3>1, <3>2, <3>5
      <4> QED
        BY <3>3, <3>4, <4>1 DEF u
    <3>6. CASE k = k0
      <4>1. b = c + 1
        BY <3>1, <3>6
      <4>2. u + (a + b) + h \in Nat /\ u + (a + b) + h # 0
        BY <3>2, <4>1
      <4>3. k <= Len(admitted) /\ u + (a + b) + h = 1
        BY <3>4, <4>2 DEF Counted
      <4>4. u + (a + c) + h = 0
        BY <3>2, <4>1, <4>3
      <4>5. Counted(k, u + (a + c) + h)
        BY <2>2, <3>6, <4>3, <4>4 DEF Counted
      <4> QED
        BY <3>3, <4>5 DEF u
    <3> QED
      BY <3>5, <3>6
  <2>6. OnePlace'
    BY <2>5 DEF OnePlace, Counted, Forgettable, Listed, Holding
  <2> QED
    BY <1>3, <2>4, <2>6 DEF CallsInv, ToldInv, ClientOK
<1> QED
  BY <1>4, <1>5

\* MQTTAsync_writeComplete: the response pending_write points to, if it is there.
LEMMA WriteCompletesStep ==
  ASSUME CallsInv, NEW ok \in BOOLEAN, WriteCompletes(ok)
  PROVE  CallsInv'
<1> DEFINE stays(c) == ok /\ c.kind = "pub1"
           places == {i \in Pending(am) : ~stays(am.responses[i])}
           heard == {j \in places : am.responses[j].kind # "sub"}
           list == WithoutOne(am.responses, places)
           m == [am EXCEPT !.cut = NoCommand, !.pending_write = 0, !.responses = WithoutOne(@, places)]
           outcome == IF ok THEN "ok" ELSE "failure"
<1>1. /\ am' = IF ok THEN Writes(m, <<am.cut>>) ELSE m
      /\ told' = Tell({am.responses[i].n : i \in heard}, outcome)
      /\ UNCHANGED recv /\ RecvAlone
  BY DEF WriteCompletes
<1>2. ClientOK(am) /\ am.responses \in Seq(Calls)
  BY DEF CallsInv, ClientOK
<1>5. /\ places \in SUBSET DOMAIN am.responses
      /\ \A i \in places : am.responses[i].n = am.pending_write /\ am.pending_write # 0
  BY DEF Pending
<1>6. outcome \in Outcomes
  BY DEF Outcomes
<1>7. hand' = hand /\ UNCHANGED admitted
  BY <1>1 DEF RecvAlone
<1> HIDE DEF places, outcome
<1>3. m.commands = am.commands /\ m.responses = list /\ DOMAIN m = DOMAIN am
      /\ m.msgID = am.msgID /\ m.uri = am.uri /\ m.disconnect = am.disconnect /\ m.pending_write = 0
  BY <1>2 DEF ClientOK
<1> HIDE DEF m, list
<1>4. am'.commands = am.commands /\ am'.responses = list /\ DOMAIN am' = DOMAIN am
      /\ am'.msgID = am.msgID /\ am'.uri = am.uri /\ am'.disconnect = am.disconnect /\ am'.pending_write = 0
  BY <1>1, <1>2, <1>3 DEF Writes, ClientOK
<1>10. ASSUME NEW i \in places
       PROVE  /\ am.pending_write \in DOMAIN admitted
              /\ admitted[am.pending_write].kind = am.responses[i].kind
              /\ am.responses[i].n = am.pending_write
  <2>1. am.responses[i] \in CallsOf(am)
    BY <1>5 DEF CallsOf, ToSet
  <2>2. WasAdmitted(am.responses[i])
    BY <2>1 DEF CallsInv, KindsInv
  <2> QED
    BY <1>5, <2>2 DEF WasAdmitted
<1>8. ClientOK(am)' /\ ToldInv' /\ OnePlace' /\ KindsInv' /\ PendingInv'
  <2>1. CASE admitted[am.pending_write].kind = "sub"
    <3>1. heard = {}
      BY <1>10, <2>1
    <3>2. told' = told
      <4>1. DOMAIN told = Numbers /\ told \in [Numbers -> Seq(Outcomes)]
        BY DEF CallsInv, ToldInv
      <4>2. {am.responses[i].n : i \in heard} = {}
        BY <3>1
      <4> QED
        BY <1>1, <4>1, <4>2 DEF Tell
    <3>3. \A i \in places : Forgettable(am.responses[i].n)
      BY <1>5, <2>1 DEF CallsInv, PendingInv
    <3> QED
      BY <1>4, <1>5, <1>7, <3>2, <3>3, ForgottenStep DEF list
  <2>2. CASE admitted[am.pending_write].kind # "sub"
    <3>1. heard = places
      BY <1>10, <2>2
    <3>2. told' = Tell({am.responses[i].n : i \in places}, outcome)
      BY <1>1, <3>1
    <3> QED
      BY <1>4, <1>5, <1>6, <1>7, <3>2, AnsweredStep DEF list
  <2> QED
    BY <2>1, <2>2
<1>9. RecvInv'
  BY <1>1 DEF CallsInv, RecvInv
<1> QED
  BY <1>1, <1>8, <1>9, RecvKeeps DEF CallsInv

\* The result of a cycle: a packet comes only with 0.
LEMMA ResultFacts ==
  ASSUME CallsInv, NEW pack, NEW rc, Result(pack, rc), rc = 0 \/ pack = NoAnswer
  PROVE  RecvInv'
BY DEF CallsInv, RecvInv, Result, NoAnswer

\* There is at most one first response with an id.
LEMMA FirstFacts ==
  ASSUME NEW list \in Seq(Calls), NEW id
  PROVE  /\ First(list, id) \in SUBSET DOMAIN list
         /\ \A i, j \in First(list, id) : list[i].n = list[j].n
<1>1. First(list, id) \in SUBSET DOMAIN list
  BY DEF First
<1>2. ASSUME NEW i \in First(list, id), NEW j \in First(list, id)
      PROVE  i = j
  <2>1. /\ i \in 1..Len(list) /\ list[i].id = id /\ \A k \in 1..(i - 1) : list[k].id # id
        /\ j \in 1..Len(list) /\ list[j].id = id /\ \A k \in 1..(j - 1) : list[k].id # id
    BY DEF First
  <2>2. ~(i < j) /\ ~(j < i)
    BY <2>1
  <2> QED
    BY <2>1, <2>2
<1> QED
  BY <1>1, <1>2

\* An acknowledgement: the first response with its id, if there is one.
LEMMA AnsweredBy ==
  ASSUME CallsInv, NEW id, RecvAlone,
         am'.commands = am.commands, am'.responses = WithoutFirst(am.responses, id),
         DOMAIN am' = DOMAIN am, am'.msgID = am.msgID, am'.uri = am.uri, am'.disconnect = am.disconnect, am'.pending_write = am.pending_write,
         told' = Tell(Answered(id), "ok")
  PROVE  ClientOK(am)' /\ ToldInv' /\ OnePlace' /\ KindsInv' /\ PendingInv'
<1> DEFINE places == First(am.responses, id)
<1>1. am.responses \in Seq(Calls)
  BY DEF CallsInv, ClientOK
<1>2. places \in SUBSET DOMAIN am.responses /\ \A i, j \in places : am.responses[i].n = am.responses[j].n
  BY <1>1, FirstFacts
<1>3. am'.responses = WithoutOne(am.responses, places) /\ told' = Tell({am.responses[i].n : i \in places}, "ok")
  BY DEF WithoutFirst, Answered
<1>4. hand' = hand /\ UNCHANGED admitted /\ "ok" \in Outcomes
  BY DEF RecvAlone, Outcomes
<1> HIDE DEF places
<1> QED
  BY <1>2, <1>3, <1>4, AnsweredStep

\* MQTTAsync_connecting drops calls only together with the session.
LEMMA ConnectingFacts ==
  ASSUME CallsInv, Connecting
  PROVE  Shrinks(am, am') /\ RecvInv'
<1>1. ClientOK(am)
  BY DEF CallsInv
<1> DEFINE open == [am EXCEPT !.peer = "open"]
<1>2. am' = nextOrClose(am) \/ am' = SendConnect(open) \/ am' = SendConnect(am)
  BY DEF Connecting
<1>3. Retains(am, open)
  BY <1>1, OtherField
<1> HIDE DEF open
<1>4. ClientOK(open)
  BY <1>3 DEF Retains
<1>5. Shrinks(am, SendConnect(open)) /\ Shrinks(am, SendConnect(am)) /\ Shrinks(am, nextOrClose(am))
  BY <1>1, <1>3, <1>4, SendConnectFacts, RetainsTwice, RetainsShrinks, NextOrClose
<1>6. Shrinks(am, am')
  BY <1>2, <1>5
<1>7. \E rc : Result(NoAnswer, rc)
  BY DEF Connecting
<1>8. RecvInv'
  BY <1>7, ResultFacts
<1> QED
  BY <1>6, <1>8

\* A packet, or an error, that MQTTAsync_cycle reads from the socket.
LEMMA ReadingFacts ==
  ASSUME CallsInv, Reading, RecvAlone
  PROVE  ClientOK(am)' /\ ToldInv' /\ OnePlace' /\ KindsInv' /\ PendingInv' /\ RecvInv'
<1>1. ClientOK(am) /\ UNCHANGED admitted /\ SameHand
  BY RecvKeeps DEF CallsInv
<1>2. CASE /\ am' = [Acked(am, am.in[1].id) EXCEPT !.in = Tail(@)]
           /\ told' = Tell(Answered(am.in[1].id), "ok") /\ Result(NoAnswer, 0)
  <2> DEFINE id == am.in[1].id
             a == Acked(am, id)
  <2>1. a.commands = am.commands /\ a.responses = WithoutFirst(am.responses, id) /\ DOMAIN a = DOMAIN am
        /\ a.msgID = am.msgID /\ a.uri = am.uri /\ a.disconnect = am.disconnect /\ a.pending_write = am.pending_write
    BY <1>1 DEF Acked, ClientOK
  <2> HIDE DEF id, a
  <2>2. am' = [a EXCEPT !.in = Tail(@)]
    BY <1>2 DEF id, a
  <2>3. am'.commands = am.commands /\ am'.responses = WithoutFirst(am.responses, id) /\ DOMAIN am' = DOMAIN am
        /\ am'.msgID = am.msgID /\ am'.uri = am.uri /\ am'.disconnect = am.disconnect /\ am'.pending_write = am.pending_write
    BY <1>1, <2>1, <2>2 DEF ClientOK
  <2>4. told' = Tell(Answered(id), "ok")
    BY <1>2 DEF id
  <2>5. ClientOK(am)' /\ ToldInv' /\ OnePlace' /\ KindsInv' /\ PendingInv'
    BY <2>3, <2>4, AnsweredBy
  <2> QED
    BY <1>2, <2>5, ResultFacts
<1>3. CASE am' = [am EXCEPT !.in = Tail(@)] /\ Result(am.in[1], 0) /\ UNCHANGED told
  <2>1. Retains(am, am')
    BY <1>1, <1>3, OtherField
  <2>2. ClientOK(am)' /\ ToldInv' /\ OnePlace' /\ KindsInv' /\ PendingInv'
    BY <1>1, <1>3, <2>1, KeptStep
  <2> QED
    BY <1>3, <2>2, ResultFacts
<1>4. CASE /\ am' = IF am.state = "WAIT_FOR_CONNACK" THEN nextOrClose(am) ELSE am
           /\ told' = Tell(Dropped(am, am'), "failure") /\ Result(NoAnswer, -1)
  <2>1. Shrinks(am, nextOrClose(am)) /\ Shrinks(am, am)
    BY <1>1, NextOrClose, OtherField, RetainsShrinks
  <2>2. Shrinks(am, am')
    BY <1>4, <2>1
  <2>3. ClientOK(am)' /\ ToldInv' /\ OnePlace' /\ KindsInv' /\ PendingInv'
    BY <1>1, <1>4, <2>2, DroppedStep
  <2> QED
    BY <1>4, <2>3, ResultFacts
<1>5. CASE UNCHANGED <<am, told>> /\ Result(NoAnswer, 0)
  <2>1. Retains(am, am')
    BY <1>1, <1>5, OtherField
  <2>2. ClientOK(am)' /\ ToldInv' /\ OnePlace' /\ KindsInv' /\ PendingInv'
    BY <1>1, <1>5, <2>1, KeptStep
  <2> QED
    BY <1>5, <2>2, ResultFacts
<1> QED
  BY <1>2, <1>3, <1>4, <1>5 DEF Reading

\* MQTTAsync_cycle.
LEMMA RecvCycleStep ==
  ASSUME CallsInv, RecvCycle
  PROVE  CallsInv'
<1>1. RecvAlone
  BY DEF RecvCycle
<1>2. HandInv' /\ CallingInv' /\ UNCHANGED admitted /\ SameHand
  BY <1>1, RecvKeeps
<1>3. CASE Result(NoAnswer, -1) /\ UNCHANGED <<am, told>>
  <2>1. Retains(am, am')
    BY <1>3, OtherField DEF CallsInv
  <2>2. ClientOK(am)' /\ ToldInv' /\ OnePlace' /\ KindsInv' /\ PendingInv'
    BY <1>2, <1>3, <2>1, KeptStep
  <2>3. RecvInv'
    BY <1>3, ResultFacts
  <2> QED
    BY <1>2, <2>2, <2>3 DEF CallsInv
<1>4. CASE Connecting /\ told' = Tell(Dropped(am, am'), "failure")
  <2>1. Shrinks(am, am') /\ RecvInv'
    BY <1>4, ConnectingFacts
  <2>2. ClientOK(am)' /\ ToldInv' /\ OnePlace' /\ KindsInv' /\ PendingInv'
    BY <1>2, <1>4, <2>1, DroppedStep
  <2> QED
    BY <1>2, <2>1, <2>2 DEF CallsInv
<1>5. CASE Reading
  <2>1. ClientOK(am)' /\ ToldInv' /\ OnePlace' /\ KindsInv' /\ PendingInv' /\ RecvInv'
    BY <1>1, <1>5, ReadingFacts
  <2> QED
    BY <1>2, <2>1 DEF CallsInv
<1> QED
  BY <1>3, <1>4, <1>5 DEF RecvCycle

\* The rest of the loop of MQTTAsync_receiveThread.
LEMMA RecvDispatchStep ==
  ASSUME CallsInv, RecvDispatch
  PROVE  CallsInv'
<1> DEFINE p == recv.pack
<1>1. RecvAlone /\ recv' = [pc |-> "select", sock |-> 0, pack |-> NoAnswer, rc |-> 0]
  BY DEF RecvDispatch
<1>2. HandInv' /\ CallingInv' /\ UNCHANGED admitted /\ SameHand
  BY <1>1, RecvKeeps
<1>3. RecvInv'
  BY <1>1 DEF RecvInv
<1>4. ClientOK(am)
  BY DEF CallsInv
<1>5. CASE am.peer # "none" /\ p.type = "SUBACK"
  <2>1. recv.rc # -1
    BY <1>5 DEF CallsInv, RecvInv
  <2>2. am' = [am EXCEPT !.responses = WithoutFirst(@, p.id)] /\ told' = Tell(Answered(p.id), "ok")
    BY <1>5, <2>1 DEF RecvDispatch
  <2>3. am'.commands = am.commands /\ am'.responses = WithoutFirst(am.responses, p.id) /\ DOMAIN am' = DOMAIN am
        /\ am'.msgID = am.msgID /\ am'.uri = am.uri /\ am'.disconnect = am.disconnect /\ am'.pending_write = am.pending_write
    BY <1>4, <2>2 DEF ClientOK
  <2>4. ClientOK(am)' /\ ToldInv' /\ OnePlace' /\ KindsInv' /\ PendingInv'
    BY <1>1, <2>2, <2>3, AnsweredBy
  <2> QED
    BY <1>2, <1>3, <2>4 DEF CallsInv
<1>6. CASE ~(am.peer # "none" /\ p.type = "SUBACK")
  <2>1. told' = Tell(Dropped(am, am'), "failure")
    BY <1>6 DEF RecvDispatch
  <2>2. \/ am' = am \/ am' = SocketFailed(am) \/ am' \in completeConnection(am, p) \/ am' = nextOrClose(am)
    <3>1. CASE am.peer = "none"
      BY <3>1 DEF RecvDispatch
    <3>2. CASE am.peer # "none" /\ recv.rc = -1
      <4>1. p.type = "none"
        BY <3>2 DEF CallsInv, RecvInv
      <4> QED
        BY <3>2, <4>1 DEF RecvDispatch
    <3>3. CASE am.peer # "none" /\ recv.rc # -1 /\ p.type = "CONNACK"
      BY <3>3 DEF RecvDispatch
    <3>4. CASE am.peer # "none" /\ recv.rc # -1 /\ p.type # "CONNACK" /\ p.type # "SUBACK"
      BY <3>4 DEF RecvDispatch
    <3> QED
      BY <1>6, <3>1, <3>2, <3>3, <3>4
  <2>3. Shrinks(am, am) /\ Shrinks(am, SocketFailed(am)) /\ Shrinks(am, nextOrClose(am))
    BY <1>4, OtherField, RetainsShrinks, SocketFailedFacts, NextOrClose
  <2>4. Shrinks(am, am')
    BY <1>4, <2>2, <2>3, CompleteConnection
  <2>5. ClientOK(am)' /\ ToldInv' /\ OnePlace' /\ KindsInv' /\ PendingInv'
    BY <1>2, <2>1, <2>4, DroppedStep
  <2> QED
    BY <1>2, <1>3, <2>5 DEF CallsInv
<1> QED
  BY <1>5, <1>6
-------------------------------------------------------------------------------
\* The network and the broker.

\* They change neither list.
LEMMA OutsideStep ==
  ASSUME CallsInv, TcpConnects \/ BrokerAnswers \/ Breaks
  PROVE  CallsInv'
<1>1. Outside /\ ClientOK(am)
  BY DEF CallsInv, TcpConnects, BrokerAnswers, Breaks
<1>2. Retains(am, am')
  <2>1. DOMAIN am' = DOMAIN am /\ am'.commands = am.commands /\ am'.responses = am.responses
        /\ am'.msgID = am.msgID /\ am'.uri = am.uri /\ am'.disconnect = am.disconnect /\ am'.pending_write = am.pending_write
    <3>1. CASE TcpConnects
      BY <1>1, <3>1 DEF TcpConnects, ClientOK
    <3>2. CASE BrokerAnswers
      <4> DEFINE q == Head(am.out)
                 session == IF broker.session /\ ~AsyncClean THEN 1 ELSE 0
      <4>1. \/ am' = Reply("CONNACK", session, TRUE) \/ am' = Reply("CONNACK", 0, FALSE)
            \/ am' = Reply("SUBACK", q.id, TRUE) \/ am' = Reply("PUBACK", q.id, TRUE)
            \/ am' = [am EXCEPT !.out = Tail(@)]
        BY <3>2 DEF BrokerAnswers
      <4> HIDE DEF q, session
      <4> QED
        BY <1>1, <4>1 DEF Reply, ClientOK
    <3>3. CASE Breaks
      BY <1>1, <3>3 DEF Breaks, ClientOK
    <3> QED
      BY <3>1, <3>2, <3>3
  <2> QED
    BY <1>1, <2>1, SameLists DEF ClientOK
<1>3. UNCHANGED <<hand, recv, calling, admitted, told>>
  BY <1>1 DEF Outside
<1>4. SameHand
  BY <1>3 DEF SameHand, InHand
<1>5. ClientOK(am)' /\ ToldInv' /\ OnePlace' /\ KindsInv' /\ PendingInv'
  BY <1>2, <1>3, <1>4, KeptStep
<1> QED
  BY <1>3, <1>5 DEF CallsInv, HandInv, RecvInv, CallingInv
-------------------------------------------------------------------------------
\* The theorem.

\* MQTTAsync_create: no call, and no place.
LEMMA AsyncInitInv == AsyncInit => AsyncInv
<1> SUFFICES ASSUME AsyncInit PROVE AsyncInv
  OBVIOUS
<1>1. am = AsyncFresh /\ hand = [cmd |-> NoCommand, at |-> "none"] /\ crashed = FALSE
      /\ recv = [pc |-> "select", sock |-> 0, pack |-> NoAnswer, rc |-> 0]
      /\ calling = NoCommand /\ admitted = <<>> /\ told = [n \in 1..MaxCalls |-> <<>>]
  BY DEF AsyncInit
<1>2. ClientOK(am) /\ am.commands = <<>> /\ am.responses = <<>>
  BY <1>1 DEF AsyncFresh, ClientOK
<1>3. HandInv /\ RecvInv
  BY <1>1, ControlCommands DEF HandInv, RecvInv
<1>7. KindsInv /\ PendingInv
  <2>1. CallsOf(am) = {}
    BY <1>2, SetOf DEF CallsOf, CallSet
  <2>2. HeldSet(hand.cmd) = {}
    BY <1>1, ControlCommands DEF HeldSet
  <2>3. am.pending_write = 0
    BY <1>1 DEF AsyncFresh
  <2> QED
    BY <2>1, <2>2, <2>3 DEF KindsInv, PendingInv
<1>4. CallingInv
  <2>1. MaxCalls \in Nat
    BY AsyncAssumption
  <2> QED
    BY <1>1, <2>1 DEF CallingInv
<1>5. ToldInv /\ \A k \in Numbers : Len(told[k]) = 0
  BY <1>1 DEF ToldInv, Numbers
<1>6. OnePlace
  <2> SUFFICES ASSUME NEW k \in Numbers
               PROVE  Counted(k, Len(told[k]) + Listed(am, k) + InHand(k))
    BY DEF OnePlace
  <2>1. Listed(am, k) = 0
    BY <1>2, ListedType
  <2>2. InHand(k) = 0
    BY <1>1, ControlCommands DEF InHand
  <2>3. Len(admitted) = 0 /\ k \in Nat /\ k > 0
    BY <1>1 DEF Numbers
  <2> QED
    BY <1>5, <2>1, <2>2, <2>3 DEF Counted
<1> QED
  BY <1>1, <1>2, <1>3, <1>4, <1>5, <1>6, <1>7 DEF AsyncInv, CallsInv

\* Each step keeps the count.
LEMMA AsyncNextInv == AsyncInv /\ [AsyncNext]_asyncVars => AsyncInv'
<1> SUFFICES ASSUME AsyncInv, [AsyncNext]_asyncVars PROVE AsyncInv'
  OBVIOUS
<1>1. CASE Restarts
  BY <1>1 DEF Restarts, AsyncInv
<1>2. CASE UNCHANGED asyncVars
  <2>1. UNCHANGED <<am, hand, recv, calling, admitted, told, crashed>>
    BY <1>2 DEF asyncVars
  <2>2. CallsInv' = CallsInv
    BY <2>1 DEF CallsInv, ClientOK, HandInv, RecvInv, CallingInv, ToldInv, OnePlace, Counted, Forgettable,
               Listed, Holding, InHand, KindsInv, PendingInv, WasAdmitted, CallsOf, CallSet, HeldSet, ToSet
  <2> QED
    BY <2>1, <2>2 DEF AsyncInv
<1>3. CASE CallBegins \/ CallAdds \/ Turn
  <2>1. UNCHANGED crashed
    BY <1>3 DEF CallBegins, CallAdds, Turn, AppAlone
  <2>2. CallsInv => CallsInv'
    BY <1>3, CallBeginsStep, CallAddsStep, TurnStep
  <2> QED
    BY <2>1, <2>2 DEF AsyncInv
<1>4. CASE SendStep
  <2>1. UNCHANGED crashed
    BY <1>4 DEF SendStep, Take, DoConnect, DoDisconnect, DoCall, DoRegister, Wait, CheckTimeouts, SendAlone
  <2>2. CallsInv => CallsInv'
    BY <1>4, TakeStep, DoConnectStep, DoDisconnectStep, DoCallStep, DoRegisterStep, WaitStep,
       CheckTimeoutsStep DEF SendStep
  <2> QED
    BY <2>1, <2>2 DEF AsyncInv
<1>5. CASE RecvStep
  <2>1. UNCHANGED crashed
    BY <1>5 DEF RecvStep, RecvSelect, RecvCycle, RecvDispatch, WriteCompletes, RecvAlone
  <2>2. CallsInv => CallsInv'
    BY <1>5, RecvSelectStep, RecvCycleStep, RecvDispatchStep, WriteCompletesStep DEF RecvStep
  <2> QED
    BY <2>1, <2>2 DEF AsyncInv
<1>6. CASE NetStep \/ Breaks
  <2>1. UNCHANGED crashed
    BY <1>6 DEF NetStep, TcpConnects, BrokerAnswers, Breaks, Outside
  <2>2. CallsInv => CallsInv'
    BY <1>6, OutsideStep DEF NetStep
  <2> QED
    BY <2>1, <2>2 DEF AsyncInv
<1> QED
  BY <1>1, <1>2, <1>3, <1>4, <1>5, <1>6 DEF AsyncNext

\* Every call that MQTTAsync accepted is told one outcome, once, and until then
\* exactly one of the queue, the send thread and the responses has its callback:
\* whatever the threads, the application and the network interleave, however
\* many calls, servers and failures there are.  The one exception is a subscription
\* that malloc gave the address pending_write still held: a cut write that completes
\* frees it, and it is never told.
THEOREM AsyncEachToldOnce == AsyncSpec => []AsyncToldOnce
<1>1. AsyncInv => AsyncToldOnce
  <2> SUFFICES ASSUME AsyncInv, ~crashed, NEW n \in DOMAIN admitted
               PROVE  \/ Len(told[n]) + Places(n) = 1
                      \/ Len(told[n]) + Places(n) = 0 /\ admitted[n].kind = "sub" /\ admitted[n].reused
    BY DEF AsyncToldOnce
  <2>1. CallsInv
    BY DEF AsyncInv
  <2>2. n \in Numbers /\ n <= Len(admitted)
    BY <2>1, AsyncAssumption DEF CallsInv, CallingInv, Numbers
  <2> DEFINE t == Len(told[n])
             l == Listed(am, n)
             h == InHand(n)
  <2>3. t + l + h = 1 \/ (t + l + h = 0 /\ admitted[n].kind = "sub" /\ admitted[n].reused)
    BY <2>1, <2>2 DEF CallsInv, OnePlace, Counted, Forgettable
  <2>4. t \in Nat /\ l \in Nat /\ h \in Nat
    <3>1. told[n] \in Seq(Outcomes) /\ ClientOK(am)
      BY <2>1, <2>2 DEF CallsInv, ToldInv
    <3> QED
      BY <3>1, ListedType DEF InHand
  <2>5. Places(n) = l + h
    BY DEF Places, Listed, InHand
  <2> HIDE DEF t, l, h
  <2>6. t + (l + h) = t + l + h
    BY <2>4
  <2> QED
    BY <2>3, <2>5, <2>6 DEF t
<1> QED
  BY <1>1, AsyncInitInv, AsyncNextInv, PTL DEF AsyncSpec
-------------------------------------------------------------------------------
\* What is delivered.  The calls and the socket of a client, as sets.

Answers == [type : {"none", "CONNACK", "PUBACK", "SUBACK"}, id : Nat, ok : BOOLEAN]

Rising(list) == \A i, j \in DOMAIN list :
  i < j /\ IsCall(list[i]) /\ IsCall(list[j]) => list[i].n < list[j].n

\* Calls that are not written yet, that wait for their answer, and the messages
\* in flight; all that are known to the client or to its socket.
Unsent == CallSet(am.commands) \cup HeldSet(hand.cmd) \cup HeldSet(calling)
Waiting == ToSet(am.responses)
Flying == ToSet(am.outbound)
Known == CallSet(am.commands) \cup HeldSet(hand.cmd) \cup Waiting \cup Flying
         \cup CallSet(am.out) \cup HeldSet(am.cut)

\* The subscriptions whose answer is on its way, by id.
SubsIn(out, in, pack) ==
  {c.id : c \in {x \in ToSet(out) : x.kind = "sub"}}
  \cup {p.id : p \in {x \in ToSet(in) \cup {pack} : x.type = "SUBACK"}}

\* What call k was told.
Heard(k) == ToSet(told[k])

OkConnack(p) == p.type = "CONNACK" /\ p.ok
NewSession(p) == OkConnack(p) /\ p.id = 0

\* The types of the rest of the client, and of the rest of the state.
SocketOK(m) ==
  /\ m.outbound \in Seq(Calls) /\ m.out \in Seq(Commands) /\ m.in \in Seq(Answers)
  /\ m.cut \in Calls \cup {NoCommand} /\ m.connected \in BOOLEAN /\ m.pending_write \in Nat
TypesInv ==
  /\ ClientOK(am) /\ SocketOK(am) /\ HandInv /\ RecvInv /\ CallingInv /\ ToldInv
  /\ recv.pack \in Answers /\ recv.pack.type # "PUBACK"
  /\ crashed \in BOOLEAN /\ DOMAIN broker = {"session", "reached"} /\ broker.session \in BOOLEAN

\* Without a connection no call is on the wire, and no write of a subscription is
\* cut short; a call that was taken out of the
\* queue finds the connection up and no write unfinished.
LinkOK(m) ==
  /\ m.connected => m.state = "NOT_IN_PROGRESS"
  /\ ~m.connected => /\ CallSet(m.out) = {} /\ m.cut = NoCommand
                     /\ \A p \in ToSet(m.in) : p.type = "CONNACK"
  /\ m.cut.kind # "sub"
HandLink ==
  /\ IsCall(hand.cmd) => am.connected
  /\ IsCall(hand.cmd) /\ hand.at = "taken" => am.cut = NoCommand
  /\ hand.at = "cut" => hand.cmd.kind = "pub0"

\* The broker's session: the CONNACK that begins it comes before any other, and
\* before anything was sent.
Before(pack, in) == OkConnack(pack) \/ \E p \in ToSet(in) : OkConnack(p)
Begins(pack, in) == NewSession(pack) \/ \E p \in ToSet(in) : NewSession(p)
SessionInv ==
  /\ ~broker.session => ~Before(recv.pack, am.in)
  /\ ~broker.session \/ Begins(recv.pack, am.in) =>
       am.outbound = <<>> /\ ~am.connected /\ calling.kind # "sub"
  /\ \A j \in DOMAIN am.in : NewSession(am.in[j]) =>
       ~OkConnack(recv.pack) /\ \A i \in 1..(j - 1) : ~OkConnack(am.in[i])

\* The socket in both directions is one stream: acknowledgements, then
\* publications.  The first b messages in flight are in it, in their order, at
\* the places e, and there are no others.
Tracked(m, k) == IF k <= Len(m.in) THEN m.in[k].type = "PUBACK" ELSE m.out[k - Len(m.in)].kind = "pub1"
InLine(m, reached, b, e) ==
  /\ b \in 0..Len(m.outbound) /\ e \in [1..b -> 1..(Len(m.in) + Len(m.out))]
  /\ \A j, k \in 1..b : j < k => e[j] < e[k]
  /\ \A j \in 1..b :
       IF e[j] <= Len(m.in)
       THEN m.in[e[j]].id = m.outbound[j].id /\ m.outbound[j].n \in reached
       ELSE m.out[e[j] - Len(m.in)] = m.outbound[j]
  /\ \A k \in 1..(Len(m.in) + Len(m.out)) : Tracked(m, k) <=> \E j \in 1..b : e[j] = k
Rest(m, b) ==
  /\ m.cut.kind = "pub1" => b < Len(m.outbound) /\ m.cut = m.outbound[Len(m.outbound)]
  /\ m.connected /\ m.peer \in {"open", "syn"} =>
       Len(m.outbound) = IF m.cut.kind = "pub1" THEN b + 1 ELSE b
Lined(m, reached) ==
  \E b \in 0..Len(m.outbound) : \E e \in [1..b -> 1..(Len(m.in) + Len(m.out))] :
    InLine(m, reached, b, e) /\ Rest(m, b)

\* Everywhere a call has the number and the kind it was accepted with.
KnownInv ==
  /\ \A x \in Known : x.n \in DOMAIN admitted /\ admitted[x.n].kind = x.kind
  /\ \A x \in Flying : x.kind = "pub1"
  /\ broker.reached \subseteq DOMAIN admitted
  /\ \A k \in Numbers \ DOMAIN admitted : "ok" \notin Heard(k)

\* The two parts of AsyncKept.
KeptInv ==
  /\ \A n \in Publishes :
       \/ \E x \in Unsent \cup Flying : x.n = n
       \/ n \in broker.reached \/ lost = n \/ "failure" \in Heard(n) \/ "unheard" \in Heard(n)
       \/ crashed /\ ~admitted[n].fresh
  /\ \A n \in Publishes : admitted[n].fresh /\ "ok" \in Heard(n) => n \in broker.reached

\* Until the process is restarted: an id is that of one call that is not
\* answered, or else of one in flight that was accepted earlier; a message in
\* flight whose id was free waits for its answer and is alone with its id,
\* unless it was reported as failed; calls go through the lists in their order.
IdsInv ==
  /\ \A x, y \in Unsent \cup Waiting : x.id = y.id /\ x.id # 0 => x = y
  /\ \A x \in Unsent \cup Waiting \cup Flying : x.kind = "pub0" <=> x.id = 0
FreshInv == \A y \in Flying : \A x \in Flying \cup Unsent :
  y.n < x.n /\ y.id = x.id /\ x.n \in DOMAIN admitted => ~admitted[x.n].fresh
FlightInv == \A y \in Flying :
  \/ ~admitted[y.n].fresh \/ "failure" \in Heard(y.n)
  \/ (y \in Waiting /\ \A x \in Flying : x.id = y.id => x = y)
OrderInv ==
  /\ Rising(am.outbound) /\ Rising(am.commands)
  /\ \A y \in Flying : \A x \in Unsent : y.n < x.n
  /\ \A h \in HeldSet(hand.cmd) : \A x \in CallSet(am.commands) : h.n < x.n
AnswersInv == \A r \in Waiting : r.kind = "pub1" => r \in Flying \/ r.n \in broker.reached
SubsInv ==
  /\ \A i \in SubsIn(am.out, am.in, recv.pack) :
       i # 0 /\ i <= am.msgID /\ \A x \in Unsent \cup Waiting : x.id = i => x.kind = "sub"
  /\ \A x \in Unsent \cup Waiting : x.kind = "sub" => x.id <= am.msgID
YoungInv == lost = 0 /\ \A k \in Numbers : "unheard" \notin Heard(k)
OvertakenInv ==
  \A n \in Publishes \cap broker.reached : \A k \in Publishes :
    k < n => k \in broker.reached \/ "failure" \in Heard(k)
FirstLife ==
  /\ IdsInv /\ FreshInv /\ FlightInv /\ OrderInv /\ AnswersInv /\ SubsInv /\ YoungInv /\ OvertakenInv

DeliveryInv ==
  /\ TypesInv /\ LinkOK(am) /\ HandLink /\ SessionInv /\ Lined(am, broker.reached)
  /\ KnownInv /\ KeptInv /\ (~crashed => FirstLife)
-------------------------------------------------------------------------------
\* Lists of calls in their order.

\* The calls of a list, and whether their numbers rise, when a command comes or
\* goes.
LEMMA RisingLists ==
  ASSUME NEW list \in Seq(Commands), NEW c \in Commands
  PROVE  /\ CallSet(Append(list, c)) = CallSet(list) \cup HeldSet(c)
         /\ CallSet(<<c>> \o list) = CallSet(list) \cup HeldSet(c)
         /\ Rising(list) /\ (\A x \in CallSet(list), y \in HeldSet(c) : x.n < y.n) => Rising(Append(list, c))
         /\ Rising(list) /\ ~IsCall(c) => Rising(<<c>> \o list)
         /\ CallSet(list) \subseteq Calls
<1>1. /\ ToSet(Append(list, c)) = ToSet(list) \cup {c} /\ ToSet(<<c>> \o list) = {c} \cup ToSet(list)
      /\ ToSet(list) \subseteq Commands
  BY SetAppend, SetCons, SetOf
<1>2. CallSet(Append(list, c)) = CallSet(list) \cup HeldSet(c) /\ CallSet(<<c>> \o list) = CallSet(list) \cup HeldSet(c)
  BY <1>1 DEF CallSet, HeldSet
<1>3. ASSUME Rising(list), \A x \in CallSet(list), y \in HeldSet(c) : x.n < y.n
      PROVE  Rising(Append(list, c))
  <2> DEFINE long == Append(list, c)
  <2>1. /\ DOMAIN long = 1..(Len(list) + 1) /\ DOMAIN list = 1..Len(list) /\ Len(list) \in Nat
        /\ long[Len(list) + 1] = c /\ \A i \in 1..Len(list) : long[i] = list[i]
    OBVIOUS
  <2> HIDE DEF long
  <2>2. ASSUME NEW i \in DOMAIN long, NEW j \in DOMAIN long, i < j, IsCall(long[i]), IsCall(long[j])
        PROVE  long[i].n < long[j].n
    <3>1. i \in 1..Len(list) /\ long[i] = list[i] /\ list[i] \in CallSet(list)
      BY <2>1, <2>2 DEF CallSet, ToSet
    <3>2. CASE j = Len(list) + 1
      BY <1>3, <2>1, <2>2, <3>1, <3>2 DEF HeldSet
    <3>3. CASE j # Len(list) + 1
      BY <1>3, <2>1, <2>2, <3>1, <3>3 DEF Rising
    <3> QED
      BY <3>2, <3>3
  <2> QED
    BY <2>2 DEF Rising, long
<1>4. ASSUME Rising(list), ~IsCall(c)
      PROVE  Rising(<<c>> \o list)
  <2> DEFINE long == <<c>> \o list
  <2>1. /\ DOMAIN long = 1..(Len(list) + 1) /\ DOMAIN list = 1..Len(list) /\ Len(list) \in Nat
        /\ long[1] = c /\ \A i \in 1..Len(list) : long[i + 1] = list[i]
    OBVIOUS
  <2> HIDE DEF long
  <2>2. ASSUME NEW i \in DOMAIN long, NEW j \in DOMAIN long, i < j, IsCall(long[i]), IsCall(long[j])
        PROVE  long[i].n < long[j].n
    <3>1. i # 1 /\ i \in 1..(Len(list) + 1) /\ j \in 1..(Len(list) + 1)
      BY <1>4, <2>1, <2>2
    <3>2. i - 1 \in 1..Len(list) /\ j - 1 \in 1..Len(list) /\ i - 1 < j - 1 /\ (i - 1) + 1 = i /\ (j - 1) + 1 = j
      BY <2>1, <2>2, <3>1
    <3>3. long[i] = list[i - 1] /\ long[j] = list[j - 1]
      BY <2>1, <3>2
    <3> QED
      BY <1>4, <2>1, <2>2, <3>2, <3>3 DEF Rising
  <2> QED
    BY <2>2 DEF Rising, long
<1>5. CallSet(list) \subseteq Calls
  BY <1>1 DEF CallSet, Commands, IsCall
<1> QED
  BY <1>2, <1>3, <1>4, <1>5

\* The first of a rising list, and the rest.
LEMMA RisingTail ==
  ASSUME NEW list \in Seq(Commands), list # <<>>
  PROVE  /\ CallSet(list) = HeldSet(list[1]) \cup CallSet(Tail(list))
         /\ Rising(list) => /\ Rising(Tail(list))
                            /\ \A x \in HeldSet(list[1]), y \in CallSet(Tail(list)) : x.n < y.n
<1> DEFINE short == Tail(list)
<1>1. ToSet(list) = {list[1]} \cup ToSet(short)
  BY SetTail
<1>2. /\ Len(list) \in Nat /\ Len(list) > 0 /\ DOMAIN list = 1..Len(list) /\ DOMAIN short = 1..(Len(list) - 1)
      /\ \A i \in 1..(Len(list) - 1) : short[i] = list[i + 1]
  OBVIOUS
<1> HIDE DEF short
<1>3. CallSet(list) = HeldSet(list[1]) \cup CallSet(short)
  BY <1>1 DEF CallSet, HeldSet
<1>4. ASSUME Rising(list) PROVE Rising(short)
  <2> SUFFICES ASSUME NEW i \in DOMAIN short, NEW j \in DOMAIN short, i < j, IsCall(short[i]), IsCall(short[j])
               PROVE  short[i].n < short[j].n
    BY DEF Rising
  <2>1. i + 1 \in DOMAIN list /\ j + 1 \in DOMAIN list /\ i + 1 < j + 1
        /\ short[i] = list[i + 1] /\ short[j] = list[j + 1]
    BY <1>2
  <2> QED
    BY <1>4, <2>1 DEF Rising
<1>5. ASSUME Rising(list), NEW x \in HeldSet(list[1]), NEW y \in CallSet(short)
      PROVE  x.n < y.n
  <2>1. x = list[1] /\ IsCall(list[1]) /\ IsCall(y)
    BY <1>5 DEF HeldSet, CallSet
  <2>2. PICK j \in DOMAIN short : y = short[j]
    BY <1>5 DEF CallSet, ToSet
  <2>3. j + 1 \in DOMAIN list /\ 1 \in DOMAIN list /\ 1 < j + 1 /\ y = list[j + 1]
    BY <1>2, <2>2
  <2> QED
    BY <1>5, <2>1, <2>3 DEF Rising
<1> QED
  BY <1>3, <1>4, <1>5 DEF short
-------------------------------------------------------------------------------
\* The functions that leave calls and messages alone when the session is kept.

Sound(m) == ClientOK(m) /\ SocketOK(m)
SameCalls(m, n) ==
  /\ Sound(n) /\ n.responses = m.responses /\ n.outbound = m.outbound
  /\ n.msgID = m.msgID /\ n.pending_write = m.pending_write
  /\ CallSet(n.commands) = CallSet(m.commands) /\ (Rising(m.commands) => Rising(n.commands))
SameSocket(m, n) ==
  /\ n.in = m.in /\ n.out = m.out /\ n.cut = m.cut
  /\ n.connected = m.connected /\ n.state = m.state /\ n.peer = m.peer
Closed(m) == ~m.connected /\ m.in = <<>> /\ m.out = <<>> /\ m.cut = NoCommand

\* A socket that is not connected may take a CONNECT; one that is may break.
Narrow(m, n) ==
  /\ n.in = m.in /\ n.cut = m.cut /\ n.connected = m.connected
  /\ n.out = m.out \/ n.out = <<>> \/ (~m.connected /\ n.out = Append(m.out, ConnectTo(0)))
  /\ m.connected => /\ n.state = m.state
                    /\ n.peer \in {"open", "syn"} => m.peer \in {"open", "syn"} /\ n.out = m.out
Quiet(m, n) == SameCalls(m, n) /\ (Closed(n) \/ Narrow(m, n))

\* What changes none of the lists.
LEMMA FieldsSame ==
  ASSUME NEW m, Sound(m), NEW n, DOMAIN n = DOMAIN m,
         n.commands = m.commands, n.responses = m.responses, n.outbound = m.outbound,
         n.msgID = m.msgID, n.pending_write = m.pending_write,
         n.uri \in Nat, n.disconnect \in Commands \cup {NoCommand},
         n.out \in Seq(Commands), n.in \in Seq(Answers), n.cut \in Calls \cup {NoCommand},
         n.connected \in BOOLEAN
  PROVE  SameCalls(m, n)
<1>1. ClientOK(n)
  BY DEF Sound, ClientOK
<1>2. SocketOK(n)
  BY DEF Sound, SocketOK
<1> QED
  BY <1>1, <1>2 DEF SameCalls, Sound

\* One after the other.
LEMMA SameTwice ==
  ASSUME NEW m, NEW n, NEW p, SameCalls(m, n), SameCalls(n, p)
  PROVE  /\ SameCalls(m, p) /\ Sound(n) /\ Sound(p)
         /\ SameSocket(m, n) /\ SameSocket(n, p) => SameSocket(m, p)
         /\ Closed(n) /\ SameSocket(n, p) => Closed(p)
<1>1. SameCalls(m, p) /\ Sound(n) /\ Sound(p)
  BY DEF SameCalls
<1>2. SameSocket(m, n) /\ SameSocket(n, p) => SameSocket(m, p)
  BY DEF SameSocket
<1>3. Closed(n) /\ SameSocket(n, p) => Closed(p)
  BY DEF Closed, SameSocket
<1> QED
  BY <1>1, <1>2, <1>3

\* A socket that stays as it is.
LEMMA SocketSame ==
  ASSUME NEW m, NEW n, SameCalls(m, n), SameSocket(m, n)
  PROVE  Quiet(m, n)
BY DEF Quiet, SameSocket, Narrow

\* MQTTAsync_addCommand of a connect or disconnect.
LEMMA ControlSame ==
  ASSUME NEW m, Sound(m), NEW c \in Commands, ~IsCall(c)
  PROVE  SameCalls(m, addCommand(m, c)) /\ SameSocket(m, addCommand(m, c))
<1>1. m.commands \in Seq(Commands) /\ HeldSet(c) = {}
  BY DEF Sound, ClientOK, HeldSet
<1>2. /\ CallSet(Append(m.commands, c)) = CallSet(m.commands)
      /\ CallSet(<<c>> \o m.commands) = CallSet(m.commands)
      /\ Rising(m.commands) => Rising(Append(m.commands, c)) /\ Rising(<<c>> \o m.commands)
      /\ Append(m.commands, c) \in Seq(Commands) /\ <<c>> \o m.commands \in Seq(Commands)
  <2>1. Append(m.commands, c) \in Seq(Commands) /\ <<c>> \o m.commands \in Seq(Commands)
    BY <1>1
  <2>2. /\ CallSet(Append(m.commands, c)) = CallSet(m.commands) \cup HeldSet(c)
        /\ CallSet(<<c>> \o m.commands) = CallSet(m.commands) \cup HeldSet(c)
    BY <1>1, RisingLists
  <2>3. ASSUME Rising(m.commands) PROVE Rising(Append(m.commands, c)) /\ Rising(<<c>> \o m.commands)
    <3>1. \A x \in CallSet(m.commands), y \in HeldSet(c) : x.n < y.n
      BY <1>1
    <3> QED
      BY <1>1, <2>3, <3>1, RisingLists
  <2> QED
    BY <1>1, <2>1, <2>2, <2>3
<1>3. ASSUME NEW list \in Seq(Commands), CallSet(list) = CallSet(m.commands), Rising(m.commands) => Rising(list),
             NEW n, n = [m EXCEPT !.commands = list]
      PROVE  SameCalls(m, n) /\ SameSocket(m, n)
  <2>1. /\ DOMAIN n = DOMAIN m /\ n.commands = list /\ n.responses = m.responses /\ n.outbound = m.outbound
        /\ n.msgID = m.msgID /\ n.pending_write = m.pending_write /\ n.uri = m.uri
        /\ n.disconnect = m.disconnect /\ n.out = m.out /\ n.in = m.in /\ n.cut = m.cut
        /\ n.connected = m.connected /\ n.state = m.state /\ n.peer = m.peer
    BY <1>3 DEF Sound, ClientOK
  <2>2. ClientOK(n) /\ SocketOK(n)
    BY <2>1, <1>3 DEF Sound, ClientOK, SocketOK
  <2> QED
    BY <1>3, <2>1, <2>2 DEF SameCalls, SameSocket, Sound
<1>4. CASE addCommand(m, c) = m
  BY <1>4 DEF SameCalls, SameSocket
<1>5. CASE addCommand(m, c) = [m EXCEPT !.commands = <<c>> \o m.commands]
  BY <1>2, <1>3, <1>5, ZenonT(30)
<1>6. CASE addCommand(m, c) = [m EXCEPT !.commands = Append(m.commands, c)]
  BY <1>2, <1>3, <1>6, ZenonT(30)
<1> QED
  BY <1>4, <1>5, <1>6 DEF addCommand

\* MQTTAsync_disconnect_internal.
LEMMA InternalSame ==
  ASSUME NEW m, Sound(m)
  PROVE  SameCalls(m, disconnect_internal(m)) /\ SameSocket(m, disconnect_internal(m))
<1>1. SameCalls(m, m) /\ SameSocket(m, m)
  BY DEF SameCalls, SameSocket
<1> QED
  BY <1>1, ControlSame, ControlCommands DEF disconnect_internal

\* MQTTAsync_startConnectRetry.
LEMMA RetrySame ==
  ASSUME NEW m, Sound(m)
  PROVE  SameCalls(m, startConnectRetry(m)) /\ SameSocket(m, startConnectRetry(m))
<1>1. CASE startConnectRetry(m) = m
  BY <1>1 DEF SameCalls, SameSocket
<1>2. CASE startConnectRetry(m) = [m EXCEPT !.retrying = TRUE]
  <2> DEFINE n == [m EXCEPT !.retrying = TRUE]
  <2>1. /\ DOMAIN n = DOMAIN m /\ n.commands = m.commands /\ n.responses = m.responses /\ n.outbound = m.outbound
        /\ n.msgID = m.msgID /\ n.pending_write = m.pending_write /\ n.uri = m.uri
        /\ n.disconnect = m.disconnect /\ n.out = m.out /\ n.in = m.in /\ n.cut = m.cut
        /\ n.connected = m.connected /\ n.state = m.state /\ n.peer = m.peer
    BY DEF Sound, ClientOK
  <2> HIDE DEF n
  <2>2. SameCalls(m, n)
    BY <2>1, FieldsSame DEF Sound, ClientOK, SocketOK
  <2>3. SameSocket(m, n)
    BY <2>1 DEF SameSocket
  <2> QED
    BY <1>2, <2>2, <2>3 DEF n
<1> QED
  BY <1>1, <1>2 DEF startConnectRetry

\* MQTTAsync_closeOnly.
LEMMA CloseSame ==
  ASSUME NEW m, Sound(m)
  PROVE  SameCalls(m, closeOnly(m)) /\ Closed(closeOnly(m)) /\ closeOnly(m).uri = m.uri
<1> DEFINE n == closeOnly(m)
<1>1. /\ DOMAIN n = DOMAIN m /\ n.commands = m.commands /\ n.responses = m.responses /\ n.outbound = m.outbound
      /\ n.msgID = m.msgID /\ n.pending_write = m.pending_write /\ n.uri = m.uri
      /\ n.disconnect = m.disconnect /\ n.out = <<>> /\ n.in = <<>> /\ n.cut = NoCommand /\ n.connected = FALSE
  BY DEF Sound, ClientOK, closeOnly
<1> HIDE DEF n
<1>4. n.out \in Seq(Commands) /\ n.in \in Seq(Answers) /\ n.cut \in Calls \cup {NoCommand} /\ n.connected \in BOOLEAN
  <2>1. n.connected \in BOOLEAN /\ n.cut \in Calls \cup {NoCommand}
    BY <1>1, Zenon
  <2>2. <<>> \in Seq(Commands) /\ <<>> \in Seq(Answers)
    OBVIOUS
  <2> QED
    BY <1>1, <2>1, <2>2
<1>5. n.uri \in Nat /\ n.disconnect \in Commands \cup {NoCommand}
  BY <1>1 DEF Sound, ClientOK
<1>2. SameCalls(m, n)
  BY <1>1, <1>4, <1>5, FieldsSame, ZenonT(30)
<1>3. Closed(n)
  BY <1>1 DEF Closed
<1> QED
  BY <1>1, <1>2, <1>3 DEF n

\* MQTTAsync_closeSession, nextOrClose and MQTTAsync_checkDisconnect.
LEMMA EndSame ==
  ASSUME ~AsyncClean, NEW m, Sound(m), NEW c
  PROVE  /\ SameCalls(m, nextOrClose(m)) /\ Closed(nextOrClose(m))
         /\ SameCalls(m, checkDisconnect(m, c)) /\ Closed(checkDisconnect(m, c))
<1> DEFINE n == closeOnly(m)
           a == addCommand(n, ConnectTo(m.uri + 1))
           r == startConnectRetry(n)
<1>1. SameCalls(m, n) /\ Closed(n) /\ Sound(n)
  BY CloseSame DEF SameCalls
<1>2. closeSession(m) = n
  BY DEF closeSession
<1>3. m.uri + 1 \in Nat
  BY DEF Sound, ClientOK
<1> HIDE DEF n
<1>4. SameCalls(n, a) /\ SameSocket(n, a) /\ SameCalls(n, r) /\ SameSocket(n, r)
  BY <1>1, <1>3, ControlSame, ControlCommands, RetrySame
<1> HIDE DEF a, r
<1>5. SameCalls(m, a) /\ Closed(a) /\ SameCalls(m, r) /\ Closed(r)
  BY <1>1, <1>4, SameTwice
<1>6. nextOrClose(m) = a \/ nextOrClose(m) = r
  BY <1>2 DEF nextOrClose, a, r, n
<1>7. checkDisconnect(m, c) = n \/ checkDisconnect(m, c) = r
  BY <1>2 DEF checkDisconnect, r, n
<1> QED
  BY <1>1, <1>5, <1>6, <1>7

\* The CONNECT.
LEMMA SendConnectSame ==
  ASSUME NEW m, Sound(m)
  PROVE  /\ SameCalls(m, SendConnect(m))
         /\ SendConnect(m).in = m.in /\ SendConnect(m).cut = m.cut /\ SendConnect(m).connected = m.connected
         /\ SendConnect(m).peer = m.peer
         /\ SendConnect(m).out = m.out \/ SendConnect(m).out = Append(m.out, ConnectTo(0))
<1> DEFINE u == [m EXCEPT !.state = "WAIT_FOR_CONNACK"]
           v == [u EXCEPT !.out = @ \o <<ConnectTo(0)>>]
           n == SendConnect(m)
<1>1. n = u \/ n = v
  BY DEF SendConnect, Writes
<1>2. m.out \o <<ConnectTo(0)>> = Append(m.out, ConnectTo(0))
  BY DEF Sound, SocketOK
<1>3. ASSUME NEW q, q = u \/ q = v
      PROVE  /\ DOMAIN q = DOMAIN m /\ q.commands = m.commands /\ q.responses = m.responses /\ q.outbound = m.outbound
             /\ q.msgID = m.msgID /\ q.pending_write = m.pending_write /\ q.uri = m.uri
             /\ q.disconnect = m.disconnect /\ q.in = m.in /\ q.cut = m.cut
             /\ q.connected = m.connected /\ q.peer = m.peer
             /\ q.out = m.out \/ q.out = m.out \o <<ConnectTo(0)>>
  <2>1. CASE q = u
    BY <2>1 DEF Sound, ClientOK
  <2>2. CASE q = v
    BY <2>2 DEF Sound, ClientOK
  <2> QED
    BY <1>3, <2>1, <2>2
<1> HIDE DEF u, v, n
<1>4. /\ DOMAIN n = DOMAIN m /\ n.commands = m.commands /\ n.responses = m.responses /\ n.outbound = m.outbound
      /\ n.msgID = m.msgID /\ n.pending_write = m.pending_write /\ n.uri = m.uri
      /\ n.disconnect = m.disconnect /\ n.in = m.in /\ n.cut = m.cut
      /\ n.connected = m.connected /\ n.peer = m.peer
      /\ n.out = m.out \/ n.out = Append(m.out, ConnectTo(0))
  BY <1>1, <1>2, <1>3
<1>5. n.out \in Seq(Commands)
  <2>1. m.out \in Seq(Commands) /\ ConnectTo(0) \in Commands
    BY ControlCommands DEF Sound, SocketOK
  <2>2. Append(m.out, ConnectTo(0)) \in Seq(Commands)
    BY <2>1
  <2> QED
    BY <1>4, <2>1, <2>2
<1>6. SameCalls(m, n)
  BY <1>4, <1>5, FieldsSame DEF Sound, ClientOK, SocketOK
<1> QED
  BY <1>4, <1>6 DEF n

\* The other fields.
LEMMA OthersSame ==
  ASSUME NEW m, Sound(m), NEW x, NEW uri \in Nat, NEW c \in Commands \cup {NoCommand}
  PROVE  /\ Quiet(m, m)
         /\ \A n \in {m, [m EXCEPT !.shouldBeConnected = x], [m EXCEPT !.retrying = x],
                      [m EXCEPT !.uri = uri], [m EXCEPT !.disconnect = c]} :
              SameCalls(m, n) /\ SameSocket(m, n)
         /\ \A n \in {[m EXCEPT !.state = x], [m EXCEPT !.peer = x]} :
              /\ SameCalls(m, n) /\ n.in = m.in /\ n.cut = m.cut /\ n.connected = m.connected /\ n.out = m.out
              /\ n.state = m.state \/ n.peer = m.peer
<1>1. ASSUME NEW n, n \in {m, [m EXCEPT !.shouldBeConnected = x], [m EXCEPT !.retrying = x],
                      [m EXCEPT !.uri = uri], [m EXCEPT !.disconnect = c]}
      PROVE  SameCalls(m, n) /\ SameSocket(m, n)
  <2>1. /\ DOMAIN n = DOMAIN m /\ n.commands = m.commands /\ n.responses = m.responses /\ n.outbound = m.outbound
        /\ n.msgID = m.msgID /\ n.pending_write = m.pending_write
        /\ n.out = m.out /\ n.in = m.in /\ n.cut = m.cut
        /\ n.connected = m.connected /\ n.state = m.state /\ n.peer = m.peer
    BY <1>1 DEF Sound, ClientOK
  <2>2. n.uri \in Nat /\ n.disconnect \in Commands \cup {NoCommand}
    BY <1>1 DEF Sound, ClientOK
  <2>3. SameCalls(m, n)
    BY <2>1, <2>2, FieldsSame DEF Sound, ClientOK, SocketOK
  <2> QED
    BY <2>1, <2>3 DEF SameSocket
<1>2. ASSUME NEW n, n \in {[m EXCEPT !.state = x], [m EXCEPT !.peer = x]}
      PROVE  /\ SameCalls(m, n) /\ n.in = m.in /\ n.cut = m.cut /\ n.connected = m.connected /\ n.out = m.out
             /\ n.state = m.state \/ n.peer = m.peer
  <2>1. /\ DOMAIN n = DOMAIN m /\ n.commands = m.commands /\ n.responses = m.responses /\ n.outbound = m.outbound
        /\ n.msgID = m.msgID /\ n.pending_write = m.pending_write /\ n.uri = m.uri /\ n.disconnect = m.disconnect
        /\ n.out = m.out /\ n.in = m.in /\ n.cut = m.cut /\ n.connected = m.connected
        /\ n.state = m.state \/ n.peer = m.peer
    BY <1>2 DEF Sound, ClientOK
  <2>2. SameCalls(m, n)
    BY <2>1, FieldsSame DEF Sound, ClientOK, SocketOK
  <2> QED
    BY <2>1, <2>2
<1>3. Quiet(m, m)
  BY <1>1, SocketSame
<1> QED
  BY <1>1, <1>2, <1>3

\* A connect that cannot begin.
LEMMA ConnectFailedSame ==
  ASSUME NEW m, Sound(m), NEW c, c.n \in Nat
  PROVE  SameCalls(m, ConnectFailed(m, c)) /\ SameSocket(m, ConnectFailed(m, c))
<1> DEFINE s == [m EXCEPT !.shouldBeConnected = TRUE]
           u == [s EXCEPT !.uri = c.n]
<1>1. SameCalls(m, s) /\ SameSocket(m, s) /\ Sound(s)
  <2>1. SameCalls(m, s) /\ SameSocket(m, s)
    BY OthersSame, Zenon
  <2> QED
    BY <2>1 DEF SameCalls
<1> HIDE DEF s
<1>2. SameCalls(s, u) /\ SameSocket(s, u) /\ Sound(u)
  <2>1. SameCalls(s, u) /\ SameSocket(s, u)
    BY <1>1, OthersSame, Zenon
  <2> QED
    BY <2>1 DEF SameCalls
<1> HIDE DEF u
<1> DEFINE a == addCommand(s, ConnectTo(c.n + 1))
           r == startConnectRetry(u)
<1>3. SameCalls(s, a) /\ SameSocket(s, a) /\ SameCalls(u, r) /\ SameSocket(u, r)
  BY <1>1, <1>2, ControlSame, ControlCommands, RetrySame
<1>4. ConnectFailed(m, c) = a \/ ConnectFailed(m, c) = r
  BY DEF ConnectFailed, s, u
<1> HIDE DEF a, r
<1>5. SameCalls(m, u) /\ SameSocket(m, u)
  BY <1>1, <1>2, SameTwice
<1>6. SameCalls(m, a) /\ SameSocket(m, a) /\ SameCalls(m, r) /\ SameSocket(m, r)
  BY <1>1, <1>3, <1>5, SameTwice
<1> QED
  BY <1>4, <1>6

\* A socket error.
LEMMA SocketFailedSame ==
  ASSUME ~AsyncClean, NEW m, Sound(m)
  PROVE  Quiet(m, SocketFailed(m))
<1>1. Quiet(m, disconnect_internal(m)) /\ Quiet(m, nextOrClose(m)) /\ Quiet(m, closeOnly(m))
  BY InternalSame, EndSame, CloseSame, SocketSame DEF Quiet
<1> QED
  BY <1>1 DEF SocketFailed

\* No call is dropped.
LEMMA NoneDropped ==
  ASSUME NEW m, NEW n, CallSet(n.commands) = CallSet(m.commands), n.responses = m.responses
  PROVE  Dropped(m, n) = {}
<1> DEFINE of(list) == {list[i].n : i \in {j \in DOMAIN list : IsCall(list[j])}}
<1>1. ASSUME NEW list PROVE of(list) = {x.n : x \in CallSet(list)}
  BY DEF CallSet, ToSet
<1>2. Dropped(m, n) = (of(m.commands) \cup of(m.responses)) \ (of(n.commands) \cup of(n.responses))
  BY DEF Dropped
<1> HIDE DEF of
<1>3. of(m.commands) = of(n.commands) /\ of(m.responses) = of(n.responses)
  BY <1>1
<1> QED
  BY <1>2, <1>3
-------------------------------------------------------------------------------
\* Calls that move between the lists.

\* The calls ns are told an outcome, if somebody still listens.
Hears(ns, outcome) ==
  /\ ToldInv'
  /\ \A k \in Numbers : Heard(k)' = IF k \in ns THEN Heard(k) \cup {IF crashed THEN "unheard" ELSE outcome}
                                    ELSE Heard(k)

\* A callback ...
LEMMA HearsTell ==
  ASSUME ToldInv, NEW ns, NEW outcome \in Outcomes, told' = Tell(ns, outcome)
  PROVE  Hears(ns, outcome)
<1> DEFINE word == IF crashed THEN "unheard" ELSE outcome
<1>1. DOMAIN told = Numbers /\ \A k \in Numbers : told[k] \in Seq(Outcomes)
  BY DEF ToldInv
<1>2. \A k \in Numbers : told'[k] = IF k \in ns THEN Append(told[k], word) ELSE told[k]
  BY <1>1 DEF Tell
<1>3. told' \in [Numbers -> Seq(Outcomes)]
  BY TellFacts
<1> HIDE DEF word
<1>4. ASSUME NEW k \in Numbers
      PROVE  Heard(k)' = IF k \in ns THEN Heard(k) \cup {word} ELSE Heard(k)
  <2>0. told[k] \in Seq(Outcomes)
    BY <1>1
  <2>1. ToSet(Append(told[k], word)) = ToSet(told[k]) \cup {word}
    BY <2>0, SetAppend
  <2> QED
    BY <1>2, <2>1 DEF Heard
<1> QED
  BY <1>3, <1>4 DEF Hears, ToldInv, word

\* ... or none.
LEMMA HearsNone ==
  ASSUME ToldInv, NEW outcome, told' = told \/ told' = Tell({}, outcome)
  PROVE  Hears({}, "ok")
<1>1. told' = told
  BY DEF ToldInv, Tell
<1>2. \A k \in Numbers : Heard(k)' = Heard(k)
  BY <1>1 DEF Heard
<1> QED
  BY <1>1, <1>2 DEF Hears, ToldInv

\* What was accepted is a call with its number.
LEMMA Accepted ==
  ASSUME TypesInv
  PROVE  /\ DOMAIN admitted = 1..Len(admitted) /\ Len(admitted) \in Nat /\ DOMAIN admitted \subseteq Numbers
         /\ Unsent \subseteq Calls /\ Waiting \subseteq Calls /\ Flying \subseteq Calls /\ Known \subseteq Calls
         /\ CallSet(am.commands) \subseteq Calls /\ HeldSet(hand.cmd) \subseteq Calls
         /\ \A x \in HeldSet(calling) : x = calling /\ calling \in Calls /\ x.n = Len(admitted) + 1
         /\ \A x \in HeldSet(calling) : x.n \notin DOMAIN admitted
         /\ Unsent \subseteq Known \cup HeldSet(calling) /\ Flying \subseteq Known /\ Waiting \subseteq Known
<1>1. /\ DOMAIN admitted = 1..Len(admitted) /\ Len(admitted) \in Nat /\ DOMAIN admitted \subseteq Numbers
  BY AsyncAssumption DEF TypesInv, CallingInv, Numbers
<1>2. \A x \in HeldSet(calling) : x = calling /\ calling \in Calls /\ x.n = Len(admitted) + 1
  <2>1. ~IsCall(NoCommand)
    BY ControlCommands
  <2> QED
    BY <2>1 DEF TypesInv, CallingInv, HeldSet
<1>3. ASSUME NEW list \in Seq(Commands) PROVE CallSet(list) \subseteq Calls
  <2>1. ToSet(list) \subseteq Commands
    BY SetOf
  <2> QED
    BY <2>1 DEF CallSet, Commands, IsCall
<1>4. am.commands \in Seq(Commands) /\ am.out \in Seq(Commands) /\ am.responses \in Seq(Calls) /\ am.outbound \in Seq(Calls)
  BY DEF TypesInv, ClientOK, SocketOK
<1>5. Waiting \subseteq Calls /\ Flying \subseteq Calls
  BY <1>4, SetOf DEF Waiting, Flying
<1>6. HeldSet(hand.cmd) \subseteq Calls
  BY HandCounts DEF TypesInv, HeldSet
<1>7. HeldSet(am.cut) \subseteq Calls
  <2>1. ~IsCall(NoCommand)
    BY ControlCommands
  <2> QED
    BY <2>1 DEF TypesInv, SocketOK, HeldSet
<1>8. CallSet(am.commands) \subseteq Calls /\ CallSet(am.out) \subseteq Calls
  BY <1>3, <1>4
<1>9. Known \subseteq Calls
  BY <1>5, <1>6, <1>7, <1>8 DEF Known
<1>10. Unsent \subseteq Calls
  BY <1>2, <1>6, <1>8 DEF Unsent
<1>11. \A x \in HeldSet(calling) : x.n \notin DOMAIN admitted
  BY <1>1, <1>2
<1>12. Unsent \subseteq Known \cup HeldSet(calling) /\ Flying \subseteq Known /\ Waiting \subseteq Known
  BY DEF Unsent, Known
<1> QED
  BY <1>1, <1>2, <1>5, <1>6, <1>8, <1>9, <1>10, <1>11, <1>12

\* A message that begins to fly waits for its answer or was reported; one that
\* stops to wait has landed, had the id of another, or is reported.
FlightMoves ==
  /\ \A x \in Flying' \ Flying : x \in Waiting' \/ "failure" \in Heard(x.n)'
  /\ \A y \in Waiting \ Waiting' : y \in Flying' => ~admitted[y.n].fresh \/ "failure" \in Heard(y.n)'

\* Calls are written, answered or dropped, and told; the broker gets some.
LEMMA MoveStep ==
  ASSUME TypesInv, KnownInv, KeptInv, ~crashed => FirstLife,
         NEW ns, NEW outcome \in {"ok", "failure"}, Hears(ns, outcome),
         UNCHANGED <<admitted, crashed, lost>>,
         Unsent' \subseteq Unsent, Waiting' \subseteq Waiting \cup Unsent,
         Flying' \subseteq Flying \cup Unsent, Known' \subseteq Known,
         \A x \in Flying' \ Flying : x.kind = "pub1",
         broker.reached \subseteq broker'.reached, broker'.reached \subseteq DOMAIN admitted,
         outcome = "ok" =>
           \A k \in ns : /\ k \in DOMAIN admitted
                         /\ ~crashed /\ k \in Publishes /\ admitted[k].fresh => k \in broker'.reached,
         \A x \in (Unsent \cup Flying) \ (Unsent' \cup Flying') :
           x.kind = "pub1" => x.n \in broker'.reached \/ (outcome = "failure" /\ x.n \in ns),
         ~crashed => /\ OrderInv' /\ SubsInv' /\ FlightMoves
                     /\ \A y \in Flying \ Flying' : y.n \in broker'.reached
                     /\ \A r \in Waiting' \ Waiting : r.kind = "pub1" => r \in Flying'
                     /\ \A n \in Publishes \cap (broker'.reached \ broker.reached) : \A k \in Publishes :
                          k < n => k \in broker'.reached \/ "failure" \in Heard(k)
  PROVE  KnownInv' /\ KeptInv' /\ (~crashed' => FirstLife')
<1>1. Publishes' = Publishes /\ Publishes \subseteq DOMAIN admitted /\ \A n \in Publishes : admitted[n].kind = "pub1"
  BY DEF Publishes
<1>2. DOMAIN admitted \subseteq Numbers /\ Unsent \subseteq Known \cup HeldSet(calling) /\ Flying \subseteq Known
      /\ \A x \in HeldSet(calling) : x.n \notin DOMAIN admitted
  BY Accepted
<1>3. KnownInv'
  <2>1. \A x \in Known' : x.n \in DOMAIN admitted' /\ admitted'[x.n].kind = x.kind
    BY DEF KnownInv
  <2>3. \A x \in Flying' : x.kind = "pub1"
    BY DEF KnownInv
  <2>4. ASSUME NEW k \in Numbers \ DOMAIN admitted PROVE "ok" \notin Heard(k)'
    <3>1. "ok" \notin Heard(k)
      BY DEF KnownInv
    <3> QED
      BY <3>1 DEF Hears
  <2> QED
    BY <2>1, <2>3, <2>4 DEF KnownInv
<1>4. \A k \in Numbers : Heard(k) \subseteq Heard(k)'
  BY DEF Hears
<1>5. ASSUME NEW n \in Publishes
      PROVE  \/ \E x \in Unsent' \cup Flying' : x.n = n
             \/ n \in broker'.reached \/ lost = n \/ "failure" \in Heard(n)' \/ "unheard" \in Heard(n)'
             \/ crashed /\ ~admitted[n].fresh
  <2>0. n \in Numbers
    BY <1>1, <1>2
  <2>1. CASE \/ n \in broker.reached \/ lost = n \/ "failure" \in Heard(n) \/ "unheard" \in Heard(n)
             \/ crashed /\ ~admitted[n].fresh
    BY <1>4, <2>0, <2>1
  <2>2. CASE \E x \in Unsent \cup Flying : x.n = n
    <3>1. PICK x \in Unsent \cup Flying : x.n = n
      BY <2>2
    <3>2. CASE x \in Unsent' \cup Flying'
      BY <3>1, <3>2
    <3>3. CASE x \notin Unsent' \cup Flying'
      <4>1. x \in Known
        BY <1>1, <1>2, <3>1
      <4>2. x.kind = "pub1"
        BY <1>1, <3>1, <4>1 DEF KnownInv
      <4>3. n \in broker'.reached \/ (outcome = "failure" /\ n \in ns)
        BY <3>1, <3>3, <4>2
      <4>4. outcome = "failure" /\ n \in ns => "failure" \in Heard(n)' \/ "unheard" \in Heard(n)'
        BY <2>0 DEF Hears
      <4> QED
        BY <4>3, <4>4
    <3> QED
      BY <3>2, <3>3
  <2> QED
    BY <2>1, <2>2 DEF KeptInv
<1>6. ASSUME NEW n \in Publishes, admitted[n].fresh, "ok" \in Heard(n)'
      PROVE  n \in broker'.reached
  <2>0. n \in Numbers
    BY <1>1, <1>2
  <2>1. CASE "ok" \in Heard(n)
    BY <1>6, <2>1 DEF KeptInv
  <2>2. CASE "ok" \notin Heard(n)
    <3>1. n \in ns /\ outcome = "ok" /\ ~crashed
      BY <1>6, <2>0, <2>2 DEF Hears
    <3> QED
      BY <1>6, <3>1
  <2> QED
    BY <2>1, <2>2
<1>7. KeptInv'
  BY <1>1, <1>5, <1>6 DEF KeptInv
<1>8. ASSUME ~crashed PROVE FirstLife'
  <2>0. FirstLife
    BY <1>8
  <2>1. IdsInv'
    <3>1. \A x, y \in Unsent' \cup Waiting' : x.id = y.id /\ x.id # 0 => x = y
      BY <2>0 DEF FirstLife, IdsInv
    <3>2. \A x \in Unsent' \cup Waiting' \cup Flying' : x.kind = "pub0" <=> x.id = 0
      BY <2>0 DEF FirstLife, IdsInv
    <3> QED
      BY <3>1, <3>2 DEF IdsInv
  <2>2. FreshInv'
    <3> SUFFICES ASSUME NEW y \in Flying', NEW x \in Flying' \cup Unsent', y.n < x.n, y.id = x.id,
                        x.n \in DOMAIN admitted
                 PROVE  ~admitted[x.n].fresh
      BY DEF FreshInv
    <3>1. y \in Flying \cup Unsent /\ x \in Flying \cup Unsent
      OBVIOUS
    <3>2. CASE y \in Flying
      BY <2>0, <3>1, <3>2 DEF FirstLife, FreshInv
    <3>3. CASE y \notin Flying
      <4>1. y.kind = "pub1" /\ y \in Unsent
        BY <3>1, <3>3
      <4>2. y.id # 0
        BY <2>0, <4>1 DEF FirstLife, IdsInv
      <4>3. x \notin Unsent
        BY <2>0, <4>1, <4>2, Accepted DEF FirstLife, IdsInv, Calls, Numbers
      <4>4. x \in Flying /\ x.n < y.n
        BY <2>0, <3>1, <4>1, <4>3 DEF FirstLife, OrderInv
      <4>5. x.n \in Int /\ y.n \in Int
        BY <4>1, <4>4, Accepted DEF Calls, Numbers
      <4> QED
        BY <4>4, <4>5
    <3> QED
      BY <3>2, <3>3
  <2>3. AnswersInv'
    <3> SUFFICES ASSUME NEW r \in Waiting', r.kind = "pub1" PROVE r \in Flying' \/ r.n \in broker'.reached
      BY DEF AnswersInv
    <3>1. CASE r \in Waiting
      <4>1. r \in Flying \/ r.n \in broker.reached
        BY <2>0, <3>1 DEF FirstLife, AnswersInv
      <4> QED
        BY <1>8, <4>1
    <3>2. CASE r \notin Waiting
      BY <1>8, <3>2
    <3> QED
      BY <3>1, <3>2
  <2>4. YoungInv'
    BY <1>8, <2>0 DEF FirstLife, YoungInv, Hears
  <2>5. OvertakenInv'
    <3> SUFFICES ASSUME NEW n \in Publishes \cap broker'.reached, NEW k \in Publishes, k < n
                 PROVE  k \in broker'.reached \/ "failure" \in Heard(k)'
      BY <1>1 DEF OvertakenInv
    <3>1. k \in broker'.reached \/ "failure" \in Heard(k)
      <4>1. CASE n \in broker.reached
        BY <2>0, <4>1 DEF FirstLife, OvertakenInv
      <4>2. CASE n \notin broker.reached
        BY <1>8, <4>2
      <4> QED
        BY <4>1, <4>2
    <3>2. k \in Numbers
      BY <1>1, <1>2
    <3> QED
      BY <1>4, <3>1, <3>2
  <2>6. FlightInv'
    <3> SUFFICES ASSUME NEW y \in Flying', admitted[y.n].fresh, "failure" \notin Heard(y.n)'
                 PROVE  y \in Waiting' /\ \A x \in Flying' : x.id = y.id => x = y
      BY DEF FlightInv
    <3>1. FlightMoves /\ IdsInv /\ FreshInv /\ FlightInv /\ OrderInv
      BY <1>8, <2>0 DEF FirstLife
    <3>2. y \in Known' /\ y.kind = "pub1" /\ y.n \in DOMAIN admitted /\ y.n \in Numbers
      BY <1>2, <1>3 DEF KnownInv, Known
    <3>3. y.id # 0
      BY <3>1, <3>2 DEF IdsInv
    <3>4. CASE y \in Flying
      <4>1. "failure" \notin Heard(y.n)
        BY <1>4, <3>2
      <4>2. y \in Waiting /\ \A x \in Flying : x.id = y.id => x = y
        BY <3>1, <3>4, <4>1 DEF FlightInv
      <4>3. y \in Waiting'
        BY <3>1, <4>2 DEF FlightMoves
      <4>4. ASSUME NEW x \in Flying' \ Flying, x.id = y.id PROVE x = y
        BY <3>1, <3>3, <4>2, <4>4 DEF IdsInv
      <4> QED
        BY <4>2, <4>3, <4>4
    <3>5. CASE y \notin Flying
      <4>1. y \in Unsent /\ y \in Waiting'
        BY <3>1, <3>5 DEF FlightMoves
      <4>2. ASSUME NEW x \in Flying, x.id = y.id PROVE FALSE
        <5>1. x.n < y.n
          BY <3>1, <4>1 DEF OrderInv
        <5> QED
          BY <3>1, <3>2, <4>1, <4>2, <5>1 DEF FreshInv
      <4>3. ASSUME NEW x \in Flying' \ Flying, x.id = y.id PROVE x = y
        BY <3>1, <3>3, <4>1, <4>3 DEF IdsInv
      <4> QED
        BY <4>1, <4>2, <4>3
    <3> QED
      BY <3>4, <3>5
  <2> QED
    BY <1>8, <2>1, <2>2, <2>3, <2>4, <2>5, <2>6 DEF FirstLife
<1> QED
  BY <1>3, <1>7, <1>8
-------------------------------------------------------------------------------
\* The socket, when nothing is sent or received on it.

\* A closed socket.
LEMMA LinedClosed ==
  ASSUME NEW n, Sound(n), Closed(n), NEW reached
  PROVE  Lined(n, reached) /\ LinkOK(n)
<1>1. n.in = <<>> /\ n.out = <<>> /\ n.cut = NoCommand /\ ~n.connected /\ NoCommand.kind \notin {"pub1", "sub"}
      /\ Len(n.outbound) \in Nat
  BY DEF Closed, NoCommand, Command, Sound, SocketOK
<1> DEFINE e == [j \in 1..0 |-> 1]
<1>2. InLine(n, reached, 0, e)
  BY <1>1 DEF InLine
<1>3. Rest(n, 0)
  BY <1>1 DEF Rest
<1>4. e \in [1..0 -> 1..(Len(n.in) + Len(n.out))] /\ 0 \in 0..Len(n.outbound)
  BY <1>1
<1> HIDE DEF e
<1>5. Lined(n, reached)
  BY <1>2, <1>3, <1>4 DEF Lined
<1>6. LinkOK(n)
  BY <1>1, SetOf DEF LinkOK, CallSet
<1> QED
  BY <1>5, <1>6

\* The same stream.
LEMMA LinedSame ==
  ASSUME NEW m, NEW n, NEW reached, NEW r, Lined(m, reached), reached \subseteq r,
         n.in = m.in, n.out = m.out, n.outbound = m.outbound,
         n.cut.kind = "pub1" => n.cut = m.cut,
         n.connected /\ n.peer \in {"open", "syn"} =>
           m.connected /\ m.peer \in {"open", "syn"} /\ (m.cut.kind = "pub1" => n.cut = m.cut)
  PROVE  Lined(n, r)
<1>1. PICK b \in 0..Len(m.outbound) : \E e \in [1..b -> 1..(Len(m.in) + Len(m.out))] :
        InLine(m, reached, b, e) /\ Rest(m, b)
  BY DEF Lined
<1>2. PICK e \in [1..b -> 1..(Len(m.in) + Len(m.out))] : InLine(m, reached, b, e) /\ Rest(m, b)
  BY <1>1
<1>3. InLine(n, r, b, e)
  <2>1. \A j \in 1..b : m.outbound[j].n \in reached => n.outbound[j].n \in r
    OBVIOUS
  <2>2. \A k : Tracked(n, k) <=> Tracked(m, k)
    BY DEF Tracked
  <2>3. \A j \in 1..b : IF e[j] <= Len(n.in) THEN n.in[e[j]].id = n.outbound[j].id /\ n.outbound[j].n \in r
                        ELSE n.out[e[j] - Len(n.in)] = n.outbound[j]
    BY <1>2, <2>1 DEF InLine
  <2> QED
    BY <1>2, <2>2, <2>3 DEF InLine
<1>4. Rest(n, b)
  BY <1>2 DEF Rest
<1> QED
  BY <1>2, <1>3, <1>4 DEF Lined

\* What was written and not received yet is lost: the stream ends with what was
\* received.
LEMMA LinedBroken ==
  ASSUME NEW m, Sound(m), NEW n, NEW reached, Lined(m, reached),
         n.in = m.in, n.out = <<>>, n.cut = m.cut, n.outbound = m.outbound,
         ~(n.connected /\ n.peer \in {"open", "syn"})
  PROVE  Lined(n, reached)
<1>1. PICK b \in 0..Len(m.outbound) : \E e \in [1..b -> 1..(Len(m.in) + Len(m.out))] :
        InLine(m, reached, b, e) /\ Rest(m, b)
  BY DEF Lined
<1>2. PICK e \in [1..b -> 1..(Len(m.in) + Len(m.out))] : InLine(m, reached, b, e) /\ Rest(m, b)
  BY <1>1
<1> DEFINE L == Len(m.in)
           K == Len(m.out)
           O == Len(m.outbound)
<1>3. L \in Nat /\ K \in Nat /\ O \in Nat /\ b \in Nat /\ b <= O /\ Len(n.out) = 0
      /\ Len(n.in) = L /\ Len(n.outbound) = O
  BY DEF Sound, SocketOK
<1>12. /\ e \in [1..b -> 1..(L + K)] /\ \A j, k \in 1..b : j < k => e[j] < e[k]
       /\ \A j \in 1..b : e[j] <= L => m.in[e[j]].id = m.outbound[j].id /\ m.outbound[j].n \in reached
       /\ \A k \in 1..(L + K) : Tracked(m, k) <=> \E j \in 1..b : e[j] = k
  BY <1>2 DEF InLine
<1>13. \A k : k <= L => (Tracked(m, k) <=> m.in[k].type = "PUBACK")
  BY DEF Tracked
<1> HIDE DEF L, K
<1>4. /\ e \in [1..b -> 1..(L + K)] /\ \A j, k \in 1..b : j < k => e[j] < e[k]
      /\ \A j \in 1..b : e[j] <= L => m.in[e[j]].id = m.outbound[j].id /\ m.outbound[j].n \in reached
      /\ \A k \in 1..L : m.in[k].type = "PUBACK" <=> \E j \in 1..b : e[j] = k
  <2>1. \A k \in 1..L : k \in 1..(L + K) /\ k <= L
    BY <1>3
  <2> QED
    BY <1>12, <1>13, <2>1
<1>5. PICK a \in 0..b : \A j \in 1..b : e[j] <= L <=> j <= a
  <2> DEFINE T == {j \in 1..b : e[j] > L}
  <2>1. CASE T = {}
    <3>1. \A j \in 1..b : e[j] <= L /\ j <= b
      BY <2>1, <1>3, <1>4
    <3> QED
      BY <3>1, <1>3
  <2>2. CASE T # {}
    <3>1. T \in SUBSET Nat
      BY <1>3
    <3>2. PICK t \in T : \A y \in T : t <= y
      BY <2>2, <3>1, LeastElement
    <3>3. t \in 1..b /\ e[t] > L /\ \A j \in 1..b : e[j] > L => t <= j
      BY <3>2
    <3> HIDE DEF T
    <3>4. t - 1 \in 0..b
      BY <1>3, <3>3
    <3>5. \A j \in 1..b : e[j] <= L <=> j <= t - 1
      <4> SUFFICES ASSUME NEW j \in 1..b PROVE e[j] <= L <=> j <= t - 1
        OBVIOUS
      <4>1. e[j] \in Int /\ e[t] \in Int /\ j \in Int /\ t \in Int /\ L \in Int
        BY <1>3, <1>4, <3>3
      <4>2. j < t => e[j] <= L
        BY <1>3, <3>3, <4>1
      <4>3. t < j => e[t] < e[j]
        BY <1>4, <3>3
      <4> QED
        BY <3>3, <4>1, <4>2, <4>3
    <3> QED
      BY <3>4, <3>5
  <2> QED
    BY <2>1, <2>2
<1> HIDE DEF O
<1> DEFINE f == [j \in 1..a |-> e[j]]
<1>6. a \in Nat /\ a <= b /\ \A j \in 1..a : j \in 1..b /\ e[j] <= L /\ f[j] = e[j]
  BY <1>3, <1>5
<1>7. f \in [1..a -> 1..(L + 0)]
  <2> SUFFICES ASSUME NEW j \in 1..a PROVE e[j] \in 1..(L + 0)
    OBVIOUS
  <2>1. e[j] \in 1..(L + K) /\ e[j] <= L
    BY <1>4, <1>6
  <2> QED
    BY <1>3, <2>1
<1>8. \A k \in 1..(L + 0) : k \in 1..L /\ k <= L
  BY <1>3
<1> HIDE DEF f
<1>9. InLine(n, reached, a, f)
  <2>1. a \in 0..Len(n.outbound) /\ f \in [1..a -> 1..(Len(n.in) + Len(n.out))]
    BY <1>3, <1>6, <1>7
  <2>2. \A j, k \in 1..a : j < k => f[j] < f[k]
    BY <1>4, <1>6
  <2>3. \A j \in 1..a : IF f[j] <= Len(n.in)
                        THEN n.in[f[j]].id = n.outbound[j].id /\ n.outbound[j].n \in reached
                        ELSE n.out[f[j] - Len(n.in)] = n.outbound[j]
    BY <1>3, <1>4, <1>6
  <2>4. ASSUME NEW k \in 1..(Len(n.in) + Len(n.out)) PROVE Tracked(n, k) <=> \E j \in 1..a : f[j] = k
    <3>1. k \in 1..L /\ k <= L
      BY <1>3, <1>8
    <3>2. Tracked(n, k) <=> m.in[k].type = "PUBACK"
      BY <1>3, <3>1 DEF Tracked
    <3>3. (\E j \in 1..b : e[j] = k) <=> \E j \in 1..a : f[j] = k
      <4>1. ASSUME NEW j \in 1..b, e[j] = k PROVE \E i \in 1..a : f[i] = k
        <5>1. j \in 1..a
          BY <1>3, <1>5, <1>6, <3>1, <4>1
        <5> QED
          BY <1>6, <4>1, <5>1
      <4>2. ASSUME NEW j \in 1..a, f[j] = k PROVE \E i \in 1..b : e[i] = k
        BY <1>6, <4>2
      <4> QED
        BY <4>1, <4>2
    <3> QED
      BY <1>4, <3>1, <3>2, <3>3
  <2> QED
    BY <2>1, <2>2, <2>3, <2>4 DEF InLine
<1>10. Rest(n, a)
  <2>1. m.cut.kind = "pub1" => b < O /\ m.cut = m.outbound[O]
    BY <1>2 DEF Rest, O
  <2>2. b < O => a < O
    BY <1>3, <1>6
  <2> QED
    BY <1>3, <2>1, <2>2 DEF Rest
<1>11. a \in 0..Len(n.outbound) /\ f \in [1..a -> 1..(Len(n.in) + Len(n.out))]
  BY <1>9 DEF InLine
<1> QED
  BY <1>9, <1>10, <1>11 DEF Lined

\* Something that is no message of QoS 1 is written.
LEMMA LinedOther ==
  ASSUME NEW m, Sound(m), NEW n, NEW reached, Lined(m, reached), NEW c \in Commands, c.kind # "pub1",
         n.in = m.in, n.out = Append(m.out, c), n.outbound = m.outbound,
         n.cut.kind = "pub1" => n.cut = m.cut,
         n.connected /\ n.peer \in {"open", "syn"} =>
           m.connected /\ m.peer \in {"open", "syn"} /\ (m.cut.kind = "pub1" => n.cut = m.cut)
  PROVE  Lined(n, reached)
<1>1. PICK b \in 0..Len(m.outbound) : \E e \in [1..b -> 1..(Len(m.in) + Len(m.out))] :
        InLine(m, reached, b, e) /\ Rest(m, b)
  BY DEF Lined
<1>2. PICK e \in [1..b -> 1..(Len(m.in) + Len(m.out))] : InLine(m, reached, b, e) /\ Rest(m, b)
  BY <1>1
<1> DEFINE L == Len(m.in)
           K == Len(m.out)
<1>3. L \in Nat /\ K \in Nat /\ Len(n.out) = K + 1 /\ Len(n.in) = L
      /\ n.out[K + 1] = c /\ \A i \in 1..K : n.out[i] = m.out[i]
  BY DEF Sound, SocketOK
<1>4. /\ e \in [1..b -> 1..(L + K)] /\ \A j, k \in 1..b : j < k => e[j] < e[k]
      /\ \A j \in 1..b : IF e[j] <= L THEN m.in[e[j]].id = m.outbound[j].id /\ m.outbound[j].n \in reached
                         ELSE m.out[e[j] - L] = m.outbound[j]
      /\ \A k \in 1..(L + K) : Tracked(m, k) <=> \E j \in 1..b : e[j] = k
  BY <1>2 DEF InLine
<1>13. \A k : Tracked(m, k) <=> IF k <= L THEN m.in[k].type = "PUBACK" ELSE m.out[k - L].kind = "pub1"
  BY DEF Tracked
<1>14. \A k : Tracked(n, k) <=> IF k <= L THEN m.in[k].type = "PUBACK" ELSE n.out[k - L].kind = "pub1"
  BY <1>3 DEF Tracked
<1> HIDE DEF L, K
<1>5. \A k \in 1..(L + K) : k <= L \/ k - L \in 1..K
  BY <1>3
<1>6. e \in [1..b -> 1..(L + (K + 1))]
  BY <1>3, <1>4
<1>7. ASSUME NEW k \in 1..(L + K) PROVE Tracked(n, k) <=> Tracked(m, k)
  <2>1. CASE k <= L
    BY <1>13, <1>14, <2>1
  <2>2. CASE ~(k <= L)
    <3>1. n.out[k - L] = m.out[k - L]
      BY <1>3, <1>5, <2>2
    <3> QED
      BY <1>13, <1>14, <2>2, <3>1
  <2> QED
    BY <2>1, <2>2
<1>8. ASSUME NEW k \in 1..(L + (K + 1)), k \notin 1..(L + K)
      PROVE  ~Tracked(n, k) /\ \A j \in 1..b : e[j] # k
  <2>1. ~(k <= L) /\ k - L = K + 1
    BY <1>3, <1>8
  <2> QED
    <3>1. n.out[k - L].kind # "pub1"
      BY <1>3, <2>1
    <3>2. ~Tracked(n, k)
      BY <1>14, <2>1, <3>1
    <3>3. \A j \in 1..b : e[j] \in 1..(L + K)
      BY <1>4
    <3> QED
      BY <1>8, <3>2, <3>3
<1>9. \A j \in 1..b : e[j] <= L \/ n.out[e[j] - L] = m.out[e[j] - L]
  BY <1>3, <1>4, <1>5
<1>10. InLine(n, reached, b, e)
  <2>1. b \in 0..Len(n.outbound) /\ e \in [1..b -> 1..(Len(n.in) + Len(n.out))]
    BY <1>3, <1>6
  <2>2. \A j \in 1..b : IF e[j] <= Len(n.in) THEN n.in[e[j]].id = n.outbound[j].id /\ n.outbound[j].n \in reached
                        ELSE n.out[e[j] - Len(n.in)] = n.outbound[j]
    BY <1>3, <1>4, <1>9
  <2>3. \A k \in 1..(Len(n.in) + Len(n.out)) : Tracked(n, k) <=> \E j \in 1..b : e[j] = k
    BY <1>3, <1>4, <1>7, <1>8
  <2> QED
    BY <1>4, <2>1, <2>2, <2>3 DEF InLine
<1>11. Rest(n, b)
  BY <1>2 DEF Rest
<1>12. e \in [1..b -> 1..(Len(n.in) + Len(n.out))]
  BY <1>10 DEF InLine
<1> QED
  BY <1>10, <1>11, <1>12 DEF Lined

\* The socket when it is closed, breaks, or takes a CONNECT.
LEMMA QuietSocket ==
  ASSUME TypesInv, LinkOK(am), SessionInv, Lined(am, broker.reached), Quiet(am, am'),
         UNCHANGED <<broker, calling>>, recv'.pack \in {recv.pack, NoAnswer}
  PROVE  /\ LinkOK(am)' /\ SessionInv' /\ Lined(am, broker.reached)'
         /\ CallSet(am'.out) \subseteq CallSet(am.out) /\ HeldSet(am'.cut) \subseteq HeldSet(am.cut)
         /\ SubsIn(am'.out, am'.in, recv'.pack) \subseteq SubsIn(am.out, am.in, recv.pack)
<1>1. Sound(am) /\ SameCalls(am, am') /\ Sound(am') /\ am'.outbound = am.outbound /\ am.out \in Seq(Commands)
      /\ am.in \in Seq(Answers)
  BY DEF TypesInv, Sound, Quiet, SameCalls, SocketOK
<1>2. NoAnswer.type = "none" /\ ~IsCall(NoCommand) /\ ~IsCall(ConnectTo(0)) /\ ConnectTo(0).kind = "connect"
      /\ ConnectTo(0) \in Commands
  BY ControlCommands DEF NoAnswer, ConnectTo, Command
<1>3. ToSet(<<>>) = {} /\ ToSet(Append(am.out, ConnectTo(0))) = ToSet(am.out) \cup {ConnectTo(0)}
  BY <1>1, SetOf, SetAppend
<1>4. am'.in \in {am.in, <<>>} /\ (am'.connected => am.connected)
      /\ am'.out \in {am.out, <<>>, Append(am.out, ConnectTo(0))} /\ am'.cut \in {am.cut, NoCommand}
  BY DEF Quiet, Closed, Narrow
<1>5. ToSet(am'.in) \subseteq ToSet(am.in) /\ ToSet(am'.out) \subseteq ToSet(am.out) \cup {ConnectTo(0)}
  BY <1>3, <1>4
<1>6. CallSet(am'.out) \subseteq CallSet(am.out) /\ HeldSet(am'.cut) \subseteq HeldSet(am.cut)
  BY <1>2, <1>4, <1>5 DEF CallSet, HeldSet
<1>7. SubsIn(am'.out, am'.in, recv'.pack) \subseteq SubsIn(am.out, am.in, recv.pack)
  <2> DEFINE A == {x \in ToSet(am.out) : x.kind = "sub"}
             B == {x \in ToSet(am.in) \cup {recv.pack} : x.type = "SUBACK"}
             C == {x \in ToSet(am'.out) : x.kind = "sub"}
             D == {x \in ToSet(am'.in) \cup {recv'.pack} : x.type = "SUBACK"}
  <2>1. C \subseteq A /\ D \subseteq B
    BY <1>2, <1>5
  <2>2. SubsIn(am.out, am.in, recv.pack) = {c.id : c \in A} \cup {p.id : p \in B}
        /\ SubsIn(am'.out, am'.in, recv'.pack) = {c.id : c \in C} \cup {p.id : p \in D}
    BY DEF SubsIn
  <2> HIDE DEF A, B, C, D
  <2> QED
    BY <2>1, <2>2
<1>8. SessionInv'
  <2>1. Before(recv'.pack, am'.in) => Before(recv.pack, am.in)
    BY <1>2, <1>5 DEF Before, OkConnack
  <2>2. Begins(recv'.pack, am'.in) => Begins(recv.pack, am.in)
    BY <1>2, <1>5 DEF Begins, NewSession, OkConnack
  <2>3. \A j \in DOMAIN am'.in : NewSession(am'.in[j]) =>
          ~OkConnack(recv'.pack) /\ \A i \in 1..(j - 1) : ~OkConnack(am'.in[i])
    <3>1. CASE am'.in = <<>>
      BY <3>1
    <3>2. CASE am'.in = am.in
      BY <1>2, <3>2 DEF SessionInv, OkConnack
    <3> QED
      BY <1>4, <3>1, <3>2
  <2>4. ~broker.session => ~Before(recv.pack, am.in)
    BY DEF SessionInv
  <2>5. ~broker.session \/ Begins(recv.pack, am.in) =>
          am.outbound = <<>> /\ ~am.connected /\ calling.kind # "sub"
    BY DEF SessionInv
  <2>6. ~broker'.session => ~Before(recv'.pack, am'.in)
    BY <2>1, <2>4
  <2>7. ~broker'.session \/ Begins(recv'.pack, am'.in) =>
          am'.outbound = <<>> /\ ~am'.connected /\ calling'.kind # "sub"
    BY <1>1, <1>4, <2>2, <2>5
  <2> QED
    BY <2>3, <2>6, <2>7 DEF SessionInv, Begins, Before
<1>9. CASE Closed(am')
  <2>1. Lined(am', broker'.reached) /\ LinkOK(am')
    BY <1>1, <1>9, LinedClosed
  <2> QED
    BY <1>6, <1>7, <1>8, <2>1
<1>10. CASE Narrow(am, am')
  <2>1. LinkOK(am')
    BY <1>5, <1>6, <1>10 DEF LinkOK, Narrow
  <2>2. Lined(am', broker.reached)
    <3>1. CASE am'.out = am.out
      <4>1. am'.connected /\ am'.peer \in {"open", "syn"} => am.connected /\ am.peer \in {"open", "syn"}
        BY <1>10 DEF Narrow
      <4>2. am'.in = am.in /\ am'.cut = am.cut
        BY <1>10 DEF Narrow
      <4> QED
        BY <1>1, <3>1, <4>1, <4>2, LinedSame
    <3>2. CASE am'.out # am.out /\ am'.out = <<>>
      <4>1. am'.in = am.in /\ am'.cut = am.cut /\ ~(am'.connected /\ am'.peer \in {"open", "syn"})
        BY <1>10, <3>2 DEF Narrow
      <4> QED
        BY <1>1, <3>2, <4>1, LinedBroken
    <3>3. CASE ~am.connected /\ am'.out = Append(am.out, ConnectTo(0))
      <4>1. am'.in = am.in /\ am'.cut = am.cut /\ ~am'.connected /\ ConnectTo(0).kind # "pub1"
        BY <1>2, <1>10, <3>3 DEF Narrow
      <4> QED
        BY <1>1, <1>2, <3>3, <4>1, LinedOther
    <3> QED
      BY <1>10, <3>1, <3>2, <3>3 DEF Narrow
  <2>3. Lined(am', broker'.reached)
    BY <2>2
  <2> QED
    BY <1>6, <1>7, <1>8, <2>1, <2>3
<1> QED
  BY <1>9, <1>10 DEF Quiet

\* The subscriptions on their way when calls only move.
LEMMA SubsStep ==
  ASSUME TypesInv, FirstLife, am'.msgID = am.msgID,
         Unsent' \cup Waiting' \subseteq Unsent \cup Waiting,
         SubsIn(am'.out, am'.in, recv'.pack)
           \subseteq SubsIn(am.out, am.in, recv.pack) \cup {c.id : c \in {x \in Unsent : x.kind = "sub"}}
  PROVE  SubsInv'
<1>1. ASSUME NEW i \in SubsIn(am'.out, am'.in, recv'.pack)
      PROVE  i # 0 /\ i <= am.msgID /\ \A x \in Unsent \cup Waiting : x.id = i => x.kind = "sub"
  <2>1. CASE i \in SubsIn(am.out, am.in, recv.pack)
    BY <2>1 DEF FirstLife, SubsInv
  <2>2. CASE i \notin SubsIn(am.out, am.in, recv.pack)
    <3>1. PICK c \in Unsent : c.kind = "sub" /\ c.id = i
      BY <2>2
    <3>2. i # 0
      BY <3>1 DEF FirstLife, IdsInv
    <3>3. i <= am.msgID
      BY <3>1 DEF FirstLife, SubsInv
    <3>4. \A x \in Unsent \cup Waiting : x.id = i => x = c
      BY <3>1, <3>2 DEF FirstLife, IdsInv
    <3> QED
      BY <3>1, <3>2, <3>3, <3>4
  <2> QED
    BY <2>1, <2>2
<1>2. \A x \in Unsent' \cup Waiting' : x.kind = "sub" => x.id <= am'.msgID
  BY DEF FirstLife, SubsInv
<1> QED
  BY <1>1, <1>2 DEF SubsInv

\* Nothing happens to the calls.
LEMMA QuietStep ==
  ASSUME DeliveryInv, Quiet(am, am'), UNCHANGED <<calling, admitted, lost, crashed, broker>>,
         HandInv', RecvInv', recv'.pack \in {recv.pack, NoAnswer},
         HeldSet(hand'.cmd) = HeldSet(hand.cmd), HandLink', Hears({}, "ok")
  PROVE  DeliveryInv'
<1>1. /\ LinkOK(am)' /\ SessionInv' /\ Lined(am, broker.reached)'
      /\ CallSet(am'.out) \subseteq CallSet(am.out) /\ HeldSet(am'.cut) \subseteq HeldSet(am.cut)
      /\ SubsIn(am'.out, am'.in, recv'.pack) \subseteq SubsIn(am.out, am.in, recv.pack)
  BY QuietSocket DEF DeliveryInv
<1>2. SameCalls(am, am')
  BY DEF Quiet
<1>3. Unsent' = Unsent /\ Waiting' = Waiting /\ Flying' = Flying /\ Known' \subseteq Known
  <2>1. CallSet(am'.commands) = CallSet(am.commands) /\ am'.responses = am.responses /\ am'.outbound = am.outbound
    BY <1>2 DEF SameCalls
  <2>2. Unsent' = Unsent
    BY <2>1 DEF Unsent
  <2>3. Waiting' = Waiting /\ Flying' = Flying
    BY <2>1 DEF Waiting, Flying
  <2> QED
    BY <1>1, <2>1, <2>2, <2>3 DEF Known
<1>4. TypesInv'
  <2>1. NoAnswer \in Answers /\ NoAnswer.type # "PUBACK"
    BY DEF NoAnswer, Answers
  <2>2. recv'.pack \in Answers /\ recv'.pack.type # "PUBACK"
    BY <2>1 DEF DeliveryInv, TypesInv
  <2>3. CallingInv' /\ crashed' \in BOOLEAN /\ DOMAIN broker' = {"session", "reached"} /\ broker'.session \in BOOLEAN
    BY DEF DeliveryInv, TypesInv, CallingInv
  <2>4. ClientOK(am') /\ SocketOK(am')
    BY <1>2 DEF SameCalls, Sound
  <2>5. ToldInv'
    BY DEF Hears
  <2> QED
    BY <2>2, <2>3, <2>4, <2>5 DEF TypesInv, ClientOK, SocketOK
<1>5. ASSUME ~crashed PROVE OrderInv' /\ SubsInv'
  <2>1. FirstLife
    BY <1>5 DEF DeliveryInv
  <2>2. SubsInv'
    BY <1>1, <1>2, <1>3, <2>1, SubsStep DEF DeliveryInv, SameCalls
  <2>3. OrderInv'
    <3>1. CallSet(am'.commands) = CallSet(am.commands) /\ Rising(am'.commands) /\ Rising(am'.outbound)
      BY <1>2, <2>1 DEF SameCalls, FirstLife, OrderInv
    <3> QED
      BY <1>3, <2>1, <3>1 DEF FirstLife, OrderInv, Rising
  <2> QED
    BY <2>2, <2>3
<1>6. broker'.reached = broker.reached /\ broker.reached \subseteq DOMAIN admitted
  BY DEF DeliveryInv, KnownInv
<1>7. KnownInv' /\ KeptInv' /\ (~crashed' => FirstLife')
  <2>1. TypesInv /\ KnownInv /\ KeptInv /\ (~crashed => FirstLife)
    BY DEF DeliveryInv
  <2>2. FlightMoves
    BY <1>3 DEF FlightMoves
  <2> QED
    BY <1>3, <1>5, <1>6, <2>1, <2>2, MoveStep
<1> QED
  BY <1>1, <1>4, <1>7 DEF DeliveryInv
-------------------------------------------------------------------------------
\* The steps in which nothing happens to the calls, when the session is kept.

\* A connect or disconnect is done with.
LEMMA QuietDone ==
  ASSUME HandInv, Done, ~IsCall(hand.cmd)
  PROVE  HandInv' /\ HandLink' /\ HeldSet(hand'.cmd) = HeldSet(hand.cmd)
<1>1. hand' = [cmd |-> NoCommand, at |-> "none"] /\ ~IsCall(NoCommand)
  BY ControlCommands DEF Done
<1> QED
  BY <1>1, HandEmpty DEF HandLink, HeldSet

\* The send thread holds no call while others work under the mutex.
LEMMA QuietUnlocked ==
  ASSUME HandInv, Unlocked, UNCHANGED hand
  PROVE  HandInv' /\ HandLink' /\ HeldSet(hand'.cmd) = HeldSet(hand.cmd)
<1>1. ~IsCall(hand.cmd) /\ hand.at # "cut"
  BY ControlCommands DEF HandInv, Unlocked
<1> QED
  BY <1>1 DEF HandInv, HandLink

\* Nobody is told when no call is dropped.
LEMMA QuietTold ==
  ASSUME ToldInv, Quiet(am, am'), told' = told \/ told' = Tell(Dropped(am, am'), "failure")
  PROVE  Hears({}, "ok")
<1>1. Dropped(am, am') = {}
  BY NoneDropped DEF Quiet, SameCalls
<1> QED
  BY <1>1, HearsNone

\* MQTTAsync_connect, disconnect and reconnect.
LEMMA TurnDelivers ==
  ASSUME DeliveryInv, Turn
  PROVE  DeliveryInv'
<1>1. UNCHANGED <<hand, recv, calling, admitted, told, lost, crashed, broker>>
  BY DEF Turn, AppAlone
<1>2. Sound(am)
  BY DEF DeliveryInv, TypesInv, Sound
<1>3. SameCalls(am, am') /\ SameSocket(am, am')
  <2> DEFINE on == [am EXCEPT !.shouldBeConnected = TRUE]
             off == [am EXCEPT !.shouldBeConnected = FALSE]
             again == [am EXCEPT !.retrying = TRUE]
  <2>1. SameCalls(am, on) /\ SameSocket(am, on) /\ SameCalls(am, off) /\ SameSocket(am, off)
        /\ SameCalls(am, again) /\ SameSocket(am, again)
    BY <1>2, OthersSame, Zenon
  <2>2. \/ am' = addCommand(on, ConnectTo(0)) \/ am' = off
        \/ \E kind \in {"close", "drain"} : am' = addCommand(off, Disconnect(kind))
        \/ am' = again
    BY DEF Turn
  <2> HIDE DEF on, off, again
  <2>3. Sound(on) /\ Sound(off)
    BY <2>1 DEF SameCalls
  <2>4. CASE am' = addCommand(on, ConnectTo(0))
    <3>1. SameCalls(on, am') /\ SameSocket(on, am')
      BY <2>3, <2>4, ControlSame, ControlCommands
    <3> QED
      BY <2>1, <3>1, SameTwice
  <2>5. CASE \E kind \in {"close", "drain"} : am' = addCommand(off, Disconnect(kind))
    <3>1. SameCalls(off, am') /\ SameSocket(off, am')
      BY <2>3, <2>5, ControlSame, ControlCommands
    <3> QED
      BY <2>1, <3>1, SameTwice
  <2> QED
    BY <2>1, <2>2, <2>4, <2>5
<1>4. Quiet(am, am')
  BY <1>3, SocketSame
<1>5. HandInv' /\ HandLink' /\ RecvInv' /\ recv'.pack = recv.pack /\ hand'.cmd = hand.cmd
  BY <1>1, <1>3 DEF DeliveryInv, TypesInv, HandInv, HandLink, RecvInv, SameSocket
<1>6. Hears({}, "ok")
  BY <1>1, <1>4, QuietTold DEF DeliveryInv, TypesInv
<1> QED
  BY <1>1, <1>4, <1>5, <1>6, QuietStep

\* A connect.
LEMMA DoConnectDelivers ==
  ASSUME DeliveryInv, DoConnect
  PROVE  DeliveryInv'
<1> DEFINE c == hand.cmd
           m == [am EXCEPT !.uri = c.n]
           syn == [m EXCEPT !.peer = "syn"]
           tcp == [m EXCEPT !.peer = "syn", !.state = "TCP_IN_PROGRESS"]
           open == [m EXCEPT !.peer = "open"]
<1>1. hand.at = "taken" /\ c.kind = "connect" /\ Done /\ UNCHANGED told /\ SendAlone
  BY DEF DoConnect
<1>2. HandInv /\ Sound(am) /\ ToldInv
  BY DEF DeliveryInv, TypesInv, Sound
<1>3. ~IsCall(c) /\ c.n \in Nat
  BY <1>1, <1>2 DEF HandInv, Commands, Calls, IsCall, NoCommand, Command, Numbers
<1>4. \/ am' = m
      \/ ~am.connected /\ (am' = tcp \/ am' = SendConnect(open) \/ am' = ConnectFailed(am, c))
  BY DEF DoConnect
<1>5. SameCalls(am, m) /\ SameSocket(am, m) /\ Sound(m)
  BY <1>2, <1>3, OthersSame, Zenon DEF SameCalls
<1> HIDE DEF m
<1>6. SameCalls(m, tcp) /\ tcp.in = m.in /\ tcp.cut = m.cut /\ tcp.connected = m.connected /\ tcp.out = m.out
  <2>1. SameCalls(m, syn) /\ syn.in = m.in /\ syn.cut = m.cut /\ syn.connected = m.connected /\ syn.out = m.out
    BY <1>5, OthersSame, Zenon
  <2>2. tcp = [syn EXCEPT !.state = "TCP_IN_PROGRESS"]
    BY <1>5 DEF Sound, ClientOK
  <2> HIDE DEF syn, tcp
  <2>3. SameCalls(syn, tcp) /\ tcp.in = syn.in /\ tcp.cut = syn.cut /\ tcp.connected = syn.connected /\ tcp.out = syn.out
    <3>1. Sound(syn)
      BY <2>1 DEF SameCalls
    <3> QED
      BY <2>2, <3>1, OthersSame, Zenon
  <2> QED
    BY <2>1, <2>3, SameTwice
<1>7. SameCalls(m, open) /\ open.in = m.in /\ open.cut = m.cut /\ open.connected = m.connected /\ open.out = m.out
      /\ Sound(open)
  <2>1. SameCalls(m, open) /\ open.in = m.in /\ open.cut = m.cut /\ open.connected = m.connected /\ open.out = m.out
    BY <1>5, OthersSame, Zenon
  <2> QED
    BY <2>1 DEF SameCalls
<1> HIDE DEF tcp, open
<1>8. Quiet(am, am')
  <2>1. CASE am' = m
    BY <1>5, <2>1, SocketSame
  <2>2. CASE ~am.connected /\ am' = tcp
    <3>1. SameCalls(am, am')
      BY <1>5, <1>6, <2>2, SameTwice
    <3> QED
      BY <1>5, <1>6, <2>2, <3>1 DEF Quiet, Narrow, SameSocket
  <2>3. CASE ~am.connected /\ am' = SendConnect(open)
    <3>1. /\ SameCalls(open, am') /\ am'.in = open.in /\ am'.cut = open.cut /\ am'.connected = open.connected
          /\ am'.out = open.out \/ am'.out = Append(open.out, ConnectTo(0))
      BY <1>7, <2>3, SendConnectSame
    <3>2. SameCalls(am, am')
      BY <1>5, <1>7, <3>1, SameTwice
    <3> QED
      BY <1>5, <1>7, <2>3, <3>1, <3>2 DEF Quiet, Narrow, SameSocket
  <2>4. CASE am' = ConnectFailed(am, c)
    BY <1>2, <1>3, <2>4, ConnectFailedSame, SocketSame
  <2> QED
    BY <1>4, <2>1, <2>2, <2>3, <2>4
<1>9. HandInv' /\ HandLink' /\ HeldSet(hand'.cmd) = HeldSet(hand.cmd)
  BY <1>1, <1>2, <1>3, QuietDone
<1>10. Hears({}, "ok")
  BY <1>1, <1>2, <1>8, QuietTold
<1>11. UNCHANGED <<calling, admitted, lost, crashed, broker>> /\ RecvInv' /\ recv'.pack = recv.pack
  BY <1>1 DEF SendAlone, DeliveryInv, TypesInv, RecvInv
<1> QED
  BY <1>8, <1>9, <1>10, <1>11, QuietStep

\* A disconnect.
LEMMA DoDisconnectDelivers ==
  ASSUME ~AsyncClean, DeliveryInv, DoDisconnect
  PROVE  DeliveryInv'
<1> DEFINE c == hand.cmd
           m == IF am.state # "NOT_IN_PROGRESS" THEN [am EXCEPT !.state = "DISCONNECTING"] ELSE am
           d == checkDisconnect(m, c)
           n == [d EXCEPT !.disconnect = c]
<1>1. hand.at = "taken" /\ IsDisconnect(c) /\ Done /\ SendAlone
  BY DEF DoDisconnect
<1>2. HandInv /\ Sound(am) /\ ToldInv /\ LinkOK(am)
  BY DEF DeliveryInv, TypesInv, Sound
<1>3. ~IsCall(c) /\ c \in Commands \cup {NoCommand}
  BY <1>1, <1>2 DEF HandInv, IsCall, IsDisconnect
<1>4. \/ am' = [am EXCEPT !.disconnect = c] /\ UNCHANGED told
      \/ am' = n /\ told' = Tell(Dropped(m, n), "failure")
      \/ am' = [m EXCEPT !.disconnect = c] /\ UNCHANGED told
  BY DEF DoDisconnect
<1>5. /\ SameCalls(am, m) /\ m.in = am.in /\ m.cut = am.cut /\ m.connected = am.connected /\ m.out = am.out
      /\ m.peer = am.peer /\ (am.connected => m.state = am.state)
  <2>1. CASE am.state = "NOT_IN_PROGRESS"
    <3>1. SameCalls(am, am)
      BY <1>2 DEF SameCalls
    <3> QED
      BY <2>1, <3>1
  <2>2. CASE am.state # "NOT_IN_PROGRESS"
    <3>1. m = [am EXCEPT !.state = "DISCONNECTING"] /\ ~am.connected
      BY <1>2, <2>2 DEF LinkOK
    <3>2. m.peer = am.peer
      BY <1>2, <3>1 DEF Sound, ClientOK
    <3> HIDE DEF m
    <3>3. SameCalls(am, m) /\ m.in = am.in /\ m.cut = am.cut /\ m.connected = am.connected /\ m.out = am.out
      BY <1>2, <3>1, OthersSame, Zenon
    <3> QED
      BY <3>1, <3>2, <3>3
  <2> QED
    BY <2>1, <2>2
<1> HIDE DEF m
<1>6. Quiet(am, am') /\ (told' = told \/ told' = Tell({}, "failure"))
  <2>1. CASE am' = [am EXCEPT !.disconnect = c] /\ UNCHANGED told
    <3>1. SameCalls(am, am') /\ SameSocket(am, am')
      BY <1>2, <1>3, <2>1, OthersSame, Zenon
    <3> QED
      BY <2>1, <3>1, SocketSame
  <2>2. CASE am' = [m EXCEPT !.disconnect = c] /\ UNCHANGED told
    <3>1. SameCalls(m, am') /\ SameSocket(m, am')
      <4>1. Sound(m)
        BY <1>5 DEF SameCalls
      <4> QED
        BY <1>3, <2>2, <4>1, OthersSame, Zenon
    <3>2. SameCalls(am, am')
      BY <1>5, <3>1, SameTwice
    <3> QED
      BY <1>5, <2>2, <3>1, <3>2 DEF Quiet, Narrow, SameSocket
  <2>3. CASE am' = n /\ told' = Tell(Dropped(m, n), "failure")
    <3>1. SameCalls(m, d) /\ Closed(d) /\ Sound(m)
      BY <1>5, EndSame DEF SameCalls
    <3> HIDE DEF d
    <3>2. SameCalls(d, n) /\ SameSocket(d, n)
      <4>1. Sound(d)
        BY <3>1 DEF SameCalls
      <4> QED
        BY <1>3, <4>1, OthersSame, Zenon
    <3> HIDE DEF n
    <3>3. SameCalls(m, n) /\ Closed(n)
      BY <3>1, <3>2, SameTwice
    <3>4. SameCalls(am, n)
      BY <1>5, <3>3, SameTwice
    <3>5. Dropped(m, n) = {}
      BY <3>3, NoneDropped DEF SameCalls
    <3> QED
      BY <2>3, <3>3, <3>4, <3>5 DEF Quiet
  <2> QED
    BY <1>4, <2>1, <2>2, <2>3
<1>7. HandInv' /\ HandLink' /\ HeldSet(hand'.cmd) = HeldSet(hand.cmd)
  BY <1>1, <1>2, <1>3, QuietDone
<1>8. Hears({}, "ok")
  BY <1>2, <1>6, HearsNone
<1>9. UNCHANGED <<calling, admitted, lost, crashed, broker>> /\ RecvInv' /\ recv'.pack = recv.pack
  BY <1>1 DEF SendAlone, DeliveryInv, TypesInv, RecvInv
<1> QED
  BY <1>6, <1>7, <1>8, <1>9, QuietStep

\* The send thread waits, and MQTTAsync_checkTimeouts.
LEMMA WaitDelivers ==
  ASSUME ~AsyncClean, DeliveryInv, Wait \/ CheckTimeouts
  PROVE  DeliveryInv'
<1>1. HandInv /\ Sound(am) /\ ToldInv
  BY DEF DeliveryInv, TypesInv, Sound
<1>2. UNCHANGED <<calling, admitted, lost, crashed, broker>> /\ RecvInv' /\ recv'.pack = recv.pack
  BY DEF Wait, CheckTimeouts, SendAlone, DeliveryInv, TypesInv, RecvInv
<1>3. hand.at \in {"none", "wait"} /\ hand.cmd = NoCommand /\ ~IsCall(NoCommand)
  BY <1>1, ControlCommands DEF Wait, CheckTimeouts, HandInv
<1>4. CASE Wait
  <2>1. hand'.cmd = hand.cmd /\ hand'.at = "wait" /\ DOMAIN hand' = DOMAIN hand /\ UNCHANGED <<am, told>>
    BY <1>1, <1>4 DEF Wait, HandInv
  <2>2. Quiet(am, am')
    BY <1>1, <2>1, OthersSame, Zenon
  <2>3. HandInv' /\ HandLink' /\ HeldSet(hand'.cmd) = HeldSet(hand.cmd)
    BY <1>1, <1>3, <2>1 DEF HandInv, HandLink
  <2>4. Hears({}, "ok")
    BY <1>1, <2>1, HearsNone
  <2> QED
    BY <1>2, <2>2, <2>3, <2>4, QuietStep
<1>5. CASE CheckTimeouts
  <2>1. Done /\ told' = Tell(Dropped(am, am'), "failure")
    BY <1>5 DEF CheckTimeouts
  <2>2. PICK m : /\ m = am \/ m = checkDisconnect(am, am.disconnect)
                 /\ am' = nextOrClose(m) \/ am' = m \/ am' = addCommand(m, ConnectTo(m.uri))
    BY <1>5 DEF CheckTimeouts
  <2>3. SameCalls(am, m) /\ Sound(m) /\ (SameSocket(am, m) \/ Closed(m))
    BY <1>1, <2>2, EndSame DEF SameCalls, SameSocket
  <2>4. Quiet(am, am')
    <3>1. CASE am' = nextOrClose(m)
      <4>1. SameCalls(m, am') /\ Closed(am')
        BY <2>3, <3>1, EndSame
      <4> QED
        BY <2>3, <4>1, SameTwice DEF Quiet
    <3>2. CASE am' = m
      BY <2>3, <3>2, SocketSame DEF Quiet
    <3>3. CASE am' = addCommand(m, ConnectTo(m.uri))
      <4>1. m.uri \in Nat
        BY <2>3 DEF Sound, ClientOK
      <4>2. SameCalls(m, am') /\ SameSocket(m, am')
        BY <2>3, <3>3, <4>1, ControlSame, ControlCommands
      <4>3. SameCalls(am, am') /\ (SameSocket(am, am') \/ Closed(am'))
        BY <2>3, <4>2, SameTwice
      <4> QED
        BY <4>3, SocketSame DEF Quiet
    <3> QED
      BY <2>2, <3>1, <3>2, <3>3
  <2>5. HandInv' /\ HandLink' /\ HeldSet(hand'.cmd) = HeldSet(hand.cmd)
    BY <1>1, <1>3, <2>1, QuietDone
  <2>6. Hears({}, "ok")
    BY <1>1, <2>1, <2>4, QuietTold
  <2> QED
    BY <1>2, <2>4, <2>5, <2>6, QuietStep
<1> QED
  BY <1>4, <1>5

\* A packet that was read is passed on or forgotten.
LEMMA QuietRecv ==
  ASSUME NEW rc, RecvInv, Result(NoAnswer, rc)
  PROVE  RecvInv' /\ recv'.pack \in {recv.pack, NoAnswer}
<1>1. DOMAIN recv' = DOMAIN recv /\ recv'.pack = NoAnswer
  BY DEF Result, RecvInv
<1> QED
  BY <1>1 DEF RecvInv, NoAnswer

\* The network connects or fails, and select finds it out.
LEMMA NetworkDelivers ==
  ASSUME DeliveryInv, TcpConnects \/ Breaks \/ RecvSelect
  PROVE  DeliveryInv'
<1>1. HandInv /\ Sound(am) /\ ToldInv /\ RecvInv /\ HandLink
  BY DEF DeliveryInv, TypesInv, Sound
<1>2. UNCHANGED <<calling, admitted, lost, crashed, broker, hand, told>> /\ RecvInv' /\ recv'.pack = recv.pack
  <2>1. UNCHANGED <<calling, admitted, lost, crashed, broker, hand, told>>
    BY DEF TcpConnects, Breaks, RecvSelect, Outside, RecvAlone
  <2>2. CASE RecvSelect
    <3>1. DOMAIN recv' = DOMAIN recv /\ recv'.pack = recv.pack /\ recv'.rc = recv.rc
      BY <1>1, <2>2 DEF RecvSelect, RecvInv
    <3> QED
      BY <1>1, <2>1, <3>1 DEF RecvInv
  <2>3. CASE TcpConnects \/ Breaks
    <3>1. recv' = recv
      BY <2>3 DEF TcpConnects, Breaks, Outside
    <3> QED
      BY <1>1, <2>1, <3>1 DEF RecvInv
  <2> QED
    BY <2>2, <2>3
<1>3. SameCalls(am, am') /\ am'.in = am.in /\ am'.cut = am.cut /\ am'.connected = am.connected
      /\ am'.state = am.state /\ (am'.out = am.out \/ am'.out = <<>>)
      /\ (am'.peer \in {"open", "syn"} => am.peer \in {"open", "syn"} /\ am'.out = am.out)
  <2>1. CASE TcpConnects
    <3>1. am.peer = "syn" /\ \E x : am' = [am EXCEPT !.peer = x]
      BY <2>1 DEF TcpConnects
    <3>2. PICK x : am' = [am EXCEPT !.peer = x]
      BY <3>1
    <3>3. SameCalls(am, am') /\ am'.in = am.in /\ am'.cut = am.cut /\ am'.connected = am.connected /\ am'.out = am.out
      BY <1>1, <3>2, OthersSame, Zenon
    <3>4. am'.state = am.state
      BY <1>1, <3>2 DEF Sound, ClientOK
    <3> QED
      BY <3>1, <3>3, <3>4
  <2>2. CASE Breaks
    <3>1. am' = [am EXCEPT !.peer = "gone", !.out = <<>>]
      BY <2>2 DEF Breaks
    <3>2. /\ DOMAIN am' = DOMAIN am /\ am'.in = am.in /\ am'.cut = am.cut /\ am'.connected = am.connected
          /\ am'.state = am.state /\ am'.peer = "gone" /\ am'.out = <<>>
          /\ am'.commands = am.commands /\ am'.responses = am.responses /\ am'.outbound = am.outbound
          /\ am'.msgID = am.msgID /\ am'.pending_write = am.pending_write /\ am'.uri = am.uri
          /\ am'.disconnect = am.disconnect
      BY <1>1, <3>1 DEF Sound, ClientOK
    <3>3. am.uri \in Nat /\ am.disconnect \in Commands \cup {NoCommand} /\ am.in \in Seq(Answers)
          /\ am.cut \in Calls \cup {NoCommand} /\ am.connected \in BOOLEAN /\ <<>> \in Seq(Commands)
      BY <1>1 DEF Sound, ClientOK, SocketOK
    <3>4. SameCalls(am, am')
      BY <1>1, <3>2, <3>3, FieldsSame
    <3> QED
      BY <3>2, <3>4
  <2>3. CASE RecvSelect
    <3>1. am' = am
      BY <2>3 DEF RecvSelect
    <3> QED
      BY <1>1, <3>1 DEF SameCalls
  <2> QED
    BY <2>1, <2>2, <2>3
<1>4. Quiet(am, am')
  BY <1>3 DEF Quiet, Narrow
<1>5. HandInv' /\ HandLink' /\ HeldSet(hand'.cmd) = HeldSet(hand.cmd)
  BY <1>1, <1>2, <1>3 DEF HandInv, HandLink
<1>6. Hears({}, "ok")
  BY <1>1, <1>2, <1>4, QuietTold
<1> QED
  BY <1>2, <1>4, <1>5, <1>6, QuietStep

\* MQTTAsync_connecting.
LEMMA ConnectingQuiet ==
  ASSUME ~AsyncClean, Sound(am), LinkOK(am), am.state = "TCP_IN_PROGRESS", Connecting
  PROVE  Quiet(am, am') /\ \E rc : Result(NoAnswer, rc)
<1> DEFINE open == [am EXCEPT !.peer = "open"]
<1>1. ~am.connected
  BY DEF LinkOK
<1>2. \/ am' = nextOrClose(am)
      \/ \E m \in {am, open} : am' = SendConnect(m)
  BY DEF Connecting
<1>3. \E rc : Result(NoAnswer, rc)
  BY DEF Connecting
<1>4. CASE am' = nextOrClose(am)
  <2>1. SameCalls(am, am') /\ Closed(am')
    BY <1>4, EndSame
  <2> QED
    BY <1>3, <2>1 DEF Quiet
<1>5. CASE \E m \in {am, open} : am' = SendConnect(m)
  <2>1. PICK m \in {am, open} : am' = SendConnect(m)
    BY <1>5
  <2>2. SameCalls(am, m) /\ m.in = am.in /\ m.cut = am.cut /\ m.connected = am.connected /\ m.out = am.out
    <3>1. SameCalls(am, open) /\ open.in = am.in /\ open.cut = am.cut /\ open.connected = am.connected /\ open.out = am.out
      BY OthersSame, Zenon
    <3> HIDE DEF open
    <3>2. SameCalls(am, am)
      BY DEF SameCalls
    <3> QED
      BY <2>1, <3>1, <3>2
  <2> HIDE DEF open
  <2>3. Sound(m)
    BY <2>2 DEF SameCalls
  <2>4. /\ SameCalls(m, am') /\ am'.in = m.in /\ am'.cut = m.cut /\ am'.connected = m.connected
        /\ am'.out = m.out \/ am'.out = Append(m.out, ConnectTo(0))
    BY <2>1, <2>3, SendConnectSame
  <2>5. SameCalls(am, am')
    BY <2>2, <2>4, SameTwice
  <2> QED
    BY <1>1, <1>3, <2>2, <2>4, <2>5 DEF Quiet, Narrow
<1> QED
  BY <1>2, <1>4, <1>5

\* MQTTAsync_cycle that reads no packet.
LEMMA IdleCycleDelivers ==
  ASSUME ~AsyncClean, DeliveryInv, RecvCycle, ~(am.state # "TCP_IN_PROGRESS" /\ Reading /\ am.in # <<>>)
  PROVE  DeliveryInv'
<1>1. HandInv /\ Sound(am) /\ ToldInv /\ RecvInv /\ LinkOK(am)
  BY DEF DeliveryInv, TypesInv, Sound
<1>2. UNCHANGED <<calling, admitted, lost, crashed, broker, hand>> /\ Unlocked
  BY DEF RecvCycle, RecvAlone
<1>4. /\ Quiet(am, am') /\ \E rc : Result(NoAnswer, rc)
      /\ told' = told \/ told' = Tell(Dropped(am, am'), "failure")
  <2>1. CASE am.peer = "none" /\ Result(NoAnswer, -1) /\ UNCHANGED <<am, told>>
    <3>1. Quiet(am, am')
      BY <1>1, <2>1, OthersSame, Zenon
    <3> QED
      BY <2>1, <3>1
  <2>2. CASE am.state = "TCP_IN_PROGRESS" /\ Connecting /\ told' = Tell(Dropped(am, am'), "failure")
    BY <1>1, <2>2, ConnectingQuiet
  <2>3. CASE am.peer # "none" /\ am.state # "TCP_IN_PROGRESS" /\ Reading
    <3>1. am.in = <<>>
      BY <2>3
    <3>2. /\ am' = nextOrClose(am) \/ am' = am
          /\ told' = told \/ told' = Tell(Dropped(am, am'), "failure")
          /\ \E rc : Result(NoAnswer, rc)
      BY <2>3, <3>1 DEF Reading
    <3>3. CASE am' = nextOrClose(am)
      <4>1. SameCalls(am, am') /\ Closed(am')
        BY <1>1, <3>3, EndSame
      <4> QED
        BY <3>2, <4>1 DEF Quiet
    <3>4. CASE am' = am
      <4>1. Quiet(am, am')
        BY <1>1, <3>4, OthersSame, Zenon
      <4> QED
        BY <3>2, <4>1
    <3> QED
      BY <3>2, <3>3, <3>4
  <2> QED
    BY <2>1, <2>2, <2>3 DEF RecvCycle
<1>5. HandInv' /\ HandLink' /\ HeldSet(hand'.cmd) = HeldSet(hand.cmd)
  BY <1>1, <1>2, QuietUnlocked
<1>6. Hears({}, "ok")
  BY <1>1, <1>4, QuietTold
<1>7. RecvInv' /\ recv'.pack \in {recv.pack, NoAnswer}
  BY <1>1, <1>4, QuietRecv
<1> QED
  BY <1>2, <1>4, <1>5, <1>6, <1>7, QuietStep

\* A packet that completes nothing.
LEMMA IdleDispatchDelivers ==
  ASSUME ~AsyncClean, DeliveryInv, RecvDispatch,
         am.peer = "none" \/ recv.rc = -1 \/ recv.pack.type # "SUBACK",
         am' \notin completeConnection(am, recv.pack) \/ am.peer = "none" \/ recv.rc = -1 \/ recv.pack.type # "CONNACK"
  PROVE  DeliveryInv'
<1>1. HandInv /\ Sound(am) /\ ToldInv /\ RecvInv /\ LinkOK(am)
  BY DEF DeliveryInv, TypesInv, Sound
<1>2. UNCHANGED <<calling, admitted, lost, crashed, broker, hand>> /\ Unlocked
      /\ recv' = [pc |-> "select", sock |-> 0, pack |-> NoAnswer, rc |-> 0]
  BY DEF RecvDispatch, RecvAlone
<1>3. am' \in {am, SocketFailed(am), nextOrClose(am)} /\ told' = Tell(Dropped(am, am'), "failure")
  <2>1. recv.rc = -1 => recv.pack.type # "SUBACK" /\ recv.pack.type # "CONNACK"
    BY <1>1 DEF RecvInv
  <2>2. told' = Tell(Dropped(am, am'), "failure")
    BY <2>1 DEF RecvDispatch
  <2>3. CASE am.peer = "none"
    BY <2>2, <2>3 DEF RecvDispatch
  <2>4. CASE am.peer # "none" /\ recv.rc = -1
    BY <2>1, <2>2, <2>4 DEF RecvDispatch
  <2>5. CASE am.peer # "none" /\ recv.rc # -1 /\ recv.pack.type = "CONNACK"
    BY <2>2, <2>5 DEF RecvDispatch
  <2>6. CASE am.peer # "none" /\ recv.rc # -1 /\ recv.pack.type # "CONNACK"
    BY <2>2, <2>6 DEF RecvDispatch
  <2> QED
    BY <2>3, <2>4, <2>5, <2>6
<1>4. Quiet(am, am')
  <2>1. CASE am' = am
    BY <1>1, <2>1, OthersSame, Zenon
  <2>2. CASE am' = SocketFailed(am)
    BY <1>1, <2>2, SocketFailedSame
  <2>3. CASE am' = nextOrClose(am)
    <3>1. SameCalls(am, am') /\ Closed(am')
      BY <1>1, <2>3, EndSame
    <3> QED
      BY <3>1 DEF Quiet
  <2> QED
    BY <1>3, <2>1, <2>2, <2>3
<1>5. HandInv' /\ HandLink' /\ HeldSet(hand'.cmd) = HeldSet(hand.cmd)
  BY <1>1, <1>2, QuietUnlocked
<1>6. Hears({}, "ok")
  BY <1>1, <1>3, <1>4, QuietTold
<1>7. RecvInv' /\ recv'.pack \in {recv.pack, NoAnswer}
  BY <1>2 DEF RecvInv
<1> QED
  BY <1>2, <1>4, <1>5, <1>6, <1>7, QuietStep
-------------------------------------------------------------------------------
\* The socket, when a message is written.

\* The line of messages with one more.
LEMMA InLineMore ==
  ASSUME NEW m, Sound(m), NEW n, Sound(n), NEW reached, NEW b \in 0..Len(m.outbound), NEW e, InLine(m, reached, b, e),
         NEW c, c.kind = "pub1", n.in = m.in, n.out = Append(m.out, c),
         Len(n.outbound) >= b + 1, n.outbound[b + 1] = c,
         \A j \in 1..b : n.outbound[j] = m.outbound[j]
  PROVE  b + 1 \in 0..Len(n.outbound)
         /\ \E f \in [1..(b + 1) -> 1..(Len(n.in) + Len(n.out))] : InLine(n, reached, b + 1, f)
<1> DEFINE L == Len(m.in)
           K == Len(m.out)
           N == L + (K + 1)
           f == [j \in 1..(b + 1) |-> IF j = b + 1 THEN N ELSE e[j]]
<1>1. L \in Nat /\ K \in Nat /\ Len(n.out) = K + 1 /\ Len(n.in) = L
      /\ n.out[K + 1] = c /\ \A i \in 1..K : n.out[i] = m.out[i]
  BY DEF Sound, SocketOK
<1>2. b \in Nat /\ b + 1 \in 0..Len(n.outbound)
  BY DEF Sound, SocketOK
<1>3. /\ e \in [1..b -> 1..(L + K)] /\ \A j, k \in 1..b : j < k => e[j] < e[k]
      /\ \A j \in 1..b : IF e[j] <= L THEN m.in[e[j]].id = m.outbound[j].id /\ m.outbound[j].n \in reached
                         ELSE m.out[e[j] - L] = m.outbound[j]
      /\ \A k \in 1..(L + K) : Tracked(m, k) <=> \E j \in 1..b : e[j] = k
  BY DEF InLine
<1>4. \A k : Tracked(m, k) <=> IF k <= L THEN m.in[k].type = "PUBACK" ELSE m.out[k - L].kind = "pub1"
  BY DEF Tracked
<1>5. \A k : Tracked(n, k) <=> IF k <= L THEN m.in[k].type = "PUBACK" ELSE n.out[k - L].kind = "pub1"
  BY <1>1 DEF Tracked
<1> HIDE DEF L, K
<1>6. /\ N \in 1..N /\ ~(N <= L) /\ N - L = K + 1 /\ N \notin 1..(L + K)
      /\ \A k \in 1..(L + K) : k < N /\ k \in 1..N /\ (k <= L \/ k - L \in 1..K)
      /\ \A k \in 1..N : k = N \/ k \in 1..(L + K)
  BY <1>1
<1>7. /\ \A j \in 1..b : j # b + 1 /\ j < b + 1 /\ j \in 1..(b + 1)
      /\ \A j \in 1..(b + 1) : j = b + 1 \/ j \in 1..b
      /\ b + 1 \in 1..(b + 1)
      /\ \A j \in 1..b : ~(b + 1 < j)
      /\ ~(b + 1 < b + 1)
  BY <1>2
<1> DEFINE B == b + 1
<1>8. f[B] = N /\ \A j \in 1..b : f[j] = e[j]
  BY <1>7
<1>9. f \in [1..B -> 1..N]
  <2> SUFFICES ASSUME NEW j \in 1..B PROVE f[j] \in 1..N
    BY DEF f
  <2> QED
    BY <1>3, <1>6, <1>7, <1>8
<1> HIDE DEF f, N, B
<1>10. InLine(n, reached, B, f)
  <2>1. B \in 0..Len(n.outbound) /\ f \in [1..B -> 1..(Len(n.in) + Len(n.out))]
    BY <1>1, <1>2, <1>9 DEF B, N
  <2>2. ASSUME NEW j \in 1..B, NEW k \in 1..B, j < k PROVE f[j] < f[k]
    <3>1. j \in 1..b
      BY <1>7, <2>2 DEF B
    <3>2. CASE k = B
      BY <1>3, <1>6, <1>8, <3>1, <3>2
    <3>3. CASE k \in 1..b
      BY <1>3, <1>8, <2>2, <3>1, <3>3
    <3> QED
      BY <1>7, <3>2, <3>3 DEF B
  <2>3. ASSUME NEW j \in 1..B
        PROVE  IF f[j] <= Len(n.in) THEN n.in[f[j]].id = n.outbound[j].id /\ n.outbound[j].n \in reached
               ELSE n.out[f[j] - Len(n.in)] = n.outbound[j]
    <3>1. CASE j = B
      BY <1>1, <1>6, <1>8, <3>1 DEF B
    <3>2. CASE j \in 1..b
      <4>1. e[j] \in 1..(L + K) /\ f[j] = e[j] /\ n.outbound[j] = m.outbound[j]
        BY <1>3, <1>8, <3>2
      <4>2. e[j] <= L \/ n.out[e[j] - L] = m.out[e[j] - L]
        BY <1>1, <1>6, <4>1
      <4> QED
        BY <1>1, <1>3, <3>2, <4>1, <4>2
    <3> QED
      BY <1>7, <3>1, <3>2 DEF B
  <2>4. ASSUME NEW k \in 1..N PROVE Tracked(n, k) <=> \E j \in 1..B : f[j] = k
    <3>1. CASE k = N
      <4>1. Tracked(n, k)
        BY <1>1, <1>5, <1>6, <3>1
      <4>2. B \in 1..B /\ f[B] = k
        BY <1>7, <1>8, <3>1 DEF B
      <4> QED
        BY <4>1, <4>2
    <3>2. CASE k \in 1..(L + K)
      <4>1. Tracked(n, k) <=> Tracked(m, k)
        BY <1>1, <1>4, <1>5, <1>6, <3>2
      <4>2. (\E j \in 1..b : e[j] = k) <=> \E j \in 1..B : f[j] = k
        <5>1. ASSUME NEW j \in 1..b, e[j] = k PROVE \E i \in 1..B : f[i] = k
          BY <1>7, <1>8, <5>1 DEF B
        <5>2. ASSUME NEW j \in 1..B, f[j] = k PROVE \E i \in 1..b : e[i] = k
          <6>1. j # B
            BY <1>6, <1>8, <3>2, <5>2
          <6> QED
            BY <1>7, <1>8, <5>2, <6>1 DEF B
        <5> QED
          BY <5>1, <5>2
      <4> QED
        BY <1>3, <3>2, <4>1, <4>2
    <3>3. k = N \/ k \in 1..(L + K)
      BY <1>1 DEF N
    <3> QED
      BY <3>1, <3>2, <3>3, Zenon
  <2>5. \A k \in 1..(Len(n.in) + Len(n.out)) : Tracked(n, k) <=> \E j \in 1..B : f[j] = k
    BY <1>1, <2>4 DEF N
  <2> QED
    BY <2>1, <2>2, <2>3, <2>5 DEF InLine
<1>11. f \in [1..(b + 1) -> 1..(Len(n.in) + Len(n.out))] /\ InLine(n, reached, b + 1, f)
  <2>1. InLine(n, reached, b + 1, f)
    BY <1>10 DEF B
  <2>2. f \in [1..(b + 1) -> 1..(Len(n.in) + Len(n.out))]
    BY <2>1 DEF InLine
  <2> QED
    BY <2>1, <2>2
<1> QED
  BY <1>2, <1>11

\* A message of QoS 1 is written when all before it are.
LEMMA LinedPublish ==
  ASSUME NEW m, Sound(m), NEW n, Sound(n), NEW reached, Lined(m, reached), NEW c, c.kind = "pub1",
         n.in = m.in, n.out = Append(m.out, c),
         Len(n.outbound) = Len(m.outbound) + 1, n.outbound[Len(m.outbound) + 1] = c,
         \A j \in 1..Len(m.outbound) : n.outbound[j] = m.outbound[j],
         m.cut.kind # "pub1", n.cut = m.cut, m.connected, m.peer \in {"open", "syn"}
  PROVE  Lined(n, reached)
<1>1. PICK b \in 0..Len(m.outbound) : \E e \in [1..b -> 1..(Len(m.in) + Len(m.out))] :
        InLine(m, reached, b, e) /\ Rest(m, b)
  BY DEF Lined
<1>2. PICK e \in [1..b -> 1..(Len(m.in) + Len(m.out))] : InLine(m, reached, b, e) /\ Rest(m, b)
  BY <1>1
<1>3. b = Len(m.outbound)
  BY <1>2 DEF Rest
<1>4. Len(n.outbound) = b + 1 /\ n.outbound[b + 1] = c /\ \A j \in 1..b : n.outbound[j] = m.outbound[j]
  BY <1>3
<1>5. Len(n.outbound) >= b + 1
  BY <1>4 DEF Sound, SocketOK
<1>6. b + 1 \in 0..Len(n.outbound)
      /\ \E f \in [1..(b + 1) -> 1..(Len(n.in) + Len(n.out))] : InLine(n, reached, b + 1, f)
  BY <1>2, <1>4, <1>5, InLineMore
<1>7. Rest(n, b + 1)
  BY <1>4 DEF Rest
<1> QED
  BY <1>6, <1>7 DEF Lined

\* The message whose write was cut short is the last one, and now written.
LEMMA LinedCompleted ==
  ASSUME NEW m, Sound(m), NEW n, Sound(n), NEW reached, Lined(m, reached), m.cut.kind = "pub1",
         n.in = m.in, n.out = Append(m.out, m.cut), n.outbound = m.outbound, n.cut = NoCommand,
         m.connected, m.peer \in {"open", "syn"}
  PROVE  Lined(n, reached)
<1>1. PICK b \in 0..Len(m.outbound) : \E e \in [1..b -> 1..(Len(m.in) + Len(m.out))] :
        InLine(m, reached, b, e) /\ Rest(m, b)
  BY DEF Lined
<1>2. PICK e \in [1..b -> 1..(Len(m.in) + Len(m.out))] : InLine(m, reached, b, e) /\ Rest(m, b)
  BY <1>1
<1>3. Len(m.outbound) = b + 1 /\ m.cut = m.outbound[b + 1]
  BY <1>2 DEF Rest
<1>5. Len(n.outbound) >= b + 1 /\ n.outbound[b + 1] = m.cut /\ \A j \in 1..b : n.outbound[j] = m.outbound[j]
  BY <1>3 DEF Sound, SocketOK
<1>6. b + 1 \in 0..Len(n.outbound)
      /\ \E f \in [1..(b + 1) -> 1..(Len(n.in) + Len(n.out))] : InLine(n, reached, b + 1, f)
  BY <1>2, <1>5, InLineMore
<1>7. Rest(n, b + 1)
  BY <1>3 DEF Rest, NoCommand, Command
<1> QED
  BY <1>6, <1>7 DEF Lined

\* A message of QoS 1 is in flight, but not written, or not wholly.
LEMMA LinedKept ==
  ASSUME NEW m, Sound(m), NEW n, Sound(n), NEW reached, Lined(m, reached), NEW c, c.kind = "pub1",
         n.in = m.in, n.out = m.out, n.outbound = Append(m.outbound, c), n.connected = m.connected, n.peer = m.peer,
         m.cut.kind # "pub1", n.cut = c \/ (n.cut = m.cut /\ ~(m.connected /\ m.peer \in {"open", "syn"}))
  PROVE  Lined(n, reached)
<1>1. PICK b \in 0..Len(m.outbound) : \E e \in [1..b -> 1..(Len(m.in) + Len(m.out))] :
        InLine(m, reached, b, e) /\ Rest(m, b)
  BY DEF Lined
<1>2. PICK e \in [1..b -> 1..(Len(m.in) + Len(m.out))] : InLine(m, reached, b, e) /\ Rest(m, b)
  BY <1>1
<1> DEFINE O == Len(m.outbound)
<1>3. O \in Nat /\ b \in Nat /\ b <= O /\ Len(n.outbound) = O + 1 /\ n.outbound[O + 1] = c
      /\ \A j \in 1..O : n.outbound[j] = m.outbound[j]
  BY DEF Sound, SocketOK
<1>4. \A j \in 1..b : n.outbound[j] = m.outbound[j]
  BY <1>3
<1>5. InLine(n, reached, b, e)
  <2>1. b \in 0..Len(n.outbound) /\ b <= O + 1
    BY <1>3
  <2>2. \A k : Tracked(n, k) <=> Tracked(m, k)
    BY DEF Tracked
  <2>3. \A j \in 1..b : IF e[j] <= Len(n.in) THEN n.in[e[j]].id = n.outbound[j].id /\ n.outbound[j].n \in reached
                        ELSE n.out[e[j] - Len(n.in)] = n.outbound[j]
    BY <1>2, <1>4 DEF InLine
  <2> QED
    BY <1>2, <2>1, <2>2, <2>3 DEF InLine
<1>6. Rest(n, b)
  <2>1. m.connected /\ m.peer \in {"open", "syn"} => O = b
    BY <1>2 DEF Rest
  <2>2. b < O + 1
    BY <1>3
  <2> HIDE DEF O
  <2> QED
    BY <1>3, <2>1, <2>2 DEF Rest
<1>7. b \in 0..Len(n.outbound) /\ e \in [1..b -> 1..(Len(n.in) + Len(n.out))]
  BY <1>5 DEF InLine
<1> QED
  BY <1>5, <1>6, <1>7 DEF Lined
-------------------------------------------------------------------------------
\* The steps of the send thread that move a call.

\* The types of the rest, while the send thread works.
LEMMA SendTypes ==
  ASSUME TypesInv, SendAlone, Sound(am'), HandInv', ToldInv'
  PROVE  /\ TypesInv' /\ UNCHANGED <<calling, admitted, lost, crashed, broker>> /\ recv'.pack = recv.pack
<1>1. UNCHANGED <<calling, admitted, lost, crashed, broker, recv>>
  BY DEF SendAlone
<1>2. RecvInv' /\ CallingInv' /\ recv'.pack \in Answers /\ recv'.pack.type # "PUBACK"
      /\ crashed' \in BOOLEAN /\ DOMAIN broker' = {"session", "reached"} /\ broker'.session \in BOOLEAN
  BY <1>1 DEF TypesInv, RecvInv, CallingInv
<1>3. ClientOK(am)' /\ SocketOK(am)'
  BY DEF Sound
<1> QED
  BY <1>1, <1>2, <1>3 DEF TypesInv

\* While there is a connection, the broker has the session, and no CONNACK that
\* begins one is on its way.
LEMMA SessionKept ==
  ASSUME SessionInv, UNCHANGED broker, am'.in = am.in, recv'.pack = recv.pack, am.connected
  PROVE  SessionInv'
<1>1. broker.session /\ ~Begins(recv.pack, am.in)
  BY DEF SessionInv
<1>2. broker'.session /\ ~Begins(recv'.pack, am'.in)
  BY <1>1
<1> QED
  BY <1>2 DEF SessionInv, Begins, Before

\* The first command is detached.
LEMMA TakeDelivers ==
  ASSUME DeliveryInv, Take
  PROVE  DeliveryInv'
<1> DEFINE c == am.commands[1]
<1>1. /\ hand.at = "none" /\ am.commands # <<>> /\ Eligible(c) /\ hand' = [cmd |-> c, at |-> "taken"]
      /\ am' = [am EXCEPT !.commands = Tail(@)] /\ UNCHANGED told /\ SendAlone
  BY DEF Take
<1>2. TypesInv /\ HandInv /\ Sound(am) /\ ToldInv /\ LinkOK(am) /\ SessionInv /\ Lined(am, broker.reached) /\ KnownInv
      /\ KeptInv /\ (~crashed => FirstLife)
  BY DEF DeliveryInv, TypesInv, Sound
<1>3. am.commands \in Seq(Commands)
  BY <1>2 DEF Sound, ClientOK
<1>4. /\ CallSet(am.commands) = HeldSet(c) \cup CallSet(Tail(am.commands))
      /\ Rising(am.commands) => /\ Rising(Tail(am.commands))
                                /\ \A x \in HeldSet(c), y \in CallSet(Tail(am.commands)) : x.n < y.n
  BY <1>1, <1>3, RisingTail
<1>5. c \in Commands /\ Tail(am.commands) \in Seq(Commands)
  BY <1>1, <1>3
<1>6. /\ DOMAIN am' = DOMAIN am /\ am'.commands = Tail(am.commands)
      /\ am'.responses = am.responses /\ am'.outbound = am.outbound /\ am'.msgID = am.msgID
      /\ am'.pending_write = am.pending_write /\ am'.uri = am.uri /\ am'.disconnect = am.disconnect
      /\ am'.in = am.in /\ am'.out = am.out /\ am'.cut = am.cut /\ am'.connected = am.connected
      /\ am'.peer = am.peer /\ am'.state = am.state
  BY <1>1, <1>2 DEF Sound, ClientOK
<1>7. Sound(am')
  BY <1>2, <1>5, <1>6 DEF Sound, ClientOK, SocketOK
<1>8. hand'.cmd = c /\ hand'.at = "taken" /\ HandInv'
  BY <1>1, <1>5, ControlCommands DEF HandInv
<1>9. Hears({}, "ok") /\ ToldInv'
  BY <1>1, <1>2, HearsNone DEF ToldInv
<1>10. TypesInv' /\ UNCHANGED <<calling, admitted, lost, crashed, broker>> /\ recv'.pack = recv.pack
  BY <1>1, <1>2, <1>7, <1>8, <1>9, SendTypes
<1>11. HandLink'
  <2>1. IsCall(c) => am.connected /\ am.cut = NoCommand
    BY <1>1 DEF Eligible, IsCall, IsDisconnect
  <2> QED
    BY <1>6, <1>8, <2>1 DEF HandLink
<1>12. LinkOK(am')
  BY <1>2, <1>6 DEF LinkOK
<1>13. SessionInv'
  BY <1>2, <1>6, <1>10 DEF SessionInv, Begins, Before
<1>14. Lined(am', broker.reached)
  BY <1>2, <1>6, LinedSame
<1> HIDE DEF c
<1>15. HeldSet(hand.cmd) = {}
  BY <1>1, <1>2, ControlCommands DEF HandInv, HeldSet
<1>16. Unsent' = Unsent /\ Waiting' = Waiting /\ Flying' = Flying /\ Known' = Known
  BY <1>4, <1>6, <1>8, <1>10, <1>15 DEF Unsent, Waiting, Flying, Known
<1>17. ASSUME ~crashed PROVE OrderInv' /\ SubsInv'
  <2>1. FirstLife
    BY <1>2, <1>17
  <2>2. SubsInv'
    BY <1>2, <1>6, <1>10, <1>16, <2>1, SubsStep
  <2>3. OrderInv'
    <3>1. Rising(am'.commands) /\ Rising(am'.outbound)
      BY <1>4, <1>6, <2>1 DEF FirstLife, OrderInv
    <3>2. \A h \in HeldSet(hand'.cmd) : \A x \in CallSet(am'.commands) : h.n < x.n
      BY <1>4, <1>6, <1>8, <2>1 DEF FirstLife, OrderInv
    <3> QED
      BY <1>16, <2>1, <3>1, <3>2 DEF FirstLife, OrderInv, Rising
  <2> QED
    BY <2>2, <2>3
<1>18. broker'.reached = broker.reached /\ broker.reached \subseteq DOMAIN admitted
  BY <1>2, <1>10 DEF KnownInv
<1>19. KnownInv' /\ KeptInv' /\ (~crashed' => FirstLife')
  <2>1. FlightMoves
    BY <1>16 DEF FlightMoves
  <2> QED
    BY <1>2, <1>6, <1>9, <1>10, <1>16, <1>17, <1>18, <2>1, MoveStep
<1>20. Lined(am', broker'.reached)
  BY <1>10, <1>14
<1> QED
  BY <1>10, <1>11, <1>12, <1>13, <1>19, <1>20 DEF DeliveryInv

\* The call in the send thread's hand is written, wholly, in part or not at all.
CallMoves(c) ==
  /\ Sound(am') /\ CallSet(am'.commands) = CallSet(am.commands)
  /\ Rising(am.commands) => Rising(am'.commands)
  /\ am'.outbound = IF c.kind = "pub1" THEN Append(am.outbound, c) ELSE am.outbound
  /\ am'.responses \in {am.responses, Append(am.responses, c)}
  /\ am'.in = am.in /\ am'.connected = am.connected /\ am'.state = am.state /\ am'.peer = am.peer
  /\ am'.msgID = am.msgID
  /\ \/ am.cut = NoCommand /\ am'.cut = c /\ am'.out = am.out /\ c.kind # "sub"
     \/ /\ am.cut = NoCommand /\ am'.cut = NoCommand /\ am'.out = Append(am.out, c)
        /\ am.peer \in {"open", "syn"}
     \/ /\ am'.cut = am.cut /\ am'.out = am.out
        /\ c.kind = "pub1" => am.peer \notin {"open", "syn"} /\ am.cut = NoCommand

\* What becomes of the socket.
LEMMA CallSocket ==
  ASSUME TypesInv, LinkOK(am), Lined(am, broker.reached), NEW c \in Calls, am.connected, CallMoves(c)
  PROVE  /\ LinkOK(am') /\ Lined(am', broker.reached)
         /\ CallSet(am'.out) \subseteq CallSet(am.out) \cup {c} /\ HeldSet(am'.cut) \subseteq HeldSet(am.cut) \cup {c}
         /\ ToSet(am'.out) \subseteq ToSet(am.out) \cup {c}
<1>1. Sound(am) /\ Sound(am') /\ NoCommand.kind # "pub1" /\ c \in Commands /\ am.out \in Seq(Commands)
  BY DEF TypesInv, Sound, CallMoves, NoCommand, Command, Commands, SocketOK
<1>2. ToSet(am'.out) \subseteq ToSet(am.out) \cup {c}
  <2>1. ToSet(Append(am.out, c)) = ToSet(am.out) \cup {c}
    BY <1>1, SetAppend
  <2>2. am'.out = am.out \/ am'.out = Append(am.out, c)
    BY DEF CallMoves
  <2> QED
    BY <2>1, <2>2
<1>3. CallSet(am'.out) \subseteq CallSet(am.out) \cup {c}
  BY <1>2 DEF CallSet
<1>4. HeldSet(am'.cut) \subseteq HeldSet(am.cut) \cup {c}
  <2>1. am'.cut \in {am.cut, c}
    BY DEF CallMoves
  <2> QED
    BY <2>1 DEF HeldSet
<1>5. LinkOK(am')
  BY DEF LinkOK, CallMoves
<1>6. am'.in = am.in /\ am'.connected = am.connected /\ am'.peer = am.peer
  BY DEF CallMoves
<1>7. Lined(am', broker.reached)
  <2>1. CASE c.kind # "pub1"
    <3>1. am'.outbound = am.outbound
      BY <2>1 DEF CallMoves
    <3>2. CASE am'.out = am.out /\ am'.cut = am.cut
      BY <1>6, <3>1, <3>2, LinedSame
    <3>3. CASE am'.out = am.out /\ am.cut = NoCommand /\ am'.cut = c
      BY <1>1, <1>6, <2>1, <3>1, <3>3, LinedSame
    <3>4. CASE am'.out = Append(am.out, c) /\ am.cut = NoCommand /\ am'.cut = NoCommand
      BY <1>1, <1>6, <2>1, <3>1, <3>4, LinedOther
    <3> QED
      BY <3>2, <3>3, <3>4 DEF CallMoves
  <2>2. CASE c.kind = "pub1"
    <3>1. am'.outbound = Append(am.outbound, c)
      BY <2>2 DEF CallMoves
    <3>2. /\ Len(am'.outbound) = Len(am.outbound) + 1 /\ am'.outbound[Len(am.outbound) + 1] = c
          /\ \A j \in 1..Len(am.outbound) : am'.outbound[j] = am.outbound[j]
      BY <1>1, <3>1 DEF Sound, SocketOK
    <3>3. CASE am.cut = NoCommand /\ am'.cut = c /\ am'.out = am.out
      BY <1>1, <1>6, <2>2, <3>1, <3>3, LinedKept
    <3>4. CASE am.cut = NoCommand /\ am'.cut = NoCommand /\ am'.out = Append(am.out, c) /\ am.peer \in {"open", "syn"}
      BY <1>1, <1>6, <2>2, <3>2, <3>4, LinedPublish
    <3>5. CASE am'.cut = am.cut /\ am'.out = am.out /\ am.peer \notin {"open", "syn"} /\ am.cut = NoCommand
      BY <1>1, <1>6, <2>2, <3>1, <3>5, LinedKept
    <3> QED
      BY <2>2, <3>3, <3>4, <3>5 DEF CallMoves
  <2> QED
    BY <2>1, <2>2
<1> QED
  BY <1>2, <1>3, <1>4, <1>5, <1>7

\* The subscriptions on their way, when one call is written.
LEMMA SubsWritten ==
  ASSUME NEW out, NEW in, NEW pack, NEW more, NEW c, ToSet(more) \subseteq ToSet(out) \cup {c}
  PROVE  SubsIn(more, in, pack) \subseteq SubsIn(out, in, pack) \cup {x.id : x \in {y \in {c} : y.kind = "sub"}}
BY DEF SubsIn

\* What becomes of the calls.
LEMMA CallStep ==
  ASSUME DeliveryInv, IsCall(hand.cmd), SendAlone, CallMoves(hand.cmd), HandInv',
         \/ hand'.cmd = NoCommand
         \/ hand'.cmd = hand.cmd /\ hand'.at = "cut" /\ hand.cmd.kind = "pub0",
         NEW ns \in {{}, {hand.cmd.n}}, NEW outcome \in {"ok", "failure"}, Hears(ns, outcome),
         outcome = "ok" => ns = {} \/ hand.cmd.kind = "pub0",
         hand.cmd.kind = "pub1" =>
           am'.responses = Append(am.responses, hand.cmd) \/ (ns = {hand.cmd.n} /\ outcome = "failure")
  PROVE  DeliveryInv'
<1> DEFINE c == hand.cmd
<1>1. TypesInv /\ HandInv /\ Sound(am) /\ LinkOK(am) /\ SessionInv /\ Lined(am, broker.reached) /\ KnownInv
      /\ KeptInv /\ (~crashed => FirstLife) /\ am.connected
  BY DEF DeliveryInv, TypesInv, Sound, HandLink
<1>2. c \in Calls /\ HeldSet(c) = {c}
  BY <1>1, HandCounts DEF HeldSet
<1>3. TypesInv' /\ UNCHANGED <<calling, admitted, lost, crashed, broker>> /\ recv'.pack = recv.pack
  BY <1>1, SendTypes DEF CallMoves, Hears
<1>4. /\ LinkOK(am') /\ Lined(am', broker.reached)
      /\ CallSet(am'.out) \subseteq CallSet(am.out) \cup {c} /\ HeldSet(am'.cut) \subseteq HeldSet(am.cut) \cup {c}
      /\ ToSet(am'.out) \subseteq ToSet(am.out) \cup {c}
  BY <1>1, <1>2, CallSocket
<1>5. SessionInv'
  BY <1>1, <1>3, SessionKept DEF CallMoves
<1>6. HandLink'
  <2>1. am'.connected
    BY <1>1 DEF CallMoves
  <2>2. ~IsCall(NoCommand) /\ (hand'.at = "cut" => IsCall(hand'.cmd))
    BY ControlCommands DEF HandInv
  <2> QED
    BY <2>1, <2>2 DEF HandLink
<1>7. HeldSet(hand'.cmd) \subseteq {c} /\ (HeldSet(hand'.cmd) = {} \/ c.kind = "pub0")
  BY <1>2, ControlCommands DEF HeldSet
<1>8. Waiting' \subseteq Waiting \cup {c} /\ Flying' = Flying \cup {y \in {c} : y.kind = "pub1"}
  <2>1. ToSet(Append(am.responses, c)) = Waiting \cup {c} /\ ToSet(Append(am.outbound, c)) = Flying \cup {c}
    BY <1>1, SetAppend DEF Sound, ClientOK, SocketOK, Waiting, Flying
  <2>2. Waiting' \subseteq Waiting \cup {c}
    BY <2>1 DEF CallMoves, Waiting
  <2>3. Flying' = IF c.kind = "pub1" THEN Flying \cup {c} ELSE Flying
    BY <2>1 DEF CallMoves, Flying
  <2> QED
    BY <2>2, <2>3
<1>9. CallSet(am'.commands) = CallSet(am.commands)
  BY DEF CallMoves
<1>10. c \in Unsent /\ c \in Known /\ Unsent' \subseteq Unsent /\ Known' \subseteq Known
       /\ \A x \in Unsent : x \in Unsent' \/ x = c
  <2>1. c \in Unsent /\ c \in Known
    BY <1>2 DEF Unsent, Known
  <2>2. Unsent' = CallSet(am.commands) \cup HeldSet(hand'.cmd) \cup HeldSet(calling)
    BY <1>3, <1>9 DEF Unsent
  <2>3. Unsent = CallSet(am.commands) \cup {c} \cup HeldSet(calling)
    BY <1>2 DEF Unsent
  <2>4. Known' \subseteq Known
    BY <1>4, <1>7, <1>8, <1>9, <2>1 DEF Known
  <2> HIDE DEF c
  <2> QED
    BY <1>7, <2>1, <2>2, <2>3, <2>4
<1>11. c.n \in DOMAIN admitted /\ admitted[c.n].kind = c.kind
  BY <1>1, <1>10 DEF KnownInv
<1>12. am'.msgID = am.msgID /\ am'.in = am.in
  BY DEF CallMoves
<1>13. ASSUME ~crashed PROVE SubsInv'
  <2>1. SubsIn(am'.out, am'.in, recv'.pack)
          \subseteq SubsIn(am.out, am.in, recv.pack) \cup {x.id : x \in {y \in Unsent : y.kind = "sub"}}
    <3>1. SubsIn(am'.out, am.in, recv.pack)
            \subseteq SubsIn(am.out, am.in, recv.pack) \cup {x.id : x \in {y \in {c} : y.kind = "sub"}}
      BY <1>4, SubsWritten
    <3> QED
      BY <1>3, <1>10, <1>12, <3>1
  <2> QED
    BY <1>1, <1>8, <1>10, <1>12, <1>13, <2>1, SubsStep
<1>14. ASSUME ~crashed PROVE OrderInv'
  <2>1. OrderInv
    BY <1>1, <1>14 DEF FirstLife
  <2>2. Rising(am'.commands)
    BY <2>1 DEF OrderInv, CallMoves
  <2>3. Rising(am'.outbound)
    <3>1. CASE c.kind = "pub1"
      <4>1. am'.outbound = Append(am.outbound, c) /\ am.outbound \in Seq(Calls) /\ Calls \subseteq Commands
        BY <1>1, <3>1 DEF CallMoves, Sound, SocketOK, Commands
      <4>2. am.outbound \in Seq(Commands) /\ c \in Commands
        BY <1>2, <4>1, SeqMonotonic
      <4>3. \A x \in CallSet(am.outbound), y \in HeldSet(c) : x.n < y.n
        BY <1>2, <1>10, <2>1 DEF OrderInv, CallSet, Flying
      <4> QED
        BY <2>1, <4>1, <4>2, <4>3, RisingLists DEF OrderInv
    <3>2. CASE c.kind # "pub1"
      BY <2>1, <3>2 DEF OrderInv, CallMoves
    <3> QED
      BY <3>1, <3>2
  <2>4. ASSUME NEW y \in Flying', NEW x \in Unsent' PROVE y.n < x.n
    <3>1. CASE y \in Flying
      BY <1>10, <2>1, <3>1 DEF OrderInv
    <3>2. CASE y = c /\ c.kind = "pub1"
      <4>1. x \in CallSet(am.commands) \/ x \in HeldSet(calling)
        BY <1>3, <1>7, <1>9, <3>2 DEF Unsent
      <4>2. CASE x \in CallSet(am.commands)
        BY <1>2, <2>1, <3>2, <4>2 DEF OrderInv
      <4>3. CASE x \in HeldSet(calling)
        <5>1. x.n = Len(admitted) + 1 /\ DOMAIN admitted = 1..Len(admitted) /\ Len(admitted) \in Nat
          BY <1>1, <4>3, Accepted
        <5> QED
          BY <1>11, <3>2, <5>1
      <4> QED
        BY <4>1, <4>2, <4>3
    <3> QED
      BY <1>8, <3>1, <3>2
  <2>5. \A h \in HeldSet(hand'.cmd) : \A x \in CallSet(am'.commands) : h.n < x.n
    BY <1>2, <1>7, <1>9, <2>1 DEF OrderInv
  <2> QED
    BY <2>2, <2>3, <2>4, <2>5 DEF OrderInv
<1>16. \A x \in (Unsent \cup Flying) \ (Unsent' \cup Flying') : x.kind # "pub1"
  BY <1>8, <1>10
<1>17. \A r \in Waiting' \ Waiting : r.kind = "pub1" => r \in Flying'
  BY <1>8
<1>18. outcome = "ok" => \A k \in ns : k \in DOMAIN admitted /\ k \notin Publishes
  BY <1>11 DEF Publishes
<1>19. broker'.reached = broker.reached /\ broker.reached \subseteq DOMAIN admitted
  BY <1>1, <1>3 DEF KnownInv
<1>20. Waiting' \subseteq Waiting \cup Unsent /\ Flying' \subseteq Flying \cup Unsent /\ Flying \subseteq Flying'
       /\ \A x \in Flying' \ Flying : x.kind = "pub1"
  BY <1>8, <1>10
<1>21. ASSUME ~crashed PROVE FlightMoves
  <2>0. PICK d \in Calls : d = hand.cmd
    BY <1>2
  <2>1. Waiting \subseteq Waiting' /\ (am'.responses = Append(am.responses, d) => d \in Waiting')
    <3>1. ToSet(Append(am.responses, d)) = ToSet(am.responses) \cup {d}
      BY <1>1, SetAppend DEF Sound, ClientOK
    <3> QED
      BY <2>0, <3>1 DEF CallMoves, Waiting
  <2>2. ns = {d.n} /\ outcome = "failure" => "failure" \in Heard(d.n)'
    <3>1. d.n \in Numbers
      BY DEF Calls
    <3> QED
      BY <1>21, <3>1 DEF Hears
  <2>3. d.kind = "pub1" => d \in Waiting' \/ "failure" \in Heard(d.n)'
    BY <2>0, <2>1, <2>2
  <2>4. \A x \in Flying' \ Flying : x = d /\ d.kind = "pub1"
    BY <1>8, <2>0
  <2> QED
    BY <2>1, <2>3, <2>4 DEF FlightMoves
<1> HIDE DEF c
<1>22. KnownInv' /\ KeptInv' /\ (~crashed' => FirstLife')
  BY <1>1, <1>3, <1>10, <1>13, <1>14, <1>16, <1>17, <1>18, <1>19, <1>20, <1>21, MoveStep
<1>23. Lined(am', broker'.reached)
  BY <1>3, <1>4
<1> QED
  BY <1>3, <1>4, <1>5, <1>6, <1>22, <1>23 DEF DeliveryInv

\* The functions of a publish: its write, and where it is kept.
LEMMA KeepsFacts ==
  ASSUME NEW m, Sound(m), NEW c \in Calls
  PROVE  LET n == Keeps(m, c)
         IN /\ Sound(n) /\ DOMAIN n = DOMAIN m
            /\ n.outbound = IF c.kind = "pub1" THEN Append(m.outbound, c) ELSE m.outbound
            /\ n.commands = m.commands /\ n.responses = m.responses /\ n.msgID = m.msgID
            /\ n.pending_write = m.pending_write /\ n.in = m.in /\ n.out = m.out /\ n.cut = m.cut
            /\ n.connected = m.connected /\ n.state = m.state /\ n.peer = m.peer
<1> DEFINE n == Keeps(m, c)
<1>1. /\ DOMAIN n = DOMAIN m
      /\ n.outbound = IF c.kind = "pub1" THEN Append(m.outbound, c) ELSE m.outbound
      /\ n.commands = m.commands /\ n.responses = m.responses /\ n.msgID = m.msgID
      /\ n.pending_write = m.pending_write /\ n.in = m.in /\ n.out = m.out /\ n.cut = m.cut
      /\ n.connected = m.connected /\ n.state = m.state /\ n.peer = m.peer
      /\ n.uri = m.uri /\ n.disconnect = m.disconnect
  BY DEF Keeps, Sound, ClientOK
<1>2. Append(m.outbound, c) \in Seq(Calls) /\ m.outbound \in Seq(Calls)
  BY DEF Sound, SocketOK
<1> HIDE DEF n
<1>3. Sound(n)
  BY <1>1, <1>2 DEF Sound, ClientOK, SocketOK
<1> QED
  BY <1>1, <1>3 DEF n

\* Socket_putdatas.
LEMMA WritesOne ==
  ASSUME NEW m, Sound(m), NEW c \in Commands
  PROVE  LET n == Writes(m, <<c>>)
         IN /\ Sound(n) /\ n.outbound = m.outbound
            /\ n.commands = m.commands /\ n.responses = m.responses /\ n.msgID = m.msgID
            /\ n.pending_write = m.pending_write /\ n.in = m.in /\ n.cut = m.cut
            /\ n.connected = m.connected /\ n.state = m.state /\ n.peer = m.peer
            /\ n.out = IF m.peer \in {"open", "syn"} THEN Append(m.out, c) ELSE m.out
<1> DEFINE n == Writes(m, <<c>>)
<1>1. m.out \in Seq(Commands) /\ Append(m.out, c) \in Seq(Commands) /\ m.out \o <<c>> = Append(m.out, c)
  BY DEF Sound, SocketOK
<1>2. /\ DOMAIN n = DOMAIN m /\ n.outbound = m.outbound
      /\ n.commands = m.commands /\ n.responses = m.responses /\ n.msgID = m.msgID
      /\ n.pending_write = m.pending_write /\ n.in = m.in /\ n.cut = m.cut
      /\ n.connected = m.connected /\ n.state = m.state /\ n.peer = m.peer
      /\ n.out = IF m.peer \in {"open", "syn"} THEN m.out \o <<c>> ELSE m.out
      /\ n.uri = m.uri /\ n.disconnect = m.disconnect
  BY DEF Writes, Sound, ClientOK
<1> HIDE DEF n
<1>3. Sound(n)
  BY <1>1, <1>2 DEF Sound, ClientOK, SocketOK
<1> QED
  BY <1>1, <1>2, <1>3 DEF n

\* A write that is cut short.
LEMMA CutFields ==
  ASSUME NEW m, Sound(m), NEW c \in Calls, NEW n, n = [m EXCEPT !.cut = c]
  PROVE  /\ Sound(n) /\ n.outbound = m.outbound /\ n.commands = m.commands
         /\ n.responses = m.responses /\ n.msgID = m.msgID /\ n.pending_write = m.pending_write
         /\ n.in = m.in /\ n.out = m.out /\ n.cut = c
         /\ n.connected = m.connected /\ n.state = m.state /\ n.peer = m.peer
<1>1. c.n \in Nat /\ Append(m.responses, c) \in Seq(Calls)
  BY DEF Calls, Numbers, Sound, ClientOK
<1>2. /\ n.outbound = m.outbound /\ n.commands = m.commands /\ DOMAIN n = DOMAIN m
      /\ n.responses = m.responses /\ n.msgID = m.msgID /\ n.pending_write = m.pending_write
      /\ n.in = m.in /\ n.out = m.out /\ n.cut = c
      /\ n.connected = m.connected /\ n.state = m.state /\ n.peer = m.peer
      /\ n.uri = m.uri /\ n.disconnect = m.disconnect
  BY DEF Sound, ClientOK
<1>3. Sound(n)
  BY <1>1, <1>2 DEF Sound, ClientOK, SocketOK
<1> QED
  BY <1>2, <1>3

\* A call that waits for its answer.
LEMMA WaitingFields ==
  ASSUME NEW m, Sound(m), NEW c \in Calls, NEW n, n = [m EXCEPT !.responses = Append(@, c)]
  PROVE  /\ Sound(n) /\ n.outbound = m.outbound /\ n.commands = m.commands
         /\ n.responses = Append(m.responses, c) /\ n.msgID = m.msgID /\ n.pending_write = m.pending_write
         /\ n.in = m.in /\ n.out = m.out /\ n.cut = m.cut
         /\ n.connected = m.connected /\ n.state = m.state /\ n.peer = m.peer
<1>1. c.n \in Nat /\ Append(m.responses, c) \in Seq(Calls)
  BY DEF Calls, Numbers, Sound, ClientOK
<1>2. /\ n.outbound = m.outbound /\ n.commands = m.commands /\ DOMAIN n = DOMAIN m
      /\ n.responses = Append(m.responses, c) /\ n.msgID = m.msgID /\ n.pending_write = m.pending_write
      /\ n.in = m.in /\ n.out = m.out /\ n.cut = m.cut
      /\ n.connected = m.connected /\ n.state = m.state /\ n.peer = m.peer
      /\ n.uri = m.uri /\ n.disconnect = m.disconnect
  BY DEF Sound, ClientOK
<1>3. Sound(n)
  BY <1>1, <1>2 DEF Sound, ClientOK, SocketOK
<1> QED
  BY <1>2, <1>3

\* A write that fails.
LEMMA FailedFields ==
  ASSUME NEW m, Sound(m), NEW c \in Calls, NEW n, n = [m EXCEPT !.pending_write = c.n]
  PROVE  /\ Sound(n) /\ n.outbound = m.outbound /\ n.commands = m.commands
         /\ n.responses = m.responses /\ n.msgID = m.msgID /\ n.pending_write = c.n
         /\ n.in = m.in /\ n.out = m.out /\ n.cut = m.cut
         /\ n.connected = m.connected /\ n.state = m.state /\ n.peer = m.peer
<1>1. c.n \in Nat /\ Append(m.responses, c) \in Seq(Calls)
  BY DEF Calls, Numbers, Sound, ClientOK
<1>2. /\ n.outbound = m.outbound /\ n.commands = m.commands /\ DOMAIN n = DOMAIN m
      /\ n.responses = m.responses /\ n.msgID = m.msgID /\ n.pending_write = c.n
      /\ n.in = m.in /\ n.out = m.out /\ n.cut = m.cut
      /\ n.connected = m.connected /\ n.state = m.state /\ n.peer = m.peer
      /\ n.uri = m.uri /\ n.disconnect = m.disconnect
  BY DEF Sound, ClientOK
<1>3. Sound(n)
  BY <1>1, <1>2 DEF Sound, ClientOK, SocketOK
<1> QED
  BY <1>2, <1>3

\* A publish or subscribe.
LEMMA DoCallDelivers ==
  ASSUME DeliveryInv, DoCall
  PROVE  DeliveryInv'
<1> DEFINE c == hand.cmd
           m == Keeps(am, c)
           waiting == [m EXCEPT !.responses = Append(@, c)]
           cut0 == [m EXCEPT !.cut = c]
           cut1 == [waiting EXCEPT !.cut = c]
           failed == [m EXCEPT !.pending_write = c.n]
<1>1. hand.at = "taken" /\ IsCall(c) /\ SendAlone
  BY DEF DoCall
<1>2. \/ c.kind = "pub0" /\ am' = Writes(m, <<c>>) /\ told' = Tell({c.n}, "ok") /\ Done
      \/ c.kind # "pub0" /\ am' = Writes(waiting, <<c>>) /\ Done /\ UNCHANGED told
      \/ c.kind = "pub0" /\ UNCHANGED told /\ am' = cut0 /\ hand' = [hand EXCEPT !.at = "cut"]
      \/ c.kind = "pub1" /\ UNCHANGED told /\ am' = cut1 /\ Done
      \/ /\ am.peer \in {"gone", "refused"} /\ Done /\ told' = Tell({c.n}, "failure")
         /\ am' = disconnect_internal(IF c.kind = "pub0" THEN failed ELSE m)
  BY DEF DoCall
<1>3. HandInv /\ Sound(am) /\ ToldInv /\ am.cut = NoCommand
  BY <1>1 DEF DeliveryInv, TypesInv, Sound, HandLink
<1>4. c \in Calls /\ c \in Commands
  BY <1>1, <1>3, HandCounts DEF Commands
<1>5. /\ Sound(m)
      /\ m.outbound = IF c.kind = "pub1" THEN Append(am.outbound, c) ELSE am.outbound
      /\ m.commands = am.commands /\ m.responses = am.responses /\ m.msgID = am.msgID
      /\ m.pending_write = am.pending_write /\ m.in = am.in /\ m.out = am.out /\ m.cut = am.cut
      /\ m.connected = am.connected /\ m.state = am.state /\ m.peer = am.peer
  BY <1>3, <1>4, KeepsFacts
<1> HIDE DEF m
<1>6. /\ Sound(waiting) /\ waiting.outbound = m.outbound /\ waiting.commands = m.commands
      /\ waiting.responses = Append(m.responses, c) /\ waiting.msgID = m.msgID
      /\ waiting.pending_write = m.pending_write
      /\ waiting.in = m.in /\ waiting.out = m.out /\ waiting.cut = m.cut
      /\ waiting.connected = m.connected /\ waiting.state = m.state /\ waiting.peer = m.peer
  BY <1>4, <1>5, WaitingFields
<1>7. /\ Sound(cut0) /\ cut0.outbound = m.outbound /\ cut0.commands = m.commands
      /\ cut0.responses = m.responses /\ cut0.msgID = m.msgID /\ cut0.pending_write = m.pending_write
      /\ cut0.in = m.in /\ cut0.out = m.out /\ cut0.cut = c
      /\ cut0.connected = m.connected /\ cut0.state = m.state /\ cut0.peer = m.peer
  BY <1>4, <1>5, CutFields
<1>8. /\ Sound(failed) /\ failed.outbound = m.outbound /\ failed.commands = m.commands
      /\ failed.responses = m.responses /\ failed.msgID = m.msgID /\ failed.pending_write = c.n
      /\ failed.in = m.in /\ failed.out = m.out /\ failed.cut = m.cut
      /\ failed.connected = m.connected /\ failed.state = m.state /\ failed.peer = m.peer
  BY <1>4, <1>5, FailedFields
<1> HIDE DEF waiting, cut0, failed
<1>9. /\ Sound(cut1) /\ cut1.outbound = waiting.outbound /\ cut1.commands = waiting.commands
      /\ cut1.responses = waiting.responses /\ cut1.msgID = waiting.msgID /\ cut1.pending_write = waiting.pending_write
      /\ cut1.in = waiting.in /\ cut1.out = waiting.out /\ cut1.cut = c
      /\ cut1.connected = waiting.connected /\ cut1.state = waiting.state /\ cut1.peer = waiting.peer
  BY <1>4, <1>6, CutFields
<1> HIDE DEF cut1, c
<1>10. c = hand.cmd /\ {c.n} \in {{}, {c.n}} /\ {} \in {{}, {c.n}}
  BY DEF c
<1>11. Done => HandInv' /\ hand'.cmd = NoCommand
  BY HandEmpty DEF Done
<1>12. CASE c.kind = "pub0" /\ am' = Writes(m, <<c>>) /\ told' = Tell({c.n}, "ok") /\ Done
  <2>1. /\ Sound(am') /\ am'.outbound = m.outbound
        /\ am'.commands = m.commands /\ am'.responses = m.responses /\ am'.msgID = m.msgID
        /\ am'.pending_write = m.pending_write /\ am'.in = m.in /\ am'.cut = m.cut
        /\ am'.connected = m.connected /\ am'.state = m.state /\ am'.peer = m.peer
        /\ am'.out = IF m.peer \in {"open", "syn"} THEN Append(m.out, c) ELSE m.out
    BY <1>4, <1>5, <1>12, WritesOne
  <2>2. CallMoves(c)
    BY <1>3, <1>5, <1>12, <2>1 DEF CallMoves
  <2>3. Hears({c.n}, "ok")
    BY <1>3, <1>12, HearsTell DEF Outcomes
  <2> QED
    BY <1>1, <1>10, <1>11, <1>12, <2>2, <2>3, CallStep
<1>13. CASE c.kind # "pub0" /\ am' = Writes(waiting, <<c>>) /\ Done /\ UNCHANGED told
  <2>1. /\ Sound(am') /\ am'.outbound = waiting.outbound
        /\ am'.commands = waiting.commands /\ am'.responses = waiting.responses /\ am'.msgID = waiting.msgID
        /\ am'.pending_write = waiting.pending_write /\ am'.in = waiting.in /\ am'.cut = waiting.cut
        /\ am'.connected = waiting.connected /\ am'.state = waiting.state /\ am'.peer = waiting.peer
        /\ am'.out = IF waiting.peer \in {"open", "syn"} THEN Append(waiting.out, c) ELSE waiting.out
    BY <1>4, <1>6, <1>13, WritesOne
  <2>2. CallMoves(c)
    BY <1>3, <1>5, <1>6, <2>1 DEF CallMoves
  <2>3. Hears({}, "ok")
    BY <1>3, <1>13, HearsNone
  <2> QED
    <3>1. am'.responses = Append(am.responses, c)
      BY <1>5, <1>6, <2>1
    <3> QED
      BY <1>1, <1>10, <1>11, <1>13, <2>2, <2>3, <3>1, CallStep
<1>14. CASE c.kind = "pub0" /\ UNCHANGED told /\ am' = cut0 /\ hand' = [hand EXCEPT !.at = "cut"]
  <2>1. CallMoves(c)
    BY <1>3, <1>5, <1>7, <1>14 DEF CallMoves
  <2>2. hand'.cmd = c /\ hand'.at = "cut" /\ DOMAIN hand' = DOMAIN hand
    BY <1>3, <1>10, <1>14 DEF HandInv
  <2>3. HandInv'
    <3>1. c \in Commands \cup {NoCommand} /\ DOMAIN hand = {"cmd", "at"}
      BY <1>3, <1>4 DEF HandInv
    <3>2. c # NoCommand
      BY <1>14 DEF NoCommand, Command
    <3> QED
      BY <1>14, <2>2, <3>1, <3>2 DEF HandInv
  <2>4. Hears({}, "ok")
    BY <1>3, <1>14, HearsNone
  <2> QED
    BY <1>1, <1>10, <1>14, <2>1, <2>2, <2>3, <2>4, CallStep
<1>15. CASE c.kind = "pub1" /\ UNCHANGED told /\ am' = cut1 /\ Done
  <2>1. CallMoves(c)
    BY <1>3, <1>5, <1>6, <1>9, <1>15 DEF CallMoves
  <2>2. Hears({}, "ok")
    BY <1>3, <1>15, HearsNone
  <2> QED
    <3>1. am'.responses = Append(am.responses, c)
      BY <1>5, <1>6, <1>9, <1>15
    <3> QED
      BY <1>1, <1>10, <1>11, <1>15, <2>1, <2>2, <3>1, CallStep
<1>16. CASE /\ am.peer \in {"gone", "refused"} /\ Done /\ told' = Tell({c.n}, "failure")
            /\ am' = disconnect_internal(IF c.kind = "pub0" THEN failed ELSE m)
  <2> DEFINE k == IF c.kind = "pub0" THEN failed ELSE m
  <2>1. /\ Sound(k) /\ k.outbound = m.outbound /\ k.commands = m.commands /\ k.responses = m.responses
        /\ k.msgID = m.msgID /\ k.in = m.in /\ k.out = m.out /\ k.cut = m.cut
        /\ k.connected = m.connected /\ k.state = m.state /\ k.peer = m.peer
        /\ k.pending_write = IF c.kind = "pub0" THEN c.n ELSE m.pending_write
    BY <1>5, <1>8
  <2> HIDE DEF k
  <2>2. am' = disconnect_internal(k)
    BY <1>16 DEF k
  <2>3. SameCalls(k, am') /\ SameSocket(k, am')
    BY <2>1, <2>2, InternalSame
  <2>4. CallMoves(c)
    BY <1>3, <1>5, <1>16, <2>1, <2>3 DEF CallMoves, SameCalls, SameSocket
  <2>5. Hears({c.n}, "failure")
    BY <1>3, <1>16, HearsTell DEF Outcomes
  <2> QED
    BY <1>1, <1>10, <1>11, <1>16, <2>4, <2>5, CallStep
<1>17. \/ c.kind = "pub0" /\ am' = Writes(m, <<c>>) /\ told' = Tell({c.n}, "ok") /\ Done
       \/ c.kind # "pub0" /\ am' = Writes(waiting, <<c>>) /\ Done /\ UNCHANGED told
       \/ c.kind = "pub0" /\ UNCHANGED told /\ am' = cut0 /\ hand' = [hand EXCEPT !.at = "cut"]
       \/ c.kind = "pub1" /\ UNCHANGED told /\ am' = cut1 /\ Done
       \/ /\ am.peer \in {"gone", "refused"} /\ Done /\ told' = Tell({c.n}, "failure")
          /\ am' = disconnect_internal(IF c.kind = "pub0" THEN failed ELSE m)
  BY <1>2 DEF c
<1> QED
  BY <1>12, <1>13, <1>14, <1>15, <1>16, <1>17

\* The response to a write that was cut short, of QoS 0.
LEMMA DoRegisterDelivers ==
  ASSUME DeliveryInv, DoRegister
  PROVE  DeliveryInv'
<1> DEFINE c == hand.cmd
<1>1. /\ hand.at = "cut" /\ Done /\ UNCHANGED told /\ SendAlone
      /\ am' = [am EXCEPT !.pending_write = c.n, !.responses = Append(@, c)]
  BY DEF DoRegister
<1>2. HandInv /\ Sound(am) /\ ToldInv /\ IsCall(c) /\ c.kind = "pub0"
  <2>1. HandInv /\ Sound(am) /\ ToldInv /\ HandLink
    BY DEF DeliveryInv, TypesInv, Sound
  <2>2. c.kind = "pub0"
    BY <1>1, <2>1 DEF HandLink
  <2> QED
    BY <2>1, <2>2 DEF IsCall
<1>3. c \in Calls
  BY <1>2, HandCounts
<1>4. /\ DOMAIN am' = DOMAIN am /\ am'.outbound = am.outbound /\ am'.commands = am.commands
      /\ am'.responses = Append(am.responses, c) /\ am'.msgID = am.msgID /\ am'.pending_write = c.n
      /\ am'.in = am.in /\ am'.out = am.out /\ am'.cut = am.cut
      /\ am'.connected = am.connected /\ am'.state = am.state /\ am'.peer = am.peer
      /\ am'.uri = am.uri /\ am'.disconnect = am.disconnect
  BY <1>1, <1>2 DEF Sound, ClientOK
<1>5. c.n \in Nat /\ Append(am.responses, c) \in Seq(Calls)
  BY <1>2, <1>3 DEF Calls, Numbers, Sound, ClientOK
<1>6. Sound(am')
  BY <1>2, <1>4, <1>5 DEF Sound, ClientOK, SocketOK
<1>7. CallMoves(c)
  BY <1>2, <1>4, <1>6 DEF CallMoves
<1>8. Hears({}, "ok")
  BY <1>1, <1>2, HearsNone
<1>9. HandInv' /\ hand'.cmd = NoCommand /\ {} \in {{}, {c.n}}
  BY <1>1, HandEmpty DEF Done
<1> QED
  BY <1>1, <1>2, <1>7, <1>8, <1>9, CallStep
-------------------------------------------------------------------------------
\* The application.

\* MQTTAsync_send and subscribeMany: a new call has an id that no other has
\* that is not answered.
LEMMA CallBeginsDelivers ==
  ASSUME DeliveryInv, CallBegins
  PROVE  DeliveryInv'
<1> DEFINE c == calling'
<1>1. PICK k \in Kinds :
        /\ k # "pub0" => Unlocked
        /\ am.connected \/ (k # "sub" /\ am.shouldBeConnected)
        /\ calling' = Command(k, Len(admitted) + 1, IF k = "pub0" THEN 0 ELSE NextId(am))
        /\ am' = IF k = "pub0" THEN am ELSE [am EXCEPT !.msgID = NextId(am)]
  BY DEF CallBegins
<1>2. /\ calling = NoCommand /\ Len(admitted) < MaxCalls
      /\ UNCHANGED <<admitted, told, hand, recv, lost, crashed, broker>>
  BY DEF CallBegins, AppAlone
<1>3. TypesInv /\ HandInv /\ Sound(am) /\ ClientOK(am) /\ LinkOK(am) /\ SessionInv /\ Lined(am, broker.reached) /\ KnownInv
      /\ KeptInv /\ (~crashed => FirstLife) /\ HandLink /\ CallingInv
  BY DEF DeliveryInv, TypesInv, Sound
<1>4. NextId(am) \in Nat /\ NextId(am) > am.msgID /\ NextId(am) \notin UsedIds(am) /\ am.msgID \in Nat
  BY <1>3, NextIdType DEF ClientOK
<1>5. /\ DOMAIN am' = DOMAIN am /\ am'.commands = am.commands
      /\ am'.responses = am.responses /\ am'.outbound = am.outbound
      /\ am'.pending_write = am.pending_write /\ am'.uri = am.uri /\ am'.disconnect = am.disconnect
      /\ am'.in = am.in /\ am'.out = am.out /\ am'.cut = am.cut /\ am'.connected = am.connected
      /\ am'.peer = am.peer /\ am'.state = am.state
      /\ am'.msgID = IF k = "pub0" THEN am.msgID ELSE NextId(am)
  BY <1>1, <1>3 DEF ClientOK
<1>6. am'.msgID \in Nat /\ am'.msgID >= am.msgID
  BY <1>4, <1>5
<1>7. c.kind = k /\ c.n = Len(admitted) + 1 /\ c.id = (IF k = "pub0" THEN 0 ELSE NextId(am))
      /\ k \in {"pub0", "pub1", "sub"} /\ c = [kind |-> c.kind, n |-> c.n, id |-> c.id]
  BY <1>1, AsyncAssumption DEF Command
<1>8. Len(admitted) \in Nat /\ Len(admitted) + 1 \in Numbers /\ DOMAIN admitted = 1..Len(admitted)
  BY <1>2, <1>3, AsyncAssumption DEF CallingInv, Numbers
<1>9. c \in Calls /\ IsCall(c)
  BY <1>4, <1>7, <1>8 DEF Calls, IsCall
<1>10. Sound(am')
  BY <1>3, <1>5, <1>6 DEF Sound, ClientOK, SocketOK
<1>11. TypesInv'
  <2>1. CallingInv'
    BY <1>2, <1>3, <1>7, <1>9 DEF CallingInv
  <2>2. HandInv' /\ RecvInv' /\ ToldInv' /\ recv'.pack \in Answers /\ recv'.pack.type # "PUBACK"
        /\ crashed' \in BOOLEAN /\ DOMAIN broker' = {"session", "reached"} /\ broker'.session \in BOOLEAN
    BY <1>2, <1>3 DEF TypesInv, HandInv, RecvInv, ToldInv
  <2> QED
    BY <1>10, <2>1, <2>2 DEF TypesInv, Sound
<1>12. LinkOK(am')
  BY <1>3, <1>5 DEF LinkOK
<1>13. HandLink'
  BY <1>2, <1>3, <1>5 DEF HandLink
<1>14. SessionInv'
  <2>1. ~broker.session \/ Begins(recv.pack, am.in) => am.outbound = <<>> /\ ~am.connected /\ c.kind # "sub"
    BY <1>1, <1>3, <1>7 DEF SessionInv
  <2> HIDE DEF c
  <2> QED
    BY <1>2, <1>3, <1>5, <2>1 DEF SessionInv, Begins, Before, c
<1>15. Lined(am', broker'.reached)
  <2>1. Lined(am', broker.reached)
    BY <1>3, <1>5, LinedSame
  <2> QED
    BY <1>2, <2>1
<1>16. HeldSet(calling) = {} /\ HeldSet(calling') = {c}
  BY <1>2, <1>9, ControlCommands DEF HeldSet
<1>17. Unsent' = Unsent \cup {c} /\ Waiting' = Waiting /\ Flying' = Flying /\ Known' = Known
  BY <1>2, <1>5, <1>16 DEF Unsent, Waiting, Flying, Known
<1>18. \A j : Heard(j)' = Heard(j)
  BY <1>2 DEF Heard
<1>19. KnownInv'
  <2>1. KnownInv
    BY <1>3
  <2> QED
    BY <1>2, <1>5, <1>17, <1>18, <2>1 DEF KnownInv
<1>20. Publishes' = Publishes
  BY <1>2 DEF Publishes
<1>21. KeptInv'
  BY <1>2, <1>3, <1>17, <1>18, <1>20 DEF KeptInv
<1>22. ASSUME ~crashed PROVE FirstLife'
  <2>0. IdsInv /\ FreshInv /\ FlightInv /\ OrderInv /\ AnswersInv /\ SubsInv /\ YoungInv /\ OvertakenInv
    BY <1>3, <1>22 DEF FirstLife
  <2>1. c.id # 0 => \A x \in Unsent \cup Waiting : x.id # c.id
    <3> SUFFICES ASSUME c.id # 0, NEW x \in Unsent \cup Waiting PROVE x.id # c.id
      OBVIOUS
    <3>1. k # "pub0" /\ Unlocked
      BY <1>1, <1>7
    <3>2. HeldSet(hand.cmd) = {}
      BY <1>3, <3>1, ControlCommands DEF Unlocked, HandInv, HeldSet
    <3>3. x \in ToSet(am.commands) \/ x \in ToSet(am.responses)
      BY <1>16, <3>2 DEF Unsent, Waiting, CallSet
    <3>4. x.id \in UsedIds(am)
      BY <3>3 DEF ToSet, UsedIds
    <3> QED
      BY <1>4, <1>7, <3>1, <3>4
  <2>2. c.kind = "pub0" <=> c.id = 0
    BY <1>4, <1>7
  <2>3. IdsInv'
    <3>1. ASSUME NEW x \in Unsent \cup {c} \cup Waiting, NEW y \in Unsent \cup {c} \cup Waiting, x.id = y.id, x.id # 0
          PROVE  x = y
      BY <2>0, <2>1, <3>1 DEF IdsInv
    <3>2. \A x \in Unsent \cup {c} \cup Waiting \cup Flying : x.kind = "pub0" <=> x.id = 0
      BY <2>0, <2>2 DEF IdsInv
    <3> QED
      BY <1>17, <3>1, <3>2 DEF IdsInv
  <2>4. FreshInv'
    <3>1. c.n \notin DOMAIN admitted
      BY <1>7, <1>8
    <3>2. \A y \in Flying : \A x \in Flying \cup Unsent \cup {c} :
            y.n < x.n /\ y.id = x.id /\ x.n \in DOMAIN admitted => ~admitted[x.n].fresh
      BY <2>0, <3>1 DEF FreshInv
    <3> QED
      BY <1>2, <1>17, <3>2 DEF FreshInv
  <2>5. OrderInv'
    <3>1. \A y \in Flying : y.n < c.n
      <4> SUFFICES ASSUME NEW y \in Flying PROVE y.n < c.n
        OBVIOUS
      <4>1. y.n \in DOMAIN admitted
        BY <1>3, Accepted DEF KnownInv
      <4> QED
        BY <1>7, <1>8, <4>1
    <3>2. \A y \in Flying : \A x \in Unsent \cup {c} : y.n < x.n
      BY <2>0, <3>1 DEF OrderInv
    <3>3. HeldSet(hand'.cmd) = HeldSet(hand.cmd)
      BY <1>2
    <3> QED
      BY <1>5, <1>17, <2>0, <3>2, <3>3 DEF OrderInv
  <2>6. AnswersInv'
    BY <1>2, <1>17, <2>0 DEF AnswersInv
  <2>7. SubsInv'
    <3>1. SubsIn(am'.out, am'.in, recv'.pack) = SubsIn(am.out, am.in, recv.pack)
      BY <1>2, <1>5
    <3>2. ASSUME NEW i \in SubsIn(am.out, am.in, recv.pack)
          PROVE  i # 0 /\ i <= am'.msgID /\ \A x \in Unsent \cup {c} \cup Waiting : x.id = i => x.kind = "sub"
      <4>1. i # 0 /\ i <= am.msgID /\ \A x \in Unsent \cup Waiting : x.id = i => x.kind = "sub"
        BY <2>0 DEF SubsInv
      <4>2. i \in Nat
        <5>1. am.out \in Seq(Commands) /\ am.in \in Seq(Answers) /\ recv.pack \in Answers
          BY <1>3 DEF TypesInv, SocketOK
        <5>2. ToSet(am.out) \subseteq Commands /\ ToSet(am.in) \subseteq Answers
          BY <5>1, SetOf
        <5>3. \A x \in Commands : x.id \in Nat
          BY DEF Commands, Calls
        <5>4. \A x \in Answers : x.id \in Nat
          BY DEF Answers
        <5> QED
          BY <5>1, <5>2, <5>3, <5>4 DEF SubsIn
      <4>3. i <= am'.msgID
        BY <1>4, <1>6, <4>1, <4>2
      <4>4. c.id # i
        BY <1>4, <1>7, <4>1, <4>2
      <4> QED
        BY <4>1, <4>3, <4>4
    <3>3. ASSUME NEW x \in Unsent \cup {c} \cup Waiting, x.kind = "sub" PROVE x.id <= am'.msgID
      <4>1. CASE x = c
        BY <1>4, <1>5, <1>7, <3>3, <4>1
      <4>2. CASE x \in Unsent \cup Waiting
        <5>1. x.id <= am.msgID
          BY <2>0, <3>3, <4>2 DEF SubsInv
        <5>2. x.id \in Nat
          BY <1>3, <4>2, Accepted DEF Calls
        <5> QED
          BY <1>4, <1>6, <5>1, <5>2
      <4> QED
        BY <4>1, <4>2
    <3> QED
      BY <1>17, <3>1, <3>2, <3>3 DEF SubsInv
  <2>8. YoungInv' /\ OvertakenInv'
    BY <1>2, <1>18, <1>20, <2>0 DEF YoungInv, OvertakenInv
  <2>9. FlightInv'
    BY <1>2, <1>17, <1>18, <2>0 DEF FlightInv
  <2> QED
    BY <2>3, <2>4, <2>5, <2>6, <2>7, <2>8, <2>9 DEF FirstLife
<1>23. ~crashed' => FirstLife'
  BY <1>2, <1>22
<1> QED
  BY <1>11, <1>12, <1>13, <1>14, <1>15, <1>19, <1>21, <1>23 DEF DeliveryInv

\* ... and addCommand, with which the call is accepted.
LEMMA CallAddsDelivers ==
  ASSUME DeliveryInv, CallAdds
  PROVE  DeliveryInv'
<1> DEFINE c == calling
           N == Len(admitted) + 1
<1>0. PICK reused \in {Dangling, FALSE} :
        /\ admitted' = Append(admitted, [kind |-> c.kind, fresh |-> c.id \notin InFlight(am), reused |-> reused])
        /\ am' = addCommand(IF reused THEN [am EXCEPT !.pending_write = c.n] ELSE am, c)
  BY DEF CallAdds
<1> DEFINE rec == [kind |-> c.kind, fresh |-> c.id \notin InFlight(am), reused |-> reused]
           base == IF reused THEN [am EXCEPT !.pending_write = c.n] ELSE am
<1>1. /\ c # NoCommand /\ calling' = NoCommand /\ admitted' = Append(admitted, rec)
      /\ am' = addCommand(base, c) /\ reused \in BOOLEAN
      /\ UNCHANGED <<told, hand, recv, lost, crashed, broker>>
  BY <1>0 DEF CallAdds, AppAlone, Dangling
<1>2. TypesInv /\ HandInv /\ Sound(am) /\ ClientOK(am) /\ LinkOK(am) /\ SessionInv /\ Lined(am, broker.reached) /\ KnownInv
      /\ KeptInv /\ (~crashed => FirstLife) /\ HandLink /\ CallingInv
  BY DEF DeliveryInv, TypesInv, Sound
<1>3. c \in Calls /\ IsCall(c) /\ c.n = N /\ Len(admitted) < MaxCalls /\ c \in Commands
  BY <1>1, <1>2 DEF CallingInv, Calls, IsCall, Commands
<1>4. /\ DOMAIN base = DOMAIN am /\ base.commands = am.commands
      /\ base.responses = am.responses /\ base.outbound = am.outbound
      /\ base.pending_write = (IF reused THEN c.n ELSE am.pending_write)
      /\ base.uri = am.uri /\ base.disconnect = am.disconnect
      /\ base.in = am.in /\ base.out = am.out /\ base.cut = am.cut /\ base.connected = am.connected
      /\ base.peer = am.peer /\ base.state = am.state /\ base.msgID = am.msgID
  BY <1>2 DEF ClientOK
<1> HIDE DEF base
<1>5. /\ DOMAIN am' = DOMAIN am /\ am'.commands = Append(am.commands, c)
      /\ am'.responses = am.responses /\ am'.outbound = am.outbound
      /\ am'.pending_write \in Nat /\ am'.uri = am.uri /\ am'.disconnect = am.disconnect
      /\ am'.in = am.in /\ am'.out = am.out /\ am'.cut = am.cut /\ am'.connected = am.connected
      /\ am'.peer = am.peer /\ am'.state = am.state /\ am'.msgID = am.msgID
  <2>1. am' = [base EXCEPT !.commands = Append(@, c)]
    BY <1>1, <1>3 DEF addCommand, IsCall
  <2>2. c.n \in Nat /\ am.pending_write \in Nat
    BY <1>2, <1>3 DEF Calls, Numbers, Sound, SocketOK
  <2> QED
    BY <1>2, <1>4, <2>1, <2>2 DEF ClientOK
<1>6. am.commands \in Seq(Commands) /\ Append(am.commands, c) \in Seq(Commands)
  BY <1>2, <1>3 DEF ClientOK
<1>7. Sound(am')
  BY <1>2, <1>5, <1>6 DEF Sound, ClientOK, SocketOK
<1>8. Len(admitted) \in Nat /\ N \in Numbers /\ DOMAIN admitted = 1..Len(admitted)
      /\ admitted \in Seq(Admissions)
  BY <1>2, <1>3, AsyncAssumption DEF CallingInv, Numbers
<1>9. rec \in Admissions
      /\ rec.kind = c.kind /\ rec.fresh = (c.id \notin InFlight(am))
  BY <1>1, <1>3 DEF Calls, Admissions
<1> HIDE DEF rec
<1>10. /\ admitted' \in Seq(Admissions) /\ Len(admitted') = N
       /\ DOMAIN admitted' = DOMAIN admitted \cup {N} /\ N \notin DOMAIN admitted
       /\ admitted'[N] = rec /\ \A j \in DOMAIN admitted : admitted'[j] = admitted[j]
       /\ \A j \in DOMAIN admitted : j < N
  BY <1>1, <1>8, <1>9
<1>11. TypesInv'
  <2>1. CallingInv'
    BY <1>1, <1>3, <1>8, <1>10, AsyncAssumption DEF CallingInv
  <2>2. HandInv' /\ RecvInv' /\ ToldInv' /\ recv'.pack \in Answers /\ recv'.pack.type # "PUBACK"
        /\ crashed' \in BOOLEAN /\ DOMAIN broker' = {"session", "reached"} /\ broker'.session \in BOOLEAN
    BY <1>1, <1>2 DEF TypesInv, HandInv, RecvInv, ToldInv
  <2> QED
    BY <1>7, <2>1, <2>2 DEF TypesInv, Sound
<1>12. LinkOK(am')
  BY <1>2, <1>5 DEF LinkOK
<1>13. HandLink'
  BY <1>1, <1>2, <1>5 DEF HandLink
<1>14. SessionInv'
  <2>1. NoCommand.kind # "sub"
    BY DEF NoCommand, Command
  <2> QED
    BY <1>1, <1>2, <1>5, <2>1 DEF SessionInv, Begins, Before
<1>15. Lined(am', broker'.reached)
  <2>1. Lined(am', broker.reached)
    BY <1>2, <1>5, LinedSame
  <2> QED
    BY <1>1, <2>1
<1> HIDE DEF N
<1>16. HeldSet(calling) = {c} /\ HeldSet(calling') = {}
  BY <1>1, <1>3, ControlCommands DEF HeldSet
<1>17. /\ CallSet(am'.commands) = CallSet(am.commands) \cup {c}
       /\ Rising(am.commands) /\ (\A x \in CallSet(am.commands), y \in HeldSet(c) : x.n < y.n) => Rising(am'.commands)
  <2> DEFINE list == am.commands
  <2>1. list \in Seq(Commands) /\ c \in Commands
    BY <1>3, <1>6
  <2> HIDE DEF list, c
  <2>2. /\ CallSet(Append(list, c)) = CallSet(list) \cup HeldSet(c)
        /\ Rising(list) /\ (\A x \in CallSet(list), y \in HeldSet(c) : x.n < y.n) => Rising(Append(list, c))
    BY <2>1, RisingLists
  <2>3. HeldSet(c) = {c} /\ am'.commands = Append(list, c)
    BY <1>5, <1>16 DEF list, c
  <2> QED
    BY <2>2, <2>3 DEF list
<1>18. Unsent' = Unsent /\ Waiting' = Waiting /\ Flying' = Flying /\ Known' = Known \cup {c}
       /\ Unsent \subseteq Known \cup {c} /\ Flying \subseteq Known /\ Waiting \subseteq Known
  BY <1>1, <1>5, <1>16, <1>17 DEF Unsent, Waiting, Flying, Known
<1>19. \A j : Heard(j)' = Heard(j)
  BY <1>1 DEF Heard
<1>20. \A x \in Known : x.n \in DOMAIN admitted /\ admitted[x.n].kind = x.kind
  BY <1>2 DEF KnownInv
<1>21. KnownInv'
  <2>1. \A x \in Known' : x.n \in DOMAIN admitted' /\ admitted'[x.n].kind = x.kind
    BY <1>3, <1>9, <1>10, <1>18, <1>20
  <2>3. (\A x \in Flying' : x.kind = "pub1") /\ broker'.reached \subseteq DOMAIN admitted'
    BY <1>1, <1>2, <1>10, <1>18 DEF KnownInv
  <2>4. \A k \in Numbers \ DOMAIN admitted' : "ok" \notin Heard(k)'
    BY <1>2, <1>10, <1>19 DEF KnownInv
  <2> QED
    BY <2>1, <2>3, <2>4 DEF KnownInv
<1>22. \A n \in Publishes' : n = N \/ n \in Publishes
  BY <1>10 DEF Publishes
<1>23. c \in Unsent' /\ "ok" \notin Heard(N)
  BY <1>2, <1>8, <1>10, <1>16, <1>18 DEF KnownInv, Unsent
<1>24. KeptInv'
  <2>1. ASSUME NEW n \in Publishes'
        PROVE  /\ \/ \E x \in Unsent' \cup Flying' : x.n = n
                  \/ n \in broker'.reached \/ lost' = n \/ "failure" \in Heard(n)' \/ "unheard" \in Heard(n)'
                  \/ crashed' /\ ~admitted'[n].fresh
               /\ admitted'[n].fresh /\ "ok" \in Heard(n)' => n \in broker'.reached
    <3>1. CASE n = N
      BY <1>3, <1>19, <1>23, <3>1
    <3>2. CASE n \in Publishes
      <4>1. n \in DOMAIN admitted
        BY <3>2 DEF Publishes
      <4>2. admitted'[n] = admitted[n]
        BY <1>10, <4>1
      <4> QED
        BY <1>1, <1>2, <1>18, <1>19, <3>2, <4>2 DEF KeptInv
    <3> QED
      BY <1>22, <3>1, <3>2
  <2> QED
    BY <2>1 DEF KeptInv
<1>25. ASSUME ~crashed PROVE FirstLife'
  <2>0. IdsInv /\ FreshInv /\ FlightInv /\ OrderInv /\ AnswersInv /\ SubsInv /\ YoungInv /\ OvertakenInv
    BY <1>2, <1>25 DEF FirstLife
  <2>1. IdsInv'
    BY <1>18, <2>0 DEF IdsInv
  <2>2. FreshInv'
    <3> SUFFICES ASSUME NEW y \in Flying, NEW x \in Flying \cup Unsent, y.n < x.n, y.id = x.id, x.n \in DOMAIN admitted'
                 PROVE  ~admitted'[x.n].fresh
      BY <1>18 DEF FreshInv
    <3>1. CASE x.n \in DOMAIN admitted
      BY <1>10, <2>0, <3>1 DEF FreshInv
    <3>2. CASE x.n \notin DOMAIN admitted
      <4>1. x = c
        BY <1>18, <1>20, <3>2
      <4>2. y.id \in InFlight(am)
        BY DEF Flying, ToSet, InFlight
      <4> QED
        BY <1>3, <1>9, <1>10, <4>1, <4>2
    <3> QED
      BY <3>1, <3>2
  <2>3. OrderInv'
    <3>1. \A x \in Known : x.n < c.n
      BY <1>3, <1>10, <1>20
    <3>2. Rising(am'.commands)
      <4>1. \A x \in CallSet(am.commands), y \in HeldSet(c) : x.n < y.n
        BY <1>16, <3>1 DEF Known
      <4> QED
        BY <1>17, <2>0, <4>1 DEF OrderInv
    <3>3. \A h \in HeldSet(hand'.cmd) : \A x \in CallSet(am'.commands) : h.n < x.n
      BY <1>1, <1>17, <2>0, <3>1 DEF OrderInv, Known
    <3>4. Rising(am'.outbound)
      BY <1>5, <2>0 DEF OrderInv
    <3>5. \A y \in Flying' : \A x \in Unsent' : y.n < x.n
      BY <1>18, <2>0 DEF OrderInv
    <3> QED
      BY <3>2, <3>3, <3>4, <3>5 DEF OrderInv
  <2>4. AnswersInv'
    BY <1>1, <1>18, <2>0 DEF AnswersInv
  <2>5. SubsInv'
    <3>1. SubsIn(am'.out, am'.in, recv'.pack) = SubsIn(am.out, am.in, recv.pack) /\ am'.msgID = am.msgID
      BY <1>1, <1>5
    <3> QED
      BY <1>18, <2>0, <3>1 DEF SubsInv
  <2>6. YoungInv'
    BY <1>1, <1>19, <2>0 DEF YoungInv
  <2>7. OvertakenInv'
    <3> SUFFICES ASSUME NEW n \in Publishes' \cap broker.reached, NEW k \in Publishes', k < n
                 PROVE  k \in broker.reached \/ "failure" \in Heard(k)
      BY <1>1, <1>19 DEF OvertakenInv
    <3>1. n \in DOMAIN admitted
      BY <1>2 DEF KnownInv
    <3>2. n # N /\ k # N
      BY <1>8, <1>10, <3>1 DEF N
    <3> QED
      BY <1>22, <2>0, <3>2 DEF OvertakenInv
  <2>8. FlightInv'
    <3>1. \A y \in Flying : admitted'[y.n] = admitted[y.n]
      BY <1>10, <1>18, <1>20
    <3> QED
      BY <1>18, <1>19, <2>0, <3>1 DEF FlightInv
  <2> QED
    BY <2>1, <2>2, <2>3, <2>4, <2>5, <2>6, <2>7, <2>8 DEF FirstLife
<1>26. ~crashed' => FirstLife'
  BY <1>1, <1>25
<1> QED
  BY <1>11, <1>12, <1>13, <1>14, <1>15, <1>21, <1>24, <1>26 DEF DeliveryInv
-------------------------------------------------------------------------------
\* The receive thread, when it takes a response away.

\* ... and none of its other places is missing.
LEMMA WithoutLeaves ==
  ASSUME NEW list \in Seq(Calls), NEW places \in SUBSET DOMAIN list
  PROVE  \A x \in ToSet(list) \ ToSet(WithoutOne(list, places)) : \E i \in places : x = list[i]
<1>1. CASE places = {}
  BY <1>1 DEF WithoutOne
<1>2. CASE places # {}
  <2> DEFINE p == CHOOSE i \in places : TRUE
             u == SubSeq(list, 1, p - 1)
             v == SubSeq(list, p + 1, Len(list))
  <2>1. p \in places
    BY <1>2
  <2>2. p \in 1..Len(list) /\ Len(list) \in Nat /\ DOMAIN list = 1..Len(list)
    BY <2>1
  <2> HIDE DEF p
  <2>3. u \in Seq(Calls) /\ Len(u) = p - 1 /\ \A i \in 1..(p - 1) : u[i] = list[i]
    BY <2>2, SubSeqProperties
  <2>4. v \in Seq(Calls) /\ Len(v) = Len(list) - p /\ \A i \in 1..(Len(list) - p) : v[i] = list[p + i]
    BY <2>2
  <2>5. WithoutOne(list, places) = u \o v
    BY <1>2 DEF WithoutOne, RemoveAt, p
  <2> DEFINE w == u \o v
  <2>6. DOMAIN w = 1..(Len(u) + Len(v))
        /\ \A i \in 1..(Len(u) + Len(v)) : w[i] = IF i <= Len(u) THEN u[i] ELSE v[i - Len(u)]
    <3>1. u \in Seq(Calls) /\ v \in Seq(Calls)
      BY <2>3, <2>4
    <3> HIDE DEF u, v
    <3> QED
      BY <3>1
  <2> HIDE DEF u, v, w
  <2>7. ASSUME NEW j \in DOMAIN list, j # p PROVE \E i \in DOMAIN w : w[i] = list[j]
    <3>1. CASE j < p
      <4>1. j \in 1..(p - 1) /\ j \in 1..(Len(u) + Len(v)) /\ j <= Len(u)
        BY <2>2, <2>3, <2>4, <3>1
      <4> QED
        BY <2>3, <2>6, <4>1
    <3>2. CASE j > p
      <4> DEFINE n == Len(list)
                 a == Len(u)
                 b == Len(v)
      <4>0. p \in 1..n /\ n \in Nat /\ j \in 1..n /\ a = p - 1 /\ b = n - p
        BY <2>2, <2>3, <2>4
      <4> HIDE DEF n, a, b
      <4>1. /\ j - p \in 1..(n - p) /\ p + (j - p) = j /\ (j - 1) - a = j - p
            /\ j - 1 \in 1..(a + b) /\ ~(j - 1 <= a)
        BY <3>2, <4>0
      <4>2. v[j - p] = list[j]
        BY <2>4, <4>1 DEF n
      <4> QED
        BY <2>6, <4>1, <4>2 DEF a, b
    <3> QED
      BY <2>2, <2>7, <3>1, <3>2
  <2>8. ASSUME NEW x \in ToSet(list), x \notin ToSet(w) PROVE x = list[p]
    BY <2>7, <2>8 DEF ToSet
  <2> QED
    BY <2>1, <2>5, <2>8 DEF w
<1> QED
  BY <1>1, <1>2

\* The types of the rest, while the receive thread works.
LEMMA RecvTypes ==
  ASSUME TypesInv, RecvAlone, UNCHANGED broker, Sound(am'), RecvInv', ToldInv',
         recv'.pack \in Answers, recv'.pack.type # "PUBACK"
  PROVE  TypesInv' /\ UNCHANGED <<calling, admitted, lost, crashed, broker, hand>>
<1>1. UNCHANGED <<calling, admitted, lost, crashed, broker, hand>>
  BY DEF RecvAlone
<1>2. HandInv' /\ CallingInv'
      /\ crashed' \in BOOLEAN /\ DOMAIN broker' = {"session", "reached"} /\ broker'.session \in BOOLEAN
  BY <1>1 DEF TypesInv, HandInv, CallingInv
<1>3. ClientOK(am)' /\ SocketOK(am)'
  BY DEF Sound
<1> QED
  BY <1>1, <1>2, <1>3 DEF TypesInv

\* MQTTAsync_writeComplete: of the publications only one of QoS 0 is told that it is
\* done; one of QoS 1, at an address that was used before, may be told that it failed.
LEMMA WriteCompletesDelivers ==
  ASSUME DeliveryInv, NEW ok \in BOOLEAN, WriteCompletes(ok)
  PROVE  DeliveryInv'
<1> DEFINE places == {i \in Pending(am) : ~(ok /\ am.responses[i].kind = "pub1")}
           m == [am EXCEPT !.cut = NoCommand, !.pending_write = 0, !.responses = WithoutOne(@, places)]
           ns == {am.responses[i].n : i \in {j \in places : am.responses[j].kind # "sub"}}
           outcome == IF ok THEN "ok" ELSE "failure"
           c == am.cut
<1>1. /\ c # NoCommand /\ (ok \/ am.peer = "gone")
      /\ am' = (IF ok THEN Writes(m, <<c>>) ELSE m) /\ told' = Tell(ns, outcome)
      /\ recv' = recv /\ UNCHANGED broker /\ RecvAlone
  BY DEF WriteCompletes
<1>2. TypesInv /\ HandInv /\ Sound(am) /\ ClientOK(am) /\ LinkOK(am) /\ SessionInv /\ Lined(am, broker.reached) /\ KnownInv
      /\ KeptInv /\ (~crashed => FirstLife) /\ HandLink /\ ToldInv
  BY DEF DeliveryInv, TypesInv, Sound
<1>3. c \in Calls /\ c \in Commands /\ c.kind # "sub" /\ IsCall(c) /\ am.connected
  BY <1>1, <1>2 DEF Sound, SocketOK, LinkOK, Commands, Calls, IsCall
<1>4. am.responses \in Seq(Calls) /\ places \in SUBSET DOMAIN am.responses
  BY <1>2 DEF ClientOK, Pending
<1>5. WithoutOne(am.responses, places) \in Seq(Calls)
      /\ ToSet(WithoutOne(am.responses, places)) \subseteq ToSet(am.responses)
  <2> HIDE DEF places
  <2> QED
    BY <1>4, WithoutSet
<1>6. /\ DOMAIN m = DOMAIN am /\ m.commands = am.commands
      /\ m.responses = WithoutOne(am.responses, places) /\ m.outbound = am.outbound
      /\ m.pending_write = 0 /\ m.uri = am.uri /\ m.disconnect = am.disconnect
      /\ m.in = am.in /\ m.out = am.out /\ m.cut = NoCommand /\ m.connected = am.connected
      /\ m.peer = am.peer /\ m.state = am.state /\ m.msgID = am.msgID
  BY <1>2 DEF ClientOK
<1> HIDE DEF m, places
<1>7. Sound(m)
  BY <1>2, <1>5, <1>6 DEF Sound, ClientOK, SocketOK
<1>8. /\ Sound(am') /\ am'.outbound = am.outbound /\ am'.commands = am.commands
      /\ am'.responses = WithoutOne(am.responses, places) /\ am'.msgID = am.msgID
      /\ am'.pending_write = 0 /\ am'.in = am.in /\ am'.cut = NoCommand
      /\ am'.connected = am.connected /\ am'.state = am.state /\ am'.peer = am.peer
      /\ am'.out = IF ok /\ am.peer \in {"open", "syn"} THEN Append(am.out, c) ELSE am.out
  <2>1. CASE ok
    <3>1. am' = Writes(m, <<c>>)
      BY <1>1, <2>1
    <3> HIDE DEF c
    <3>2. /\ Sound(am') /\ am'.outbound = m.outbound
          /\ am'.commands = m.commands /\ am'.responses = m.responses /\ am'.msgID = m.msgID
          /\ am'.pending_write = m.pending_write /\ am'.in = m.in /\ am'.cut = m.cut
          /\ am'.connected = m.connected /\ am'.state = m.state /\ am'.peer = m.peer
          /\ am'.out = IF m.peer \in {"open", "syn"} THEN Append(m.out, c) ELSE m.out
      BY <1>3, <1>7, <3>1, WritesOne
    <3> QED
      BY <1>6, <2>1, <3>2
  <2>2. CASE ~ok
    BY <1>1, <1>6, <1>7, <2>2
  <2> QED
    BY <2>1, <2>2
<1>9. Hears(ns, outcome)
  BY <1>1, <1>2, HearsTell DEF Outcomes
<1>10. TypesInv' /\ UNCHANGED <<calling, admitted, lost, crashed, broker, hand>> /\ recv'.pack = recv.pack
  <2>1. RecvInv' /\ recv'.pack \in Answers /\ recv'.pack.type # "PUBACK" /\ ToldInv'
    BY <1>1, <1>2, <1>9 DEF TypesInv, RecvInv, Hears
  <2> QED
    BY <1>1, <1>2, <1>8, <2>1, RecvTypes
<1>11. LinkOK(am')
  BY <1>2, <1>3, <1>8 DEF LinkOK, NoCommand, Command
<1>12. HandLink'
  BY <1>2, <1>8, <1>10 DEF HandLink
<1>13. SessionInv'
  BY <1>2, <1>3, <1>8, <1>10, SessionKept
<1>14. Lined(am', broker.reached)
  <2>0. NoCommand.kind # "pub1"
    BY DEF NoCommand, Command
  <2>1. CASE ~(ok /\ am.peer \in {"open", "syn"})
    <3>1. am'.out = am.out /\ am'.peer \notin {"open", "syn"}
      BY <1>1, <1>8, <2>1
    <3> QED
      BY <1>2, <1>8, <2>0, <3>1, LinedSame
  <2>2. CASE ok /\ am.peer \in {"open", "syn"} /\ c.kind = "pub1"
    BY <1>2, <1>3, <1>8, <2>2, LinedCompleted
  <2>3. CASE ok /\ am.peer \in {"open", "syn"} /\ c.kind # "pub1"
    <3>1. am'.out = Append(am.out, c)
      BY <1>8, <2>3
    <3> QED
      BY <1>2, <1>3, <1>8, <2>0, <2>3, <3>1, LinedOther
  <2> QED
    BY <2>1, <2>2, <2>3
<1>15. Lined(am', broker'.reached)
  BY <1>10, <1>14
<1>16. ToSet(am'.out) \subseteq ToSet(am.out) \cup {c}
  <2>1. ToSet(Append(am.out, c)) = ToSet(am.out) \cup {c}
    BY <1>2, SetAppend DEF Sound, SocketOK
  <2> QED
    BY <1>8, <2>1
<1>17. CallSet(am'.out) \subseteq CallSet(am.out) \cup HeldSet(am.cut) /\ HeldSet(am'.cut) = {}
  BY <1>3, <1>8, <1>16, ControlCommands DEF CallSet, HeldSet
<1>18. Unsent' = Unsent /\ Waiting' \subseteq Waiting /\ Flying' = Flying /\ Known' \subseteq Known
  <2>1. Unsent' = Unsent
    BY <1>8, <1>10 DEF Unsent
  <2>2. Waiting' \subseteq Waiting /\ Flying' = Flying
    BY <1>5, <1>8 DEF Waiting, Flying
  <2> QED
    BY <1>8, <1>10, <1>17, <2>1, <2>2 DEF Known
<1>19. SubsIn(am'.out, am'.in, recv'.pack) \subseteq SubsIn(am.out, am.in, recv.pack)
  <2>1. SubsIn(am'.out, am.in, recv.pack)
          \subseteq SubsIn(am.out, am.in, recv.pack) \cup {x.id : x \in {y \in {c} : y.kind = "sub"}}
    BY <1>16, SubsWritten
  <2>2. {y \in {c} : y.kind = "sub"} = {}
    BY <1>3
  <2> QED
    BY <1>8, <1>10, <2>1, <2>2
<1>20. ASSUME ~crashed PROVE OrderInv' /\ SubsInv'
  <2>1. FirstLife
    BY <1>2, <1>20
  <2>2. SubsInv'
    BY <1>2, <1>8, <1>18, <1>19, <2>1, SubsStep
  <2>3. OrderInv'
    BY <1>8, <1>10, <1>18, <2>1 DEF FirstLife, OrderInv
  <2> QED
    BY <2>2, <2>3
<1>21. /\ \A k \in ns : k \in DOMAIN admitted
       /\ ok => \A k \in ns : k \notin Publishes
  <2> SUFFICES ASSUME NEW i \in places, am.responses[i].kind # "sub"
               PROVE  am.responses[i].n \in DOMAIN admitted /\ (ok => am.responses[i].n \notin Publishes)
    OBVIOUS
  <2>1. am.responses[i] \in Waiting
    BY <1>4 DEF Waiting, ToSet
  <2>2. am.responses[i].n \in DOMAIN admitted /\ admitted[am.responses[i].n].kind = am.responses[i].kind
    BY <1>2, <2>1, Accepted DEF KnownInv
  <2>3. ok => am.responses[i].kind # "pub1"
    BY DEF places
  <2> QED
    BY <2>2, <2>3 DEF Publishes
<1>22. broker'.reached = broker.reached /\ broker.reached \subseteq DOMAIN admitted /\ outcome \in {"ok", "failure"}
       /\ (outcome = "ok" <=> ok)
  BY <1>2, <1>10 DEF KnownInv
<1>23. ASSUME ~crashed PROVE FlightMoves
  <2>1. ASSUME NEW y \in Waiting \ Waiting', y \in Flying' PROVE "failure" \in Heard(y.n)'
    <3>1. PICK i \in places : y = am.responses[i]
      BY <1>4, <1>8, <2>1, WithoutLeaves DEF Waiting
    <3>2. y.kind = "pub1" /\ y.n \in DOMAIN admitted /\ admitted[y.n].kind = y.kind /\ y.n \in Numbers
      BY <1>2, <1>18, <2>1, Accepted DEF KnownInv
    <3>3. y.n \in ns
      BY <3>1, <3>2
    <3>4. ~ok
      BY <1>21, <3>2, <3>3 DEF Publishes
    <3> QED
      BY <1>9, <1>23, <3>2, <3>3, <3>4 DEF Hears
  <2> QED
    BY <1>18, <2>1 DEF FlightMoves
<1> HIDE DEF ns, outcome
<1>24. KnownInv' /\ KeptInv' /\ (~crashed' => FirstLife')
  BY <1>2, <1>8, <1>9, <1>10, <1>18, <1>20, <1>21, <1>22, <1>23, MoveStep
<1> QED
  BY <1>10, <1>11, <1>12, <1>13, <1>15, <1>24 DEF DeliveryInv
-------------------------------------------------------------------------------
\* The receive thread, when it reads a packet.

\* The first packet is an acknowledgement of the first message in flight, or the
\* first place of the line is not taken.
LEMMA FirstPacket ==
  ASSUME NEW m, Sound(m), NEW reached, NEW b \in 0..Len(m.outbound), NEW e, InLine(m, reached, b, e), m.in # <<>>
  PROVE  /\ m.in[1].type = "PUBACK" =>
              /\ b >= 1 /\ e[1] = 1 /\ m.outbound[1].id = m.in[1].id /\ m.outbound[1].n \in reached
              /\ \A j \in 1..b : j # 1 => e[j] > 1
         /\ m.in[1].type # "PUBACK" => \A j \in 1..b : e[j] > 1
<1> DEFINE L == Len(m.in)
           K == Len(m.out)
<1>1. L \in Nat /\ L >= 1 /\ K \in Nat /\ b \in Nat
  BY DEF Sound, SocketOK
<1>2. /\ e \in [1..b -> 1..(L + K)] /\ \A j, k \in 1..b : j < k => e[j] < e[k]
      /\ \A j \in 1..b : e[j] <= L => m.in[e[j]].id = m.outbound[j].id /\ m.outbound[j].n \in reached
      /\ \A k \in 1..(L + K) : Tracked(m, k) <=> \E j \in 1..b : e[j] = k
  BY DEF InLine
<1>3. 1 <= L => (Tracked(m, 1) <=> m.in[1].type = "PUBACK")
  BY DEF Tracked
<1> HIDE DEF L, K
<1>4. 1 <= L /\ 1 \in 1..(L + K)
  BY <1>1
<1>5. m.in[1].type = "PUBACK" <=> \E j \in 1..b : e[j] = 1
  BY <1>2, <1>3, <1>4
<1>6. \A j \in 1..b : e[j] >= 1 /\ e[j] \in Int
  BY <1>1, <1>2
<1>7. ASSUME m.in[1].type = "PUBACK"
      PROVE  /\ b >= 1 /\ e[1] = 1 /\ m.outbound[1].id = m.in[1].id /\ m.outbound[1].n \in reached
             /\ \A j \in 1..b : j # 1 => e[j] > 1
  <2>1. PICK j \in 1..b : e[j] = 1
    BY <1>5, <1>7
  <2>2. b >= 1 /\ 1 \in 1..b
    BY <1>1, <2>1
  <2>3. j = 1
    BY <1>1, <1>2, <1>6, <2>1, <2>2
  <2>4. \A i \in 1..b : i # 1 => 1 < i
    BY <1>1
  <2> QED
    BY <1>2, <1>4, <1>6, <2>1, <2>2, <2>3, <2>4
<1>8. ASSUME m.in[1].type # "PUBACK" PROVE \A j \in 1..b : e[j] > 1
  BY <1>5, <1>6, <1>8
<1> QED
  BY <1>7, <1>8

\* An acknowledgement that is read is that of the first message.
LEMMA LinedFirst ==
  ASSUME NEW m, Sound(m), NEW reached, Lined(m, reached), m.in # <<>>, m.in[1].type = "PUBACK"
  PROVE  m.outbound # <<>> /\ m.outbound[1].id = m.in[1].id /\ m.outbound[1].n \in reached
<1>1. PICK b \in 0..Len(m.outbound) : \E e \in [1..b -> 1..(Len(m.in) + Len(m.out))] :
        InLine(m, reached, b, e) /\ Rest(m, b)
  BY DEF Lined
<1>2. PICK e \in [1..b -> 1..(Len(m.in) + Len(m.out))] : InLine(m, reached, b, e) /\ Rest(m, b)
  BY <1>1
<1>3. b >= 1 /\ m.outbound[1].id = m.in[1].id /\ m.outbound[1].n \in reached
  BY <1>2, FirstPacket
<1>4. m.outbound # <<>>
  BY <1>3 DEF Sound, SocketOK
<1> QED
  BY <1>3, <1>4

\* A packet is read, with d messages acknowledged.
ReadsPacket(m, n, d) ==
  /\ m.in # <<>> /\ n.in = Tail(m.in)
  /\ n.out = m.out /\ n.cut = m.cut /\ n.connected = m.connected /\ n.peer = m.peer
  /\ d = 1 <=> m.in[1].type = "PUBACK"
  /\ Len(n.outbound) = Len(m.outbound) - d
  /\ \A j \in 1..(Len(m.outbound) - d) : n.outbound[j] = m.outbound[j + d]

\* The places behind it move up, by the message that was acknowledged too.
LEMMA LinedRead ==
  ASSUME NEW m, Sound(m), NEW n, Sound(n), NEW reached, Lined(m, reached), NEW d \in {0, 1}, ReadsPacket(m, n, d)
  PROVE  Lined(n, reached)
<1>0. /\ m.in # <<>> /\ n.in = Tail(m.in)
      /\ n.out = m.out /\ n.cut = m.cut /\ n.connected = m.connected /\ n.peer = m.peer
      /\ d = 1 <=> m.in[1].type = "PUBACK"
      /\ Len(n.outbound) = Len(m.outbound) - d
      /\ \A j \in 1..(Len(m.outbound) - d) : n.outbound[j] = m.outbound[j + d]
  BY DEF ReadsPacket
<1> USE <1>0
<1>1. PICK b \in 0..Len(m.outbound) : \E e \in [1..b -> 1..(Len(m.in) + Len(m.out))] :
        InLine(m, reached, b, e) /\ Rest(m, b)
  BY DEF Lined
<1>2. PICK e \in [1..b -> 1..(Len(m.in) + Len(m.out))] : InLine(m, reached, b, e) /\ Rest(m, b)
  BY <1>1
<1> DEFINE L == Len(m.in)
           K == Len(m.out)
           O == Len(m.outbound)
           a == b - d
           f == [j \in 1..a |-> e[j + d] - 1]
<1>3. L \in Nat /\ L >= 1 /\ K \in Nat /\ O \in Nat /\ b \in Nat /\ b <= O /\ Len(n.in) = L - 1 /\ Len(n.out) = K
      /\ \A i \in 1..(L - 1) : n.in[i] = m.in[i + 1]
  BY DEF Sound, SocketOK
<1>4. /\ d = 1 => b >= 1 /\ e[1] = 1 /\ \A j \in 1..b : j # 1 => e[j] > 1
      /\ d = 0 => \A j \in 1..b : e[j] > 1
  <2>1. /\ m.in[1].type = "PUBACK" => b >= 1 /\ e[1] = 1 /\ \A j \in 1..b : j # 1 => e[j] > 1
        /\ m.in[1].type # "PUBACK" => \A j \in 1..b : e[j] > 1
    BY <1>2, FirstPacket
  <2> QED
    BY <2>1
<1>5. /\ e \in [1..b -> 1..(L + K)] /\ \A j, k \in 1..b : j < k => e[j] < e[k]
      /\ \A j \in 1..b : IF e[j] <= L THEN m.in[e[j]].id = m.outbound[j].id /\ m.outbound[j].n \in reached
                         ELSE m.out[e[j] - L] = m.outbound[j]
      /\ \A k \in 1..(L + K) : Tracked(m, k) <=> \E j \in 1..b : e[j] = k
  BY <1>2 DEF InLine
<1>6. \A k : Tracked(m, k) <=> IF k <= L THEN m.in[k].type = "PUBACK" ELSE m.out[k - L].kind = "pub1"
  BY DEF Tracked
<1>7. \A k : Tracked(n, k) <=> IF k <= L - 1 THEN n.in[k].type = "PUBACK" ELSE m.out[k - (L - 1)].kind = "pub1"
  BY <1>3 DEF Tracked
<1>8. /\ m.cut.kind = "pub1" => b < O /\ m.cut = m.outbound[O]
      /\ m.connected /\ m.peer \in {"open", "syn"} => O = IF m.cut.kind = "pub1" THEN b + 1 ELSE b
  BY <1>2 DEF Rest
<1>9. Len(n.outbound) = O - d /\ \A j \in 1..(O - d) : n.outbound[j] = m.outbound[j + d]
  OBVIOUS
<1> HIDE DEF L, K, O
<1>10. /\ d \in Nat /\ a \in Nat /\ a <= b /\ a <= O - d /\ a \in 0..(O - d)
       /\ \A j \in 1..a : j + d \in 1..b /\ j \in 1..(O - d)
       /\ \A j \in 1..b : (d = 1 /\ j = 1) \/ (j - d \in 1..a /\ (j - d) + d = j)
       /\ \A j, k \in 1..a : j < k => j + d < k + d
  BY <1>3, <1>4
<1>11. \A j \in 1..a : e[j + d] > 1 /\ e[j + d] \in 1..(L + K)
  <2> SUFFICES ASSUME NEW j \in 1..a PROVE e[j + d] > 1 /\ e[j + d] \in 1..(L + K)
    OBVIOUS
  <2>1. j + d \in 1..b /\ (d = 1 => j + d # 1) /\ (d = 0 \/ d = 1)
    BY <1>10
  <2> HIDE DEF a
  <2> QED
    BY <1>4, <1>5, <2>1
<1>12. \A j \in 1..a : f[j] = e[j + d] - 1
  OBVIOUS
<1>13. f \in [1..a -> 1..((L - 1) + K)]
  <2> SUFFICES ASSUME NEW j \in 1..a PROVE e[j + d] - 1 \in 1..((L - 1) + K)
    OBVIOUS
  <2>1. e[j + d] > 1 /\ e[j + d] \in 1..(L + K)
    BY <1>11
  <2> DEFINE x == e[j + d]
  <2> HIDE DEF x, a
  <2>2. x > 1 /\ x \in 1..(L + K)
    BY <2>1 DEF x
  <2>3. x - 1 \in 1..((L - 1) + K)
    BY <1>3, <2>2
  <2> QED
    BY <2>3 DEF x
<1> HIDE DEF a, f
<1>14. ASSUME NEW k \in 1..((L - 1) + K) PROVE k + 1 \in 1..(L + K) /\ (Tracked(n, k) <=> Tracked(m, k + 1))
  <2>0. k \in Int /\ L \in Int /\ K \in Int /\ 1 <= k
    BY <1>3
  <2>1. /\ k + 1 \in 1..(L + K) /\ (k <= L - 1 => k + 1 <= L) /\ (k + 1 <= L => k <= L - 1)
        /\ (k <= L - 1 => k \in 1..(L - 1))
        /\ k - (L - 1) = (k + 1) - L
    <3>1. k + 1 \in 1..(L + K)
      BY <1>3
    <3>2. (k <= L - 1 => k + 1 <= L) /\ (k + 1 <= L => k <= L - 1)
      BY <2>0
    <3>3. k <= L - 1 => k \in 1..(L - 1)
      BY <2>0
    <3>4. k - (L - 1) = (k + 1) - L
      BY <2>0
    <3> QED
      BY <3>1, <3>2, <3>3, <3>4
  <2>2. k <= L - 1 => n.in[k] = m.in[k + 1]
    BY <1>3, <2>1
  <2>3. CASE k <= L - 1
    BY <1>6, <1>7, <2>1, <2>2, <2>3
  <2>4. CASE ~(k <= L - 1)
    BY <1>6, <1>7, <2>1, <2>4
  <2> QED
    BY <2>1, <2>3, <2>4
<1>15. InLine(n, reached, a, f)
  <2>1. a \in 0..Len(n.outbound) /\ f \in [1..a -> 1..(Len(n.in) + Len(n.out))]
    BY <1>3, <1>9, <1>10, <1>13
  <2>2. ASSUME NEW j \in 1..a, NEW k \in 1..a, j < k PROVE f[j] < f[k]
    <3>1. j + d \in 1..b /\ k + d \in 1..b /\ j + d < k + d
      BY <1>10, <2>2
    <3>2. e[j + d] < e[k + d] /\ e[j + d] \in Int /\ e[k + d] \in Int
      BY <1>5, <3>1
    <3>3. e[j + d] - 1 < e[k + d] - 1
      BY <3>2
    <3> QED
      BY <1>12, <3>3
  <2>3. ASSUME NEW j \in 1..a
        PROVE  IF f[j] <= Len(n.in) THEN n.in[f[j]].id = n.outbound[j].id /\ n.outbound[j].n \in reached
               ELSE n.out[f[j] - Len(n.in)] = n.outbound[j]
    <3> DEFINE x == e[j + d]
    <3>1. x \in 1..(L + K) /\ x > 1 /\ f[j] = x - 1 /\ j + d \in 1..b /\ n.outbound[j] = m.outbound[j + d]
      BY <1>9, <1>10, <1>11, <1>12
    <3>2. IF x <= L THEN m.in[x].id = m.outbound[j + d].id /\ m.outbound[j + d].n \in reached
          ELSE m.out[x - L] = m.outbound[j + d]
      BY <1>5, <3>1
    <3> HIDE DEF x
    <3>3. /\ (x - 1 <= L - 1 => x <= L) /\ (x <= L => x - 1 <= L - 1)
          /\ (x <= L => x - 1 \in 1..(L - 1)) /\ (x - 1) + 1 = x
          /\ (x - 1) - (L - 1) = x - L
      <4>0. x \in Int /\ L \in Int /\ 1 < x
        BY <1>3, <3>1
      <4>1. (x - 1 <= L - 1 => x <= L) /\ (x <= L => x - 1 <= L - 1)
        BY <4>0
      <4>2. (x <= L => x - 1 \in 1..(L - 1)) /\ (x - 1) + 1 = x
        BY <4>0
      <4>3. (x - 1) - (L - 1) = x - L
        BY <4>0
      <4> QED
        BY <4>1, <4>2, <4>3
    <3>4. CASE x <= L
      <4>1. n.in[x - 1] = m.in[x]
        BY <1>3, <3>3, <3>4
      <4> QED
        BY <1>3, <3>1, <3>2, <3>3, <3>4, <4>1
    <3>5. CASE ~(x <= L)
      BY <1>3, <3>1, <3>2, <3>3, <3>5
    <3> QED
      BY <3>4, <3>5
  <2>4. ASSUME NEW k \in 1..((L - 1) + K) PROVE Tracked(n, k) <=> \E j \in 1..a : f[j] = k
    <3>1. (\E j \in 1..b : e[j] = k + 1) <=> \E j \in 1..a : f[j] = k
      <4>1. ASSUME NEW j \in 1..b, e[j] = k + 1 PROVE \E i \in 1..a : f[i] = k
        <5>1. ~(d = 1 /\ j = 1)
          <6>1. k + 1 # 1
            BY <1>3
          <6> QED
            BY <1>4, <4>1, <6>1
        <5>2. j - d \in 1..a /\ (j - d) + d = j
          BY <1>3, <1>10, <5>1 DEF a
        <5>3. f[j - d] = e[j] - 1
          BY <1>12, <5>2
        <5> QED
          BY <1>3, <4>1, <5>2, <5>3
      <4>2. ASSUME NEW j \in 1..a, f[j] = k PROVE \E i \in 1..b : e[i] = k + 1
        <5>1. j + d \in 1..b /\ e[j + d] \in Int /\ k = e[j + d] - 1
          BY <1>10, <1>11, <1>12, <4>2
        <5> QED
          BY <5>1
      <4> QED
        BY <4>1, <4>2
    <3>2. k + 1 \in 1..(L + K) /\ (Tracked(n, k) <=> Tracked(m, k + 1))
      BY <1>14
    <3> QED
      BY <1>5, <3>1, <3>2
  <2>5. \A k \in 1..(Len(n.in) + Len(n.out)) : Tracked(n, k) <=> \E j \in 1..a : f[j] = k
    BY <1>3, <2>4
  <2> QED
    BY <2>1, <2>2, <2>3, <2>5 DEF InLine
<1>16. Rest(n, a)
  <2>1. m.cut.kind = "pub1" => a < O - d /\ m.cut = n.outbound[O - d]
    <3>1. b < O => a < O - d /\ O - d \in 1..(O - d) /\ (O - d) + d = O
      BY <1>3, <1>10 DEF a
    <3> QED
      BY <1>8, <1>9, <3>1
  <2>2. m.connected /\ m.peer \in {"open", "syn"} => O - d = IF m.cut.kind = "pub1" THEN a + 1 ELSE a
    BY <1>3, <1>8 DEF a
  <2> QED
    BY <1>9, <2>1, <2>2 DEF Rest
<1>17. a \in 0..Len(n.outbound) /\ f \in [1..a -> 1..(Len(n.in) + Len(n.out))]
  BY <1>15 DEF InLine
<1> QED
  BY <1>15, <1>16, <1>17 DEF Lined

\* handlePubacks, when the first message has the id.
LEMMA FirstRemoved ==
  ASSUME NEW list \in Seq(Calls), list # <<>>, NEW id, list[1].id = id
  PROVE  WithoutFirst(list, id) = Tail(list)
<1>1. Len(list) \in Nat /\ Len(list) >= 1 /\ DOMAIN list = 1..Len(list)
  OBVIOUS
<1>2. First(list, id) = {1}
  <2>1. 1 \in First(list, id)
    BY <1>1 DEF First
  <2>2. ASSUME NEW i \in First(list, id) PROVE i = 1
    <3>1. i \in 1..Len(list) /\ \A j \in 1..(i - 1) : list[j].id # id
      BY <1>1 DEF First
    <3>2. i # 1 => 1 \in 1..(i - 1)
      BY <3>1
    <3> QED
      BY <3>1, <3>2
  <2> QED
    BY <2>1, <2>2
<1>3. (CHOOSE i \in {1} : TRUE) = 1
  OBVIOUS
<1>4. WithoutFirst(list, id) = RemoveAt(list, 1)
  BY <1>2, <1>3 DEF WithoutFirst, WithoutOne
<1> DEFINE u == SubSeq(list, 1, 1 - 1)
           v == SubSeq(list, 1 + 1, Len(list))
<1>5. RemoveAt(list, 1) = u \o v
  BY DEF RemoveAt
<1>6. u = <<>>
  BY <1>1
<1>7. v \in Seq(Calls) /\ v = Tail(list)
  BY <1>1
<1> HIDE DEF u, v
<1>8. u \o v = v
  BY <1>6, <1>7
<1> QED
  BY <1>4, <1>5, <1>7, <1>8

\* While there is a connection, the packets that are left begin no session.
LEMMA SessionRead ==
  ASSUME SessionInv, UNCHANGED broker, am.connected,
         ToSet(am'.in) \subseteq ToSet(am.in), recv'.pack \in ToSet(am.in) \cup {recv.pack, NoAnswer}
  PROVE  SessionInv'
<1>1. broker.session /\ ~Begins(recv.pack, am.in)
  BY DEF SessionInv
<1>2. ~NewSession(NoAnswer)
  BY DEF NewSession, OkConnack, NoAnswer
<1>3. ~Begins(recv'.pack, am'.in)
  BY <1>1, <1>2 DEF Begins
<1>4. \A j \in DOMAIN am'.in : ~NewSession(am'.in[j])
  BY <1>3 DEF Begins, ToSet
<1>5. broker'.session
  BY <1>1
<1> QED
  BY <1>3, <1>4, <1>5 DEF SessionInv, Begins, Before

\* The subscriptions on their way when packets are read.
LEMMA SubsRead ==
  ASSUME NEW out, NEW in, NEW pack, NEW less, NEW next,
         ToSet(less) \subseteq ToSet(in), next \in ToSet(in) \cup {pack} \/ next.type # "SUBACK"
  PROVE  SubsIn(out, less, next) \subseteq SubsIn(out, in, pack)
<1> DEFINE A == {x \in ToSet(out) : x.kind = "sub"}
           B == {x \in ToSet(in) \cup {pack} : x.type = "SUBACK"}
           D == {x \in ToSet(less) \cup {next} : x.type = "SUBACK"}
<1>1. D \subseteq B
  OBVIOUS
<1>2. SubsIn(out, in, pack) = {c.id : c \in A} \cup {p.id : p \in B}
      /\ SubsIn(out, less, next) = {c.id : c \in A} \cup {p.id : p \in D}
  BY DEF SubsIn
<1> HIDE DEF A, B, D
<1> QED
  BY <1>1, <1>2

\* A PUBACK is handled: the message it is for has reached the broker, and so has
\* the one whose call is told, unless that was given the id of one in flight.
LEMMA AckedDelivers ==
  ASSUME DeliveryInv, Unlocked, RecvAlone, UNCHANGED broker,
         am.in # <<>>, am.in[1].type = "PUBACK",
         am' = [Acked(am, am.in[1].id) EXCEPT !.in = Tail(@)],
         told' = Tell(Answered(am.in[1].id), "ok"), Result(NoAnswer, 0)
  PROVE  DeliveryInv'
<1> DEFINE id == am.in[1].id
           o == am.outbound[1]
           ns == Answered(id)
<1>2. TypesInv /\ HandInv /\ Sound(am) /\ ClientOK(am) /\ LinkOK(am) /\ SessionInv /\ Lined(am, broker.reached) /\ KnownInv
      /\ KeptInv /\ (~crashed => FirstLife) /\ HandLink /\ ToldInv /\ RecvInv
  BY DEF DeliveryInv, TypesInv, Sound
<1>3. am.in \in Seq(Answers) /\ am.outbound \in Seq(Calls) /\ am.responses \in Seq(Calls)
  BY <1>2 DEF Sound, ClientOK, SocketOK
<1>4. /\ Tail(am.in) \in Seq(Answers)
      /\ ToSet(am.in) = {am.in[1]} \cup ToSet(Tail(am.in))
  BY <1>3, SetTail
<1>5. am.connected
  BY <1>2, <1>4 DEF LinkOK
<1>6. am.outbound # <<>> /\ o.id = id /\ o.n \in broker.reached
  BY <1>2, LinedFirst
<1>7. WithoutFirst(am.outbound, id) = Tail(am.outbound)
  BY <1>3, <1>6, FirstRemoved
<1>8. /\ Tail(am.outbound) \in Seq(Calls) /\ ToSet(am.outbound) = {o} \cup ToSet(Tail(am.outbound))
  BY <1>3, <1>6, SetTail
<1>9. First(am.responses, id) \in SUBSET DOMAIN am.responses
  BY <1>3, FirstFacts
<1>10. WithoutFirst(am.responses, id) \in Seq(Calls) /\ ToSet(WithoutFirst(am.responses, id)) \subseteq ToSet(am.responses)
  BY <1>3, <1>9, WithoutSet DEF WithoutFirst
<1>11. /\ DOMAIN am' = DOMAIN am /\ am'.commands = am.commands
       /\ am'.responses = WithoutFirst(am.responses, id) /\ am'.outbound = Tail(am.outbound)
       /\ am'.pending_write = am.pending_write /\ am'.uri = am.uri /\ am'.disconnect = am.disconnect
       /\ am'.in = Tail(am.in) /\ am'.out = am.out /\ am'.cut = am.cut /\ am'.connected = am.connected
       /\ am'.peer = am.peer /\ am'.state = am.state /\ am'.msgID = am.msgID
  BY <1>2, <1>7 DEF ClientOK, Acked
<1>12. Sound(am')
  BY <1>2, <1>4, <1>8, <1>10, <1>11 DEF Sound, ClientOK, SocketOK
<1>13. Hears(ns, "ok")
  BY <1>2, HearsTell DEF Outcomes
<1>14. RecvInv' /\ recv'.pack = NoAnswer /\ NoAnswer \in Answers /\ NoAnswer.type \notin {"PUBACK", "SUBACK"}
  BY <1>2 DEF Result, RecvInv, NoAnswer, Answers
<1>15. TypesInv' /\ UNCHANGED <<calling, admitted, lost, crashed, broker, hand>>
  BY <1>2, <1>12, <1>13, <1>14, RecvTypes DEF Hears
<1>16. LinkOK(am')
  BY <1>2, <1>5, <1>11 DEF LinkOK
<1>17. HandLink' /\ HeldSet(hand.cmd) = {}
  <2>1. HandLink'
    BY <1>2, <1>11, <1>15 DEF HandLink
  <2> QED
    BY <1>2, <2>1, ControlCommands DEF HandInv, Unlocked, HeldSet
<1>18. SessionInv'
  BY <1>2, <1>4, <1>5, <1>11, <1>14, SessionRead
<1>19. Lined(am', broker.reached)
  <2>1. PICK d \in {0, 1} : d = 1
    OBVIOUS
  <2> DEFINE list == am.outbound
  <2>2. list \in Seq(Calls) /\ list # <<>> /\ am'.outbound = Tail(list)
    BY <1>3, <1>6, <1>11
  <2> HIDE DEF list
  <2>3. Len(am'.outbound) = Len(list) - 1 /\ \A j \in 1..(Len(list) - 1) : am'.outbound[j] = list[j + 1]
    BY <2>2
  <2>4. Len(am'.outbound) = Len(am.outbound) - d
        /\ \A j \in 1..(Len(am.outbound) - d) : am'.outbound[j] = am.outbound[j + d]
    BY <2>1, <2>3 DEF list
  <2>5. d = 1 <=> am.in[1].type = "PUBACK"
    BY <2>1
  <2> QED
    <3>1. ReadsPacket(am, am', d)
      BY <1>11, <2>4, <2>5 DEF ReadsPacket
    <3> QED
      BY <1>2, <1>12, <3>1, LinedRead
<1>20. Lined(am', broker'.reached)
  BY <1>15, <1>19
<1>21. Unsent' = Unsent /\ Waiting' \subseteq Waiting /\ Flying = {o} \cup Flying' /\ Known' \subseteq Known
  <2>1. Unsent' = Unsent
    BY <1>11, <1>15 DEF Unsent
  <2>2. Waiting' \subseteq Waiting /\ Flying = {o} \cup Flying'
    BY <1>8, <1>10, <1>11 DEF Waiting, Flying
  <2>3. Known' \subseteq Known
    BY <1>11, <1>15, <2>2 DEF Known
  <2> QED
    BY <2>1, <2>2, <2>3
<1>22. SubsIn(am'.out, am'.in, recv'.pack) \subseteq SubsIn(am.out, am.in, recv.pack)
  BY <1>4, <1>11, <1>14, SubsRead
<1>23. am.outbound \in Seq(Commands)
  <2>1. Calls \subseteq Commands
    BY DEF Commands
  <2> QED
    BY <1>3, <2>1, SeqMonotonic
<1>24. /\ CallSet(am.outbound) = HeldSet(o) \cup CallSet(Tail(am.outbound))
       /\ Rising(am.outbound) => /\ Rising(Tail(am.outbound))
                                 /\ \A x \in HeldSet(o), y \in CallSet(Tail(am.outbound)) : x.n < y.n
  BY <1>6, <1>23, RisingTail
<1>25. Flying \subseteq Calls /\ Waiting \subseteq Calls /\ Waiting \subseteq Known /\ \A x \in Calls : IsCall(x)
  BY <1>2, Accepted DEF Calls, IsCall
<1>26. ASSUME ~crashed PROVE OrderInv' /\ SubsInv'
  <2>1. FirstLife
    BY <1>2, <1>26
  <2>2. SubsInv'
    BY <1>2, <1>11, <1>21, <1>22, <2>1, SubsStep
  <2>3. OrderInv'
    BY <1>11, <1>15, <1>21, <1>24, <2>1 DEF FirstLife, OrderInv
  <2> QED
    BY <2>2, <2>3
<1>27. ASSUME NEW k \in ns
       PROVE  /\ k \in DOMAIN admitted
              /\ ~crashed /\ k \in Publishes /\ admitted[k].fresh => k \in broker.reached
  <2>1. PICK i \in First(am.responses, id) : k = am.responses[i].n
    BY <1>27 DEF Answered
  <2> DEFINE r == am.responses[i]
  <2>2. r \in Waiting /\ r.id = id
    BY <1>9, <2>1 DEF First, Waiting, ToSet
  <2> HIDE DEF r
  <2>3. k = r.n
    BY <2>1 DEF r
  <2>4. r \in Known /\ r.n \in DOMAIN admitted /\ admitted[r.n].kind = r.kind
    BY <1>2, <1>25, <2>2 DEF KnownInv
  <2>5. ASSUME ~crashed, r.n \in Publishes, admitted[r.n].fresh PROVE r.n \in broker.reached
    <3>1. FirstLife /\ r.kind = "pub1"
      BY <1>2, <2>4, <2>5 DEF Publishes
    <3>2. CASE r \in Flying /\ r # o
      <4>1. r \in CallSet(Tail(am.outbound)) /\ o \in HeldSet(o) /\ o \in Flying
        BY <1>8, <1>21, <1>25, <3>2 DEF CallSet, HeldSet, Flying
      <4>2. o.n < r.n
        BY <1>24, <3>1, <4>1 DEF FirstLife, OrderInv
      <4>3. ~admitted[r.n].fresh
        BY <1>6, <2>2, <2>4, <3>1, <3>2, <4>1, <4>2 DEF FirstLife, FreshInv
      <4> QED
        BY <2>5, <4>3
    <3>3. CASE r = o
      BY <1>6, <3>3
    <3> QED
      BY <2>2, <3>1, <3>2, <3>3 DEF FirstLife, AnswersInv
  <2> QED
    BY <2>3, <2>4, <2>5
<1>28. broker'.reached = broker.reached /\ broker.reached \subseteq DOMAIN admitted
  BY <1>2, <1>15 DEF KnownInv
<1>29. ASSUME ~crashed PROVE FlightMoves
  <2>1. FirstLife
    BY <1>2, <1>29
  <2>2. ASSUME NEW y \in Waiting \ Waiting', y \in Flying' PROVE ~admitted[y.n].fresh
    <3>0. y \in ToSet(am.responses) \ ToSet(WithoutOne(am.responses, First(am.responses, id)))
      BY <1>11, <2>2 DEF Waiting, WithoutFirst
    <3>1. PICK i \in First(am.responses, id) : y = am.responses[i]
      <4> DEFINE places == First(am.responses, id)
      <4>1. places \in SUBSET DOMAIN am.responses
        BY <1>9
      <4> HIDE DEF places
      <4>2. \E i \in places : y = am.responses[i]
        BY <1>3, <3>0, <4>1, WithoutLeaves DEF places
      <4> QED
        BY <4>2 DEF places
    <3>2. y.id = id
      BY <3>1 DEF First
    <3>3. y \in CallSet(Tail(am.outbound)) /\ o \in HeldSet(o) /\ o \in Flying /\ y \in Flying
      BY <1>11, <1>21, <1>25, <2>2 DEF CallSet, HeldSet, Flying
    <3>4. o.n < y.n
      BY <1>24, <2>1, <3>3 DEF FirstLife, OrderInv
    <3>5. y.n \in DOMAIN admitted
      BY <1>2, <1>25, <2>2 DEF KnownInv
    <3> QED
      BY <1>6, <2>1, <3>2, <3>3, <3>4, <3>5 DEF FirstLife, FreshInv
  <2> QED
    BY <1>21, <2>2 DEF FlightMoves
<1> HIDE DEF ns, o, id
<1>30. KnownInv' /\ KeptInv' /\ (~crashed' => FirstLife')
  BY <1>2, <1>6, <1>11, <1>13, <1>15, <1>21, <1>26, <1>27, <1>28, <1>29, MoveStep
<1> QED
  BY <1>15, <1>16, <1>17, <1>18, <1>20, <1>30 DEF DeliveryInv

\* Another packet is read, and passed on.
LEMMA ReadDelivers ==
  ASSUME DeliveryInv, RecvAlone, UNCHANGED <<broker, told>>,
         am.in # <<>>, am.in[1].type # "PUBACK",
         am' = [am EXCEPT !.in = Tail(@)], Result(am.in[1], 0)
  PROVE  DeliveryInv'
<1>2. TypesInv /\ HandInv /\ Sound(am) /\ ClientOK(am) /\ LinkOK(am) /\ SessionInv /\ Lined(am, broker.reached) /\ KnownInv
      /\ KeptInv /\ (~crashed => FirstLife) /\ HandLink /\ ToldInv /\ RecvInv
  BY DEF DeliveryInv, TypesInv, Sound
<1>3. am.in \in Seq(Answers)
  BY <1>2 DEF Sound, SocketOK
<1>4. /\ Tail(am.in) \in Seq(Answers) /\ am.in[1] \in Answers
      /\ ToSet(am.in) = {am.in[1]} \cup ToSet(Tail(am.in))
  BY <1>3, SetTail
<1>5. /\ DOMAIN am' = DOMAIN am /\ am'.commands = am.commands
      /\ am'.responses = am.responses /\ am'.outbound = am.outbound
      /\ am'.pending_write = am.pending_write /\ am'.uri = am.uri /\ am'.disconnect = am.disconnect
      /\ am'.in = Tail(am.in) /\ am'.out = am.out /\ am'.cut = am.cut /\ am'.connected = am.connected
      /\ am'.peer = am.peer /\ am'.state = am.state /\ am'.msgID = am.msgID
  BY <1>2 DEF ClientOK
<1>6. Sound(am')
  BY <1>2, <1>4, <1>5 DEF Sound, ClientOK, SocketOK
<1>7. Hears({}, "ok")
  BY <1>2, HearsNone
<1>8. RecvInv' /\ recv'.pack = am.in[1]
  BY <1>2 DEF Result, RecvInv
<1>9. TypesInv' /\ UNCHANGED <<calling, admitted, lost, crashed, broker, hand>>
  BY <1>2, <1>4, <1>6, <1>7, <1>8, RecvTypes DEF Hears
<1>10. LinkOK(am')
  BY <1>2, <1>4, <1>5 DEF LinkOK
<1>11. HandLink'
  BY <1>2, <1>5, <1>9 DEF HandLink
<1>12. SessionInv'
  <2>1. Before(recv'.pack, am'.in) => Before(recv.pack, am.in)
    BY <1>4, <1>5, <1>8 DEF Before
  <2>2. Begins(recv'.pack, am'.in) => Begins(recv.pack, am.in)
    BY <1>4, <1>5, <1>8 DEF Begins
  <2>3. ASSUME NEW j \in DOMAIN am'.in, NewSession(am'.in[j])
        PROVE  ~OkConnack(recv'.pack) /\ \A i \in 1..(j - 1) : ~OkConnack(am'.in[i])
    <3> DEFINE L == Len(am.in)
    <3>1. L \in Nat /\ DOMAIN am'.in = 1..(L - 1) /\ DOMAIN am.in = 1..L /\ \A i \in 1..(L - 1) : am'.in[i] = am.in[i + 1]
      BY <1>3, <1>5
    <3> HIDE DEF L
    <3>2. j + 1 \in DOMAIN am.in /\ am'.in[j] = am.in[j + 1] /\ 1 \in 1..((j + 1) - 1)
      BY <2>3, <3>1
    <3>3. \A i \in 1..((j + 1) - 1) : ~OkConnack(am.in[i])
      BY <1>2, <2>3, <3>2 DEF SessionInv
    <3>4. \A i \in 1..(j - 1) : i + 1 \in 1..((j + 1) - 1) /\ i \in 1..(L - 1)
      BY <2>3, <3>1
    <3> QED
      BY <1>8, <3>1, <3>2, <3>3, <3>4
  <2>4. ~broker.session => ~Before(recv.pack, am.in)
    BY <1>2 DEF SessionInv
  <2>5. ~broker.session \/ Begins(recv.pack, am.in) =>
          am.outbound = <<>> /\ ~am.connected /\ calling.kind # "sub"
    BY <1>2 DEF SessionInv
  <2>6. ~broker'.session => ~Before(recv'.pack, am'.in)
    BY <1>9, <2>1, <2>4
  <2>7. ~broker'.session \/ Begins(recv'.pack, am'.in) =>
          am'.outbound = <<>> /\ ~am'.connected /\ calling'.kind # "sub"
    BY <1>5, <1>9, <2>2, <2>5
  <2> QED
    BY <2>3, <2>6, <2>7 DEF SessionInv, Begins, Before
<1>13. Lined(am', broker.reached)
  <2>1. PICK d \in {0, 1} : d = 0
    OBVIOUS
  <2>2. Len(am'.outbound) = Len(am.outbound) - d
        /\ \A j \in 1..(Len(am.outbound) - d) : am'.outbound[j] = am.outbound[j + d]
    BY <1>2, <1>5, <2>1 DEF Sound, SocketOK
  <2>3. d = 1 <=> am.in[1].type = "PUBACK"
    BY <2>1
  <2> QED
    <3>1. ReadsPacket(am, am', d)
      BY <1>5, <2>2, <2>3 DEF ReadsPacket
    <3> QED
      BY <1>2, <1>6, <3>1, LinedRead
<1>14. Lined(am', broker'.reached)
  BY <1>9, <1>13
<1>15. Unsent' = Unsent /\ Waiting' = Waiting /\ Flying' = Flying /\ Known' = Known
  BY <1>5, <1>9 DEF Unsent, Waiting, Flying, Known
<1>16. SubsIn(am'.out, am'.in, recv'.pack) \subseteq SubsIn(am.out, am.in, recv.pack)
  BY <1>4, <1>5, <1>8, SubsRead
<1>17. ASSUME ~crashed PROVE OrderInv' /\ SubsInv'
  <2>1. FirstLife
    BY <1>2, <1>17
  <2>2. SubsInv'
    BY <1>2, <1>5, <1>15, <1>16, <2>1, SubsStep
  <2>3. OrderInv'
    BY <1>5, <1>9, <1>15, <2>1 DEF FirstLife, OrderInv
  <2> QED
    BY <2>2, <2>3
<1>18. broker'.reached = broker.reached /\ broker.reached \subseteq DOMAIN admitted
  BY <1>2, <1>9 DEF KnownInv
<1>19. KnownInv' /\ KeptInv' /\ (~crashed' => FirstLife')
  <2>1. FlightMoves
    BY <1>15 DEF FlightMoves
  <2> QED
    BY <1>2, <1>5, <1>7, <1>9, <1>15, <1>17, <1>18, <2>1, MoveStep
<1> QED
  BY <1>9, <1>10, <1>11, <1>12, <1>14, <1>19 DEF DeliveryInv

\* MQTTAsync_cycle.
LEMMA RecvCycleDelivers ==
  ASSUME ~AsyncClean, DeliveryInv, RecvCycle
  PROVE  DeliveryInv'
<1>1. CASE ~(am.state # "TCP_IN_PROGRESS" /\ Reading /\ am.in # <<>>)
  BY <1>1, IdleCycleDelivers
<1>2. CASE am.state # "TCP_IN_PROGRESS" /\ Reading /\ am.in # <<>>
  <2>1. UNCHANGED broker /\ RecvAlone /\ Unlocked
    BY DEF RecvCycle
  <2>2. CASE am.in[1].type = "PUBACK"
    <3>1. /\ am' = [Acked(am, am.in[1].id) EXCEPT !.in = Tail(@)]
          /\ told' = Tell(Answered(am.in[1].id), "ok") /\ Result(NoAnswer, 0)
      BY <1>2, <2>2 DEF Reading
    <3> QED
      BY <1>2, <2>1, <2>2, <3>1, AckedDelivers
  <2>3. CASE am.in[1].type # "PUBACK"
    <3>1. am' = [am EXCEPT !.in = Tail(@)] /\ Result(am.in[1], 0) /\ UNCHANGED told
      BY <1>2, <2>3 DEF Reading
    <3> QED
      BY <1>2, <2>1, <2>3, <3>1, ReadDelivers
  <2> QED
    BY <2>2, <2>3
<1> QED
  BY <1>1, <1>2
-------------------------------------------------------------------------------
\* The receive thread, when it passes a packet on.

\* A SUBACK tells the call of a subscription.
LEMMA SubackDelivers ==
  ASSUME DeliveryInv, Unlocked, RecvAlone, UNCHANGED broker, recv.pack.type = "SUBACK",
         am' = [am EXCEPT !.responses = WithoutFirst(@, recv.pack.id)],
         told' = Tell(Answered(recv.pack.id), "ok"),
         recv' = [pc |-> "select", sock |-> 0, pack |-> NoAnswer, rc |-> 0]
  PROVE  DeliveryInv'
<1> DEFINE id == recv.pack.id
           ns == Answered(id)
<1>2. TypesInv /\ HandInv /\ Sound(am) /\ ClientOK(am) /\ LinkOK(am) /\ SessionInv /\ Lined(am, broker.reached) /\ KnownInv
      /\ KeptInv /\ (~crashed => FirstLife) /\ HandLink /\ ToldInv /\ RecvInv
  BY DEF DeliveryInv, TypesInv, Sound
<1>3. am.responses \in Seq(Calls)
  BY <1>2 DEF ClientOK
<1>4. First(am.responses, id) \in SUBSET DOMAIN am.responses
  BY <1>3, FirstFacts
<1>5. WithoutFirst(am.responses, id) \in Seq(Calls) /\ ToSet(WithoutFirst(am.responses, id)) \subseteq ToSet(am.responses)
  BY <1>3, <1>4, WithoutSet DEF WithoutFirst
<1>6. /\ DOMAIN am' = DOMAIN am /\ am'.commands = am.commands
      /\ am'.responses = WithoutFirst(am.responses, id) /\ am'.outbound = am.outbound
      /\ am'.pending_write = am.pending_write /\ am'.uri = am.uri /\ am'.disconnect = am.disconnect
      /\ am'.in = am.in /\ am'.out = am.out /\ am'.cut = am.cut /\ am'.connected = am.connected
      /\ am'.peer = am.peer /\ am'.state = am.state /\ am'.msgID = am.msgID
  BY <1>2 DEF ClientOK
<1>7. Sound(am')
  BY <1>2, <1>5, <1>6 DEF Sound, ClientOK, SocketOK
<1>8. Hears(ns, "ok")
  BY <1>2, HearsTell DEF Outcomes
<1>9. RecvInv' /\ recv'.pack = NoAnswer /\ NoAnswer \in Answers /\ NoAnswer.type \notin {"PUBACK", "SUBACK", "CONNACK"}
  BY DEF RecvInv, NoAnswer, Answers
<1>10. TypesInv' /\ UNCHANGED <<calling, admitted, lost, crashed, broker, hand>>
  BY <1>2, <1>7, <1>8, <1>9, RecvTypes DEF Hears
<1>11. LinkOK(am')
  BY <1>2, <1>6 DEF LinkOK
<1>12. HandLink'
  BY <1>2, <1>6, <1>10 DEF HandLink
<1>13. SessionInv'
  <2>1. ~OkConnack(recv'.pack) /\ ~NewSession(recv'.pack)
    BY <1>9 DEF OkConnack, NewSession
  <2> QED
    BY <1>2, <1>6, <1>10, <2>1 DEF SessionInv, Begins, Before
<1>14. Lined(am', broker.reached)
  <2>1. /\ am'.in = am.in /\ am'.out = am.out /\ am'.outbound = am.outbound /\ am'.cut = am.cut
        /\ am'.connected = am.connected /\ am'.peer = am.peer
    BY <1>6
  <2> QED
    BY <1>2, <2>1, LinedSame
<1>15. Lined(am', broker'.reached)
  BY <1>10, <1>14
<1>16. Unsent' = Unsent /\ Waiting' \subseteq Waiting /\ Flying' = Flying /\ Known' \subseteq Known
  <2>1. Unsent' = Unsent
    BY <1>6, <1>10 DEF Unsent
  <2>2. Waiting' \subseteq Waiting /\ Flying' = Flying
    BY <1>5, <1>6 DEF Waiting, Flying
  <2> QED
    BY <1>6, <1>10, <2>1, <2>2 DEF Known
<1>17. SubsIn(am'.out, am'.in, recv'.pack) \subseteq SubsIn(am.out, am.in, recv.pack)
  BY <1>6, <1>9, SubsRead
<1>18. ASSUME ~crashed PROVE OrderInv' /\ SubsInv'
  <2>1. FirstLife
    BY <1>2, <1>18
  <2>2. SubsInv'
    BY <1>2, <1>6, <1>16, <1>17, <2>1, SubsStep
  <2>3. OrderInv'
    BY <1>6, <1>10, <1>16, <2>1 DEF FirstLife, OrderInv
  <2> QED
    BY <2>2, <2>3
<1>19. ASSUME NEW k \in ns
       PROVE  k \in DOMAIN admitted /\ (~crashed => k \notin Publishes)
  <2>1. PICK i \in First(am.responses, id) : k = am.responses[i].n
    BY <1>19 DEF Answered
  <2> DEFINE r == am.responses[i]
  <2>2. r \in Waiting /\ r.id = id
    BY <1>4, <2>1 DEF First, Waiting, ToSet
  <2> HIDE DEF r
  <2>3. k = r.n /\ r.n \in DOMAIN admitted /\ admitted[r.n].kind = r.kind
    BY <1>2, <2>1, <2>2, Accepted DEF r, KnownInv
  <2>4. ASSUME ~crashed PROVE r.kind = "sub"
    <3>1. id \in SubsIn(am.out, am.in, recv.pack)
      BY DEF SubsIn
    <3> QED
      BY <1>2, <2>2, <2>4, <3>1 DEF FirstLife, SubsInv
  <2> QED
    BY <2>3, <2>4 DEF Publishes
<1>20. broker'.reached = broker.reached /\ broker.reached \subseteq DOMAIN admitted
  BY <1>2, <1>10 DEF KnownInv
<1>21. ASSUME ~crashed PROVE FlightMoves
  <2>1. ASSUME NEW y \in Waiting \ Waiting', y \in Flying' PROVE FALSE
    <3>0. y \in ToSet(am.responses) \ ToSet(WithoutOne(am.responses, First(am.responses, id)))
      BY <1>6, <2>1 DEF Waiting, WithoutFirst
    <3>1. PICK i \in First(am.responses, id) : y = am.responses[i]
      <4> DEFINE places == First(am.responses, id)
      <4>1. places \in SUBSET DOMAIN am.responses
        BY <1>4
      <4> HIDE DEF places
      <4>2. \E i \in places : y = am.responses[i]
        BY <1>3, <3>0, <4>1, WithoutLeaves DEF places
      <4> QED
        BY <4>2 DEF places
    <3>2. y.n \in ns
      BY <3>1 DEF Answered
    <3>3. y.kind = "pub1" /\ y.n \in DOMAIN admitted /\ admitted[y.n].kind = y.kind
      BY <1>2, <1>16, <2>1, Accepted DEF KnownInv
    <3> QED
      BY <1>19, <1>21, <3>2, <3>3 DEF Publishes
  <2> QED
    BY <1>16, <2>1 DEF FlightMoves
<1> HIDE DEF ns, id
<1>22. KnownInv' /\ KeptInv' /\ (~crashed' => FirstLife')
  BY <1>2, <1>6, <1>8, <1>10, <1>16, <1>18, <1>19, <1>20, <1>21, MoveStep
<1> QED
  BY <1>10, <1>11, <1>12, <1>13, <1>15, <1>22 DEF DeliveryInv

\* After a reconnection all messages in flight are written again, in order, but for
\* the last when its write is cut; none is on the wire before.
LEMMA LinedConnects ==
  ASSUME NEW m, Sound(m), NEW n, Sound(n), NEW reached, CallSet(m.out) = {},
         \A p \in ToSet(m.in) : p.type = "CONNACK", \A x \in ToSet(n.outbound) : x.kind = "pub1",
         n.in = m.in, NEW v \in Seq(Calls),
         \/ v = n.outbound /\ n.cut = NoCommand
         \/ /\ n.outbound # <<>> /\ v = SubSeq(n.outbound, 1, Len(n.outbound) - 1)
            /\ n.cut = n.outbound[Len(n.outbound)],
         n.out = IF n.peer \in {"open", "syn"} THEN m.out \o v ELSE m.out
  PROVE  Lined(n, reached)
<1> DEFINE L == Len(m.in)
           K == Len(m.out)
           O == Len(v)
<1>1. L \in Nat /\ K \in Nat /\ O \in Nat /\ Len(n.in) = L /\ NoCommand.kind # "pub1"
      /\ DOMAIN m.in = 1..L /\ DOMAIN m.out = 1..K /\ DOMAIN v = 1..O
  BY DEF Sound, SocketOK, NoCommand, Command
<1>0. /\ O <= Len(n.outbound) /\ \A j \in 1..O : v[j] = n.outbound[j] /\ j \in DOMAIN n.outbound
      /\ Len(n.outbound) \in Nat
      /\ \/ O = Len(n.outbound) /\ n.cut = NoCommand
         \/ /\ O + 1 = Len(n.outbound) /\ n.cut = n.outbound[Len(n.outbound)]
            /\ n.cut.kind = "pub1"
  <2>0. n.outbound \in Seq(Calls) /\ Len(n.outbound) \in Nat /\ DOMAIN n.outbound = 1..Len(n.outbound)
    BY DEF Sound, SocketOK
  <2>1. CASE v = n.outbound /\ n.cut = NoCommand
    BY <2>0, <2>1
  <2>2. CASE /\ n.outbound # <<>> /\ v = SubSeq(n.outbound, 1, Len(n.outbound) - 1)
             /\ n.cut = n.outbound[Len(n.outbound)]
    <3> DEFINE w == n.outbound
               l == Len(w)
    <3>1. w \in Seq(Calls) /\ l \in Nat /\ l > 0 /\ DOMAIN w = 1..l /\ v = SubSeq(w, 1, l - 1)
      BY <2>0, <2>2
    <3>2. w[l].kind = "pub1"
      BY <2>0, <2>2, <3>1 DEF ToSet
    <3> HIDE DEF w, l
    <3>3. Len(v) = l - 1 /\ \A j \in 1..(l - 1) : v[j] = w[j]
      BY <3>1
    <3>4. l - 1 + 1 = l /\ l - 1 <= l /\ \A j \in 1..(l - 1) : j \in 1..l
      BY <3>1
    <3> QED
      BY <2>2, <3>1, <3>2, <3>3, <3>4 DEF w, l
  <2> QED
    BY <2>1, <2>2
<1>2. \A k \in 1..L : n.in[k].type # "PUBACK"
  BY <1>1 DEF ToSet
<1>3. \A k \in 1..K : m.out[k].kind # "pub1"
  BY <1>1 DEF CallSet, ToSet, IsCall
<1>4. \A j \in 1..O : n.outbound[j].kind = "pub1"
  BY <1>0 DEF ToSet
<1>5. \A k : Tracked(n, k) <=> IF k <= L THEN n.in[k].type = "PUBACK" ELSE n.out[k - L].kind = "pub1"
  BY <1>1 DEF Tracked
<1>6. CASE n.peer \notin {"open", "syn"}
  <2> DEFINE e == [j \in 1..0 |-> 1]
  <2>1. n.out = m.out /\ Len(n.out) = K
    BY <1>6
  <2> HIDE DEF L, K, O
  <2>2. \A k \in 1..(L + K) : ~Tracked(n, k)
    <3> SUFFICES ASSUME NEW k \in 1..(L + K) PROVE ~Tracked(n, k)
      OBVIOUS
    <3>1. (k <= L => k \in 1..L) /\ (~(k <= L) => k - L \in 1..K)
      BY <1>1
    <3> QED
      BY <1>2, <1>3, <1>5, <2>1, <3>1
  <2>3. e \in [1..0 -> 1..(Len(n.in) + Len(n.out))] /\ 0 \in 0..Len(n.outbound)
    BY <1>0
  <2>4. InLine(n, reached, 0, e)
    <3>1. \A k \in 1..(Len(n.in) + Len(n.out)) : ~Tracked(n, k)
      BY <1>1, <2>1, <2>2
    <3>2. 1..0 = {}
      OBVIOUS
    <3> HIDE DEF e
    <3> QED
      BY <2>3, <3>1, <3>2 DEF InLine
  <2>5. Rest(n, 0)
    BY <1>0, <1>1, <1>6 DEF Rest
  <2> HIDE DEF e
  <2> QED
    BY <2>3, <2>4, <2>5 DEF Lined
<1>7. CASE n.peer \in {"open", "syn"}
  <2> DEFINE f == [j \in 1..O |-> (L + K) + j]
  <2>1. /\ Len(n.out) = K + O /\ \A k \in 1..K : n.out[k] = m.out[k]
        /\ \A j \in 1..O : n.out[K + j] = n.outbound[j]
    <3> DEFINE u == m.out
    <3>1. u \in Seq(Commands) /\ v \in Seq(Calls) /\ n.out = u \o v
      BY <1>7 DEF Sound, SocketOK
    <3> HIDE DEF u
    <3>2. /\ Len(u \o v) = Len(u) + Len(v) /\ \A k \in 1..Len(u) : (u \o v)[k] = u[k]
          /\ \A j \in 1..Len(v) : (u \o v)[Len(u) + j] = v[j]
      BY <3>1
    <3> QED
      BY <1>0, <3>1, <3>2 DEF u
  <2> HIDE DEF L, K, O
  <2>2. \A j \in 1..O : f[j] = (L + K) + j /\ f[j] \in 1..(L + (K + O)) /\ ~(f[j] <= L) /\ f[j] - L = K + j
    BY <1>1
  <2>3. f \in [1..O -> 1..(L + (K + O))]
    BY <2>2
  <2>4. \A j, k \in 1..O : j < k => f[j] < f[k]
    BY <1>1
  <2> HIDE DEF f
  <2>5. ASSUME NEW k \in 1..(L + (K + O)) PROVE Tracked(n, k) <=> \E j \in 1..O : f[j] = k
    <3>1. CASE k <= L + K
      <4>1. (k <= L => k \in 1..L) /\ (~(k <= L) => k - L \in 1..K)
        BY <1>1, <3>1
      <4>2. ~Tracked(n, k)
        BY <1>2, <1>3, <1>5, <2>1, <4>1
      <4>3. \A j \in 1..O : f[j] # k
        BY <1>1, <2>2, <3>1
      <4> QED
        BY <4>2, <4>3
    <3>2. CASE ~(k <= L + K)
      <4> DEFINE j == k - (L + K)
      <4>1. j \in 1..O /\ (L + K) + j = k /\ ~(k <= L) /\ k - L = K + j
        BY <1>1, <3>2
      <4> HIDE DEF j
      <4>2. Tracked(n, k)
        <5>1. n.out[K + j] = n.outbound[j] /\ n.outbound[j].kind = "pub1"
          BY <1>4, <2>1, <4>1
        <5>2. n.out[k - L].kind = "pub1"
          BY <4>1, <5>1
        <5> QED
          BY <1>5, <4>1, <5>2
      <4>3. f[j] = k
        BY <2>2, <4>1
      <4> QED
        BY <4>1, <4>2, <4>3
    <3> QED
      BY <3>1, <3>2
  <2>6. InLine(n, reached, O, f)
    <3>1. O \in 0..Len(n.outbound) /\ f \in [1..O -> 1..(Len(n.in) + Len(n.out))]
      <4>1. O \in 0..Len(n.outbound)
        BY <1>0, <1>1
      <4>2. Len(n.in) = L /\ Len(n.out) = K + O
        BY <1>1, <2>1
      <4> QED
        BY <2>3, <4>1, <4>2
    <3>2. \A j \in 1..O : IF f[j] <= Len(n.in) THEN n.in[f[j]].id = n.outbound[j].id /\ n.outbound[j].n \in reached
                          ELSE n.out[f[j] - Len(n.in)] = n.outbound[j]
      BY <1>1, <2>1, <2>2
    <3>3. \A k \in 1..(Len(n.in) + Len(n.out)) : Tracked(n, k) <=> \E j \in 1..O : f[j] = k
      BY <1>1, <2>1, <2>5
    <3> QED
      BY <2>4, <3>1, <3>2, <3>3 DEF InLine
  <2>7. Rest(n, O)
    BY <1>0, <1>1 DEF Rest
  <2>8. O \in 0..Len(n.outbound) /\ f \in [1..O -> 1..(Len(n.in) + Len(n.out))]
    BY <2>6 DEF InLine
  <2> QED
    BY <2>6, <2>7, <2>8 DEF Lined
<1> QED
  BY <1>6, <1>7

\* Two lists, one after the other.
LEMMA SetConcat ==
  ASSUME NEW S, NEW u \in Seq(S), NEW v \in Seq(S)
  PROVE  u \o v \in Seq(S) /\ ToSet(u \o v) = ToSet(u) \cup ToSet(v)
<1> DEFINE w == u \o v
<1>1. /\ Len(u) \in Nat /\ Len(v) \in Nat /\ DOMAIN u = 1..Len(u) /\ DOMAIN v = 1..Len(v)
      /\ w \in Seq(S) /\ DOMAIN w = 1..(Len(u) + Len(v))
      /\ \A i \in 1..Len(u) : w[i] = u[i]
      /\ \A i \in 1..Len(v) : w[Len(u) + i] = v[i]
  OBVIOUS
<1> HIDE DEF w
<1>2. /\ \A i \in 1..Len(u) : i \in DOMAIN w
      /\ \A i \in 1..Len(v) : Len(u) + i \in DOMAIN w
  BY <1>1
<1>3. ToSet(u) \subseteq ToSet(w) /\ ToSet(v) \subseteq ToSet(w)
  BY <1>1, <1>2 DEF ToSet
<1>4. ASSUME NEW i \in DOMAIN w PROVE w[i] \in ToSet(u) \cup ToSet(v)
  <2>1. CASE i <= Len(u)
    <3>1. i \in DOMAIN u
      BY <1>1, <2>1
    <3> QED
      BY <1>1, <3>1 DEF ToSet
  <2>2. CASE ~(i <= Len(u))
    <3>1. i - Len(u) \in DOMAIN v /\ Len(u) + (i - Len(u)) = i
      BY <1>1, <2>2
    <3> QED
      BY <1>1, <3>1 DEF ToSet
  <2> QED
    BY <2>1, <2>2
<1>5. ToSet(w) \subseteq ToSet(u) \cup ToSet(v)
  BY <1>4 DEF ToSet
<1> QED
  BY <1>1, <1>3, <1>5 DEF w

\* What MQTTAsync_completeConnection leaves of m when nothing is held back: it writes
\* the messages v, all in flight, or all but the last, whose write is cut.
Resent(n, v, cut) ==
  \/ v = n.outbound /\ n.cut = cut
  \/ /\ n.outbound # <<>> /\ v = SubSeq(n.outbound, 1, Len(n.outbound) - 1)
     /\ n.cut = n.outbound[Len(n.outbound)]
Completes(m, p, n) ==
  /\ Sound(n) /\ n.connected /\ n.state = "NOT_IN_PROGRESS" /\ n.peer = m.peer
  /\ n.in = m.in
  /\ \E v \in Seq(Calls) : /\ Resent(n, v, m.cut) /\ ToSet(v) \subseteq ToSet(n.outbound)
                           /\ n.out = IF n.peer \in {"open", "syn"} THEN m.out \o v ELSE m.out
  /\ p.id = 0 => n.outbound = <<>> /\ n.commands = <<>> /\ n.responses = <<>> /\ n.msgID = 0
  /\ p.id # 0 => /\ n.outbound = m.outbound /\ n.commands = m.commands
                 /\ n.responses = m.responses /\ n.msgID = m.msgID

\* All else stays as it was.
ResentFrom(s, n) ==
  /\ DOMAIN n = DOMAIN s /\ n.connected = s.connected /\ n.state = s.state /\ n.peer = s.peer
  /\ n.in = s.in /\ n.pending_write = s.pending_write /\ n.uri = s.uri /\ n.disconnect = s.disconnect
  /\ n.outbound = s.outbound /\ n.commands = s.commands /\ n.responses = s.responses /\ n.msgID = s.msgID
  /\ \E v \in Seq(Calls) : /\ Resent(n, v, s.cut) /\ ToSet(v) \subseteq ToSet(n.outbound)
                           /\ n.out = IF s.peer \in {"open", "syn"} THEN s.out \o v ELSE s.out

\* The messages in flight are written again, and nothing is held back.
LEMMA ResentFields ==
  ASSUME NEW s, Sound(s), NEW k \in 0..Len(s.outbound), NEW n, n = Resends(s, k),
         s.heldBack = {}, n.heldBack = {}
  PROVE  ResentFrom(s, n)
<1>1. /\ s.outbound \in Seq(Calls) /\ Len(s.outbound) \in Nat /\ DOMAIN s.outbound = 1..Len(s.outbound)
      /\ {"out", "cut", "heldBack"} \subseteq DOMAIN s
  BY DEF Sound, SocketOK, ClientOK
<1>2. ASSUME NEW list, NEW w, w = Writes(s, list)
      PROVE  /\ DOMAIN w = DOMAIN s /\ w.connected = s.connected /\ w.state = s.state /\ w.peer = s.peer
             /\ w.in = s.in /\ w.pending_write = s.pending_write /\ w.uri = s.uri /\ w.disconnect = s.disconnect
             /\ w.outbound = s.outbound /\ w.commands = s.commands /\ w.responses = s.responses
             /\ w.msgID = s.msgID /\ w.cut = s.cut
             /\ w.out = IF s.peer \in {"open", "syn"} THEN s.out \o list ELSE s.out
  <2>1. CASE s.peer \in {"open", "syn"}
    <3>1. w = [s EXCEPT !.out = s.out \o list]
      BY <1>2, <2>1 DEF Writes
    <3> QED
      BY <1>1, <2>1, <3>1 DEF Sound, ClientOK
  <2>2. CASE s.peer \notin {"open", "syn"}
    BY <1>2, <2>2 DEF Writes
  <2> QED
    BY <2>1, <2>2
<1>3. CASE k = 0
  <2>1. n = Writes(s, s.outbound)
    BY <1>3 DEF Resends
  <2>2. n.outbound = s.outbound /\ n.cut = s.cut
    BY <1>2, <2>1
  <2>3. Resent(n, s.outbound, s.cut)
    BY <2>2 DEF Resent
  <2> QED
    BY <1>1, <1>2, <2>1, <2>2, <2>3 DEF ResentFrom
<1>4. CASE k # 0
  <2> DEFINE o == s.outbound
             l == Len(o)
             list == SubSeq(o, 1, k - 1)
             held == {o[i].n : i \in (k + 1)..l}
             w == Writes(s, list)
  <2>0. o \in Seq(Calls) /\ l \in Nat /\ DOMAIN o = 1..l /\ k \in 1..l
    BY <1>1, <1>4
  <2>1. n = [w EXCEPT !.cut = o[k], !.heldBack = held]
    BY <1>4 DEF Resends
  <2> HIDE DEF list, w, held
  <2>2. /\ DOMAIN w = DOMAIN s /\ w.connected = s.connected /\ w.state = s.state /\ w.peer = s.peer
        /\ w.in = s.in /\ w.pending_write = s.pending_write /\ w.uri = s.uri /\ w.disconnect = s.disconnect
        /\ w.outbound = s.outbound /\ w.commands = s.commands /\ w.responses = s.responses
        /\ w.msgID = s.msgID
        /\ w.out = IF s.peer \in {"open", "syn"} THEN s.out \o list ELSE s.out
    BY <1>2 DEF w
  <2>3. /\ DOMAIN n = DOMAIN w /\ n.connected = w.connected /\ n.state = w.state /\ n.peer = w.peer
        /\ n.in = w.in /\ n.pending_write = w.pending_write /\ n.uri = w.uri /\ n.disconnect = w.disconnect
        /\ n.outbound = w.outbound /\ n.commands = w.commands /\ n.responses = w.responses
        /\ n.msgID = w.msgID /\ n.out = w.out /\ n.cut = o[k] /\ n.heldBack = held
    BY <1>1, <2>1, <2>2 DEF Sound, ClientOK
  <2>4. k = l
    <3>1. CASE k < l
      <4>1. l \in (k + 1)..l
        BY <2>0, <3>1
      <4>2. o[l].n \in held
        BY <4>1 DEF held
      <4> QED
        BY <2>3, <4>2
    <3> HIDE DEF l
    <3> QED
      BY <2>0, <3>1
  <2>5. list \in Seq(Calls) /\ ToSet(list) \subseteq ToSet(o)
    <3>0. k - 1 \in 0..l
      BY <2>0
    <3> HIDE DEF o
    <3>1. /\ list \in Seq(Calls) /\ DOMAIN list = 1..(k - 1) /\ \A i \in 1..(k - 1) : list[i] = o[i]
      BY <2>0, <3>0 DEF list
    <3>2. \A i \in 1..(k - 1) : i \in DOMAIN o
      BY <2>0
    <3> QED
      BY <3>1, <3>2 DEF ToSet
  <2>6. Resent(n, list, s.cut)
    <3>1. o # <<>> /\ n.outbound = o
      BY <2>0, <2>2, <2>3
    <3> QED
      BY <2>3, <2>4, <3>1 DEF Resent, list
  <2>7. ToSet(list) \subseteq ToSet(n.outbound) /\ n.out = IF s.peer \in {"open", "syn"} THEN s.out \o list ELSE s.out
    BY <2>2, <2>3, <2>5
  <2> HIDE DEF o, l
  <2> QED
    BY <2>2, <2>3, <2>5, <2>6, <2>7 DEF ResentFrom
<1> QED
  BY <1>3, <1>4

\* It leaves this.
LEMMA CompleteFields ==
  ASSUME ~AsyncClean, NEW m, Sound(m), NEW p, NEW n \in completeConnection(m, p), n.heldBack = {}
  PROVE  Completes(m, p, n)
<1> DEFINE c == [m EXCEPT !.retrying = FALSE, !.connected = TRUE, !.state = "NOT_IN_PROGRESS",
                          !.heldBack = {}]
           d == cleanSession(c)
<1>1. /\ DOMAIN c = DOMAIN m /\ c.connected = TRUE /\ c.state = "NOT_IN_PROGRESS" /\ c.peer = m.peer
      /\ c.in = m.in /\ c.cut = m.cut /\ c.pending_write = m.pending_write /\ c.out = m.out
      /\ c.uri = m.uri /\ c.disconnect = m.disconnect
      /\ c.outbound = m.outbound /\ c.commands = m.commands /\ c.responses = m.responses /\ c.msgID = m.msgID
      /\ c.heldBack = {}
  BY DEF Sound, ClientOK
<1> HIDE DEF c
<1>2. /\ DOMAIN d = DOMAIN m /\ d.connected = TRUE /\ d.state = "NOT_IN_PROGRESS" /\ d.peer = m.peer
      /\ d.in = m.in /\ d.cut = m.cut /\ d.pending_write = m.pending_write /\ d.out = m.out
      /\ d.uri = m.uri /\ d.disconnect = m.disconnect
      /\ d.outbound = <<>> /\ d.commands = <<>> /\ d.responses = <<>> /\ d.msgID = 0
      /\ d.heldBack = {}
  BY <1>1 DEF Sound, ClientOK, cleanSession
<1> HIDE DEF d
<1> DEFINE s == IF p.id = 0 THEN d ELSE c
<1>3. PICK k \in 0..Len(s.outbound) : n = Resends(s, k)
  BY DEF completeConnection, c, d
<1>4. /\ DOMAIN s = DOMAIN m /\ s.connected = TRUE /\ s.state = "NOT_IN_PROGRESS" /\ s.peer = m.peer
      /\ s.in = m.in /\ s.cut = m.cut /\ s.pending_write = m.pending_write /\ s.out = m.out
      /\ s.uri = m.uri /\ s.disconnect = m.disconnect
      /\ p.id = 0 => s.outbound = <<>> /\ s.commands = <<>> /\ s.responses = <<>> /\ s.msgID = 0
      /\ p.id # 0 => /\ s.outbound = m.outbound /\ s.commands = m.commands
                     /\ s.responses = m.responses /\ s.msgID = m.msgID
      /\ s.heldBack = {}
  <2>1. CASE p.id = 0
    BY <1>2, <2>1
  <2>2. CASE p.id # 0
    BY <1>1, <2>2
  <2> QED
    BY <2>1, <2>2
<1> HIDE DEF s
<1>6. s.outbound \in Seq(Calls) /\ s.outbound \in Seq(Commands) /\ m.out \in Seq(Commands)
      /\ s.commands \in Seq(Commands) /\ s.responses \in Seq(Calls) /\ s.msgID \in Nat
  <2>1. Calls \subseteq Commands
    BY DEF Commands
  <2>2. CASE p.id = 0
    <3>1. <<>> \in Seq(Calls) /\ <<>> \in Seq(Commands) /\ 0 \in Nat
      OBVIOUS
    <3>2. m.out \in Seq(Commands)
      BY DEF Sound, SocketOK
    <3> QED
      BY <1>4, <2>2, <3>1, <3>2
  <2>3. CASE p.id # 0
    <3>1. s.outbound \in Seq(Calls) /\ s.commands \in Seq(Commands) /\ s.responses \in Seq(Calls) /\ s.msgID \in Nat
          /\ m.out \in Seq(Commands)
      BY <1>4, <2>3 DEF Sound, SocketOK, ClientOK
    <3> QED
      BY <2>1, <3>1, SeqMonotonic
  <2> QED
    BY <2>2, <2>3
<1>7. Sound(s)
  <2>1. ClientOK(s)
    BY <1>4, <1>6 DEF Sound, ClientOK
  <2>2. SocketOK(s)
    BY <1>4, <1>6 DEF Sound, SocketOK
  <2> QED
    BY <2>1, <2>2 DEF Sound
<1>8. /\ DOMAIN n = DOMAIN m /\ n.connected = TRUE /\ n.state = "NOT_IN_PROGRESS" /\ n.peer = m.peer
      /\ n.in = m.in /\ n.pending_write = m.pending_write /\ n.uri = m.uri /\ n.disconnect = m.disconnect
      /\ n.outbound = s.outbound /\ n.commands = s.commands /\ n.responses = s.responses /\ n.msgID = s.msgID
      /\ \E v \in Seq(Calls) : /\ Resent(n, v, m.cut) /\ ToSet(v) \subseteq ToSet(n.outbound)
                               /\ n.out = IF n.peer \in {"open", "syn"} THEN m.out \o v ELSE m.out
  <2>1. /\ DOMAIN n = DOMAIN s /\ n.connected = s.connected /\ n.state = s.state /\ n.peer = s.peer
        /\ n.in = s.in /\ n.pending_write = s.pending_write /\ n.uri = s.uri /\ n.disconnect = s.disconnect
        /\ n.outbound = s.outbound /\ n.commands = s.commands /\ n.responses = s.responses /\ n.msgID = s.msgID
        /\ \E v \in Seq(Calls) : /\ Resent(n, v, s.cut) /\ ToSet(v) \subseteq ToSet(n.outbound)
                                 /\ n.out = IF s.peer \in {"open", "syn"} THEN s.out \o v ELSE s.out
    <3>1. s.heldBack = {} /\ k \in 0..Len(s.outbound) /\ n = Resends(s, k)
      BY <1>3, <1>4
    <3>2. ResentFrom(s, n)
      BY <1>7, <3>1, ResentFields
    <3> QED
      BY <3>2 DEF ResentFrom
  <2>2. PICK v \in Seq(Calls) : /\ Resent(n, v, s.cut) /\ ToSet(v) \subseteq ToSet(n.outbound)
                                /\ n.out = IF s.peer \in {"open", "syn"} THEN s.out \o v ELSE s.out
    BY <2>1
  <2>3. Resent(n, v, m.cut) /\ n.out = IF n.peer \in {"open", "syn"} THEN m.out \o v ELSE m.out
    BY <1>4, <2>1, <2>2
  <2> QED
    BY <1>4, <2>1, <2>2, <2>3
<1>9. PICK v \in Seq(Calls) : /\ Resent(n, v, m.cut) /\ ToSet(v) \subseteq ToSet(n.outbound)
                              /\ n.out = IF n.peer \in {"open", "syn"} THEN m.out \o v ELSE m.out
  BY <1>8
<1>10. n.out \in Seq(Commands) /\ n.cut \in Calls \cup {NoCommand}
  <2>1. v \in Seq(Commands)
    <3>1. Calls \subseteq Commands
      BY DEF Commands
    <3> QED
      BY <3>1, SeqMonotonic
  <2>2. m.out \o v \in Seq(Commands)
    BY <1>6, <2>1, SetConcat
  <2>3. n.outbound # <<>> => n.outbound[Len(n.outbound)] \in Calls
    BY <1>6, <1>8
  <2>4. m.cut \in Calls \cup {NoCommand}
    BY DEF Sound, SocketOK
  <2>5. n.cut \in Calls \cup {NoCommand}
    BY <1>9, <2>3, <2>4 DEF Resent
  <2> QED
    BY <1>6, <1>9, <2>2, <2>5
<1>11. ClientOK(n)
  BY <1>6, <1>8 DEF Sound, ClientOK
<1>12. SocketOK(n)
  BY <1>6, <1>8, <1>10 DEF Sound, SocketOK
<1> QED
  BY <1>4, <1>8, <1>11, <1>12 DEF Sound, Completes

\* A connection is accepted: a new session begins without calls, and in another
\* one the messages in flight are sent again.
LEMMA ConnectedDelivers ==
  ASSUME ~AsyncClean, DeliveryInv, Unlocked, RecvAlone, UNCHANGED broker,
         am.state = "WAIT_FOR_CONNACK", OkConnack(recv.pack),
         am' \in completeConnection(am, recv.pack), am'.heldBack = {}, told' = Tell(Dropped(am, am'), "failure"),
         recv' = [pc |-> "select", sock |-> 0, pack |-> NoAnswer, rc |-> 0]
  PROVE  DeliveryInv'
<1> DEFINE id == recv.pack.id
           ns == Dropped(am, am')
<1>2. TypesInv /\ HandInv /\ Sound(am) /\ ClientOK(am) /\ LinkOK(am) /\ SessionInv /\ Lined(am, broker.reached) /\ KnownInv
      /\ KeptInv /\ (~crashed => FirstLife) /\ HandLink /\ ToldInv /\ RecvInv
  BY DEF DeliveryInv, TypesInv, Sound
<1>3. /\ Sound(am') /\ am'.connected /\ am'.state = "NOT_IN_PROGRESS" /\ am'.peer = am.peer
      /\ am'.in = am.in
      /\ \E v \in Seq(Calls) : /\ Resent(am', v, am.cut) /\ ToSet(v) \subseteq ToSet(am'.outbound)
                               /\ am'.out = IF am'.peer \in {"open", "syn"} THEN am.out \o v ELSE am.out
      /\ id = 0 => am'.outbound = <<>> /\ am'.commands = <<>> /\ am'.responses = <<>> /\ am'.msgID = 0
      /\ id # 0 => /\ am'.outbound = am.outbound /\ am'.commands = am.commands
                   /\ am'.responses = am.responses /\ am'.msgID = am.msgID
  <2>1. Completes(am, recv.pack, am')
    BY <1>2, CompleteFields
  <2> QED
    BY <2>1 DEF Completes
<1>4. /\ ~am.connected /\ CallSet(am.out) = {} /\ am.cut = NoCommand
      /\ \A p \in ToSet(am.in) : p.type = "CONNACK"
  BY <1>2 DEF LinkOK
<1>0. PICK v \in Seq(Calls) : /\ Resent(am', v, NoCommand) /\ ToSet(v) \subseteq ToSet(am'.outbound)
                              /\ am'.out = IF am'.peer \in {"open", "syn"} THEN am.out \o v ELSE am.out
  BY <1>3, <1>4
<1>5. Hears(ns, "failure")
  BY <1>2, HearsTell DEF Outcomes
<1>6. RecvInv' /\ recv'.pack = NoAnswer /\ NoAnswer \in Answers /\ NoAnswer.type \notin {"PUBACK", "SUBACK", "CONNACK"}
  BY DEF RecvInv, NoAnswer, Answers
<1>7. TypesInv' /\ UNCHANGED <<calling, admitted, lost, crashed, broker, hand>>
  BY <1>2, <1>3, <1>5, <1>6, RecvTypes DEF Hears
<1>9. HandLink' /\ HeldSet(hand.cmd) = {}
  <2>1. HandLink'
    BY <1>2, <1>7, QuietUnlocked
  <2>2. ~IsCall(hand.cmd)
    BY <1>2, ControlCommands DEF HandInv, Unlocked
  <2> QED
    BY <2>1, <2>2 DEF HeldSet
<1>10. broker.session /\ \A j \in DOMAIN am.in : ~NewSession(am.in[j])
  BY <1>2 DEF SessionInv, Before
<1>11. SessionInv'
  <2>1. ~Begins(recv'.pack, am'.in)
    BY <1>3, <1>6, <1>10 DEF Begins, NewSession, OkConnack, ToSet
  <2> QED
    BY <1>3, <1>7, <1>10, <2>1 DEF SessionInv, Begins, Before
<1>12. id = 0 => am.outbound = <<>> /\ calling.kind # "sub"
  BY <1>2 DEF SessionInv, Begins, NewSession
<1>13. Flying' = Flying /\ \A x \in ToSet(am'.outbound) : x.kind = "pub1"
  <2>1. am'.outbound = am.outbound
    BY <1>3, <1>12
  <2> QED
    BY <1>2, <2>1 DEF Flying, KnownInv
<1>8. LinkOK(am') /\ HeldSet(am'.cut) \subseteq Flying
  <2>1. CASE am'.cut = NoCommand
    BY <1>3, <2>1, ControlCommands DEF LinkOK, NoCommand, Command, HeldSet
  <2>2. CASE am'.outbound # <<>> /\ am'.cut = am'.outbound[Len(am'.outbound)]
    <3>1. am'.cut \in ToSet(am'.outbound)
      <4>1. am'.outbound \in Seq(Calls)
        BY <1>3 DEF Sound, SocketOK
      <4>2. Len(am'.outbound) \in DOMAIN am'.outbound
        BY <2>2, <4>1
      <4> QED
        BY <2>2, <4>2 DEF ToSet
    <3>2. am'.cut \in Flying /\ am'.cut.kind = "pub1"
      BY <1>13, <3>1 DEF Flying
    <3> QED
      BY <1>3, <3>2 DEF LinkOK, HeldSet
  <2> QED
    BY <1>0, <2>1, <2>2 DEF Resent
<1>14. Lined(am', broker.reached)
  <2>1. \/ v = am'.outbound /\ am'.cut = NoCommand
        \/ /\ am'.outbound # <<>> /\ v = SubSeq(am'.outbound, 1, Len(am'.outbound) - 1)
           /\ am'.cut = am'.outbound[Len(am'.outbound)]
    BY <1>0 DEF Resent
  <2> QED
    BY <1>0, <1>2, <1>3, <1>4, <1>13, <2>1, LinedConnects
<1>15. Lined(am', broker'.reached)
  BY <1>7, <1>14
<1>16. ToSet(am'.out) \subseteq ToSet(am.out) \cup Flying
  <2>1. am.out \in Seq(Commands) /\ v \in Seq(Commands)
    <3>1. Calls \subseteq Commands
      BY DEF Commands
    <3>2. am.out \in Seq(Commands)
      BY <1>2 DEF Sound, SocketOK
    <3> QED
      BY <3>1, <3>2, SeqMonotonic
  <2>2. ToSet(am.out \o v) = ToSet(am.out) \cup ToSet(v)
    BY <2>1, SetConcat
  <2>3. ToSet(am'.outbound) = Flying
    BY <1>13 DEF Flying
  <2>4. am'.out = am.out \o v \/ am'.out = am.out
    BY <1>0
  <2> QED
    BY <1>0, <2>2, <2>3, <2>4
<1>17. Unsent' \subseteq Unsent /\ Waiting' \subseteq Waiting /\ Known' \subseteq Known
       /\ CallSet(am'.commands) \subseteq CallSet(am.commands)
  <2>1. CallSet(am'.commands) \subseteq CallSet(am.commands)
    <3>1. CallSet(<<>>) = {}
      BY SetOf DEF CallSet
    <3> QED
      BY <1>3, <3>1
  <2>2. Waiting' \subseteq Waiting
    BY <1>3, SetOf DEF Waiting
  <2>3. CallSet(am'.out) \subseteq CallSet(am.out) \cup Flying
    BY <1>16 DEF CallSet
  <2>4. Unsent' \subseteq Unsent
    BY <1>7, <2>1 DEF Unsent
  <2> QED
    BY <1>7, <1>8, <1>13, <2>1, <2>2, <2>3, <2>4 DEF Known
<1>18. SubsIn(am'.out, am'.in, recv'.pack) = {}
  <2>1. \A x \in ToSet(am'.out) : x.kind # "sub"
    <3>1. \A x \in ToSet(am.out) : x.kind # "sub"
      BY <1>4 DEF CallSet, IsCall
    <3>2. \A x \in Flying : x.kind = "pub1"
      BY <1>2 DEF KnownInv
    <3> QED
      BY <1>16, <3>1, <3>2
  <2>2. \A x \in ToSet(am'.in) \cup {recv'.pack} : x.type # "SUBACK"
    BY <1>3, <1>4, <1>6
  <2> QED
    BY <2>1, <2>2 DEF SubsIn
<1>19. ASSUME ~crashed PROVE OrderInv' /\ SubsInv'
  <2>1. FirstLife
    BY <1>2, <1>19
  <2>2. CASE id # 0
    <3>1. SubsInv'
      BY <1>2, <1>3, <1>17, <1>18, <2>1, <2>2, SubsStep
    <3>2. am'.outbound = am.outbound /\ am'.commands = am.commands
      BY <1>3, <2>2
    <3>3. OrderInv'
      BY <1>7, <1>13, <1>17, <2>1, <3>2 DEF FirstLife, OrderInv
    <3> QED
      BY <3>1, <3>3
  <2>3. CASE id = 0
    <3>1. am'.outbound = <<>> /\ am'.commands = <<>> /\ am'.responses = <<>> /\ calling.kind # "sub"
      BY <1>3, <1>12, <2>3
    <3>2. Waiting' = {} /\ Flying' = {} /\ CallSet(am'.commands) = {} /\ HeldSet(hand'.cmd) = {}
      BY <1>7, <1>9, <3>1, SetOf DEF Waiting, Flying, CallSet
    <3>3. Rising(am'.outbound) /\ Rising(am'.commands)
      BY <3>1 DEF Rising
    <3>4. OrderInv'
      BY <3>2, <3>3 DEF OrderInv
    <3>5. \A x \in Unsent' \cup Waiting' : x.kind # "sub"
      BY <1>7, <3>1, <3>2 DEF Unsent, HeldSet
    <3>6. SubsInv'
      BY <1>18, <3>5 DEF SubsInv
    <3> QED
      BY <3>4, <3>6
  <2> QED
    BY <2>2, <2>3
<1>20. \A x \in (Unsent \cup Flying) \ (Unsent' \cup Flying') : x.n \in ns
  <2>1. CASE id # 0
    <3>1. Unsent' = Unsent
      BY <1>3, <1>7, <2>1 DEF Unsent
    <3> QED
      BY <1>13, <3>1
  <2>2. CASE id = 0
    <3>1. am'.commands = <<>> /\ am'.responses = <<>>
      BY <1>3, <2>2
    <3>2. \A x \in CallSet(am.commands) : x.n \in Dropped(am, am')
      <4> SUFFICES ASSUME NEW x \in CallSet(am.commands) PROVE x.n \in Dropped(am, am')
        OBVIOUS
      <4>1. PICK i \in DOMAIN am.commands : x = am.commands[i] /\ IsCall(am.commands[i])
        BY DEF CallSet, ToSet
      <4> QED
        BY <3>1, <4>1 DEF Dropped
    <3>3. (Unsent \cup Flying) \ (Unsent' \cup Flying') \subseteq CallSet(am.commands)
      BY <1>7, <1>9, <1>13 DEF Unsent
    <3> QED
      BY <3>2, <3>3
  <2> QED
    BY <2>1, <2>2
<1>21. broker'.reached = broker.reached /\ broker.reached \subseteq DOMAIN admitted
  BY <1>2, <1>7 DEF KnownInv
<1> HIDE DEF ns, id
<1>23. KnownInv' /\ KeptInv' /\ (~crashed' => FirstLife')
  <2>1. Waiting' = Waiting \/ Flying' = {}
    <3>1. am'.responses = am.responses \/ am'.outbound = <<>>
      BY <1>3
    <3> QED
      BY <3>1, SetOf DEF Waiting, Flying
  <2>2. FlightMoves
    BY <1>13, <2>1 DEF FlightMoves
  <2> QED
    BY <1>2, <1>5, <1>7, <1>13, <1>17, <1>19, <1>20, <1>21, <2>2, MoveStep
<1> QED
  BY <1>7, <1>8, <1>9, <1>11, <1>15, <1>23 DEF DeliveryInv

\* The rest of the loop of MQTTAsync_receiveThread.
LEMMA RecvDispatchDelivers ==
  ASSUME ~AsyncClean, DeliveryInv, RecvDispatch, delayed' = {}
  PROVE  DeliveryInv'
<1>1. CASE /\ am.peer = "none" \/ recv.rc = -1 \/ recv.pack.type # "SUBACK"
           /\ am' \notin completeConnection(am, recv.pack) \/ am.peer = "none" \/ recv.rc = -1 \/ recv.pack.type # "CONNACK"
  BY <1>1, IdleDispatchDelivers
<1>2. Unlocked /\ RecvAlone /\ UNCHANGED broker
      /\ recv' = [pc |-> "select", sock |-> 0, pack |-> NoAnswer, rc |-> 0]
  BY DEF RecvDispatch
<1>3. CASE am.peer # "none" /\ recv.rc # -1 /\ recv.pack.type = "SUBACK"
  <2>1. am' = [am EXCEPT !.responses = WithoutFirst(@, recv.pack.id)] /\ told' = Tell(Answered(recv.pack.id), "ok")
    BY <1>3 DEF RecvDispatch
  <2> QED
    BY <1>2, <1>3, <2>1, SubackDelivers
<1>4. CASE am.peer # "none" /\ recv.rc # -1 /\ recv.pack.type = "CONNACK" /\ am' \in completeConnection(am, recv.pack)
  <2>1. told' = Tell(Dropped(am, am'), "failure") /\ am'.heldBack = {}
    BY <1>4 DEF RecvDispatch
  <2>2. CASE am.state = "WAIT_FOR_CONNACK" /\ recv.pack.ok
    BY <1>2, <1>4, <2>1, <2>2, ConnectedDelivers DEF OkConnack
  <2>3. CASE ~(am.state = "WAIT_FOR_CONNACK" /\ recv.pack.ok)
    <3>1. am' = nextOrClose(am)
      BY <1>4, <2>3 DEF RecvDispatch
    <3>2. Sound(am)
      BY DEF DeliveryInv, TypesInv, Sound
    <3>3. Closed(am')
      BY <3>1, <3>2, EndSame
    <3>4. am'.connected
      BY <1>4, <2>1, <3>2, CompleteFields DEF Completes
    <3> QED
      BY <3>3, <3>4 DEF Closed
  <2> QED
    BY <2>2, <2>3
<1> QED
  BY <1>1, <1>3, <1>4
-------------------------------------------------------------------------------
\* The broker.

\* It answers the first packet of the stream with a; the answer to a message of
\* QoS 1 acknowledges it.
Replies(m, n, a) ==
  /\ m.out # <<>> /\ n.out = Tail(m.out) /\ n.in = Append(m.in, a)
  /\ n.outbound = m.outbound /\ n.cut = m.cut /\ n.connected = m.connected /\ n.peer = m.peer
  /\ a.type = "PUBACK" <=> m.out[1].kind = "pub1"
  /\ a.type = "PUBACK" => a.id = m.out[1].id

\* The message that becomes its acknowledgement keeps its place in the line.
LEMMA LinedReplied ==
  ASSUME NEW m, Sound(m), NEW n, Sound(n), NEW reached, NEW r, Lined(m, reached), NEW a, Replies(m, n, a),
         reached \subseteq r, m.out[1].kind = "pub1" => m.out[1].n \in r
  PROVE  Lined(n, r)
<1>1. PICK b \in 0..Len(m.outbound) : \E e \in [1..b -> 1..(Len(m.in) + Len(m.out))] :
        InLine(m, reached, b, e) /\ Rest(m, b)
  BY DEF Lined
<1>2. PICK e \in [1..b -> 1..(Len(m.in) + Len(m.out))] : InLine(m, reached, b, e) /\ Rest(m, b)
  BY <1>1
<1> DEFINE L == Len(m.in)
           K == Len(m.out)
<1>3. /\ L \in Nat /\ K \in Nat /\ K >= 1 /\ Len(n.in) = L + 1 /\ Len(n.out) = K - 1
      /\ n.in[L + 1] = a /\ \A i \in 1..L : n.in[i] = m.in[i]
      /\ \A i \in 1..(K - 1) : n.out[i] = m.out[i + 1]
  <2> DEFINE u == m.in
             v == m.out
  <2>1. u \in Seq(Answers) /\ v \in Seq(Commands) /\ n.in = Append(u, a) /\ n.out = Tail(v) /\ v # <<>>
    BY DEF Sound, SocketOK, Replies
  <2> HIDE DEF u, v
  <2>2. /\ Len(u) \in Nat /\ Len(v) \in Nat /\ Len(v) >= 1 /\ Len(Append(u, a)) = Len(u) + 1 /\ Len(Tail(v)) = Len(v) - 1
        /\ Append(u, a)[Len(u) + 1] = a /\ \A i \in 1..Len(u) : Append(u, a)[i] = u[i]
        /\ \A i \in 1..(Len(v) - 1) : Tail(v)[i] = v[i + 1]
    BY <2>1
  <2> QED
    BY <2>1, <2>2 DEF u, v
<1>4. /\ e \in [1..b -> 1..(L + K)] /\ \A j, k \in 1..b : j < k => e[j] < e[k]
      /\ \A j \in 1..b : IF e[j] <= L THEN m.in[e[j]].id = m.outbound[j].id /\ m.outbound[j].n \in reached
                         ELSE m.out[e[j] - L] = m.outbound[j]
      /\ \A k \in 1..(L + K) : Tracked(m, k) <=> \E j \in 1..b : e[j] = k
  BY <1>2 DEF InLine
<1>5. \A k : Tracked(m, k) <=> IF k <= L THEN m.in[k].type = "PUBACK" ELSE m.out[k - L].kind = "pub1"
  BY DEF Tracked
<1>6. \A k : Tracked(n, k) <=> IF k <= L + 1 THEN n.in[k].type = "PUBACK" ELSE n.out[k - (L + 1)].kind = "pub1"
  BY <1>3 DEF Tracked
<1>7. /\ a.type = "PUBACK" <=> m.out[1].kind = "pub1"
      /\ a.type = "PUBACK" => a.id = m.out[1].id
      /\ n.outbound = m.outbound /\ n.cut = m.cut /\ n.connected = m.connected /\ n.peer = m.peer
  BY DEF Replies
<1> HIDE DEF L, K
<1>8. \A k \in 1..(L + K) :
        /\ k <= L => k <= L + 1 /\ k \in 1..L
        /\ k = L + 1 => ~(k <= L) /\ k - L = 1 /\ k <= L + 1
        /\ ~(k <= L) /\ k # L + 1 =>
             ~(k <= L + 1) /\ k - (L + 1) \in 1..(K - 1) /\ (k - (L + 1)) + 1 = k - L
  BY <1>3
<1>9. ASSUME NEW k \in 1..(L + K) PROVE Tracked(n, k) <=> Tracked(m, k)
  <2>1. CASE k <= L
    BY <1>3, <1>5, <1>6, <1>8, <2>1
  <2>2. CASE k = L + 1
    <3>1. ~(k <= L) /\ k - L = 1 /\ k <= L + 1 /\ n.in[k] = a
      BY <1>3, <1>8, <2>2
    <3>2. Tracked(m, k) <=> m.out[1].kind = "pub1"
      BY <1>5, <3>1
    <3>3. Tracked(n, k) <=> a.type = "PUBACK"
      BY <1>6, <3>1
    <3> QED
      BY <1>7, <3>2, <3>3
  <2>3. CASE ~(k <= L) /\ k # L + 1
    <3>1. n.out[k - (L + 1)] = m.out[k - L] /\ ~(k <= L + 1)
      BY <1>3, <1>8, <2>3
    <3> QED
      BY <1>5, <1>6, <2>3, <3>1
  <2> QED
    BY <2>1, <2>2, <2>3
<1>10. ASSUME NEW j \in 1..b
       PROVE  IF e[j] <= L + 1 THEN n.in[e[j]].id = m.outbound[j].id /\ m.outbound[j].n \in r
              ELSE n.out[e[j] - (L + 1)] = m.outbound[j]
  <2>0. e[j] \in 1..(L + K)
    BY <1>4
  <2>1. CASE e[j] <= L
    BY <1>3, <1>4, <1>8, <2>0, <2>1
  <2>2. CASE e[j] = L + 1
    <3>1. m.out[1] = m.outbound[j] /\ ~(e[j] <= L) /\ e[j] <= L + 1
      BY <1>4, <1>8, <2>0, <2>2
    <3>2. Tracked(m, e[j])
      BY <1>4, <2>0
    <3>3. m.out[1].kind = "pub1"
      BY <1>5, <1>8, <2>0, <2>2, <3>1, <3>2
    <3> QED
      BY <1>3, <1>7, <2>2, <3>1, <3>3
  <2>3. CASE ~(e[j] <= L) /\ e[j] # L + 1
    <3>1. n.out[e[j] - (L + 1)] = m.out[e[j] - L] /\ ~(e[j] <= L + 1)
      BY <1>3, <1>8, <2>0, <2>3
    <3> QED
      BY <1>4, <2>3, <3>1
  <2> QED
    BY <2>1, <2>2, <2>3
<1>11. (L + 1) + (K - 1) = L + K
  BY <1>3
<1>12. InLine(n, r, b, e)
  <2>1. Len(n.in) = L + 1 /\ Len(n.in) + Len(n.out) = L + K
    BY <1>3, <1>11
  <2>2. b \in 0..Len(n.outbound)
    BY <1>7
  <2>3. \A j \in 1..b : IF e[j] <= Len(n.in) THEN n.in[e[j]].id = n.outbound[j].id /\ n.outbound[j].n \in r
                        ELSE n.out[e[j] - Len(n.in)] = n.outbound[j]
    BY <1>7, <1>10, <2>1
  <2>4. \A k \in 1..(Len(n.in) + Len(n.out)) : Tracked(n, k) <=> \E j \in 1..b : e[j] = k
    BY <1>4, <1>9, <2>1
  <2> QED
    BY <1>4, <2>1, <2>2, <2>3, <2>4 DEF InLine
<1>13. Rest(n, b)
  BY <1>2, <1>7 DEF Rest
<1>14. b \in 0..Len(n.outbound) /\ e \in [1..b -> 1..(Len(n.in) + Len(n.out))]
  BY <1>12 DEF InLine
<1> QED
  BY <1>12, <1>13, <1>14 DEF Lined

\* The first packet of the stream, when it is a message of QoS 1: all messages in
\* flight before it have reached the broker.
LEMMA LinedHead ==
  ASSUME NEW m, Sound(m), NEW reached, Lined(m, reached), m.out # <<>>, m.out[1].kind = "pub1"
  PROVE  \E j \in DOMAIN m.outbound : m.outbound[j] = m.out[1] /\ \A i \in 1..(j - 1) : m.outbound[i].n \in reached
<1>1. PICK b \in 0..Len(m.outbound) : \E e \in [1..b -> 1..(Len(m.in) + Len(m.out))] :
        InLine(m, reached, b, e) /\ Rest(m, b)
  BY DEF Lined
<1>2. PICK e \in [1..b -> 1..(Len(m.in) + Len(m.out))] : InLine(m, reached, b, e)
  BY <1>1
<1> DEFINE L == Len(m.in)
           K == Len(m.out)
           O == Len(m.outbound)
<1>3. L \in Nat /\ K \in Nat /\ K >= 1 /\ O \in Nat /\ DOMAIN m.outbound = 1..O /\ b \in 0..O
  BY DEF Sound, SocketOK
<1>4. /\ e \in [1..b -> 1..(L + K)] /\ \A j, k \in 1..b : j < k => e[j] < e[k]
      /\ \A j \in 1..b : IF e[j] <= L THEN m.in[e[j]].id = m.outbound[j].id /\ m.outbound[j].n \in reached
                         ELSE m.out[e[j] - L] = m.outbound[j]
      /\ \A k \in 1..(L + K) : Tracked(m, k) <=> \E j \in 1..b : e[j] = k
  BY <1>2 DEF InLine
<1>5. \A k : Tracked(m, k) <=> IF k <= L THEN m.in[k].type = "PUBACK" ELSE m.out[k - L].kind = "pub1"
  BY DEF Tracked
<1> HIDE DEF L, K, O
<1>6. L + 1 \in 1..(L + K) /\ ~(L + 1 <= L) /\ (L + 1) - L = 1
  BY <1>3
<1>7. Tracked(m, L + 1)
  BY <1>5, <1>6
<1>8. PICK j \in 1..b : e[j] = L + 1
  BY <1>4, <1>6, <1>7
<1>9. j \in DOMAIN m.outbound /\ \A i \in 1..(j - 1) : i \in 1..b /\ i < j
  BY <1>3, <1>8
<1>10. m.outbound[j] = m.out[1]
  BY <1>4, <1>6, <1>8
<1>11. ASSUME NEW i \in 1..(j - 1) PROVE m.outbound[i].n \in reached
  <2>1. e[i] \in Int /\ e[i] < L + 1
    BY <1>3, <1>4, <1>8, <1>9
  <2>2. e[i] <= L
    BY <1>3, <2>1
  <2> QED
    BY <1>4, <1>9, <2>2
<1> QED
  BY <1>9, <1>10, <1>11

\* It takes a packet it does not answer.
Drops(m, n) ==
  /\ m.out # <<>> /\ n.out = Tail(m.out) /\ n.in = m.in
  /\ n.outbound = m.outbound /\ n.cut = m.cut /\ n.connected = m.connected /\ n.peer = m.peer
  /\ m.out[1].kind # "pub1"

\* The places behind it move up.
LEMMA LinedDropped ==
  ASSUME NEW m, Sound(m), NEW n, Sound(n), NEW reached, Lined(m, reached), Drops(m, n)
  PROVE  Lined(n, reached)
<1>1. PICK b \in 0..Len(m.outbound) : \E e \in [1..b -> 1..(Len(m.in) + Len(m.out))] :
        InLine(m, reached, b, e) /\ Rest(m, b)
  BY DEF Lined
<1>2. PICK e \in [1..b -> 1..(Len(m.in) + Len(m.out))] : InLine(m, reached, b, e) /\ Rest(m, b)
  BY <1>1
<1> DEFINE L == Len(m.in)
           K == Len(m.out)
           f == [j \in 1..b |-> IF e[j] <= L THEN e[j] ELSE e[j] - 1]
<1>3. /\ L \in Nat /\ K \in Nat /\ K >= 1 /\ n.in = m.in /\ Len(n.in) = L /\ Len(n.out) = K - 1
      /\ \A i \in 1..(K - 1) : n.out[i] = m.out[i + 1]
  <2> DEFINE v == m.out
  <2>1. v \in Seq(Commands) /\ n.out = Tail(v) /\ v # <<>> /\ n.in = m.in /\ L \in Nat
    BY DEF Sound, SocketOK, Drops
  <2> HIDE DEF v
  <2>2. /\ Len(v) \in Nat /\ Len(v) >= 1 /\ Len(Tail(v)) = Len(v) - 1
        /\ \A i \in 1..(Len(v) - 1) : Tail(v)[i] = v[i + 1]
    BY <2>1
  <2> QED
    BY <2>1, <2>2 DEF v
<1>4. /\ e \in [1..b -> 1..(L + K)] /\ \A j, k \in 1..b : j < k => e[j] < e[k]
      /\ \A j \in 1..b : IF e[j] <= L THEN m.in[e[j]].id = m.outbound[j].id /\ m.outbound[j].n \in reached
                         ELSE m.out[e[j] - L] = m.outbound[j]
      /\ \A k \in 1..(L + K) : Tracked(m, k) <=> \E j \in 1..b : e[j] = k
  BY <1>2 DEF InLine
<1>5. \A k : Tracked(m, k) <=> IF k <= L THEN m.in[k].type = "PUBACK" ELSE m.out[k - L].kind = "pub1"
  BY DEF Tracked
<1>6. \A k : Tracked(n, k) <=> IF k <= L THEN m.in[k].type = "PUBACK" ELSE n.out[k - L].kind = "pub1"
  BY <1>3 DEF Tracked
<1>7. /\ n.outbound = m.outbound /\ n.cut = m.cut /\ n.connected = m.connected /\ n.peer = m.peer
      /\ m.out[1].kind # "pub1"
  BY DEF Drops
<1>8. \A j \in 1..b : f[j] = IF e[j] <= L THEN e[j] ELSE e[j] - 1
  OBVIOUS
<1> HIDE DEF L, K
<1>9. ASSUME NEW j \in 1..b
      PROVE  /\ e[j] \in 1..(L + K) /\ e[j] \in Int
             /\ e[j] <= L \/ (e[j] - 1 > L /\ (e[j] - 1) - L \in 1..(K - 1) /\ ((e[j] - 1) - L) + 1 = e[j] - L)
  <2>1. e[j] \in 1..(L + K) /\ Tracked(m, e[j])
    BY <1>4
  <2>2. L + 1 \in 1..(L + K) /\ ~(L + 1 <= L) /\ (L + 1) - L = 1
    BY <1>3
  <2>3. e[j] # L + 1
    BY <1>5, <1>7, <2>1, <2>2
  <2> QED
    BY <1>3, <2>1, <2>3
<1>10. f \in [1..b -> 1..(L + (K - 1))]
  <2> SUFFICES ASSUME NEW j \in 1..b PROVE f[j] \in 1..(L + (K - 1))
    BY DEF f
  <2> QED
    BY <1>3, <1>8, <1>9
<1> HIDE DEF f
<1>11. ASSUME NEW j \in 1..b, NEW k \in 1..b, j < k PROVE f[j] < f[k]
  <2>1. e[j] < e[k]
    BY <1>4, <1>11
  <2>2. /\ e[j] \in Int /\ e[k] \in Int /\ L \in Nat
        /\ e[j] <= L \/ e[j] - 1 > L
        /\ e[k] <= L \/ e[k] - 1 > L
    BY <1>3, <1>9
  <2>3. /\ f[j] = IF e[j] <= L THEN e[j] ELSE e[j] - 1
        /\ f[k] = IF e[k] <= L THEN e[k] ELSE e[k] - 1
    BY <1>8
  <2> QED
    BY <2>1, <2>2, <2>3
<1>12. ASSUME NEW j \in 1..b
       PROVE  IF f[j] <= L THEN m.in[f[j]].id = m.outbound[j].id /\ m.outbound[j].n \in reached
              ELSE n.out[f[j] - L] = m.outbound[j]
  <2>1. CASE e[j] <= L
    BY <1>4, <1>8, <2>1
  <2>2. CASE ~(e[j] <= L)
    <3>1. f[j] = e[j] - 1 /\ ~(f[j] <= L) /\ f[j] - L \in 1..(K - 1) /\ (f[j] - L) + 1 = e[j] - L
      <4>1. f[j] = e[j] - 1
        BY <1>8, <2>2
      <4>2. e[j] - 1 > L /\ (e[j] - 1) - L \in 1..(K - 1) /\ ((e[j] - 1) - L) + 1 = e[j] - L /\ e[j] \in Int
        BY <1>9, <2>2
      <4> QED
        BY <1>3, <4>1, <4>2
    <3>2. n.out[f[j] - L] = m.out[e[j] - L]
      BY <1>3, <3>1
    <3> QED
      BY <1>4, <2>2, <3>1, <3>2
  <2> QED
    BY <2>1, <2>2
<1>13. ASSUME NEW k \in 1..(L + (K - 1)) PROVE Tracked(n, k) <=> \E j \in 1..b : f[j] = k
  <2>1. CASE k <= L
    <3>1. Tracked(n, k) <=> Tracked(m, k)
      BY <1>5, <1>6, <2>1
    <3>2. k \in 1..(L + K)
      BY <1>3
    <3>3. ASSUME NEW j \in 1..b PROVE f[j] = k <=> e[j] = k
      <4>1. e[j] <= L => f[j] = e[j]
        BY <1>8
      <4>2. ~(e[j] <= L) => ~(f[j] <= L)
        <5>1. ~(e[j] <= L) => f[j] = e[j] - 1 /\ e[j] - 1 > L /\ e[j] \in Int
          BY <1>8, <1>9
        <5> QED
          BY <1>3, <5>1
      <4> QED
        BY <2>1, <4>1, <4>2
    <3> QED
      BY <1>4, <3>1, <3>2, <3>3
  <2>2. CASE ~(k <= L)
    <3>1. k + 1 \in 1..(L + K) /\ ~(k + 1 <= L) /\ k - L \in 1..(K - 1) /\ (k - L) + 1 = (k + 1) - L
      BY <1>3, <2>2
    <3>2. n.out[k - L] = m.out[(k + 1) - L]
      BY <1>3, <3>1
    <3>3. Tracked(n, k) <=> Tracked(m, k + 1)
      BY <1>5, <1>6, <2>2, <3>1, <3>2
    <3>4. ASSUME NEW j \in 1..b PROVE f[j] = k <=> e[j] = k + 1
      <4>1. e[j] <= L => f[j] = e[j]
        BY <1>8
      <4>2. ~(e[j] <= L) => f[j] = e[j] - 1
        BY <1>8
      <4>3. e[j] \in Int /\ k \in Int
        BY <1>9
      <4>4. e[j] = k + 1 <=> e[j] - 1 = k
        BY <4>3
      <4> QED
        BY <2>2, <3>1, <4>1, <4>2, <4>4
    <3> QED
      BY <1>4, <3>1, <3>3, <3>4
  <2> QED
    BY <2>1, <2>2
<1>14. InLine(n, reached, b, f)
  <2>1. Len(n.in) = L /\ Len(n.out) = K - 1 /\ n.in = m.in
    BY <1>3
  <2>2. b \in 0..Len(n.outbound)
    BY <1>7
  <2>3. \A j \in 1..b : IF f[j] <= Len(n.in) THEN n.in[f[j]].id = n.outbound[j].id /\ n.outbound[j].n \in reached
                        ELSE n.out[f[j] - Len(n.in)] = n.outbound[j]
    BY <1>7, <1>12, <2>1
  <2>4. \A k \in 1..(Len(n.in) + Len(n.out)) : Tracked(n, k) <=> \E j \in 1..b : f[j] = k
    BY <1>13, <2>1
  <2> QED
    BY <1>10, <1>11, <2>1, <2>2, <2>3, <2>4 DEF InLine
<1>15. Rest(n, b)
  BY <1>2, <1>7 DEF Rest
<1>16. b \in 0..Len(n.outbound) /\ f \in [1..b -> 1..(Len(n.in) + Len(n.out))]
  BY <1>14 DEF InLine
<1> QED
  BY <1>14, <1>15, <1>16 DEF Lined

\* The session, when an answer comes: one that begins it is the first that
\* accepts a connection.
LEMMA SessionMore ==
  ASSUME TypesInv, SessionInv, NEW a, am'.in = Append(am.in, a), UNCHANGED <<recv, calling>>,
         am'.outbound = am.outbound, am'.connected = am.connected,
         \/ ~OkConnack(a) /\ broker'.session = broker.session
         \/ broker'.session /\ (NewSession(a) => ~broker.session)
  PROVE  SessionInv'
<1> DEFINE L == Len(am.in)
<1>1. /\ L \in Nat /\ DOMAIN am.in = 1..L /\ DOMAIN am'.in = 1..(L + 1)
      /\ am'.in[L + 1] = a /\ \A i \in 1..L : am'.in[i] = am.in[i]
  BY DEF TypesInv, SocketOK
<1>2. ToSet(am'.in) = ToSet(am.in) \cup {a}
  BY SetAppend DEF TypesInv, SocketOK
<1> HIDE DEF L
<1>3. ~broker.session => ~Before(recv.pack, am.in)
  BY DEF SessionInv
<1>4. ~broker.session \/ Begins(recv.pack, am.in) =>
        am.outbound = <<>> /\ ~am.connected /\ calling.kind # "sub"
  BY DEF SessionInv
<1>5. NewSession(a) => ~broker.session
  BY DEF NewSession
<1>6. ~broker'.session => ~Before(recv'.pack, am'.in)
  BY <1>2, <1>3 DEF Before
<1>7. Begins(recv'.pack, am'.in) => Begins(recv.pack, am.in) \/ NewSession(a)
  BY <1>2 DEF Begins
<1>8. ~broker'.session \/ Begins(recv'.pack, am'.in) =>
        am'.outbound = <<>> /\ ~am'.connected /\ calling'.kind # "sub"
  BY <1>4, <1>5, <1>7
<1>9. ASSUME NEW j \in DOMAIN am'.in, NewSession(am'.in[j])
      PROVE  ~OkConnack(recv'.pack) /\ \A i \in 1..(j - 1) : ~OkConnack(am'.in[i])
  <2>1. \A i \in 1..(j - 1) : i \in 1..L
    BY <1>1
  <2>2. CASE j = L + 1
    <3>1. ~Before(recv.pack, am.in)
      BY <1>1, <1>3, <1>5, <1>9, <2>2
    <3> QED
      BY <1>1, <2>1, <3>1 DEF Before, ToSet
  <2>3. CASE j # L + 1
    <3>1. j \in DOMAIN am.in /\ am'.in[j] = am.in[j]
      BY <1>1, <2>3
    <3> QED
      BY <1>1, <1>9, <2>1, <3>1 DEF SessionInv
  <2> QED
    BY <2>2, <2>3
<1> QED
  BY <1>6, <1>8, <1>9 DEF SessionInv, Begins, Before

\* The broker takes a packet: what it leaves alone.
Takes ==
  /\ am.out # <<>> /\ am'.out = Tail(am.out) /\ Sound(am')
  /\ am'.commands = am.commands /\ am'.responses = am.responses /\ am'.outbound = am.outbound
  /\ am'.pending_write = am.pending_write /\ am'.msgID = am.msgID /\ am'.cut = am.cut
  /\ am'.connected = am.connected /\ am'.peer = am.peer /\ am'.state = am.state

\* The fields of a reply, or without one.
LEMMA ReplyFields ==
  ASSUME Sound(am), am.out # <<>>, NEW a \in Answers, NEW list, list = Append(am.in, a) \/ list = am.in,
         am' = [am EXCEPT !.out = Tail(@), !.in = list]
  PROVE  Takes /\ am'.in = list
<1>1. /\ DOMAIN am' = DOMAIN am /\ am'.out = Tail(am.out) /\ am'.in = list
      /\ am'.commands = am.commands /\ am'.responses = am.responses /\ am'.outbound = am.outbound
      /\ am'.pending_write = am.pending_write /\ am'.msgID = am.msgID /\ am'.cut = am.cut
      /\ am'.connected = am.connected /\ am'.peer = am.peer /\ am'.state = am.state
      /\ am'.uri = am.uri /\ am'.disconnect = am.disconnect
  BY DEF Sound, ClientOK
<1>2. Tail(am.out) \in Seq(Commands)
  BY SetTail DEF Sound, SocketOK
<1>3. list \in Seq(Answers)
  <2>1. am.in \in Seq(Answers)
    BY DEF Sound, SocketOK
  <2>2. Append(am.in, a) \in Seq(Answers)
    BY <2>1
  <2> QED
    BY <2>1, <2>2
<1>4. ClientOK(am') /\ SocketOK(am')
  BY <1>1, <1>2, <1>3 DEF Sound, ClientOK, SocketOK
<1> QED
  BY <1>1, <1>4 DEF Takes, Sound

\* What becomes of the calls: nothing, but for what the broker has got.
LEMMA BrokerStep ==
  ASSUME DeliveryInv, Outside, Takes, NEW r, broker.reached \subseteq r, r \subseteq DOMAIN admitted,
         DOMAIN broker' = {"session", "reached"}, broker'.session \in BOOLEAN, broker'.reached = r,
         ~am.connected => \A p \in ToSet(am'.in) : p.type = "CONNACK",
         SubsIn(am'.out, am'.in, recv.pack) \subseteq SubsIn(am.out, am.in, recv.pack),
         SessionInv', Lined(am', r),
         ~crashed => \A n \in Publishes \cap (r \ broker.reached) : \A k \in Publishes :
                       k < n => k \in r \/ "failure" \in Heard(k)
  PROVE  DeliveryInv'
<1>1. TypesInv /\ HandInv /\ Sound(am) /\ LinkOK(am) /\ KnownInv /\ KeptInv /\ (~crashed => FirstLife) /\ HandLink
      /\ ToldInv
  BY DEF DeliveryInv, TypesInv, Sound
<1>2. /\ am.out # <<>> /\ am'.out = Tail(am.out) /\ Sound(am')
      /\ am'.commands = am.commands /\ am'.responses = am.responses /\ am'.outbound = am.outbound
      /\ am'.pending_write = am.pending_write /\ am'.msgID = am.msgID /\ am'.cut = am.cut
      /\ am'.connected = am.connected /\ am'.peer = am.peer /\ am'.state = am.state
  BY DEF Takes
<1>3. UNCHANGED <<hand, recv, calling, admitted, told, lost, crashed>>
  BY DEF Outside
<1>4. TypesInv'
  <2>1. HandInv' /\ RecvInv' /\ CallingInv' /\ ToldInv' /\ recv'.pack \in Answers /\ recv'.pack.type # "PUBACK"
        /\ crashed' \in BOOLEAN
    BY <1>1, <1>3 DEF TypesInv, HandInv, RecvInv, CallingInv, ToldInv
  <2>2. ClientOK(am)' /\ SocketOK(am)'
    BY <1>2 DEF Sound
  <2> QED
    BY <2>1, <2>2 DEF TypesInv
<1>5. CallSet(am'.out) \subseteq CallSet(am.out)
  <2>1. ToSet(Tail(am.out)) \subseteq ToSet(am.out)
    BY <1>1, <1>2, SetTail DEF Sound, SocketOK
  <2> QED
    BY <1>2, <2>1 DEF CallSet
<1>6. LinkOK(am')
  BY <1>1, <1>2, <1>5 DEF LinkOK
<1>7. HandLink'
  BY <1>1, <1>2, <1>3 DEF HandLink
<1>8. Unsent' = Unsent /\ Waiting' = Waiting /\ Flying' = Flying /\ Known' \subseteq Known
  <2>1. Unsent' = Unsent /\ Waiting' = Waiting /\ Flying' = Flying
    BY <1>2, <1>3 DEF Unsent, Waiting, Flying
  <2> QED
    BY <1>2, <1>3, <1>5, <2>1 DEF Known
<1>9. ASSUME ~crashed PROVE OrderInv' /\ SubsInv'
  <2>1. FirstLife
    BY <1>1, <1>9
  <2>2. SubsInv'
    BY <1>1, <1>2, <1>3, <1>8, <2>1, SubsStep
  <2>3. OrderInv'
    BY <1>2, <1>3, <1>8, <2>1 DEF FirstLife, OrderInv
  <2> QED
    BY <2>2, <2>3
<1>10. Hears({}, "ok")
  BY <1>1, <1>3, HearsNone
<1>11. KnownInv' /\ KeptInv' /\ (~crashed' => FirstLife')
  <2>1. FlightMoves
    BY <1>8 DEF FlightMoves
  <2> QED
    BY <1>1, <1>2, <1>3, <1>8, <1>9, <1>10, <2>1, MoveStep
<1>12. Lined(am', broker'.reached)
  OBVIOUS
<1> QED
  BY <1>4, <1>6, <1>7, <1>11, <1>12 DEF DeliveryInv

\* A message of QoS 1 that reaches the broker overtakes none that was accepted
\* before.
LEMMA HeadInOrder ==
  ASSUME DeliveryInv, ~crashed, am.out # <<>>, am.out[1].kind = "pub1",
         NEW k \in Publishes, k < am.out[1].n
  PROVE  k \in broker.reached \/ "failure" \in Heard(k)
<1> DEFINE p == am.out[1]
<1>1. TypesInv /\ Sound(am) /\ Lined(am, broker.reached) /\ KnownInv /\ KeptInv /\ FirstLife
  BY DEF DeliveryInv, TypesInv, Sound
<1>2. PICK j \in DOMAIN am.outbound :
        am.outbound[j] = p /\ \A i \in 1..(j - 1) : am.outbound[i].n \in broker.reached
  BY <1>1, LinedHead
<1> HIDE DEF p
<1>3. p \in Flying /\ Flying \subseteq Calls /\ Unsent \subseteq Calls /\ k \in Numbers
  BY <1>1, <1>2, Accepted DEF Flying, ToSet, Publishes
<1>4. k \in Int /\ k # 0 /\ p.n \in Int
  BY <1>3 DEF Numbers, Calls
<1>5. lost # k /\ "unheard" \notin Heard(k)
  BY <1>1, <1>3, <1>4 DEF FirstLife, YoungInv
<1>6. CASE \E x \in Unsent \cup Flying : x.n = k
  <2>1. PICK x \in Unsent \cup Flying : x.n = k
    BY <1>6
  <2>2. x \notin Unsent
    <3>1. x \in Unsent => p.n < x.n
      BY <1>1, <1>3 DEF FirstLife, OrderInv
    <3> QED
      BY <1>4, <2>1, <3>1 DEF p
  <2>3. PICK i \in DOMAIN am.outbound : x = am.outbound[i]
    BY <2>1, <2>2 DEF Flying, ToSet
  <2>4. i \in Nat \ {0} /\ j \in Nat \ {0}
    BY <1>1 DEF Sound, SocketOK
  <2>5. \A y \in Calls : IsCall(y)
    BY DEF Calls, IsCall
  <2>6. j < i => p.n < x.n
    BY <1>1, <1>2, <1>3, <2>1, <2>2, <2>3, <2>5 DEF FirstLife, OrderInv, Rising
  <2>7. i < j
    BY <1>2, <1>4, <2>1, <2>3, <2>4, <2>6 DEF p
  <2>8. i \in 1..(j - 1)
    BY <2>4, <2>7
  <2> QED
    BY <1>2, <2>1, <2>3, <2>8
<1> QED
  BY <1>1, <1>5, <1>6 DEF KeptInv

\* An answer that comes for the first packet p of the stream.
LEMMA ReplyDelivers ==
  ASSUME DeliveryInv, Outside, am.out # <<>>, NEW a \in Answers,
         am' = [am EXCEPT !.out = Tail(@), !.in = Append(@, a)],
         \/ ~OkConnack(a) /\ broker'.session = broker.session
         \/ broker'.session /\ (NewSession(a) => ~broker.session),
         DOMAIN broker' = {"session", "reached"}, broker'.session \in BOOLEAN,
         IF am.out[1].kind = "pub1"
         THEN a.type = "PUBACK" /\ a.id = am.out[1].id /\ broker'.reached = broker.reached \cup {am.out[1].n}
         ELSE a.type # "PUBACK" /\ broker'.reached = broker.reached,
         a.type = "SUBACK" => am.out[1].kind = "sub" /\ a.id = am.out[1].id,
         a.type = "CONNACK" \/ IsCall(am.out[1])
  PROVE  DeliveryInv'
<1> DEFINE p == am.out[1]
           r == broker'.reached
<1>1. TypesInv /\ Sound(am) /\ LinkOK(am) /\ SessionInv /\ Lined(am, broker.reached) /\ KnownInv
  BY DEF DeliveryInv, TypesInv, Sound
<1>2. Takes /\ am'.in = Append(am.in, a)
  <2> DEFINE list == Append(am.in, a)
  <2>1. am' = [am EXCEPT !.out = Tail(@), !.in = list]
    OBVIOUS
  <2> HIDE DEF list
  <2>2. Takes /\ am'.in = list
    BY <1>1, <2>1, ReplyFields DEF list
  <2> QED
    BY <2>2 DEF list
<1>3. am'.out = Tail(am.out) /\ Sound(am') /\ am'.outbound = am.outbound /\ am'.cut = am.cut
      /\ am'.connected = am.connected /\ am'.peer = am.peer
  BY <1>2 DEF Takes
<1>4. ToSet(am.out) = {p} \cup ToSet(am'.out) /\ ToSet(am'.in) = ToSet(am.in) \cup {a}
  <2>1. am.out \in Seq(Commands) /\ am.in \in Seq(Answers)
    BY <1>1 DEF Sound, SocketOK
  <2>2. ToSet(am.out) = {p} \cup ToSet(Tail(am.out))
    BY <2>1, SetTail
  <2>3. ToSet(am'.in) = ToSet(am.in) \cup {a}
    BY <1>2, <2>1, SetAppend
  <2> QED
    BY <1>3, <2>2, <2>3
<1>5. SessionInv'
  <2>1. UNCHANGED <<recv, calling>>
    BY DEF Outside
  <2> QED
    BY <1>1, <1>2, <1>3, <2>1, SessionMore
<1>6. IsCall(p) => p \in Known
  BY <1>4 DEF Known, CallSet
<1>7. broker.reached \subseteq r /\ r \subseteq DOMAIN admitted
  <2>1. broker.reached \subseteq DOMAIN admitted /\ (IsCall(p) => p.n \in DOMAIN admitted)
    BY <1>1, <1>6 DEF KnownInv
  <2>2. p.kind = "pub1" => IsCall(p)
    BY DEF IsCall
  <2> QED
    BY <2>1, <2>2
<1>8. ~am.connected => \A q \in ToSet(am'.in) : q.type = "CONNACK"
  BY <1>1, <1>4 DEF LinkOK, CallSet
<1>9. SubsIn(am'.out, am'.in, recv.pack) \subseteq SubsIn(am.out, am.in, recv.pack)
  <2> SUFFICES ASSUME NEW i \in SubsIn(am'.out, am'.in, recv.pack) PROVE i \in SubsIn(am.out, am.in, recv.pack)
    OBVIOUS
  <2>1. CASE \E c \in ToSet(am'.out) : c.kind = "sub" /\ i = c.id
    BY <1>4, <2>1 DEF SubsIn
  <2>2. CASE \E c \in ToSet(am'.in) \cup {recv.pack} : c.type = "SUBACK" /\ i = c.id
    <3>1. PICK c \in ToSet(am'.in) \cup {recv.pack} : c.type = "SUBACK" /\ i = c.id
      BY <2>2
    <3>2. CASE c = a
      <4>1. p \in ToSet(am.out) /\ p.kind = "sub" /\ i = p.id
        BY <1>4, <3>1, <3>2
      <4> HIDE DEF p
      <4> QED
        BY <4>1 DEF SubsIn
    <3>3. CASE c # a
      BY <1>4, <3>1, <3>3 DEF SubsIn
    <3> QED
      BY <3>2, <3>3
  <2> QED
    BY <2>1, <2>2 DEF SubsIn
<1>10. Lined(am', r)
  <2>1. Replies(am, am', a)
    BY <1>2, <1>3 DEF Replies
  <2>2. p.kind = "pub1" => p.n \in r
    OBVIOUS
  <2> HIDE DEF r
  <2> QED
    BY <1>1, <1>3, <1>7, <2>1, <2>2, LinedReplied
<1>11. ASSUME ~crashed, NEW n \in Publishes \cap (r \ broker.reached), NEW k \in Publishes, k < n
       PROVE  k \in r \/ "failure" \in Heard(k)
  <2>1. p.kind = "pub1" /\ n = p.n
    OBVIOUS
  <2>2. k \in broker.reached \/ "failure" \in Heard(k)
    BY <1>11, <2>1, HeadInOrder
  <2> QED
    BY <1>7, <2>2
<1>12. broker'.reached = r
  OBVIOUS
<1> HIDE DEF p, r
<1> QED
  BY <1>2, <1>5, <1>7, <1>8, <1>9, <1>10, <1>11, <1>12, BrokerStep

\* A publication of QoS 0 reaches the broker, without an answer.
LEMMA ZeroDelivers ==
  ASSUME DeliveryInv, Outside, am.out # <<>>, am.out[1].kind = "pub0",
         am' = [am EXCEPT !.out = Tail(@)],
         broker' = [broker EXCEPT !.reached = @ \cup {am.out[1].n}]
  PROVE  DeliveryInv'
<1> DEFINE p == am.out[1]
           r == broker.reached \cup {p.n}
<1>1. TypesInv /\ Sound(am) /\ LinkOK(am) /\ SessionInv /\ Lined(am, broker.reached) /\ KnownInv
  BY DEF DeliveryInv, TypesInv, Sound
<1>2. Takes /\ am'.in = am.in
  <2> DEFINE list == am.in
  <2>1. am' = [am EXCEPT !.out = Tail(@), !.in = list]
    BY <1>1 DEF Sound, ClientOK
  <2>2. NoAnswer \in Answers
    BY DEF NoAnswer, Answers
  <2> HIDE DEF list
  <2>3. Takes /\ am'.in = list
    BY <1>1, <2>1, <2>2, ReplyFields DEF list
  <2> QED
    BY <2>3 DEF list
<1>3. am'.out = Tail(am.out) /\ Sound(am') /\ am'.outbound = am.outbound /\ am'.cut = am.cut
      /\ am'.connected = am.connected /\ am'.peer = am.peer
  BY <1>2 DEF Takes
<1>4. ToSet(am.out) = {p} \cup ToSet(am'.out)
  BY <1>1, <1>3, SetTail DEF Sound, SocketOK
<1>5. UNCHANGED <<recv, calling>>
  BY DEF Outside
<1>6. /\ DOMAIN broker' = {"session", "reached"} /\ broker'.session = broker.session
      /\ broker'.reached = r /\ broker'.session \in BOOLEAN
  BY <1>1 DEF TypesInv
<1>7. SessionInv'
  BY <1>1, <1>2, <1>3, <1>5, <1>6 DEF SessionInv, Begins, Before
<1>8. p \in Known /\ p.n \in DOMAIN admitted /\ admitted[p.n].kind = "pub0"
  <2>1. p \in Known
    BY <1>4 DEF Known, CallSet, IsCall
  <2> QED
    BY <1>1, <2>1 DEF KnownInv
<1>9. broker.reached \subseteq r /\ r \subseteq DOMAIN admitted
  BY <1>1, <1>8 DEF KnownInv
<1>10. ~am.connected => \A q \in ToSet(am'.in) : q.type = "CONNACK"
  BY <1>1, <1>2 DEF LinkOK
<1>11. SubsIn(am'.out, am'.in, recv.pack) \subseteq SubsIn(am.out, am.in, recv.pack)
  BY <1>2, <1>4 DEF SubsIn
<1>12. Lined(am', r)
  <2>1. Drops(am, am')
    BY <1>2, <1>3 DEF Drops
  <2>2. Lined(am', broker.reached)
    BY <1>1, <1>3, <2>1, LinedDropped
  <2> HIDE DEF r
  <2> QED
    BY <1>9, <2>2, LinedSame
<1>13. ASSUME ~crashed, NEW n \in Publishes \cap (r \ broker.reached), NEW k \in Publishes, k < n
       PROVE  k \in r \/ "failure" \in Heard(k)
  BY <1>8 DEF Publishes
<1> HIDE DEF p, r
<1> QED
  BY <1>2, <1>6, <1>7, <1>9, <1>10, <1>11, <1>12, <1>13, BrokerStep

\* The broker.
LEMMA BrokerAnswersDelivers ==
  ASSUME ~AsyncClean, DeliveryInv, BrokerAnswers
  PROVE  DeliveryInv'
<1> DEFINE p == am.out[1]
           answer(type, id, ok) == [type |-> type, id |-> id, ok |-> ok]
           session == IF broker.session THEN 1 ELSE 0
<1>1. am.out # <<>> /\ Outside /\ Head(am.out) = p
  BY DEF BrokerAnswers
<1>2. DOMAIN broker = {"session", "reached"} /\ broker.session \in BOOLEAN /\ p \in Commands
  <2>1. am.out \in Seq(Commands)
    BY DEF DeliveryInv, TypesInv, SocketOK
  <2> QED
    BY <1>1, <2>1, SetTail DEF DeliveryInv, TypesInv
<1>3. \/ /\ p.kind = "connect" /\ am' = Reply("CONNACK", session, TRUE)
         /\ broker' = [broker EXCEPT !.session = TRUE]
      \/ p.kind = "connect" /\ am' = Reply("CONNACK", 0, FALSE) /\ UNCHANGED broker
      \/ p.kind = "sub" /\ am' = Reply("SUBACK", p.id, TRUE) /\ UNCHANGED broker
      \/ /\ p.kind = "pub1" /\ am' = Reply("PUBACK", p.id, TRUE)
         /\ broker' = [broker EXCEPT !.reached = @ \cup {p.n}]
      \/ /\ p.kind = "pub0" /\ am' = [am EXCEPT !.out = Tail(@)]
         /\ broker' = [broker EXCEPT !.reached = @ \cup {p.n}]
  BY <1>1 DEF BrokerAnswers
<1>4. p.id \in Nat
  BY <1>2 DEF Commands, Calls
<1>5. CASE p.kind = "connect" /\ am' = Reply("CONNACK", session, TRUE) /\ broker' = [broker EXCEPT !.session = TRUE]
  <2> DEFINE a == answer("CONNACK", session, TRUE)
  <2>1. a \in Answers /\ a.type = "CONNACK" /\ (NewSession(a) => ~broker.session)
    BY DEF Answers, NewSession
  <2>2. am' = [am EXCEPT !.out = Tail(@), !.in = Append(@, a)]
    BY <1>5 DEF Reply
  <2>3. DOMAIN broker' = {"session", "reached"} /\ broker'.session = TRUE /\ broker'.reached = broker.reached
    BY <1>2, <1>5
  <2> HIDE DEF a
  <2> QED
    BY <1>1, <1>5, <2>1, <2>2, <2>3, ReplyDelivers
<1>6. CASE p.kind = "connect" /\ am' = Reply("CONNACK", 0, FALSE) /\ UNCHANGED broker
  <2> DEFINE a == answer("CONNACK", 0, FALSE)
  <2>1. a \in Answers /\ a.type = "CONNACK" /\ ~OkConnack(a)
    BY DEF Answers, OkConnack
  <2>2. am' = [am EXCEPT !.out = Tail(@), !.in = Append(@, a)]
    BY <1>6 DEF Reply
  <2> HIDE DEF a
  <2> QED
    BY <1>1, <1>2, <1>6, <2>1, <2>2, ReplyDelivers
<1>7. CASE p.kind = "sub" /\ am' = Reply("SUBACK", p.id, TRUE) /\ UNCHANGED broker
  <2> DEFINE a == answer("SUBACK", p.id, TRUE)
  <2>1. a \in Answers /\ a.type = "SUBACK" /\ ~OkConnack(a) /\ a.id = p.id
    BY <1>4 DEF Answers, OkConnack
  <2>2. am' = [am EXCEPT !.out = Tail(@), !.in = Append(@, a)]
    BY <1>7 DEF Reply
  <2> HIDE DEF a
  <2> QED
    BY <1>1, <1>2, <1>7, <2>1, <2>2, ReplyDelivers DEF IsCall
<1>8. CASE p.kind = "pub1" /\ am' = Reply("PUBACK", p.id, TRUE) /\ broker' = [broker EXCEPT !.reached = @ \cup {p.n}]
  <2> DEFINE a == answer("PUBACK", p.id, TRUE)
  <2>1. a \in Answers /\ a.type = "PUBACK" /\ ~OkConnack(a) /\ a.id = p.id
    BY <1>4 DEF Answers, OkConnack
  <2>2. am' = [am EXCEPT !.out = Tail(@), !.in = Append(@, a)]
    BY <1>8 DEF Reply
  <2>3. DOMAIN broker' = {"session", "reached"} /\ broker'.session = broker.session
        /\ broker'.reached = broker.reached \cup {p.n}
    BY <1>2, <1>8
  <2> HIDE DEF a
  <2> QED
    BY <1>1, <1>2, <1>8, <2>1, <2>2, <2>3, ReplyDelivers DEF IsCall
<1>9. CASE p.kind = "pub0" /\ am' = [am EXCEPT !.out = Tail(@)] /\ broker' = [broker EXCEPT !.reached = @ \cup {p.n}]
  BY <1>1, <1>9, ZeroDelivers
<1> QED
  BY <1>3, <1>5, <1>6, <1>7, <1>8, <1>9
-------------------------------------------------------------------------------
\* The process.

\* What is in a list is finite ...
LEMMA FiniteList ==
  ASSUME NEW S, NEW list \in Seq(S)
  PROVE  IsFiniteSet(ToSet(list))
<1> DEFINE N == Len(list)
           T == ToSet(list)
<1>1. N \in Nat /\ list \in [1..N -> T] /\ \A t \in T : \E i \in 1..N : list[i] = t
  BY DEF ToSet
<1> HIDE DEF N, T
<1>2. IsFiniteSet(1..N)
  BY <1>1, FS_Interval
<1>3. list \in Surjection(1..N, T)
  BY <1>1 DEF Surjection
<1> QED
  BY <1>2, <1>3, FS_Surjection DEF T

\* ... and a finite set in an order has its elements.
LEMMA SetInOrder ==
  ASSUME NEW S, IsFiniteSet(S), NEW order \in SetToSeqs(S)
  PROVE  order \in Seq(S) /\ ToSet(order) = S
<1> DEFINE D == 1..Cardinality(S)
<1>1. Cardinality(S) \in Nat
  BY FS_CardinalityType
<1>2. order \in [D -> S] /\ \A i, j \in D : i # j => order[i] # order[j]
  BY DEF SetToSeqs
<1> HIDE DEF D
<1>3. order \in Injection(D, S)
  BY <1>2 DEF Injection, IsInjective
<1>4. Cardinality(D) = Cardinality(S)
  <2> DEFINE c == Cardinality(S)
  <2>1. c \in Int /\ c \in Nat /\ D = 1..c
    BY <1>1 DEF D
  <2> HIDE DEF c
  <2>2. Cardinality(1..c) = IF 1 > c THEN 0 ELSE c - 1 + 1
    BY <2>1, FS_Interval
  <2>3. Cardinality(1..c) = c
    BY <2>1, <2>2
  <2> QED
    BY <2>1, <2>3 DEF c
<1>5. \A t \in S : \E i \in D : order[i] = t
  <2>1. order \in Surjection(D, S)
    BY <1>3, <1>4, FS_Injection
  <2> QED
    BY <2>1 DEF Surjection
<1>6. ToSet(order) = S
  BY <1>2, <1>5 DEF ToSet
<1>7. order \in Seq(S)
  BY <1>1, <1>2 DEF D
<1> QED
  BY <1>6, <1>7

\* All stored commands come back, in any order.
LEMMA RestoredCommands ==
  ASSUME am.commands \in Seq(Commands), NEW order \in SetToSeqs(Persisted)
  PROVE  order \in Seq(Commands) /\ CallSet(order) = CallSet(am.commands)
<1> DEFINE S == Persisted
<1>1. S = CallSet(am.commands) /\ S \subseteq ToSet(am.commands) /\ S \subseteq Commands /\ \A x \in S : IsCall(x)
  <2>1. ToSet(am.commands) \subseteq Commands
    BY SetOf
  <2> QED
    BY <2>1 DEF Persisted, CallSet
<1>2. IsFiniteSet(S)
  BY <1>1, FiniteList, FS_Subset
<1> HIDE DEF S
<1>3. order \in SetToSeqs(S)
  BY DEF S
<1>4. order \in Seq(S) /\ ToSet(order) = S
  BY <1>2, <1>3, SetInOrder
<1>5. order \in Seq(Commands)
  BY <1>1, <1>4, SeqMonotonic
<1> QED
  BY <1>1, <1>4, <1>5 DEF CallSet

\* Of the messages in flight those come back that have a record.
LEMMA RestoredMessages ==
  ASSUME am.outbound \in Seq(Calls), NEW S \in Recorded, NEW sent \in SetToSeqs(S)
  PROVE  sent \in Seq(Calls) /\ ToSet(sent) = S /\ S \subseteq Flying
<1>1. S \subseteq ToSet(am.outbound) /\ ToSet(am.outbound) \subseteq Calls
  BY SetOf DEF Recorded
<1>2. IsFiniteSet(S)
  BY <1>1, FiniteList, FS_Subset
<1>3. sent \in Seq(S) /\ ToSet(sent) = S
  BY <1>2, SetInOrder
<1>4. sent \in Seq(Calls)
  BY <1>1, <1>3, SeqMonotonic
<1> QED
  BY <1>1, <1>3, <1>4 DEF Flying

\* The process is restarted: it loses the call in the send thread's hand, every
\* answer, and messages that share a record.
LEMMA RestartsDelivers ==
  ASSUME DeliveryInv, Restarts
  PROVE  DeliveryInv'
<1>1. TypesInv /\ Sound(am) /\ SessionInv /\ KnownInv /\ KeptInv /\ FirstLife
  BY DEF DeliveryInv, TypesInv, Sound, Restarts
<1>0. PICK order \in SetToSeqs(Persisted), S \in Recorded :
        \E sent \in SetToSeqs(S) : am' = [AsyncFresh EXCEPT !.commands = order, !.outbound = sent]
  BY DEF Restarts
<1>2. PICK sent \in SetToSeqs(S) : am' = [AsyncFresh EXCEPT !.commands = order, !.outbound = sent]
  BY <1>0
<1>3. /\ order \in Seq(Commands) /\ CallSet(order) = CallSet(am.commands)
      /\ sent \in Seq(Calls) /\ ToSet(sent) = S /\ S \subseteq Flying
  BY <1>1, RestoredCommands, RestoredMessages DEF Sound, ClientOK, SocketOK
<1>4. /\ crashed' = TRUE /\ lost' = (IF IsCall(hand.cmd) THEN hand.cmd.n ELSE 0) /\ Done
      /\ recv' = [pc |-> "select", sock |-> 0, pack |-> NoAnswer, rc |-> 0]
      /\ calling' = NoCommand /\ UNCHANGED <<admitted, told, broker>>
  BY DEF Restarts
<1>5. /\ DOMAIN am' = DOMAIN AsyncFresh /\ am'.commands = order /\ am'.outbound = sent
      /\ am'.responses = <<>> /\ am'.msgID = 0 /\ am'.uri = 0 /\ am'.disconnect = NoCommand
      /\ am'.pending_write = 0 /\ am'.out = <<>> /\ am'.in = <<>> /\ am'.cut = NoCommand /\ am'.connected = FALSE
  BY <1>2 DEF AsyncFresh
<1>6. Sound(am') /\ Closed(am')
  <2>1. ClientOK(am')
    BY <1>3, <1>5 DEF ClientOK, AsyncFresh
  <2>2. SocketOK(am')
    <3>1. <<>> \in Seq(Commands) /\ <<>> \in Seq(Answers) /\ FALSE \in BOOLEAN /\ 0 \in Nat
      OBVIOUS
    <3>2. am'.outbound \in Seq(Calls)
      BY <1>3, <1>5
    <3>3. am'.connected \in BOOLEAN /\ am'.cut \in Calls \cup {NoCommand}
      BY <1>5, Zenon
    <3> QED
      BY <1>5, <3>1, <3>2, <3>3 DEF SocketOK
  <2> QED
    BY <1>5, <2>1, <2>2 DEF Sound, Closed
<1>7. NoAnswer \in Answers /\ NoAnswer.type \notin {"PUBACK", "CONNACK"} /\ NoCommand.kind # "sub" /\ ~IsCall(NoCommand)
  BY DEF NoAnswer, Answers, NoCommand, Command, IsCall
<1>8. HandInv' /\ HandLink' /\ HeldSet(hand'.cmd) = {} /\ HeldSet(calling') = {} /\ HeldSet(am'.cut) = {}
  <2>1. hand'.cmd = NoCommand /\ hand'.at = "none"
    BY <1>4 DEF Done
  <2> QED
    BY <1>4, <1>5, <1>7, <2>1, HandEmpty DEF HandLink, HeldSet
<1>9. TypesInv'
  <2>1. RecvInv' /\ recv'.pack \in Answers /\ recv'.pack.type # "PUBACK"
    BY <1>4, <1>7 DEF RecvInv
  <2>2. CallingInv' /\ ToldInv' /\ crashed' \in BOOLEAN /\ DOMAIN broker' = {"session", "reached"}
        /\ broker'.session \in BOOLEAN
    BY <1>1, <1>4 DEF TypesInv, CallingInv, ToldInv
  <2>3. ClientOK(am)' /\ SocketOK(am)'
    BY <1>6 DEF Sound
  <2> QED
    BY <1>8, <2>1, <2>2, <2>3 DEF TypesInv
<1>10. Lined(am', broker'.reached) /\ LinkOK(am')
  BY <1>6, LinedClosed
<1>11. SessionInv'
  <2>1. ~Before(recv'.pack, am'.in) /\ ~Begins(recv'.pack, am'.in)
    BY <1>4, <1>5, <1>7, SetOf DEF Before, Begins, NewSession, OkConnack
  <2>2. ~broker.session => am'.outbound = <<>>
    <3>1. ~broker.session => Flying = {}
      BY <1>1, SetOf DEF SessionInv, Flying
    <3>2. ToSet(sent) = {} => sent = <<>>
      BY <1>3 DEF ToSet
    <3> QED
      BY <1>3, <1>5, <3>1, <3>2
  <2>3. DOMAIN am'.in = {}
    BY <1>5
  <2> QED
    BY <1>4, <1>5, <1>7, <2>1, <2>2, <2>3 DEF SessionInv, Begins, Before
<1>12. Flying' = S /\ S \subseteq Flying /\ CallSet(am'.commands) = CallSet(am.commands)
  BY <1>3, <1>5 DEF Flying
<1>13. Known' \subseteq Known
  <2>1. Waiting' = {} /\ CallSet(am'.out) = {}
    BY <1>5, SetOf DEF Waiting, CallSet
  <2> QED
    BY <1>8, <1>12, <2>1 DEF Known
<1>14. KnownInv'
  BY <1>1, <1>4, <1>5, <1>12, <1>13 DEF KnownInv, Heard
<1>15. ASSUME NEW n \in Publishes
       PROVE  \/ \E x \in Unsent' \cup Flying' : x.n = n
              \/ n \in broker.reached \/ lost' = n \/ "failure" \in Heard(n) \/ "unheard" \in Heard(n)
              \/ ~admitted[n].fresh
  <2>1. n \in DOMAIN admitted /\ n # 0
    BY <1>1, Accepted DEF Publishes, Numbers
  <2>2. lost # n
    BY <1>1, <2>1 DEF FirstLife, YoungInv
  <2>3. CASE \E x \in Unsent \cup Flying : x.n = n
    <3>1. PICK x \in Unsent \cup Flying : x.n = n
      BY <2>3
    <3>2. x \notin HeldSet(calling)
      BY <1>1, <2>1, <3>1, Accepted
    <3>3. CASE x \in HeldSet(hand.cmd)
      BY <1>4, <3>1, <3>3 DEF HeldSet
    <3>4. CASE x \notin HeldSet(hand.cmd)
      <4>1. x \in CallSet(am.commands) \cup Flying
        BY <3>1, <3>2, <3>4 DEF Unsent
      <4>2. CASE x \in CallSet(am.commands)
        BY <1>12, <3>1, <4>2 DEF Unsent
      <4>3. CASE x \in Flying /\ (~admitted[n].fresh \/ "failure" \in Heard(n))
        BY <4>3
      <4>4. CASE x \in Flying /\ admitted[n].fresh /\ "failure" \notin Heard(n)
        <5>1. \A y \in Flying : y.id = x.id => y = x
          BY <1>1, <3>1, <4>4 DEF FirstLife, FlightInv
        <5>2. \E y \in S : y.id = x.id
          BY <3>1, <4>4 DEF Recorded, Flying
        <5>3. x \in Flying'
          BY <1>12, <5>1, <5>2
        <5> QED
          BY <3>1, <5>3
      <4> QED
        BY <4>1, <4>2, <4>3, <4>4
    <3> QED
      BY <3>3, <3>4
  <2> QED
    BY <1>1, <2>2, <2>3 DEF KeptInv
<1>16. KeptInv'
  <2>1. Publishes' = Publishes /\ broker'.reached = broker.reached /\ \A k : Heard(k)' = Heard(k)
    BY <1>4 DEF Publishes, Heard
  <2> QED
    BY <1>1, <1>4, <1>15, <2>1 DEF KeptInv
<1> QED
  BY <1>4, <1>8, <1>9, <1>10, <1>11, <1>14, <1>16 DEF DeliveryInv
-------------------------------------------------------------------------------
\* The second theorem.

\* MQTTAsync_create: nothing was accepted, and no session has begun.
LEMMA DeliveryInit == AsyncInit => DeliveryInv
<1> SUFFICES ASSUME AsyncInit PROVE DeliveryInv
  OBVIOUS
<1>1. am = AsyncFresh /\ hand = [cmd |-> NoCommand, at |-> "none"] /\ crashed = FALSE
      /\ recv = [pc |-> "select", sock |-> 0, pack |-> NoAnswer, rc |-> 0]
      /\ calling = NoCommand /\ admitted = <<>> /\ told = [n \in 1..MaxCalls |-> <<>>] /\ lost = 0
      /\ broker = [session |-> FALSE, reached |-> {}]
  BY DEF AsyncInit
<1>2. CallsInv
  BY <1>1, AsyncInitInv DEF AsyncInv
<1>3. /\ am.commands = <<>> /\ am.responses = <<>> /\ am.outbound = <<>> /\ am.msgID = 0
      /\ am.pending_write = 0 /\ am.out = <<>> /\ am.in = <<>> /\ am.cut = NoCommand /\ am.connected = FALSE
  BY <1>1 DEF AsyncFresh
<1>4. SocketOK(am)
  <2>1. <<>> \in Seq(Commands) /\ <<>> \in Seq(Answers) /\ <<>> \in Seq(Calls) /\ 0 \in Nat
    OBVIOUS
  <2>2. am.connected \in BOOLEAN /\ am.cut \in Calls \cup {NoCommand}
    BY <1>3, Zenon
  <2> QED
    BY <1>3, <2>1, <2>2 DEF SocketOK
<1>5. NoAnswer \in Answers /\ NoAnswer.type \notin {"PUBACK", "SUBACK", "CONNACK"} /\ NoCommand.kind # "sub"
      /\ ~IsCall(NoCommand)
  BY DEF NoAnswer, Answers, NoCommand, Command, IsCall
<1>6. TypesInv
  BY <1>1, <1>2, <1>4, <1>5 DEF TypesInv, CallsInv
<1>7. Lined(am, broker.reached) /\ LinkOK(am)
  <2>1. Sound(am) /\ Closed(am)
    BY <1>3, <1>6 DEF Sound, Closed, TypesInv
  <2> QED
    BY <2>1, LinedClosed
<1>8. HandLink
  BY <1>1, <1>5 DEF HandLink
<1>9. SessionInv
  <2>1. ~Before(recv.pack, am.in) /\ ~Begins(recv.pack, am.in)
    BY <1>1, <1>3, <1>5, SetOf DEF Before, Begins, NewSession, OkConnack
  <2>2. DOMAIN am.in = {}
    BY <1>3
  <2> QED
    BY <1>1, <1>3, <1>5, <2>1, <2>2 DEF SessionInv
<1>10. Unsent = {} /\ Waiting = {} /\ Flying = {} /\ Known = {}
  <2>1. CallSet(<<>>) = {} /\ HeldSet(NoCommand) = {} /\ ToSet(<<>>) = {}
    BY <1>5, SetOf DEF CallSet, HeldSet
  <2>2. HeldSet(hand.cmd) = {} /\ HeldSet(calling) = {} /\ HeldSet(am.cut) = {}
    BY <1>1, <1>3, <2>1
  <2> QED
    BY <1>3, <2>1, <2>2 DEF Unsent, Waiting, Flying, Known
<1>11. \A k \in Numbers : Heard(k) = {}
  BY <1>1, SetOf DEF Heard, Numbers
<1>12. DOMAIN admitted = {} /\ Publishes = {}
  BY <1>1 DEF Publishes
<1>13. KnownInv
  BY <1>1, <1>3, <1>10, <1>11 DEF KnownInv
<1>14. KeptInv
  BY <1>12 DEF KeptInv
<1>15. OrderInv
  BY <1>1, <1>3, <1>10, <1>5 DEF OrderInv, Rising, HeldSet
<1>16. SubsInv
  <2>1. SubsIn(am.out, am.in, recv.pack) = {}
    BY <1>1, <1>3, <1>5, SetOf DEF SubsIn
  <2> QED
    BY <1>10, <2>1 DEF SubsInv
<1>17. FirstLife
  BY <1>1, <1>10, <1>11, <1>12, <1>15, <1>16 
     DEF FirstLife, IdsInv, FreshInv, FlightInv, AnswersInv, YoungInv, OvertakenInv
<1> QED
  BY <1>6, <1>7, <1>8, <1>9, <1>13, <1>14, <1>17 DEF DeliveryInv

\* Each step keeps what is delivered, unless it holds messages back.
LEMMA DeliveryNext == ~AsyncClean /\ DeliveryInv /\ [AsyncNext]_asyncVars /\ delayed' = {} => DeliveryInv'
<1> SUFFICES ASSUME ~AsyncClean, DeliveryInv, [AsyncNext]_asyncVars, delayed' = {} PROVE DeliveryInv'
  OBVIOUS
<1>1. CASE UNCHANGED asyncVars
  <2>1. UNCHANGED <<am, hand, recv, calling, admitted, told, lost, crashed, broker>>
    BY <1>1 DEF asyncVars
  <2>2. HandInv /\ Sound(am) /\ ToldInv /\ RecvInv /\ HandLink
    BY DEF DeliveryInv, TypesInv, Sound
  <2>3. HandInv' /\ RecvInv' /\ HandLink'
    BY <2>1, <2>2 DEF HandInv, RecvInv, HandLink
  <2>4. Hears({}, "ok")
    BY <2>1, <2>2, HearsNone
  <2>5. Quiet(am, am)
    BY <2>2, OthersSame
  <2>6. Quiet(am, am')
    BY <2>1, <2>5
  <2> QED
    BY <2>1, <2>3, <2>4, <2>6, QuietStep
<1>2. CASE CallBegins \/ CallAdds \/ Turn
  BY <1>2, CallBeginsDelivers, CallAddsDelivers, TurnDelivers
<1>3. CASE SendStep
  BY <1>3, TakeDelivers, DoConnectDelivers, DoDisconnectDelivers, DoCallDelivers, DoRegisterDelivers, WaitDelivers
     DEF SendStep
<1>4. CASE RecvStep
  BY <1>4, NetworkDelivers, RecvCycleDelivers, RecvDispatchDelivers, WriteCompletesDelivers DEF RecvStep
<1>5. CASE NetStep \/ Breaks
  BY <1>5, NetworkDelivers, BrokerAnswersDelivers DEF NetStep
<1>6. CASE Restarts
  BY <1>6, RestartsDelivers
<1> QED
  BY <1>1, <1>2, <1>3, <1>4, <1>5, <1>6 DEF AsyncNext

\* A call that MQTTAsync_isComplete does not find is not known any more.
LEMMA CompleteGone ==
  ASSUME TypesInv, NEW n \in Publishes, IsComplete(n)
  PROVE  \A x \in Unsent \cup Flying : x.n # n
<1>1. am.commands \in Seq(Commands) /\ am.outbound \in Seq(Calls) /\ am.outbound \in Seq(Commands)
  <2>1. Calls \subseteq Commands
    BY DEF Commands
  <2>2. am.commands \in Seq(Commands) /\ am.outbound \in Seq(Calls)
    BY DEF TypesInv, ClientOK, SocketOK
  <2> QED
    BY <2>1, <2>2, SeqMonotonic
<1> DEFINE h == Holding(am.commands, n)
           o == Holding(am.outbound, n)
<1>2. /\ h \in Nat /\ (h = 0 <=> \A i \in DOMAIN am.commands : ~(IsCall(am.commands[i]) /\ am.commands[i].n = n))
      /\ o \in Nat /\ (o = 0 <=> \A i \in DOMAIN am.outbound : ~(IsCall(am.outbound[i]) /\ am.outbound[i].n = n))
  BY <1>1, HoldingType
<1>3. h + o = 0 /\ ~(IsCall(hand.cmd) /\ hand.cmd.n = n)
  BY DEF IsComplete
<1> HIDE DEF h, o
<1>4. h = 0 /\ o = 0
  BY <1>2, <1>3
<1>5. \A x \in CallSet(am.commands) : x.n # n
  BY <1>2, <1>4 DEF CallSet, ToSet
<1>6. \A x \in HeldSet(hand.cmd) : x.n # n
  BY <1>3 DEF HeldSet
<1>7. \A x \in HeldSet(calling) : x.n # n
  BY Accepted DEF Publishes
<1>8. \A x \in Flying : x.n # n
  <2>1. \A x \in Flying : IsCall(x)
    BY Accepted DEF Calls, IsCall
  <2> QED
    BY <1>2, <1>4, <2>1 DEF Flying, ToSet
<1> QED
  BY <1>5, <1>6, <1>7, <1>8 DEF Unsent

\* What a reconnection held back stays in the record of it.
LEMMA DelayedGrows ==
  ASSUME [AsyncNext]_asyncVars
  PROVE  delayed \subseteq delayed'
<1>1. CASE UNCHANGED asyncVars
  BY <1>1 DEF asyncVars
<1>2. CASE CallBegins \/ CallAdds \/ Turn
  BY <1>2 DEF CallBegins, CallAdds, Turn, AppAlone
<1>3. CASE SendStep
  BY <1>3 DEF SendStep, Take, DoConnect, DoDisconnect, DoCall, DoRegister, Wait, CheckTimeouts, SendAlone
<1>4. CASE RecvStep
  BY <1>4 DEF RecvStep, RecvSelect, RecvCycle, RecvDispatch, WriteCompletes
<1>5. CASE NetStep \/ Breaks \/ Restarts
  BY <1>5 DEF NetStep, TcpConnects, BrokerAnswers, Breaks, Restarts, Outside
<1> QED
  BY <1>1, <1>2, <1>3, <1>4, <1>5 DEF AsyncNext

\* With a session that the broker keeps (cleansession 0), every publication of
\* QoS 1 that MQTTAsync accepted is still held by the client, has reached the
\* broker, or was reported as failed, but for the one a crash finds in the send
\* thread's hand and, after a crash, one to which assignMsgId had given the id of
\* one in flight; none reported as done is missing at the broker, but for one
\* with such an id; and until a restart none that was accepted later reaches the
\* broker before it.  All this as long as no reconnection has stopped at a write that
\* was cut before the last message in flight (MQTTProtocol_retries), whatever else
\* happened: for any number of calls, servers, reconnections and failures.
THEOREM AsyncDeliversAlways ==
  ASSUME ~AsyncClean
  PROVE  AsyncSpec => [](delayed = {} => AsyncDelivers)
<1>1. DeliveryInv /\ AsyncInv => AsyncDelivers
  <2> SUFFICES ASSUME DeliveryInv, AsyncInv PROVE AsyncDelivers
    OBVIOUS
  <2>1. TypesInv /\ KeptInv /\ (~crashed => FirstLife)
    BY DEF DeliveryInv
  <2>2. AsyncKept
    <3>1. ASSUME NEW n \in Publishes, IsComplete(n)
          PROVE  \/ n \in broker.reached \/ ToSet(told[n]) \cap {"failure", "unheard"} # {}
                 \/ lost = n \/ (crashed /\ ~admitted[n].fresh)
      <4>1. \A x \in Unsent \cup Flying : x.n # n
        BY <2>1, <3>1, CompleteGone
      <4>2. \/ n \in broker.reached \/ lost = n \/ "failure" \in Heard(n) \/ "unheard" \in Heard(n)
            \/ crashed /\ ~admitted[n].fresh
        BY <2>1, <4>1 DEF KeptInv
      <4> QED
        BY <4>2 DEF Heard
    <3>2. ASSUME NEW n \in Publishes, admitted[n].fresh, "ok" \in ToSet(told[n]) PROVE n \in broker.reached
      BY <2>1, <3>2 DEF KeptInv, Heard
    <3> QED
      BY <3>1, <3>2 DEF AsyncKept
  <2>3. ASSUME ~crashed, NEW n \in Publishes \cap broker.reached, NEW k \in Publishes, k < n
        PROVE  k \in broker.reached \/ told[k] = <<"failure">>
    <3>1. k \in broker.reached \/ "failure" \in Heard(k)
      BY <2>1, <2>3 DEF FirstLife, OvertakenInv
    <3>2. CASE "failure" \in Heard(k)
      <4>1. CallsInv /\ k \in Numbers
        BY <2>1, <2>3, Accepted DEF AsyncInv, Publishes
      <4>2. told[k] \in Seq(Outcomes) /\ ClientOK(am)
        BY <4>1 DEF CallsInv, ToldInv
      <4> DEFINE t == Len(told[k])
                 l == Listed(am, k)
                 h == InHand(k)
      <4>3. t + l + h \in {0, 1}
        BY <4>1 DEF CallsInv, OnePlace, Counted
      <4>4. t \in Nat /\ l \in Nat /\ h \in Nat
        BY <4>2, ListedType DEF InHand
      <4> HIDE DEF t, l, h
      <4>5. t <= 1
        BY <4>3, <4>4
      <4>6. PICK i \in DOMAIN told[k] : told[k][i] = "failure"
        BY <3>2 DEF Heard, ToSet
      <4>7. DOMAIN told[k] = 1..t /\ Len(told[k]) = t
        BY <4>2 DEF t
      <4>8. t = 1 /\ i = 1
        BY <4>4, <4>5, <4>6, <4>7
      <4> QED
        BY <4>2, <4>6, <4>7, <4>8
    <3> QED
      BY <3>1, <3>2
  <2> QED
    BY <2>2, <2>3 DEF AsyncDelivers, AsyncInOrder
<1> DEFINE Inv == delayed = {} => DeliveryInv
<1>2. Inv /\ [AsyncNext]_asyncVars => Inv'
  <2> SUFFICES ASSUME Inv, [AsyncNext]_asyncVars, delayed' = {} PROVE DeliveryInv'
    OBVIOUS
  <2>1. delayed = {}
    BY DelayedGrows
  <2> QED
    BY <2>1, DeliveryNext
<1>3. AsyncInit => Inv
  BY DeliveryInit
<1>4. Inv /\ AsyncInv => (delayed = {} => AsyncDelivers)
  BY <1>1
<1> HIDE DEF Inv
<1> QED
  BY <1>2, <1>3, <1>4, AsyncInitInv, AsyncNextInv, PTL DEF AsyncSpec
================================================================================
