----------------------------- MODULE SocketSet -----------------------------
(***************************************************************************)
(* Socket.c of the Paho C client with several sockets: the list that       *)
(* select watches, the cursor that goes through the sockets it reported,   *)
(* connects and writes that are still pending.  The mutex is released      *)
(* while select waits: sockets come and go meanwhile, and a number that    *)
(* was closed is given out again.                                          *)
(***************************************************************************)
EXTENDS Naturals, FiniteSets, Sequences, SequencesExt

CONSTANTS
  FdRange,      \* descriptors the system gives out
  SetSize,      \* FD_SETSIZE
  MaxOpened     \* sockets made

ASSUME SocketSetAssumption == FdRange \subseteq Nat \ {0} /\ SetSize \in Nat \ {0} /\ MaxOpened \in Nat

VARIABLES
  ss,       \* Sockets s: clientsds, cur_clientsds (0 for NULL), connect_pending, write_pending,
            \*   rset_saved, pending_wset, maxfdp1, and the sets rset and wset of the last select
  system,   \* the open descriptors: fd -> connecting, up
  waiting,  \* select waits, for the descriptors rset_saved had
  due,      \* sockets select found ready and getReadySocket has not yet returned
  overfull, \* descriptors made while the list was full
  opened    \* sockets made so far

socketVars == <<ss, system, waiting, due, overfull, opened>>

NotWaiting == [on |-> FALSE, fds |-> {}]

SocketSetInit ==
  /\ ss = [clientsds |-> <<>>, cur |-> 0, connect_pending |-> {}, write_pending |-> {}, rset_saved |-> {},
           pending_wset |-> {}, maxfdp1 |-> 0, rset |-> {}, wset |-> {}]
  /\ system = [f \in {} |-> "up"] /\ waiting = NotWaiting /\ due = {} /\ overfull = {} /\ opened = 0

Listed(s) == ToSet(s.clientsds)
OpenFds == DOMAIN system
Higher(a, b) == IF a > b THEN a ELSE b

\* ListNextElement from a socket of the list; 0 behind the last
NextSocket(s, f) ==
  LET i == CHOOSE i \in DOMAIN s.clientsds : s.clientsds[i] = f
  IN IF i = Len(s.clientsds) THEN 0 ELSE s.clientsds[i + 1]

-----------------------------------------------------------------------------

\* Socket_addSocket, of a socket that is not in the list
Socket_addSocket(s, f) ==
  [s EXCEPT !.clientsds = Append(@, f), !.rset_saved = @ \cup {f}, !.maxfdp1 = Higher(@, f + 1)]

MutantCursorKept(s, f) == s.cur
CursorPast(s, f) == IF s.cur = f THEN NextSocket(s, f) ELSE s.cur

\* Socket_close, after Socket_close_only and Socket_abortWrite
Socket_close(s, f) ==
  LET left == SelectSeq(s.clientsds, LAMBDA x : x # f)
      highest == IF left = <<>> THEN 0 ELSE CHOOSE m \in ToSet(left) : \A x \in ToSet(left) : x <= m
  IN [s EXCEPT !.rset_saved = @ \ {f}, !.pending_wset = @ \ {f}, !.connect_pending = @ \ {f},
               !.write_pending = @ \ {f}, !.cur = CursorPast(s, f), !.clientsds = left,
               !.maxfdp1 = IF f + 1 >= @ THEN highest + 1 ELSE @]

NewFd == CHOOSE f \in FdRange \ OpenFds : \A g \in FdRange \ OpenFds : f <= g

\* getaddrinfo's list is searched for an IPv4 address; the last one is taken if there is none
Preferred(addresses) ==
  LET four == {i \in DOMAIN addresses : addresses[i] = "AF_INET"}
  IN IF four # {} THEN "AF_INET" ELSE Last(addresses)

AddressLists == {<<>>} \cup UNION {[1..n -> {"AF_INET", "AF_INET6", "other"}] : n \in 1..2}

\* Socket_new.  errno is what Socket_error finds after addSocket refused a full list: maybe no error at all.
Socket_new(addresses, connects, errno) ==
  LET f == NewFd
      full == Len(ss.clientsds) >= SetSize
      added == Socket_addSocket(ss, f)
      usable == addresses # <<>> /\ Preferred(addresses) # "other"
  IN /\ opened < MaxOpened /\ FdRange \ OpenFds # {}
     /\ usable => opened' = opened + 1
     /\ ~usable => UNCHANGED <<ss, system, opened, overfull>>
     /\ usable /\ full =>
          /\ UNCHANGED ss
          /\ IF errno = 0 THEN system' = (f :> "connecting") @@ system /\ overfull' = overfull \cup {f}
                          ELSE UNCHANGED <<system, overfull>>
     /\ usable /\ ~full /\ connects = "refused" =>
          ss' = Socket_close(added, f) /\ UNCHANGED <<system, overfull>>
     /\ usable /\ ~full /\ connects # "refused" =>
          /\ ss' = IF connects = "EINPROGRESS" THEN [added EXCEPT !.connect_pending = @ \cup {f}] ELSE added
          /\ system' = (f :> (IF connects = "EINPROGRESS" THEN "connecting" ELSE "up")) @@ system
          /\ UNCHANGED overfull
     /\ UNCHANGED <<waiting, due>>

\* The owner closes a socket, from whatever thread.
CloseSocket(f) ==
  /\ ss' = Socket_close(ss, f)
  /\ system' = [x \in OpenFds \ {f} |-> system[x]]
  /\ due' = due \ {f}
  /\ UNCHANGED <<waiting, overfull, opened>>

\* Socket_putdatas and Socket_writev: all written, or the rest is left pending
WritePending(f) ==
  /\ f \notin ss.write_pending /\ system[f] = "up"
  /\ ss' = [ss EXCEPT !.write_pending = @ \cup {f}, !.pending_wset = @ \cup {f}]
  /\ UNCHANGED <<system, waiting, due, overfull, opened>>

ConnectDone(f) ==
  /\ system[f] = "connecting" /\ f \notin overfull
  /\ system' = [system EXCEPT ![f] = "up"]
  /\ UNCHANGED <<ss, waiting, due, overfull, opened>>

\* isReady: a connect that ended, or both readable and writeable with nothing left to write
isReady(s, f) == \/ f \in s.connect_pending /\ f \in s.wset
                 \/ f \notin s.write_pending /\ f \in s.rset /\ f \in s.wset

\* The walk from the cursor to the next socket that is ready
Walk(s) ==
  LET from == IF s.cur = 0 THEN Len(s.clientsds) + 1 ELSE CHOOSE i \in DOMAIN s.clientsds : s.clientsds[i] = s.cur
      ready == {i \in from..Len(s.clientsds) : isReady(s, s.clientsds[i])}
  IN IF ready = {} THEN 0 ELSE s.clientsds[CHOOSE i \in ready : \A j \in ready : i <= j]

Returned(s, f) == [s EXCEPT !.connect_pending = @ \ {f}, !.cur = NextSocket(s, f)]

\* Socket_getReadySocket: the rest of the last select's sockets ...
GoOn ==
  /\ ~waiting.on /\ ss.cur # 0
  /\ LET f == Walk(ss)
     IN ss' = (IF f = 0 THEN [ss EXCEPT !.cur = 0] ELSE Returned(ss, f)) /\ due' = due \ {f}
  /\ UNCHANGED <<system, waiting, overfull, opened>>

\* ... then a new select, with the mutex released ...
SelectBegins ==
  /\ ~waiting.on /\ ss.cur = 0 /\ ss.clientsds # <<>>
  /\ waiting' = [on |-> TRUE, fds |-> ss.rset_saved] /\ due' = {}
  /\ UNCHANGED <<ss, system, overfull, opened>>

\* ... the writes that can go on, and the first socket that is ready.
SelectEnds(readable, written) ==
  LET open == {f \in Listed(ss) : system[f] = "up"}
      s1 == [ss EXCEPT !.rset = readable, !.write_pending = @ \ written, !.pending_wset = @ \ written,
                       !.wset = open, !.cur = IF ss.clientsds = <<>> THEN 0 ELSE Head(ss.clientsds)]
      f == Walk(s1)
      found == {x \in Listed(ss) : isReady(s1, x)}
  IN /\ waiting.on
     /\ readable \subseteq waiting.fds /\ written \subseteq ss.write_pending
     /\ waiting' = NotWaiting
     /\ ss' = IF f = 0 THEN [s1 EXCEPT !.cur = 0] ELSE Returned(s1, f)
     /\ due' = found \ {f}
     /\ UNCHANGED <<system, overfull, opened>>

SocketSetNext ==
  \/ \E addresses \in AddressLists, connects \in {"up", "EINPROGRESS", "refused"}, errno \in 0..1 :
       Socket_new(addresses, connects, errno)
  \/ \E f \in Listed(ss) : CloseSocket(f) \/ WritePending(f) \/ ConnectDone(f)
  \/ GoOn \/ SelectBegins
  \/ \E readable \in SUBSET waiting.fds, written \in SUBSET ss.write_pending : SelectEnds(readable, written)

-----------------------------------------------------------------------------

(* The list of sockets stays consistent while sockets are opened and       *)
(* closed around a select: it holds each open descriptor once, but one     *)
(* that was made when it was full; select is given exactly those, below    *)
(* maxfdp1; pending connects and writes belong to it; the cursor stands on *)
(* a socket of the list; and a socket that select found ready is not       *)
(* passed over: unless it was closed or has a write pending by now, the    *)
(* cursor has not gone by it.                                              *)
SocketSetSound ==
  /\ IsInjective(ss.clientsds) /\ ss.rset_saved = Listed(ss)
  /\ OpenFds = Listed(ss) \cup overfull
  /\ ss.connect_pending \cup ss.write_pending \subseteq Listed(ss) /\ ss.pending_wset = ss.write_pending
  /\ \A f \in Listed(ss) : f < ss.maxfdp1
  /\ ss.cur # 0 => ss.cur \in Listed(ss)
  /\ \A f \in due \ ss.write_pending :
       ss.cur # 0 /\ \E i, j \in DOMAIN ss.clientsds : ss.clientsds[i] = ss.cur /\ ss.clientsds[j] = f /\ i <= j
=============================================================================
