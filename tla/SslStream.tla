------------------------------ MODULE SslStream ------------------------------
(***************************************************************************)
(* The TLS side of the Paho client (SSLSocket.c): sessions on several      *)
(* sockets, and the list of sockets with decrypted data left in OpenSSL,   *)
(* which select cannot see.  OpenSSL is external: SSL_read gives bytes of  *)
(* one record at a time and takes the next record from the socket when it  *)
(* has none.                                                               *)
(***************************************************************************)
EXTENDS Naturals, Sequences, FiniteSets, SequencesExt

CONSTANTS
  SslSockets,     \* descriptors
  SslPackets,     \* the packets a server sends: their remaining lengths
  verifyName,     \* MQTTClient_SSLOptions.verify
  MaxSessions,    \* bound: TLS sessions begun
  MaxWritten      \* bound: packets written in a session

ASSUME SslAssumption ==
  /\ IsFiniteSet(SslSockets) /\ {MaxSessions, MaxWritten} \subseteq Nat /\ verifyName \in BOOLEAN
  /\ \A k \in 1 .. Len(SslPackets) : SslPackets[k] \in Nat

VARIABLES
  tls,           \* socket -> session, see NoSession
  pending_reads, \* sockets with data left in OpenSSL's buffer
  sessions       \* sessions begun

sslVars == <<tls, pending_reads, sessions>>

\* state: "none", "handshake" (SSL_IN_PROGRESS), "open" or "crashed"; ctx: is there a context;
\* records: encrypted data in the socket; buffer: decrypted and unread; unsent: what
\* the server has not sent; packet: the one being read and how much of it has been;
\* empty: was the last packet read one without data; write: packets written, and
\* whether the last is still in pending_writes; cert: who the certificate names
NoSession ==
  [state |-> "none", ctx |-> FALSE, records |-> <<>>, buffer |-> <<>>, unsent |-> <<>>,
   packet |-> 1, got |-> 0, empty |-> FALSE, written |-> 0, writing |-> FALSE, cert |-> "other"]

\* a packet is a header byte, one byte of length and its data
PacketBytes(k) == [i \in 1 .. 2 + SslPackets[k] |-> <<k, i>>]
RECURSIVE PacketsFrom(_)
PacketsFrom(k) == IF k > Len(SslPackets) THEN <<>> ELSE PacketBytes(k) \o PacketsFrom(k + 1)

SslInit == tls = [s \in SslSockets |-> NoSession] /\ pending_reads = <<>> /\ sessions = 0

SetSession(s, session) == tls' = [tls EXCEPT ![s] = session]

-----------------------------------------------------------------------------
(* Sessions.                                                               *)

\* SSLSocket_createContext and SSLSocket_setSocketForSSL: the steps on the context may
\* fail one by one, and then it is freed again; what follows SSL_new is only logged.  When there is
\* no context at all the answer is 1 all the same, and the first use of it ends the process.
ContextSteps == {"SSL_CTX_new", "certificate", "private key", "trust store", "ciphers"}
SSLSocket_setSocketForSSL(s) ==
  /\ tls[s].state = "none" /\ sessions < MaxSessions
  /\ sessions' = sessions + 1
  /\ \/ \E step \in ContextSteps :
          IF step = "SSL_CTX_new" THEN SetSession(s, [NoSession EXCEPT !.state = "crashed"]) ELSE UNCHANGED tls
     \/ \E cert \in {"host", "address", "other"} :
          SetSession(s, [NoSession EXCEPT !.state = "handshake", !.ctx = TRUE, !.cert = cert,
                                          !.unsent = PacketsFrom(1)])
  /\ UNCHANGED pending_reads

ClosePending(s) == SelectSeq(pending_reads, LAMBDA x : x # s)
\* SSLSocket_close with SSLSocket_destroyContext, after any error and on disconnect
SSLSocket_close(s) ==
  /\ tls[s].state # "none"
  /\ SetSession(s, NoSession)
  /\ pending_reads' = ClosePending(s)
  /\ UNCHANGED sessions

\* SSL_connect wants more (no change), succeeds or fails; the name is checked, then the address.
NameAccepted(session) == verifyName => session.cert \in {"host", "address"}
SSLSocket_connect(s) ==
  /\ tls[s].state = "handshake" /\ NameAccepted(tls[s])
  /\ SetSession(s, [tls[s] EXCEPT !.state = "open"])
  /\ UNCHANGED <<pending_reads, sessions>>

-----------------------------------------------------------------------------
(* Reading.                                                                *)

\* The server sends some bytes as one record.
ServerWrites(s) ==
  /\ tls[s].state = "open" /\ Len(tls[s].records) < 2
  /\ \E n \in 1 .. Len(tls[s].unsent) :
       SetSession(s, [tls[s] EXCEPT !.records = Append(@, SubSeq(tls[s].unsent, 1, n)),
                                    !.unsent = SubSeq(@, n + 1, Len(@))])
  /\ UNCHANGED <<pending_reads, sessions>>

\* SSL_read of at most n bytes (external)
SSL_read(t, n) ==
  LET fetched == IF t.buffer = <<>> /\ t.records # <<>>
                 THEN [t EXCEPT !.buffer = Head(t.records), !.records = Tail(t.records)] ELSE t
      m == IF n < Len(fetched.buffer) THEN n ELSE Len(fetched.buffer)
  IN [t |-> [fetched EXCEPT !.buffer = SubSeq(@, m + 1, Len(@))], got |-> SubSeq(fetched.buffer, 1, m)]

\* SSLSocket_getch: a byte already queued is not read again
SSLSocket_getch(t, i) ==
  IF t.got >= i THEN t
  ELSE LET r == SSL_read(t, 1) IN [r.t EXCEPT !.got = t.got + Len(r.got)]

\* SSLSocket_getdata: one SSL_read for what is missing
SSLSocket_getdata(t) ==
  LET missing == 2 + SslPackets[t.packet] - t.got
      r == SSL_read(t, missing)
  IN IF missing = 0 THEN t ELSE [r.t EXCEPT !.got = t.got + Len(r.got)]

\* MQTTPacket_Factory: header, length, data; an interrupted read is continued later
Factory(t) ==
  LET header == SSLSocket_getch(t, 1)
      length == IF header.got < 1 THEN header ELSE SSLSocket_getch(header, 2)
  IN IF length.got < 2 THEN length ELSE SSLSocket_getdata(length)
Whole(t) == t.got >= 2 /\ t.got = 2 + SslPackets[t.packet]

Left(t) == t.buffer # <<>>
SSLSocket_addPendingRead(list, s) == IF \E i \in 1 .. Len(list) : list[i] = s THEN list ELSE Append(list, s)

\* Socket_getReadySocket takes SSLSocket_getPendingRead first, else a socket select names.
ReadReady ==
  \E s \in SslSockets :
    LET rest == IF pending_reads # <<>> THEN Tail(pending_reads) ELSE pending_reads
        t == Factory(tls[s])
        bare == SslPackets[t.packet] = 0
    IN /\ tls[s].state = "open"
       /\ IF pending_reads # <<>> THEN s = Head(pending_reads) ELSE tls[s].records # <<>>
       /\ tls[s].packet <= Len(SslPackets)
       /\ IF Whole(t)
          THEN /\ SetSession(s, [t EXCEPT !.packet = @ + 1, !.got = 0, !.empty = bare])
               /\ pending_reads' = IF ~bare /\ Left(t) THEN SSLSocket_addPendingRead(rest, s) ELSE rest
          ELSE /\ SetSession(s, t)
               /\ pending_reads' = rest
       /\ UNCHANGED sessions

-----------------------------------------------------------------------------
(* Writing: one buffer per packet; SSL_write takes all of it or none.      *)

SSLSocket_putdatas(s) ==
  /\ tls[s].state = "open" /\ ~tls[s].writing /\ tls[s].written < MaxWritten
  /\ \E interrupted \in BOOLEAN :
       SetSession(s, [tls[s] EXCEPT !.writing = interrupted, !.written = IF interrupted THEN @ ELSE @ + 1])
  /\ UNCHANGED <<pending_reads, sessions>>

SSLSocket_continueWrite(s) ==
  /\ tls[s].state = "open" /\ tls[s].writing
  /\ SetSession(s, [tls[s] EXCEPT !.writing = FALSE, !.written = @ + 1])
  /\ UNCHANGED <<pending_reads, sessions>>

SslNext ==
  /\ \A s \in SslSockets : tls[s].state # "crashed"
  /\ \/ \E s \in SslSockets : \/ SSLSocket_setSocketForSSL(s) \/ SSLSocket_connect(s) \/ SSLSocket_close(s)
                              \/ ServerWrites(s) \/ SSLSocket_putdatas(s) \/ SSLSocket_continueWrite(s)
     \/ ReadReady

-----------------------------------------------------------------------------
\* "we should check for any data remaining in the SSL buffer" (SSLSocket.c, line 879): of the sockets
\* with decrypted data left in OpenSSL, which select cannot see, exactly those are in pending_reads
\* whose last packet had data.  After one without, such as PINGRESP, SSLSocket_getdata returns
\* before the check (line 850), and what is left is read only when more arrives.
NothingLeftInSsl ==
  \A s \in SslSockets : tls[s].buffer # <<>> =>
    ((\E i \in 1 .. Len(pending_reads) : pending_reads[i] = s) <=> ~tls[s].empty)

\* pending_reads names each open session at most once, and no socket whose session has
\* been closed: its number may be another connection's by then (SSLSocket_close).
PendingAreOpen ==
  /\ \A i \in 1 .. Len(pending_reads) : tls[pending_reads[i]].state = "open"
  /\ IsInjective(pending_reads)

\* The bytes of the packets not yet complete are where they should be: read into the
\* packet, decrypted, in the socket, or not sent - in order, none twice.
SslInOrder ==
  \A s \in SslSockets : tls[s].state = "open" =>
    LET t == tls[s]
    IN t.buffer \o FoldLeft(LAMBDA a, b : a \o b, <<>>, t.records) \o t.unsent
         = SubSeq(PacketsFrom(t.packet), t.got + 1, Len(PacketsFrom(t.packet)))

\* An open session that was to be verified has a certificate for the server's name or address.
NameVerified == \A s \in SslSockets : verifyName /\ tls[s].state = "open" => tls[s].cert # "other"

\* SSLSocket.c: no data waits unseen in OpenSSL's buffer, no closed session is read, packets come
\* in the server's order, and only a verified name is talked to.
SslSound == NothingLeftInSsl /\ PendingAreOpen /\ SslInOrder /\ NameVerified
=============================================================================
