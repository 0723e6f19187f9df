------------------------------ MODULE WebSocket ------------------------------
(***************************************************************************)
(* MQTT over WebSocket in the Paho client (WebSocket.c): the upgrade, the  *)
(* frames the server sends, cut anywhere by TCP and put together again in  *)
(* one static frame_buffer, and the header written in front of a packet.   *)
(*                                                                         *)
(* A byte is <<k, i>>, the i-th of frame k; frame 0 is the answer to the   *)
(* upgrade request.  The server puts one whole MQTT packet in each frame,  *)
(* does not mask, fragment or ping (see Limits in the README) and speaks   *)
(* after the upgrade only.                                                 *)
(***************************************************************************)
EXTENDS Naturals, Sequences

CONSTANTS
  Frames,        \* what a server sends: a sequence of [opcode, ext, size]
  DataLengths,   \* remaining lengths of the packets the client sends
  MaxUpgrades    \* bound: connections made

Opcodes == {"binary", "close"}
ASSUME WebSocketAssumption ==
  /\ \A k \in 1 .. Len(Frames) :
       Frames[k] \in [opcode : Opcodes, ext : BOOLEAN, size : Nat \ {0}]
  /\ DataLengths \subseteq Nat /\ MaxUpgrades \in Nat

VARIABLES
  ws,          \* "closed", "asked" (WEBSOCKET_IN_PROGRESS) or "open" (net->websocket)
  flight,      \* bytes the server has sent and the host has not received
  kernel,      \* bytes in the socket
  raw,         \* frame_buffer and frame_buffer_index: [data, index]
  wsRead,      \* frames of this connection handed to the MQTT layer
  answer,      \* this server's answer: "101", "refused" or "badkey"
  upgrades,
  wsPut        \* the frame last sent: [packet, reserved, offset, header]

wsVars == <<ws, flight, kernel, raw, wsRead, answer, upgrades, wsPut>>

HeaderBytes(ext) == IF ext THEN 4 ELSE 2
FrameBytes(k) == [i \in 1 .. HeaderBytes(Frames[k].ext) + Frames[k].size |-> <<k, i>>]
\* the answer: its status line (12 bytes in the code) and its fields (up to 500)
StatusLine == 2
Fields == 2
AnswerBytes == [i \in 1 .. StatusLine + Fields |-> <<0, i>>]
RECURSIVE FramesFrom(_)
FramesFrom(k) == IF k > Len(Frames) THEN <<>> ELSE FrameBytes(k) \o FramesFrom(k + 1)

Empty == [data |-> <<>>, index |-> 0]
NothingPut == [packet |-> 0, reserved |-> 0, offset |-> 0, header |-> 0]

WebSocketInit ==
  /\ ws = "closed" /\ flight = <<>> /\ kernel = <<>> /\ raw = Empty /\ wsRead = 0
  /\ answer = "101" /\ upgrades = 0 /\ wsPut = NothingPut

-----------------------------------------------------------------------------
(* WebSocket_getRawSocketData: bytes out of frame_buffer, topped up from   *)
(* the socket.  What is asked of the socket, and then of the buffer, is    *)
(* reduced by what the buffer already had.                                 *)

Lesser(a, b) == IF a < b THEN a ELSE b
WebSocket_getRawSocketData(r, sock, bytes) ==
  LET had == Len(r.data) - r.index
      want == IF had >= bytes THEN 0 ELSE bytes - had
      taken == Lesser(want, Len(sock))
      data == r.data \o SubSeq(sock, 1, taken)
      got == IF had >= bytes THEN bytes ELSE Lesser(want, Len(data) - r.index)
  IN [raw |-> [data |-> data, index |-> r.index + got],
      kernel |-> SubSeq(sock, taken + 1, Len(sock)),
      got |-> SubSeq(data, r.index + 1, r.index + got)]

WebSocket_rewindData(r) == [r EXCEPT !.index = 0]

\* WebSocket_receiveFrame: the header, the long length if there is one, the payload.
\* "short" is TCPSOCKET_INTERRUPTED, "bad" a header that is none.
Interrupted(s) == [rc |-> "short", raw |-> WebSocket_rewindData(s.raw), kernel |-> s.kernel, frame |-> 0]

PayloadRead(s, k) ==
  IF Len(s.got) < Frames[k].size THEN Interrupted(s)
  ELSE [rc |-> "frame", raw |-> Empty, kernel |-> s.kernel, frame |-> k]

LengthRead(s, k) ==
  IF Len(s.got) < 2 THEN Interrupted(s)
  ELSE PayloadRead(WebSocket_getRawSocketData(s.raw, s.kernel, Frames[k].size), k)

HeaderRead(s) ==
  LET k == s.got[1][1]
  IN IF Len(s.got) < 2 THEN Interrupted(s)
     ELSE IF k = 0 \/ s.got # <<<<k, 1>>, <<k, 2>>>>
     THEN [rc |-> "bad", raw |-> s.raw, kernel |-> s.kernel, frame |-> 0]
     ELSE LengthRead(IF Frames[k].ext THEN WebSocket_getRawSocketData(s.raw, s.kernel, 2) ELSE s, k)

WebSocket_receiveFrame == HeaderRead(WebSocket_getRawSocketData(raw, kernel, 2))

-----------------------------------------------------------------------------
(* The header in front of a packet.                                        *)

WebSocket_calculateFrameHeaderSize(mask, len) ==
  (IF len < 126 THEN 2 ELSE IF len < 65536 THEN 4 ELSE 10) + (IF mask THEN 4 ELSE 0)

\* MQTTPacket_send and MQTTPacket_sends write the fixed header and the remaining length,
\* buf0, in front of the data, and leave room for the frame of ten bytes more than the data
FixedHeader(data) == 1 + (IF data < 128 THEN 1 ELSE IF data < 16384 THEN 2 ELSE IF data < 2097152 THEN 3 ELSE 4)
Reserved(data) == WebSocket_calculateFrameHeaderSize(TRUE, data + 10)

\* WebSocket_putdatas counts four bytes more than WebSocket_buildFrame does
WebSocket_putdatas(data) ==
  LET packet == FixedHeader(data) + data
  IN [packet |-> packet, reserved |-> Reserved(data),
      offset |-> WebSocket_calculateFrameHeaderSize(TRUE, packet + 4),
      header |-> WebSocket_calculateFrameHeaderSize(TRUE, packet)]

-----------------------------------------------------------------------------
(* Steps.                                                                  *)

\* A TCP connection is there: WebSocket_connect sends the request, the server answers.
WebSocket_connect ==
  /\ ws = "closed" /\ upgrades < MaxUpgrades
  /\ ws' = "asked" /\ upgrades' = upgrades + 1
  /\ \E a \in {"101", "refused", "badkey"} : answer' = a
  /\ flight' = AnswerBytes /\ kernel' = <<>> /\ wsRead' = 0
  /\ UNCHANGED <<raw, wsPut>>

\* TCP delivers any part of what is under way.
Deliver ==
  /\ \E n \in 1 .. Len(flight) :
       /\ kernel' = kernel \o SubSeq(flight, 1, n)
       /\ flight' = SubSeq(flight, n + 1, Len(flight))
  /\ UNCHANGED <<ws, raw, wsRead, answer, upgrades, wsPut>>

\* MQTTClient_closeSession and its like, after an error, a timeout or disconnect:
\* WebSocket_close, then the socket.  frame_buffer stays as it is.
CloseConnection ==
  /\ ws' = "closed" /\ flight' = <<>> /\ kernel' = <<>>
  /\ UNCHANGED <<wsRead, answer, upgrades>>

WebSocket_close ==
  /\ ws # "closed"
  /\ CloseConnection
  /\ wsPut' = IF ws = "open"
              THEN LET h == WebSocket_calculateFrameHeaderSize(FALSE, 2)
                   IN [packet |-> 2, reserved |-> h, offset |-> h, header |-> h]
              ELSE wsPut
  /\ UNCHANGED raw

\* WebSocket_upgrade, called when the socket is ready: an answer cut inside its status
\* line is not rewound, so the rest never matches and the connect times out.
WebSocket_upgrade ==
  LET status == WebSocket_getRawSocketData(raw, kernel, StatusLine)
      fields == WebSocket_getRawSocketData(status.raw, status.kernel, Len(kernel) + Fields)
      matches == status.got = SubSeq(AnswerBytes, 1, StatusLine)
      accepted == answer = "101" /\ fields.got = SubSeq(AnswerBytes, StatusLine + 1, StatusLine + Fields)
  IN /\ ws = "asked" /\ kernel # <<>>
     /\ \/ /\ ~matches
           /\ raw' = status.raw /\ kernel' = status.kernel
           /\ UNCHANGED <<ws, flight, wsRead, answer, upgrades, wsPut>>
        \/ /\ matches /\ accepted
           /\ ws' = "open" /\ raw' = Empty /\ kernel' = fields.kernel
           /\ UNCHANGED <<flight, wsRead, answer, upgrades, wsPut>>
        \/ /\ matches /\ ~accepted
           /\ raw' = IF answer = "refused" THEN status.raw ELSE Empty
           /\ CloseConnection /\ UNCHANGED wsPut

\* The server speaks MQTT once CONNECT has come.
ServerSends ==
  /\ ws = "open" /\ flight = <<>> /\ kernel = <<>> /\ wsRead = 0 /\ raw = Empty
  /\ flight' = FramesFrom(1)
  /\ UNCHANGED <<ws, kernel, raw, wsRead, answer, upgrades, wsPut>>

\* MQTTPacket_Factory on a ready socket: WebSocket_getch and WebSocket_getdata take a
\* whole packet out of a complete frame.
ReadFrame ==
  /\ ws = "open" /\ kernel # <<>>
  /\ \E r \in {WebSocket_receiveFrame} :
     /\ raw' = r.raw
     /\ \/ /\ r.rc = "short"
           /\ kernel' = r.kernel /\ UNCHANGED <<ws, flight, wsRead, answer, upgrades, wsPut>>
        \/ /\ r.rc = "frame" /\ Frames[r.frame].opcode = "binary"
           /\ kernel' = r.kernel /\ wsRead' = r.frame
           /\ UNCHANGED <<ws, flight, answer, upgrades, wsPut>>
        \/ /\ r.rc = "bad" \/ (r.rc = "frame" /\ Frames[r.frame].opcode = "close")
           /\ CloseConnection /\ UNCHANGED wsPut

PutPacket ==
  /\ ws = "open"
  /\ \E n \in DataLengths : wsPut' = WebSocket_putdatas(n)
  /\ UNCHANGED <<ws, flight, kernel, raw, wsRead, answer, upgrades>>

WebSocket_terminate ==
  /\ ws = "closed"
  /\ raw' = Empty
  /\ UNCHANGED <<ws, flight, kernel, wsRead, answer, upgrades, wsPut>>

WebSocketNext ==
  \/ WebSocket_connect \/ Deliver \/ WebSocket_close \/ WebSocket_upgrade \/ ServerSends
  \/ ReadFrame \/ PutPacket \/ WebSocket_terminate

-----------------------------------------------------------------------------
\* However TCP cuts the stream, no byte is lost, repeated or read as part of another
\* frame: behind the frames handed on, frame_buffer, the socket and the network hold
\* exactly the rest of what the server has sent (WebSocket_getRawSocketData, rewindData).
NothingMisread ==
  ws = "open" => \/ raw.data \o kernel \o flight = FramesFrom(wsRead + 1)
                 \/ raw.data \o kernel \o flight = <<>> /\ wsRead = 0   \* nothing sent yet

\* How many bytes too early a packet of n bytes is sent: putdatas counts the mask twice (line 786),
\* so it takes the header of 122 to 125 bytes for the two bytes longer one of 126, and that of
\* 65532 to 65535 for the six bytes longer one of 65536.
Early(n) == CASE n \in 122 .. 125 -> 2 [] n \in 65532 .. 65535 -> 6 [] OTHER -> 0

\* The header always fits into the room MQTTPacket_send left, and "will be prepended" (WebSocket.c,
\* line 758), which is not so for all lengths: the data sent begins with the header, or Early
\* bytes in front of it, which nobody has written, and at no other length and no further.
HeaderPlaced == wsPut.offset <= wsPut.reserved /\ wsPut.offset = wsPut.header + Early(wsPut.packet)

\* WebSocket.c: however TCP cuts the stream, a frame is read whole or not at all, and a packet's
\* frame header stands directly in front of it, inside the room left for it.
WebSocketSound == NothingMisread /\ HeaderPlaced
=============================================================================
