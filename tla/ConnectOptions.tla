--------------------------- MODULE ConnectOptions ---------------------------
(***************************************************************************)
(* What a connect call of the Paho C client leaves behind in the client:   *)
(* the checks of its options, the settings it takes from them, the copies  *)
(* it makes and frees (MQTTClient_connectURI, MQTTAsync_connect), the      *)
(* transport it chooses for each server of a list, the address it takes    *)
(* out of a URI and the pauses between reconnects.  A handle is connected  *)
(* several times, with other options each time.                            *)
(* A copied string or structure is named by the number of the call that    *)
(* made it; 0 is NULL.                                                     *)
(***************************************************************************)
EXTENDS Naturals, Sequences, SequencesExt

CONSTANTS
  MaxConnects,    \* connect calls of a handle
  RetryIntervals, \* <<minRetryInterval, maxRetryInterval>> of MQTTAsync
  MaxUris         \* servers of a list

ASSUME ConnectOptionsAssumption ==
  /\ MaxConnects \in Nat /\ MaxUris \in Nat
  /\ RetryIntervals \subseteq {r \in (Nat \ {0}) \X Nat : r[1] <= r[2]}

VARIABLES
  co,        \* the client structure
  released,  \* the copies that were freed
  lastRc,    \* what the last call returned
  given,     \* the options of the calls that were accepted, in order
  retry      \* currentIntervalBase, currentInterval, retrying and the limits

connectVars == <<co, released, lastRc, given, retry>>

MQTTVERSION_DEFAULT == 0
MQTTVERSION_5 == 5

ConnectSettings ==
  [struct_version : {3, 6}, MQTTVersion : {0, 4, 5}, cleansession : BOOLEAN,
   cleanstart : BOOLEAN, will : BOOLEAN, username : BOOLEAN, password : {"none", "text", "binary"}]

ConnectOptionsInit ==
  /\ \E lib \in {"client", "async"}, v \in {MQTTVERSION_DEFAULT, MQTTVERSION_5} :
       co = [lib |-> lib, MQTTVersion |-> v, cleansession |-> FALSE, cleanstart |-> FALSE,
             will |-> 0, username |-> 0, password |-> 0, ssl |-> FALSE, websocket |-> FALSE, uris |-> <<>>]
  /\ released = {} /\ lastRc = "none" /\ given = <<>>
  /\ retry = [base |-> 0, interval |-> 0, retrying |-> FALSE, min |-> 1, max |-> 1]

ThisCall == Len(given) + 1

-----------------------------------------------------------------------------
(* MQTTClient                                                              *)

\* MQTTClient_connect and MQTTClient_connect5, then MQTTClient_connectAll
MQTTClient_connect(o) ==
  IF o.MQTTVersion >= MQTTVERSION_5 /\ o.cleansession THEN "BAD_MQTT_OPTION"
  ELSE IF o.MQTTVersion < MQTTVERSION_5 /\ o.cleanstart THEN "BAD_MQTT_OPTION"
  ELSE "accepted"

\* Only the flag of the protocol's version is set, the other one is cleared.
SessionFlags(c, o) ==
  [c EXCEPT !.cleanstart = o.MQTTVersion >= MQTTVERSION_5 /\ o.cleanstart,
            !.cleansession = o.MQTTVersion < MQTTVERSION_5 /\ o.cleansession]

HasPassword(o) == o.password = "text" \/ (o.password = "binary" /\ o.struct_version >= 5)

\* A copy is freed before the next is made; user name and password keep the old pointer when none is.
Copied(c, o) ==
  [c EXCEPT !.will = IF o.will THEN ThisCall ELSE 0,
            !.username = IF o.username THEN ThisCall ELSE @,
            !.password = IF HasPassword(o) THEN ThisCall ELSE @]

FreedBy(c) == {<<f, c[f]>> : f \in {g \in {"will", "username", "password"} : c[g] # 0}}

MQTTClient_connectURI(o) == SessionFlags([Copied(co, o) EXCEPT !.MQTTVersion = o.MQTTVersion], o)

\* The version of the call has to be the client's; the will is freed when the call ends.
ClientConnect(o, call5) ==
  LET wrong == IF call5 THEN co.MQTTVersion < MQTTVERSION_5 ELSE co.MQTTVersion >= MQTTVERSION_5
      rc == IF wrong THEN "WRONG_MQTT_VERSION" ELSE MQTTClient_connect(o)
      after == MQTTClient_connectURI(o)
  IN /\ co.lib = "client" /\ Len(given) < MaxConnects /\ retry.base = 0 /\ co.uris = <<>>
     /\ lastRc' = rc
     /\ IF rc = "accepted"
        THEN /\ co' = [after EXCEPT !.will = 0] /\ given' = Append(given, o)
             /\ released' = released \cup FreedBy(co) \cup (IF o.will THEN {<<"will", ThisCall>>} ELSE {})
        ELSE UNCHANGED <<co, given, released>>
     /\ UNCHANGED retry

\* The servers of a list are tried in turn, by the loop of MQTTClient_connectAll.
Transports == {"tcp", "ws", "ssl", "wss"}
OverSsl(t) == t \in {"ssl", "wss"}
OverWebSocket(t) == t \in {"ws", "wss"}
TryServer(t) ==
  /\ co.lib = "client" /\ Len(given) <= 1 /\ retry.base = 0 /\ Len(co.uris) < MaxUris
  /\ co' = [co EXCEPT !.ssl = @ \/ OverSsl(t), !.websocket = @ \/ OverWebSocket(t),
                      !.uris = Append(@, [asked |-> t, ssl |-> co.ssl \/ OverSsl(t),
                                          websocket |-> co.websocket \/ OverWebSocket(t)])]
  /\ UNCHANGED <<released, lastRc, given, retry>>

-----------------------------------------------------------------------------
(* MQTTAsync                                                               *)

MQTTAsync_connect(o) ==
  IF o.MQTTVersion >= MQTTVERSION_5 /\ co.MQTTVersion < MQTTVERSION_5 THEN "WRONG_MQTT_VERSION"
  ELSE IF o.MQTTVersion >= MQTTVERSION_5 /\ o.struct_version < 6 THEN "BAD_STRUCTURE"
  ELSE IF o.MQTTVersion >= MQTTVERSION_5 /\ o.cleansession THEN "BAD_MQTT_OPTION"
  ELSE IF o.MQTTVersion < MQTTVERSION_5 /\ o.struct_version >= 6 /\ o.cleanstart THEN "BAD_MQTT_OPTION"
  ELSE "accepted"

\* cleanstart is one of the fields that an older options structure does not have.
AsyncSettings(o) ==
  [Copied(co, o) EXCEPT !.MQTTVersion = o.MQTTVersion, !.cleansession = o.cleansession,
                        !.cleanstart = IF o.struct_version >= 6 THEN o.cleanstart ELSE @]

AsyncConnect(o) ==
  /\ co.lib = "async" /\ Len(given) < MaxConnects /\ retry.base = 0
  /\ lastRc' = MQTTAsync_connect(o)
  /\ IF lastRc' = "accepted"
     THEN co' = AsyncSettings(o) /\ given' = Append(given, o) /\ released' = released \cup FreedBy(co)
     ELSE UNCHANGED <<co, given, released>>
  /\ UNCHANGED retry

Least(a, b) == IF a < b THEN a ELSE b
Most(a, b) == IF a > b THEN a ELSE b

\* MQTTAsync_randomJitter: some number of these; the products are cut to integers
MQTTAsync_randomJitter(base, min, max) ==
  LET max_sleep == (Least(max, base) * 12) \div 10
      min_sleep == (Most(min, base) * 10) \div 12
  IN IF min_sleep >= max_sleep THEN {min_sleep} ELSE min_sleep..max_sleep

\* The first failure of a connection pauses for the least interval, each one after it for twice as long.
RetryBase(r) == IF r.retrying THEN Least(r.base * 2, r.max) ELSE r.min

RetryLater(limits) ==
  LET r == IF retry.base = 0 THEN [retry EXCEPT !.min = limits[1], !.max = limits[2]] ELSE retry
  IN /\ co.lib = "async" /\ given = <<>> /\ co.MQTTVersion = MQTTVERSION_5
     /\ retry.base = 0 \/ retry.base < retry.max
     /\ \E i \in MQTTAsync_randomJitter(RetryBase(r), r.min, r.max) :
          retry' = [r EXCEPT !.base = RetryBase(r), !.interval = i, !.retrying = TRUE]
     /\ UNCHANGED <<co, released, lastRc, given>>

\* MQTTAsync_reconnect with automatic reconnect: at once, and the pauses begin anew if there were none
MQTTAsync_reconnect ==
  /\ co.lib = "async" /\ retry.base # 0
  /\ retry' = IF retry.retrying THEN retry
              ELSE [retry EXCEPT !.base = retry.min, !.interval = retry.min, !.retrying = TRUE]
  /\ UNCHANGED <<co, released, lastRc, given>>
ReconnectSucceeds ==
  /\ retry.retrying /\ retry' = [retry EXCEPT !.retrying = FALSE]
  /\ UNCHANGED <<co, released, lastRc, given>>

ConnectOptionsNext ==
  \/ \E o \in ConnectSettings : AsyncConnect(o) \/ \E call5 \in BOOLEAN : ClientConnect(o, call5)
  \/ \E t \in Transports : TryServer(t)
  \/ \E limits \in RetryIntervals : RetryLater(limits)
  \/ MQTTAsync_reconnect \/ ReconnectSucceeds

-----------------------------------------------------------------------------
(* The address of a URI, a sequence of characters.                         *)

LastOf(s, c) == LET at == {i \in DOMAIN s : s[i] = c} IN IF at = {} THEN 0 ELSE CHOOSE i \in at : \A j \in at : j <= i
FirstFrom(s, k, c) == LET at == {i \in k..Len(s) : s[i] = c} IN IF at = {} THEN 0 ELSE CHOOSE i \in at : \A j \in at : i <= j

\* MQTTProtocol_addressPort: the length of the host, where the port and the path begin, 0 for neither;
\* of a bracketed address the last bracket is left out
MQTTProtocol_addressPort(uri) ==
  LET last == LastOf(uri, ":")
      colon_pos == IF uri[1] = "[" /\ last < LastOf(uri, "]") THEN 0 ELSE last
      len == IF colon_pos # 0 THEN colon_pos - 1 ELSE Len(uri)
  IN [len |-> IF uri[len] = "]" THEN len - 1 ELSE len, port |-> colon_pos,
      topic |-> FirstFrom(uri, IF colon_pos = 0 THEN 1 ELSE colon_pos, "/")]

UriHosts == {<<"h">>, <<"h", ".", "h">>, <<"[", ":", ":", "h", "]">>, <<"[", "h", ":", ":", "]">>}
UriPorts == {<<>>, <<":", "1">>, <<":", "1", "8">>}
UriPaths == {<<>>, <<"/">>, <<"/", "h">>}
HostLength(h) == IF h[1] = "[" THEN Len(h) - 1 ELSE Len(h)

-----------------------------------------------------------------------------

LastGiven == given[Len(given)]
Gives(o, f) == IF f = "username" THEN o.username ELSE HasPassword(o)

AddressesFound ==
  \A h \in UriHosts, p \in UriPorts, t \in UriPaths :
    LET found == MQTTProtocol_addressPort(h \o p \o t)
    IN p # <<>> \/ t = <<>> =>
         /\ found.len = HostLength(h)
         /\ found.port = IF p = <<>> THEN 0 ELSE Len(h) + 1
         /\ found.topic = IF t = <<>> THEN 0 ELSE Len(h) + Len(p) + 1

(* After every connect call that was accepted the client has the settings  *)
(* of that call: MQTTClient never keeps a clean session and a clean start  *)
(* together, whatever came before, and MQTTAsync keeps a clean start only  *)
(* for options without the field; no pointer of the client leads to freed  *)
(* memory, but a user name or password of an earlier call that this one    *)
(* does not give; a server is reached over the transports its URI names,   *)
(* or over more that an earlier one of the list named; a host is found in  *)
(* every URI that has no path without a port; and a pause before a         *)
(* reconnect lies within a fifth of the intervals asked for.               *)
ConnectSound ==
  /\ given # <<>> =>
       /\ co.MQTTVersion = LastGiven.MQTTVersion /\ co.cleansession = LastGiven.cleansession
       /\ co.lib = "client" => co.cleanstart = LastGiven.cleanstart /\ ~(co.cleansession /\ co.cleanstart)
       /\ co.lib = "async" /\ LastGiven.struct_version >= 6 => co.cleanstart = LastGiven.cleanstart
       /\ co.will # 0 => LastGiven.will /\ <<"will", co.will>> \notin released
       /\ \A f \in {"username", "password"} :
            /\ Gives(LastGiven, f) => co[f] = Len(given) /\ <<f, co[f]>> \notin released
            /\ co[f] # 0 /\ <<f, co[f]>> \in released => ~Gives(LastGiven, f) /\ Gives(given[co[f]], f)
  /\ \A i \in DOMAIN co.uris :
       LET u == co.uris[i]
           before == {co.uris[j].asked : j \in 1..i}
       IN /\ u.ssl <=> \E t \in before : OverSsl(t)
          /\ u.websocket <=> \E t \in before : OverWebSocket(t)
  /\ retry.base # 0 =>
       /\ retry.min <= retry.base /\ retry.base <= retry.max
       /\ 12 * (retry.interval + 1) > 10 * retry.min /\ 10 * retry.interval <= 12 * retry.max
  /\ AddressesFound
=============================================================================
