------------------------------- MODULE WebServer -------------------------------
(***************************************************************************)
(* The web server, app.js: it subscribes to the broker and passes every    *)
(* message on to the browsers that are connected.  Node.js runs one event  *)
(* callback at a time; the broker and the browsers are the environment.    *)
(***************************************************************************)
EXTENDS Integers, Sequences, FiniteSets, SequencesExt

CONSTANTS
  Browsers,      \* the sockets
  MaxNews        \* bound: messages published on sdt_server

VARIABLES
  webUp,         \* does the process run?
  allWebClients, \* the list of lines 29, 56 and 66
  online,        \* environment: the browsers with an open connection
  shown,         \* what each has been sent since it connected
  subscribed,    \* environment: has the broker this session's subscription?
  brokerLink,    \* is mqtt_client connected?
  news,          \* environment: messages on their way to the server
  newsSent,      \* how many messages there have been
  missed         \* for each browser, what the server got since it connected

webVars == <<webUp, allWebClients, online, shown, subscribed, brokerLink, news, newsSent, missed>>

WebInit ==
  /\ webUp = TRUE /\ allWebClients = <<>> /\ online = {}
  /\ shown = [b \in Browsers |-> <<>>] /\ missed = [b \in Browsers |-> <<>>]
  /\ subscribed = FALSE /\ brokerLink = FALSE /\ news = <<>> /\ newsSent = 0

\* Lines 33-40: subscribe, at every connect; a second subscription to one topic
\* takes the place of the first.
WebConnect ==
  /\ webUp /\ ~brokerLink /\ brokerLink' = TRUE /\ subscribed' = TRUE
  /\ UNCHANGED <<webUp, allWebClients, online, shown, news, newsSent, missed>>

\* The connection to the broker is lost, and with it a clean session.
WebBrokerLost ==
  /\ brokerLink /\ brokerLink' = FALSE /\ subscribed' = FALSE /\ news' = <<>>
  /\ UNCHANGED <<webUp, allWebClients, online, shown, newsSent, missed>>

\* Somebody publishes on sdt_server a message that is JSON or is not.
WebNews ==
  /\ newsSent < MaxNews /\ newsSent' = newsSent + 1
  /\ \E json \in BOOLEAN :
       news' = IF subscribed THEN Append(news, [n |-> newsSent', json |-> json]) ELSE news
  /\ UNCHANGED <<webUp, allWebClients, online, shown, subscribed, brokerLink, missed>>

\* Lines 42-52: parse first, which throws and ends the process on a message
\* that is not JSON; then emit to every element of the list.
WebMessage ==
  /\ webUp /\ brokerLink /\ news # <<>> /\ news' = Tail(news)
  /\ LET m == Head(news)
         times(b) == Cardinality({i \in DOMAIN allWebClients : allWebClients[i] = b})
     IN IF m.json
        THEN /\ shown' = [b \in Browsers |-> shown[b] \o [i \in 1..times(b) |-> m.n]]
             /\ missed' = [b \in Browsers |-> IF b \in online THEN Append(missed[b], m.n) ELSE missed[b]]
             /\ UNCHANGED <<webUp, allWebClients, online>>
        ELSE /\ webUp' = FALSE /\ allWebClients' = <<>> /\ online' = {}
             /\ UNCHANGED <<shown, missed>>
  /\ UNCHANGED <<subscribed, brokerLink, newsSent>>

\* Lines 54-56.
BrowserConnects(b) ==
  /\ webUp /\ b \notin online /\ online' = online \cup {b}
  /\ allWebClients' = Append(allWebClients, b)
  /\ shown' = [shown EXCEPT ![b] = <<>>] /\ missed' = [missed EXCEPT ![b] = <<>>]
  /\ UNCHANGED <<webUp, subscribed, brokerLink, news, newsSent>>

MutantSplice(list, b) == IF list = <<>> THEN list ELSE Front(list)

\* indexOf and splice, lines 65-66; splice(-1, 1) removes the last element.
Splice(list, b) ==
  IF \E i \in DOMAIN list : list[i] = b
  THEN RemoveAt(list, CHOOSE i \in DOMAIN list : list[i] = b /\ \A j \in 1..(i - 1) : list[j] # b)
  ELSE IF list = <<>> THEN list ELSE Front(list)

\* Lines 63-67.
BrowserLeaves(b) ==
  /\ webUp /\ b \in online /\ online' = online \ {b}
  /\ allWebClients' = Splice(allWebClients, b)
  /\ UNCHANGED <<webUp, shown, subscribed, brokerLink, news, newsSent, missed>>

WebNext ==
  \/ WebConnect \/ WebBrokerLost \/ WebNews \/ WebMessage
  \/ \E b \in Browsers : BrowserConnects(b) \/ BrowserLeaves(b)
WebSpec == WebInit /\ [][WebNext]_webVars
-------------------------------------------------------------------------------
\* Properties.

\* Whatever browsers come and go, each one that is connected has been sent
\* every message the server received since it connected, once and in order.
EveryBrowserServed == \A b \in online : shown[b] = missed[b]
================================================================================
