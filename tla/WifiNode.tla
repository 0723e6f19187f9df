------------------------------- MODULE WifiNode -------------------------------
(***************************************************************************)
(* The Wi-Fi sensor node, hostpost.ino: as an access point it waits for an *)
(* operator to send it the name and the password of a network, joins that  *)
(* network as a station, and publishes its readings there for ever.        *)
(***************************************************************************)
EXTENDS Integers

CONSTANTS MaxDrops   \* bound: how often the network disappears

MaxTries == 20       \* line 90

VARIABLES
  wifiPc,        \* "loop" (142-146), "session" (152), "setup" (88), "main" (179)
  wifiMode,      \* "AP" or "STA"
  configServer,  \* is the server on port 6000 open?
  operator,      \* environment: "none", "connected" or "gone"
  typed,         \* environment: what the operator sent and loop has not read
  credentials,   \* ssid and pass: "none", "good" or "bad"
  tries,         \* checkWifi
  network,       \* environment: is the network there?
  associated,    \* WiFi.status() = WL_CONNECTED
  mqttUp,        \* client_mqtt.connected()
  wifiPublished, \* has it published since the network was last away?
  drops

wifiEnv == <<operator, typed, network, drops>>
wifiVars == <<wifiPc, wifiMode, configServer, wifiEnv, credentials, tries, associated, mqttUp,
              wifiPublished>>

\* After setup.
WifiInit ==
  /\ wifiPc = "loop" /\ wifiMode = "AP" /\ configServer = TRUE
  /\ operator = "none" /\ typed = "none" /\ credentials = "none" /\ tries = 0
  /\ network = TRUE /\ associated = FALSE /\ mqttUp = FALSE /\ wifiPublished = FALSE /\ drops = 0

\* The operator connects to the access point, sends a text once, and goes;
\* without the access point he is gone at once.
OperatorActs ==
  /\ \/ /\ operator = "none" /\ configServer /\ operator' = "connected" /\ UNCHANGED typed
     \/ /\ operator = "connected" /\ wifiMode = "AP" /\ typed = "none" /\ credentials = "none"
        /\ typed' \in {"good", "wrong", "long"} /\ UNCHANGED operator
     \/ /\ operator = "connected" /\ operator' = "gone" /\ UNCHANGED typed
  /\ UNCHANGED <<wifiPc, wifiMode, configServer, credentials, tries, network, associated, mqttUp,
                 wifiPublished, drops>>

\* Lines 144-152.
WifiAccept ==
  /\ wifiPc = "loop" /\ operator # "none" /\ wifiPc' = "session"
  /\ UNCHANGED <<wifiMode, configServer, wifiEnv, credentials, tries, associated, mqttUp, wifiPublished>>

\* sizeof(temp) is the size of a String object and not of its text, so that a
\* name or password longer than that is cut off (lines 160-174).
Extracted(text) == IF text = "good" THEN "good" ELSE "bad"

MutantBegin == configServer' = FALSE /\ UNCHANGED <<wifiMode, associated>>

\* SetUpWifi, lines 82-87: the access point and the server go, the station joins.
BeginStation == wifiMode' = "STA" /\ configServer' = FALSE /\ UNCHANGED associated

\* Lines 152-175.
WifiRead ==
  /\ wifiPc = "session" /\ operator = "connected" /\ typed # "none"
  /\ credentials' = Extracted(typed) /\ typed' = "none"
  /\ BeginStation /\ tries' = 0 /\ wifiPc' = "setup"
  /\ UNCHANGED <<operator, network, drops, mqttUp, wifiPublished>>

\* SetUpWifi, lines 88-101.  The attempt to join goes on in the radio either way.
WifiWait ==
  /\ wifiPc = "setup"
  /\ \/ associated /\ wifiPc' = "main" /\ UNCHANGED tries
     \/ ~associated /\ tries < MaxTries /\ tries' = tries + 1 /\ UNCHANGED wifiPc
     \/ ~associated /\ tries = MaxTries /\ tries' = tries + 1 /\ wifiPc' = "session"
  /\ UNCHANGED <<wifiMode, configServer, wifiEnv, credentials, associated, mqttUp, wifiPublished>>

\* Line 152: the operator's connection has ended, with or without a text.
WifiSessionEnds ==
  /\ wifiPc = "session" /\ operator = "gone" /\ wifiPc' = "main"
  /\ UNCHANGED <<wifiMode, configServer, wifiEnv, credentials, tries, associated, mqttUp, wifiPublished>>

\* reconnect, lines 123-140, over and over until it works.
WifiReconnect ==
  /\ wifiPc = "main" /\ ~mqttUp /\ associated /\ mqttUp' = TRUE
  /\ UNCHANGED <<wifiPc, wifiMode, configServer, wifiEnv, credentials, tries, associated, wifiPublished>>

\* Lines 184-227.
WifiPublish ==
  /\ wifiPc = "main" /\ mqttUp /\ ~wifiPublished /\ wifiPublished' = TRUE
  /\ UNCHANGED <<wifiPc, wifiMode, configServer, wifiEnv, credentials, tries, associated, mqttUp>>

\* The radio joins the network whose credentials it has, also after SetUpWifi.
Associate ==
  /\ wifiMode = "STA" /\ credentials = "good" /\ network /\ ~associated /\ associated' = TRUE
  /\ UNCHANGED <<wifiPc, wifiMode, configServer, wifiEnv, credentials, tries, mqttUp, wifiPublished>>

NetworkMoves ==
  /\ \/ network /\ drops < MaxDrops /\ drops' = drops + 1 /\ network' = FALSE
     \/ ~network /\ network' = TRUE /\ UNCHANGED drops
  /\ associated' = FALSE /\ mqttUp' = FALSE /\ wifiPublished' = FALSE
  /\ UNCHANGED <<wifiPc, wifiMode, configServer, operator, typed, credentials, tries>>

WifiSketch == WifiAccept \/ WifiRead \/ WifiWait \/ WifiSessionEnds \/ WifiReconnect \/ WifiPublish
WifiNext == WifiSketch \/ OperatorActs \/ Associate \/ NetworkMoves
\* The sketch and the radio run on, a network that went away comes back, and an
\* operator whose access point is gone is disconnected.
WifiFairness ==
  /\ WF_wifiVars(WifiSketch) /\ WF_wifiVars(Associate)
  /\ WF_wifiVars(NetworkMoves /\ ~network)
  /\ WF_wifiVars(OperatorActs /\ wifiMode = "STA")
WifiSpec == WifiInit /\ [][WifiNext]_wifiVars /\ WifiFairness
-------------------------------------------------------------------------------
\* Properties.

\* A node that was given the right credentials publishes in the end, also when
\* the network was away while SetUpWifi counted its twenty tries, or goes away
\* and comes back later.
CredentialsServe == (credentials = "good") ~> wifiPublished
================================================================================
