--------------------------- MODULE MCGatewayServer ---------------------------
\* Instances of GatewayServer for TLC.
EXTENDS GatewayServer, TLC

CONSTANTS c1, c2, c3

OneConn == {c1}
TwoConns == {c1, c2}
ThreeConns == {c1, c2, c3}
ConnSymmetry == Permutations(Conns)

\* The record of lora_rf24_receive.cpp:589 (device_name never set) and one of
\* a UART client.
LoraRecord == [node |-> "kLora", at0 |-> "empty", at20 |-> "sensor"]
UartRecord == [node |-> "kUart", at0 |-> "other", at20 |-> "empty"]
OneRecord == {LoraRecord}
TwoRecords == {LoraRecord, UartRecord}

=============================================================================
