----------------------------- MODULE MCLoRaModem -----------------------------
\* Configurations of LoRaModem for TLC: the one of main, and that one with a
\* few fields varied over their range (frequencies: 137 to 1020 MHz).
EXTENDS LoRaModem

\* lora_rf24_receive.cpp, lines 630-645.
MainConfig ==
  [bw |-> 6, sf |-> 7, ecr |-> 4, implicitHeader |-> 0, CRC |-> 0, outPower |-> 20,
   powerOutPin |-> PA_BOOST, preambleLen |-> 6, AGC |-> 1, OCP |-> 240,
   freq |-> <<27712, 0>>, payloadLen |-> 0, size |-> 0]

OcpConfigs == {[MainConfig EXCEPT !.OCP = mA] : mA \in 0..255}
PowerConfigs == {[MainConfig EXCEPT !.outPower = p, !.powerOutPin = pin] :
                   p \in 0..17 \cup {20}, pin \in {RFO, PA_BOOST}}
FormatConfigs == {[MainConfig EXCEPT !.bw = b, !.sf = s, !.ecr = e, !.implicitHeader = h, !.CRC = c] :
                    b \in 0..9, s \in 7..12, e \in 1..4, h \in Bool, c \in Bool}
FreqConfigs == {[MainConfig EXCEPT !.freq = <<q, r>>] :
                  q \in {8768, 27712, 65279}, r \in {0, 1, 61, 62, 7812, 15563, 15564, 15624}}
PreambleConfigs == {[MainConfig EXCEPT !.preambleLen = n] :
                      n \in {0, 5, 6, 7, 255, 256, 257, 511, 65535, 65536, 70000}}
PacketConfigs == {[MainConfig EXCEPT !.bw = b, !.sf = s, !.ecr = e, !.implicitHeader = h,
                                     !.payloadLen = n, !.size = n, !.AGC = h] :
                    b \in {0, 7}, s \in {7, 11}, e \in {1, 4}, h \in Bool, n \in 0..255}
AllConfigs == OcpConfigs \cup PowerConfigs \cup FormatConfigs \cup FreqConfigs
              \cup PreambleConfigs \cup PacketConfigs
==============================================================================
