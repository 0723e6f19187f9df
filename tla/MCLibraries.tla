------------------------------ MODULE MCLibraries ------------------------------
(***************************************************************************)
(* The libraries below the programs, each driven by its own calls: a       *)
(* behaviour is one of one of them, the rest standing still.               *)
(***************************************************************************)
EXTENDS MCLoRaModem, Rf24Driver, Rf24Wire, BcmPins, BcmSpi, BcmI2c, PinInterrupts,
        MqttPackets, WebSocket, SslStream, TrackedHeap, LinkedLists, FileStore, TraceLog,
        Publications, MessageQueue, ConnectOptions, SocketSet

VARIABLE library   \* the one that runs

\* What a web socket server sends, and the remaining lengths of a TLS server's packets.
ServerFrames ==
  <<[opcode |-> "binary", ext |-> FALSE, size |-> 3], [opcode |-> "binary", ext |-> TRUE, size |-> 2],
    [opcode |-> "close", ext |-> FALSE, size |-> 2]>>
ServerPackets == <<1, 0>>

SameParity(a, b) == a % 2 = b % 2
Intervals == {<<1, 60>>, <<5, 7>>, <<3, 3>>}

\* A library that stands still does so in one of its initial states.
LibrariesInit ==
  /\ library \in {"modem", "rf24", "rf24wire", "pins", "spi", "i2c", "irq", "packets", "websocket", "ssl",
                  "heap", "list", "store", "trace", "publications", "queue", "connect", "sockets"}
  /\ Rf24Init /\ (library # "rf24" => api = "write")
  /\ Rf24WireInit /\ (library # "rf24wire" => link = [size |-> CHOOSE n \in PayloadSizes : TRUE, dynamic |-> FALSE])
  /\ PinsInit /\ (library # "pins" => ~bases.rpi4)
  /\ SpiInit /\ (library # "spi" => ~spiOrder)
  /\ ConnectOptionsInit /\ (library # "connect" => co.lib = "client" /\ co.MQTTVersion = MQTTVERSION_5)
  /\ I2cInit /\ IrqInit /\ PacketsInit /\ WebSocketInit /\ SslInit /\ HeapInit /\ ListInit
  /\ StoreInit /\ LogInit /\ PublicationsInit /\ MessageQueueInit /\ SocketSetInit
  /\ ModemInit /\ (library # "modem" => cfg = MainConfig /\ \A r \in Registers : reg[r] = 0)

driverVars == <<modemVars, rf24Vars, wireVars, pinVars, spiVars, i2cVars, irqVars>>
mqttVars == <<packetVars, wsVars, sslVars, heapVars, listVars, storeVars, logVars, pubVars, queueVars,
             connectVars, socketVars>>

LibrariesNext ==
  \/ library = "modem" /\ ModemNext
     /\ UNCHANGED <<library, rf24Vars, wireVars, pinVars, spiVars, i2cVars, irqVars, mqttVars>>
  \/ library = "rf24" /\ Rf24Next
     /\ UNCHANGED <<library, modemVars, wireVars, pinVars, spiVars, i2cVars, irqVars, mqttVars>>
  \/ library = "rf24wire" /\ Rf24WireNext
     /\ UNCHANGED <<library, modemVars, rf24Vars, pinVars, spiVars, i2cVars, irqVars, mqttVars>>
  \/ library = "pins" /\ PinsNext
     /\ UNCHANGED <<library, modemVars, rf24Vars, wireVars, spiVars, i2cVars, irqVars, mqttVars>>
  \/ library = "spi" /\ SpiNext
     /\ UNCHANGED <<library, modemVars, rf24Vars, wireVars, pinVars, i2cVars, irqVars, mqttVars>>
  \/ library = "i2c" /\ I2cNext
     /\ UNCHANGED <<library, modemVars, rf24Vars, wireVars, pinVars, spiVars, irqVars, mqttVars>>
  \/ library = "irq" /\ IrqNext
     /\ UNCHANGED <<library, modemVars, rf24Vars, wireVars, pinVars, spiVars, i2cVars, mqttVars>>
  \/ library = "packets" /\ PacketsNext
     /\ UNCHANGED <<library, wsVars, sslVars, heapVars, listVars, storeVars, logVars, pubVars, queueVars, connectVars, socketVars, driverVars>>
  \/ library = "websocket" /\ WebSocketNext
     /\ UNCHANGED <<library, packetVars, sslVars, heapVars, listVars, storeVars, logVars, pubVars, queueVars, connectVars, socketVars, driverVars>>
  \/ library = "ssl" /\ SslNext
     /\ UNCHANGED <<library, packetVars, wsVars, heapVars, listVars, storeVars, logVars, pubVars, queueVars, connectVars, socketVars, driverVars>>
  \/ library = "heap" /\ HeapNext
     /\ UNCHANGED <<library, packetVars, wsVars, sslVars, listVars, storeVars, logVars, pubVars, queueVars, connectVars, socketVars, driverVars>>
  \/ library = "list" /\ ListNext
     /\ UNCHANGED <<library, packetVars, wsVars, sslVars, heapVars, storeVars, logVars, pubVars, queueVars, connectVars, socketVars, driverVars>>
  \/ library = "store" /\ StoreNext
     /\ UNCHANGED <<library, packetVars, wsVars, sslVars, heapVars, listVars, logVars, pubVars, queueVars, connectVars, socketVars, driverVars>>
  \/ library = "trace" /\ LogNext
     /\ UNCHANGED <<library, packetVars, wsVars, sslVars, heapVars, listVars, storeVars, pubVars, queueVars, connectVars, socketVars, driverVars>>
  \/ library = "publications" /\ PublicationsNext
     /\ UNCHANGED <<library, packetVars, wsVars, sslVars, heapVars, listVars, storeVars, logVars, queueVars, connectVars, socketVars, driverVars>>
  \/ library = "queue" /\ MessageQueueNext
     /\ UNCHANGED <<library, packetVars, wsVars, sslVars, heapVars, listVars, storeVars, logVars, pubVars, connectVars, socketVars, driverVars>>
  \/ library = "connect" /\ ConnectOptionsNext
     /\ UNCHANGED <<library, packetVars, wsVars, sslVars, heapVars, listVars, storeVars, logVars, pubVars, queueVars, socketVars, driverVars>>
  \/ library = "sockets" /\ SocketSetNext
     /\ UNCHANGED <<library, packetVars, wsVars, sslVars, heapVars, listVars, storeVars, logVars, pubVars, queueVars, connectVars, driverVars>>

LibrariesSpec == LibrariesInit /\ [][LibrariesNext]_<<library, driverVars, mqttVars>>
--------------------------------------------------------------------------------
Of(name, promise) == library = name => promise

\* LoRa.c: after LoRa_begin and LoRa_receive the modem's registers mean what the configuration
\* asked for, over the range of every field, and the packet time of the same configuration is
\* long enough.
ModemProgrammed == Of("modem", FrameFormatAgreed /\ SettingsReached /\ TimingSound)

\* RF24.cpp: pipes, payloads and settings survive changes of role, failures and brown-outs, and
\* what read and the register calls return is what the other radio or the chip holds.
RadioChipSound == Of("rf24", Rf24Sound) /\ Of("rf24wire", Rf24WireSound)

\* bcm2835.c and interrupt.c: registers that several pins share keep the other pins' fields, a
\* delay is never short, and no pin's interrupt is taken for another's or lost.
PinsServed == Of("pins", PinsSound) /\ Of("irq", InterruptsSound)

\* bcm2835.c: the bytes of every SPI and I2C call are those on the wire, in their order,
\* whenever the unit fills and empties its FIFOs.
BusesCarry == Of("spi", SpiSound) /\ Of("i2c", I2cSound)

\* MQTTPacket.c, MQTTPacketOut.c, MQTTProperties.c, utf-8.c: packets mean on the wire what they
\* mean in memory, in buffers filled to the byte.
PacketsMean == Of("packets", PacketsSound)


\* Heap.c, Tree.c and LinkedList.c: after any calls the containers hold exactly what was put in
\* and not taken out, balanced, linked both ways and found where it is.
ContainersSound == Of("heap", HeapSound) /\ Of("list", ListSound)

\* MQTTPersistence.c, MQTTPersistenceDefault.c and Log.c: records that were stored are the ones
\* found again, after crashes and failed writes too, and queue and trace keep their order.
StoresKept == Of("store", StoreSound) /\ Of("queue", QueueSound) /\ Of("trace", TraceSound)

\* MQTTProtocolClient.c, MQTTClient.c, MQTTAsync.c and Socket.c: what a client owns in memory
\* and in descriptors is used only while it is there, over connects, retries and closes.
ClientOwns == Of("publications", PublicationsSound) /\ Of("connect", ConnectSound) /\ Of("sockets", SocketSetSound)
================================================================================
