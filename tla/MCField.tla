-------------------------------- MODULE MCField --------------------------------
(***************************************************************************)
(* The programs around the gateway, which do not share memory and meet     *)
(* only at the gateway's socket or the broker: each behaviour is one of    *)
(* one of them, the rest standing still.                                   *)
(***************************************************************************)
EXTENDS UartClient, I2cClient, WebServer, WifiNode, SpiClient

VARIABLE unit   \* the program that runs

fieldVars == <<unit, uartOwn, i2cOwn, timerVars, webVars, wifiVars, spiVars>>

FieldInit ==
  /\ unit \in {"uart", "i2c", "web", "wifi", "spi"}
  /\ UartInit /\ I2cInit /\ WebInit /\ WifiInit /\ SpiInit

FieldNext ==
  /\ UNCHANGED unit
  /\ \/ unit = "uart" /\ UartNext /\ UNCHANGED <<i2cOwn, webVars, wifiVars, spiVars>>
     \/ unit = "i2c" /\ I2cNext /\ UNCHANGED <<uartOwn, webVars, wifiVars, spiVars>>
     \/ unit = "web" /\ WebNext /\ UNCHANGED <<uartOwn, i2cOwn, timerVars, wifiVars, spiVars>>
     \/ unit = "wifi" /\ WifiNext /\ UNCHANGED <<uartOwn, i2cOwn, timerVars, webVars, spiVars>>
     \/ unit = "spi" /\ SpiNext /\ UNCHANGED <<uartOwn, i2cOwn, timerVars, webVars, wifiVars>>

\* Each program's own fairness, when it is the one that runs.
FieldFairness ==
  /\ WF_uartVars(unit = "uart" /\ UartMain) /\ WF_uartVars(unit = "uart" /\ UartAlarm)
  /\ SF_i2cVars(unit = "i2c" /\ I2cMain) /\ SF_i2cVars(unit = "i2c" /\ I2cThread)
  /\ WF_i2cVars(unit = "i2c" /\ Handler) /\ SF_i2cVars(unit = "i2c" /\ I2cAlarm)
  /\ WF_wifiVars(unit = "wifi" /\ WifiSketch) /\ WF_wifiVars(unit = "wifi" /\ Associate)
  /\ WF_wifiVars(unit = "wifi" /\ NetworkMoves /\ ~network)
  /\ WF_wifiVars(unit = "wifi" /\ OperatorActs /\ wifiMode = "STA")
  /\ WF_spiVars(unit = "spi" /\ SpiRequest) /\ WF_spiVars(unit = "spi" /\ SpiWrite)
  /\ WF_spiVars(unit = "spi" /\ NodeShifts)
  /\ SF_spiVars(unit = "spi" /\ SpiRead) /\ SF_spiVars(unit = "spi" /\ SpiDetect)

FieldSpec == FieldInit /\ [][FieldNext]_fieldVars /\ FieldFairness
================================================================================
