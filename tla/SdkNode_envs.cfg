SPECIFICATION FairSpec
CONSTANTS
  Envs <- MCEnvs
  NItems = 2
  SERIAL_RX_BUF_SIZE = 5
  SerLines <- MCSerLines
  SerLong <- MCSerLong
  MTU = 4
  BtMsgs <- MCBtMsgs
  BtHard <- MCBtHard
  MaxDrops = 1
  MaxNetFaults = 2
  MaxWsMsgs = 2
  HEAP = 3
  MaxMishaps = 2
  Clients = {"c1", "c2"}
  NChunks = 3
  BLOCK = 2
  MaxDfuFaults = 2
  MaxReboots = 2
INVARIANTS BufferOwn SerialLinesWhole SerialRecovers BleRequestsWhole BleAnswersWhole UpgradeWhole
PROPERTIES EveryRequestServed WsReconnects LoraJoins
CHECK_DEADLOCK FALSE
