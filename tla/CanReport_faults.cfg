SPECIFICATION FairSpec
CONSTANTS
  Nodes = {1}
  CAN_MAX_DLEN = 2
  DLC_SIZES = {0, 1, 2}
  SEQ_MOD = 5
  MSG_MOD = 4
  BUFFER_SIZE = 6
  NUM_BUFFERS = 1
  Lens = {0, 1, 5, 9}
  MaxReports = 3
  FaultKinds = {"eagain", "error", "timeout", "txerror", "lost"}
  MaxFaults = 1
INVARIANTS DeliveredWhole OneFrameInFlight RecoversAfterOneReport
PROPERTIES EveryReportDelivered
CHECK_DEADLOCK FALSE
