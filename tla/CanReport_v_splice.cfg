SPECIFICATION Spec
CONSTANTS
  Nodes = {1}
  CAN_MAX_DLEN = 2
  DLC_SIZES = {0, 1, 2}
  SEQ_MOD = 2
  MSG_MOD = 4
  BUFFER_SIZE = 12
  NUM_BUFFERS = 1
  Lens = {5}
  MaxReports = 2
  FaultKinds = {"eagain"}
  MaxFaults = 1
INVARIANTS DeliveredWhole
CHECK_DEADLOCK FALSE
