SPECIFICATION Spec
CONSTANTS
  p1 = p1
  p2 = p2
  p3 = p3
  Peers = {p1}
  Lengths = {3, 12}
  MaxMsgs = 3
  CAN_MAX_DLEN = 4
  RX_BUF_COUNT = 2
  MAX_PACKET_COUNT = 6
  WFTMAX = 2
  SN_MOD = 4
  BYTE = 8
  MaxErrors = 3
  Envs <- LossEnv
INVARIANTS OnlyReceivedIsDelivered
CHECK_DEADLOCK FALSE
