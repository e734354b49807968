SPECIFICATION FairSpec
CONSTANTS
  Targets = {a}
  Lengths = {3, 7, 12, 13}
  MaxSends = 2
  MaxStrays = 1
  CAN_MAX_DLEN = 4
  MAX_LEN = 12
  TX_BUF_COUNT = 1
  OPTS_BS = 2
  OPTS_STMIN = 0
  FcBS = {2, 3}
  FcStmin = {0, 1}
  WFTMAX = 1
  SN_MOD = 4
  BYTE = 8
  NoInit = {0, 7}
  Faults = {"sendfail"}
PROPERTIES EverySendReported
CHECK_DEADLOCK FALSE
