SPECIFICATION FairLinkSpec
CONSTANTS
  Peers = {"a"}
  Lengths = {3, 9, 12}
  MaxMsgs = 3
  MaxErrors = 4
  Envs <- Links
  CAN_MAX_DLEN = 4
  MAX_LEN = 12
  RX_BUF_COUNT = 2
  MAX_PACKET_COUNT = 6
  OPTS_BS = 2
  OPTS_STMIN = 0
  WFTMAX = 1
  SN_MOD = 4
  BYTE = 8
PROPERTIES ImplementsTransfer TransferCompletes EachSideAsAssumed
CHECK_DEADLOCK FALSE
