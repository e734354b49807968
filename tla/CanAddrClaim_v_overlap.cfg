SPECIFICATION Spec
CONSTANTS
  n1 = n1
  n2 = n2
  n3 = n3
  Nodes = {n1, n2, n3}
  ADDR_MIN = 1
  ADDR_MAX = 4
  InitAddrs = {1}
  Envs <- PowerOn
INVARIANTS DifferentAddresses
CHECK_DEADLOCK FALSE
