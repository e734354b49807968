SPECIFICATION Spec
CONSTANTS
  AllRequests = {"r1", "r2"}
  AllIncoming = {"i1", "i2"}
  Peers = {p1, p2}
  p1 = p1
  p2 = p2
  MaxReports = 0
  Envs <- AskOnce
INVARIANTS ResponseReachesCallback
CHECK_DEADLOCK FALSE
