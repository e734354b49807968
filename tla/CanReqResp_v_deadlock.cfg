SPECIFICATION FairSpec
CONSTANTS
  AllRequests = {"r1", "r2"}
  AllIncoming = {"i1", "i2"}
  Peers = {p1, p2}
  p1 = p1
  p2 = p2
  MaxReports = 0
  Envs <- AnswerBig
PROPERTIES EveryMessage
CHECK_DEADLOCK FALSE
