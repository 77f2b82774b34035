SPECIFICATION Spec
CONSTANTS
  r1 = r1
  r2 = r2
  s1 = s1
  s2 = s2
  Tasks <- TwoReceivers
  Receivers <- TwoReceivers
  Senders <- NoSender
  Calls = {"recv", "recv_msg", "shutdown"}
  SndBuf = 1
  MaxQueue = 1
  MaxMsgs = 2
  MaxParts = 2
  Restarts = TRUE
  LostEarly = TRUE
INVARIANTS EndedMeansOver Conservation DeliveredIntact
PROPERTIES NoDataLeftBehind ImplementsChannel
SYMMETRY Symmetry
