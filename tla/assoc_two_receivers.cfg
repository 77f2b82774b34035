SPECIFICATION FairSpec
CONSTANTS
  r1 = r1
  r2 = r2
  s1 = s1
  s2 = s2
  Tasks <- ReadersPair
  Receivers <- TwoReceivers
  Senders <- OneSender
  Calls = {"recv", "data"}
  SndBuf = 1
  MaxQueue = 1
  MaxMsgs = 0
  MaxParts = 1
  Restarts = FALSE
  LostEarly = FALSE
PROPERTIES ReceiveEnds
