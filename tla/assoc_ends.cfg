SPECIFICATION FairSpec
CONSTANTS
  r1 = r1
  r2 = r2
  s1 = s1
  s2 = s2
  Tasks <- Pair
  Receivers <- OneReceiver
  Senders <- OneSender
  Calls = {"recv", "data", "abort", "eof", "oversize"}
  SndBuf = 1
  MaxQueue = 1
  MaxMsgs = 1
  MaxParts = 1
  Restarts = FALSE
  LostEarly = FALSE
INVARIANTS TypeOK NoLostWakeup
PROPERTIES ReceiveEnds SendEnds SendProceeds
