SPECIFICATION FairSpec
CONSTANTS
  r1 = r1
  r2 = r2
  s1 = s1
  Tasks <- Triple
  Receivers <- TwoReceivers
  Senders <- OneSender
  Calls = {"recv", "data", "abort", "eof"}
  Assocs = {1}
  SndBuf = 1
  MaxQueue = 2
  MaxMsgs = 1
  MaxParts = 1
  Losses = FALSE
  PeelOffs = TRUE
INVARIANTS NoLostWakeup
PROPERTIES RecvProgress
