SPECIFICATION Spec
CONSTANTS
  r1 = r1
  r2 = r2
  s1 = s1
  Tasks <- OneReceiver
  Receivers <- OneReceiver
  Senders <- NoSender
  Calls = {"recv", "PyServer.recv"}
  Assocs = {1, 2}
  SndBuf = 1
  MaxQueue = 2
  MaxMsgs = 1
  MaxParts = 2
  Losses = TRUE
  PeelOffs = FALSE
INVARIANTS WholeMessages
