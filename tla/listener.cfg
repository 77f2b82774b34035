SPECIFICATION FairSpec
CONSTANTS
  t1 = t1
  t2 = t2
  Tasks <- TwoAcceptors
  Conns = {1, 2}
  Faults = {"accept", "from_raw_fd", "register"}
INVARIANTS TypeOK NoLostWakeup
PROPERTIES NoEmptyReturn LossIsAnnounced AcceptSettles AcceptProceeds
