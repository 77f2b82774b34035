SPECIFICATION Spec
CONSTANTS
  t1 = t1
  t2 = t2
  t3 = t3
  Threads <- ThreeThreads
  Fds = {1, 2, 3, 4}
  Faults <- BindRegisters
INVARIANTS TypeOK DescriptorIsOwn OnlyFromRawFdLeaks
SYMMETRY Symmetry
