SPECIFICATION FairSpec
CONSTANTS
  Tasks <- TheArms
  Args <- TheArgs
  FalsePositives = {"READABLE", "WRITABLE"}
  LittleEndian = TRUE
  IntBits = 4
  BufLimit = 6
  BufFloor = 2
  AutocloseLimit = 12
INVARIANTS TypeOK OkMeansEstablished RefusalIsExplained OneOwner ReadinessIsLeft AddressesFit AddressesAsAsked OptionsAsAsked
PROPERTIES ConnectReturns ImplementsOwnership
