CONSTANTS
  A = a
  B = b
  Needed = 3
  Capacity = 2
  MaxEpoch = 4
SPECIFICATION FairSpec
INVARIANTS
  TypeOK
  NothingBreaks
PROPERTIES
  AgreementSpec
  EpochsComplete
