CONSTANTS
  Envelopes <- MCEnvelopes
  Kind <- MCKind
  Base <- MCBase
  Own = "ours"
  NoSession = NoSession
  NoEnv = NoEnv
  QueueEmpty = QueueEmpty
  Modes <- PoisonModes
  MaxMessages = 2
  MaxFaults = 0
  MaxCrashes = 1
SPECIFICATION FairSpec
PROPERTIES UndecryptablePreserved
CHECK_DEADLOCK FALSE
