CONSTANTS
  Envelopes <- MCEnvelopes
  Kind <- MCKind
  Base <- MCBase
  Own = "ours"
  NoSession = NoSession
  NoEnv = NoEnv
  QueueEmpty = QueueEmpty
  Modes <- MCModes
  MaxMessages = 2
  MaxFaults = 1
  MaxCrashes = 1
SPECIFICATION FairSpec
INVARIANTS TypeOK AckedIsSafe NothingLostUnlessKilled AckedIsReturned
PROPERTIES MailboxDrains PlainUndecryptablePreserved CallbackEnds
CHECK_DEADLOCK FALSE
