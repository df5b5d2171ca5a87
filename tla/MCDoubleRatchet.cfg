CONSTANTS
  A = a
  B = b
  NoSession = NoSession
  MaxSkip = 1
  Quota <- MCQuota
  MaxRepeats = 2
  MaxForgets = 1
SPECIFICATION Spec
INVARIANTS
  TypeOK
  KeysAreFresh
  InSessionReadable
  OpenedOnce
  KeysAreForgotten
CHECK_DEADLOCK FALSE
