CONSTANTS
  Senders = {p1, p2}
  Devices = {d1, d2}
  MaxSends = 3
  MaxJoins = 2
  MaxReinstalls = 1
  MaxOpens = 1
  MaxFaults = 1
SPECIFICATION Spec
SYMMETRY Symmetry
INVARIANTS TypeOK CachedHaveSessions RetrySuffices ReadableAfterChanges
CHECK_DEADLOCK FALSE
