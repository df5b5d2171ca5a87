CONSTANTS
  Procs = {p1, p2}
  Sessions = {s1, s2}
  NoProc = NoProc
  NoTicket = NoTicket
  MaxCounter = 2
SPECIFICATION FairSpec
INVARIANTS TypeOK NoCounterReuse
PROPERTIES NeverRollsBack AtomicSpec LockReleased
