CONSTANTS
  Procs = {p1, p2, p3}
  Accounts = {a1, a2}
  NoFile = NoFile
  NoAccount = NoAccount
  Commands = {"link", "register", "verify", "use"}
  MaxFaults = 2
SPECIFICATION Spec
SYMMETRY Symmetric
INVARIANTS TypeOK MigrationWhole RegisteredIsKept
CHECK_DEADLOCK FALSE
