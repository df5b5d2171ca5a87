CONSTANTS
  Procs = {p1, p2}
  Accounts = {a1}
  NoFile = NoFile
  NoAccount = NoAccount
  Commands = {"register", "verify"}
  MaxFaults = 0
SPECIFICATION Spec
INVARIANTS AdvertisedIsKept
CHECK_DEADLOCK FALSE
