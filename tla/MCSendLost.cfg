CONSTANTS
  Senders = {p1}
  Devices = {d1, d2}
  MaxSends = 2
  MaxJoins = 0
  MaxReinstalls = 0
  MaxOpens = 0
  MaxFaults = 1
SPECIFICATION Spec
SYMMETRY Symmetry
INVARIANTS AcceptedReadable
CHECK_DEADLOCK FALSE
