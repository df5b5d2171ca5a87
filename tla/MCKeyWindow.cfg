CONSTANTS
  MaxJump = 12
  MaxOoo = 10
  MaxSent = 15
SPECIFICATION WindowSpec
INVARIANTS
  WindowTypeOK
  NoKeyTwice
  
  StoreBounded
CHECK_DEADLOCK FALSE
