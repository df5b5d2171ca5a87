CONSTANTS
  Runs = {r1, r2}
  Alerts <- MCAlerts
  Pushable <- MCPushable
  Critical <- MCCritical
  MaxPerMessage = 1
  Day = 3
  Windows <- MCWindows
  MaxFires = 3
  MaxClears = 1
  MaxFaults = 1
SPECIFICATION FairSpec
INVARIANTS TypeOK NotifiedWasPushed
PROPERTIES NoRepush EventuallyPushed
