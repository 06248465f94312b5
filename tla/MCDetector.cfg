SPECIFICATION DetectorSpec
CONSTANTS
  IPs = {ip1, ip2}
  FailWindow = 1
  FailLimit = 2
  LockDuration = 2
  MaxLate = 1
  MaxTime = 4
  MaxPerSecond = 2
  ShortSpan = 5
  LongSpan = 30
  SurgeRPS = 50
  SurgeRatio = 2
  ErrorSample = 20
  ErrorPercent = 5
  Windows <- LoadWindows
CHECK_DEADLOCK FALSE
INVARIANTS
  FloodIsBlocked
  LockCoversBlocks
PROPERTIES
  BlockedOnlyByFlood
