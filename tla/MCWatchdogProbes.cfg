SPECIFICATION MCSpec
CONSTANTS
  MaxConsecutiveFailures = 3
  HeartbeatTimeout = 2
  CooloffDuration = 3
PROPERTY
  RecoveryNeedsTwoProbes
