SPECIFICATION MCSpec
CONSTANTS
  MaxConsecutiveFailures = 3
  HeartbeatTimeout = 8
  CooloffDuration = 15
INVARIANTS
  ClosedWithinBudget
  OneStreak
PROPERTY
  ImplementsBreaker
