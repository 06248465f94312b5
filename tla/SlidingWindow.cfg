SPECIFICATION WindowSpec
CONSTANTS
  BufferSize = 3
  MaxLate = 2
  Classes = {"5xx"}
  Records <- SampledRecords
  MaxSamples = 1
  MaxTime = 4
  MaxPerSecond = 2
CHECK_DEADLOCK FALSE
INVARIANTS
  RingIsExact
  SnapshotIsExact
