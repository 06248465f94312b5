SPECIFICATION FairSpec
CONSTANTS
  Workers = {w1}
  Readers = {r1, r2}
  Streams = {r2}
  MinReplicas = 1
  MaxReplicas = 2
  ThreatCap = 1
  MaxAnomalies = 2
INVARIANTS
  ThreatsBounded
PROPERTIES
  AnswersAreSnapshots
  LinesComplete
  LoopDecides
