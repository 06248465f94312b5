SPECIFICATION Spec
CONSTANTS
  Workers = {w1, w2}
  Readers = {r1}
  Streams = {}
  MinReplicas = 1
  MaxReplicas = 2
  ThreatCap = 1
  MaxAnomalies = 2
PROPERTY
  NoScaleDownWhileLocked
