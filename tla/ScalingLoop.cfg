SPECIFICATION FairSpec
CONSTANTS
  MinReplicas = 1
  MaxReplicas = 4
  PodCapacity = 5
  HeadroomNum = 6
  HeadroomDen = 5
  ScaleUpCooldown = 2
  ScaleDownCooldown = 4
  Loads = {0, 4, 5, 9, 30}
INVARIANTS
  ReportedTargetIsCurrent
PROPERTIES
  DownsSpaced
  UpsSpaced
  Settles
