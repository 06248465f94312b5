SPECIFICATION FairSpec
CONSTANTS
  DaemonMin = 1
  DaemonMax = 3
  DaemonPodCapacity = 5
  ControllerMin = 1
  ControllerMax = 3
  ControllerPodCapacity = 4
  HeadroomNum = 6
  HeadroomDen = 5
  ScaleUpCooldown = 1
  ScaleDownCooldown = 2
  Loads = {4, 7, 30}
INVARIANTS
  TypeOK
PROPERTIES
  FollowsWhereEnginesDiffer
  LockKeepsReportedCount
  CutsSpaced
