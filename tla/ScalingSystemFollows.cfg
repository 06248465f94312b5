SPECIFICATION CalmSpec
CONSTANTS
  DaemonMin = 1
  DaemonMax = 4
  DaemonPodCapacity = 5
  ControllerMin = 1
  ControllerMax = 4
  ControllerPodCapacity = 4
  HeadroomNum = 6
  HeadroomDen = 5
  ScaleUpCooldown = 1
  ScaleDownCooldown = 3
  Loads = {7, 30}
PROPERTIES
  WorkloadFollowsLoad
