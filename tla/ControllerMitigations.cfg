SPECIFICATION FairSpec
CONSTANTS
  MinReplicas = 1
  MaxReplicas = 1
  PodCapacity = 2
  HeadroomNum = 1
  HeadroomDen = 1
  ScaleUpCooldown = 0
  ScaleDownCooldown = 0
  MaxConsecutiveFailures = 2
  HeartbeatTimeout = 3
  CooloffDuration = 4
  ReconcileInterval = 1
  ClientTimeout = 1
  Stalls = {1}
  Loads = {0}
  Counts = {0}
  IPs = {ip1}
  Webhook = "unset"
PROPERTIES
  MitigationsExpire
