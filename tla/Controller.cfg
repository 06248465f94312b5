SPECIFICATION FairSpec
CONSTANTS
  MinReplicas = 1
  MaxReplicas = 2
  PodCapacity = 2
  HeadroomNum = 1
  HeadroomDen = 1
  ScaleUpCooldown = 0
  ScaleDownCooldown = 0
  MaxConsecutiveFailures = 2
  HeartbeatTimeout = 4
  CooloffDuration = 7
  ReconcileInterval = 1
  ClientTimeout = 2
  Stalls = {1, 5}
  Loads = {9}
  Counts = {0, 7}
  IPs = {}
  Webhook = "set"
INVARIANTS
  FailsafeEngages
  PatchesInBounds
PROPERTIES
  NoSpuriousTrip
  NoPatchWhileOpen
  Recovers
