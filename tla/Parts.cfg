SPECIFICATION PartsSpec
CONSTANTS
  MaxLines = 2
  MaxMishaps = 2
  Ips = {"near", "far"}
  Durations = {1, 3}
  MaxVisitorActs = 3
  ReconnectMs = 4000
  EnableSimulation = "on"
  MinTarget = 2
  MaxTarget = 4
  StartReplicas = 3
  LiveReplicas = {0, 6}
  MaxPods = 3
  Baseline = 2
  HeapSteps = 2
  LiveCounts = {0, 4}
  MaxClicks = 2
  Templates <- SavedTemplates
  MaxLogs = 2
  MaxEntries = 3
  Tabs = {"left", "right"}
  TrimmedNames = {"day", "night"}
  MaxSaves = 2
  MaxListed = 4
  MaxCreated = 6
  StudioRates = {20, 500}
  StudioHeadrooms = {100, 200}
  StudioCounts = {0, 13, 16}
  MaxStudioEdits = 2
  FormRates = {20, 500}
  FormHeadrooms = {100, 250}
  FormCounts = {0, 3, 62}
  MaxFormEdits = 2
  Waiting = {"sandbox"}
  Eager = {"studio"}
  Clearing = {"snippet"}
  MaxCopies = 3
  MaxPresses = 3
  MaxHeroClicks = 3
INVARIANTS
  PartsTypeOK
  NothingTwiceNothingEarly
  EveryoneAgrees
  ViewFollowsTransport
  PodsAndAlertsAreCurrent
  ListsAreInStep
  ManifestsAreSound
  AnimationsAreInStep
PROPERTIES
  BackgroundWorkEnds
  VisitorsGetIn
  StreamReconnects
  ScenarioRestores
  LabRecovers
  ScreensGoOn
  StepsKeepTheirLimits
CHECK_DEADLOCK FALSE
