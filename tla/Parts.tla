--------------------------------- MODULE Parts ---------------------------------
(***************************************************************************)
(* The parts of the system that share no state with another one, each as   *)
(* it runs by itself: the daemon's file tailer, the block list, and the    *)
(* components of the web site.  A behaviour is a behaviour of one of them, *)
(* chosen at the start; the others stay where they begin.                  *)
(***************************************************************************)
EXTENDS LogTailer, Blocklist, Session, DaemonStream, ChaosLab, LogConsole,
        TemplateStore, Topology, PolicyStudio, CrdPlayground, CopyBadges,
        ArchitectureDiagram, HeroPipeline

VARIABLE part   (* the one that runs                                       *)

partsVars == <<part, tailerVars, blocklistVars, sessionVars, streamVars, labVars,
               consoleVars, storeVars, topologyVars, studioVars, formVars,
               badgeVars, diagramVars, heroVars>>

PartNames ==
  {"tailer", "blocklist", "session", "stream", "lab", "console", "store",
   "topology", "studio", "form", "badges", "diagram", "hero"}

(* A template that was saved in the middle of everything.                  *)
SavedTemplates ==
  {[mode |-> "viral", rate |-> 5000, faults |-> {"crash", "api"}, autoScaling |-> "off",
    anomaly |-> "leak", cpuSlider |-> "hot", heapSlider |-> 1, heap |-> 1]}

PartsInit ==
  /\ part \in PartNames
  /\ TailerInit /\ BlocklistInit /\ SessionInit /\ StreamInit /\ LabInit
  /\ ConsoleInit /\ StoreInit /\ TopologyInit /\ StudioInit /\ FormInit
  /\ BadgesInit /\ DiagramInit /\ HeroInit
  /\ part # "session" => page = "home" /\ session = "none"
  /\ part # "stream" => server = "up" /\ support = "yes"

(* The parts that do not run.                                              *)
OthersIdle ==
  /\ UNCHANGED part
  /\ IF part = "tailer"    THEN TRUE ELSE UNCHANGED tailerVars
  /\ IF part = "blocklist" THEN TRUE ELSE UNCHANGED blocklistVars
  /\ IF part = "session"   THEN TRUE ELSE UNCHANGED sessionVars
  /\ IF part = "stream"    THEN TRUE ELSE UNCHANGED streamVars
  /\ IF part = "lab"       THEN TRUE ELSE UNCHANGED labVars
  /\ IF part = "console"   THEN TRUE ELSE UNCHANGED consoleVars
  /\ IF part = "store"     THEN TRUE ELSE UNCHANGED storeVars
  /\ IF part = "topology"  THEN TRUE ELSE UNCHANGED topologyVars
  /\ IF part = "studio"    THEN TRUE ELSE UNCHANGED studioVars
  /\ IF part = "form"      THEN TRUE ELSE UNCHANGED formVars
  /\ IF part = "badges"    THEN TRUE ELSE UNCHANGED badgeVars
  /\ IF part = "diagram"   THEN TRUE ELSE UNCHANGED diagramVars
  /\ IF part = "hero"      THEN TRUE ELSE UNCHANGED heroVars

PartsNext ==
  \/ part = "tailer"    /\ TailerNext    /\ OthersIdle
  \/ part = "blocklist" /\ BlocklistNext /\ OthersIdle
  \/ part = "session"   /\ SessionNext   /\ OthersIdle
  \/ part = "stream"    /\ StreamNext    /\ OthersIdle
  \/ part = "lab"       /\ LabNext       /\ OthersIdle
  \/ part = "console"   /\ ConsoleNext   /\ OthersIdle
  \/ part = "store"     /\ StoreNext     /\ OthersIdle
  \/ part = "topology"  /\ TopologyNext  /\ OthersIdle
  \/ part = "studio"    /\ StudioNext    /\ OthersIdle
  \/ part = "form"      /\ FormNext      /\ OthersIdle
  \/ part = "badges"    /\ BadgesNext    /\ OthersIdle
  \/ part = "diagram"   /\ DiagramNext   /\ OthersIdle
  \/ part = "hero"      /\ HeroNext      /\ OthersIdle

-----------------------------------------------------------------------------
(* What is fair of the parts.                                              *)

(* The goroutine is scheduled; the application finishes a line it began.   *)
TailerFairness ==
  /\ WF_tailerVars(part = "tailer" /\ TailerStep)
  /\ WF_tailerVars(part = "tailer" /\ WriteRest)

(* Time passes, and the cleanup's ticker fires again and again.            *)
BlocklistFairness ==
  /\ WF_blocklistVars(part = "blocklist" /\ BlocklistTick)
  /\ WF_blocklistVars(part = "blocklist" /\ CleanupExpired)

(* Every request is answered or fails, and timers fire.                    *)
SessionFairness ==
  /\ WF_sessionVars(part = "session" /\ HeaderAnswered)
  /\ WF_sessionVars(part = "session" /\ DashboardAnswered)
  /\ WF_sessionVars(part = "session" /\ RedirectAnswered("home"))
  /\ WF_sessionVars(part = "session" /\ RedirectAnswered("login"))
  /\ WF_sessionVars(part = "session" /\ (RequestRefused \/ RequestGranted))
  /\ WF_sessionVars(part = "session" /\ PushFires)

(* The browser opens or fails what it was asked to open, an armed timer    *)
(* fires, and React commits what was set.                                  *)
StreamFairness ==
  /\ WF_streamVars(part = "stream" /\ Transport)
  /\ WF_streamVars(part = "stream" /\ CommitState)

(* The hook delivers payloads, live or simulated, for ever (DaemonStream), *)
(* and renders follow.  Nothing is assumed of the tick: whether it gets to *)
(* fire before the next commit restarts it is not for the code to say.     *)
LabFairness ==
  /\ WF_labVars(part = "lab" /\ OnPayload)
  /\ WF_labVars(part = "lab" /\ Render)

(* Timeouts fire.                                                          *)
TimeoutFairness ==
  /\ \A b \in Badges : WF_badgeVars(part = "badges" /\ BadgeTimerFires(b))
  /\ WF_diagramVars(part = "diagram" /\ Timeouts)
  /\ WF_heroVars(part = "hero" /\ TimeoutFires)

PartsSpec ==
  /\ PartsInit /\ [][PartsNext]_partsVars
  /\ TailerFairness /\ BlocklistFairness /\ SessionFairness /\ StreamFairness
  /\ LabFairness /\ TimeoutFairness

-----------------------------------------------------------------------------
(* The type invariants of the parts.                                       *)
PartsTypeOK ==
  /\ part \in PartNames
  /\ TailerTypeOK /\ BlocklistTypeOK /\ SessionTypeOK /\ StreamTypeOK /\ LabTypeOK
  /\ ConsoleTypeOK /\ StoreTypeOK /\ TopologyTypeOK /\ StudioTypeOK /\ FormTypeOK
  /\ BadgesTypeOK /\ DiagramTypeOK /\ HeroTypeOK

(* A tailer that fell behind, found the file replaced or met half a line   *)
(* hands on every whole line at most once and none in pieces, unless it    *)
(* looked at a line that was still being written (server.go:141-167); and  *)
(* an address is blocked for the time of its last BlockIP, to the instant, *)
(* whether or not a cleanup ran (waf.go:35-92).                            *)
NothingTwiceNothingEarly ==
  /\ part = "tailer" => NothingTwice /\ WholeLinesStayWhole
  /\ part = "blocklist" => BlockedForItsTime

(* The simulator's pods stay within their limit, which a payload may lift  *)
(* and a tick and a click on a stale render pass by one each, and its CPU  *)
(* alert stands exactly while the CPU does (dashboard/page.tsx:270-287,    *)
(* 528, 783-833).                                                          *)
PodsAndAlertsAreCurrent == part = "lab" => PodsBounded /\ CpuAlertIsCurrent

(* The lists the dashboard keeps beside something else stay in step with   *)
(* it: the console with the newest lines, the templates with their names   *)
(* and with what a reload of another tab finds, the topology's drawer and  *)
(* zones with the pods (dashboard/page.tsx:225-391, ClusterTopologyMap.tsx).*)
ListsAreInStep ==
  /\ part = "console" => KeepsNewest
  /\ part = "store" => NamesAreKeys /\ LastWriterSurvivesReload
  /\ part = "topology" => DrawerIsInPlace /\ PlacementIsFair

(* What the studio and the playground hand out is what the admission chain *)
(* of the cluster makes of it, but for fractions: a badge or a "valid" mark*)
(* that it can earn, the same limits in every back end                     *)
(* (PolicyStudio.tsx:77-212, CrdPlayground.tsx:27-167, admission.go).      *)
ManifestsAreSound ==
  /\ part = "studio" => BadgeIsEarned /\ BackendsAgree
  /\ part = "form" => ValidatorAgreesWithWebhook /\ ExportsAreSound

(* Everything an animation draws at one moment belongs to one stage of its *)
(* story, no click multiplies its timers beyond the one a resume adds, and *)
(* no "copied" badge stands on what the clipboard refused unless it was    *)
(* shown without asking (ArchitectureDiagram.tsx, HeroPipelineFlow.tsx).   *)
AnimationsAreInStep ==
  /\ part = "diagram" => ChainsBounded /\ TellsOneStory
  /\ part = "hero" => OneTimeoutWhilePlaying /\ PipelineTellsOneStory
  /\ part = "badges" => HomeBadgesAreTrue

-----------------------------------------------------------------------------
(* The daemon's tailer gets to the end of a log that is left alone, and    *)
(* the cleanup drops every entry that expired (server.go:147-166,          *)
(* waf.go:75-92).                                                          *)
BackgroundWorkEnds ==
  /\ part = "tailer" => TailerCatchesUp
  /\ part = "blocklist" => EntriesGo

(* Nobody waits at the sign-in for ever, and who holds a session reaches   *)
(* the dashboard (sign-in-flow-1.tsx:358-430, dashboard/page.tsx:165-202). *)
VisitorsGetIn == part = "session" => SignInEnds /\ SignedInReachDashboard

(* A page left open on a daemon that comes back and stays ends up          *)
(* connected for good (useDaemonStream.ts:189-251).                        *)
StreamReconnects == part = "stream" => Reconnects

(* As long as the tick goes on firing, every scenario ends and an emptied  *)
(* cluster comes back (dashboard/page.tsx:437-449, 589-684, 737-742).      *)
LabRecovers == part = "lab" /\ TickGoesOn => ScenarioEnds /\ ClusterRevives

(* Left running, the two animations tell their story to the end again and  *)
(* again, and every badge comes down (ArchitectureDiagram.tsx:32-60,       *)
(* HeroPipelineFlow.tsx:104-112, PolicyStudio.tsx:214-225).                *)
ScreensGoOn ==
  /\ part = "diagram" => LoopGoesOn
  /\ part = "hero" => CycleVisitsAll
  /\ part = "badges" => BadgeComesDown

(* What one event may never do: shorten the back-off, leave a gap in an    *)
(* export, change several parameters at once (but for a preset), take a    *)
(* snippet's badge down early, skip a stage of the story or move it while  *)
(* it is paused.                                                           *)
StepsKeepTheirLimits ==
  /\ BackoffGrows /\ ExportHasNoGap /\ PresetRepairs /\ SnippetKeepsItsTime
  /\ InOrderUntilResumed /\ PausedIsStill
=============================================================================
